----------------------- MODULE ReconciliationPreview -----------------------
(***************************************************************************)
(* One preview of a LINE contact's reconciliation.  It asks the database    *)
(* who the current contact is mapped to, opens an OAuth session, and reads  *)
(* from HighLevel: the mapped contact, the custom-field definitions, one    *)
(* search per supplied identity (at the same time), the one candidate, and  *)
(* the records associated with it (at the same time).  Each answer ends the *)
(* preview with a decision or lets it go on; a timer answers in its place   *)
(* when the deadline has passed, and what is still out goes on behind it.   *)
(*                                                                         *)
(* The reads share one session: a read that is answered 401 waits for the   *)
(* session's single refresh and is sent once more with the new token.       *)
(*                                                                         *)
(* An action is what runs from one await to the next.  Each answer of the   *)
(* database and of HighLevel is chosen when it arrives, and never arrives   *)
(* if its action is never taken.  Identities, values and users are names;   *)
(* "" is a missing value.  The timer never fires before the deadline.       *)
(***************************************************************************)
EXTENDS Naturals, FiniteSets

CONSTANTS
  Risks,        \* associated records that are read, some of riskScopes' domain
  Others,       \* contacts other than the current one
  Current,      \* the contact the request names
  Users,        \* well-formed LINE user ids
  Mapped,       \* user ids a profile may hold
  Contacts,     \* what HighLevel may answer for a contact
  Definitions,  \* what it may answer for the custom-field definitions
  Emails, Phones, \* what a request may supply, "" for nothing
  Scopes,       \* sets of scopes a token may have
  None          \* no answer yet, nobody

riskScopes ==
  [conversations |-> "conversations.readonly", notes |-> "contacts.readonly",
   tasks |-> "contacts.readonly", opportunities |-> "opportunities.readonly",
   appointments |-> "contacts.readonly", orders |-> "payments/orders.readonly",
   transactions |-> "payments/transactions.readonly", invoices |-> "invoices.readonly"]

ASSUME RisksAssumption == Risks \subseteq DOMAIN riskScopes
ASSUME ContactsAssumption == Current \notin Others /\ IsFiniteSet(Others)

Searches == {"email", "phone"}
ContactReads == {"master", "candidate"}
Reads == Risks \cup Searches \cup ContactReads \cup {"definitions"}
requiredScope(r) ==
  IF r \in Risks THEN riskScopes[r]
  ELSE IF r = "definitions" THEN "locations/customFields.readonly" ELSE "contacts.readonly"

VARIABLES
  email, phone,   \* the identity the request supplies
  place,          \* what the preview waits for
  answer,         \* its decision, None until it has answered
  late,           \* the deadline has passed
  byDeadline,     \* the timer answered
  user,           \* the LINE user the current contact is mapped to
  free,           \* no profile is mapped to the candidate
  master,         \* the mapped contact as it was read
  candidate,      \* the candidate as it was read
  definitions,    \* the custom-field definitions as they were read
  found,          \* the contacts each search found with the identity
  refresh,        \* the session's one refresh
  granted,        \* the scopes of the stored token and of the refreshed one
  active,         \* the token new reads use: 1 or, refreshed, 2
  at,             \* where each read is
  with,           \* the token it is sent with
  result,         \* its result
  exchanges       \* how often the refresh token was sent to HighLevel

request == <<email, phone>>
progress == <<place, answer, byDeadline>>
evidence == <<user, free, master, candidate, definitions, found>>
session == <<refresh, granted, active, exchanges>>
reads == <<at, with, result>>
vars == <<request, progress, late, evidence, session, reads>>

Decisions == {"UNSUPPORTED_SOURCE", "INVALID_EMAIL", "INVALID_PHONE", "NO_IDENTIFIER",
              "CROSS_TENANT_BLOCKED", "MAPPING_NOT_FOUND", "AMBIGUOUS",
              "MAPPING_CONTACT_MISMATCH", "ALREADY_RECONCILED", "NO_MATCH",
              "IDENTITY_CONFLICT", "MANUAL_COMPLEX", "AUTO_SIMPLE"}
Errors == {"MISSING_SCOPE", "UNAVAILABLE", "MALFORMED", "NOT_FOUND", "CROSS_TENANT"}
ASSUME NoneAssumption == None \notin Decisions

Databases == {"tenants", "contact", "line", "mapping"}
Places == Databases \cup {"request", "token", "session", "master", "definitions",
                          "search", "candidate", "risks", "done"}

Init ==
  /\ email \in Emails /\ phone \in Phones
  /\ place = "request" /\ answer = None /\ late = FALSE /\ byDeadline = FALSE
  /\ user = None /\ free = FALSE
  /\ master = None /\ candidate = None /\ definitions = None
  /\ found = [s \in Searches |-> {}]
  /\ refresh = "none" /\ granted = [n \in {1, 2} |-> {}] /\ active = 1
  /\ exchanges = 0
  /\ at = [r \in Reads |-> "idle"] /\ with = [r \in Reads |-> 1]
  /\ result = [r \in Reads |-> None]

-----------------------------------------------------------------------------
(* What the answers mean *)

\* An exact count and the rows that came with it, two at most.
assessExactCount(exactCount, rows) ==
  CASE exactCount = 0 -> IF rows = 0 THEN "ZERO" ELSE "INCONSISTENT"
    [] exactCount = 1 -> IF rows = 1 THEN "ONE" ELSE "INCONSISTENT"
    [] exactCount > 1 -> "MULTIPLE"

Counted(kind) == \E exactCount, rows \in 0..2 : assessExactCount(exactCount, rows) = kind

\* The line: tags of a contact.
TagState(c) ==
  IF \E t \in c.tags : t \notin Users THEN "MALFORMED"
  ELSE IF c.tags = {} THEN "NONE"
  ELSE IF Cardinality(c.tags) > 1 THEN "AMBIGUOUS"
  ELSE IF user \notin Users THEN "MALFORMED"
  ELSE IF c.tags = {user} THEN "MATCH" ELSE "DIFFERENT"

MatchesIdentity(c) == (email # "" /\ c.email = email) \/ (phone # "" /\ c.phone = phone)

Differ(v, w) == v # "" /\ w # "" /\ v # w

StandardIdentityConflict ==
  \/ Differ(email, master.email) \/ Differ(email, candidate.email)
  \/ Differ(phone, master.phone) \/ Differ(phone, candidate.phone)
  \/ Differ(master.email, candidate.email) \/ Differ(master.phone, candidate.phone)

\* A contact's custom fields can be read against the definitions.
FieldsReadable(c) == ~definitions.ambiguous /\ DOMAIN c.fields \subseteq definitions.defined

LineFieldWrong(c) == \E f \in definitions.line \cap DOMAIN c.fields : c.fields[f] \notin {"", user}

\* Two values of one field count as a conflict unless it is ignored; a wrong
\* line identity is found by LineFieldWrong.
BusinessConflict ==
  \E f \in DOMAIN master.fields \cap DOMAIN candidate.fields :
    f \notin definitions.ignored \cup definitions.line /\ Differ(master.fields[f], candidate.fields[f])

Unclassified == master.unclassified \/ candidate.unclassified

ProtectedLost == candidate.protected \notin {"", master.protected}

Supplied == {s \in Searches : IF s = "email" THEN email # "" ELSE phone # ""}
Matches == UNION {found[s] : s \in Supplied}
Distinct == Matches \ {Current}
-----------------------------------------------------------------------------
(* The end of a preview, and the reads it starts *)

Finish(decision) ==
  /\ place' = "done"
  /\ answer' = IF answer = None THEN decision ELSE answer
  /\ UNCHANGED byDeadline

GoOn(to) == place' = to /\ UNCHANGED <<answer, byDeadline>>

\* Reads start together, each if its scope is there.
Start(some) ==
  LET Sent(r) == requiredScope(r) \in granted'[active']
  IN /\ at' = [r \in Reads |-> IF r \notin some THEN at[r] ELSE IF Sent(r) THEN "out" ELSE "back"]
     /\ with' = [r \in Reads |-> IF r \in some /\ Sent(r) THEN active' ELSE with[r]]
     /\ result' = [r \in Reads |-> IF r \in some /\ ~Sent(r) THEN "MISSING_SCOPE" ELSE result[r]]

\* No HighLevel read starts once the deadline has passed.
Ask(some, to) ==
  IF late THEN Finish("MANUAL_COMPLEX") /\ UNCHANGED reads
          ELSE GoOn(to) /\ Start(some)

Decides(decision) == Finish(decision) /\ UNCHANGED reads

-----------------------------------------------------------------------------
(* The request and the database *)

\* Source, e-mail and phone are checked before anything is read.
Request ==
  /\ place = "request"
  /\ \/ \E d \in {"UNSUPPORTED_SOURCE", "INVALID_EMAIL", "INVALID_PHONE"} :
          /\ d = "INVALID_EMAIL" => email # ""
          /\ d = "INVALID_PHONE" => phone # ""
          /\ Finish(d)
     \/ Supplied = {} /\ Finish("NO_IDENTIFIER")
     \/ Supplied # {} /\ GoOn("tenants")
  /\ UNCHANGED <<request, late, evidence, session, reads>>

Tenants ==
  /\ place = "tenants"
  /\ \/ Finish("MAPPING_NOT_FOUND")
     \/ Finish("CROSS_TENANT_BLOCKED")
     \/ GoOn("contact")
  /\ UNCHANGED <<request, late, evidence, session, reads>>

\* The outcomes that end a count of the mapping.
CountEnds(none) ==
  \/ Counted("ZERO") /\ Finish(none)
  \/ Counted("MULTIPLE") /\ Finish("AMBIGUOUS")
  \/ Counted("INCONSISTENT") /\ Finish("MANUAL_COMPLEX")

ContactMapping ==
  /\ place = "contact"
  /\ \/ CountEnds("MAPPING_NOT_FOUND") /\ UNCHANGED user
     \/ Finish("MAPPING_NOT_FOUND") /\ UNCHANGED user  \* the row has no user
     \/ \E u \in Mapped : user' = u /\ GoOn("line")
  /\ UNCHANGED <<request, late, free, master, candidate, definitions, found, session, reads>>

\* The only profile of the user must be the one found by the contact.
LineMapping ==
  /\ place = "line"
  /\ \/ CountEnds("MAPPING_NOT_FOUND")
     \/ Finish("MAPPING_CONTACT_MISMATCH")
     \/ IF late THEN Finish("MANUAL_COMPLEX") ELSE GoOn("token")
  /\ UNCHANGED <<request, late, evidence, session, reads>>

\* A query that fails ends the preview.
QueryFails ==
  /\ place \in Databases
  /\ Finish("MANUAL_COMPLEX")
  /\ UNCHANGED <<request, late, evidence, session, reads>>

-----------------------------------------------------------------------------
(* The session and its one refresh *)

\* The first caller sends the refresh token; every other shares its promise.
Refresh ==
  IF refresh # "none" THEN UNCHANGED <<refresh, exchanges>>
  ELSE IF late THEN refresh' = "failed" /\ UNCHANGED exchanges
  ELSE refresh' = "exchange" /\ exchanges' = exchanges + 1

StoredToken ==
  /\ place = "token"
  /\ \/ Finish("MANUAL_COMPLEX") /\ UNCHANGED <<session, reads>>        \* no token, no refresh token
     \/ Finish("CROSS_TENANT_BLOCKED") /\ UNCHANGED <<session, reads>>  \* another tenant's or location's
     \/ /\ \E s \in Scopes : granted' = [granted EXCEPT ![1] = s]
        /\ UNCHANGED <<refresh, active, exchanges>>
        /\ Ask({"master"}, "master")
     \/ GoOn("session") /\ Refresh /\ UNCHANGED <<granted, active, reads>>  \* expired or close to it
  /\ UNCHANGED <<request, late, evidence>>

\* HighLevel's answer to the exchange: refused, another location's, without a
\* usable expiry, or good; after the deadline it is dropped.
Exchanged ==
  /\ refresh = "exchange"
  /\ \/ refresh' \in {"failed"} \cup (IF late THEN {} ELSE {"foreign"}) /\ UNCHANGED granted
     \/ /\ ~late /\ refresh' = "save"
        /\ \E s \in Scopes : granted' = [granted EXCEPT ![2] = s]
  /\ UNCHANGED <<request, progress, late, evidence, active, exchanges, reads>>

\* A pair saved after the deadline is not used.
SaveToken ==
  /\ refresh = "save"
  /\ refresh' \in {"failed"} \cup (IF late THEN {} ELSE {"saved"})
  /\ UNCHANGED <<request, progress, late, evidence, granted, active, exchanges, reads>>

Opened ==
  /\ place = "session"
  /\ \/ refresh = "failed" /\ Decides("MANUAL_COMPLEX") /\ UNCHANGED active
     \/ refresh = "foreign" /\ Decides("CROSS_TENANT_BLOCKED") /\ UNCHANGED active
     \/ refresh = "saved" /\ active' = 2 /\ UNCHANGED granted /\ Ask({"master"}, "master")
  /\ UNCHANGED <<request, late, evidence, refresh, granted, exchanges>>

-----------------------------------------------------------------------------
(* A HighLevel read *)

Out(r) == at[r] \in {"out", "again"}

\* A read's token ends with it.
Back(r, s) ==
  /\ at' = [at EXCEPT ![r] = "back"]
  /\ with' = [with EXCEPT ![r] = 1]
  /\ result' = [result EXCEPT ![r] = s]

\* What a read may bring when it was understood.
Learns(r) ==
  /\ IF r = "master" THEN \E c \in Contacts : master' = c ELSE UNCHANGED master
  /\ IF r = "candidate" THEN \E c \in Contacts : candidate' = c ELSE UNCHANGED candidate
  /\ IF r = "definitions" THEN \E d \in Definitions : definitions' = d ELSE UNCHANGED definitions
  /\ IF r \in Searches
     THEN \E ids \in SUBSET ({Current} \cup Others) : found' = [found EXCEPT ![r] = ids]
     ELSE UNCHANGED found

Understood(r) ==
  IF r \in Risks THEN {"CLEAR", "FOUND"}
  ELSE IF r \in Searches THEN {"ok", "foreign"} ELSE {"ok"}

Answered(r) ==
  /\ Out(r)
  /\ \E s \in Understood(r) : Back(r, s)
  /\ Learns(r)
  /\ UNCHANGED <<request, progress, late, user, free, session>>

\* 403, 404 of a contact, any other error or no answer in time, bad JSON.
Failed(r) ==
  /\ Out(r)
  /\ \E s \in {"MISSING_SCOPE", "UNAVAILABLE", "MALFORMED"}
                 \cup (IF r \in ContactReads THEN {"NOT_FOUND"} ELSE {}) : Back(r, s)
  /\ UNCHANGED <<request, progress, late, evidence, session>>

\* Mutant: a read that comes too late for the refresh starts another.
Unauthorized_Again(r) ==
  /\ at[r] = "out"
  /\ at' = [at EXCEPT ![r] = "refresh"]
  /\ IF refresh \in {"none", "saved"} /\ ~late
     THEN refresh' = "exchange" /\ exchanges' = exchanges + 1 ELSE Refresh
  /\ UNCHANGED <<request, progress, late, evidence, granted, active, with, result>>

\* The first 401 of a read asks for the refresh, the second is a failure.
Unauthorized(r) ==
  /\ at[r] = "out"
  /\ at' = [at EXCEPT ![r] = "refresh"]
  /\ Refresh
  /\ UNCHANGED <<request, progress, late, evidence, granted, active, with, result>>

\* Mutant: the deadline is checked before the refresh only.
Resend_Late(r) ==
  /\ active' = 2
  /\ IF requiredScope(r) \notin granted[2] THEN Back(r, "MISSING_SCOPE")
     ELSE /\ at' = [at EXCEPT ![r] = "again"]
          /\ with' = [with EXCEPT ![r] = 2]
          /\ UNCHANGED result

Resend(r) ==
  /\ active' = 2
  /\ IF requiredScope(r) \notin granted[2] THEN Back(r, "MISSING_SCOPE")
     ELSE IF late THEN Back(r, "UNAVAILABLE")
     ELSE /\ at' = [at EXCEPT ![r] = "again"]
          /\ with' = [with EXCEPT ![r] = 2]
          /\ UNCHANGED result

\* The shared refresh has ended; one that was sent with its token would need
\* a second refresh.
Refreshed(r) ==
  /\ at[r] = "refresh"
  /\ \/ /\ refresh = "failed" \/ (refresh = "saved" /\ with[r] = 2)
        /\ Back(r, "UNAVAILABLE") /\ UNCHANGED active
     \/ refresh = "foreign" /\ Back(r, "CROSS_TENANT") /\ UNCHANGED active
     \/ refresh = "saved" /\ with[r] = 1 /\ Resend(r)
  /\ UNCHANGED <<request, progress, late, evidence, refresh, granted, exchanges>>

-----------------------------------------------------------------------------
(* What the preview does with what it read *)

MasterRead ==
  /\ place = "master" /\ at["master"] = "back"
  /\ UNCHANGED <<request, late, evidence, session>>
  /\ IF result["master"] = "NOT_FOUND" THEN Decides("MAPPING_NOT_FOUND")
     ELSE IF result["master"] # "ok" THEN Decides("MANUAL_COMPLEX")
     ELSE IF master.where # "here" THEN Decides("CROSS_TENANT_BLOCKED")
     ELSE IF TagState(master) = "MALFORMED" THEN Decides("MANUAL_COMPLEX")
     ELSE IF TagState(master) = "AMBIGUOUS" THEN Decides("AMBIGUOUS")
     ELSE IF TagState(master) = "DIFFERENT" THEN Decides("IDENTITY_CONFLICT")
     ELSE Ask({"definitions"}, "definitions")

DefinitionsRead ==
  /\ place = "definitions" /\ at["definitions"] = "back"
  /\ UNCHANGED <<request, late, evidence, session>>
  /\ IF result["definitions"] = "ok" /\ FieldsReadable(master)
     THEN Ask(Supplied, "search") ELSE Decides("MANUAL_COMPLEX")

\* One search that fails decides; the other may still be out.
SearchFails ==
  /\ place = "search"
  /\ \E s \in Supplied : at[s] = "back" /\ result[s] \in Errors
  /\ Decides("MANUAL_COMPLEX")
  /\ UNCHANGED <<request, late, evidence, session>>

Searched ==
  /\ place = "search"
  /\ \A s \in Supplied : at[s] = "back" /\ result[s] \in {"ok", "foreign"}
  /\ UNCHANGED <<request, late, evidence, session>>
  /\ IF \E s \in Supplied : result[s] = "foreign" THEN Decides("CROSS_TENANT_BLOCKED")
     ELSE IF Cardinality(Distinct) > 1 THEN Decides("AMBIGUOUS")
     ELSE IF Cardinality(Distinct) = 1 THEN Ask({"candidate"}, "candidate")
     ELSE IF LineFieldWrong(master) THEN Decides("IDENTITY_CONFLICT")
     ELSE IF Current \in Matches \/ MatchesIdentity(master) THEN Decides("ALREADY_RECONCILED")
     ELSE Decides("NO_MATCH")

CandidateRead ==
  /\ place = "candidate" /\ at["candidate"] = "back"
  /\ IF result["candidate"] # "ok" THEN Finish("MANUAL_COMPLEX")
     ELSE IF candidate.where # "here" THEN Finish("CROSS_TENANT_BLOCKED")
     ELSE IF ~MatchesIdentity(candidate) THEN Finish("MANUAL_COMPLEX")
     ELSE GoOn("mapping")
  /\ UNCHANGED <<request, late, evidence, session, reads>>

\* Nobody is mapped to the candidate: it is compared with the mapped contact.
Compared ==
  IF TagState(candidate) = "MALFORMED" THEN Decides("MANUAL_COMPLEX")
  ELSE IF TagState(candidate) = "AMBIGUOUS" THEN Decides("AMBIGUOUS")
  ELSE IF \/ TagState(candidate) = "DIFFERENT" \/ StandardIdentityConflict
          \/ FieldsReadable(candidate) /\ (LineFieldWrong(master) \/ LineFieldWrong(candidate))
  THEN Decides("IDENTITY_CONFLICT")
  ELSE IF ~FieldsReadable(candidate) \/ BusinessConflict \/ Unclassified \/ ProtectedLost
  THEN Decides("MANUAL_COMPLEX")
  ELSE Ask(Risks, "risks")

CandidateMapping ==
  /\ place = "mapping"
  /\ UNCHANGED <<request, late, user, master, candidate, definitions, found, session>>
  /\ \/ /\ Counted("MULTIPLE") \/ Counted("INCONSISTENT")
        /\ Decides("AMBIGUOUS") /\ UNCHANGED free
     \/ /\ Counted("ONE")
        /\ \/ Decides("MANUAL_COMPLEX")     \* the row has no user
           \/ Decides("IDENTITY_CONFLICT")  \* another user
           \/ Decides("AMBIGUOUS")          \* the same user
        /\ UNCHANGED free
     \/ Counted("ZERO") /\ free' = TRUE /\ Compared

\* Mutant: a read whose result is uncertain is taken for clear.
RisksRead_Found ==
  /\ place = "risks"
  /\ \A r \in Risks : at[r] = "back"
  /\ Decides(IF \E r \in Risks : result[r] = "FOUND" THEN "MANUAL_COMPLEX" ELSE "AUTO_SIMPLE")
  /\ UNCHANGED <<request, late, evidence, session>>

RisksRead ==
  /\ place = "risks"
  /\ \A r \in Risks : at[r] = "back"
  /\ Decides(IF \A r \in Risks : result[r] = "CLEAR" THEN "AUTO_SIMPLE" ELSE "MANUAL_COMPLEX")
  /\ UNCHANGED <<request, late, evidence, session>>

-----------------------------------------------------------------------------
(* Time *)

DeadlinePasses ==
  /\ place # "request" /\ ~late
  /\ late' = TRUE
  /\ UNCHANGED <<request, progress, evidence, session, reads>>

Deadline ==
  /\ late /\ answer = None
  /\ answer' = "MANUAL_COMPLEX" /\ byDeadline' = TRUE
  /\ UNCHANGED <<request, place, late, evidence, session, reads>>

-----------------------------------------------------------------------------
Reading(r) == Answered(r) \/ Failed(r) \/ Unauthorized(r) \/ Refreshed(r)

Next ==
  \/ Request \/ Tenants \/ ContactMapping \/ LineMapping \/ QueryFails
  \/ StoredToken \/ Exchanged \/ SaveToken \/ Opened
  \/ \E r \in Reads : Reading(r)
  \/ MasterRead \/ DefinitionsRead \/ SearchFails \/ Searched
  \/ CandidateRead \/ CandidateMapping \/ RisksRead
  \/ DeadlinePasses \/ Deadline

Spec == Init /\ [][Next]_vars

-----------------------------------------------------------------------------
(* What must hold *)

\* Every variable holds values of its type: places, decisions, read results.
TypeOK ==
  /\ email \in Emails /\ phone \in Phones
  /\ place \in Places /\ answer \in Decisions \cup {None}
  /\ late \in BOOLEAN /\ byDeadline \in BOOLEAN
  /\ user \in Mapped \cup {None} /\ free \in BOOLEAN
  /\ master \in Contacts \cup {None} /\ candidate \in Contacts \cup {None}
  /\ definitions \in Definitions \cup {None}
  /\ found \in [Searches -> SUBSET ({Current} \cup Others)]
  /\ refresh \in {"none", "exchange", "save", "saved", "failed", "foreign"}
  /\ granted \in [{1, 2} -> Scopes \cup {{}}] /\ active \in {1, 2} /\ exchanges \in Nat
  /\ at \in [Reads -> {"idle", "out", "refresh", "again", "back"}]
  /\ with \in [Reads -> {1, 2}]
  /\ result \in [Reads -> Errors \cup {"ok", "foreign", "CLEAR", "FOUND", None}]

OneValue(values) == Cardinality(values \ {""}) <= 1
Value(c, f) == IF f \in DOMAIN c.fields THEN c.fields[f] ELSE ""

\* AUTO_SIMPLE is said only of one candidate that everything read agrees on:
\* nothing on either contact names another LINE user or another person, nobody
\* is mapped to the candidate, no protected value would be lost and every
\* associated-record read came back clear.
AutoSimpleIsSafe ==
  answer = "AUTO_SIMPLE" =>
    /\ Cardinality(Distinct) = 1 /\ free
    /\ \A s \in Supplied : result[s] = "ok"
    /\ master.where = "here" /\ candidate.where = "here"
    /\ master.tags \cup candidate.tags \subseteq {user}
    /\ OneValue({email, master.email, candidate.email})
    /\ OneValue({phone, master.phone, candidate.phone})
    /\ \A f \in definitions.line : {Value(master, f), Value(candidate, f)} \subseteq {"", user}
    /\ \A f \in definitions.defined \ definitions.ignored :
         OneValue({Value(master, f), Value(candidate, f)})
    /\ OneValue({master.protected, candidate.protected}) /\ candidate.protected \in {"", master.protected}
    /\ ~master.unclassified /\ ~candidate.unclassified
    /\ \A r \in Risks : result[r] = "CLEAR"

\* NO_MATCH and ALREADY_RECONCILED are said only after every supplied identity
\* was searched to the end and nobody else has it, and which of the two depends
\* on whether the mapped contact has it; no associated record was read.
AbsenceIsProved ==
  answer \in {"NO_MATCH", "ALREADY_RECONCILED"} =>
    /\ \A s \in Supplied : result[s] = "ok" /\ found[s] \subseteq {Current}
    /\ ~LineFieldWrong(master) /\ master.tags \subseteq {user}
    /\ (answer = "ALREADY_RECONCILED") <=> (Current \in Matches \/ MatchesIdentity(master))
    /\ \A r \in Risks : at[r] = "idle"

\* Whatever is refused, retried, delayed or lost on the way, a decision other
\* than MANUAL_COMPLEX that promises something is earned by what was read
\* (createLineContactReconciliationPreviewService).
DecisionEarned == AutoSimpleIsSafe /\ AbsenceIsProved

\* However many reads are answered 401 at the same time, the refresh token is
\* sent to HighLevel once, and each of them waits for a refresh that is under
\* way or has ended (refresh, request).
OneRefresh ==
  /\ exchanges <= 1
  /\ \A r \in Reads : at[r] = "refresh" => refresh # "none"

\* Once the deadline has answered, no read and no refresh starts, although the
\* preview and its reads go on behind it.
NothingAfterDeadline ==
  [][byDeadline => exchanges' = exchanges /\ \A r \in Reads : at'[r] \in {"out", "again"} => at'[r] = at[r]]_vars

=============================================================================
