-------------------- MODULE ReconciliationPreviewProofs --------------------
(***************************************************************************)
(* Proofs about ReconciliationPreview for any contacts, definitions,       *)
(* scopes and risks.  A promise is kept because of what the preview knows  *)
(* at each place: Stage says what has been read and found in order before  *)
(* the next read starts, Safe and Absent carry it past the answer, while   *)
(* reads nobody waits for still come back.                                 *)
(***************************************************************************)
EXTENDS ReconciliationPreview, FiniteSetTheorems, TLAPS

-----------------------------------------------------------------------------
(* Types *)

\* Every step keeps the types.
LEMMA TypeStep ==
  ASSUME TypeOK, Next
  PROVE  TypeOK'
<1>. USE DEF TypeOK, request, progress, evidence, session, reads, Decisions, Places,
         Databases, Finish, GoOn, Decides
<1>1. CASE Request \/ Tenants \/ ContactMapping \/ LineMapping \/ QueryFails
  <2>1. place' \in Places /\ answer' \in Decisions \cup {None} /\ byDeadline' \in BOOLEAN
    <3>1. CASE Request \/ Tenants
      BY <3>1 DEF Request, Tenants
    <3>2. CASE ContactMapping \/ LineMapping
      BY <3>2 DEF ContactMapping, LineMapping, CountEnds
    <3>3. CASE QueryFails
      BY <3>3 DEF QueryFails
    <3>4. QED
      BY <1>1, <3>1, <3>2, <3>3
  <2>2. /\ UNCHANGED <<request, late, free, master, candidate, definitions, found, session, reads>>
        /\ user' \in Mapped \cup {None}
    BY <1>1 DEF Request, Tenants, ContactMapping, LineMapping, QueryFails
  <2>3. QED
    BY <2>1, <2>2
<1>2. CASE StoredToken
  BY <1>2 DEF StoredToken, Refresh, Ask, Start, Errors
<1>3. CASE Exchanged
  BY <1>3 DEF Exchanged
<1>4. CASE SaveToken
  BY <1>4 DEF SaveToken
<1>5. CASE Opened
  BY <1>5 DEF Opened, Ask, Start, Errors
<1>6. ASSUME NEW r \in Reads, Answered(r)
      PROVE  TypeOK'
  BY <1>6 DEF Answered, Out, Back, Understood, Learns
<1>7. ASSUME NEW r \in Reads, Failed(r)
      PROVE  TypeOK'
  BY <1>7 DEF Failed, Out, Back, Errors
<1>8. ASSUME NEW r \in Reads, Unauthorized(r)
      PROVE  TypeOK'
  BY <1>8 DEF Unauthorized, Refresh
<1>9. ASSUME NEW r \in Reads, Refreshed(r)
      PROVE  TypeOK'
  BY <1>9 DEF Refreshed, Resend, Back, Errors
<1>10. CASE MasterRead
  BY <1>10 DEF MasterRead, Ask, Start, Errors
<1>11. CASE DefinitionsRead
  BY <1>11 DEF DefinitionsRead, Ask, Start, Errors
<1>12. CASE SearchFails \/ Searched
  BY <1>12 DEF SearchFails, Searched, Ask, Start, Errors
<1>13. CASE CandidateRead
  BY <1>13 DEF CandidateRead
<1>14. CASE CandidateMapping
  <2>1. place' \in Places /\ answer' \in Decisions \cup {None} /\ byDeadline' \in BOOLEAN
    BY <1>14 DEF CandidateMapping, Compared, Ask
  <2>2. UNCHANGED reads \/ Start(Risks)
    BY <1>14 DEF CandidateMapping, Compared, Ask
  <2>3. /\ at' \in [Reads -> {"idle", "out", "refresh", "again", "back"}]
        /\ with' \in [Reads -> {1, 2}]
        /\ result' \in [Reads -> Errors \cup {"ok", "foreign", "CLEAR", "FOUND", None}]
    <3>1. active' \in {1, 2}
      BY <1>14 DEF CandidateMapping
    <3>2. QED
      BY <2>2, <3>1 DEF Start, Errors
  <2>4. UNCHANGED <<request, late, user, master, candidate, definitions, found, session>>
        /\ free' \in BOOLEAN
    BY <1>14 DEF CandidateMapping
  <2>5. QED
    BY <2>1, <2>3, <2>4
<1>15. CASE RisksRead
  BY <1>15 DEF RisksRead
<1>16. CASE DeadlinePasses \/ Deadline
  <2>1. CASE DeadlinePasses
    BY <2>1 DEF DeadlinePasses
  <2>2. CASE Deadline
    BY <2>2 DEF Deadline
  <2>3. QED
    BY <1>16, <2>1, <2>2
<1>17. QED
  BY <1>1, <1>2, <1>3, <1>4, <1>5, <1>6, <1>7, <1>8, <1>9, <1>10, <1>11, <1>12, <1>13,
     <1>14, <1>15, <1>16 DEF Next, Reading

\* Every variable keeps to its type, whatever HighLevel answers.
THEOREM TypeCorrect == Spec => []TypeOK
<1>1. ASSUME Init
      PROVE  TypeOK
  <2>1. /\ email \in Emails /\ phone \in Phones /\ place \in Places
        /\ answer \in Decisions \cup {None} /\ late \in BOOLEAN /\ byDeadline \in BOOLEAN
        /\ user \in Mapped \cup {None} /\ free \in BOOLEAN
    BY <1>1 DEF Init, Places
  <2>2. /\ master \in Contacts \cup {None} /\ candidate \in Contacts \cup {None}
        /\ definitions \in Definitions \cup {None}
        /\ found \in [Searches -> SUBSET ({Current} \cup Others)]
    BY <1>1 DEF Init
  <2>3. /\ refresh \in {"none", "exchange", "save", "saved", "failed", "foreign"}
        /\ granted \in [{1, 2} -> Scopes \cup {{}}] /\ active \in {1, 2} /\ exchanges \in Nat
        /\ at \in [Reads -> {"idle", "out", "refresh", "again", "back"}]
        /\ with \in [Reads -> {1, 2}]
        /\ result \in [Reads -> Errors \cup {"ok", "foreign", "CLEAR", "FOUND", None}]
    BY <1>1 DEF Init
  <2>4. QED
    BY <2>1, <2>2, <2>3 DEF TypeOK
<1>2. TypeOK /\ [Next]_vars => TypeOK'
  BY TypeStep DEF TypeOK, vars, request, progress, evidence, session, reads
<1>3. QED
  BY <1>1, <1>2, PTL DEF Spec

-----------------------------------------------------------------------------
(* One refresh, and nothing behind the deadline *)

\* The refresh token is sent by the step that ends "none".
RefreshInv == OneRefresh /\ (refresh = "none" => exchanges = 0)

\* Every step keeps the count of exchanges.
LEMMA RefreshStep ==
  ASSUME TypeOK, RefreshInv, Next
  PROVE  RefreshInv'
<1>. USE DEF RefreshInv, OneRefresh, TypeOK, request, progress, evidence, session, reads,
         Finish, GoOn, Decides
<1>1. CASE Request \/ Tenants \/ ContactMapping \/ LineMapping \/ QueryFails
  BY <1>1 DEF Request, Tenants, ContactMapping, LineMapping, QueryFails, CountEnds
<1>2. CASE StoredToken
  BY <1>2 DEF StoredToken, Refresh, Ask, Start
<1>3. CASE Exchanged \/ SaveToken
  BY <1>3 DEF Exchanged, SaveToken
<1>4. CASE Opened
  BY <1>4 DEF Opened, Ask, Start
<1>5. ASSUME NEW r \in Reads, Answered(r) \/ Failed(r)
      PROVE  RefreshInv'
  <2>1. UNCHANGED session /\ \E s : Back(r, s)
    BY <1>5 DEF Answered, Failed
  <2>2. QED
    BY <2>1 DEF Back
<1>6. ASSUME NEW r \in Reads, Unauthorized(r)
      PROVE  RefreshInv'
  BY <1>6 DEF Unauthorized, Refresh
<1>7. ASSUME NEW r \in Reads, Refreshed(r)
      PROVE  RefreshInv'
  BY <1>7 DEF Refreshed, Resend, Back
<1>8. CASE MasterRead
  BY <1>8 DEF MasterRead, Ask, Start
<1>9. CASE DefinitionsRead
  BY <1>9 DEF DefinitionsRead, Ask, Start
<1>10. CASE SearchFails \/ Searched
  BY <1>10 DEF SearchFails, Searched, Ask, Start
<1>11. CASE CandidateMapping
  BY <1>11 DEF CandidateMapping, Compared, Ask, Start
<1>12. CASE CandidateRead \/ RisksRead \/ DeadlinePasses \/ Deadline
  BY <1>12 DEF CandidateRead, RisksRead, DeadlinePasses, Deadline
<1>13. QED
  BY <1>1, <1>2, <1>3, <1>4, <1>5, <1>6, <1>7, <1>8, <1>9, <1>10, <1>11, <1>12
     DEF Next, Reading

\* However many reads of one preview are answered 401, and whenever, the
\* refresh token is sent once and nobody waits for a refresh nobody started.
THEOREM RefreshedOnce == Spec => []OneRefresh
<1>1. Init => RefreshInv
  BY DEF Init, RefreshInv, OneRefresh
<1>2. TypeOK /\ RefreshInv /\ [Next]_vars => RefreshInv'
  BY RefreshStep DEF RefreshInv, OneRefresh, vars, session, reads
<1>3. RefreshInv => OneRefresh
  BY DEF RefreshInv
<1>4. QED
  BY <1>1, <1>2, <1>3, TypeCorrect, PTL DEF Spec

\* Only the timer that fired after the deadline answers for it.
BehindDeadline == byDeadline => late

\* Once it is late no step sends anything.
LEMMA LateStep ==
  ASSUME TypeOK, late, Next
  PROVE  /\ exchanges' = exchanges
         /\ \A r \in Reads : at'[r] \in {"out", "again"} => at'[r] = at[r]
<1>. USE DEF TypeOK, request, progress, evidence, session, reads, Finish, GoOn, Decides
<1>1. CASE Request \/ Tenants \/ ContactMapping \/ LineMapping \/ QueryFails
  BY <1>1 DEF Request, Tenants, ContactMapping, LineMapping, QueryFails
<1>2. CASE StoredToken \/ Exchanged \/ SaveToken \/ Opened
  BY <1>2 DEF StoredToken, Refresh, Exchanged, SaveToken, Opened, Ask
<1>3. ASSUME NEW r \in Reads, Reading(r)
      PROVE  /\ exchanges' = exchanges
             /\ \A q \in Reads : at'[q] \in {"out", "again"} => at'[q] = at[q]
  BY <1>3 DEF Reading, Answered, Failed, Unauthorized, Refreshed, Refresh, Resend, Back
<1>4. CASE MasterRead \/ DefinitionsRead \/ SearchFails \/ Searched
  BY <1>4 DEF MasterRead, DefinitionsRead, SearchFails, Searched, Ask
<1>5. CASE CandidateRead \/ CandidateMapping \/ RisksRead
  BY <1>5 DEF CandidateRead, CandidateMapping, Compared, RisksRead, Ask
<1>6. CASE DeadlinePasses \/ Deadline
  BY <1>6 DEF DeadlinePasses, Deadline
<1>7. QED
  BY <1>1, <1>2, <1>3, <1>4, <1>5, <1>6 DEF Next

\* No step but the timer's answers for the deadline.
LEMMA BehindStep ==
  ASSUME BehindDeadline, Next
  PROVE  BehindDeadline'
<1>. USE DEF BehindDeadline, progress, Finish, GoOn, Decides
<1>1. CASE Request \/ Tenants \/ ContactMapping \/ LineMapping \/ QueryFails
  BY <1>1 DEF Request, Tenants, ContactMapping, LineMapping, QueryFails, CountEnds
<1>2. CASE StoredToken \/ Exchanged \/ SaveToken \/ Opened
  BY <1>2 DEF StoredToken, Exchanged, SaveToken, Opened, Ask
<1>3. ASSUME NEW r \in Reads, Reading(r)
      PROVE  BehindDeadline'
  BY <1>3 DEF Reading, Answered, Failed, Unauthorized, Refreshed
<1>4. CASE MasterRead \/ DefinitionsRead \/ SearchFails \/ Searched
  BY <1>4 DEF MasterRead, DefinitionsRead, SearchFails, Searched, Ask
<1>5. CASE CandidateRead \/ CandidateMapping \/ RisksRead
  BY <1>5 DEF CandidateRead, CandidateMapping, Compared, RisksRead, Ask
<1>6. CASE DeadlinePasses \/ Deadline
  BY <1>6 DEF DeadlinePasses, Deadline
<1>7. QED
  BY <1>1, <1>2, <1>3, <1>4, <1>5, <1>6 DEF Next

\* Once the deadline has answered, no read and no exchange starts behind it.
THEOREM QuietAfterDeadline == Spec => NothingAfterDeadline
<1>1. Init => BehindDeadline
  BY DEF Init, BehindDeadline
<1>2. BehindDeadline /\ [Next]_vars => BehindDeadline'
  BY BehindStep DEF BehindDeadline, vars, progress
<1>3. TypeOK /\ BehindDeadline /\ [Next]_vars
      => [byDeadline => exchanges' = exchanges
                        /\ \A r \in Reads : at'[r] \in {"out", "again"} => at'[r] = at[r]]_vars
  BY LateStep DEF BehindDeadline
<1>4. QED
  BY <1>1, <1>2, <1>3, TypeCorrect, PTL DEF Spec, NothingAfterDeadline

-----------------------------------------------------------------------------
(* What the preview knows at each place *)

AfterMaster == {"definitions", "search", "candidate", "mapping", "risks"}
AfterDefinitions == AfterMaster \ {"definitions"}
AfterSearch == AfterDefinitions \ {"search"}
AfterCandidate == AfterSearch \ {"candidate"}
Promises == {"AUTO_SIMPLE", "NO_MATCH", "ALREADY_RECONCILED"}

MasterOk == at["master"] = "back" /\ master.where = "here" /\ master.tags \subseteq {user}
DefinitionsOk == at["definitions"] = "back"
SearchOk == \A s \in Supplied : at[s] = "back" /\ result[s] = "ok"
OneOther == SearchOk /\ Cardinality(Distinct) = 1
CandidateOk == at["candidate"] = "back" /\ candidate.where = "here"
RisksIdle == \A r \in Risks : at[r] = "idle"

\* The two contacts agree, as the comparison found.
Agreed ==
  /\ free /\ candidate.tags \subseteq {user} /\ ~StandardIdentityConflict
  /\ ~LineFieldWrong(master) /\ ~LineFieldWrong(candidate)
  /\ ~BusinessConflict /\ ~Unclassified /\ ~ProtectedLost

\* Each place has everything before it behind it, and no answer but the timer's.
Stage ==
  /\ place \in AfterMaster => MasterOk
  /\ place \in AfterDefinitions => DefinitionsOk
  /\ place \in AfterSearch => OneOther
  /\ place \in AfterCandidate => CandidateOk
  /\ place = "risks" => Agreed
  /\ place \notin {"risks", "done"} => RisksIdle
  /\ place # "done" => answer \notin Promises

\* AUTO_SIMPLE was said at the end of all places.
Safe ==
  answer = "AUTO_SIMPLE" =>
    /\ place = "done" /\ MasterOk /\ DefinitionsOk /\ OneOther /\ CandidateOk /\ Agreed
    /\ \A r \in Risks : at[r] = "back" /\ result[r] = "CLEAR"

Known == Current \in Matches \/ MatchesIdentity(master)

\* Absence was said when the searches had ended and nothing had come after.
Absent ==
  answer \in {"NO_MATCH", "ALREADY_RECONCILED"} =>
    /\ place = "done" /\ MasterOk /\ DefinitionsOk /\ SearchOk /\ Distinct = {}
    /\ ~LineFieldWrong(master)
    /\ answer = "ALREADY_RECONCILED" <=> Known
    /\ RisksIdle

EvidenceInv == Stage /\ Safe /\ Absent

\* A step that starts no read outside X leaves what has come back alone.
Keeps(X) ==
  /\ UNCHANGED <<email, phone, user>>
  /\ \A r \in Reads \ X : at[r] \in {"idle", "back"} => at'[r] = at[r] /\ result'[r] = result[r]
  /\ at["master"] = "back" => master' = master
  /\ at["candidate"] = "back" => candidate' = candidate
  /\ at["definitions"] = "back" => definitions' = definitions
  /\ \A s \in Searches : at[s] = "back" => found'[s] = found[s]

-----------------------------------------------------------------------------
(* What has been read stays *)

\* The associated records have names of their own.
LEMMA RisksApart == Risks \cap {"master", "candidate", "definitions", "email", "phone"} = {}
  BY RisksAssumption DEF riskScopes

\* The mapped contact stays as it was read.
LEMMA MasterKept ==
  ASSUME NEW X, Keeps(X), "master" \notin X, MasterOk
  PROVE  MasterOk' /\ master' = master
  BY DEF Keeps, MasterOk, Reads, ContactReads

\* So do the definitions.
LEMMA DefinitionsKept ==
  ASSUME NEW X, Keeps(X), "definitions" \notin X, DefinitionsOk
  PROVE  DefinitionsOk' /\ definitions' = definitions
  BY DEF Keeps, DefinitionsOk, Reads

\* So does what the searches found.
LEMMA SearchKept ==
  ASSUME NEW X, Keeps(X), X \cap Searches = {}, SearchOk
  PROVE  SearchOk' /\ Matches' = Matches /\ Distinct' = Distinct
<1>1. Supplied' = Supplied /\ Supplied \subseteq Searches
  BY DEF Keeps, Supplied
<1>2. \A s \in Supplied : at'[s] = "back" /\ result'[s] = "ok" /\ found'[s] = found[s]
  BY <1>1 DEF Keeps, SearchOk, Reads
<1>3. Matches' = Matches
  BY <1>1, <1>2 DEF Matches
<1>4. QED
  BY <1>1, <1>2, <1>3 DEF SearchOk, Distinct

\* So does the candidate.
LEMMA CandidateKept ==
  ASSUME NEW X, Keeps(X), "candidate" \notin X, CandidateOk
  PROVE  CandidateOk' /\ candidate' = candidate
  BY DEF Keeps, CandidateOk, Reads, ContactReads

\* No associated record is read by the way.
LEMMA RisksKept ==
  ASSUME NEW X, Keeps(X), X \cap Risks = {}, RisksIdle
  PROVE  RisksIdle'
  BY DEF Keeps, RisksIdle, Reads

\* Contacts that agree go on agreeing.
LEMMA AgreedKept ==
  ASSUME Agreed, UNCHANGED <<email, phone, user, free, master, candidate, definitions>>
  PROVE  Agreed'
  BY DEF Agreed, StandardIdentityConflict, LineFieldWrong, BusinessConflict, Unclassified,
     ProtectedLost, Differ

\* A step that starts no read and leaves the preview where it is, if only the
\* timer answers in it, leaves what the preview knows.
LEMMA StaysEarned ==
  ASSUME EvidenceInv, Keeps({}), free' = free, place' = place,
         answer' = answer \/ answer' = "MANUAL_COMPLEX"
  PROVE  EvidenceInv'
<1>1. MasterOk => MasterOk' /\ master' = master
  BY MasterKept
<1>2. DefinitionsOk => DefinitionsOk' /\ definitions' = definitions
  BY DefinitionsKept
<1>3. SearchOk => SearchOk' /\ Matches' = Matches /\ Distinct' = Distinct
  BY SearchKept
<1>4. CandidateOk => CandidateOk' /\ candidate' = candidate
  BY CandidateKept
<1>5. RisksIdle => RisksIdle'
  BY RisksKept
<1>6. MasterOk /\ DefinitionsOk /\ CandidateOk /\ Agreed => Agreed'
  BY <1>1, <1>2, <1>4, AgreedKept DEF Keeps
<1>7. OneOther => OneOther'
  BY <1>3 DEF OneOther
<1>8. Stage'
  BY <1>1, <1>2, <1>4, <1>5, <1>6, <1>7
     DEF EvidenceInv, Stage, AfterMaster, AfterDefinitions, AfterSearch, AfterCandidate, Promises
<1>9. Safe'
  <2>1. (\A r \in Risks : at[r] = "back" /\ result[r] = "CLEAR")
        => \A r \in Risks : at'[r] = "back" /\ result'[r] = "CLEAR"
    BY DEF Keeps, Reads
  <2>2. QED
    BY <1>1, <1>2, <1>4, <1>6, <1>7, <2>1 DEF EvidenceInv, Safe
<1>10. Absent'
  <2>1. MasterOk /\ DefinitionsOk /\ SearchOk
        => (LineFieldWrong(master))' = LineFieldWrong(master) /\ Known' = Known
    BY <1>1, <1>2, <1>3 DEF Keeps, LineFieldWrong, Known, MatchesIdentity
  <2>2. QED
    BY <1>1, <1>2, <1>3, <1>5, <2>1 DEF EvidenceInv, Absent
<1>11. QED
  BY <1>8, <1>9, <1>10 DEF EvidenceInv

\* Nothing is owed once a preview has ended without a promise.
LEMMA EndsEarned ==
  ASSUME EvidenceInv, place # "done", NEW d, d \notin Promises, Finish(d)
  PROVE  EvidenceInv'
<1>1. answer' \notin Promises
  BY DEF EvidenceInv, Stage, Finish
<1>2. QED
  BY <1>1 DEF EvidenceInv, Stage, Safe, Absent, Finish, AfterMaster, AfterDefinitions,
     AfterSearch, AfterCandidate, Promises

\* Nor before the mapped contact has been read.
LEMMA EarlyEarned ==
  ASSUME EvidenceInv, place # "done", RisksIdle', answer' = answer,
         place' \in {"request", "master", "token", "session", "tenants", "contact", "line"}
  PROVE  EvidenceInv'
  BY DEF EvidenceInv, Stage, Safe, Absent, AfterMaster, AfterDefinitions, AfterSearch,
     AfterCandidate, Promises

\* Starting some reads keeps every other.
LEMMA StartKeeps ==
  ASSUME TypeOK, NEW some, Start(some), UNCHANGED <<request, evidence>>
  PROVE  Keeps(some)
  BY DEF TypeOK, Start, Keeps, request, evidence

-----------------------------------------------------------------------------
(* Every step earns what it says *)

\* The database and the session decide nothing that promises.
LEMMA DatabaseEarned ==
  ASSUME TypeOK, EvidenceInv,
         Request \/ Tenants \/ ContactMapping \/ LineMapping \/ QueryFails
  PROVE  EvidenceInv'
<1>1. place # "done" /\ at' = at
  BY DEF Request, Tenants, ContactMapping, LineMapping, QueryFails, Databases, reads
<1>2. place \notin {"risks", "done"} => RisksIdle'
  BY <1>1 DEF EvidenceInv, Stage, RisksIdle
<1>3. \/ \E d \in Decisions \ Promises : Finish(d)
      \/ /\ place \notin {"risks", "done"}
         /\ GoOn("tenants") \/ GoOn("contact") \/ GoOn("line") \/ GoOn("token")
  <2>1. CASE Request
    <3>1. CASE \E d \in {"UNSUPPORTED_SOURCE", "INVALID_EMAIL", "INVALID_PHONE"} : Finish(d)
      BY <3>1 DEF Decisions, Promises
    <3>2. CASE Finish("NO_IDENTIFIER") \/ GoOn("tenants")
      BY <2>1, <3>2 DEF Request, Decisions, Promises
    <3>3. QED
      BY <2>1, <3>1, <3>2 DEF Request
  <2>2. CASE Tenants
    BY <2>2 DEF Tenants, Decisions, Promises
  <2>3. CASE ContactMapping
    BY <2>3 DEF ContactMapping, CountEnds, Decisions, Promises
  <2>4. CASE LineMapping
    BY <2>4 DEF LineMapping, CountEnds, Decisions, Promises
  <2>5. CASE QueryFails
    BY <2>5 DEF QueryFails, Decisions, Promises
  <2>6. QED
    BY <2>1, <2>2, <2>3, <2>4, <2>5
<1>4. CASE \E d \in Decisions \ Promises : Finish(d)
  BY <1>1, <1>4, EndsEarned
<1>5. CASE ~\E d \in Decisions \ Promises : Finish(d)
  BY <1>1, <1>2, <1>3, <1>5, EarlyEarned DEF GoOn
<1>6. QED
  BY <1>3, <1>4, <1>5

\* Opening the session decides nothing that promises, and reads no record.
LEMMA SessionEarned ==
  ASSUME TypeOK, EvidenceInv, StoredToken \/ Opened
  PROVE  EvidenceInv'
<1>1. place \in {"token", "session"} /\ RisksIdle /\ UNCHANGED <<request, evidence>>
  BY DEF StoredToken, Opened, EvidenceInv, Stage
<1>2. \/ \E d \in Decisions \ Promises : Finish(d)
      \/ GoOn("session") /\ UNCHANGED reads
      \/ GoOn("master") /\ Start({"master"})
  BY DEF StoredToken, Opened, Ask, Decides, Decisions, Promises
<1>3. CASE \E d \in Decisions \ Promises : Finish(d)
  BY <1>1, <1>3, EndsEarned
<1>4. CASE GoOn("session") /\ UNCHANGED reads
  BY <1>1, <1>4, EarlyEarned DEF GoOn, reads, RisksIdle
<1>5. CASE GoOn("master") /\ Start({"master"})
  <2>1. RisksIdle'
    BY <1>1, <1>5, StartKeeps, RisksKept, RisksApart
  <2>2. QED
    BY <1>1, <1>5, <2>1, EarlyEarned DEF GoOn
<1>6. QED
  BY <1>2, <1>3, <1>4, <1>5

\* An answer changes only what had not come back.
LEMMA ReadingEarned ==
  ASSUME TypeOK, EvidenceInv, NEW r \in Reads, Reading(r)
  PROVE  EvidenceInv'
<1>1. at[r] \in {"out", "again", "refresh"} /\ UNCHANGED <<request, progress, user, free>>
  BY DEF Reading, Answered, Failed, Unauthorized, Refreshed, Out, evidence
<1>2. \A q \in Reads : q # r => at'[q] = at[q] /\ result'[q] = result[q]
  BY DEF Reading, Answered, Failed, Unauthorized, Refreshed, Resend, Back, TypeOK
<1>3. /\ r # "master" => master' = master
      /\ r # "candidate" => candidate' = candidate
      /\ r # "definitions" => definitions' = definitions
      /\ \A s \in Searches : s # r => found'[s] = found[s]
  <2>1. CASE Answered(r)
    BY <2>1 DEF Answered, Learns, TypeOK
  <2>2. CASE Failed(r) \/ Unauthorized(r) \/ Refreshed(r)
    BY <2>2 DEF Failed, Unauthorized, Refreshed, evidence
  <2>3. QED
    BY <2>1, <2>2 DEF Reading
<1>4. Keeps({})
  BY <1>1, <1>2, <1>3 DEF Keeps, request
<1>5. QED
  BY <1>1, <1>4, StaysEarned DEF progress

\* The mapped contact lets the preview go on only if it is its user's.
LEMMA MasterEarned ==
  ASSUME TypeOK, EvidenceInv, MasterRead
  PROVE  EvidenceInv'
<1>1. place = "master" /\ RisksIdle /\ UNCHANGED <<request, evidence>>
  BY DEF MasterRead, EvidenceInv, Stage
<1>2. CASE \E d \in Decisions \ Promises : Finish(d)
  BY <1>1, <1>2, EndsEarned
<1>3. CASE ~\E d \in Decisions \ Promises : Finish(d)
  <2>1. /\ at["master"] = "back" /\ master.where = "here"
        /\ TagState(master) \notin {"MALFORMED", "AMBIGUOUS", "DIFFERENT"}
        /\ GoOn("definitions") /\ Start({"definitions"})
    BY <1>3 DEF MasterRead, Ask, Decides, Decisions, Promises
  <2>2. MasterOk
    BY <2>1 DEF MasterOk, TagState
  <2>3. MasterOk' /\ RisksIdle'
    BY <1>1, <2>1, <2>2, StartKeeps, MasterKept, RisksKept, RisksApart
  <2>4. QED
    BY <1>1, <2>1, <2>3 DEF GoOn, EvidenceInv, Stage, Safe, Absent, AfterMaster,
       AfterDefinitions, AfterSearch, AfterCandidate, Promises
<1>4. QED
  BY <1>2, <1>3

\* The searches start when both contact and definitions are there.
LEMMA DefinitionsEarned ==
  ASSUME TypeOK, EvidenceInv, DefinitionsRead
  PROVE  EvidenceInv'
<1>1. /\ place = "definitions" /\ RisksIdle /\ MasterOk /\ DefinitionsOk
      /\ UNCHANGED <<request, evidence>>
  BY DEF DefinitionsRead, EvidenceInv, Stage, AfterMaster, DefinitionsOk
<1>2. CASE \E d \in Decisions \ Promises : Finish(d)
  BY <1>1, <1>2, EndsEarned
<1>3. CASE ~\E d \in Decisions \ Promises : Finish(d)
  <2>1. GoOn("search") /\ Start(Supplied)
    BY <1>3 DEF DefinitionsRead, Ask, Decides, Decisions, Promises
  <2>2. Supplied \subseteq {"email", "phone"}
    BY DEF Supplied, Searches
  <2>3. Keeps(Supplied)
    BY <1>1, <2>1, StartKeeps
  <2>4. MasterOk' /\ DefinitionsOk' /\ RisksIdle'
    BY <1>1, <2>2, <2>3, MasterKept, DefinitionsKept, RisksKept, RisksApart
  <2>5. QED
    BY <1>1, <2>1, <2>4 DEF GoOn, EvidenceInv, Stage, Safe, Absent, AfterMaster,
       AfterDefinitions, AfterSearch, AfterCandidate, Promises
<1>4. QED
  BY <1>2, <1>3

\* The searches' end: absence, another contact to read, or no promise.
LEMMA SearchEarned ==
  ASSUME TypeOK, EvidenceInv, SearchFails \/ Searched
  PROVE  EvidenceInv'
<1>1. /\ place = "search" /\ RisksIdle /\ MasterOk /\ DefinitionsOk
      /\ UNCHANGED <<request, evidence>>
  BY DEF SearchFails, Searched, EvidenceInv, Stage, AfterMaster, AfterDefinitions
<1>2. CASE \E d \in Decisions \ Promises : Finish(d)
  BY <1>1, <1>2, EndsEarned
<1>3. CASE ~\E d \in Decisions \ Promises : Finish(d)
  <2>1. Searched /\ SearchOk /\ ~Cardinality(Distinct) > 1
    BY <1>3 DEF SearchFails, Searched, Decides, Decisions, Promises, SearchOk
  <2>2. CASE Cardinality(Distinct) = 1
    <3>1. GoOn("candidate") /\ Start({"candidate"})
      BY <1>3, <2>1, <2>2 DEF Searched, Ask, Decides, Decisions, Promises
    <3>2. Keeps({"candidate"})
      BY <1>1, <3>1, StartKeeps
    <3>3. MasterOk' /\ DefinitionsOk' /\ RisksIdle'
      BY <1>1, <3>2, MasterKept, DefinitionsKept, RisksKept, RisksApart
    <3>4. OneOther'
      BY <2>1, <2>2, <3>2, SearchKept DEF OneOther, Searches
    <3>5. QED
      BY <1>1, <3>1, <3>3, <3>4 DEF GoOn, EvidenceInv, Stage, Safe, Absent, AfterMaster,
         AfterDefinitions, AfterSearch, AfterCandidate, Promises
  <2>3. CASE Cardinality(Distinct) # 1
    <3>1. Distinct = {}
      <4>1. Distinct \subseteq Others
        <5>1. \A s \in Supplied : found[s] \subseteq {Current} \cup Others
          BY DEF TypeOK, Supplied
        <5>2. QED
          BY <5>1 DEF Distinct, Matches
      <4>2. IsFiniteSet(Distinct) /\ Cardinality(Distinct) \in Nat
        BY <4>1, ContactsAssumption, FS_Subset, FS_CardinalityType
      <4>3. Cardinality(Distinct) = 0
        BY <2>1, <2>3, <4>2
      <4>4. QED
        BY <4>2, <4>3, FS_EmptySet
    <3>2. /\ ~LineFieldWrong(master) /\ UNCHANGED reads
          /\ IF Known THEN Finish("ALREADY_RECONCILED") ELSE Finish("NO_MATCH")
      BY <1>3, <2>1, <2>3 DEF Searched, Decides, Decisions, Promises, Known
    <3>3. MasterOk' /\ DefinitionsOk' /\ SearchOk' /\ RisksIdle' /\ Distinct' = {}
      <4>1. Keeps({})
        BY <1>1, <3>2 DEF Keeps, request, evidence, reads
      <4>2. QED
        BY <1>1, <2>1, <3>1, <4>1, MasterKept, DefinitionsKept, SearchKept, RisksKept
    <3>4. ~(LineFieldWrong(master))' /\ Known' = Known
      BY <1>1, <3>2 DEF request, evidence, LineFieldWrong, Known, MatchesIdentity, Matches,
         Supplied
    <3>5. place' = "done" /\ answer' # "AUTO_SIMPLE"
          /\ (answer' \in {"NO_MATCH", "ALREADY_RECONCILED"}
              => (answer' = "ALREADY_RECONCILED" <=> Known))
      BY <1>1, <3>2 DEF Finish, EvidenceInv, Stage, Promises
    <3>6. QED
      BY <3>3, <3>4, <3>5 DEF EvidenceInv, Stage, Safe, Absent, AfterMaster,
         AfterDefinitions, AfterSearch, AfterCandidate
  <2>4. QED
    BY <2>2, <2>3
<1>4. QED
  BY <1>2, <1>3

\* The candidate goes on to the comparison if it is this location's.
LEMMA CandidateEarned ==
  ASSUME TypeOK, EvidenceInv, CandidateRead
  PROVE  EvidenceInv'
<1>1. place = "candidate" /\ UNCHANGED <<request, evidence, reads>>
  BY DEF CandidateRead
<1>2. CASE \E d \in Decisions \ Promises : Finish(d)
  BY <1>1, <1>2, EndsEarned
<1>3. CASE ~\E d \in Decisions \ Promises : Finish(d)
  <2>1. CandidateOk /\ GoOn("mapping")
    BY <1>3 DEF CandidateRead, CandidateOk, Decisions, Promises
  <2>2. RisksIdle /\ MasterOk /\ DefinitionsOk /\ OneOther
    BY <1>1 DEF EvidenceInv, Stage, AfterMaster, AfterDefinitions, AfterSearch
  <2>3. Keeps({})
    BY <1>1 DEF Keeps, request, evidence, reads
  <2>4. MasterOk' /\ DefinitionsOk' /\ OneOther' /\ CandidateOk' /\ RisksIdle'
    BY <2>1, <2>2, <2>3, MasterKept, DefinitionsKept, SearchKept, CandidateKept, RisksKept
       DEF OneOther
  <2>5. QED
    BY <1>1, <2>1, <2>4 DEF GoOn, EvidenceInv, Stage, Safe, Absent, AfterMaster,
       AfterDefinitions, AfterSearch, AfterCandidate, Promises
<1>4. QED
  BY <1>2, <1>3

\* The associated records are read when nobody has the candidate and the two
\* contacts agree.
LEMMA ComparisonEarned ==
  ASSUME TypeOK, EvidenceInv, CandidateMapping
  PROVE  EvidenceInv'
<1>1. /\ place = "mapping" /\ MasterOk /\ DefinitionsOk /\ OneOther /\ CandidateOk
      /\ UNCHANGED <<request, user, master, candidate, definitions, found>>
  BY DEF CandidateMapping, EvidenceInv, Stage, AfterMaster, AfterDefinitions, AfterSearch,
     AfterCandidate
<1>2. CASE \E d \in Decisions \ Promises : Finish(d)
  BY <1>1, <1>2, EndsEarned
<1>3. CASE ~\E d \in Decisions \ Promises : Finish(d)
  <2>1. free' = TRUE /\ Compared
    BY <1>3 DEF CandidateMapping, Decides, Decisions, Promises
  <2>2. /\ TagState(candidate) \notin {"MALFORMED", "AMBIGUOUS", "DIFFERENT"}
        /\ ~StandardIdentityConflict /\ ~LineFieldWrong(master) /\ ~LineFieldWrong(candidate)
        /\ ~BusinessConflict /\ ~Unclassified /\ ~ProtectedLost
        /\ GoOn("risks") /\ Start(Risks)
    BY <1>3, <2>1 DEF Compared, Ask, Decides, Decisions, Promises
  <2>3. candidate.tags \subseteq {user}
    BY <2>2 DEF TagState
  <2>4. Keeps(Risks)
    BY <1>1, <2>2 DEF TypeOK, Start, Keeps, request
  <2>5. MasterOk' /\ DefinitionsOk' /\ OneOther' /\ CandidateOk'
    BY <1>1, <2>4, MasterKept, DefinitionsKept, SearchKept, CandidateKept, RisksApart
       DEF OneOther, Searches
  <2>6. Agreed'
    BY <1>1, <2>1, <2>2, <2>3 DEF request, Agreed, StandardIdentityConflict, LineFieldWrong,
       BusinessConflict, Unclassified, ProtectedLost, Differ
  <2>7. QED
    BY <1>1, <2>2, <2>5, <2>6 DEF GoOn, EvidenceInv, Stage, Safe, Absent, Promises
<1>4. QED
  BY <1>2, <1>3

\* AUTO_SIMPLE is said when every associated record is known to be clear.
LEMMA RisksEarned ==
  ASSUME TypeOK, EvidenceInv, RisksRead
  PROVE  EvidenceInv'
<1>1. /\ place = "risks" /\ MasterOk /\ DefinitionsOk /\ OneOther /\ CandidateOk /\ Agreed
      /\ UNCHANGED <<request, evidence, reads>>
  BY DEF RisksRead, Decides, EvidenceInv, Stage, AfterMaster, AfterDefinitions, AfterSearch,
     AfterCandidate
<1>2. CASE Finish("MANUAL_COMPLEX")
  BY <1>1, <1>2, EndsEarned DEF Promises
<1>3. CASE ~Finish("MANUAL_COMPLEX")
  <2>1. Finish("AUTO_SIMPLE") /\ \A r \in Risks : at[r] = "back" /\ result[r] = "CLEAR"
    BY <1>3 DEF RisksRead, Decides
  <2>2. Keeps({})
    BY <1>1 DEF Keeps, request, evidence, reads
  <2>3. MasterOk' /\ DefinitionsOk' /\ OneOther' /\ CandidateOk'
    BY <1>1, <2>2, MasterKept, DefinitionsKept, SearchKept, CandidateKept DEF OneOther
  <2>4. Agreed'
    BY <1>1, AgreedKept DEF request, evidence
  <2>5. \A r \in Risks : at'[r] = "back" /\ result'[r] = "CLEAR"
    BY <1>1, <2>1 DEF reads
  <2>6. place' = "done" /\ answer' \notin {"NO_MATCH", "ALREADY_RECONCILED"}
    BY <1>1, <2>1 DEF Finish, EvidenceInv, Stage, Promises
  <2>7. QED
    BY <2>3, <2>4, <2>5, <2>6 DEF EvidenceInv, Stage, Safe, Absent, AfterMaster,
       AfterDefinitions, AfterSearch, AfterCandidate
<1>4. QED
  BY <1>2, <1>3

\* No step forgets what an answer rests on.
LEMMA EvidenceStep ==
  ASSUME TypeOK, EvidenceInv, Next
  PROVE  EvidenceInv'
<1>1. CASE Exchanged \/ SaveToken \/ DeadlinePasses \/ Deadline
  <2>1. /\ UNCHANGED <<request, evidence, reads>> /\ place' = place
        /\ answer' = answer \/ answer' = "MANUAL_COMPLEX"
    BY <1>1 DEF Exchanged, SaveToken, DeadlinePasses, Deadline, progress
  <2>2. Keeps({}) /\ free' = free
    BY <2>1 DEF Keeps, request, evidence, reads
  <2>3. QED
    BY <2>1, <2>2, StaysEarned
<1>2. QED
  BY <1>1, DatabaseEarned, SessionEarned, ReadingEarned, MasterEarned, DefinitionsEarned,
     SearchEarned, CandidateEarned, ComparisonEarned, RisksEarned DEF Next

-----------------------------------------------------------------------------
(* What the evidence says *)

\* A set whose members are all equal has one at most.
LEMMA AtMostOne ==
  ASSUME NEW S, \A x, y \in S : x = y
  PROVE  Cardinality(S) <= 1
<1>1. CASE S = {}
  BY <1>1, FS_EmptySet
<1>2. CASE S # {}
  <2>1. PICK x : S = {x}
    BY <1>2
  <2>2. QED
    BY <2>1, FS_Singleton
<1>3. QED
  BY <1>1, <1>2

\* What AUTO_SIMPLE rests on is what it must promise.
LEMMA SafeSays == Safe => AutoSimpleIsSafe
<1>. SUFFICES ASSUME Safe, answer = "AUTO_SIMPLE"
              PROVE  AutoSimpleIsSafe
  BY DEF AutoSimpleIsSafe
<1>1. /\ MasterOk /\ OneOther /\ CandidateOk /\ Agreed
      /\ \A r \in Risks : result[r] = "CLEAR"
  BY DEF Safe
<1>2. OneValue({email, master.email, candidate.email})
  <2>1. \A x, y \in {email, master.email, candidate.email} \ {""} : x = y
    BY <1>1 DEF Agreed, StandardIdentityConflict, Differ
  <2>2. QED
    BY <2>1, AtMostOne DEF OneValue
<1>3. OneValue({phone, master.phone, candidate.phone})
  <2>1. \A x, y \in {phone, master.phone, candidate.phone} \ {""} : x = y
    BY <1>1 DEF Agreed, StandardIdentityConflict, Differ
  <2>2. QED
    BY <2>1, AtMostOne DEF OneValue
<1>4. \A f \in definitions.line : {Value(master, f), Value(candidate, f)} \subseteq {"", user}
  BY <1>1 DEF Agreed, LineFieldWrong, Value
<1>5. ASSUME NEW f \in definitions.defined \ definitions.ignored
      PROVE  OneValue({Value(master, f), Value(candidate, f)})
  <2>1. \A x, y \in {Value(master, f), Value(candidate, f)} \ {""} : x = y
    <3>1. CASE f \in definitions.line
      BY <1>4, <3>1
    <3>2. CASE f \notin definitions.line
      BY <1>1, <3>2 DEF Agreed, BusinessConflict, Differ, Value
    <3>3. QED
      BY <3>1, <3>2
  <2>2. QED
    BY <2>1, AtMostOne DEF OneValue
<1>6. candidate.protected \in {"", master.protected}
  BY <1>1 DEF Agreed, ProtectedLost
<1>7. OneValue({master.protected, candidate.protected})
  <2>1. \A x, y \in {master.protected, candidate.protected} \ {""} : x = y
    BY <1>6
  <2>2. QED
    BY <2>1, AtMostOne DEF OneValue
<1>8. master.tags \cup candidate.tags \subseteq {user}
  BY <1>1 DEF MasterOk, Agreed
<1>9. /\ Cardinality(Distinct) = 1 /\ free /\ (\A s \in Supplied : result[s] = "ok")
      /\ master.where = "here" /\ candidate.where = "here"
      /\ ~master.unclassified /\ ~candidate.unclassified
  BY <1>1 DEF MasterOk, OneOther, SearchOk, CandidateOk, Agreed, Unclassified
<1>10. QED
  BY <1>1, <1>2, <1>3, <1>4, <1>5, <1>6, <1>7, <1>8, <1>9 DEF AutoSimpleIsSafe

\* What absence rests on is what it must promise.
LEMMA AbsentSays == Absent => AbsenceIsProved
<1>. SUFFICES ASSUME Absent, answer \in {"NO_MATCH", "ALREADY_RECONCILED"}
              PROVE  AbsenceIsProved
  BY DEF AbsenceIsProved
<1>1. /\ MasterOk /\ SearchOk /\ Distinct = {} /\ RisksIdle /\ ~LineFieldWrong(master)
      /\ answer = "ALREADY_RECONCILED" <=> Known
  BY DEF Absent
<1>2. \A s \in Supplied : found[s] \subseteq {Current}
  BY <1>1 DEF Distinct, Matches
<1>3. QED
  BY <1>1, <1>2 DEF AbsenceIsProved, MasterOk, SearchOk, RisksIdle, Known

\* A promise is earned by what was read, whatever else happens to the reads.
THEOREM PromisesAreEarned == Spec => []DecisionEarned
<1>1. Init => EvidenceInv
  BY NoneAssumption DEF Init, EvidenceInv, Stage, Safe, Absent, AfterMaster, AfterDefinitions,
     AfterSearch, AfterCandidate, RisksIdle, Reads, Promises, Decisions
<1>2. TypeOK /\ EvidenceInv /\ [Next]_vars => EvidenceInv'
  <2>1. ASSUME TypeOK, EvidenceInv, UNCHANGED vars
        PROVE  EvidenceInv'
    <3>1. Keeps({}) /\ free' = free /\ place' = place /\ answer' = answer
      BY <2>1 DEF Keeps, vars, request, progress, evidence, session, reads
    <3>2. QED
      BY <2>1, <3>1, StaysEarned
  <2>2. QED
    BY <2>1, EvidenceStep
<1>3. EvidenceInv => DecisionEarned
  BY SafeSays, AbsentSays DEF EvidenceInv, DecisionEarned
<1>4. QED
  BY <1>1, <1>2, <1>3, TypeCorrect, PTL DEF Spec
=============================================================================
