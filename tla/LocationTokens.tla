--------------------------- MODULE LocationTokens ---------------------------
(***************************************************************************)
(* How a HighLevel location gets its OAuth token pair and how the pair is   *)
(* kept.  The signed AppInstall event names a location; the OAuth callback  *)
(* brings a short-lived Company session (or the pair of one location); both *)
(* write first and then look for the other, and whoever finds both claims   *)
(* the install and exchanges the Company token for the location's pair.     *)
(* Every API request reads the pair, refreshes it when it is about to       *)
(* expire or was answered 401, and saves what it got; a reconciliation      *)
(* preview refreshes the pair it read at its start, once, and throws the    *)
(* result away when its deadline has passed.                                *)
(*                                                                         *)
(* A database call is one step; a call that fails for its caller has either *)
(* not happened or its handler is stopped right after it.  A handler may    *)
(* stop anywhere.  Tokens are numbered: a pair is the number of its refresh *)
(* token.  HighLevel is one application and one company.                    *)
(***************************************************************************)
EXTENDS Naturals, FiniteSets

CONSTANTS
  Installs,   \* deliveries of the AppInstall webhook, each with its own handler
  Callbacks,  \* OAuth callbacks, each with its own handler
  Requests,   \* API requests that use a location's token
  Previews,   \* OAuth sessions of reconciliation previews
  Locations,
  Elsewhere,  \* a location that is none of these
  Keys,       \* delivery keys: a redelivery repeats one, a reinstall brings another
  MaxPairs,   \* bound: pairs HighLevel issues
  MaxStarts,  \* bound: handlers that are started
  None        \* nobody, nothing

ASSUME NamesAssumption ==
  /\ None \notin Installs \cup Callbacks \cup Keys \cup Locations \cup {Elsewhere}
  /\ Elsewhere \notin Locations
  /\ Installs \cap Callbacks = {} /\ Requests \cap Previews = {}
  /\ (Installs \cup Callbacks) \cap (Requests \cup Previews) = {}
ASSUME BoundsAssumption == MaxPairs \in Nat /\ MaxStarts \in Nat

VARIABLES
  status,     \* ghl_pending_app_installs.status, by location
  key,        \* its delivery_key
  setBy,      \* the delivery that last made the row pending
  aged,       \* locations whose claim is older than two minutes
  disturbed,  \* locations with a stolen claim or a reinstall
  company,    \* ghl_oauth_onboarding_sessions.status, "none" without a row
  companyBy,  \* the callback that last saved the Company session
  overdue,    \* its expires_at has passed
  stored,     \* ghl_oauth_tokens.refresh_token by location, 0 without a row
  old,        \* locations whose stored access token is expired or close to it
  rotates,    \* HighLevel spends a refresh token it exchanges
  issuedFor,  \* the location of each pair HighLevel issued
  spent,      \* refresh tokens that were exchanged for another
  successor,  \* the pair a spent refresh token was exchanged for, 0 for none
  lost,       \* pairs whose answer, holder or deadline was lost before the save
  at,         \* where each handler is
  loc,        \* the location each handler is working on
  sent,       \* the delivery key of a webhook's delivery
  todo,       \* the installs a handler still has to visit
  held,       \* the pair a handler holds, 0 for none
  retried     \* requests that were answered 401, previews that refreshed

rows == <<status, key, setBy, aged, disturbed>>
session == <<company, companyBy, overdue>>
tokens == <<stored, old>>
highlevel == <<rotates, issuedFor, spent, successor>>
handlers == <<at, loc, sent, todo, held, retried>>
vars == <<rows, session, tokens, highlevel, lost, handlers>>

Reconcilers == Installs \cup Callbacks
Handlers == Reconcilers \cup Requests \cup Previews
Pairs == 1..MaxPairs
\* Mutant: a claim also takes what is being processed.
Claimable_Processing == {"pending", "failed", "processing"}

Claimable == {"pending", "failed"}
Ends == {"done", "failed", "dead"}
Places == {"idle", "existing", "update", "row", "list", "session", "expire",
           "claim", "steal", "exchange", "save", "complete", "fail", "grant", "correlate",
           "settle", "reread", "refresh", "keep", "use"} \cup Ends

\* The installation of another location may have left an old Company session.
Init ==
  /\ status = [l \in Locations |-> "none"]
  /\ key = [l \in Locations |-> None]
  /\ setBy = [l \in Locations |-> None]
  /\ aged = {} /\ disturbed = {}
  /\ company \in {"none", "active"} /\ companyBy = None
  /\ overdue = (company = "active")
  /\ stored = [l \in Locations |-> 0]
  /\ old = {}
  /\ rotates \in BOOLEAN
  /\ issuedFor = [n \in Pairs |-> None]
  /\ spent = {} /\ lost = {}
  /\ successor = [n \in Pairs |-> 0]
  /\ at = [p \in Handlers |-> "idle"]
  /\ loc = [p \in Handlers |-> None]
  /\ sent = [p \in Handlers |-> None]
  /\ todo = [p \in Handlers |-> {}]
  /\ held = [p \in Handlers |-> 0]
  /\ retried = {}

-----------------------------------------------------------------------------
(* Steps of a handler and of HighLevel *)

Goes(p, from, to) == at[p] = from /\ at' = [at EXCEPT ![p] = to]
\* A handler's locals end with it.
Leaves(p, end) ==
  /\ at' = [at EXCEPT ![p] = end]
  /\ loc' = [loc EXCEPT ![p] = None]
  /\ sent' = [sent EXCEPT ![p] = None]
  /\ todo' = [todo EXCEPT ![p] = {}]
  /\ held' = [held EXCEPT ![p] = 0]
  /\ retried' = retried \ {p}

For(p, l) == loc' = [loc EXCEPT ![p] = l]
Holds(p, n) == held' = [held EXCEPT ![p] = n]

Starts(p, to) ==
  /\ Cardinality({q \in Handlers : at[q] # "idle"}) < MaxStarts
  /\ Goes(p, "idle", to)

\* HighLevel issues pair n for location l.
Issue(n, l) ==
  /\ n \in Pairs /\ issuedFor[n] = None
  /\ \A m \in Pairs : m < n => issuedFor[m] # None
  /\ issuedFor' = [issuedFor EXCEPT ![n] = l]

\* The upsert of one location's pair.
Store(l, n) ==
  /\ stored' = [stored EXCEPT ![l] = n]
  /\ old' = old \ {l}

SetStatus(l, s) == status' = [status EXCEPT ![l] = s]

-----------------------------------------------------------------------------
(* The AppInstall webhook records its location's install *)

\* A signed event of the configured application; its location has a tenant.
Arrives(d, l, k, to) ==
  /\ Starts(d, to)
  /\ For(d, l)
  /\ sent' = [sent EXCEPT ![d] = k]

MakePending(d, l, k) ==
  /\ SetStatus(l, "pending")
  /\ key' = [key EXCEPT ![l] = k]
  /\ setBy' = [setBy EXCEPT ![l] = d]

Insert(d) ==
  /\ \E l \in Locations, k \in Keys :
       /\ status[l] = "none"
       /\ Arrives(d, l, k, "row")
       /\ MakePending(d, l, k)
  /\ UNCHANGED <<aged, disturbed, session, tokens, highlevel, lost, todo, held, retried>>

\* The insert is answered 23505.
InsertConflicts(d) ==
  /\ \E l \in Locations, k \in Keys : status[l] # "none" /\ Arrives(d, l, k, "existing")
  /\ UNCHANGED <<rows, session, tokens, highlevel, lost, todo, held, retried>>

ReadExisting(d) ==
  /\ Goes(d, "existing", IF key[loc[d]] = sent[d] THEN "row" ELSE "update")
  /\ UNCHANGED <<rows, session, tokens, highlevel, lost, loc, sent, todo, held, retried>>

\* Another delivery key: the row is pending again, whatever it was.
Reinstall(d) ==
  /\ Goes(d, "update", "row")
  /\ MakePending(d, loc[d], sent[d])
  /\ aged' = aged \ {loc[d]}
  /\ disturbed' = disturbed \cup {loc[d]}
  /\ UNCHANGED <<session, tokens, highlevel, lost, loc, sent, todo, held, retried>>

\* A completed install is answered with its token's status.
AlreadyCompleted(d) ==
  /\ at[d] = "row" /\ status[loc[d]] = "completed"
  /\ Leaves(d, "done")
  /\ UNCHANGED <<rows, session, tokens, highlevel, lost>>

ReadRow(d) ==
  /\ at[d] = "row" /\ status[loc[d]] # "completed"
  /\ Goes(d, "row", "session")
  /\ todo' = [todo EXCEPT ![d] = {loc[d]}]
  /\ UNCHANGED <<rows, session, tokens, highlevel, lost, loc, sent, held, retried>>

-----------------------------------------------------------------------------
(* The OAuth callback *)

\* The code is exchanged for a Company token, which is saved.
SaveCompany(c) ==
  /\ Starts(c, "list")
  /\ company' = "active" /\ companyBy' = c /\ overdue' = FALSE
  /\ UNCHANGED <<rows, tokens, highlevel, lost, loc, sent, todo, held, retried>>

\* Mutant: the list leaves out what is pending.
Found_Failed == {l \in Locations : status[l] = "failed"}

Found == {l \in Locations : status[l] \in Claimable}

NothingPending(c) ==
  /\ at[c] = "list" /\ Found = {}
  /\ Leaves(c, "done")
  /\ UNCHANGED <<rows, session, tokens, highlevel, lost>>

ListInstalls(c) ==
  /\ Goes(c, "list", "session") /\ Found # {}
  /\ todo' = [todo EXCEPT ![c] = Found]
  /\ UNCHANGED <<rows, session, tokens, highlevel, lost, loc, sent, held, retried>>

\* The code is exchanged for the pair of one location.
Granted(c) ==
  /\ Starts(c, "grant")
  /\ \E l \in Locations, n \in Pairs : Issue(n, l) /\ For(c, l) /\ Holds(c, n)
  /\ UNCHANGED <<rows, session, tokens, rotates, spent, successor, lost, sent, todo, retried>>

SaveGrant(c) ==
  /\ Goes(c, "grant", "correlate")
  /\ Store(loc[c], held[c])
  /\ Holds(c, 0)
  /\ UNCHANGED <<rows, session, highlevel, lost, loc, sent, todo, retried>>

NothingToSettle(c) ==
  /\ at[c] = "correlate" /\ status[loc[c]] \in {"none", "completed"}
  /\ Leaves(c, "done")
  /\ UNCHANGED <<rows, session, tokens, highlevel, lost>>

Correlate(c) ==
  /\ at[c] = "correlate" /\ status[loc[c]] \notin {"none", "completed"}
  /\ Goes(c, "correlate", "settle")
  /\ UNCHANGED <<rows, session, tokens, highlevel, lost, loc, sent, todo, held, retried>>

Settle(c) ==
  /\ at[c] = "settle"
  /\ Leaves(c, "done")
  /\ SetStatus(loc[c], "completed")
  /\ aged' = aged \ {loc[c]}
  /\ UNCHANGED <<key, setBy, disturbed, session, tokens, highlevel, lost>>

-----------------------------------------------------------------------------
(* Both reconcile: read the Company session, then claim install by install *)

NoSession(p) ==
  /\ at[p] = "session" /\ company # "active"
  /\ Leaves(p, "done")
  /\ UNCHANGED <<rows, session, tokens, highlevel, lost>>

SessionFound(p) ==
  /\ company = "active"
  /\ Goes(p, "session", IF overdue THEN "expire" ELSE "claim")
  /\ UNCHANGED <<rows, session, tokens, highlevel, lost, loc, sent, todo, held, retried>>

\* The overdue session is expired if it is still active, whoever saved it.
Expire(p) ==
  /\ at[p] = "expire"
  /\ Leaves(p, "done")
  /\ company' = IF company = "active" THEN "expired" ELSE company
  /\ UNCHANGED <<rows, companyBy, overdue, tokens, highlevel, lost>>

Claim(p) ==
  /\ \E l \in todo[p] :
       /\ For(p, l)
       /\ IF status[l] \in Claimable
          THEN SetStatus(l, "processing") /\ Goes(p, "claim", "exchange")
          ELSE UNCHANGED status /\ Goes(p, "claim", "steal")
  /\ UNCHANGED <<key, setBy, aged, disturbed, session, tokens, highlevel, lost, sent, todo, held, retried>>

\* The second update of a claim takes over one that is older than two minutes.
Steal(p) ==
  /\ Goes(p, "steal", "exchange")
  /\ status[loc[p]] = "processing" /\ loc[p] \in aged
  /\ aged' = aged \ {loc[p]}
  /\ disturbed' = disturbed \cup {loc[p]}
  /\ UNCHANGED <<status, key, setBy, session, tokens, highlevel, lost, loc, sent, todo, held, retried>>

Visited(p) == todo' = [todo EXCEPT ![p] = @ \ {loc[p]}]

\* Someone else has the install: it is skipped.
Skip(p) ==
  /\ Goes(p, "steal", "claim")
  /\ ~(status[loc[p]] = "processing" /\ loc[p] \in aged)
  /\ Visited(p)
  /\ UNCHANGED <<rows, session, tokens, highlevel, lost, loc, sent, held, retried>>

\* Mutant: the answer's location is not compared with the install's.
LocationToken_AnyLocation(p) ==
  /\ Goes(p, "exchange", "save")
  /\ \E l \in Locations \cup {Elsewhere}, n \in Pairs : Issue(n, l) /\ Holds(p, n)
  /\ UNCHANGED <<rows, session, tokens, rotates, spent, successor, lost, loc, sent, todo, retried>>

\* HighLevel issues a pair; one of another location is refused.
LocationToken(p) ==
  /\ at[p] = "exchange"
  /\ \E l \in Locations \cup {Elsewhere}, n \in Pairs :
       /\ Issue(n, l)
       /\ IF l = loc[p] THEN Holds(p, n) /\ Goes(p, "exchange", "save")
                        ELSE UNCHANGED held /\ Goes(p, "exchange", "fail")
  /\ UNCHANGED <<rows, session, tokens, rotates, spent, successor, lost, loc, sent, todo, retried>>

SaveLocationToken(p) ==
  /\ Goes(p, "save", "complete")
  /\ Store(loc[p], held[p])
  /\ Holds(p, 0)
  /\ UNCHANGED <<rows, session, highlevel, lost, loc, sent, todo, retried>>

\* HighLevel refuses, or a database call inside the try fails.
Stumble(p) ==
  /\ \E place \in {"exchange", "save", "complete"} : Goes(p, place, "fail")
  /\ Holds(p, 0)
  /\ lost' = IF held[p] = 0 THEN lost ELSE lost \cup {held[p]}
  /\ UNCHANGED <<rows, session, tokens, highlevel, loc, sent, todo, retried>>

\* Both updates name the row only, not the claim.
Complete(p) ==
  /\ Goes(p, "complete", "claim")
  /\ SetStatus(loc[p], "completed")
  /\ aged' = aged \ {loc[p]}
  /\ Visited(p)
  /\ UNCHANGED <<key, setBy, disturbed, session, tokens, highlevel, lost, loc, sent, held, retried>>

RecordFailure(p) ==
  /\ Goes(p, "fail", "claim")
  /\ SetStatus(loc[p], "failed")
  /\ aged' = aged \ {loc[p]}
  /\ Visited(p)
  /\ UNCHANGED <<key, setBy, disturbed, session, tokens, highlevel, lost, loc, sent, held, retried>>

Answer(p) ==
  /\ at[p] = "claim" /\ todo[p] = {}
  /\ Leaves(p, "done")
  /\ UNCHANGED <<rows, session, tokens, highlevel, lost>>

-----------------------------------------------------------------------------
(* API requests and previews use the stored pair *)

\* A location without a pair has no OAuth context.
NoPair(r) ==
  /\ \E l \in Locations : stored[l] = 0
  /\ Starts(r, "failed")
  /\ UNCHANGED <<rows, session, tokens, highlevel, lost, loc, sent, todo, held, retried>>

\* A request reads the pair; to refresh it, it reads the row again.
ReadPair(r) ==
  /\ \E l \in Locations :
       /\ stored[l] # 0
       /\ For(r, l)
       /\ Starts(r, IF l \in old THEN "reread" ELSE "use")
  /\ UNCHANGED <<rows, session, tokens, highlevel, lost, sent, todo, held, retried>>

Reread(r) ==
  /\ Goes(r, "reread", "refresh")
  /\ Holds(r, stored[loc[r]])
  /\ UNCHANGED <<rows, session, tokens, highlevel, lost, loc, sent, todo, retried>>

\* A preview keeps the pair it read.  Its window of 30 seconds is smaller than
\* the five minutes that make a pair old.
OpenPreview(v) ==
  /\ \E l \in Locations :
       /\ stored[l] # 0
       /\ For(v, l)
       /\ Holds(v, stored[l])
       /\ \/ Starts(v, "use") /\ UNCHANGED retried
          \/ l \in old /\ Starts(v, "refresh") /\ retried' = retried \cup {v}
  /\ UNCHANGED <<rows, session, tokens, highlevel, lost, sent, todo>>

\* HighLevel exchanges the refresh token for another.
Rotated(p) ==
  /\ at[p] = "refresh" /\ rotates /\ held[p] \notin spent
  /\ Goes(p, "refresh", "keep")
  /\ \E n \in Pairs :
       /\ Issue(n, loc[p])
       /\ Holds(p, n)
       /\ successor' = [successor EXCEPT ![held[p]] = n]
  /\ spent' = spent \cup {held[p]}
  /\ UNCHANGED <<rows, session, tokens, rotates, lost, loc, sent, todo, retried>>

\* The answer of the exchange never arrives.
RotatedUnheard(p) ==
  /\ at[p] = "refresh" /\ rotates /\ held[p] \notin spent
  /\ Leaves(p, "failed")
  /\ \E n \in Pairs :
       /\ Issue(n, loc[p])
       /\ successor' = [successor EXCEPT ![held[p]] = n]
       /\ lost' = lost \cup {n}
  /\ spent' = spent \cup {held[p]}
  /\ UNCHANGED <<rows, session, tokens, rotates>>

\* Only the access token is new: the refresh token that was sent is kept.
Renewed(p) ==
  /\ ~rotates
  /\ Goes(p, "refresh", "keep")
  /\ UNCHANGED <<rows, session, tokens, highlevel, lost, loc, sent, todo, held, retried>>

\* A spent refresh token is refused; any exchange may fail.
Refused(p) ==
  /\ at[p] = "refresh"
  /\ Leaves(p, "failed")
  /\ UNCHANGED <<rows, session, tokens, highlevel, lost>>

\* Mutant: the refresh token that was sent is preferred to the new one.
KeepPair_Sent(p) ==
  /\ Goes(p, "keep", "use")
  /\ Store(loc[p], IF \E n \in spent : successor[n] = held[p]
                   THEN CHOOSE n \in spent : successor[n] = held[p] ELSE held[p])
  /\ UNCHANGED <<rows, session, highlevel, lost, loc, sent, todo, held, retried>>

KeepPair(p) ==
  /\ Goes(p, "keep", "use")
  /\ Store(loc[p], held[p])
  /\ UNCHANGED <<rows, session, highlevel, lost, loc, sent, todo, held, retried>>

Served(p) ==
  /\ at[p] = "use"
  /\ Leaves(p, "done")
  /\ UNCHANGED <<rows, session, tokens, highlevel, lost>>

\* A 401 is retried once: a request refreshes what it reads then, a preview
\* what it holds.
Unauthorized(p) ==
  /\ p \notin retried
  /\ Goes(p, "use", IF p \in Requests THEN "reread" ELSE "refresh")
  /\ retried' = retried \cup {p}
  /\ UNCHANGED <<rows, session, tokens, highlevel, lost, loc, sent, todo, held>>

UnauthorizedAgain(p) ==
  /\ at[p] = "use" /\ p \in retried
  /\ Leaves(p, "failed")
  /\ UNCHANGED <<rows, session, tokens, highlevel, lost>>

-----------------------------------------------------------------------------
(* Time and faults *)

Unsaved(p) == IF at[p] \in {"save", "grant", "keep"} THEN {held[p]} ELSE {}

\* The deadline of a preview passes: what it refreshed and has not saved is
\* thrown away.
Deadline(v) ==
  /\ at[v] \in {"refresh", "keep", "use"}
  /\ Leaves(v, "failed")
  /\ lost' = lost \cup Unsaved(v)
  /\ UNCHANGED <<rows, session, tokens, highlevel>>

\* The process dies, or a database call outside the try fails.
Stop(p) ==
  /\ at[p] \notin {"idle"} \cup Ends
  /\ Leaves(p, "dead")
  /\ lost' = lost \cup Unsaved(p)
  /\ UNCHANGED <<rows, session, tokens, highlevel>>

\* A claim gets older than two minutes.
ClaimAges(l) ==
  /\ status[l] = "processing" /\ l \notin aged
  /\ aged' = aged \cup {l}
  /\ UNCHANGED <<status, key, setBy, disturbed, session, tokens, highlevel, lost, handlers>>

\* The Company session's fifteen minutes pass.
SessionAges ==
  /\ company = "active" /\ ~overdue
  /\ overdue' = TRUE
  /\ UNCHANGED <<rows, company, companyBy, tokens, highlevel, lost, handlers>>

PairAges(l) ==
  /\ stored[l] # 0 /\ l \notin old
  /\ old' = old \cup {l}
  /\ UNCHANGED <<rows, session, stored, highlevel, lost, handlers>>

-----------------------------------------------------------------------------
Recording(d) ==
  \/ Insert(d) \/ InsertConflicts(d) \/ ReadExisting(d)
  \/ Reinstall(d) \/ AlreadyCompleted(d) \/ ReadRow(d)

CallingBack(c) ==
  \/ SaveCompany(c) \/ NothingPending(c) \/ ListInstalls(c)
  \/ Granted(c) \/ SaveGrant(c)
  \/ NothingToSettle(c) \/ Correlate(c) \/ Settle(c)

Reconciling(p) ==
  \/ NoSession(p) \/ SessionFound(p) \/ Expire(p)
  \/ Claim(p) \/ Steal(p) \/ Skip(p)
  \/ LocationToken(p) \/ SaveLocationToken(p) \/ Stumble(p)
  \/ Complete(p) \/ RecordFailure(p) \/ Answer(p)

Refreshing(p) ==
  \/ Rotated(p) \/ RotatedUnheard(p) \/ Renewed(p) \/ Refused(p)
  \/ KeepPair(p) \/ Served(p) \/ Unauthorized(p) \/ UnauthorizedAgain(p)

Next ==
  \/ \E d \in Installs : Recording(d)
  \/ \E c \in Callbacks : CallingBack(c)
  \/ \E p \in Reconcilers : Reconciling(p)
  \/ \E r \in Requests : NoPair(r) \/ ReadPair(r) \/ Reread(r)
  \/ \E v \in Previews : OpenPreview(v) \/ Deadline(v)
  \/ \E p \in Requests \cup Previews : Refreshing(p)
  \/ \E p \in Handlers : Stop(p)
  \/ \E l \in Locations : ClaimAges(l) \/ PairAges(l)
  \/ SessionAges

Spec == Init /\ [][Next]_vars

-----------------------------------------------------------------------------
(* What must hold *)

\* Every variable holds values of its type: the tables' check constraints and
\* the places of the handlers' code.
TypeOK ==
  /\ status \in [Locations -> {"none", "pending", "processing", "completed", "failed"}]
  /\ key \in [Locations -> Keys \cup {None}]
  /\ setBy \in [Locations -> Installs \cup {None}]
  /\ aged \subseteq Locations /\ disturbed \subseteq Locations
  /\ company \in {"none", "active", "expired"}
  /\ companyBy \in Callbacks \cup {None}
  /\ overdue \in BOOLEAN
  /\ stored \in [Locations -> Pairs \cup {0}]
  /\ old \subseteq Locations
  /\ rotates \in BOOLEAN
  /\ issuedFor \in [Pairs -> Locations \cup {Elsewhere, None}]
  /\ spent \subseteq Pairs /\ lost \subseteq Pairs
  /\ successor \in [Pairs -> Pairs \cup {0}]
  /\ at \in [Handlers -> Places]
  /\ loc \in [Handlers -> Locations \cup {None}]
  /\ sent \in [Handlers -> Keys \cup {None}]
  /\ todo \in [Handlers -> SUBSET Locations]
  /\ held \in [Handlers -> Pairs \cup {0}]
  /\ retried \subseteq Requests \cup Previews

\* The install is pending although the delivery that made it so and the
\* callback of the Company session have both finished without a fault.
LeftPending(l) ==
  /\ status[l] = "pending" /\ at[setBy[l]] = "done"
  /\ companyBy # None /\ at[companyBy] = "done"

\* Whichever of the AppInstall event and the OAuth callback comes first, the
\* other finds it: no install is left pending beside a Company session that is
\* still good (recordGhlAppInstall, saveCompanyOAuthOnboardingSession).
NeverForgotten == \A l \in Locations : ~(LeftPending(l) /\ company = "active" /\ ~overdue)

\* What README.md:263 says: the event and the callback may arrive in either
\* order; once both are handled the location has its token, unless the Company
\* session has passed its own expiry.
EitherOrder == \A l \in Locations : ~(LeftPending(l) /\ ~overdue)

InClaim(p, l) == at[p] \in {"exchange", "save", "complete", "fail"} /\ loc[p] = l

\* Two handlers exchange the Company token for one location at the same time
\* only after a claim was taken over as stale or the app was installed anew
\* (claimGhlPendingAppInstall).
OneClaimant ==
  \A l \in Locations \ disturbed : \A p, q \in Reconcilers :
    InClaim(p, l) /\ InClaim(q, l) => p = q

\* A completed install has a stored pair, and what is stored for a location
\* was issued for it: a Company token never opens another location
\* (validateLocationTokenPayload, completeGhlPendingAppInstall).
InstalledTrue ==
  \A l \in Locations :
    /\ status[l] = "completed" => stored[l] # 0
    /\ stored[l] # 0 => issuedFor[stored[l]] = l

\* However many requests, previews and installs race for a location's row, its
\* refresh token is spent only while a handler is about to save the successor,
\* or when that successor was lost (refreshGhlOAuthToken, saveTokenPayload).
StoredPairLives ==
  \A l \in Locations : stored[l] \in spent =>
    \/ successor[stored[l]] \in lost
    \/ \E p \in Requests \cup Previews :
         at[p] = "keep" /\ held[p] = successor[stored[l]] /\ loc[p] = l

=============================================================================
