------------------------ MODULE LocationTokensProofs ------------------------
(***************************************************************************)
(* Proofs about LocationTokens for any number of deliveries, callbacks,    *)
(* requests, previews and locations.  None of the properties is inductive. *)
(* What a completed install rests on needs that every held pair is of the  *)
(* location its handler works on; that a spent refresh token is never all  *)
(* there is needs that a new pair is in one hand and nowhere else; that an *)
(* install is never forgotten needs what is still ahead of the delivery    *)
(* that made it pending, and of the callback that saved the session.       *)
(***************************************************************************)
EXTENDS LocationTokens, TLAPS

Recordings == {"existing", "update", "row"}
Grants == {"list", "grant", "correlate", "settle"}
Reconcilings == {"session", "expire", "claim", "steal", "exchange", "save", "complete", "fail"}
Uses == {"reread", "refresh", "keep", "use"}

\* Places at which a handler has a location, a pair, a location with a pair.
Located == Recordings \cup Uses \cup {"steal", "exchange", "save", "complete", "fail",
                                      "grant", "correlate", "settle"}
Holding == {"save", "grant", "refresh", "keep"}
Backed == Uses \cup {"complete", "correlate", "settle"}

\* Every handler is in its own code, and knows its location there.
Roles ==
  /\ \A d \in Installs : at[d] \in {"idle"} \cup Recordings \cup Reconcilings \cup Ends
  /\ \A c \in Callbacks : at[c] \in {"idle"} \cup Grants \cup Reconcilings \cup Ends
  /\ \A p \in Requests \cup Previews : at[p] \in {"idle"} \cup Uses \cup Ends
  /\ \A p \in Handlers : at[p] \in Located => loc[p] \in Locations

\* A pair in a handler's hand was issued for the location it works on.
HeldPairs ==
  \A p \in Handlers :
    /\ at[p] \in Holding => held[p] \in Pairs
    /\ p \in Previews /\ at[p] = "use" => held[p] \in Pairs
    /\ held[p] # 0 => at[p] \in Holding \cup {"reread", "use"} /\ issuedFor[held[p]] = loc[p]
    /\ at[p] \in Backed => stored[loc[p]] # 0

\* Refresh tokens are spent only where HighLevel rotates them.
SpentPairs == \A n \in spent : issuedFor[n] # None /\ rotates

\* A handler has a pair that was just issued.
Fresh(p) == at[p] \in {"save", "grant"} \/ (at[p] = "keep" /\ rotates)

\* Such a pair is unspent, stored nowhere and in one hand.
FreshPairs ==
  \A p \in Handlers : Fresh(p) =>
    /\ held[p] \notin spent
    /\ \A l \in Locations : stored[l] # held[p]
    /\ \A q \in Handlers : q # p => held[q] # held[p]

\* Nobody is between claim and completion of an undisturbed install that can
\* still be claimed.
ClaimsFollowed ==
  \A l \in Locations \ disturbed :
    status[l] \in {"none"} \cup Claimable => \A p \in Reconcilers : ~InClaim(p, l)

\* The delivery that made an install pending has yet to visit it, or has ended
\* or is ending without a Company session.
DeliveryAhead ==
  \A l \in Locations : status[l] = "pending" =>
    LET d == setBy[l] IN
    /\ d \in Installs
    /\ \/ at[d] = "row" /\ loc[d] = l
       \/ at[d] \in {"session", "claim"} /\ todo[d] = {l}
       \/ at[d] \in {"expire", "done", "dead"}

Good == company = "active" /\ ~overdue

\* When that delivery has ended and the Company session is good, its callback
\* has the install ahead.
CallbackAhead ==
  \A l \in Locations :
    status[l] = "pending" /\ at[setBy[l]] = "done" /\ Good /\ companyBy # None =>
      \/ at[companyBy] \in {"list", "dead"}
      \/ at[companyBy] \in {"session", "claim"} /\ l \in todo[companyBy]
      \/ /\ at[companyBy] \in {"steal", "exchange", "save", "complete", "fail"}
         /\ l \in todo[companyBy] /\ loc[companyBy] # l

PairInv == HeldPairs /\ SpentPairs /\ FreshPairs /\ InstalledTrue /\ StoredPairLives
ClaimInv == ClaimsFollowed /\ OneClaimant
InstallInv == DeliveryAhead /\ CallbackAhead
LocationInv == TypeOK /\ Roles /\ PairInv /\ ClaimInv /\ InstallInv

-----------------------------------------------------------------------------
(* Types and roles *)

\* 0 is no pair.
LEMMA ZeroIsNone == 0 \notin Pairs
  BY DEF Pairs

\* Every step keeps the types.
LEMMA TypeStep ==
  ASSUME TypeOK, Roles, HeldPairs, Next
  PROVE  TypeOK'
<1>1. ASSUME NEW d \in Installs, Recording(d)
      PROVE  TypeOK'
  <2>1. CASE Insert(d)
    BY <2>1, NamesAssumption DEF Insert, Arrives, Starts, Goes, For, MakePending, SetStatus,
       session, tokens, highlevel, TypeOK, Roles, HeldPairs, Holding, Places, Ends, Located,
       Recordings, Uses, Reconcilers, Handlers
  <2>2. CASE InsertConflicts(d)
    BY <2>2, NamesAssumption DEF InsertConflicts, Arrives, Starts, Goes, For, rows, session,
       tokens, highlevel, TypeOK, Roles, HeldPairs, Holding, Places, Ends, Located,
       Recordings, Uses, Reconcilers, Handlers
  <2>3. CASE \/ ReadExisting(d) \/ Reinstall(d) \/ AlreadyCompleted(d) \/ ReadRow(d)
    BY <2>3, NamesAssumption DEF ReadExisting, Goes, Reinstall, MakePending, SetStatus,
       AlreadyCompleted, Leaves, ReadRow, rows, session, tokens, highlevel, TypeOK, Roles,
       HeldPairs, Holding, Places, Ends, Located, Recordings, Uses, Reconcilers, Handlers
  <2>4. QED
    BY <1>1, <2>1, <2>2, <2>3 DEF Recording
<1>2. ASSUME NEW c \in Callbacks, CallingBack(c)
      PROVE  TypeOK'
  <2>1. CASE SaveCompany(c)
    BY <2>1, NamesAssumption DEF SaveCompany, Starts, Goes, rows, tokens, highlevel, TypeOK,
       Roles, HeldPairs, Holding, Places, Ends, Located, Recordings, Uses, Reconcilers,
       Handlers
  <2>2. CASE NothingPending(c)
    BY <2>2, NamesAssumption DEF NothingPending, Leaves, rows, session, tokens, highlevel,
       TypeOK, Roles, HeldPairs, Holding, Places, Ends, Located, Recordings, Uses,
       Reconcilers, Handlers
  <2>3. CASE ListInstalls(c)
    BY <2>3, NamesAssumption DEF ListInstalls, Goes, Found, rows, session, tokens,
       highlevel, TypeOK, Roles, HeldPairs, Holding, Places, Ends, Located, Recordings,
       Uses, Reconcilers, Handlers
  <2>4. CASE Granted(c)
    BY <2>4, NamesAssumption DEF Granted, Starts, Goes, Issue, For, Holds, rows, session,
       tokens, TypeOK, Roles, HeldPairs, Holding, Places, Ends, Located, Recordings, Uses,
       Reconcilers, Handlers
  <2>5. CASE SaveGrant(c)
    BY <2>5, NamesAssumption DEF SaveGrant, Goes, Store, Holds, rows, session, highlevel,
       TypeOK, Roles, HeldPairs, Holding, Places, Ends, Located, Recordings, Uses,
       Reconcilers, Handlers
  <2>6. CASE NothingToSettle(c)
    BY <2>6, NamesAssumption DEF NothingToSettle, Leaves, rows, session, tokens, highlevel,
       TypeOK, Roles, HeldPairs, Holding, Places, Ends, Located, Recordings, Uses,
       Reconcilers, Handlers
  <2>7. CASE Correlate(c)
    BY <2>7, NamesAssumption DEF Correlate, Goes, rows, session, tokens, highlevel, TypeOK,
       Roles, HeldPairs, Holding, Places, Ends, Located, Recordings, Uses, Reconcilers,
       Handlers
  <2>8. CASE Settle(c)
    BY <2>8, NamesAssumption DEF Settle, Leaves, SetStatus, session, tokens, highlevel,
       TypeOK, Roles, HeldPairs, Holding, Places, Ends, Located, Recordings, Uses,
       Reconcilers, Handlers
  <2>9. QED
    BY <1>2, <2>1, <2>2, <2>3, <2>4, <2>5, <2>6, <2>7, <2>8 DEF CallingBack
<1>3. ASSUME NEW p \in Reconcilers, Reconciling(p)
      PROVE  TypeOK'
  BY <1>3, NamesAssumption DEF Reconciling, NoSession, Leaves, SessionFound, Goes, Expire,
     Claim, For, SetStatus, Steal, Skip, Visited, LocationToken, Issue, Holds,
     SaveLocationToken, Store, Stumble, Complete, RecordFailure, Answer, rows, session,
     tokens, highlevel, TypeOK, Roles, HeldPairs, Holding, Places, Ends, Located,
     Recordings, Uses, Reconcilers, Handlers
<1>4. ASSUME NEW r \in Requests, NoPair(r) \/ ReadPair(r) \/ Reread(r)
      PROVE  TypeOK'
  <2>1. CASE NoPair(r)
    BY <2>1, NamesAssumption DEF NoPair, Starts, Goes, rows, session, tokens, highlevel,
       TypeOK, Roles, HeldPairs, Holding, Places, Ends, Located, Recordings, Uses,
       Reconcilers, Handlers
  <2>2. CASE ReadPair(r)
    BY <2>2, NamesAssumption DEF ReadPair, Starts, Goes, For, rows, session, tokens,
       highlevel, TypeOK, Roles, HeldPairs, Holding, Places, Ends, Located, Recordings,
       Uses, Reconcilers, Handlers
  <2>3. CASE Reread(r)
    BY <2>3, NamesAssumption DEF Reread, Goes, Holds, rows, session, tokens, highlevel,
       TypeOK, Roles, HeldPairs, Holding, Places, Ends, Located, Recordings, Uses,
       Reconcilers, Handlers
  <2>4. QED
    BY <1>4, <2>1, <2>2, <2>3
<1>5. ASSUME NEW v \in Previews, OpenPreview(v) \/ Deadline(v)
      PROVE  TypeOK'
  <2>1. CASE OpenPreview(v)
    BY <2>1, NamesAssumption DEF OpenPreview, Starts, Goes, For, Holds, rows, session,
       tokens, highlevel, TypeOK, Roles, HeldPairs, Holding, Places, Ends, Located,
       Recordings, Uses, Reconcilers, Handlers
  <2>2. CASE Deadline(v)
    BY <2>2, NamesAssumption DEF Deadline, Leaves, Unsaved, rows, session, tokens,
       highlevel, TypeOK, Roles, HeldPairs, Holding, Places, Ends, Located, Recordings,
       Uses, Reconcilers, Handlers
  <2>3. QED
    BY <1>5, <2>1, <2>2
<1>6. ASSUME NEW p \in Requests \cup Previews, Refreshing(p)
      PROVE  TypeOK'
  BY <1>6, NamesAssumption DEF Refreshing, Rotated, Goes, Issue, Holds, RotatedUnheard,
     Leaves, Renewed, Refused, KeepPair, Store, Served, Unauthorized, UnauthorizedAgain,
     rows, session, tokens, highlevel, TypeOK, Roles, HeldPairs, Holding, Places, Ends,
     Located, Recordings, Uses, Reconcilers, Handlers
<1>7. ASSUME NEW p \in Handlers, Stop(p)
      PROVE  TypeOK'
  BY <1>7, NamesAssumption DEF Stop, Leaves, Unsaved, rows, session, tokens, highlevel,
     TypeOK, Roles, HeldPairs, Holding, Places, Ends, Located, Recordings, Uses,
     Reconcilers, Handlers
<1>8. ASSUME NEW l \in Locations, ClaimAges(l) \/ PairAges(l)
      PROVE  TypeOK'
  BY <1>8, NamesAssumption DEF ClaimAges, PairAges, rows, session, tokens, highlevel,
     handlers, TypeOK, Roles, HeldPairs, Holding, Places, Ends, Located, Recordings, Uses,
     Reconcilers, Handlers
<1>9. ASSUME SessionAges
      PROVE  TypeOK'
  BY <1>9, NamesAssumption DEF SessionAges, rows, tokens, highlevel, handlers, TypeOK,
     Roles, HeldPairs, Holding, Places, Ends, Located, Recordings, Uses, Reconcilers,
     Handlers
<1>10. QED
  BY <1>1, <1>2, <1>3, <1>4, <1>5, <1>6, <1>7, <1>8, <1>9 DEF Next

\* Every step keeps a handler in its own code.
LEMMA RolesStep ==
  ASSUME TypeOK, Roles, Next
  PROVE  Roles'
<1>1. ASSUME NEW d \in Installs, Recording(d)
      PROVE  Roles'
  <2>1. CASE Insert(d)
    BY <2>1, NamesAssumption DEF Insert, Arrives, Starts, Goes, For, MakePending, SetStatus,
       session, tokens, highlevel, TypeOK, Roles, Reconcilers, Handlers, Recordings, Grants,
       Reconcilings, Uses, Located, Ends
  <2>2. CASE InsertConflicts(d)
    BY <2>2, NamesAssumption DEF InsertConflicts, Arrives, Starts, Goes, For, rows, session,
       tokens, highlevel, TypeOK, Roles, Reconcilers, Handlers, Recordings, Grants,
       Reconcilings, Uses, Located, Ends
  <2>3. CASE \/ ReadExisting(d) \/ Reinstall(d) \/ AlreadyCompleted(d) \/ ReadRow(d)
    BY <2>3, NamesAssumption DEF ReadExisting, Goes, Reinstall, MakePending, SetStatus,
       AlreadyCompleted, Leaves, ReadRow, rows, session, tokens, highlevel, TypeOK, Roles,
       Reconcilers, Handlers, Recordings, Grants, Reconcilings, Uses, Located, Ends
  <2>4. QED
    BY <1>1, <2>1, <2>2, <2>3 DEF Recording
<1>2. ASSUME NEW c \in Callbacks, CallingBack(c)
      PROVE  Roles'
  BY <1>2, NamesAssumption DEF CallingBack, SaveCompany, Starts, Goes, NothingPending,
     Leaves, ListInstalls, Found, Granted, Issue, For, Holds, SaveGrant, Store,
     NothingToSettle, Correlate, Settle, SetStatus, rows, session, tokens, highlevel,
     TypeOK, Roles, Reconcilers, Handlers, Recordings, Grants, Reconcilings, Uses, Located,
     Ends
<1>3. ASSUME NEW p \in Reconcilers, Reconciling(p)
      PROVE  Roles'
  BY <1>3, NamesAssumption DEF Reconciling, NoSession, Leaves, SessionFound, Goes, Expire,
     Claim, For, SetStatus, Steal, Skip, Visited, LocationToken, Issue, Holds,
     SaveLocationToken, Store, Stumble, Complete, RecordFailure, Answer, rows, session,
     tokens, highlevel, TypeOK, Roles, Reconcilers, Handlers, Recordings, Grants,
     Reconcilings, Uses, Located, Ends
<1>4. ASSUME NEW r \in Requests, NoPair(r) \/ ReadPair(r) \/ Reread(r)
      PROVE  Roles'
  <2>1. CASE NoPair(r)
    BY <2>1, NamesAssumption DEF NoPair, Starts, Goes, rows, session, tokens, highlevel,
       TypeOK, Roles, Reconcilers, Handlers, Recordings, Grants, Reconcilings, Uses,
       Located, Ends
  <2>2. CASE ReadPair(r)
    BY <2>2, NamesAssumption DEF ReadPair, Starts, Goes, For, rows, session, tokens,
       highlevel, TypeOK, Roles, Reconcilers, Handlers, Recordings, Grants, Reconcilings,
       Uses, Located, Ends
  <2>3. CASE Reread(r)
    BY <2>3, NamesAssumption DEF Reread, Goes, Holds, rows, session, tokens, highlevel,
       TypeOK, Roles, Reconcilers, Handlers, Recordings, Grants, Reconcilings, Uses,
       Located, Ends
  <2>4. QED
    BY <1>4, <2>1, <2>2, <2>3
<1>5. ASSUME NEW v \in Previews, OpenPreview(v) \/ Deadline(v)
      PROVE  Roles'
  <2>1. CASE OpenPreview(v)
    BY <2>1, NamesAssumption DEF OpenPreview, Starts, Goes, For, Holds, rows, session,
       tokens, highlevel, TypeOK, Roles, Reconcilers, Handlers, Recordings, Grants,
       Reconcilings, Uses, Located, Ends
  <2>2. CASE Deadline(v)
    BY <2>2, NamesAssumption DEF Deadline, Leaves, Unsaved, rows, session, tokens,
       highlevel, TypeOK, Roles, Reconcilers, Handlers, Recordings, Grants, Reconcilings,
       Uses, Located, Ends
  <2>3. QED
    BY <1>5, <2>1, <2>2
<1>6. ASSUME NEW p \in Requests \cup Previews, Refreshing(p)
      PROVE  Roles'
  BY <1>6, NamesAssumption DEF Refreshing, Rotated, Goes, Issue, Holds, RotatedUnheard,
     Leaves, Renewed, Refused, KeepPair, Store, Served, Unauthorized, UnauthorizedAgain,
     rows, session, tokens, highlevel, TypeOK, Roles, Reconcilers, Handlers, Recordings,
     Grants, Reconcilings, Uses, Located, Ends
<1>7. ASSUME NEW p \in Handlers, Stop(p)
      PROVE  Roles'
  BY <1>7, NamesAssumption DEF Stop, Leaves, Unsaved, rows, session, tokens, highlevel,
     TypeOK, Roles, Reconcilers, Handlers, Recordings, Grants, Reconcilings, Uses, Located,
     Ends
<1>8. ASSUME NEW l \in Locations, ClaimAges(l) \/ PairAges(l)
      PROVE  Roles'
  BY <1>8, NamesAssumption DEF ClaimAges, PairAges, rows, session, tokens, highlevel,
     handlers, TypeOK, Roles, Reconcilers, Handlers, Recordings, Grants, Reconcilings, Uses,
     Located, Ends
<1>9. ASSUME SessionAges
      PROVE  Roles'
  BY <1>9, NamesAssumption DEF SessionAges, rows, tokens, highlevel, handlers, TypeOK,
     Roles, Reconcilers, Handlers, Recordings, Grants, Reconcilings, Uses, Located, Ends
<1>10. QED
  BY <1>1, <1>2, <1>3, <1>4, <1>5, <1>6, <1>7, <1>8, <1>9 DEF Next

\* Every step keeps the pairs of handlers theirs.
LEMMA HeldPairsStep ==
  ASSUME TypeOK, Roles, HeldPairs, InstalledTrue, Next
  PROVE  HeldPairs'
<1>1. ASSUME NEW d \in Installs, Recording(d)
      PROVE  HeldPairs'
  <2>1. CASE Insert(d)
    BY <2>1, NamesAssumption, ZeroIsNone DEF Insert, Arrives, Starts, Goes, For,
       MakePending, SetStatus, session, tokens, highlevel, TypeOK, Roles, HeldPairs,
       Holding, Backed, InstalledTrue, Located, Recordings, Uses, Grants, Reconcilings,
       Ends, Reconcilers, Handlers
  <2>2. CASE InsertConflicts(d)
    BY <2>2, NamesAssumption, ZeroIsNone DEF InsertConflicts, Arrives, Starts, Goes, For,
       rows, session, tokens, highlevel, TypeOK, Roles, HeldPairs, Holding, Backed,
       InstalledTrue, Located, Recordings, Uses, Grants, Reconcilings, Ends, Reconcilers,
       Handlers
  <2>3. CASE \/ ReadExisting(d) \/ Reinstall(d) \/ AlreadyCompleted(d) \/ ReadRow(d)
    BY <2>3, NamesAssumption, ZeroIsNone DEF ReadExisting, Goes, Reinstall, MakePending,
       SetStatus, AlreadyCompleted, Leaves, ReadRow, rows, session, tokens, highlevel,
       TypeOK, Roles, HeldPairs, Holding, Backed, InstalledTrue, Located, Recordings, Uses,
       Grants, Reconcilings, Ends, Reconcilers, Handlers
  <2>4. QED
    BY <1>1, <2>1, <2>2, <2>3 DEF Recording
<1>2. ASSUME NEW c \in Callbacks, CallingBack(c)
      PROVE  HeldPairs'
  BY <1>2, NamesAssumption, ZeroIsNone DEF CallingBack, SaveCompany, Starts, Goes,
     NothingPending, Leaves, ListInstalls, Found, Granted, Issue, For, Holds, SaveGrant,
     Store, NothingToSettle, Correlate, Settle, SetStatus, rows, session, tokens, highlevel,
     TypeOK, Roles, HeldPairs, Holding, Backed, InstalledTrue, Located, Recordings, Uses,
     Grants, Reconcilings, Ends, Reconcilers, Handlers
<1>3. ASSUME NEW p \in Reconcilers, Reconciling(p)
      PROVE  HeldPairs'
  BY <1>3, NamesAssumption, ZeroIsNone DEF Reconciling, NoSession, Leaves, SessionFound,
     Goes, Expire, Claim, For, SetStatus, Steal, Skip, Visited, LocationToken, Issue, Holds,
     SaveLocationToken, Store, Stumble, Complete, RecordFailure, Answer, rows, session,
     tokens, highlevel, TypeOK, Roles, HeldPairs, Holding, Backed, InstalledTrue, Located,
     Recordings, Uses, Grants, Reconcilings, Ends, Reconcilers, Handlers
<1>4. ASSUME NEW r \in Requests, NoPair(r) \/ ReadPair(r) \/ Reread(r)
      PROVE  HeldPairs'
  <2>1. CASE NoPair(r)
    BY <2>1, NamesAssumption, ZeroIsNone DEF NoPair, Starts, Goes, rows, session, tokens,
       highlevel, TypeOK, Roles, HeldPairs, Holding, Backed, InstalledTrue, Located,
       Recordings, Uses, Grants, Reconcilings, Ends, Reconcilers, Handlers
  <2>2. CASE ReadPair(r)
    BY <2>2, NamesAssumption, ZeroIsNone DEF ReadPair, Starts, Goes, For, rows, session,
       tokens, highlevel, TypeOK, Roles, HeldPairs, Holding, Backed, InstalledTrue, Located,
       Recordings, Uses, Grants, Reconcilings, Ends, Reconcilers, Handlers
  <2>3. CASE Reread(r)
    BY <2>3, NamesAssumption, ZeroIsNone DEF Reread, Goes, Holds, rows, session, tokens,
       highlevel, TypeOK, Roles, HeldPairs, Holding, Backed, InstalledTrue, Located,
       Recordings, Uses, Grants, Reconcilings, Ends, Reconcilers, Handlers
  <2>4. QED
    BY <1>4, <2>1, <2>2, <2>3
<1>5. ASSUME NEW v \in Previews, OpenPreview(v) \/ Deadline(v)
      PROVE  HeldPairs'
  <2>1. CASE OpenPreview(v)
    BY <2>1, NamesAssumption, ZeroIsNone DEF OpenPreview, Starts, Goes, For, Holds, rows,
       session, tokens, highlevel, TypeOK, Roles, HeldPairs, Holding, Backed, InstalledTrue,
       Located, Recordings, Uses, Grants, Reconcilings, Ends, Reconcilers, Handlers
  <2>2. CASE Deadline(v)
    BY <2>2, NamesAssumption, ZeroIsNone DEF Deadline, Leaves, Unsaved, rows, session,
       tokens, highlevel, TypeOK, Roles, HeldPairs, Holding, Backed, InstalledTrue, Located,
       Recordings, Uses, Grants, Reconcilings, Ends, Reconcilers, Handlers
  <2>3. QED
    BY <1>5, <2>1, <2>2
<1>6. ASSUME NEW p \in Requests \cup Previews, Refreshing(p)
      PROVE  HeldPairs'
  BY <1>6, NamesAssumption, ZeroIsNone DEF Refreshing, Rotated, Goes, Issue, Holds,
     RotatedUnheard, Leaves, Renewed, Refused, KeepPair, Store, Served, Unauthorized,
     UnauthorizedAgain, rows, session, tokens, highlevel, TypeOK, Roles, HeldPairs, Holding,
     Backed, InstalledTrue, Located, Recordings, Uses, Grants, Reconcilings, Ends,
     Reconcilers, Handlers
<1>7. ASSUME NEW p \in Handlers, Stop(p)
      PROVE  HeldPairs'
  BY <1>7, NamesAssumption, ZeroIsNone DEF Stop, Leaves, Unsaved, rows, session, tokens,
     highlevel, TypeOK, Roles, HeldPairs, Holding, Backed, InstalledTrue, Located,
     Recordings, Uses, Grants, Reconcilings, Ends, Reconcilers, Handlers
<1>8. ASSUME NEW l \in Locations, ClaimAges(l) \/ PairAges(l)
      PROVE  HeldPairs'
  BY <1>8, NamesAssumption, ZeroIsNone DEF ClaimAges, PairAges, rows, session, tokens,
     highlevel, handlers, TypeOK, Roles, HeldPairs, Holding, Backed, InstalledTrue, Located,
     Recordings, Uses, Grants, Reconcilings, Ends, Reconcilers, Handlers
<1>9. ASSUME SessionAges
      PROVE  HeldPairs'
  BY <1>9, NamesAssumption, ZeroIsNone DEF SessionAges, rows, tokens, highlevel, handlers,
     TypeOK, Roles, HeldPairs, Holding, Backed, InstalledTrue, Located, Recordings, Uses,
     Grants, Reconcilings, Ends, Reconcilers, Handlers
<1>10. QED
  BY <1>1, <1>2, <1>3, <1>4, <1>5, <1>6, <1>7, <1>8, <1>9 DEF Next

\* Every step keeps what is stored with its location.
LEMMA InstalledStep ==
  ASSUME TypeOK, Roles, HeldPairs, InstalledTrue, Next
  PROVE  InstalledTrue'
<1>1. ASSUME NEW d \in Installs, Recording(d)
      PROVE  InstalledTrue'
  <2>1. CASE Insert(d)
    BY <2>1, NamesAssumption, ZeroIsNone DEF Insert, Arrives, Starts, Goes, For,
       MakePending, SetStatus, session, tokens, highlevel, TypeOK, Roles, HeldPairs,
       Holding, Backed, InstalledTrue, Located, Recordings, Uses, Grants, Reconcilings,
       Ends, Reconcilers, Handlers
  <2>2. CASE InsertConflicts(d)
    BY <2>2, NamesAssumption, ZeroIsNone DEF InsertConflicts, Arrives, Starts, Goes, For,
       rows, session, tokens, highlevel, TypeOK, Roles, HeldPairs, Holding, Backed,
       InstalledTrue, Located, Recordings, Uses, Grants, Reconcilings, Ends, Reconcilers,
       Handlers
  <2>3. CASE \/ ReadExisting(d) \/ Reinstall(d) \/ AlreadyCompleted(d) \/ ReadRow(d)
    BY <2>3, NamesAssumption, ZeroIsNone DEF ReadExisting, Goes, Reinstall, MakePending,
       SetStatus, AlreadyCompleted, Leaves, ReadRow, rows, session, tokens, highlevel,
       TypeOK, Roles, HeldPairs, Holding, Backed, InstalledTrue, Located, Recordings, Uses,
       Grants, Reconcilings, Ends, Reconcilers, Handlers
  <2>4. QED
    BY <1>1, <2>1, <2>2, <2>3 DEF Recording
<1>2. ASSUME NEW c \in Callbacks, CallingBack(c)
      PROVE  InstalledTrue'
  BY <1>2, NamesAssumption, ZeroIsNone DEF CallingBack, SaveCompany, Starts, Goes,
     NothingPending, Leaves, ListInstalls, Found, Granted, Issue, For, Holds, SaveGrant,
     Store, NothingToSettle, Correlate, Settle, SetStatus, rows, session, tokens, highlevel,
     TypeOK, Roles, HeldPairs, Holding, Backed, InstalledTrue, Located, Recordings, Uses,
     Grants, Reconcilings, Ends, Reconcilers, Handlers
<1>3. ASSUME NEW p \in Reconcilers, Reconciling(p)
      PROVE  InstalledTrue'
  BY <1>3, NamesAssumption, ZeroIsNone DEF Reconciling, NoSession, Leaves, SessionFound,
     Goes, Expire, Claim, For, SetStatus, Steal, Skip, Visited, LocationToken, Issue, Holds,
     SaveLocationToken, Store, Stumble, Complete, RecordFailure, Answer, rows, session,
     tokens, highlevel, TypeOK, Roles, HeldPairs, Holding, Backed, InstalledTrue, Located,
     Recordings, Uses, Grants, Reconcilings, Ends, Reconcilers, Handlers
<1>4. ASSUME NEW r \in Requests, NoPair(r) \/ ReadPair(r) \/ Reread(r)
      PROVE  InstalledTrue'
  BY <1>4, NamesAssumption, ZeroIsNone DEF NoPair, Starts, Goes, ReadPair, For, Reread,
     Holds, rows, session, tokens, highlevel, TypeOK, Roles, HeldPairs, Holding, Backed,
     InstalledTrue, Located, Recordings, Uses, Grants, Reconcilings, Ends, Reconcilers,
     Handlers
<1>5. ASSUME NEW v \in Previews, OpenPreview(v) \/ Deadline(v)
      PROVE  InstalledTrue'
  BY <1>5, NamesAssumption, ZeroIsNone DEF OpenPreview, Starts, Goes, For, Holds, Deadline,
     Leaves, Unsaved, rows, session, tokens, highlevel, TypeOK, Roles, HeldPairs, Holding,
     Backed, InstalledTrue, Located, Recordings, Uses, Grants, Reconcilings, Ends,
     Reconcilers, Handlers
<1>6. ASSUME NEW p \in Requests \cup Previews, Refreshing(p)
      PROVE  InstalledTrue'
  BY <1>6, NamesAssumption, ZeroIsNone DEF Refreshing, Rotated, Goes, Issue, Holds,
     RotatedUnheard, Leaves, Renewed, Refused, KeepPair, Store, Served, Unauthorized,
     UnauthorizedAgain, rows, session, tokens, highlevel, TypeOK, Roles, HeldPairs, Holding,
     Backed, InstalledTrue, Located, Recordings, Uses, Grants, Reconcilings, Ends,
     Reconcilers, Handlers
<1>7. ASSUME NEW p \in Handlers, Stop(p)
      PROVE  InstalledTrue'
  BY <1>7, NamesAssumption, ZeroIsNone DEF Stop, Leaves, Unsaved, rows, session, tokens,
     highlevel, TypeOK, Roles, HeldPairs, Holding, Backed, InstalledTrue, Located,
     Recordings, Uses, Grants, Reconcilings, Ends, Reconcilers, Handlers
<1>8. ASSUME NEW l \in Locations, ClaimAges(l) \/ PairAges(l)
      PROVE  InstalledTrue'
  BY <1>8, NamesAssumption, ZeroIsNone DEF ClaimAges, PairAges, rows, session, tokens,
     highlevel, handlers, TypeOK, Roles, HeldPairs, Holding, Backed, InstalledTrue, Located,
     Recordings, Uses, Grants, Reconcilings, Ends, Reconcilers, Handlers
<1>9. ASSUME SessionAges
      PROVE  InstalledTrue'
  BY <1>9, NamesAssumption, ZeroIsNone DEF SessionAges, rows, tokens, highlevel, handlers,
     TypeOK, Roles, HeldPairs, Holding, Backed, InstalledTrue, Located, Recordings, Uses,
     Grants, Reconcilings, Ends, Reconcilers, Handlers
<1>10. QED
  BY <1>1, <1>2, <1>3, <1>4, <1>5, <1>6, <1>7, <1>8, <1>9 DEF Next

\* Every step keeps spent pairs issued.
LEMMA SpentStep ==
  ASSUME TypeOK, Roles, HeldPairs, SpentPairs, Next
  PROVE  SpentPairs'
<1>1. ASSUME NEW d \in Installs, Recording(d)
      PROVE  SpentPairs'
  BY <1>1, NamesAssumption, ZeroIsNone DEF Recording, Insert, Arrives, Starts, Goes, For,
     MakePending, SetStatus, InsertConflicts, ReadExisting, Reinstall, AlreadyCompleted,
     Leaves, ReadRow, rows, session, tokens, highlevel, TypeOK, Roles, HeldPairs, Holding,
     Backed, InstalledTrue, Located, Recordings, Uses, Grants, Reconcilings, Ends,
     Reconcilers, Handlers, SpentPairs
<1>2. ASSUME NEW c \in Callbacks, CallingBack(c)
      PROVE  SpentPairs'
  BY <1>2, NamesAssumption, ZeroIsNone DEF CallingBack, SaveCompany, Starts, Goes,
     NothingPending, Leaves, ListInstalls, Found, Granted, Issue, For, Holds, SaveGrant,
     Store, NothingToSettle, Correlate, Settle, SetStatus, rows, session, tokens, highlevel,
     TypeOK, Roles, HeldPairs, Holding, Backed, InstalledTrue, Located, Recordings, Uses,
     Grants, Reconcilings, Ends, Reconcilers, Handlers, SpentPairs
<1>3. ASSUME NEW p \in Reconcilers, Reconciling(p)
      PROVE  SpentPairs'
  BY <1>3, NamesAssumption, ZeroIsNone DEF Reconciling, NoSession, Leaves, SessionFound,
     Goes, Expire, Claim, For, SetStatus, Steal, Skip, Visited, LocationToken, Issue, Holds,
     SaveLocationToken, Store, Stumble, Complete, RecordFailure, Answer, rows, session,
     tokens, highlevel, TypeOK, Roles, HeldPairs, Holding, Backed, InstalledTrue, Located,
     Recordings, Uses, Grants, Reconcilings, Ends, Reconcilers, Handlers, SpentPairs
<1>4. ASSUME NEW r \in Requests, NoPair(r) \/ ReadPair(r) \/ Reread(r)
      PROVE  SpentPairs'
  BY <1>4, NamesAssumption, ZeroIsNone DEF NoPair, Starts, Goes, ReadPair, For, Reread,
     Holds, rows, session, tokens, highlevel, TypeOK, Roles, HeldPairs, Holding, Backed,
     InstalledTrue, Located, Recordings, Uses, Grants, Reconcilings, Ends, Reconcilers,
     Handlers, SpentPairs
<1>5. ASSUME NEW v \in Previews, OpenPreview(v) \/ Deadline(v)
      PROVE  SpentPairs'
  BY <1>5, NamesAssumption, ZeroIsNone DEF OpenPreview, Starts, Goes, For, Holds, Deadline,
     Leaves, Unsaved, rows, session, tokens, highlevel, TypeOK, Roles, HeldPairs, Holding,
     Backed, InstalledTrue, Located, Recordings, Uses, Grants, Reconcilings, Ends,
     Reconcilers, Handlers, SpentPairs
<1>6. ASSUME NEW p \in Requests \cup Previews, Refreshing(p)
      PROVE  SpentPairs'
  BY <1>6, NamesAssumption, ZeroIsNone DEF Refreshing, Rotated, Goes, Issue, Holds,
     RotatedUnheard, Leaves, Renewed, Refused, KeepPair, Store, Served, Unauthorized,
     UnauthorizedAgain, rows, session, tokens, highlevel, TypeOK, Roles, HeldPairs, Holding,
     Backed, InstalledTrue, Located, Recordings, Uses, Grants, Reconcilings, Ends,
     Reconcilers, Handlers, SpentPairs
<1>7. ASSUME NEW p \in Handlers, Stop(p)
      PROVE  SpentPairs'
  BY <1>7, NamesAssumption, ZeroIsNone DEF Stop, Leaves, Unsaved, rows, session, tokens,
     highlevel, TypeOK, Roles, HeldPairs, Holding, Backed, InstalledTrue, Located,
     Recordings, Uses, Grants, Reconcilings, Ends, Reconcilers, Handlers, SpentPairs
<1>8. ASSUME NEW l \in Locations, ClaimAges(l) \/ PairAges(l)
      PROVE  SpentPairs'
  BY <1>8, NamesAssumption, ZeroIsNone DEF ClaimAges, PairAges, rows, session, tokens,
     highlevel, handlers, TypeOK, Roles, HeldPairs, Holding, Backed, InstalledTrue, Located,
     Recordings, Uses, Grants, Reconcilings, Ends, Reconcilers, Handlers, SpentPairs
<1>9. ASSUME SessionAges
      PROVE  SpentPairs'
  BY <1>9, NamesAssumption, ZeroIsNone DEF SessionAges, rows, tokens, highlevel, handlers,
     TypeOK, Roles, HeldPairs, Holding, Backed, InstalledTrue, Located, Recordings, Uses,
     Grants, Reconcilings, Ends, Reconcilers, Handlers, SpentPairs
<1>10. QED
  BY <1>1, <1>2, <1>3, <1>4, <1>5, <1>6, <1>7, <1>8, <1>9 DEF Next

\* Every step keeps a new pair in one hand.
LEMMA FreshStep ==
  ASSUME TypeOK, Roles, HeldPairs, InstalledTrue, SpentPairs, FreshPairs, Next
  PROVE  FreshPairs'
<1>1. ASSUME NEW d \in Installs, Recording(d)
      PROVE  FreshPairs'
  <2>1. CASE Insert(d)
    BY <2>1, NamesAssumption, ZeroIsNone DEF Insert, Arrives, Starts, Goes, For,
       MakePending, SetStatus, session, tokens, highlevel, TypeOK, Roles, HeldPairs,
       Holding, Backed, InstalledTrue, Located, Recordings, Uses, Grants, Reconcilings,
       Ends, Reconcilers, Handlers, SpentPairs, FreshPairs, Fresh
  <2>2. CASE InsertConflicts(d)
    BY <2>2, NamesAssumption, ZeroIsNone DEF InsertConflicts, Arrives, Starts, Goes, For,
       rows, session, tokens, highlevel, TypeOK, Roles, HeldPairs, Holding, Backed,
       InstalledTrue, Located, Recordings, Uses, Grants, Reconcilings, Ends, Reconcilers,
       Handlers, SpentPairs, FreshPairs, Fresh
  <2>3. CASE \/ ReadExisting(d) \/ Reinstall(d) \/ AlreadyCompleted(d) \/ ReadRow(d)
    BY <2>3, NamesAssumption, ZeroIsNone DEF ReadExisting, Goes, Reinstall, MakePending,
       SetStatus, AlreadyCompleted, Leaves, ReadRow, rows, session, tokens, highlevel,
       TypeOK, Roles, HeldPairs, Holding, Backed, InstalledTrue, Located, Recordings, Uses,
       Grants, Reconcilings, Ends, Reconcilers, Handlers, SpentPairs, FreshPairs, Fresh
  <2>4. QED
    BY <1>1, <2>1, <2>2, <2>3 DEF Recording
<1>2. ASSUME NEW c \in Callbacks, CallingBack(c)
      PROVE  FreshPairs'
  BY <1>2, NamesAssumption, ZeroIsNone DEF CallingBack, SaveCompany, Starts, Goes,
     NothingPending, Leaves, ListInstalls, Found, Granted, Issue, For, Holds, SaveGrant,
     Store, NothingToSettle, Correlate, Settle, SetStatus, rows, session, tokens, highlevel,
     TypeOK, Roles, HeldPairs, Holding, Backed, InstalledTrue, Located, Recordings, Uses,
     Grants, Reconcilings, Ends, Reconcilers, Handlers, SpentPairs, FreshPairs, Fresh
<1>3. ASSUME NEW p \in Reconcilers, Reconciling(p)
      PROVE  FreshPairs'
  BY <1>3, NamesAssumption, ZeroIsNone DEF Reconciling, NoSession, Leaves, SessionFound,
     Goes, Expire, Claim, For, SetStatus, Steal, Skip, Visited, LocationToken, Issue, Holds,
     SaveLocationToken, Store, Stumble, Complete, RecordFailure, Answer, rows, session,
     tokens, highlevel, TypeOK, Roles, HeldPairs, Holding, Backed, InstalledTrue, Located,
     Recordings, Uses, Grants, Reconcilings, Ends, Reconcilers, Handlers, SpentPairs,
     FreshPairs, Fresh
<1>4. ASSUME NEW r \in Requests, NoPair(r) \/ ReadPair(r) \/ Reread(r)
      PROVE  FreshPairs'
  <2>1. CASE NoPair(r)
    BY <2>1, NamesAssumption, ZeroIsNone DEF NoPair, Starts, Goes, rows, session, tokens,
       highlevel, TypeOK, Roles, HeldPairs, Holding, Backed, InstalledTrue, Located,
       Recordings, Uses, Grants, Reconcilings, Ends, Reconcilers, Handlers, SpentPairs,
       FreshPairs, Fresh
  <2>2. CASE ReadPair(r)
    BY <2>2, NamesAssumption, ZeroIsNone DEF ReadPair, Starts, Goes, For, rows, session,
       tokens, highlevel, TypeOK, Roles, HeldPairs, Holding, Backed, InstalledTrue, Located,
       Recordings, Uses, Grants, Reconcilings, Ends, Reconcilers, Handlers, SpentPairs,
       FreshPairs, Fresh
  <2>3. CASE Reread(r)
    BY <2>3, NamesAssumption, ZeroIsNone DEF Reread, Goes, Holds, rows, session, tokens,
       highlevel, TypeOK, Roles, HeldPairs, Holding, Backed, InstalledTrue, Located,
       Recordings, Uses, Grants, Reconcilings, Ends, Reconcilers, Handlers, SpentPairs,
       FreshPairs, Fresh
  <2>4. QED
    BY <1>4, <2>1, <2>2, <2>3
<1>5. ASSUME NEW v \in Previews, OpenPreview(v) \/ Deadline(v)
      PROVE  FreshPairs'
  <2>1. CASE OpenPreview(v)
    BY <2>1, NamesAssumption, ZeroIsNone DEF OpenPreview, Starts, Goes, For, Holds, rows,
       session, tokens, highlevel, TypeOK, Roles, HeldPairs, Holding, Backed, InstalledTrue,
       Located, Recordings, Uses, Grants, Reconcilings, Ends, Reconcilers, Handlers,
       SpentPairs, FreshPairs, Fresh
  <2>2. CASE Deadline(v)
    BY <2>2, NamesAssumption, ZeroIsNone DEF Deadline, Leaves, Unsaved, rows, session,
       tokens, highlevel, TypeOK, Roles, HeldPairs, Holding, Backed, InstalledTrue, Located,
       Recordings, Uses, Grants, Reconcilings, Ends, Reconcilers, Handlers, SpentPairs,
       FreshPairs, Fresh
  <2>3. QED
    BY <1>5, <2>1, <2>2
<1>6. ASSUME NEW p \in Requests \cup Previews, Refreshing(p)
      PROVE  FreshPairs'
  BY <1>6, NamesAssumption, ZeroIsNone DEF Refreshing, Rotated, Goes, Issue, Holds,
     RotatedUnheard, Leaves, Renewed, Refused, KeepPair, Store, Served, Unauthorized,
     UnauthorizedAgain, rows, session, tokens, highlevel, TypeOK, Roles, HeldPairs, Holding,
     Backed, InstalledTrue, Located, Recordings, Uses, Grants, Reconcilings, Ends,
     Reconcilers, Handlers, SpentPairs, FreshPairs, Fresh
<1>7. ASSUME NEW p \in Handlers, Stop(p)
      PROVE  FreshPairs'
  BY <1>7, NamesAssumption, ZeroIsNone DEF Stop, Leaves, Unsaved, rows, session, tokens,
     highlevel, TypeOK, Roles, HeldPairs, Holding, Backed, InstalledTrue, Located,
     Recordings, Uses, Grants, Reconcilings, Ends, Reconcilers, Handlers, SpentPairs,
     FreshPairs, Fresh
<1>8. ASSUME NEW l \in Locations, ClaimAges(l) \/ PairAges(l)
      PROVE  FreshPairs'
  BY <1>8, NamesAssumption, ZeroIsNone DEF ClaimAges, PairAges, rows, session, tokens,
     highlevel, handlers, TypeOK, Roles, HeldPairs, Holding, Backed, InstalledTrue, Located,
     Recordings, Uses, Grants, Reconcilings, Ends, Reconcilers, Handlers, SpentPairs,
     FreshPairs, Fresh
<1>9. ASSUME SessionAges
      PROVE  FreshPairs'
  BY <1>9, NamesAssumption, ZeroIsNone DEF SessionAges, rows, tokens, highlevel, handlers,
     TypeOK, Roles, HeldPairs, Holding, Backed, InstalledTrue, Located, Recordings, Uses,
     Grants, Reconcilings, Ends, Reconcilers, Handlers, SpentPairs, FreshPairs, Fresh
<1>10. QED
  BY <1>1, <1>2, <1>3, <1>4, <1>5, <1>6, <1>7, <1>8, <1>9 DEF Next

\* Every step keeps the successor of what is stored in reach.
LEMMA LivesStep ==
  ASSUME TypeOK, Roles, PairInv, Next
  PROVE  StoredPairLives'
<1>1. ASSUME NEW d \in Installs, Recording(d)
      PROVE  StoredPairLives'
  <2>1. CASE Insert(d)
    BY <2>1, NamesAssumption, ZeroIsNone DEF Insert, Arrives, Starts, Goes, For,
       MakePending, SetStatus, session, tokens, highlevel, TypeOK, Roles, HeldPairs,
       Holding, Backed, InstalledTrue, Located, Recordings, Uses, Grants, Reconcilings,
       Ends, Reconcilers, Handlers, PairInv, SpentPairs, FreshPairs, Fresh, StoredPairLives
  <2>2. CASE InsertConflicts(d)
    BY <2>2, NamesAssumption, ZeroIsNone DEF InsertConflicts, Arrives, Starts, Goes, For,
       rows, session, tokens, highlevel, TypeOK, Roles, HeldPairs, Holding, Backed,
       InstalledTrue, Located, Recordings, Uses, Grants, Reconcilings, Ends, Reconcilers,
       Handlers, PairInv, SpentPairs, FreshPairs, Fresh, StoredPairLives
  <2>3. CASE \/ ReadExisting(d) \/ Reinstall(d) \/ AlreadyCompleted(d) \/ ReadRow(d)
    BY <2>3, NamesAssumption, ZeroIsNone DEF ReadExisting, Goes, Reinstall, MakePending,
       SetStatus, AlreadyCompleted, Leaves, ReadRow, rows, session, tokens, highlevel,
       TypeOK, Roles, HeldPairs, Holding, Backed, InstalledTrue, Located, Recordings, Uses,
       Grants, Reconcilings, Ends, Reconcilers, Handlers, PairInv, SpentPairs, FreshPairs,
       Fresh, StoredPairLives
  <2>4. QED
    BY <1>1, <2>1, <2>2, <2>3 DEF Recording
<1>2. ASSUME NEW c \in Callbacks, CallingBack(c)
      PROVE  StoredPairLives'
  BY <1>2, NamesAssumption, ZeroIsNone DEF CallingBack, SaveCompany, Starts, Goes,
     NothingPending, Leaves, ListInstalls, Found, Granted, Issue, For, Holds, SaveGrant,
     Store, NothingToSettle, Correlate, Settle, SetStatus, rows, session, tokens, highlevel,
     TypeOK, Roles, HeldPairs, Holding, Backed, InstalledTrue, Located, Recordings, Uses,
     Grants, Reconcilings, Ends, Reconcilers, Handlers, PairInv, SpentPairs, FreshPairs,
     Fresh, StoredPairLives
<1>3. ASSUME NEW p \in Reconcilers, Reconciling(p)
      PROVE  StoredPairLives'
  BY <1>3, NamesAssumption, ZeroIsNone DEF Reconciling, NoSession, Leaves, SessionFound,
     Goes, Expire, Claim, For, SetStatus, Steal, Skip, Visited, LocationToken, Issue, Holds,
     SaveLocationToken, Store, Stumble, Complete, RecordFailure, Answer, rows, session,
     tokens, highlevel, TypeOK, Roles, HeldPairs, Holding, Backed, InstalledTrue, Located,
     Recordings, Uses, Grants, Reconcilings, Ends, Reconcilers, Handlers, PairInv,
     SpentPairs, FreshPairs, Fresh, StoredPairLives
<1>4. ASSUME NEW r \in Requests, NoPair(r) \/ ReadPair(r) \/ Reread(r)
      PROVE  StoredPairLives'
  <2>1. CASE NoPair(r)
    BY <2>1, NamesAssumption, ZeroIsNone DEF NoPair, Starts, Goes, rows, session, tokens,
       highlevel, TypeOK, Roles, HeldPairs, Holding, Backed, InstalledTrue, Located,
       Recordings, Uses, Grants, Reconcilings, Ends, Reconcilers, Handlers, PairInv,
       SpentPairs, FreshPairs, Fresh, StoredPairLives
  <2>2. CASE ReadPair(r)
    BY <2>2, NamesAssumption, ZeroIsNone DEF ReadPair, Starts, Goes, For, rows, session,
       tokens, highlevel, TypeOK, Roles, HeldPairs, Holding, Backed, InstalledTrue, Located,
       Recordings, Uses, Grants, Reconcilings, Ends, Reconcilers, Handlers, PairInv,
       SpentPairs, FreshPairs, Fresh, StoredPairLives
  <2>3. CASE Reread(r)
    BY <2>3, NamesAssumption, ZeroIsNone DEF Reread, Goes, Holds, rows, session, tokens,
       highlevel, TypeOK, Roles, HeldPairs, Holding, Backed, InstalledTrue, Located,
       Recordings, Uses, Grants, Reconcilings, Ends, Reconcilers, Handlers, PairInv,
       SpentPairs, FreshPairs, Fresh, StoredPairLives
  <2>4. QED
    BY <1>4, <2>1, <2>2, <2>3
<1>5. ASSUME NEW v \in Previews, OpenPreview(v) \/ Deadline(v)
      PROVE  StoredPairLives'
  <2>1. CASE OpenPreview(v)
    BY <2>1, NamesAssumption, ZeroIsNone DEF OpenPreview, Starts, Goes, For, Holds, rows,
       session, tokens, highlevel, TypeOK, Roles, HeldPairs, Holding, Backed, InstalledTrue,
       Located, Recordings, Uses, Grants, Reconcilings, Ends, Reconcilers, Handlers,
       PairInv, SpentPairs, FreshPairs, Fresh, StoredPairLives
  <2>2. CASE Deadline(v)
    BY <2>2, NamesAssumption, ZeroIsNone DEF Deadline, Leaves, Unsaved, rows, session,
       tokens, highlevel, TypeOK, Roles, HeldPairs, Holding, Backed, InstalledTrue, Located,
       Recordings, Uses, Grants, Reconcilings, Ends, Reconcilers, Handlers, PairInv,
       SpentPairs, FreshPairs, Fresh, StoredPairLives
  <2>3. QED
    BY <1>5, <2>1, <2>2
<1>6. ASSUME NEW p \in Requests \cup Previews, Refreshing(p)
      PROVE  StoredPairLives'
  BY <1>6, NamesAssumption, ZeroIsNone DEF Refreshing, Rotated, Goes, Issue, Holds,
     RotatedUnheard, Leaves, Renewed, Refused, KeepPair, Store, Served, Unauthorized,
     UnauthorizedAgain, rows, session, tokens, highlevel, TypeOK, Roles, HeldPairs, Holding,
     Backed, InstalledTrue, Located, Recordings, Uses, Grants, Reconcilings, Ends,
     Reconcilers, Handlers, PairInv, SpentPairs, FreshPairs, Fresh, StoredPairLives
<1>7. ASSUME NEW p \in Handlers, Stop(p)
      PROVE  StoredPairLives'
  BY <1>7, NamesAssumption, ZeroIsNone DEF Stop, Leaves, Unsaved, rows, session, tokens,
     highlevel, TypeOK, Roles, HeldPairs, Holding, Backed, InstalledTrue, Located,
     Recordings, Uses, Grants, Reconcilings, Ends, Reconcilers, Handlers, PairInv,
     SpentPairs, FreshPairs, Fresh, StoredPairLives
<1>8. ASSUME NEW l \in Locations, ClaimAges(l) \/ PairAges(l)
      PROVE  StoredPairLives'
  BY <1>8, NamesAssumption, ZeroIsNone DEF ClaimAges, PairAges, rows, session, tokens,
     highlevel, handlers, TypeOK, Roles, HeldPairs, Holding, Backed, InstalledTrue, Located,
     Recordings, Uses, Grants, Reconcilings, Ends, Reconcilers, Handlers, PairInv,
     SpentPairs, FreshPairs, Fresh, StoredPairLives
<1>9. ASSUME SessionAges
      PROVE  StoredPairLives'
  BY <1>9, NamesAssumption, ZeroIsNone DEF SessionAges, rows, tokens, highlevel, handlers,
     TypeOK, Roles, HeldPairs, Holding, Backed, InstalledTrue, Located, Recordings, Uses,
     Grants, Reconcilings, Ends, Reconcilers, Handlers, PairInv, SpentPairs, FreshPairs,
     Fresh, StoredPairLives
<1>10. QED
  BY <1>1, <1>2, <1>3, <1>4, <1>5, <1>6, <1>7, <1>8, <1>9 DEF Next

\* Every step follows the claims.
LEMMA FollowedStep ==
  ASSUME TypeOK, Roles, ClaimInv, Next
  PROVE  ClaimsFollowed'
<1>1. ASSUME NEW d \in Installs, Recording(d)
      PROVE  ClaimsFollowed'
  <2>1. CASE Insert(d)
    BY <2>1, NamesAssumption DEF Insert, Arrives, Starts, Goes, For, MakePending, SetStatus,
       session, tokens, highlevel, TypeOK, Roles, ClaimInv, ClaimsFollowed, OneClaimant,
       InClaim, Claimable, Located, Recordings, Uses, Grants, Reconcilings, Ends,
       Reconcilers, Handlers
  <2>2. CASE InsertConflicts(d)
    BY <2>2, NamesAssumption DEF InsertConflicts, Arrives, Starts, Goes, For, rows, session,
       tokens, highlevel, TypeOK, Roles, ClaimInv, ClaimsFollowed, OneClaimant, InClaim,
       Claimable, Located, Recordings, Uses, Grants, Reconcilings, Ends, Reconcilers,
       Handlers
  <2>3. CASE \/ ReadExisting(d) \/ Reinstall(d) \/ AlreadyCompleted(d) \/ ReadRow(d)
    BY <2>3, NamesAssumption DEF ReadExisting, Goes, Reinstall, MakePending, SetStatus,
       AlreadyCompleted, Leaves, ReadRow, rows, session, tokens, highlevel, TypeOK, Roles,
       ClaimInv, ClaimsFollowed, OneClaimant, InClaim, Claimable, Located, Recordings, Uses,
       Grants, Reconcilings, Ends, Reconcilers, Handlers
  <2>4. QED
    BY <1>1, <2>1, <2>2, <2>3 DEF Recording
<1>2. ASSUME NEW c \in Callbacks, CallingBack(c)
      PROVE  ClaimsFollowed'
  BY <1>2, NamesAssumption DEF CallingBack, SaveCompany, Starts, Goes, NothingPending,
     Leaves, ListInstalls, Found, Granted, Issue, For, Holds, SaveGrant, Store,
     NothingToSettle, Correlate, Settle, SetStatus, rows, session, tokens, highlevel,
     TypeOK, Roles, ClaimInv, ClaimsFollowed, OneClaimant, InClaim, Claimable, Located,
     Recordings, Uses, Grants, Reconcilings, Ends, Reconcilers, Handlers
<1>3. ASSUME NEW p \in Reconcilers, Reconciling(p)
      PROVE  ClaimsFollowed'
  BY <1>3, NamesAssumption DEF Reconciling, NoSession, Leaves, SessionFound, Goes, Expire,
     Claim, For, SetStatus, Steal, Skip, Visited, LocationToken, Issue, Holds,
     SaveLocationToken, Store, Stumble, Complete, RecordFailure, Answer, rows, session,
     tokens, highlevel, TypeOK, Roles, ClaimInv, ClaimsFollowed, OneClaimant, InClaim,
     Claimable, Located, Recordings, Uses, Grants, Reconcilings, Ends, Reconcilers, Handlers
<1>4. ASSUME NEW r \in Requests, NoPair(r) \/ ReadPair(r) \/ Reread(r)
      PROVE  ClaimsFollowed'
  <2>1. CASE NoPair(r)
    BY <2>1, NamesAssumption DEF NoPair, Starts, Goes, rows, session, tokens, highlevel,
       TypeOK, Roles, ClaimInv, ClaimsFollowed, OneClaimant, InClaim, Claimable, Located,
       Recordings, Uses, Grants, Reconcilings, Ends, Reconcilers, Handlers
  <2>2. CASE ReadPair(r)
    BY <2>2, NamesAssumption DEF ReadPair, Starts, Goes, For, rows, session, tokens,
       highlevel, TypeOK, Roles, ClaimInv, ClaimsFollowed, OneClaimant, InClaim, Claimable,
       Located, Recordings, Uses, Grants, Reconcilings, Ends, Reconcilers, Handlers
  <2>3. CASE Reread(r)
    BY <2>3, NamesAssumption DEF Reread, Goes, Holds, rows, session, tokens, highlevel,
       TypeOK, Roles, ClaimInv, ClaimsFollowed, OneClaimant, InClaim, Claimable, Located,
       Recordings, Uses, Grants, Reconcilings, Ends, Reconcilers, Handlers
  <2>4. QED
    BY <1>4, <2>1, <2>2, <2>3
<1>5. ASSUME NEW v \in Previews, OpenPreview(v) \/ Deadline(v)
      PROVE  ClaimsFollowed'
  <2>1. CASE OpenPreview(v)
    BY <2>1, NamesAssumption DEF OpenPreview, Starts, Goes, For, Holds, rows, session,
       tokens, highlevel, TypeOK, Roles, ClaimInv, ClaimsFollowed, OneClaimant, InClaim,
       Claimable, Located, Recordings, Uses, Grants, Reconcilings, Ends, Reconcilers,
       Handlers
  <2>2. CASE Deadline(v)
    BY <2>2, NamesAssumption DEF Deadline, Leaves, Unsaved, rows, session, tokens,
       highlevel, TypeOK, Roles, ClaimInv, ClaimsFollowed, OneClaimant, InClaim, Claimable,
       Located, Recordings, Uses, Grants, Reconcilings, Ends, Reconcilers, Handlers
  <2>3. QED
    BY <1>5, <2>1, <2>2
<1>6. ASSUME NEW p \in Requests \cup Previews, Refreshing(p)
      PROVE  ClaimsFollowed'
  BY <1>6, NamesAssumption DEF Refreshing, Rotated, Goes, Issue, Holds, RotatedUnheard,
     Leaves, Renewed, Refused, KeepPair, Store, Served, Unauthorized, UnauthorizedAgain,
     rows, session, tokens, highlevel, TypeOK, Roles, ClaimInv, ClaimsFollowed, OneClaimant,
     InClaim, Claimable, Located, Recordings, Uses, Grants, Reconcilings, Ends, Reconcilers,
     Handlers
<1>7. ASSUME NEW p \in Handlers, Stop(p)
      PROVE  ClaimsFollowed'
  BY <1>7, NamesAssumption DEF Stop, Leaves, Unsaved, rows, session, tokens, highlevel,
     TypeOK, Roles, ClaimInv, ClaimsFollowed, OneClaimant, InClaim, Claimable, Located,
     Recordings, Uses, Grants, Reconcilings, Ends, Reconcilers, Handlers
<1>8. ASSUME NEW l \in Locations, ClaimAges(l) \/ PairAges(l)
      PROVE  ClaimsFollowed'
  BY <1>8, NamesAssumption DEF ClaimAges, PairAges, rows, session, tokens, highlevel,
     handlers, TypeOK, Roles, ClaimInv, ClaimsFollowed, OneClaimant, InClaim, Claimable,
     Located, Recordings, Uses, Grants, Reconcilings, Ends, Reconcilers, Handlers
<1>9. ASSUME SessionAges
      PROVE  ClaimsFollowed'
  BY <1>9, NamesAssumption DEF SessionAges, rows, tokens, highlevel, handlers, TypeOK,
     Roles, ClaimInv, ClaimsFollowed, OneClaimant, InClaim, Claimable, Located, Recordings,
     Uses, Grants, Reconcilings, Ends, Reconcilers, Handlers
<1>10. QED
  BY <1>1, <1>2, <1>3, <1>4, <1>5, <1>6, <1>7, <1>8, <1>9 DEF Next

\* Every step leaves one claimant.
LEMMA ClaimantStep ==
  ASSUME TypeOK, Roles, ClaimInv, Next
  PROVE  OneClaimant'
<1>1. ASSUME NEW d \in Installs, Recording(d)
      PROVE  OneClaimant'
  <2>1. CASE Insert(d)
    BY <2>1, NamesAssumption DEF Insert, Arrives, Starts, Goes, For, MakePending, SetStatus,
       session, tokens, highlevel, TypeOK, Roles, ClaimInv, ClaimsFollowed, OneClaimant,
       InClaim, Claimable, Located, Recordings, Uses, Grants, Reconcilings, Ends,
       Reconcilers, Handlers
  <2>2. CASE InsertConflicts(d)
    BY <2>2, NamesAssumption DEF InsertConflicts, Arrives, Starts, Goes, For, rows, session,
       tokens, highlevel, TypeOK, Roles, ClaimInv, ClaimsFollowed, OneClaimant, InClaim,
       Claimable, Located, Recordings, Uses, Grants, Reconcilings, Ends, Reconcilers,
       Handlers
  <2>3. CASE \/ ReadExisting(d) \/ Reinstall(d) \/ AlreadyCompleted(d) \/ ReadRow(d)
    BY <2>3, NamesAssumption DEF ReadExisting, Goes, Reinstall, MakePending, SetStatus,
       AlreadyCompleted, Leaves, ReadRow, rows, session, tokens, highlevel, TypeOK, Roles,
       ClaimInv, ClaimsFollowed, OneClaimant, InClaim, Claimable, Located, Recordings, Uses,
       Grants, Reconcilings, Ends, Reconcilers, Handlers
  <2>4. QED
    BY <1>1, <2>1, <2>2, <2>3 DEF Recording
<1>2. ASSUME NEW c \in Callbacks, CallingBack(c)
      PROVE  OneClaimant'
  BY <1>2, NamesAssumption DEF CallingBack, SaveCompany, Starts, Goes, NothingPending,
     Leaves, ListInstalls, Found, Granted, Issue, For, Holds, SaveGrant, Store,
     NothingToSettle, Correlate, Settle, SetStatus, rows, session, tokens, highlevel,
     TypeOK, Roles, ClaimInv, ClaimsFollowed, OneClaimant, InClaim, Claimable, Located,
     Recordings, Uses, Grants, Reconcilings, Ends, Reconcilers, Handlers
<1>3. ASSUME NEW p \in Reconcilers, Reconciling(p)
      PROVE  OneClaimant'
  BY <1>3, NamesAssumption DEF Reconciling, NoSession, Leaves, SessionFound, Goes, Expire,
     Claim, For, SetStatus, Steal, Skip, Visited, LocationToken, Issue, Holds,
     SaveLocationToken, Store, Stumble, Complete, RecordFailure, Answer, rows, session,
     tokens, highlevel, TypeOK, Roles, ClaimInv, ClaimsFollowed, OneClaimant, InClaim,
     Claimable, Located, Recordings, Uses, Grants, Reconcilings, Ends, Reconcilers, Handlers
<1>4. ASSUME NEW r \in Requests, NoPair(r) \/ ReadPair(r) \/ Reread(r)
      PROVE  OneClaimant'
  <2>1. CASE NoPair(r)
    BY <2>1, NamesAssumption DEF NoPair, Starts, Goes, rows, session, tokens, highlevel,
       TypeOK, Roles, ClaimInv, ClaimsFollowed, OneClaimant, InClaim, Claimable, Located,
       Recordings, Uses, Grants, Reconcilings, Ends, Reconcilers, Handlers
  <2>2. CASE ReadPair(r)
    BY <2>2, NamesAssumption DEF ReadPair, Starts, Goes, For, rows, session, tokens,
       highlevel, TypeOK, Roles, ClaimInv, ClaimsFollowed, OneClaimant, InClaim, Claimable,
       Located, Recordings, Uses, Grants, Reconcilings, Ends, Reconcilers, Handlers
  <2>3. CASE Reread(r)
    BY <2>3, NamesAssumption DEF Reread, Goes, Holds, rows, session, tokens, highlevel,
       TypeOK, Roles, ClaimInv, ClaimsFollowed, OneClaimant, InClaim, Claimable, Located,
       Recordings, Uses, Grants, Reconcilings, Ends, Reconcilers, Handlers
  <2>4. QED
    BY <1>4, <2>1, <2>2, <2>3
<1>5. ASSUME NEW v \in Previews, OpenPreview(v) \/ Deadline(v)
      PROVE  OneClaimant'
  <2>1. CASE OpenPreview(v)
    BY <2>1, NamesAssumption DEF OpenPreview, Starts, Goes, For, Holds, rows, session,
       tokens, highlevel, TypeOK, Roles, ClaimInv, ClaimsFollowed, OneClaimant, InClaim,
       Claimable, Located, Recordings, Uses, Grants, Reconcilings, Ends, Reconcilers,
       Handlers
  <2>2. CASE Deadline(v)
    BY <2>2, NamesAssumption DEF Deadline, Leaves, Unsaved, rows, session, tokens,
       highlevel, TypeOK, Roles, ClaimInv, ClaimsFollowed, OneClaimant, InClaim, Claimable,
       Located, Recordings, Uses, Grants, Reconcilings, Ends, Reconcilers, Handlers
  <2>3. QED
    BY <1>5, <2>1, <2>2
<1>6. ASSUME NEW p \in Requests \cup Previews, Refreshing(p)
      PROVE  OneClaimant'
  BY <1>6, NamesAssumption DEF Refreshing, Rotated, Goes, Issue, Holds, RotatedUnheard,
     Leaves, Renewed, Refused, KeepPair, Store, Served, Unauthorized, UnauthorizedAgain,
     rows, session, tokens, highlevel, TypeOK, Roles, ClaimInv, ClaimsFollowed, OneClaimant,
     InClaim, Claimable, Located, Recordings, Uses, Grants, Reconcilings, Ends, Reconcilers,
     Handlers
<1>7. ASSUME NEW p \in Handlers, Stop(p)
      PROVE  OneClaimant'
  BY <1>7, NamesAssumption DEF Stop, Leaves, Unsaved, rows, session, tokens, highlevel,
     TypeOK, Roles, ClaimInv, ClaimsFollowed, OneClaimant, InClaim, Claimable, Located,
     Recordings, Uses, Grants, Reconcilings, Ends, Reconcilers, Handlers
<1>8. ASSUME NEW l \in Locations, ClaimAges(l) \/ PairAges(l)
      PROVE  OneClaimant'
  BY <1>8, NamesAssumption DEF ClaimAges, PairAges, rows, session, tokens, highlevel,
     handlers, TypeOK, Roles, ClaimInv, ClaimsFollowed, OneClaimant, InClaim, Claimable,
     Located, Recordings, Uses, Grants, Reconcilings, Ends, Reconcilers, Handlers
<1>9. ASSUME SessionAges
      PROVE  OneClaimant'
  BY <1>9, NamesAssumption DEF SessionAges, rows, tokens, highlevel, handlers, TypeOK,
     Roles, ClaimInv, ClaimsFollowed, OneClaimant, InClaim, Claimable, Located, Recordings,
     Uses, Grants, Reconcilings, Ends, Reconcilers, Handlers
<1>10. QED
  BY <1>1, <1>2, <1>3, <1>4, <1>5, <1>6, <1>7, <1>8, <1>9 DEF Next

\* Every step leaves the delivery's visit ahead.
LEMMA DeliveryStep ==
  ASSUME TypeOK, Roles, DeliveryAhead, Next
  PROVE  DeliveryAhead'
<1>1. ASSUME NEW d \in Installs, Recording(d)
      PROVE  DeliveryAhead'
  <2>1. CASE Insert(d)
    BY <2>1, NamesAssumption DEF Insert, Arrives, Starts, Goes, For, MakePending, SetStatus,
       session, tokens, highlevel, TypeOK, Roles, DeliveryAhead, Claimable, Recordings,
       Grants, Reconcilings, Uses, Located, Ends, Reconcilers, Handlers
  <2>2. CASE InsertConflicts(d)
    BY <2>2, NamesAssumption DEF InsertConflicts, Arrives, Starts, Goes, For, rows, session,
       tokens, highlevel, TypeOK, Roles, DeliveryAhead, Claimable, Recordings, Grants,
       Reconcilings, Uses, Located, Ends, Reconcilers, Handlers
  <2>3. CASE \/ ReadExisting(d) \/ Reinstall(d) \/ AlreadyCompleted(d) \/ ReadRow(d)
    BY <2>3, NamesAssumption DEF ReadExisting, Goes, Reinstall, MakePending, SetStatus,
       AlreadyCompleted, Leaves, ReadRow, rows, session, tokens, highlevel, TypeOK, Roles,
       DeliveryAhead, Claimable, Recordings, Grants, Reconcilings, Uses, Located, Ends,
       Reconcilers, Handlers
  <2>4. QED
    BY <1>1, <2>1, <2>2, <2>3 DEF Recording
<1>2. ASSUME NEW c \in Callbacks, CallingBack(c)
      PROVE  DeliveryAhead'
  BY <1>2, NamesAssumption DEF CallingBack, SaveCompany, Starts, Goes, NothingPending,
     Leaves, ListInstalls, Found, Granted, Issue, For, Holds, SaveGrant, Store,
     NothingToSettle, Correlate, Settle, SetStatus, rows, session, tokens, highlevel,
     TypeOK, Roles, DeliveryAhead, Claimable, Recordings, Grants, Reconcilings, Uses,
     Located, Ends, Reconcilers, Handlers
<1>3. ASSUME NEW p \in Reconcilers, Reconciling(p)
      PROVE  DeliveryAhead'
  BY <1>3, NamesAssumption DEF Reconciling, NoSession, Leaves, SessionFound, Goes, Expire,
     Claim, For, SetStatus, Steal, Skip, Visited, LocationToken, Issue, Holds,
     SaveLocationToken, Store, Stumble, Complete, RecordFailure, Answer, rows, session,
     tokens, highlevel, TypeOK, Roles, DeliveryAhead, Claimable, Recordings, Grants,
     Reconcilings, Uses, Located, Ends, Reconcilers, Handlers
<1>4. ASSUME NEW r \in Requests, NoPair(r) \/ ReadPair(r) \/ Reread(r)
      PROVE  DeliveryAhead'
  <2>1. CASE NoPair(r)
    BY <2>1, NamesAssumption DEF NoPair, Starts, Goes, rows, session, tokens, highlevel,
       TypeOK, Roles, DeliveryAhead, Claimable, Recordings, Grants, Reconcilings, Uses,
       Located, Ends, Reconcilers, Handlers
  <2>2. CASE ReadPair(r)
    BY <2>2, NamesAssumption DEF ReadPair, Starts, Goes, For, rows, session, tokens,
       highlevel, TypeOK, Roles, DeliveryAhead, Claimable, Recordings, Grants, Reconcilings,
       Uses, Located, Ends, Reconcilers, Handlers
  <2>3. CASE Reread(r)
    BY <2>3, NamesAssumption DEF Reread, Goes, Holds, rows, session, tokens, highlevel,
       TypeOK, Roles, DeliveryAhead, Claimable, Recordings, Grants, Reconcilings, Uses,
       Located, Ends, Reconcilers, Handlers
  <2>4. QED
    BY <1>4, <2>1, <2>2, <2>3
<1>5. ASSUME NEW v \in Previews, OpenPreview(v) \/ Deadline(v)
      PROVE  DeliveryAhead'
  <2>1. CASE OpenPreview(v)
    BY <2>1, NamesAssumption DEF OpenPreview, Starts, Goes, For, Holds, rows, session,
       tokens, highlevel, TypeOK, Roles, DeliveryAhead, Claimable, Recordings, Grants,
       Reconcilings, Uses, Located, Ends, Reconcilers, Handlers
  <2>2. CASE Deadline(v)
    BY <2>2, NamesAssumption DEF Deadline, Leaves, Unsaved, rows, session, tokens,
       highlevel, TypeOK, Roles, DeliveryAhead, Claimable, Recordings, Grants, Reconcilings,
       Uses, Located, Ends, Reconcilers, Handlers
  <2>3. QED
    BY <1>5, <2>1, <2>2
<1>6. ASSUME NEW p \in Requests \cup Previews, Refreshing(p)
      PROVE  DeliveryAhead'
  BY <1>6, NamesAssumption DEF Refreshing, Rotated, Goes, Issue, Holds, RotatedUnheard,
     Leaves, Renewed, Refused, KeepPair, Store, Served, Unauthorized, UnauthorizedAgain,
     rows, session, tokens, highlevel, TypeOK, Roles, DeliveryAhead, Claimable, Recordings,
     Grants, Reconcilings, Uses, Located, Ends, Reconcilers, Handlers
<1>7. ASSUME NEW p \in Handlers, Stop(p)
      PROVE  DeliveryAhead'
  BY <1>7, NamesAssumption DEF Stop, Leaves, Unsaved, rows, session, tokens, highlevel,
     TypeOK, Roles, DeliveryAhead, Claimable, Recordings, Grants, Reconcilings, Uses,
     Located, Ends, Reconcilers, Handlers
<1>8. ASSUME NEW l \in Locations, ClaimAges(l) \/ PairAges(l)
      PROVE  DeliveryAhead'
  BY <1>8, NamesAssumption DEF ClaimAges, PairAges, rows, session, tokens, highlevel,
     handlers, TypeOK, Roles, DeliveryAhead, Claimable, Recordings, Grants, Reconcilings,
     Uses, Located, Ends, Reconcilers, Handlers
<1>9. ASSUME SessionAges
      PROVE  DeliveryAhead'
  BY <1>9, NamesAssumption DEF SessionAges, rows, tokens, highlevel, handlers, TypeOK,
     Roles, DeliveryAhead, Claimable, Recordings, Grants, Reconcilings, Uses, Located, Ends,
     Reconcilers, Handlers
<1>10. QED
  BY <1>1, <1>2, <1>3, <1>4, <1>5, <1>6, <1>7, <1>8, <1>9 DEF Next

\* Every step leaves the callback's visit ahead.
LEMMA CallbackStep ==
  ASSUME TypeOK, Roles, InstallInv, Next
  PROVE  CallbackAhead'
<1>1. ASSUME NEW d \in Installs, Recording(d)
      PROVE  CallbackAhead'
  <2>1. CASE Insert(d)
    BY <2>1, NamesAssumption DEF Insert, Arrives, Starts, Goes, For, MakePending, SetStatus,
       session, tokens, highlevel, TypeOK, Roles, InstallInv, DeliveryAhead, CallbackAhead,
       Good, Claimable, Recordings, Grants, Reconcilings, Uses, Located, Ends, Reconcilers,
       Handlers
  <2>2. CASE InsertConflicts(d)
    BY <2>2, NamesAssumption DEF InsertConflicts, Arrives, Starts, Goes, For, rows, session,
       tokens, highlevel, TypeOK, Roles, InstallInv, DeliveryAhead, CallbackAhead, Good,
       Claimable, Recordings, Grants, Reconcilings, Uses, Located, Ends, Reconcilers,
       Handlers
  <2>3. CASE \/ ReadExisting(d) \/ Reinstall(d) \/ AlreadyCompleted(d) \/ ReadRow(d)
    BY <2>3, NamesAssumption DEF ReadExisting, Goes, Reinstall, MakePending, SetStatus,
       AlreadyCompleted, Leaves, ReadRow, rows, session, tokens, highlevel, TypeOK, Roles,
       InstallInv, DeliveryAhead, CallbackAhead, Good, Claimable, Recordings, Grants,
       Reconcilings, Uses, Located, Ends, Reconcilers, Handlers
  <2>4. QED
    BY <1>1, <2>1, <2>2, <2>3 DEF Recording
<1>2. ASSUME NEW c \in Callbacks, CallingBack(c)
      PROVE  CallbackAhead'
  <2>1. CASE NothingPending(c)
    <3>1. \A l \in Locations : status[l] # "pending"
      BY <2>1 DEF NothingPending, Found, Claimable
    <3>2. status' = status
      BY <2>1 DEF NothingPending, rows
    <3>3. QED
      BY <3>1, <3>2 DEF CallbackAhead
  <2>2. CASE \/ SaveCompany(c) \/ ListInstalls(c) \/ Granted(c) \/ SaveGrant(c)
           \/ NothingToSettle(c) \/ Correlate(c) \/ Settle(c)
    BY <2>2, NamesAssumption DEF SaveCompany, Starts, Goes, ListInstalls, Found, Granted,
       Issue, For, Holds, SaveGrant, Store, NothingToSettle, Leaves, Correlate, Settle,
       SetStatus, rows, session, tokens, highlevel, TypeOK, Roles, InstallInv,
       DeliveryAhead, CallbackAhead, Good, Claimable, Recordings, Grants, Reconcilings,
       Uses, Located, Ends, Reconcilers, Handlers
  <2>3. QED
    BY <1>2, <2>1, <2>2 DEF CallingBack
<1>3. ASSUME NEW p \in Reconcilers, Reconciling(p)
      PROVE  CallbackAhead'
  <2>1. CASE Answer(p)
    <3>1. /\ status' = status /\ setBy' = setBy /\ companyBy' = companyBy
          /\ Good' = Good
      BY <2>1 DEF Answer, rows, session, Good
    <3>2. at[p] = "claim" /\ todo[p] = {}
      BY <2>1 DEF Answer
    <3>3. \A q \in Handlers \ {p} : at'[q] = at[q] /\ todo'[q] = todo[q] /\ loc'[q] = loc[q]
      BY <2>1 DEF Answer, Leaves, TypeOK
    <3>4. \A l \in Locations : status[l] = "pending" => setBy[l] \in Handlers \ {p}
      BY <3>2 DEF InstallInv, DeliveryAhead, Handlers, Reconcilers
    <3>5. \A l \in Locations :
            status[l] = "pending" /\ at[setBy[l]] = "done" /\ Good /\ companyBy # None =>
              companyBy \in Handlers \ {p}
      BY <3>2 DEF InstallInv, CallbackAhead, TypeOK, Handlers, Reconcilers
    <3>6. QED
      BY <3>1, <3>3, <3>4, <3>5 DEF InstallInv, CallbackAhead
  <2>2. CASE \/ NoSession(p) \/ SessionFound(p) \/ Expire(p) \/ Claim(p)
           \/ Steal(p) \/ Skip(p) \/ LocationToken(p) \/ SaveLocationToken(p)
           \/ Stumble(p) \/ Complete(p) \/ RecordFailure(p)
    BY <2>2, NamesAssumption DEF NoSession, Leaves, SessionFound, Goes, Expire, Claim, For,
       SetStatus, Steal, Skip, Visited, LocationToken, Issue, Holds, SaveLocationToken,
       Store, Stumble, Complete, RecordFailure, rows, session, tokens, highlevel, TypeOK,
       Roles, InstallInv, DeliveryAhead, CallbackAhead, Good, Claimable, Recordings, Grants,
       Reconcilings, Uses, Located, Ends, Reconcilers, Handlers
  <2>3. QED
    BY <1>3, <2>1, <2>2 DEF Reconciling
<1>4. ASSUME NEW r \in Requests, NoPair(r) \/ ReadPair(r) \/ Reread(r)
      PROVE  CallbackAhead'
  <2>1. CASE NoPair(r)
    BY <2>1, NamesAssumption DEF NoPair, Starts, Goes, rows, session, tokens, highlevel,
       TypeOK, Roles, InstallInv, DeliveryAhead, CallbackAhead, Good, Claimable, Recordings,
       Grants, Reconcilings, Uses, Located, Ends, Reconcilers, Handlers
  <2>2. CASE ReadPair(r)
    BY <2>2, NamesAssumption DEF ReadPair, Starts, Goes, For, rows, session, tokens,
       highlevel, TypeOK, Roles, InstallInv, DeliveryAhead, CallbackAhead, Good, Claimable,
       Recordings, Grants, Reconcilings, Uses, Located, Ends, Reconcilers, Handlers
  <2>3. CASE Reread(r)
    BY <2>3, NamesAssumption DEF Reread, Goes, Holds, rows, session, tokens, highlevel,
       TypeOK, Roles, InstallInv, DeliveryAhead, CallbackAhead, Good, Claimable, Recordings,
       Grants, Reconcilings, Uses, Located, Ends, Reconcilers, Handlers
  <2>4. QED
    BY <1>4, <2>1, <2>2, <2>3
<1>5. ASSUME NEW v \in Previews, OpenPreview(v) \/ Deadline(v)
      PROVE  CallbackAhead'
  <2>1. CASE OpenPreview(v)
    BY <2>1, NamesAssumption DEF OpenPreview, Starts, Goes, For, Holds, rows, session,
       tokens, highlevel, TypeOK, Roles, InstallInv, DeliveryAhead, CallbackAhead, Good,
       Claimable, Recordings, Grants, Reconcilings, Uses, Located, Ends, Reconcilers,
       Handlers
  <2>2. CASE Deadline(v)
    BY <2>2, NamesAssumption DEF Deadline, Leaves, Unsaved, rows, session, tokens,
       highlevel, TypeOK, Roles, InstallInv, DeliveryAhead, CallbackAhead, Good, Claimable,
       Recordings, Grants, Reconcilings, Uses, Located, Ends, Reconcilers, Handlers
  <2>3. QED
    BY <1>5, <2>1, <2>2
<1>6. ASSUME NEW p \in Requests \cup Previews, Refreshing(p)
      PROVE  CallbackAhead'
  BY <1>6, NamesAssumption DEF Refreshing, Rotated, Goes, Issue, Holds, RotatedUnheard,
     Leaves, Renewed, Refused, KeepPair, Store, Served, Unauthorized, UnauthorizedAgain,
     rows, session, tokens, highlevel, TypeOK, Roles, InstallInv, DeliveryAhead,
     CallbackAhead, Good, Claimable, Recordings, Grants, Reconcilings, Uses, Located, Ends,
     Reconcilers, Handlers
<1>7. ASSUME NEW p \in Handlers, Stop(p)
      PROVE  CallbackAhead'
  BY <1>7, NamesAssumption DEF Stop, Leaves, Unsaved, rows, session, tokens, highlevel,
     TypeOK, Roles, InstallInv, DeliveryAhead, CallbackAhead, Good, Claimable, Recordings,
     Grants, Reconcilings, Uses, Located, Ends, Reconcilers, Handlers
<1>8. ASSUME NEW l \in Locations, ClaimAges(l) \/ PairAges(l)
      PROVE  CallbackAhead'
  BY <1>8, NamesAssumption DEF ClaimAges, PairAges, rows, session, tokens, highlevel,
     handlers, TypeOK, Roles, InstallInv, DeliveryAhead, CallbackAhead, Good, Claimable,
     Recordings, Grants, Reconcilings, Uses, Located, Ends, Reconcilers, Handlers
<1>9. ASSUME SessionAges
      PROVE  CallbackAhead'
  BY <1>9, NamesAssumption DEF SessionAges, rows, tokens, highlevel, handlers, TypeOK,
     Roles, InstallInv, DeliveryAhead, CallbackAhead, Good, Claimable, Recordings, Grants,
     Reconcilings, Uses, Located, Ends, Reconcilers, Handlers
<1>10. QED
  BY <1>1, <1>2, <1>3, <1>4, <1>5, <1>6, <1>7, <1>8, <1>9 DEF Next

-----------------------------------------------------------------------------
(* The invariant *)

LEMMA InitialInv == Init => LocationInv
<1> SUFFICES ASSUME Init
             PROVE  LocationInv
  OBVIOUS
<1>1. TypeOK
  BY DEF Init, TypeOK, Places
<1>2. Roles
  BY DEF Init, Roles, Located, Recordings, Uses, Handlers, Reconcilers
<1>3. PairInv
  BY DEF Init, PairInv, HeldPairs, Holding, Backed, Uses, SpentPairs, FreshPairs, Fresh,
     InstalledTrue, StoredPairLives
<1>4. ClaimInv
  BY DEF Init, ClaimInv, ClaimsFollowed, OneClaimant, InClaim, Handlers
<1>5. InstallInv
  BY DEF Init, InstallInv, DeliveryAhead, CallbackAhead
<1>6. QED
  BY <1>1, <1>2, <1>3, <1>4, <1>5 DEF LocationInv

LEMMA StepInv == LocationInv /\ [Next]_vars => LocationInv'
<1> SUFFICES ASSUME LocationInv, [Next]_vars
             PROVE  LocationInv'
  OBVIOUS
<1>1. CASE Next
  <2>1. TypeOK' /\ Roles'
    BY <1>1, TypeStep, RolesStep DEF LocationInv, PairInv
  <2>2. HeldPairs' /\ SpentPairs' /\ FreshPairs' /\ InstalledTrue'
    BY <1>1, HeldPairsStep, SpentStep, FreshStep, InstalledStep DEF LocationInv, PairInv
  <2>3. StoredPairLives'
    BY <1>1, LivesStep DEF LocationInv
  <2>4. ClaimInv'
    BY <1>1, FollowedStep, ClaimantStep DEF LocationInv, ClaimInv
  <2>5. InstallInv'
    BY <1>1, DeliveryStep, CallbackStep DEF LocationInv, InstallInv
  <2>6. QED
    BY <2>1, <2>2, <2>3, <2>4, <2>5 DEF LocationInv, PairInv
<1>2. CASE UNCHANGED vars
  <2> USE <1>2 DEF vars, rows, session, tokens, highlevel, handlers
  <2>1. TypeOK' /\ Roles'
    BY DEF LocationInv, TypeOK, Roles
  <2>2. PairInv'
    BY DEF LocationInv, PairInv, HeldPairs, SpentPairs, FreshPairs, Fresh, InstalledTrue,
       StoredPairLives
  <2>3. ClaimInv'
    BY DEF LocationInv, ClaimInv, ClaimsFollowed, OneClaimant, InClaim
  <2>4. InstallInv'
    BY DEF LocationInv, InstallInv, DeliveryAhead, CallbackAhead, Good
  <2>5. QED
    BY <2>1, <2>2, <2>3, <2>4 DEF LocationInv
<1>3. QED
  BY <1>1, <1>2

\* Claims, pairs and installs hold together whatever handlers race, stop or
\* lose an answer, and however many there are.
THEOREM LocationInvariant == Spec => []LocationInv
<1>1. QED
  BY InitialInv, StepInv, PTL DEF Spec

\* Tables and handlers hold only values of their types.
THEOREM TypeCorrect == Spec => []TypeOK
<1>1. LocationInv => TypeOK
  BY DEF LocationInv
<1>2. QED
  BY <1>1, LocationInvariant, PTL

\* Of one location's install, undisturbed by a stale claim or a reinstall, one
\* handler exchanges the Company token at a time.
THEOREM ClaimsAreExclusive == Spec => []OneClaimant
<1>1. LocationInv => OneClaimant
  BY DEF LocationInv, ClaimInv
<1>2. QED
  BY <1>1, LocationInvariant, PTL

\* A completed install has a pair, and what is stored for a location was issued
\* for it.
THEOREM InstallsAreTrue == Spec => []InstalledTrue
<1>1. LocationInv => InstalledTrue
  BY DEF LocationInv, PairInv
<1>2. QED
  BY <1>1, LocationInvariant, PTL

\* A stored refresh token is spent only while its successor is about to be
\* saved, or lost.
THEOREM StoredPairsLive == Spec => []StoredPairLives
<1>1. LocationInv => StoredPairLives
  BY DEF LocationInv, PairInv
<1>2. QED
  BY <1>1, LocationInvariant, PTL

\* Whichever of the event and the callback comes first, the other finds it.
THEOREM InstallsAreVisited == Spec => []NeverForgotten
<1>1. LocationInv => NeverForgotten
  BY DEF LocationInv, InstallInv, CallbackAhead, NeverForgotten, LeftPending, Good
<1>2. QED
  BY <1>1, LocationInvariant, PTL
=============================================================================
