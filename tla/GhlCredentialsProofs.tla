------------------------ MODULE GhlCredentialsProofs ------------------------
(***************************************************************************)
(* The safety of GhlCredentials, for any lifecycle events and any number   *)
(* of callbacks, OAuth states, reconcilers, workers and token pairs.       *)
(*                                                                         *)
(* The argument follows the token pairs.  A pair that was never shown to   *)
(* HighLevel has one place: the row while it is usable, the answer of one  *)
(* exchange, or the worker that is about to send it.  Every step takes a   *)
(* pair out of one place before it is in another (OwnerMoves), so a pair   *)
(* is shown once.  Beside it the invariant says of each handler what it    *)
(* has read or received, and of each bootstrap which of the forward moves  *)
(* it has made.                                                            *)
(***************************************************************************)
EXTENDS GhlCredentials, TLAPS, SequenceTheorems

(* Types, variable by variable *)

InstType == [status: {"absent", "pending", "uninstalled"}, gen: Nat, latest: Events \cup {0}]
CredType == [state: {"none", "usable", "refreshing", "reauth_required"}, revision: Nat,
             token: TokenIds \cup {0}, due: BOOLEAN, lease: 0..leases, over: BOOLEAN]
BootType == [status: Progressing \cup {"none", "failed"}, target: Nat,
             over: BOOLEAN, failure: Failures, uses: Nat]
FlowType == [at: FlowSteps, gen: Nat, got: TokenIds \cup {0}]
RecType == [at: RecSteps, todo: SUBSET Bootstraps, boot: Bootstraps \cup {NoOne},
            got: TokenIds \cup {0}, failure: Failures]
PassType == [at: PassSteps, gen: Nat, revision: Nat, lease: 0..leases,
             token: TokenIds \cup {0}, got: TokenIds \cup {0}, recovering: BOOLEAN]
PairType == [parent: Nat, gen: Nat, uses: Nat]

InstTypes == inst \in InstType /\ newest \in Nat
CredTypes == cred \in CredType /\ RefreshStateCheck(cred) /\ leases \in Nat
BootTypes == boots \in [Bootstraps -> BootType]
FlowTypes == states \in [Reconnects -> FlowType]
RecTypes == rec \in [Reconcilers -> RecType]
PassTypes == pass \in [Workers -> PassType]
TokenTypes == tokens \in Seq(PairType) /\ Len(tokens) <= MaxTokens

Types ==
  /\ InstTypes
  /\ CredTypes
  /\ BootTypes
  /\ FlowTypes
  /\ RecTypes
  /\ PassTypes
  /\ TokenTypes

-----------------------------------------------------------------------------
(* The invariant *)

\* The row stands where the newest answered event puts it.
LifecycleFits ==
  /\ inst.status = "absent" => newest = 0
  /\ inst.status # "absent" => inst.latest \in Events
  /\ LifecycleConverges

\* Statuses of a bootstrap whose code nobody has claimed.
Early == {"none", "waiting_install", "ready"}

\* The bootstraps that count for OneBurningBootstrap.
Holds(b) ==
  \/ boots[b].status \in Progressing
  \/ boots[b].status = "failed" /\ boots[b].failure # "definite"

\* A pair was issued for this generation and in exchange for this token.
Issued(t, gen, parent) == tokens[t].gen = gen /\ tokens[t].parent = parent

\* What a reconciler holds: the claimed bootstrap, then the answer for it.
RecFits(c) ==
  /\ rec[c].at \in {"held", "waiting", "store", "fail"} =>
       rec[c].boot \in Bootstraps /\ boots[rec[c].boot].status \notin Early
  /\ rec[c].at = "held" => boots[rec[c].boot].uses = 0
  /\ rec[c].at = "store" => rec[c].got # 0
  /\ rec[c].at = "fail" => rec[c].failure # "none"
  /\ rec[c].got # 0 =>
       rec[c].at \in {"waiting", "store"} /\ Issued(rec[c].got, boots[rec[c].boot].target, 0)

\* What the flow of an OAuth state holds: the answer it is about to store.
FlowFits(r) ==
  /\ states[r].at = "persist" <=> states[r].got # 0
  /\ states[r].got # 0 => Issued(states[r].got, states[r].gen, 0)

\* What a worker holds: the token of its lease, then the answer for it.  The
\* row shows its lease only beside that token.
PassFits(w) ==
  /\ pass[w].at \in {"held", "waiting", "store"} =>
       /\ pass[w].token # 0
       /\ cred.lease # 0 /\ cred.lease = pass[w].lease => cred.token = pass[w].token
  /\ pass[w].at \in {"recover", "claim", "held"} => pass[w].got = 0
  /\ pass[w].at = "held" => tokens[pass[w].token].gen = pass[w].gen
  /\ pass[w].at = "store" => pass[w].got # 0
  /\ pass[w].at \in {"waiting", "store"} /\ pass[w].got # 0 =>
       Issued(pass[w].got, pass[w].gen, pass[w].token)

\* A code is shown by its one claim, and a generation has one bootstrap.
CodesFit ==
  /\ \A b \in Bootstraps :
       /\ boots[b].uses <= 1
       /\ boots[b].status \in Early => boots[b].uses = 0
       /\ boots[b].status = "failed" => boots[b].failure # "none"
  /\ \A c, d \in Reconcilers :
       rec[c].at = "held" /\ rec[d].at = "held" /\ rec[c].boot = rec[d].boot => c = d
  /\ \A a, b \in Bootstraps :
       Holds(a) /\ Holds(b) /\ boots[a].target = boots[b].target => a = b

\* The places of a pair that was not shown yet.
Kinds == {"row", "code", "flow", "answer", "held"}
Holders == {0} \cup Reconcilers \cup Reconnects \cup Workers

Has(kind, h, t) ==
  \/ kind = "row" /\ h = 0 /\ cred.state = "usable" /\ cred.token = t
  \/ kind = "code" /\ h \in Reconcilers /\ rec[h].got = t
  \/ kind = "flow" /\ h \in Reconnects /\ states[h].got = t
  \/ kind = "answer" /\ h \in Workers /\ pass[h].at \in {"waiting", "store"} /\ pass[h].got = t
  \/ kind = "held" /\ h \in Workers /\ pass[h].at = "held" /\ pass[h].token = t

\* A pair has one of them, and then was never shown.
OwnedOnce ==
  \A t \in TokenIds :
    /\ tokens[t].uses <= 1
    /\ \A k \in Kinds, h \in Holders : Has(k, h, t) =>
         /\ tokens[t].uses = 0
         /\ \A j \in Kinds, i \in Holders : Has(j, i, t) => j = k /\ i = h

HandlersFit ==
  /\ \A c \in Reconcilers : RecFits(c)
  /\ \A r \in Reconnects : FlowFits(r)
  /\ \A w \in Workers : PassFits(w)

CredentialsInv ==
  /\ Types
  /\ LifecycleFits
  /\ CredentialOfGeneration
  /\ HandlersFit
  /\ CodesFit
  /\ OwnedOnce

-----------------------------------------------------------------------------
(* Steps of the pairs and of the bootstraps *)

\* Pairs are only added, and keep what they were issued for.
Grows ==
  /\ TokenTypes'
  /\ Len(tokens) <= Len(tokens')
  /\ \A t \in TokenIds : tokens'[t].gen = tokens[t].gen /\ tokens'[t].parent = tokens[t].parent
  /\ leases' \in Nat /\ leases <= leases'

\* A bootstrap keeps its generation and only moves forward.
Moves(b) ==
  /\ boots[b].status # "none" => boots'[b].target = boots[b].target
  /\ boots[b].status \notin Early => boots'[b].status \notin Early
  /\ boots'[b].status = "failed" => boots'[b].failure # "none"

\* No code is sent and no bootstrap is made.
BootsMove ==
  /\ BootTypes'
  /\ \A b \in Bootstraps :
       Moves(b) /\ boots'[b].uses = boots[b].uses /\ (Holds(b)' => Holds(b))

\* Where nothing was issued or leased, nothing changes.
LEMMA GrowsNot ==
  ASSUME Types, UNCHANGED <<tokens, leases>>
  PROVE  Grows
  BY DEF Types, CredTypes, TokenTypes, PairType, Grows, TokenIds

LEMMA BootsStay ==
  ASSUME Types, CodesFit, UNCHANGED boots
  PROVE  BootsMove
  BY DEF Types, BootTypes, BootType, CodesFit, BootsMove, Moves, Holds

\* A granted pair is the last one; the others are those HighLevel was shown.
LEMMA GrantedLast ==
  ASSUME NEW parent \in Nat, NEW gen \in Nat, NEW shown \in Seq(PairType),
         Granted(parent, gen, shown), Len(shown) = Len(tokens), Len(tokens) \in Nat
  PROVE  /\ TokenTypes'
         /\ Len(tokens') = Len(tokens) + 1
         /\ \A t \in TokenIds : tokens'[t] = shown[t]
         /\ tokens'[Len(tokens) + 1] = [parent |-> parent, gen |-> gen, uses |-> 0]
<1> DEFINE new == [parent |-> parent, gen |-> gen, uses |-> 0]
<1>1. new \in PairType
  BY DEF PairType
<1>2. tokens' = Append(shown, new) /\ Len(tokens) < MaxTokens
  BY DEF Granted
<1> HIDE DEF new
<1>3. /\ tokens' \in Seq(PairType)
      /\ Len(tokens') = Len(shown) + 1
      /\ \A t \in 1..Len(shown) : tokens'[t] = shown[t]
      /\ tokens'[Len(shown) + 1] = new
  BY <1>1, <1>2, AppendProperties
<1>4. Len(tokens') <= MaxTokens
  BY <1>2, <1>3, MaxTokensAssumption
<1>5. QED
  BY <1>3, <1>4 DEF TokenTypes, TokenIds, new

\* Showing a refresh token counts one use and leaves the others alone.
LEMMA ShownToken ==
  ASSUME TokenTypes, NEW s \in TokenIds, NEW shown, shown = [tokens EXCEPT ![s].uses = @ + 1]
  PROVE  /\ shown \in Seq(PairType)
         /\ Len(shown) = Len(tokens)
         /\ \A t \in TokenIds : shown[t].gen = tokens[t].gen /\ shown[t].parent = tokens[t].parent
         /\ \A t \in TokenIds \ {s} : shown[t] = tokens[t]
         /\ shown[s].uses = tokens[s].uses + 1
<1>1. tokens \in [1..Len(tokens) -> PairType] /\ Len(tokens) \in Nat
  BY DEF TokenTypes
<1>2. PICK p : p = [tokens[s] EXCEPT !.uses = tokens[s].uses + 1]
  OBVIOUS
<1>3. p \in PairType /\ p.gen = tokens[s].gen /\ p.parent = tokens[s].parent
      /\ p.uses = tokens[s].uses + 1
  BY <1>1, <1>2 DEF PairType, TokenIds
<1>4. shown = [tokens EXCEPT ![s] = p]
  BY <1>2
<1>5. shown \in [1..Len(tokens) -> PairType]
  BY <1>1, <1>3, <1>4 DEF TokenIds
<1>6. shown \in Seq(PairType) /\ Len(shown) = Len(tokens)
  BY <1>1, <1>5
<1>7. QED
  BY <1>1, <1>3, <1>4, <1>6 DEF TokenIds

-----------------------------------------------------------------------------
(* What a step that does not touch a handler leaves of it *)

LEMMA TypesKept ==
  ASSUME Types, Grows
  PROVE  /\ UNCHANGED rec => RecTypes'
         /\ UNCHANGED states => FlowTypes'
         /\ UNCHANGED pass => PassTypes'
         /\ UNCHANGED cred => CredTypes'
         /\ UNCHANGED boots => BootTypes'
<1>1. TokenIds \subseteq TokenIds' /\ 0..leases \subseteq 0..leases'
  BY DEF Types, Grows, TokenTypes, CredTypes, TokenIds
<1>2. RecType \subseteq RecType'
  BY <1>1 DEF RecType
<1>3. FlowType \subseteq FlowType'
  BY <1>1 DEF FlowType
<1>4. PassType \subseteq PassType'
  BY <1>1 DEF PassType
<1>5. CredType \subseteq CredType'
  BY <1>1 DEF CredType
<1>6. UNCHANGED cred => CredTypes'
  BY <1>5 DEF Types, CredTypes, RefreshStateCheck, Grows
<1>7. QED
  BY <1>2, <1>3, <1>4, <1>6 DEF Types, RecTypes, FlowTypes, PassTypes, BootTypes, BootType

LEMMA RecKept ==
  ASSUME Types, Grows, NEW c \in Reconcilers, RecFits(c), rec'[c] = rec[c],
         \A b \in Bootstraps : Moves(b),
         rec[c].at = "held" => boots'[rec[c].boot].uses = boots[rec[c].boot].uses
  PROVE  RecFits(c)'
<1>1. rec[c] \in RecType
  BY DEF Types, RecTypes
<1>2. rec[c].got # 0 => Issued(rec[c].got, boots[rec[c].boot].target, 0)'
  BY <1>1 DEF RecFits, RecType, Issued, Grows, Moves, Early
<1>3. QED
  BY <1>1, <1>2 DEF RecFits, Moves, Early, Issued

LEMMA FlowKept ==
  ASSUME Types, Grows, NEW r \in Reconnects, FlowFits(r), states'[r] = states[r]
  PROVE  FlowFits(r)'
  BY DEF Types, FlowTypes, FlowType, FlowFits, Issued, Grows

LEMMA PassKept ==
  ASSUME Types, Grows, NEW w \in Workers, PassFits(w), pass'[w] = pass[w],
         \/ cred'.lease = 0
         \/ cred'.lease = cred.lease /\ cred'.token = cred.token
         \/ cred'.lease = leases + 1
  PROVE  PassFits(w)'
<1>1. pass[w] \in PassType /\ leases \in Nat
  BY DEF Types, PassTypes, CredTypes
<1>2. pass[w].lease # leases + 1
  BY <1>1 DEF PassType
<1>3. QED
  BY <1>1, <1>2 DEF PassType, PassFits, Issued, Grows

\* No place is new: places are only given up, above all that of a shown token.
LEMMA OwnersLess ==
  ASSUME OwnedOnce,
         \A t \in TokenIds' : tokens'[t].uses <= 1,
         \A k \in Kinds, h \in Holders, t \in TokenIds' : Has(k, h, t)' =>
           t \in TokenIds /\ Has(k, h, t) /\ tokens'[t].uses = tokens[t].uses
  PROVE  OwnedOnce'
<1> SUFFICES ASSUME NEW t \in TokenIds', NEW k \in Kinds, NEW h \in Holders, Has(k, h, t)',
                    NEW j \in Kinds, NEW i \in Holders, Has(j, i, t)'
             PROVE  tokens'[t].uses = 0 /\ j = k /\ i = h
  BY DEF OwnedOnce, Holders
<1> QED
  BY DEF OwnedOnce

LEMMA OwnersStay ==
  ASSUME OwnedOnce, UNCHANGED tokens,
         \A k \in Kinds, h \in Holders, t \in TokenIds : Has(k, h, t)' => Has(k, h, t)
  PROVE  OwnedOnce'
<1>1. TokenIds' = TokenIds
  BY DEF TokenIds
<1>2. QED
  BY <1>1, OwnersLess DEF OwnedOnce

\* One pair moves to a new place, and nobody else has it.
LEMMA OwnerMoves ==
  ASSUME OwnedOnce, NEW K \in Kinds, NEW H \in Holders, NEW T,
         tokens'[T].uses = 0,
         \A t \in TokenIds' : tokens'[t].uses <= 1,
         \A k \in Kinds, h \in Holders, t \in TokenIds' : Has(k, h, t)' =>
           \/ k = K /\ h = H /\ t = T
           \/ t # T /\ t \in TokenIds /\ Has(k, h, t) /\ tokens'[t].uses = tokens[t].uses
  PROVE  OwnedOnce'
<1> SUFFICES ASSUME NEW t \in TokenIds', NEW k \in Kinds, NEW h \in Holders, Has(k, h, t)',
                    NEW j \in Kinds, NEW i \in Holders, Has(j, i, t)'
             PROVE  tokens'[t].uses = 0 /\ j = k /\ i = h
  BY DEF OwnedOnce, Holders
<1> QED
  BY DEF OwnedOnce

-----------------------------------------------------------------------------
(* Moves of the bootstraps *)

\* A failed attempt keeps the generation and the uses of its row.
LEMMA FailedRow ==
  ASSUME BootTypes, NEW b \in Bootstraps, NEW f \in Failures
  PROVE  /\ FailedBoot(b, f) \in BootType
         /\ FailedBoot(b, f).status = "failed"
         /\ FailedBoot(b, f).target = boots[b].target
         /\ FailedBoot(b, f).failure = f
         /\ FailedBoot(b, f).uses = boots[b].uses
<1>1. boots[b] \in BootType
  BY DEF BootTypes
<1>2. FailedBoot(b, f) \in BootType
  BY <1>1 DEF FailedBoot, BootType
<1>3. QED
  BY <1>1, <1>2 DEF FailedBoot, BootType

\* Where every bootstrap stays, fails while it was unfinished, or goes on.
LEMMA ForwardMoves ==
  ASSUME Types, CodesFit, boots' \in [Bootstraps -> BootType],
         \A b \in Bootstraps :
           \/ boots'[b] = boots[b]
           \/ \E f \in Failures \ {"none"} :
                /\ boots[b].status \in {"waiting_install", "ready", "exchanging"}
                /\ boots'[b] = FailedBoot(b, f)
           \/ /\ boots'[b].target = boots[b].target /\ boots'[b].uses = boots[b].uses
              /\ \/ boots'[b].status = boots[b].status /\ boots'[b].failure = boots[b].failure
                 \/ boots[b].status = "waiting_install" /\ boots'[b].status = "ready"
                 \/ boots[b].status = "ready" /\ boots'[b].status = "exchanging"
                 \/ boots[b].status = "exchanging" /\ boots'[b].status = "succeeded"
  PROVE  BootsMove
<1> SUFFICES ASSUME NEW b \in Bootstraps
             PROVE  Moves(b) /\ boots'[b].uses = boots[b].uses /\ (Holds(b)' => Holds(b))
  BY DEF BootsMove, BootTypes, BootType
<1>1. CASE boots'[b] = boots[b]
  BY <1>1 DEF Moves, Holds, CodesFit
<1>2. ASSUME NEW f \in Failures \ {"none"},
             boots[b].status \in {"waiting_install", "ready", "exchanging"},
             boots'[b] = FailedBoot(b, f)
      PROVE  Moves(b) /\ boots'[b].uses = boots[b].uses /\ (Holds(b)' => Holds(b))
  BY <1>2, FailedRow DEF Types, Moves, Holds, Progressing, Early
<1>3. CASE /\ boots'[b].target = boots[b].target /\ boots'[b].uses = boots[b].uses
           /\ \/ boots'[b].status = boots[b].status /\ boots'[b].failure = boots[b].failure
              \/ boots[b].status = "waiting_install" /\ boots'[b].status = "ready"
              \/ boots[b].status = "ready" /\ boots'[b].status = "exchanging"
              \/ boots[b].status = "exchanging" /\ boots'[b].status = "succeeded"
  BY <1>3 DEF Moves, Holds, Progressing, Early, CodesFit
<1>4. QED
  BY <1>1, <1>2, <1>3

\* One bootstrap gets another status.
LEMMA StatusMoves ==
  ASSUME Types, CodesFit, NEW b \in Bootstraps, NEW row \in BootType,
         boots' = [boots EXCEPT ![b] = row],
         row.target = boots[b].target, row.uses = boots[b].uses,
         \/ row.status = boots[b].status /\ row.failure = boots[b].failure
         \/ boots[b].status = "waiting_install" /\ row.status = "ready"
         \/ boots[b].status = "ready" /\ row.status = "exchanging"
         \/ boots[b].status = "exchanging" /\ row.status = "succeeded"
  PROVE  BootsMove
<1>1. boots' \in [Bootstraps -> BootType]
  BY DEF Types, BootTypes
<1>2. boots'[b] = row /\ \A a \in Bootstraps \ {b} : boots'[a] = boots[a]
  BY DEF Types, BootTypes
<1>3. QED
  BY <1>1, <1>2, ForwardMoves

\* One unfinished attempt fails.
LEMMA FailureMoves ==
  ASSUME Types, CodesFit, NEW b \in Bootstraps, NEW f \in Failures \ {"none"},
         boots[b].status \in {"waiting_install", "ready", "exchanging"},
         boots' = [boots EXCEPT ![b] = FailedBoot(b, f)]
  PROVE  BootsMove
<1>1. boots' \in [Bootstraps -> BootType]
  BY FailedRow DEF Types, BootTypes
<1>2. boots'[b] = FailedBoot(b, f) /\ \A a \in Bootstraps \ {b} : boots'[a] = boots[a]
  BY DEF Types, BootTypes
<1>3. QED
  BY <1>1, <1>2, ForwardMoves

\* The recovery fails what has run out.
LEMMA RecoveredRow ==
  ASSUME NEW b \in Bootstraps
  PROVE  \/ Recovered[b] = boots[b]
         \/ \E f \in Failures \ {"none"} :
              /\ boots[b].status \in {"waiting_install", "ready", "exchanging"}
              /\ Recovered[b] = FailedBoot(b, f)
  BY DEF Recovered, Failures

LEMMA RecoveryMoves ==
  ASSUME Types, CodesFit, boots' = Recovered
  PROVE  BootsMove
<1>1. \A b \in Bootstraps : Recovered[b] \in BootType
  BY RecoveredRow, FailedRow DEF Types, BootTypes
<1>2. boots' \in [Bootstraps -> BootType]
  BY <1>1 DEF Recovered
<1>3. QED
  BY <1>2, RecoveredRow, ForwardMoves

LEMMA RendezvousMoves ==
  ASSUME Types, CodesFit, NEW g, boots' = Rendezvous(g)
  PROVE  BootsMove
<1>1. ASSUME NEW b \in Bootstraps
      PROVE  /\ boots'[b] \in BootType
             /\ \/ boots'[b] = boots[b]
                \/ /\ boots'[b].target = boots[b].target /\ boots'[b].uses = boots[b].uses
                   /\ boots[b].status = "waiting_install" /\ boots'[b].status = "ready"
  <2>1. boots[b] \in BootType
    BY DEF Types, BootTypes
  <2>2. boots'[b] \in {boots[b], [boots[b] EXCEPT !.status = "ready"]}
    BY DEF Rendezvous
  <2>3. boots'[b] = boots[b] \/ boots[b].status = "waiting_install"
    BY DEF Rendezvous
  <2>4. QED
    BY <2>1, <2>2, <2>3 DEF BootType, Progressing
<1>2. boots' \in [Bootstraps -> BootType]
  BY <1>1 DEF Rendezvous
<1>3. QED
  BY <1>1, <1>2, ForwardMoves

LEMMA InvalidationMoves ==
  ASSUME Types, CodesFit, NEW g, boots' = Invalidated(g)
  PROVE  BootsMove
<1>1. ASSUME NEW b \in Bootstraps
      PROVE  /\ boots'[b] \in BootType
             /\ \/ boots'[b] = boots[b]
                \/ /\ boots[b].status \in {"waiting_install", "ready", "exchanging"}
                   /\ boots'[b] = FailedBoot(b, "definite")
  BY FailedRow DEF Types, BootTypes, Invalidated, Failures
<1>2. boots' \in [Bootstraps -> BootType]
  BY <1>1 DEF Invalidated
<1>3. "definite" \in Failures \ {"none"}
  BY DEF Failures
<1>4. QED
  BY <1>1, <1>2, <1>3, ForwardMoves

\* Bootstraps that move keep what is said of the codes.
LEMMA CodesKept ==
  ASSUME Types, CodesFit, BootsMove,
         \A c, d \in Reconcilers :
           rec'[c].at = "held" /\ rec'[d].at = "held" /\ rec'[c].boot = rec'[d].boot => c = d
  PROVE  CodesFit'
<1>1. ASSUME NEW b \in Bootstraps
      PROVE  /\ boots'[b].uses <= 1
             /\ boots'[b].status \in Early => boots'[b].uses = 0
             /\ boots'[b].status = "failed" => boots'[b].failure # "none"
  BY DEF CodesFit, BootsMove, Moves
<1>2. ASSUME NEW a \in Bootstraps, NEW b \in Bootstraps,
             Holds(a)', Holds(b)', boots'[a].target = boots'[b].target
      PROVE  a = b
  <2>1. Holds(a) /\ Holds(b)
    BY <1>2 DEF BootsMove, Moves
  <2>2. boots[a].target = boots[b].target
    BY <1>2, <2>1 DEF BootsMove, Moves, Holds, Progressing
  <2>3. QED
    BY <2>1, <2>2 DEF CodesFit
<1>3. QED
  BY <1>1, <1>2 DEF CodesFit, Early

-----------------------------------------------------------------------------
(* Steps that touch no handler *)

LEMMA RowStep ==
  ASSUME CredentialsInv, UNCHANGED <<states, rec, pass, tokens, leases>>, BootsMove,
         InstTypes', CredTypes', LifecycleFits', CredentialOfGeneration',
         \/ cred'.lease = 0
         \/ cred'.lease = cred.lease /\ cred'.token = cred.token,
         cred'.state = "usable" => cred.state = "usable" /\ cred'.token = cred.token
  PROVE  CredentialsInv'
<1>1. Types /\ CodesFit /\ OwnedOnce /\ HandlersFit
  BY DEF CredentialsInv
<1>2. Grows
  BY <1>1, GrowsNot
<1>3. Types'
  BY <1>1, <1>2, TypesKept DEF Types, BootsMove, TokenTypes
<1>4. HandlersFit'
  BY <1>1, <1>2, RecKept, FlowKept, PassKept DEF HandlersFit, BootsMove, RecFits
<1>5. CodesFit'
  BY <1>1, CodesKept DEF CodesFit
<1>6. OwnedOnce'
  BY <1>1, OwnersStay DEF Has
<1>7. QED
  BY <1>3, <1>4, <1>5, <1>6 DEF CredentialsInv

\* What an applied event is compared with.
LEMMA AppliedIsNewer ==
  ASSUME CredentialsInv, NEW e \in Events, Outcome(e) = "applied"
  PROVE  /\ EventAt[e] \in Nat
         /\ inst.status = "absent" => EventType[e] = "INSTALL" /\ newest = 0
         /\ inst.status # "absent" => EventAt[e] > newest
<1>1. EventAt[e] \in Nat
  BY EventsAssumption
<1>2. inst.status = "absent" => EventType[e] = "INSTALL" /\ newest = 0
  BY DEF Outcome, CredentialsInv, LifecycleFits
<1>3. ASSUME inst.status # "absent"
      PROVE  EventAt[e] > newest
  <2>1. inst.latest \in Events /\ EventAt[inst.latest] = newest /\ newest \in Nat
    BY <1>3 DEF CredentialsInv, LifecycleFits, LifecycleConverges, Types, InstTypes
  <2>2. ~Stale(e) /\ EventAt[e] # EventAt[inst.latest]
    BY <1>3 DEF Outcome
  <2>3. QED
    BY <1>1, <2>1, <2>2 DEF Stale
<1>4. QED
  BY <1>1, <1>2, <1>3

\* It becomes the newest answered one.
LEMMA AppliedIsNewest ==
  ASSUME CredentialsInv, NEW e \in Events, Outcome(e) = "applied", Answered(e)
  PROVE  newest' = EventAt[e] /\ newest' \in Nat
  BY AppliedIsNewer DEF Answered, CredentialsInv, Types, InstTypes

LEMMA InstallStep ==
  ASSUME CredentialsInv, NEW e \in Events, Install(e)
  PROVE  CredentialsInv'
<1>1. EventType[e] = "INSTALL" /\ Outcome(e) = "applied" /\ inst' = Installed(e)
      /\ boots' = Rendezvous(InstalledGeneration) /\ Answered(e)
      /\ UNCHANGED <<cred, states, rec, pass, tokens, leases>>
  BY DEF Install
<1>2. newest' = EventAt[e] /\ newest' \in Nat
  BY <1>1, AppliedIsNewest
<1>3. BootsMove
  BY <1>1, RendezvousMoves DEF CredentialsInv
<1>4. inst \in InstType /\ CredTypes /\ CredentialOfGeneration
  BY DEF CredentialsInv, Types, InstTypes
<1>5. /\ InstalledGeneration \in Nat
      /\ inst.status = "pending" => InstalledGeneration = inst.gen
  BY <1>4 DEF InstalledGeneration, InstType
<1>6. inst'.status = "pending" /\ inst'.gen = InstalledGeneration /\ inst'.latest = e
      /\ inst' \in InstType
  BY <1>1, <1>5 DEF Installed, InstType
<1>7. InstTypes'
  BY <1>2, <1>6 DEF InstTypes, InstType
<1>8. LifecycleFits'
  BY <1>1, <1>2, <1>6 DEF LifecycleFits, LifecycleConverges
<1>9. CredentialOfGeneration'
  BY <1>1, <1>4, <1>5, <1>6 DEF CredentialOfGeneration
<1>10. CredTypes'
  BY <1>1, <1>4 DEF CredTypes, CredType, TokenIds, RefreshStateCheck
<1>11. QED
  BY <1>1, <1>3, <1>7, <1>8, <1>9, <1>10, RowStep

\* Credential columns without a pair.
LEMMA WithoutPair ==
  ASSUME CredTypes, NEW s \in {"none", "reauth_required"}, cred' = Without(s, cred.revision),
         UNCHANGED leases, Grows,
         s = "reauth_required" => cred.state # "none"
  PROVE  /\ CredTypes' /\ CredentialOfGeneration'
         /\ cred'.lease = 0 /\ cred'.token = 0 /\ cred'.state = s
<1>1. cred \in CredType /\ RefreshStateCheck(cred) /\ leases \in Nat
  BY DEF CredTypes
<1>2. cred' \in CredType'
  BY <1>1 DEF Without, CredType
<1>3. RefreshStateCheck(cred')
  BY <1>1 DEF Without, RefreshStateCheck, CredType
<1>4. QED
  BY <1>1, <1>2, <1>3 DEF CredTypes, Without, CredentialOfGeneration

LEMMA UninstallStep ==
  ASSUME CredentialsInv, NEW e \in Events, Uninstall(e)
  PROVE  CredentialsInv'
<1>1. EventType[e] = "UNINSTALL" /\ Outcome(e) = "applied" /\ cred' = Scrubbed
      /\ boots' = Invalidated(inst.gen) /\ Answered(e)
      /\ UNCHANGED <<states, rec, pass, tokens, leases>>
  BY DEF Uninstall
<1>2. newest' = EventAt[e] /\ newest' \in Nat
  BY <1>1, AppliedIsNewest
<1>3. BootsMove
  BY <1>1, InvalidationMoves DEF CredentialsInv
<1>4. inst \in InstType /\ CredTypes
  BY DEF CredentialsInv, Types, InstTypes
<1>5. inst'.status = "uninstalled" /\ inst'.latest = e /\ inst' \in InstType
  BY <1>4 DEF Uninstall, InstType
<1>6. InstTypes'
  BY <1>2, <1>5 DEF InstTypes, InstType
<1>7. LifecycleFits'
  BY <1>1, <1>2, <1>5 DEF LifecycleFits, LifecycleConverges
<1>8. Grows
  BY <1>1, GrowsNot DEF CredentialsInv
<1>9. CredTypes' /\ CredentialOfGeneration' /\ cred'.lease = 0 /\ cred'.state = "none"
  BY <1>1, <1>4, <1>8, WithoutPair DEF Scrubbed
<1>10. QED
  BY <1>1, <1>3, <1>6, <1>7, <1>9, RowStep

LEMMA IgnoreStep ==
  ASSUME CredentialsInv, NEW e \in Events, IgnoreEvent(e)
  PROVE  CredentialsInv'
<1>1. Outcome(e) \in {"stale_ignored", "exact_replay"} /\ Answered(e)
      /\ UNCHANGED <<inst, cred, boots, states, rec, pass, tokens, leases>>
  BY DEF IgnoreEvent
<1>2. inst.status # "absent" /\ (Stale(e) \/ EventAt[e] = EventAt[inst.latest])
  BY <1>1 DEF Outcome
<1>3. inst.latest \in Events /\ EventAt[inst.latest] = newest
  BY <1>2 DEF CredentialsInv, LifecycleFits, LifecycleConverges
<1>4. EventAt[e] \in Nat /\ EventAt[inst.latest] \in Nat
  BY <1>3, EventsAssumption
<1>5. newest' = newest
  BY <1>1, <1>2, <1>3, <1>4 DEF Answered, Stale
<1>6. BootsMove
  BY <1>1, BootsStay DEF CredentialsInv
<1>7. InstTypes' /\ LifecycleFits' /\ CredentialOfGeneration' /\ CredTypes'
  BY <1>1, <1>5 DEF CredentialsInv, Types, InstTypes, InstType, LifecycleFits, LifecycleConverges,
     CredentialOfGeneration, CredTypes, CredType, TokenIds, RefreshStateCheck
<1>8. QED
  BY <1>1, <1>6, <1>7, RowStep

\* A deadline of the row raises a flag.
LEMMA RowDeadlineStep ==
  ASSUME CredentialsInv, ComesDue \/ LeaseRunsOut
  PROVE  CredentialsInv'
<1>1. UNCHANGED <<inst, boots, states, rec, pass, tokens, leases, newest>>
  BY DEF ComesDue, LeaseRunsOut
<1>2. cred \in CredType /\ RefreshStateCheck(cred)
  BY DEF CredentialsInv, Types, CredTypes
<1>3. /\ cred' \in CredType /\ cred'.state = cred.state /\ cred'.token = cred.token
      /\ cred'.lease = cred.lease /\ cred'.revision = cred.revision
  BY <1>2 DEF ComesDue, LeaseRunsOut, CredType
<1>4. BootsMove
  BY <1>1, BootsStay DEF CredentialsInv
<1>5. InstTypes' /\ LifecycleFits'
  BY <1>1 DEF CredentialsInv, Types, InstTypes, InstType, LifecycleFits, LifecycleConverges
<1>6. CredentialOfGeneration'
  BY <1>1, <1>3 DEF CredentialsInv, CredentialOfGeneration
<1>7. CredTypes'
  BY <1>1, <1>2, <1>3 DEF CredentialsInv, Types, CredTypes, CredType, TokenIds, RefreshStateCheck
<1>8. QED
  BY <1>1, <1>3, <1>4, <1>5, <1>6, <1>7, RowStep

LEMMA BootDeadlineStep ==
  ASSUME CredentialsInv, NEW b \in Bootstraps, BootstrapRunsOut(b)
  PROVE  CredentialsInv'
<1>1. UNCHANGED <<inst, cred, states, rec, pass, tokens, leases, newest>>
  BY DEF BootstrapRunsOut
<1>2. Types /\ CodesFit /\ boots[b] \in BootType
  BY DEF CredentialsInv, Types, BootTypes
<1>3. PICK row : row = [boots[b] EXCEPT !.over = TRUE]
  OBVIOUS
<1>4. row \in BootType /\ row.target = boots[b].target /\ row.uses = boots[b].uses
      /\ row.status = boots[b].status /\ row.failure = boots[b].failure
  BY <1>2, <1>3 DEF BootType
<1>5. boots' = [boots EXCEPT ![b] = row]
  BY <1>3 DEF BootstrapRunsOut
<1>6. BootsMove
  BY <1>2, <1>4, <1>5, StatusMoves
<1>7. InstTypes' /\ LifecycleFits' /\ CredentialOfGeneration' /\ CredTypes'
  BY <1>1 DEF CredentialsInv, Types, InstTypes, InstType, LifecycleFits, LifecycleConverges,
     CredentialOfGeneration, CredTypes, CredType, TokenIds, RefreshStateCheck
<1>8. QED
  BY <1>1, <1>6, <1>7, RowStep

\* A refused callback leaves the recovery; an accepted one makes a row that is
\* alone in its generation.
LEMMA CallbackStep ==
  ASSUME CredentialsInv, NEW b \in Bootstraps, AcceptCallback(b)
  PROVE  CredentialsInv'
<1>1. UNCHANGED <<inst, cred, states, rec, pass, tokens, leases, newest>> /\ boots[b].status = "none"
  BY DEF AcceptCallback
<1>2. Types /\ CodesFit /\ OwnedOnce /\ HandlersFit
  BY DEF CredentialsInv
<1>3. InstTypes' /\ LifecycleFits' /\ CredentialOfGeneration' /\ CredTypes'
  BY <1>1 DEF CredentialsInv, Types, InstTypes, InstType, LifecycleFits, LifecycleConverges,
     CredentialOfGeneration, CredTypes, CredType, TokenIds, RefreshStateCheck
<1>4. CASE \E other \in Bootstraps : Recovered[other].target = CallbackTarget /\ Burning(Recovered[other])
  <2>1. boots' = Recovered
    BY <1>4 DEF AcceptCallback
  <2>2. BootsMove
    BY <1>2, <2>1, RecoveryMoves
  <2>3. QED
    BY <1>1, <1>3, <2>2, RowStep
<1>5. CASE \A other \in Bootstraps : ~(Recovered[other].target = CallbackTarget /\ Burning(Recovered[other]))
  <2> DEFINE status == IF Eligible(inst.gen) THEN "ready" ELSE "waiting_install"
  <2>1. PICK new : new = [NoBoot EXCEPT !.status = status, !.target = CallbackTarget]
    OBVIOUS
  <2>2. CallbackTarget \in Nat
    BY <1>2 DEF CallbackTarget, Types, InstTypes, InstType
  <2>3. /\ new \in BootType /\ new.status \in {"waiting_install", "ready"}
        /\ new.target = CallbackTarget /\ new.uses = 0
    BY <2>1, <2>2 DEF NoBoot, BootType, Progressing, Failures
  <2>4. boots' = [other \in Bootstraps |->
                   IF other = b THEN new
                   ELSE IF /\ Recovered[other].target = CallbackTarget
                           /\ Recovered[other].status \in {"waiting_install", "ready"}
                   THEN FailedBoot(other, "definite")
                   ELSE Recovered[other]]
    BY <1>5, <2>1 DEF AcceptCallback
  <2> HIDE DEF status
  <2>5. boots'[b] = new
    BY <2>4
  <2>6. ASSUME NEW a \in Bootstraps \ {b}
        PROVE  /\ boots'[a] \in BootType /\ boots[a] \in BootType
               /\ Moves(a) /\ boots'[a].uses = boots[a].uses
               /\ Holds(a)' => Holds(a) /\ boots'[a].target # CallbackTarget
    <3>1. boots[a] \in BootType
      BY <1>2 DEF Types, BootTypes
    <3>2. boots[a].status = "failed" => boots[a].failure # "none"
      BY <1>2 DEF CodesFit
    <3>3. CASE /\ Recovered[a].target = CallbackTarget
               /\ Recovered[a].status \in {"waiting_install", "ready"}
      <4>1. boots'[a] = FailedBoot(a, "definite")
        BY <2>4, <3>3
      <4>2. Recovered[a] = boots[a]
        BY <1>2, <3>3, RecoveredRow, FailedRow DEF Types
      <4>3. "definite" \in Failures
        BY DEF Failures
      <4>4. QED
        BY <1>2, <3>1, <3>3, <4>1, <4>2, <4>3, FailedRow DEF Types, Moves, Holds, Progressing, Early
    <3>4. CASE ~(/\ Recovered[a].target = CallbackTarget
                 /\ Recovered[a].status \in {"waiting_install", "ready"})
      <4>1. boots'[a] = Recovered[a]
        BY <2>4, <3>4
      <4>2. CASE Recovered[a] = boots[a]
        <5>1. Holds(a)' => Holds(a) /\ boots[a].target # CallbackTarget
          BY <1>5, <3>1, <3>2, <3>4, <4>1, <4>2
          DEF Holds, Burning, Progressing, BootType, Failures
        <5>2. QED
          BY <3>1, <3>2, <4>1, <4>2, <5>1 DEF Moves
      <4>3. ASSUME NEW f \in Failures \ {"none"},
                   boots[a].status \in {"waiting_install", "ready", "exchanging"},
                   Recovered[a] = FailedBoot(a, f)
            PROVE  /\ boots'[a] \in BootType /\ boots[a] \in BootType
                   /\ Moves(a) /\ boots'[a].uses = boots[a].uses
                   /\ Holds(a)' => Holds(a) /\ boots'[a].target # CallbackTarget
        <5>1. /\ boots'[a] \in BootType /\ boots'[a].status = "failed"
              /\ boots'[a].target = boots[a].target /\ boots'[a].failure = f
              /\ boots'[a].uses = boots[a].uses
          BY <1>2, <4>1, <4>3, FailedRow DEF Types
        <5>2. Holds(a)' => boots'[a].target # CallbackTarget
          BY <1>5, <4>1, <4>3, <5>1 DEF Holds, Burning, Progressing, Failures
        <5>3. QED
          BY <3>1, <4>3, <5>1, <5>2 DEF Moves, Holds, Progressing, Early
      <4>4. QED
        BY <4>2, <4>3, RecoveredRow
    <3>5. QED
      BY <3>3, <3>4
  <2>7. Moves(b) /\ boots'[b].uses = boots[b].uses
    BY <1>1, <1>2, <2>3, <2>5 DEF Moves, Early, CodesFit
  <2>8. BootTypes'
    BY <2>3, <2>4, <2>5, <2>6 DEF BootTypes, BootType
  <2>9. Grows
    BY <1>1, <1>2, GrowsNot
  <2>10. Types'
    BY <1>1, <1>2, <1>3, <2>8, <2>9, TypesKept DEF Types, TokenTypes
  <2>11. HandlersFit'
    BY <1>1, <1>2, <2>6, <2>7, <2>9, RecKept, FlowKept, PassKept DEF HandlersFit, RecFits
  <2>12. CodesFit'
    <3>1. ASSUME NEW a \in Bootstraps
          PROVE  /\ boots'[a].uses <= 1
                 /\ boots'[a].status \in Early => boots'[a].uses = 0
                 /\ boots'[a].status = "failed" => boots'[a].failure # "none"
      BY <1>2, <2>3, <2>5, <2>6 DEF CodesFit, Moves
    <3>2. ASSUME NEW a \in Bootstraps, NEW d \in Bootstraps,
                 Holds(a)', Holds(d)', boots'[a].target = boots'[d].target
          PROVE  a = d
      <4>1. CASE a = b \/ d = b
        BY <2>3, <2>5, <2>6, <3>2, <4>1
      <4>2. CASE a # b /\ d # b
        <5>1. Holds(a) /\ Holds(d)
          BY <2>6, <3>2, <4>2
        <5>2. boots[a].target = boots[d].target
          BY <2>6, <3>2, <4>2, <5>1 DEF Moves, Holds, Progressing
        <5>3. QED
          BY <1>2, <5>1, <5>2 DEF CodesFit
      <4>3. QED
        BY <4>1, <4>2
    <3>3. \A c, d \in Reconcilers :
            rec'[c].at = "held" /\ rec'[d].at = "held" /\ rec'[c].boot = rec'[d].boot => c = d
      BY <1>1, <1>2 DEF CodesFit
    <3>4. QED
      BY <3>1, <3>2, <3>3 DEF CodesFit, Early
  <2>13. OwnedOnce'
    BY <1>1, <1>2, OwnersStay DEF Has
  <2>14. QED
    BY <1>3, <2>10, <2>11, <2>12, <2>13 DEF CredentialsInv
<1>6. QED
  BY <1>4, <1>5

-----------------------------------------------------------------------------
(* Steps of a reconciler *)

\* A step that keeps the row and issues nothing.
LEMMA ReconcilerStep ==
  ASSUME CredentialsInv, NEW c \in Reconcilers, NEW p \in RecType, rec' = [rec EXCEPT ![c] = p],
         UNCHANGED <<inst, cred, states, pass, tokens, leases, newest>>, BootsMove,
         p.got = 0 \/ p.got = rec[c].got,
         p.at = "held" => boots[p.boot].status \in Early,
         RecFits(c)'
  PROVE  CredentialsInv'
<1>1. Types /\ CodesFit /\ OwnedOnce /\ HandlersFit
  BY DEF CredentialsInv
<1>2. rec'[c] = p /\ \A d \in Reconcilers \ {c} : rec'[d] = rec[d]
  BY <1>1 DEF Types, RecTypes
<1>3. InstTypes' /\ LifecycleFits' /\ CredentialOfGeneration'
  BY DEF CredentialsInv, Types, InstTypes, InstType, LifecycleFits, LifecycleConverges,
     CredentialOfGeneration
<1>4. Grows
  BY <1>1, GrowsNot
<1>5. RecTypes'
  BY <1>1 DEF Types, RecTypes, RecType, TokenIds
<1>6. Types'
  BY <1>1, <1>3, <1>4, <1>5, TypesKept DEF Types, BootsMove, TokenTypes
<1>7. HandlersFit'
  BY <1>1, <1>2, <1>4, RecKept, FlowKept, PassKept DEF HandlersFit, BootsMove, RecFits
<1>8. CodesFit'
  <2>1. ASSUME NEW d \in Reconcilers, rec[d].at = "held"
        PROVE  boots[rec[d].boot].status \notin Early
    BY <1>1, <2>1 DEF HandlersFit, RecFits
  <2>2. \A d, e \in Reconcilers :
          rec'[d].at = "held" /\ rec'[e].at = "held" /\ rec'[d].boot = rec'[e].boot => d = e
    BY <1>1, <1>2, <2>1 DEF CodesFit
  <2>3. QED
    BY <1>1, <2>2, CodesKept
<1>9. OwnedOnce'
  <2>1. ASSUME NEW k \in Kinds, NEW h \in Holders, NEW t \in TokenIds, Has(k, h, t)'
        PROVE  Has(k, h, t)
    BY <1>2, <2>1 DEF Has, TokenIds
  <2>2. QED
    BY <1>1, <2>1, OwnersStay
<1>10. QED
  BY <1>3, <1>6, <1>7, <1>8, <1>9 DEF CredentialsInv

\* Between two bootstraps a reconciler holds nothing.
LEMMA Resting ==
  ASSUME NEW todo \in SUBSET Bootstraps, NEW p, p = NextOf(todo)
  PROVE  p \in RecType /\ p.at \in {"idle", "next"} /\ p.got = 0
  BY DEF NextOf, IdleRec, RecType, RecSteps, Failures

LEMMA ListStep ==
  ASSUME CredentialsInv, NEW c \in Reconcilers, ListRecoverable(c)
  PROVE  CredentialsInv'
<1>1. PICK p : p = NextOf({b \in Bootstraps : Recovered[b].status = "ready"})
  OBVIOUS
<1>2. rec' = [rec EXCEPT ![c] = p] /\ boots' = Recovered
  BY <1>1 DEF ListRecoverable, Go
<1>3. p \in RecType /\ p.at \in {"idle", "next"} /\ p.got = 0
  BY <1>1, Resting
<1>4. RecFits(c)'
  BY <1>2, <1>3 DEF RecFits, CredentialsInv, Types, RecTypes
<1>5. BootsMove
  BY <1>2, RecoveryMoves DEF CredentialsInv
<1>6. QED
  BY <1>2, <1>3, <1>4, <1>5, ReconcilerStep DEF ListRecoverable

LEMMA ClaimStep ==
  ASSUME CredentialsInv, NEW c \in Reconcilers, ClaimExchange(c)
  PROVE  CredentialsInv'
<1>1. PICK b \in rec[c].todo :
        IF Claimable(b)
        THEN /\ boots' = [boots EXCEPT ![b].status = "exchanging"]
             /\ Go(c, [IdleRec EXCEPT !.at = "held", !.todo = rec[c].todo \ {b}, !.boot = b])
        ELSE /\ boots' = boots
             /\ Go(c, NextOf(rec[c].todo \ {b}))
  BY DEF ClaimExchange
<1>2. rec[c].todo \in SUBSET Bootstraps /\ b \in Bootstraps /\ Types /\ CodesFit
  BY <1>1 DEF CredentialsInv, Types, RecTypes, RecType
<1>3. UNCHANGED <<inst, cred, states, pass, tokens, leases, newest>>
  BY DEF ClaimExchange
<1>4. CASE Claimable(b)
  <2>1. PICK row : row = [boots[b] EXCEPT !.status = "exchanging"]
    OBVIOUS
  <2>2. boots[b] \in BootType /\ boots[b].status = "ready" /\ boots[b].uses = 0
    BY <1>2, <1>4 DEF Types, BootTypes, Claimable, CodesFit, Early
  <2>3. row \in BootType /\ row.target = boots[b].target /\ row.uses = 0
        /\ row.status = "exchanging"
    BY <2>1, <2>2 DEF BootType, Progressing
  <2>4. boots' = [boots EXCEPT ![b] = row]
    BY <1>1, <1>4, <2>1
  <2>5. BootsMove
    BY <1>2, <2>2, <2>3, <2>4, StatusMoves
  <2>6. PICK p : p = [IdleRec EXCEPT !.at = "held", !.todo = rec[c].todo \ {b}, !.boot = b]
    OBVIOUS
  <2>7. p.at = "held" /\ p.boot = b /\ p.got = 0
    BY <2>6 DEF IdleRec
  <2>8. p \in RecType
    BY <1>2, <2>6 DEF IdleRec, RecType, RecSteps, Failures
  <2>9. rec' = [rec EXCEPT ![c] = p]
    BY <1>1, <1>4, <2>6 DEF Go
  <2>10. boots'[b] = row /\ rec'[c] = p
    BY <1>2, <2>4, <2>9 DEF Types, BootTypes, RecTypes
  <2>11. RecFits(c)'
    BY <1>2, <2>3, <2>7, <2>10 DEF RecFits, Early
  <2>12. QED
    BY <1>3, <2>2, <2>5, <2>7, <2>8, <2>9, <2>11, ReconcilerStep DEF Early
<1>5. CASE ~Claimable(b)
  <2>1. PICK p : p = NextOf(rec[c].todo \ {b})
    OBVIOUS
  <2>2. rec' = [rec EXCEPT ![c] = p] /\ boots' = boots
    BY <1>1, <1>5, <2>1 DEF Go
  <2>3. p \in RecType /\ p.at \in {"idle", "next"} /\ p.got = 0
    BY <1>2, <2>1, Resting
  <2>4. RecFits(c)'
    BY <1>2, <2>2, <2>3 DEF RecFits, Types, RecTypes
  <2>5. BootsMove
    BY <1>2, <2>2, BootsStay
  <2>6. QED
    BY <1>3, <2>2, <2>3, <2>4, <2>5, ReconcilerStep
<1>6. QED
  BY <1>4, <1>5

\* The attempt is given up before or after the exchange.
LEMMA FailingStep ==
  ASSUME CredentialsInv, NEW c \in Reconcilers, rec[c].at \in {"held", "waiting", "store"},
         NEW f \in Failures \ {"none"}, Failing(c, f),
         UNCHANGED <<inst, cred, boots, states, pass, tokens, leases, newest>>
  PROVE  CredentialsInv'
<1>1. PICK p : p = [rec[c] EXCEPT !.at = "fail", !.got = 0, !.failure = f]
  OBVIOUS
<1>2. rec' = [rec EXCEPT ![c] = p]
  BY <1>1 DEF Failing, Go
<1>3. p \in RecType /\ p.at = "fail" /\ p.got = 0 /\ p.failure = f /\ p.boot = rec[c].boot
  <2>1. f \in Failures /\ rec[c] \in RecType
    BY DEF CredentialsInv, Types, RecTypes
  <2>2. p \in RecType
    BY <1>1, <2>1 DEF RecType, RecSteps
  <2>3. QED
    BY <1>1, <2>1, <2>2 DEF RecType
<1>4. rec'[c] = p
  BY <1>2 DEF CredentialsInv, Types, RecTypes
<1>5. RecFits(c) /\ Types /\ CodesFit
  BY DEF CredentialsInv, HandlersFit
<1>6. RecFits(c)'
  BY <1>3, <1>4, <1>5 DEF RecFits
<1>7. BootsMove
  BY <1>5, BootsStay
<1>8. QED
  BY <1>2, <1>3, <1>6, <1>7, ReconcilerStep

LEMMA CodeAnswerStep ==
  ASSUME CredentialsInv, NEW c \in Reconcilers, CodeAnswer(c)
  PROVE  CredentialsInv'
<1>1. rec[c].at = "waiting" /\ UNCHANGED <<inst, cred, boots, states, pass, tokens, leases, newest>>
  BY DEF CodeAnswer
<1>2. CASE rec[c].got # 0 /\ Go(c, [rec[c] EXCEPT !.at = "store"])
  <2>1. rec[c] \in RecType /\ RecFits(c) /\ Types /\ CodesFit
    BY DEF CredentialsInv, Types, RecTypes, HandlersFit
  <2>2. PICK p : p = [rec[c] EXCEPT !.at = "store"]
    OBVIOUS
  <2>3. p \in RecType /\ p.at = "store" /\ p.got = rec[c].got /\ p.boot = rec[c].boot
    BY <2>1, <2>2 DEF RecType, RecSteps
  <2>4. rec' = [rec EXCEPT ![c] = p]
    BY <1>2, <2>2 DEF Go
  <2>5. rec'[c] = p
    BY <2>1, <2>4 DEF Types, RecTypes
  <2>6. RecFits(c)'
    BY <1>1, <1>2, <2>1, <2>3, <2>5 DEF RecFits, Issued
  <2>7. BootsMove
    BY <1>1, <2>1, BootsStay
  <2>8. QED
    BY <1>1, <2>3, <2>4, <2>6, <2>7, ReconcilerStep
<1>3. ASSUME NEW f \in {"definite", "exchange_outcome_unknown"}, Failing(c, f)
      PROVE  CredentialsInv'
  <2>1. f \in Failures \ {"none"}
    BY DEF Failures
  <2>2. QED
    BY <1>1, <1>3, <2>1, FailingStep
<1>4. QED
  BY <1>2, <1>3 DEF CodeAnswer

LEMMA FailBootstrapStep ==
  ASSUME CredentialsInv, NEW c \in Reconcilers, FailBootstrap(c)
  PROVE  CredentialsInv'
<1>1. rec[c].at = "fail" /\ UNCHANGED <<inst, cred, states, pass, tokens, leases, newest>>
  BY DEF FailBootstrap
<1>2. rec[c] \in RecType /\ RecFits(c) /\ Types /\ CodesFit
  BY DEF CredentialsInv, Types, RecTypes, HandlersFit
<1>3. rec[c].boot \in Bootstraps /\ rec[c].failure \in Failures \ {"none"}
  BY <1>1, <1>2 DEF RecFits, RecType
<1>4. PICK p : p = NextOf(rec[c].todo)
  OBVIOUS
<1>5. rec' = [rec EXCEPT ![c] = p]
  BY <1>4 DEF FailBootstrap, Go
<1>6. p \in RecType /\ p.at \in {"idle", "next"} /\ p.got = 0
  BY <1>2, <1>4, Resting DEF RecType
<1>7. RecFits(c)'
  BY <1>2, <1>5, <1>6 DEF RecFits, Types, RecTypes
<1>8. BootsMove
  BY <1>2, <1>3, BootsStay, FailureMoves DEF FailBootstrap
<1>9. QED
  BY <1>1, <1>5, <1>6, <1>7, <1>8, ReconcilerStep

LEMMA AbandonExchangeStep ==
  ASSUME CredentialsInv, NEW c \in Reconcilers, AbandonExchange(c)
  PROVE  CredentialsInv'
<1>1. UNCHANGED <<inst, cred, boots, states, pass, tokens, leases, newest>>
      /\ rec' = [rec EXCEPT ![c] = IdleRec]
  BY DEF AbandonExchange, Go
<1>2. IdleRec \in RecType /\ IdleRec.at = "idle" /\ IdleRec.got = 0
  BY DEF IdleRec, RecType, RecSteps, Failures
<1>3. RecFits(c)'
  BY <1>1, <1>2 DEF RecFits, CredentialsInv, Types, RecTypes
<1>4. BootsMove
  BY <1>1, BootsStay DEF CredentialsInv
<1>5. QED
  BY <1>1, <1>2, <1>3, <1>4, ReconcilerStep

-----------------------------------------------------------------------------
(* Pairs that are issued, stored and shown *)

LEMMA HasTyped ==
  ASSUME Types, NEW k, NEW h, NEW t, t # 0, Has(k, h, t)
  PROVE  t \in TokenIds
  BY DEF Types, Has, CredTypes, CredType, RecTypes, RecType, FlowTypes, FlowType, PassTypes,
     PassType

\* A new pair has the place of the answer it comes in.
LEMMA OwnerNew ==
  ASSUME Types, OwnedOnce, NEW K \in Kinds, NEW H \in Holders,
         Len(tokens') = Len(tokens) + 1, tokens'[Len(tokens) + 1].uses = 0,
         \A t \in TokenIds : tokens'[t].uses <= 1,
         \A k \in Kinds, h \in Holders, t \in TokenIds' : Has(k, h, t)' =>
           \/ k = K /\ h = H /\ t = Len(tokens) + 1
           \/ Has(k, h, t) /\ (t \in TokenIds => tokens'[t].uses = tokens[t].uses)
  PROVE  OwnedOnce'
<1>1. Len(tokens) \in Nat
  BY DEF Types, TokenTypes
<1>2. TokenIds' = TokenIds \cup {Len(tokens) + 1} /\ Len(tokens) + 1 \notin TokenIds /\ 0 \notin TokenIds'
  BY <1>1 DEF TokenIds
<1>3. \A t \in TokenIds' : tokens'[t].uses <= 1
  BY <1>2
<1>4. ASSUME NEW k \in Kinds, NEW h \in Holders, NEW t \in TokenIds', Has(k, h, t)',
             ~(k = K /\ h = H /\ t = Len(tokens) + 1)
      PROVE  t # Len(tokens) + 1 /\ t \in TokenIds /\ Has(k, h, t)
             /\ tokens'[t].uses = tokens[t].uses
  <2>1. Has(k, h, t)
    BY <1>4
  <2>2. t \in TokenIds
    BY <1>2, <2>1, HasTyped
  <2>3. QED
    BY <1>2, <1>4, <2>1, <2>2
<1>5. QED
  BY <1>3, <1>4, OwnerMoves

\* The row takes over a pair, and the handler that had it has it no more.
LEMMA OwnerStores ==
  ASSUME OwnedOnce, UNCHANGED tokens, NEW K \in Kinds, NEW H \in Holders, NEW T \in TokenIds,
         Has(K, H, T), cred'.token = T,
         \A k \in Kinds \ {"row"}, h \in Holders, t \in TokenIds :
           Has(k, h, t)' => Has(k, h, t) /\ ~(k = K /\ h = H)
  PROVE  OwnedOnce'
<1>1. TokenIds' = TokenIds /\ tokens[T].uses = 0 /\ "row" \in Kinds /\ 0 \in Holders
  BY DEF TokenIds, OwnedOnce, Kinds, Holders
<1>2. ASSUME NEW k \in Kinds, NEW h \in Holders, NEW t \in TokenIds', Has(k, h, t)',
             ~(k = "row" /\ h = 0 /\ t = T)
      PROVE  t # T /\ t \in TokenIds /\ Has(k, h, t) /\ tokens'[t].uses = tokens[t].uses
  <2>1. k # "row"
    BY <1>2 DEF Has
  <2>2. Has(k, h, t) /\ ~(k = K /\ h = H) /\ t \in TokenIds
    BY <1>1, <1>2, <2>1
  <2>3. t # T
    BY <2>2 DEF OwnedOnce
  <2>4. QED
    BY <2>2, <2>3
<1>3. \A t \in TokenIds' : tokens'[t].uses <= 1
  BY <1>1 DEF OwnedOnce
<1>4. QED
  BY <1>1, <1>2, <1>3, OwnerMoves

\* The columns of a stored pair fit its generation.
LEMMA StoredFits ==
  ASSUME Types, NEW t \in TokenIds, NEW gen, Eligible(gen), tokens[t].gen = gen,
         cred' = Stored(t), UNCHANGED <<inst, tokens, leases>>
  PROVE  /\ CredTypes' /\ CredentialOfGeneration'
         /\ cred'.state = "usable" /\ cred'.token = t /\ cred'.lease = 0
<1>1. cred \in CredType /\ leases \in Nat
  BY DEF Types, CredTypes
<1>2. cred' \in CredType'
  BY <1>1 DEF Stored, CredType, TokenIds
<1>3. /\ cred'.state = "usable" /\ cred'.token = t /\ cred'.lease = 0
      /\ cred'.revision = cred.revision + 1
  BY DEF Stored
<1>4. RefreshStateCheck(cred')
  BY <1>1, <1>3 DEF RefreshStateCheck, CredType, TokenIds
<1>5. CredentialOfGeneration'
  BY <1>3 DEF CredentialOfGeneration, Eligible
<1>6. QED
  BY <1>1, <1>2, <1>3, <1>4, <1>5 DEF CredTypes

-----------------------------------------------------------------------------
(* The exchange of an authorization code *)

LEMMA SendCodeStep ==
  ASSUME CredentialsInv, NEW c \in Reconcilers, SendCode(c)
  PROVE  CredentialsInv'
<1>1. rec[c].at = "held" /\ UNCHANGED <<inst, cred, states, pass, leases, newest>>
  BY DEF SendCode
<1>2. Types /\ CodesFit /\ OwnedOnce /\ HandlersFit /\ RecFits(c) /\ rec[c] \in RecType
  BY DEF CredentialsInv, HandlersFit, Types, RecTypes
<1>0. PICK b : b = rec[c].boot
  OBVIOUS
<1>3. b \in Bootstraps /\ boots[b].uses = 0 /\ boots[b].status \notin Early /\ rec[c].got = 0
  BY <1>0, <1>1, <1>2 DEF RecFits
<1>4. PICK row : row = [boots[b] EXCEPT !.uses = boots[b].uses + 1]
  OBVIOUS
<1>5. boots[b] \in BootType /\ boots \in [Bootstraps -> BootType]
  BY <1>2, <1>3 DEF Types, BootTypes
<1>6. /\ row \in BootType /\ row.uses = 1 /\ row.status = boots[b].status
      /\ row.target = boots[b].target /\ row.failure = boots[b].failure
  BY <1>3, <1>4, <1>5 DEF BootType
<1>7. boots' = [boots EXCEPT ![b] = row]
  BY <1>0, <1>4 DEF SendCode
<1>8. boots'[b] = row /\ \A a \in Bootstraps \ {b} : boots'[a] = boots[a]
  BY <1>3, <1>5, <1>7
<1>9. BootTypes'
  BY <1>5, <1>6, <1>7 DEF BootTypes, BootType
<1>10. \A a \in Bootstraps : Moves(a) /\ (Holds(a)' => Holds(a))
  BY <1>2, <1>6, <1>8 DEF Moves, Holds, CodesFit
<1>11. InstTypes' /\ LifecycleFits'
  BY <1>1 DEF CredentialsInv, Types, InstTypes, InstType, LifecycleFits, LifecycleConverges
<1>12. ASSUME NEW p \in RecType', rec' = [rec EXCEPT ![c] = p], p.at = "waiting", p.boot = b,
              p.got # 0 => Issued(p.got, boots[b].target, 0)', Grows,
              CredentialOfGeneration', OwnedOnce'
       PROVE  CredentialsInv'
  <2>1. rec'[c] = p /\ \A d \in Reconcilers \ {c} : rec'[d] = rec[d]
    BY <1>2, <1>12 DEF Types, RecTypes
  <2>2. RecFits(c)'
    BY <1>3, <1>6, <1>8, <1>12, <2>1 DEF RecFits, Issued, Early
  <2>3. ASSUME NEW d \in Reconcilers \ {c}, rec[d].at = "held"
        PROVE  boots'[rec[d].boot] = boots[rec[d].boot]
    BY <1>0, <1>1, <1>2, <1>8, <2>3 DEF CodesFit, HandlersFit, RecFits
  <2>4. HandlersFit'
    BY <1>1, <1>2, <1>10, <1>12, <2>1, <2>2, <2>3, RecKept, FlowKept, PassKept DEF HandlersFit
  <2>5. \A t \in TokenIds : t \in TokenIds'
    BY <1>2, <1>12 DEF Grows, TokenIds, Types, TokenTypes
  <2>6. RecTypes'
    BY <1>2, <1>12, <2>5 DEF Types, RecTypes, RecType
  <2>7. Types'
    BY <1>1, <1>2, <1>9, <1>11, <1>12, <2>6, TypesKept DEF Types, Grows
  <2>8. CodesFit'
    <3>1. ASSUME NEW a \in Bootstraps
          PROVE  /\ boots'[a].uses <= 1
                 /\ boots'[a].status \in Early => boots'[a].uses = 0
                 /\ boots'[a].status = "failed" => boots'[a].failure # "none"
      BY <1>2, <1>3, <1>6, <1>8 DEF CodesFit
    <3>2. ASSUME NEW a \in Bootstraps, NEW d \in Bootstraps,
                 Holds(a)', Holds(d)', boots'[a].target = boots'[d].target
          PROVE  a = d
      BY <1>2, <1>6, <1>8, <1>10, <3>2 DEF CodesFit
    <3>3. \A d, e \in Reconcilers :
            rec'[d].at = "held" /\ rec'[e].at = "held" /\ rec'[d].boot = rec'[e].boot => d = e
      BY <1>2, <1>12, <2>1 DEF CodesFit
    <3>4. QED
      BY <3>1, <3>2, <3>3 DEF CodesFit, Early
  <2>9. QED
    BY <1>11, <1>12, <2>4, <2>7, <2>8 DEF CredentialsInv
<1>13. CASE Granted(0, boots[b].target, tokens)
            /\ Go(c, [rec[c] EXCEPT !.at = "waiting", !.got = Len(tokens) + 1])
  <2>1. boots[b].target \in Nat /\ tokens \in Seq(PairType) /\ Len(tokens) \in Nat
    BY <1>2, <1>5 DEF BootType, Types, TokenTypes
  <2>0. PICK T : T = Len(tokens) + 1
    OBVIOUS
  <2>2. /\ TokenTypes' /\ Len(tokens') = T
        /\ \A t \in TokenIds : tokens'[t] = tokens[t]
        /\ tokens'[T] = [parent |-> 0, gen |-> boots[b].target, uses |-> 0]
    BY <1>13, <2>0, <2>1, GrantedLast
  <2>3. Grows
    BY <1>1, <1>2, <2>0, <2>1, <2>2 DEF Grows, Types, CredTypes
  <2>4. T \in TokenIds' /\ T \notin TokenIds /\ T # 0 /\ TokenIds \subseteq TokenIds'
    BY <2>0, <2>1, <2>2 DEF TokenIds
  <2>5. PICK p : p = [rec[c] EXCEPT !.at = "waiting", !.got = T]
    OBVIOUS
  <2>6. p \in RecType'
    BY <1>2, <2>4, <2>5 DEF RecType, RecSteps
  <2>7. p.at = "waiting" /\ p.boot = b /\ p.got = T
    BY <1>0, <1>2, <2>5 DEF RecType
  <2>8. rec' = [rec EXCEPT ![c] = p]
    BY <1>13, <2>0, <2>5 DEF Go
  <2>9. Issued(T, boots[b].target, 0)'
    BY <1>6, <1>8, <2>2 DEF Issued
  <2>10. CredentialOfGeneration'
    BY <1>1, <1>2, <2>2 DEF CredentialsInv, CredentialOfGeneration, Types, CredTypes, CredType
  <2>11. OwnedOnce'
    <3>1. rec'[c] = p /\ \A d \in Reconcilers \ {c} : rec'[d] = rec[d]
      BY <1>2, <2>8 DEF Types, RecTypes
    <3>2. \A k \in Kinds, h \in Holders, t \in TokenIds' : Has(k, h, t)' =>
            \/ k = "code" /\ h = c /\ t = T
            \/ Has(k, h, t)
      BY <1>1, <2>7, <3>1 DEF Has
    <3>3. "code" \in Kinds /\ c \in Holders
      BY DEF Kinds, Holders
    <3>4. tokens'[T].uses = 0 /\ \A t \in TokenIds : tokens'[t].uses <= 1
      BY <1>2, <2>2 DEF OwnedOnce
    <3>5. QED
      BY <1>2, <2>0, <2>2, <3>2, <3>3, <3>4, OwnerNew
  <2>12. QED
    BY <1>12, <2>3, <2>6, <2>7, <2>8, <2>9, <2>10, <2>11
<1>14. CASE Go(c, [rec[c] EXCEPT !.at = "waiting"]) /\ UNCHANGED tokens
  <2>1. PICK p : p = [rec[c] EXCEPT !.at = "waiting"]
    OBVIOUS
  <2>2. p \in RecType' /\ p.at = "waiting" /\ p.boot = b /\ p.got = 0
    BY <1>0, <1>2, <1>3, <1>14, <2>1 DEF RecType, RecSteps, TokenIds
  <2>3. rec' = [rec EXCEPT ![c] = p]
    BY <1>14, <2>1 DEF Go
  <2>4. Grows
    BY <1>1, <1>2, <1>14, GrowsNot
  <2>5. CredentialOfGeneration'
    BY <1>1, <1>14 DEF CredentialsInv, CredentialOfGeneration
  <2>6. OwnedOnce'
    <3>1. rec'[c] = p /\ \A d \in Reconcilers \ {c} : rec'[d] = rec[d]
      BY <1>2, <2>3 DEF Types, RecTypes
    <3>2. \A k \in Kinds, h \in Holders, t \in TokenIds : Has(k, h, t)' => Has(k, h, t)
      BY <1>1, <2>2, <3>1 DEF Has, TokenIds
    <3>3. QED
      BY <1>2, <1>14, <3>2, OwnersStay
  <2>7. QED
    BY <1>12, <2>2, <2>3, <2>4, <2>5, <2>6
<1>15. QED
  BY <1>0, <1>13, <1>14 DEF SendCode

LEMMA FinalizeExchangeStep ==
  ASSUME CredentialsInv, NEW c \in Reconcilers, FinalizeExchange(c)
  PROVE  CredentialsInv'
<1>1. rec[c].at = "store" /\ UNCHANGED <<inst, states, pass, tokens, leases, newest>>
  BY DEF FinalizeExchange
<1>2. Types /\ CodesFit /\ OwnedOnce /\ HandlersFit /\ RecFits(c) /\ rec[c] \in RecType
  BY DEF CredentialsInv, HandlersFit, Types, RecTypes
<1>3. CASE Failing(c, "credential_persistence_failed") /\ UNCHANGED <<cred, boots>>
  <2>1. "credential_persistence_failed" \in Failures \ {"none"}
    BY DEF Failures
  <2>2. QED
    BY <1>1, <1>3, <2>1, FailingStep
<1>4. CASE /\ ExchangeCurrent(rec[c].boot)
           /\ cred' = Stored(rec[c].got)
           /\ boots' = [boots EXCEPT ![rec[c].boot].status = "succeeded", ![rec[c].boot].over = FALSE]
           /\ Go(c, NextOf(rec[c].todo))
  <2> DEFINE b == rec[c].boot
             T == rec[c].got
  <2>1. b \in Bootstraps /\ T \in TokenIds /\ tokens[T].gen = boots[b].target
    BY <1>1, <1>2 DEF RecFits, RecType, Issued
  <2>2. boots[b] \in BootType /\ boots[b].status = "exchanging" /\ Eligible(boots[b].target)
    BY <1>2, <1>4, <2>1 DEF Types, BootTypes, ExchangeCurrent
  <2>3. CredTypes' /\ CredentialOfGeneration'
        /\ cred'.state = "usable" /\ cred'.token = T /\ cred'.lease = 0
    BY <1>1, <1>2, <1>4, <2>1, <2>2, StoredFits
  <2>4. PICK row : row = [[boots[b] EXCEPT !.status = "succeeded"] EXCEPT !.over = FALSE]
    OBVIOUS
  <2>5. /\ row \in BootType /\ row.status = "succeeded"
        /\ row.target = boots[b].target /\ row.uses = boots[b].uses
    <3>1. PICK mid : mid = [boots[b] EXCEPT !.status = "succeeded"]
      OBVIOUS
    <3>2. mid \in BootType /\ mid.status = "succeeded"
          /\ mid.target = boots[b].target /\ mid.uses = boots[b].uses
      BY <2>2, <3>1 DEF BootType, Progressing
    <3>3. QED
      BY <2>4, <3>1, <3>2 DEF BootType
  <2>6. boots' = [boots EXCEPT ![b] = row]
    BY <1>2, <1>4, <2>1, <2>4 DEF Types, BootTypes
  <2>7. BootsMove
    BY <1>2, <2>1, <2>2, <2>5, <2>6, StatusMoves
  <2>8. PICK p : p = NextOf(rec[c].todo)
    OBVIOUS
  <2>9. p \in RecType /\ p.at \in {"idle", "next"} /\ p.got = 0
    BY <1>2, <2>8, Resting DEF RecType
  <2>10. rec' = [rec EXCEPT ![c] = p]
    BY <1>4, <2>8 DEF Go
  <2>11. rec'[c] = p /\ \A d \in Reconcilers \ {c} : rec'[d] = rec[d]
    BY <1>2, <2>10 DEF Types, RecTypes
  <2>12. RecFits(c)'
    BY <2>9, <2>11 DEF RecFits
  <2>13. Grows
    BY <1>1, <1>2, GrowsNot
  <2>14. InstTypes' /\ LifecycleFits'
    BY <1>1 DEF CredentialsInv, Types, InstTypes, InstType, LifecycleFits, LifecycleConverges
  <2>15. RecTypes'
    BY <1>1, <1>2, <2>9, <2>10 DEF Types, RecTypes, RecType, TokenIds
  <2>16. Types'
    BY <1>1, <1>2, <2>3, <2>7, <2>13, <2>14, <2>15, TypesKept DEF Types, BootsMove, TokenTypes
  <2>17. HandlersFit'
    BY <1>1, <1>2, <2>3, <2>7, <2>11, <2>12, <2>13, RecKept, FlowKept, PassKept
    DEF HandlersFit, BootsMove, RecFits
  <2>18. CodesFit'
    BY <1>2, <2>7, <2>9, <2>11, CodesKept DEF CodesFit
  <2>19. OwnedOnce'
    <3>1. Has("code", c, T) /\ "code" \in Kinds /\ c \in Holders
      BY DEF Has, Kinds, Holders
    <3>2. \A k \in Kinds \ {"row"}, h \in Holders, t \in TokenIds :
            Has(k, h, t)' => Has(k, h, t) /\ ~(k = "code" /\ h = c)
      BY <1>1, <2>9, <2>11 DEF Has, TokenIds
    <3>3. QED
      BY <1>1, <1>2, <2>1, <2>3, <3>1, <3>2, OwnerStores
  <2>20. QED
    BY <2>3, <2>14, <2>16, <2>17, <2>18, <2>19 DEF CredentialsInv
<1>5. QED
  BY <1>3, <1>4 DEF FinalizeExchange

LEMMA ExchangingStep ==
  ASSUME CredentialsInv, Exchanging
  PROVE  CredentialsInv'
<1>1. PICK c \in Reconcilers :
        \/ ListRecoverable(c) \/ ClaimExchange(c) \/ RejectClaim(c) \/ SendCode(c)
        \/ CodeAnswer(c) \/ FinalizeExchange(c) \/ FailBootstrap(c) \/ AbandonExchange(c)
  BY DEF Exchanging
<1>2. CASE RejectClaim(c)
  <2>1. "definite" \in Failures \ {"none"}
    BY DEF Failures
  <2>2. QED
    BY <1>2, <2>1, FailingStep DEF RejectClaim
<1>3. QED
  BY <1>1, <1>2, ListStep, ClaimStep, SendCodeStep, CodeAnswerStep, FinalizeExchangeStep,
     FailBootstrapStep, AbandonExchangeStep

-----------------------------------------------------------------------------
(* Steps of a reconnection *)

\* What a step keeps of the installation and of the bootstraps.
LEMMA RowsKept ==
  ASSUME CredentialsInv, UNCHANGED <<inst, boots, newest>>
  PROVE  InstTypes' /\ LifecycleFits' /\ BootsMove /\ Types /\ CodesFit /\ OwnedOnce /\ HandlersFit
<1>1. Types /\ CodesFit /\ OwnedOnce /\ HandlersFit
  BY DEF CredentialsInv
<1>2. InstTypes' /\ LifecycleFits'
  BY <1>1 DEF CredentialsInv, Types, InstTypes, InstType, LifecycleFits, LifecycleConverges
<1>3. QED
  BY <1>1, <1>2, BootsStay

LEMMA FlowStep ==
  ASSUME CredentialsInv, NEW r \in Reconnects, NEW f \in FlowType,
         states' = [states EXCEPT ![r] = f], f.got = 0, f.at # "persist",
         UNCHANGED <<inst, cred, boots, rec, pass, tokens, leases, newest>>
  PROVE  CredentialsInv'
<1>1. InstTypes' /\ LifecycleFits' /\ BootsMove /\ Types /\ CodesFit /\ OwnedOnce /\ HandlersFit
  BY RowsKept
<1>2. states'[r] = f /\ \A q \in Reconnects \ {r} : states'[q] = states[q]
  BY <1>1 DEF Types, FlowTypes
<1>3. Grows
  BY <1>1, GrowsNot
<1>4. FlowTypes'
  BY <1>1 DEF Types, FlowTypes, FlowType, TokenIds
<1>5. Types'
  BY <1>1, <1>3, <1>4, TypesKept DEF Types, BootsMove, TokenTypes
<1>6. FlowFits(r)'
  BY <1>2 DEF FlowFits
<1>7. HandlersFit'
  BY <1>1, <1>2, <1>3, <1>6, RecKept, FlowKept, PassKept DEF HandlersFit, BootsMove, RecFits
<1>8. CodesFit'
  BY <1>1, CodesKept DEF CodesFit
<1>9. \A k \in Kinds, h \in Holders, t \in TokenIds : Has(k, h, t)' => Has(k, h, t)
  BY <1>2 DEF Has, TokenIds
<1>10. OwnedOnce'
  BY <1>1, <1>9, OwnersStay
<1>11. CredentialOfGeneration'
  BY DEF CredentialsInv, CredentialOfGeneration
<1>12. QED
  BY <1>1, <1>5, <1>7, <1>8, <1>10, <1>11 DEF CredentialsInv

LEMMA ExchangeReconnectStep ==
  ASSUME CredentialsInv, NEW r \in Reconnects, ExchangeReconnect(r)
  PROVE  CredentialsInv'
<1>1. states[r].at = "consumed"
      /\ UNCHANGED <<inst, cred, boots, rec, pass, leases, newest>>
  BY DEF ExchangeReconnect
<1>2. InstTypes' /\ LifecycleFits' /\ BootsMove /\ Types /\ CodesFit /\ OwnedOnce /\ HandlersFit
  BY <1>1, RowsKept
<1>3. states[r] \in FlowType /\ Len(tokens) \in Nat /\ tokens \in Seq(PairType)
  BY <1>2 DEF Types, FlowTypes, TokenTypes
<1>4. CASE Flow(r, "done", states[r].gen, 0) /\ UNCHANGED tokens
  <2>1. PICK f : f = [at |-> "done", gen |-> states[r].gen, got |-> 0]
    OBVIOUS
  <2>2. f \in FlowType /\ f.got = 0 /\ f.at # "persist"
    BY <1>3, <2>1 DEF FlowType, FlowSteps
  <2>3. QED
    BY <1>1, <1>4, <2>1, <2>2, FlowStep DEF Flow
<1>5. CASE /\ Granted(0, states[r].gen, tokens)
           /\ \/ Flow(r, "persist", states[r].gen, Len(tokens) + 1)
              \/ Flow(r, "done", states[r].gen, 0)
  <2>0. PICK T : T = Len(tokens) + 1
    OBVIOUS
  <2>1. states[r].gen \in Nat
    BY <1>3 DEF FlowType
  <2>2. /\ TokenTypes' /\ Len(tokens') = T
        /\ \A t \in TokenIds : tokens'[t] = tokens[t]
        /\ tokens'[T] = [parent |-> 0, gen |-> states[r].gen, uses |-> 0]
    BY <1>3, <1>5, <2>0, <2>1, GrantedLast
  <2>3. Grows
    BY <1>1, <1>2, <1>3, <2>0, <2>2 DEF Grows, Types, CredTypes
  <2>4. T \in TokenIds' /\ T # 0 /\ TokenIds \subseteq TokenIds'
    BY <1>3, <2>0, <2>2 DEF TokenIds
  <2>5. PICK f : /\ states' = [states EXCEPT ![r] = f]
                 /\ \/ f = [at |-> "persist", gen |-> states[r].gen, got |-> T]
                    \/ f = [at |-> "done", gen |-> states[r].gen, got |-> 0]
    BY <1>5, <2>0 DEF Flow
  <2>6. /\ f \in FlowType' /\ f.gen = states[r].gen
        /\ \/ f.at = "persist" /\ f.got = T
           \/ f.at = "done" /\ f.got = 0
    <3>1. CASE f = [at |-> "persist", gen |-> states[r].gen, got |-> T]
      BY <2>1, <2>4, <3>1 DEF FlowType, FlowSteps
    <3>2. CASE f = [at |-> "done", gen |-> states[r].gen, got |-> 0]
      BY <2>1, <3>2 DEF FlowType, FlowSteps
    <3>3. QED
      BY <2>5, <3>1, <3>2
  <2>7. states'[r] = f /\ \A q \in Reconnects \ {r} : states'[q] = states[q]
    BY <1>2, <2>5 DEF Types, FlowTypes
  <2>8. FlowTypes'
    BY <1>2, <2>4, <2>5, <2>6 DEF Types, FlowTypes, FlowType
  <2>9. Types'
    BY <1>1, <1>2, <2>2, <2>3, <2>8, TypesKept DEF Types, BootsMove
  <2>10. FlowFits(r)'
    BY <2>2, <2>4, <2>6, <2>7 DEF FlowFits, Issued
  <2>11. HandlersFit'
    BY <1>1, <1>2, <2>3, <2>7, <2>10, RecKept, FlowKept, PassKept
    DEF HandlersFit, BootsMove, RecFits
  <2>12. CodesFit'
    BY <1>1, <1>2, CodesKept DEF CodesFit
  <2>13. CredentialOfGeneration'
    BY <1>1, <1>2, <2>2 DEF CredentialsInv, CredentialOfGeneration, Types, CredTypes, CredType
  <2>14. OwnedOnce'
    <3>1. \A k \in Kinds, h \in Holders, t \in TokenIds' : Has(k, h, t)' =>
            \/ k = "flow" /\ h = r /\ t = T
            \/ Has(k, h, t)
      BY <1>1, <2>6, <2>7 DEF Has, TokenIds
    <3>2. "flow" \in Kinds /\ r \in Holders
      BY DEF Kinds, Holders
    <3>3. tokens'[T].uses = 0 /\ \A t \in TokenIds : tokens'[t].uses <= 1
      BY <1>2, <2>2 DEF OwnedOnce
    <3>4. QED
      BY <1>2, <2>0, <2>2, <3>1, <3>2, <3>3, OwnerNew
  <2>15. QED
    BY <1>2, <2>9, <2>11, <2>12, <2>13, <2>14 DEF CredentialsInv
<1>6. QED
  BY <1>4, <1>5 DEF ExchangeReconnect

LEMMA PersistInstalledStep ==
  ASSUME CredentialsInv, NEW r \in Reconnects, PersistInstalled(r)
  PROVE  CredentialsInv'
<1>1. states[r].at = "persist"
      /\ UNCHANGED <<inst, boots, rec, pass, tokens, leases, newest>>
  BY DEF PersistInstalled
<1>2. InstTypes' /\ LifecycleFits' /\ BootsMove /\ Types /\ CodesFit /\ OwnedOnce /\ HandlersFit
  BY <1>1, RowsKept
<1>3. states[r] \in FlowType /\ FlowFits(r)
  BY <1>2 DEF Types, FlowTypes, HandlersFit
<1>4. PICK f : f = [at |-> "done", gen |-> states[r].gen, got |-> 0]
  OBVIOUS
<1>5. f \in FlowType /\ f.got = 0 /\ f.at # "persist"
  BY <1>3, <1>4 DEF FlowType, FlowSteps
<1>6. states' = [states EXCEPT ![r] = f]
  BY <1>4 DEF PersistInstalled, Flow
<1>7. CASE UNCHANGED cred
  BY <1>1, <1>5, <1>6, <1>7, FlowStep
<1>8. CASE Eligible(states[r].gen) /\ cred' = Stored(states[r].got)
  <2>1. states[r].got \in TokenIds /\ tokens[states[r].got].gen = states[r].gen
    BY <1>1, <1>3 DEF FlowFits, FlowType, Issued
  <2>2. CredTypes' /\ CredentialOfGeneration'
        /\ cred'.state = "usable" /\ cred'.token = states[r].got /\ cred'.lease = 0
    BY <1>1, <1>2, <1>8, <2>1, StoredFits
  <2>3. states'[r] = f /\ \A q \in Reconnects \ {r} : states'[q] = states[q]
    BY <1>2, <1>6 DEF Types, FlowTypes
  <2>4. Grows
    BY <1>1, <1>2, GrowsNot
  <2>5. FlowTypes'
    BY <1>1, <1>2, <1>5, <1>6 DEF Types, FlowTypes, FlowType, TokenIds
  <2>6. Types'
    BY <1>1, <1>2, <2>2, <2>4, <2>5, TypesKept DEF Types, BootsMove, TokenTypes
  <2>7. FlowFits(r)'
    BY <1>5, <2>3 DEF FlowFits
  <2>8. HandlersFit'
    BY <1>1, <1>2, <2>2, <2>3, <2>4, <2>7, RecKept, FlowKept, PassKept
    DEF HandlersFit, BootsMove, RecFits
  <2>9. CodesFit'
    BY <1>1, <1>2, CodesKept DEF CodesFit
  <2>10. OwnedOnce'
    <3>1. Has("flow", r, states[r].got) /\ "flow" \in Kinds /\ r \in Holders
      BY DEF Has, Kinds, Holders
    <3>2. \A k \in Kinds \ {"row"}, h \in Holders, t \in TokenIds :
            Has(k, h, t)' => Has(k, h, t) /\ ~(k = "flow" /\ h = r)
      BY <1>1, <1>5, <2>3 DEF Has, TokenIds
    <3>3. QED
      BY <1>1, <1>2, <2>1, <2>2, <3>1, <3>2, OwnerStores
  <2>11. QED
    BY <1>2, <2>2, <2>6, <2>8, <2>9, <2>10 DEF CredentialsInv
<1>9. QED
  BY <1>7, <1>8 DEF PersistInstalled

LEMMA ReconnectingStep ==
  ASSUME CredentialsInv, Reconnecting
  PROVE  CredentialsInv'
<1>1. PICK r \in Reconnects :
        Initiate(r) \/ ConsumeState(r) \/ ExchangeReconnect(r) \/ PersistInstalled(r)
  BY DEF Reconnecting
<1>2. inst.gen \in Nat /\ states[r].gen \in Nat
  BY DEF CredentialsInv, Types, InstTypes, InstType, FlowTypes, FlowType
<1>3. CASE Initiate(r)
  <2>1. PICK f : f = [at |-> "started", gen |-> inst.gen, got |-> 0]
    OBVIOUS
  <2>2. f \in FlowType /\ f.got = 0 /\ f.at # "persist"
    BY <1>2, <2>1 DEF FlowType, FlowSteps
  <2>3. QED
    BY <1>3, <2>1, <2>2, FlowStep DEF Initiate, Flow
<1>4. CASE ConsumeState(r)
  <2>1. PICK f : f = [at |-> "consumed", gen |-> states[r].gen, got |-> 0]
    OBVIOUS
  <2>2. f \in FlowType /\ f.got = 0 /\ f.at # "persist"
    BY <1>2, <2>1 DEF FlowType, FlowSteps
  <2>3. QED
    BY <1>4, <2>1, <2>2, FlowStep DEF ConsumeState, Flow
<1>5. QED
  BY <1>1, <1>3, <1>4, ExchangeReconnectStep, PersistInstalledStep

-----------------------------------------------------------------------------
(* Steps of a worker *)

\* A step that sends nothing, and keeps or burns the pair in the row.
LEMMA WorkerStep ==
  ASSUME CredentialsInv, NEW w \in Workers, NEW p \in PassType, pass' = [pass EXCEPT ![w] = p],
         UNCHANGED <<inst, boots, states, rec, tokens, leases, newest>>,
         (cred' = cred \/ (cred' = Burned /\ cred.state # "none")),
         p.at # "held",
         p.at \in {"waiting", "store"} => pass[w].at \in {"waiting", "store"} /\ p.got = pass[w].got,
         PassFits(w)'
  PROVE  CredentialsInv'
<1>1. InstTypes' /\ LifecycleFits' /\ BootsMove /\ Types /\ CodesFit /\ OwnedOnce /\ HandlersFit
  BY RowsKept
<1>2. pass'[w] = p /\ \A v \in Workers \ {w} : pass'[v] = pass[v]
  BY <1>1 DEF Types, PassTypes
<1>3. Grows
  BY <1>1, GrowsNot
<1>4. /\ CredTypes' /\ CredentialOfGeneration'
      /\ (cred' = cred \/ (cred'.lease = 0 /\ cred'.state = "reauth_required"))
  <2>1. CASE cred' = cred
    <3>1. CredTypes'
      BY <1>1, <1>3, <2>1, TypesKept
    <3>2. CredentialOfGeneration'
      BY <2>1 DEF CredentialsInv, CredentialOfGeneration
    <3>3. QED
      BY <2>1, <3>1, <3>2
  <2>2. CASE cred' = Burned /\ cred.state # "none"
    BY <1>1, <1>3, <2>2, WithoutPair DEF Burned, Types
  <2>3. QED
    BY <2>1, <2>2
<1>5. PassTypes'
  BY <1>1 DEF Types, PassTypes, PassType, TokenIds
<1>6. Types'
  BY <1>1, <1>3, <1>4, <1>5, TypesKept DEF Types, BootsMove, TokenTypes
<1>7. HandlersFit'
  BY <1>1, <1>2, <1>3, <1>4, RecKept, FlowKept, PassKept DEF HandlersFit, BootsMove, RecFits
<1>8. CodesFit'
  BY <1>1, CodesKept DEF CodesFit
<1>9. \A k \in Kinds, h \in Holders, t \in TokenIds : Has(k, h, t)' => Has(k, h, t)
  BY <1>2, <1>4 DEF Has
<1>10. OwnedOnce'
  BY <1>1, <1>9, OwnersStay
<1>11. QED
  BY <1>1, <1>4, <1>6, <1>7, <1>8, <1>10 DEF CredentialsInv

\* A worker that holds nothing.
LEMMA Unburdened ==
  ASSUME CredentialsInv, NEW w \in Workers, NEW p, pass' = [pass EXCEPT ![w] = p],
         \/ p = IdlePass
         \/ p = [IdlePass EXCEPT !.at = "select"]
         \/ p = [IdlePass EXCEPT !.at = "claim", !.gen = inst.gen]
         \/ p = [IdlePass EXCEPT !.at = "recover", !.gen = inst.gen, !.recovering = TRUE]
  PROVE  p \in PassType /\ p.at \in {"idle", "select", "claim", "recover"} /\ PassFits(w)'
<1>1. inst.gen \in Nat /\ leases \in Nat
  BY DEF CredentialsInv, Types, InstTypes, InstType, CredTypes
<1>2. IdlePass \in PassType /\ IdlePass.at = "idle" /\ IdlePass.got = 0
  BY <1>1 DEF IdlePass, PassType, PassSteps
<1>3. p \in PassType /\ p.at \in {"idle", "select", "claim", "recover"} /\ p.got = 0
  <2>1. CASE p = IdlePass
    BY <1>2, <2>1
  <2>2. CASE p = [IdlePass EXCEPT !.at = "select"]
    BY <1>2, <2>2 DEF PassType, PassSteps
  <2>3. CASE p = [IdlePass EXCEPT !.at = "claim", !.gen = inst.gen]
    <3>1. PICK q : q = [IdlePass EXCEPT !.at = "claim"]
      OBVIOUS
    <3>2. q \in PassType /\ q.at = "claim" /\ q.got = 0
      BY <1>2, <3>1 DEF PassType, PassSteps
    <3>3. p = [q EXCEPT !.gen = inst.gen]
      BY <2>3, <3>1
    <3>4. QED
      BY <1>1, <3>2, <3>3 DEF PassType
  <2>4. CASE p = [IdlePass EXCEPT !.at = "recover", !.gen = inst.gen, !.recovering = TRUE]
    <3>1. PICK q : q = [IdlePass EXCEPT !.at = "recover"]
      OBVIOUS
    <3>2. q \in PassType /\ q.at = "recover" /\ q.got = 0
      BY <1>2, <3>1 DEF PassType, PassSteps
    <3>3. PICK v : v = [q EXCEPT !.gen = inst.gen]
      OBVIOUS
    <3>4. v \in PassType /\ v.at = "recover" /\ v.got = 0
      BY <1>1, <3>2, <3>3 DEF PassType
    <3>5. p = [v EXCEPT !.recovering = TRUE]
      BY <2>4, <3>1, <3>3
    <3>6. QED
      BY <3>4, <3>5 DEF PassType
  <2>5. QED
    BY <2>1, <2>2, <2>3, <2>4
<1>4. pass'[w] = p
  BY DEF CredentialsInv, Types, PassTypes
<1>5. QED
  BY <1>3, <1>4 DEF PassFits

\* A worker that reports a failure keeps nothing it could send or store.
LEMMA Defeated ==
  ASSUME CredentialsInv, NEW w \in Workers, NEW p, pass' = [pass EXCEPT ![w] = p],
         p = [pass[w] EXCEPT !.at = "fail"]
  PROVE  p \in PassType /\ p.at = "fail" /\ PassFits(w)'
<1>1. pass[w] \in PassType
  BY DEF CredentialsInv, Types, PassTypes
<1>2. p \in PassType /\ p.at = "fail"
  BY <1>1 DEF PassType, PassSteps
<1>3. pass'[w] = p
  BY DEF CredentialsInv, Types, PassTypes
<1>4. QED
  BY <1>2, <1>3 DEF PassFits

\* The steps that only read, fail or stop.
LEMMA QuietWorkerStep ==
  ASSUME CredentialsInv, NEW w \in Workers,
         \/ FindExpiredLease(w) \/ FindCandidate(w) \/ RejectRefreshClaim(w) \/ FailRefresh(w)
         \/ AbandonRefresh(w)
  PROVE  CredentialsInv'
<1>1. PICK p : pass' = [pass EXCEPT ![w] = p]
               /\ \/ p = IdlePass
                  \/ p = [IdlePass EXCEPT !.at = "select"]
                  \/ p = [IdlePass EXCEPT !.at = "claim", !.gen = inst.gen]
                  \/ p = [IdlePass EXCEPT !.at = "recover", !.gen = inst.gen, !.recovering = TRUE]
                  \/ p = [pass[w] EXCEPT !.at = "fail"]
  BY DEF FindExpiredLease, FindCandidate, RejectRefreshClaim, FailRefresh, AbandonRefresh, Do,
     NotClaimed
<1>2. p \in PassType /\ p.at \in {"idle", "select", "claim", "recover", "fail"} /\ PassFits(w)'
  BY <1>1, Unburdened, Defeated
<1>3. UNCHANGED <<inst, boots, states, rec, tokens, leases, newest>>
      /\ (cred' = cred \/ (cred' = Burned /\ cred.state # "none"))
  <2>1. CASE FindExpiredLease(w) \/ FindCandidate(w) \/ RejectRefreshClaim(w) \/ AbandonRefresh(w)
    BY <2>1 DEF FindExpiredLease, FindCandidate, RejectRefreshClaim, AbandonRefresh
  <2>2. CASE FailRefresh(w)
    <3>1. (cred' = cred \/ (cred' = Burned /\ cred.state # "none"))
      BY <2>2 DEF FailRefresh, ClaimCurrent
    <3>2. QED
      BY <2>2, <3>1 DEF FailRefresh
  <2>3. QED
    BY <2>1, <2>2
<1>4. QED
  BY <1>1, <1>2, <1>3, WorkerStep

\* The claim burns an expired lease, or leases the pair to this worker alone.
LEMMA ClaimRefreshStep ==
  ASSUME CredentialsInv, NEW w \in Workers, ClaimRefresh(w)
  PROVE  CredentialsInv'
<1>1. pass[w].at \in {"recover", "claim"} /\ UNCHANGED <<inst, boots, states, rec, tokens, newest>>
  BY DEF ClaimRefresh
<1>2. CASE /\ (cred' = cred \/ (cred' = Burned /\ cred.state # "none"))
           /\ Do(w, NotClaimed(w)) /\ UNCHANGED leases
  <2>1. PICK p : pass' = [pass EXCEPT ![w] = p]
                 /\ (p = IdlePass \/ p = [IdlePass EXCEPT !.at = "select"])
    BY <1>2 DEF Do, NotClaimed
  <2>2. p \in PassType /\ p.at \in {"idle", "select", "claim", "recover"} /\ PassFits(w)'
    BY <2>1, Unburdened
  <2>3. QED
    BY <1>1, <1>2, <2>1, <2>2, WorkerStep
<1>3. CASE /\ Due(pass[w].gen) /\ cred' = Claimed /\ leases' = leases + 1
           /\ Do(w, [pass[w] EXCEPT !.at = IF pass[w].recovering THEN "fail" ELSE "held",
                                    !.revision = cred.revision, !.lease = leases + 1,
                                    !.token = cred.token])
  <2>1. InstTypes' /\ LifecycleFits' /\ BootsMove /\ Types /\ CodesFit /\ OwnedOnce /\ HandlersFit
    BY <1>1, RowsKept
  <2>2. pass[w] \in PassType /\ PassFits(w) /\ cred \in CredType /\ leases \in Nat
        /\ RefreshStateCheck(cred)
    BY <2>1 DEF Types, PassTypes, HandlersFit, CredTypes
  <2>3. Eligible(pass[w].gen) /\ cred.state = "usable"
    BY <1>3 DEF Due
  <2>4. cred.token \in TokenIds /\ tokens[cred.token].gen = pass[w].gen
    BY <2>2, <2>3 DEF RefreshStateCheck, CredType, CredentialsInv, CredentialOfGeneration, Eligible
  <2>5. Grows
    BY <1>1, <1>3, <2>1, <2>2 DEF Grows, Types, TokenTypes, TokenIds
  <2>6. /\ cred'.state = "refreshing" /\ cred'.lease = leases + 1 /\ cred'.token = cred.token
        /\ cred'.revision = cred.revision /\ cred' \in CredType'
    BY <1>1, <1>3, <2>2 DEF Claimed, CredType, TokenIds
  <2>7. CredTypes'
    BY <1>3, <2>2, <2>3, <2>4, <2>6 DEF CredTypes, RefreshStateCheck, TokenIds
  <2>8. CredentialOfGeneration'
    BY <1>1, <2>6 DEF CredentialsInv, CredentialOfGeneration
  <2>9. PICK p : p = [pass[w] EXCEPT !.at = IF pass[w].recovering THEN "fail" ELSE "held",
                                     !.revision = cred.revision, !.lease = leases + 1,
                                     !.token = cred.token]
    OBVIOUS
  <2>10. p.at \in {"fail", "held"} /\ p.lease = leases + 1 /\ p.token = cred.token
         /\ p.gen = pass[w].gen /\ p.got = pass[w].got
    BY <2>2, <2>9 DEF PassType
  <2>11. p \in PassType'
    <3>1. /\ cred.revision \in Nat /\ leases + 1 \in 0..leases' /\ cred.token \in TokenIds'
          /\ TokenIds' = TokenIds /\ 0..leases \subseteq 0..leases'
      BY <1>1, <1>3, <2>2, <2>4 DEF CredType, TokenIds
    <3>2. pass[w] \in PassType'
      BY <2>2, <3>1 DEF PassType
    <3>3. QED
      BY <2>9, <3>1, <3>2 DEF PassType, PassSteps
  <2>12. pass' = [pass EXCEPT ![w] = p]
    BY <1>3, <2>9 DEF Do
  <2>13. pass'[w] = p /\ \A v \in Workers \ {w} : pass'[v] = pass[v]
    BY <2>1, <2>12 DEF Types, PassTypes
  <2>14. PassTypes'
    <3>1. PassType \subseteq PassType'
      BY <1>1, <1>3, <2>2 DEF PassType, TokenIds
    <3>2. QED
      BY <2>1, <2>11, <2>12, <3>1 DEF Types, PassTypes
  <2>15. Types'
    BY <1>1, <2>1, <2>5, <2>7, <2>14, TypesKept DEF Types, BootsMove, TokenTypes
  <2>16. PassFits(w)'
    BY <1>1, <2>2, <2>4, <2>6, <2>10, <2>13 DEF PassFits, TokenIds
  <2>17. HandlersFit'
    BY <1>1, <2>1, <2>5, <2>6, <2>13, <2>16, RecKept, FlowKept, PassKept
    DEF HandlersFit, BootsMove, RecFits
  <2>18. CodesFit'
    BY <1>1, <2>1, CodesKept DEF CodesFit
  <2>19. OwnedOnce'
    <3>0. PICK T : T = cred.token
      OBVIOUS
    <3>1. Has("row", 0, T) /\ "row" \in Kinds /\ 0 \in Holders
          /\ "held" \in Kinds /\ w \in Holders /\ TokenIds' = TokenIds
      BY <1>1, <2>3, <3>0 DEF Has, Kinds, Holders, TokenIds
    <3>2. ASSUME NEW k \in Kinds, NEW h \in Holders, NEW t \in TokenIds', Has(k, h, t)',
                 ~(k = "held" /\ h = w /\ t = T)
          PROVE  t # T /\ t \in TokenIds /\ Has(k, h, t)
                 /\ tokens'[t].uses = tokens[t].uses
      <4>1. Has(k, h, t) /\ k # "row"
        BY <1>1, <2>6, <2>10, <2>13, <3>0, <3>2 DEF Has
      <4>2. t # T
        BY <2>1, <2>4, <3>0, <3>1, <4>1 DEF OwnedOnce
      <4>3. QED
        BY <1>1, <3>1, <4>1, <4>2
    <3>3. tokens'[T].uses = 0 /\ \A t \in TokenIds' : tokens'[t].uses <= 1
      BY <1>1, <2>1, <2>4, <3>0, <3>1 DEF OwnedOnce
    <3>4. \A k \in Kinds, h \in Holders, t \in TokenIds' : Has(k, h, t)' =>
            \/ k = "held" /\ h = w /\ t = T
            \/ t # T /\ t \in TokenIds /\ Has(k, h, t) /\ tokens'[t].uses = tokens[t].uses
      BY <3>2
    <3>5. QED
      BY <2>1, <3>1, <3>3, <3>4, OwnerMoves
  <2>20. QED
    BY <2>1, <2>8, <2>15, <2>17, <2>18, <2>19 DEF CredentialsInv
<1>4. CASE inst.gen = pass[w].gen /\ LeaseExpired /\ cred' = Burned /\ Do(w, NotClaimed(w))
           /\ UNCHANGED leases
  BY <1>2, <1>4 DEF LeaseExpired
<1>5. QED
  BY <1>2, <1>3, <1>4 DEF ClaimRefresh

\* The token is shown, and has no place any more.
LEMMA SendRefreshStep ==
  ASSUME CredentialsInv, NEW w \in Workers, SendRefreshToken(w)
  PROVE  CredentialsInv'
<1>1. pass[w].at = "held" /\ UNCHANGED <<inst, cred, boots, states, rec, leases, newest>>
  BY DEF SendRefreshToken
<1>2. InstTypes' /\ LifecycleFits' /\ BootsMove /\ Types /\ CodesFit /\ OwnedOnce /\ HandlersFit
  BY <1>1, RowsKept
<1>3. pass[w] \in PassType /\ PassFits(w) /\ tokens \in Seq(PairType) /\ Len(tokens) \in Nat
      /\ TokenTypes
  BY <1>2 DEF Types, PassTypes, HandlersFit, TokenTypes
<1>4. PICK S, shown : S = pass[w].token /\ shown = [tokens EXCEPT ![pass[w].token].uses = @ + 1]
  OBVIOUS
<1>5. S \in TokenIds /\ tokens[S].gen = pass[w].gen /\ pass[w].got = 0 /\ Has("held", w, S)
  BY <1>1, <1>3, <1>4 DEF PassFits, PassType, Has
<1>6. "held" \in Kinds /\ "answer" \in Kinds /\ w \in Holders
  BY DEF Kinds, Holders
<1>7. tokens[S].uses = 0
  BY <1>2, <1>5, <1>6 DEF OwnedOnce
<1>8. /\ shown \in Seq(PairType) /\ Len(shown) = Len(tokens)
      /\ \A t \in TokenIds : shown[t].gen = tokens[t].gen /\ shown[t].parent = tokens[t].parent
      /\ \A t \in TokenIds \ {S} : shown[t] = tokens[t]
      /\ shown[S].uses = 1
  BY <1>3, <1>4, <1>5, <1>7, ShownToken
<1>9. ASSUME NEW k \in Kinds, NEW h \in Holders, NEW t, Has(k, h, t), ~(k = "held" /\ h = w)
      PROVE  t # S
  BY <1>2, <1>5, <1>6, <1>9 DEF OwnedOnce
<1>10. ASSUME NEW p \in PassType', pass' = [pass EXCEPT ![w] = p], p.at = "waiting",
              p.token = S, p.gen = pass[w].gen, p.lease = pass[w].lease,
              p.got # 0 => Issued(p.got, p.gen, S)', Grows, OwnedOnce'
       PROVE  CredentialsInv'
  <2>1. pass'[w] = p /\ \A v \in Workers \ {w} : pass'[v] = pass[v]
    BY <1>2, <1>10 DEF Types, PassTypes
  <2>2. PassFits(w)'
    BY <1>1, <1>3, <1>4, <1>10, <2>1 DEF PassFits, Issued
  <2>3. HandlersFit'
    BY <1>1, <1>2, <1>10, <2>1, <2>2, RecKept, FlowKept, PassKept
    DEF HandlersFit, BootsMove, RecFits
  <2>4. TokenIds \subseteq TokenIds'
    BY <1>3, <1>10 DEF Grows, TokenIds, TokenTypes
  <2>5. PassTypes'
    BY <1>1, <1>2, <1>10, <2>4 DEF Types, PassTypes, PassType
  <2>6. Types'
    BY <1>1, <1>2, <1>10, <2>5, TypesKept DEF Types, BootsMove, Grows
  <2>7. CodesFit'
    BY <1>1, <1>2, CodesKept DEF CodesFit
  <2>8. CredentialOfGeneration'
    BY <1>1, <1>2, <1>10 DEF Grows, CredentialsInv, CredentialOfGeneration, Types, CredTypes, CredType
  <2>9. QED
    BY <1>2, <1>10, <2>3, <2>6, <2>7, <2>8 DEF CredentialsInv
<1>11. CASE tokens' = shown /\ Do(w, [pass[w] EXCEPT !.at = "waiting"])
  <2>1. PICK p : p = [pass[w] EXCEPT !.at = "waiting"]
    OBVIOUS
  <2>2. TokenIds' = TokenIds
    BY <1>8, <1>11 DEF TokenIds
  <2>3. p \in PassType' /\ p.at = "waiting" /\ p.token = S /\ p.gen = pass[w].gen
        /\ p.lease = pass[w].lease /\ p.got = 0
    BY <1>1, <1>3, <1>4, <1>5, <2>1, <2>2 DEF PassType, PassSteps
  <2>4. pass' = [pass EXCEPT ![w] = p]
    BY <1>11, <2>1 DEF Do
  <2>5. Grows
    BY <1>1, <1>2, <1>3, <1>8, <1>11 DEF Grows, TokenTypes, Types, CredTypes
  <2>6. OwnedOnce'
    <3>1. pass'[w] = p /\ \A v \in Workers \ {w} : pass'[v] = pass[v]
      BY <1>2, <2>4 DEF Types, PassTypes
    <3>2. ASSUME NEW k \in Kinds, NEW h \in Holders, NEW t \in TokenIds', Has(k, h, t)'
          PROVE  t \in TokenIds /\ Has(k, h, t) /\ tokens'[t].uses = tokens[t].uses
      <4>1. Has(k, h, t) /\ ~(k = "held" /\ h = w) /\ t \in TokenIds
        BY <1>1, <2>2, <2>3, <3>1, <3>2 DEF Has, TokenIds
      <4>2. t # S
        BY <1>9, <4>1
      <4>3. QED
        BY <1>8, <1>11, <4>1, <4>2
    <3>3. \A t \in TokenIds' : tokens'[t].uses <= 1
      BY <1>2, <1>8, <1>11, <2>2 DEF OwnedOnce
    <3>4. QED
      BY <1>2, <3>2, <3>3, OwnersLess
  <2>7. QED
    BY <1>10, <2>3, <2>4, <2>5, <2>6
<1>12. CASE /\ Granted(S, tokens[S].gen, shown)
            /\ Do(w, [pass[w] EXCEPT !.at = "waiting", !.got = Len(tokens) + 1])
  <2>0. PICK T : T = Len(tokens) + 1
    OBVIOUS
  <2>1. S \in Nat /\ tokens[S].gen \in Nat
    BY <1>3, <1>5 DEF TokenIds, PassType
  <2>2. /\ TokenTypes' /\ Len(tokens') = T
        /\ \A t \in TokenIds : tokens'[t] = shown[t]
        /\ tokens'[T] = [parent |-> S, gen |-> tokens[S].gen, uses |-> 0]
    BY <1>3, <1>8, <1>12, <2>0, <2>1, GrantedLast
  <2>3. Grows
    BY <1>1, <1>2, <1>3, <1>8, <2>0, <2>2 DEF Grows, Types, CredTypes
  <2>4. T \in TokenIds' /\ T # 0 /\ TokenIds \subseteq TokenIds' /\ S # T
    BY <1>3, <1>5, <2>0, <2>2 DEF TokenIds
  <2>5. PICK p : p = [[pass[w] EXCEPT !.at = "waiting"] EXCEPT !.got = T]
    OBVIOUS
  <2>6. p \in PassType' /\ p.at = "waiting" /\ p.token = S /\ p.gen = pass[w].gen
        /\ p.lease = pass[w].lease /\ p.got = T
    <3>1. PICK q : q = [pass[w] EXCEPT !.at = "waiting"]
      OBVIOUS
    <3>2. q \in PassType' /\ q.at = "waiting" /\ q.token = S /\ q.gen = pass[w].gen
          /\ q.lease = pass[w].lease
      BY <1>1, <1>3, <1>4, <2>4, <3>1 DEF PassType, PassSteps
    <3>3. p = [q EXCEPT !.got = T]
      BY <2>5, <3>1
    <3>4. QED
      BY <2>4, <3>2, <3>3 DEF PassType
  <2>7. pass' = [pass EXCEPT ![w] = p]
    BY <1>3, <1>12, <2>0, <2>5 DEF Do
  <2>8. Issued(T, p.gen, S)'
    BY <1>5, <2>2, <2>6 DEF Issued
  <2>9. OwnedOnce'
    <3>1. pass'[w] = p /\ \A v \in Workers \ {w} : pass'[v] = pass[v]
      BY <1>2, <2>7 DEF Types, PassTypes
    <3>2. ASSUME NEW k \in Kinds, NEW h \in Holders, NEW t \in TokenIds', Has(k, h, t)',
                 ~(k = "answer" /\ h = w /\ t = T)
          PROVE  Has(k, h, t) /\ (t \in TokenIds => tokens'[t].uses = tokens[t].uses)
      <4>1. Has(k, h, t) /\ ~(k = "held" /\ h = w)
        BY <1>1, <2>6, <3>1, <3>2 DEF Has
      <4>2. t # S
        BY <1>9, <4>1
      <4>3. QED
        BY <1>8, <2>2, <4>1, <4>2
    <3>3. tokens'[T].uses = 0 /\ \A t \in TokenIds : tokens'[t].uses <= 1
      BY <1>2, <1>8, <2>2 DEF OwnedOnce
    <3>4. \A k \in Kinds, h \in Holders, t \in TokenIds' : Has(k, h, t)' =>
            \/ k = "answer" /\ h = w /\ t = T
            \/ Has(k, h, t) /\ (t \in TokenIds => tokens'[t].uses = tokens[t].uses)
      BY <3>2
    <3>5. QED
      BY <1>2, <1>6, <2>0, <2>2, <3>3, <3>4, OwnerNew
  <2>10. QED
    BY <1>10, <2>3, <2>6, <2>7, <2>8, <2>9
<1>13. QED
  BY <1>4, <1>11, <1>12 DEF SendRefreshToken

LEMMA RefreshAnswerStep ==
  ASSUME CredentialsInv, NEW w \in Workers, RefreshAnswer(w)
  PROVE  CredentialsInv'
<1>1. pass[w].at = "waiting" /\ UNCHANGED <<inst, cred, boots, states, rec, tokens, leases, newest>>
  BY DEF RefreshAnswer
<1>2. CASE Do(w, [pass[w] EXCEPT !.at = "fail"])
  <2>1. PICK p : p = [pass[w] EXCEPT !.at = "fail"]
    OBVIOUS
  <2>2. pass' = [pass EXCEPT ![w] = p]
    BY <1>2, <2>1 DEF Do
  <2>3. p \in PassType /\ p.at = "fail" /\ PassFits(w)'
    BY <2>1, <2>2, Defeated
  <2>4. QED
    BY <1>1, <2>2, <2>3, WorkerStep
<1>3. CASE pass[w].got # 0 /\ Do(w, [pass[w] EXCEPT !.at = "store"])
  <2>1. pass[w] \in PassType /\ PassFits(w) /\ pass \in [Workers -> PassType]
    BY DEF CredentialsInv, Types, PassTypes, HandlersFit
  <2>2. PICK p : p = [pass[w] EXCEPT !.at = "store"]
    OBVIOUS
  <2>3. /\ p \in PassType /\ p.at = "store" /\ p.got = pass[w].got
        /\ p.token = pass[w].token /\ p.lease = pass[w].lease /\ p.gen = pass[w].gen
    BY <2>1, <2>2 DEF PassType, PassSteps
  <2>4. pass' = [pass EXCEPT ![w] = p]
    BY <1>3, <2>2 DEF Do
  <2>5. pass'[w] = p
    BY <2>1, <2>4
  <2>6. PassFits(w)'
    BY <1>1, <1>3, <2>1, <2>3, <2>5 DEF PassFits, Issued
  <2>7. QED
    BY <1>1, <2>3, <2>4, <2>6, WorkerStep
<1>4. QED
  BY <1>2, <1>3 DEF RefreshAnswer

LEMMA FinalizeRefreshStep ==
  ASSUME CredentialsInv, NEW w \in Workers, FinalizeRefresh(w)
  PROVE  CredentialsInv'
<1>1. pass[w].at = "store" /\ UNCHANGED <<inst, boots, states, rec, tokens, leases, newest>>
  BY DEF FinalizeRefresh
<1>2. InstTypes' /\ LifecycleFits' /\ BootsMove /\ Types /\ CodesFit /\ OwnedOnce /\ HandlersFit
  BY <1>1, RowsKept
<1>3. PICK p : pass' = [pass EXCEPT ![w] = p] /\ (p = IdlePass \/ p = [pass[w] EXCEPT !.at = "fail"])
  BY DEF FinalizeRefresh, Do
<1>4. p \in PassType /\ p.at \in {"idle", "select", "claim", "recover", "fail"} /\ PassFits(w)'
  BY <1>3, Unburdened, Defeated
<1>5. CASE cred' = cred \/ (cred' = Burned /\ cred.state # "none")
  BY <1>1, <1>3, <1>4, <1>5, WorkerStep
<1>6. CASE ClaimCurrent(w) /\ cred' = Stored(pass[w].got)
  <2>1. pass[w] \in PassType /\ PassFits(w)
    BY <1>2 DEF Types, PassTypes, HandlersFit
  <2>2. PICK T : T = pass[w].got
    OBVIOUS
  <2>3. T \in TokenIds /\ tokens[T].gen = pass[w].gen /\ Eligible(pass[w].gen)
    BY <1>1, <1>6, <2>1, <2>2 DEF PassFits, PassType, Issued, ClaimCurrent
  <2>4. CredTypes' /\ CredentialOfGeneration'
        /\ cred'.state = "usable" /\ cred'.token = T /\ cred'.lease = 0
    BY <1>1, <1>2, <1>6, <2>2, <2>3, StoredFits
  <2>5. pass'[w] = p /\ \A v \in Workers \ {w} : pass'[v] = pass[v]
    BY <1>2, <1>3 DEF Types, PassTypes
  <2>6. Grows
    BY <1>1, <1>2, GrowsNot
  <2>7. PassTypes'
    BY <1>1, <1>2, <1>3, <1>4 DEF Types, PassTypes, PassType, TokenIds
  <2>8. Types'
    BY <1>1, <1>2, <2>4, <2>6, <2>7, TypesKept DEF Types, BootsMove, TokenTypes
  <2>9. HandlersFit'
    BY <1>1, <1>2, <1>4, <2>4, <2>5, <2>6, RecKept, FlowKept, PassKept
    DEF HandlersFit, BootsMove, RecFits
  <2>10. CodesFit'
    BY <1>1, <1>2, CodesKept DEF CodesFit
  <2>11. OwnedOnce'
    <3>1. Has("answer", w, T) /\ "answer" \in Kinds /\ w \in Holders
      BY <1>1, <2>2 DEF Has, Kinds, Holders
    <3>2. \A k \in Kinds \ {"row"}, h \in Holders, t \in TokenIds :
            Has(k, h, t)' => Has(k, h, t) /\ ~(k = "answer" /\ h = w)
      BY <1>1, <1>4, <2>5 DEF Has
    <3>3. QED
      BY <1>1, <1>2, <2>3, <2>4, <3>1, <3>2, OwnerStores
  <2>12. QED
    BY <1>2, <2>4, <2>8, <2>9, <2>10, <2>11 DEF CredentialsInv
<1>7. cred.state # "none" \/ ~ClaimCurrent(w)
  BY DEF ClaimCurrent
<1>8. QED
  BY <1>5, <1>6, <1>7 DEF FinalizeRefresh

LEMMA RefreshingStep ==
  ASSUME CredentialsInv, Refreshing
  PROVE  CredentialsInv'
  BY QuietWorkerStep, ClaimRefreshStep, SendRefreshStep, RefreshAnswerStep, FinalizeRefreshStep
  DEF Refreshing

-----------------------------------------------------------------------------
(* The theorems *)

\* What the row, the handlers and HighLevel know of every pair and every code,
\* for any number of each.
THEOREM CredentialsInvariant == Spec => []CredentialsInv
<1>1. ASSUME Init
      PROVE  CredentialsInv
  <2>1. Types
    BY <1>1, MaxTokensAssumption
    DEF Init, Types, InstTypes, InstType, CredTypes, CredType, BootTypes, BootType, FlowTypes,
        FlowType, RecTypes, RecType, PassTypes, PassType, TokenTypes, Without, RefreshStateCheck,
        NoBoot, NoState, IdleRec, IdlePass, Progressing, Failures, FlowSteps, RecSteps, PassSteps
  <2>2. LifecycleFits /\ CredentialOfGeneration
    BY <1>1 DEF Init, LifecycleFits, LifecycleConverges, CredentialOfGeneration, Without
  <2>3. HandlersFit
    BY <1>1 DEF Init, HandlersFit, RecFits, FlowFits, PassFits, IdleRec, IdlePass, NoState
  <2>4. CodesFit
    BY <1>1 DEF Init, CodesFit, NoBoot, IdleRec, Holds, Progressing, Early
  <2>5. OwnedOnce
    BY <1>1 DEF Init, OwnedOnce, TokenIds
  <2>6. QED
    BY <2>1, <2>2, <2>3, <2>4, <2>5 DEF CredentialsInv
<1>2. ASSUME CredentialsInv, Next
      PROVE  CredentialsInv'
  BY <1>2, InstallStep, UninstallStep, IgnoreStep, CallbackStep, ExchangingStep, ReconnectingStep,
     RefreshingStep, RowDeadlineStep, BootDeadlineStep DEF Next, Webhook, Deadline
<1>3. ASSUME CredentialsInv, UNCHANGED vars
      PROVE  CredentialsInv'
  <2>1. UNCHANGED <<inst, cred, boots, states, rec, pass, tokens, leases, newest>>
    BY <1>3 DEF vars
  <2>2. InstTypes' /\ LifecycleFits' /\ BootsMove /\ CredTypes' /\ CredentialOfGeneration'
    BY <1>3, <2>1, RowsKept DEF CredentialsInv, Types, CredTypes, CredType, TokenIds,
       RefreshStateCheck, CredentialOfGeneration
  <2>3. QED
    BY <1>3, <2>1, <2>2, RowStep
<1>4. QED
  BY <1>1, <1>2, <1>3, PTL DEF Spec

\* Rows, passes and pairs have their types, and the row its refresh_state_check.
THEOREM TypeCorrect == Spec => []TypeOK
<1>1. CredentialsInv => TypeOK
  BY DEF CredentialsInv, Types, TypeOK, InstTypes, InstType, CredTypes, CredType, BootTypes,
     BootType, FlowTypes, FlowType, RecTypes, RecType, PassTypes, PassType, TokenTypes, PairType
<1>2. QED
  BY <1>1, CredentialsInvariant, PTL

\* No refresh token and no authorization code is shown to HighLevel twice, and
\* the usable pair of the row was never shown.
THEOREM ShownOnce == Spec => []SingleUse
<1>1. ASSUME CredentialsInv
      PROVE  SingleUse
  <2>1. /\ \A t \in TokenIds : tokens[t].uses <= 1
        /\ \A b \in Bootstraps : boots[b].uses <= 1
    BY <1>1 DEF CredentialsInv, OwnedOnce, CodesFit
  <2>2. ASSUME cred.state = "usable"
        PROVE  tokens[cred.token].uses = 0
    <3>1. cred.token \in TokenIds
      BY <1>1, <2>2 DEF CredentialsInv, Types, CredTypes, CredType, RefreshStateCheck
    <3>2. Has("row", 0, cred.token) /\ "row" \in Kinds /\ 0 \in Holders
      BY <2>2 DEF Has, Kinds, Holders
    <3>3. QED
      BY <1>1, <3>1, <3>2 DEF CredentialsInv, OwnedOnce
  <2>3. QED
    BY <2>1, <2>2 DEF SingleUse
<1>2. QED
  BY <1>1, CredentialsInvariant, PTL

\* A stored pair belongs to the current generation of an installed Location.
THEOREM PairsAreCurrent == Spec => []CredentialOfGeneration
<1>1. CredentialsInv => CredentialOfGeneration
  BY DEF CredentialsInv
<1>2. QED
  BY <1>1, CredentialsInvariant, PTL

\* One generation has one bootstrap that holds or may have spent a code.
THEOREM BootstrapsAreAlone == Spec => []OneBurningBootstrap
<1>1. CredentialsInv => OneBurningBootstrap
  BY DEF CredentialsInv, CodesFit, Holds, OneBurningBootstrap
<1>2. QED
  BY <1>1, CredentialsInvariant, PTL

\* In every order of the webhooks the row stands where the newest one puts it.
THEOREM OrderIsIrrelevant == Spec => []LifecycleConverges
<1>1. CredentialsInv => LifecycleConverges
  BY DEF CredentialsInv, LifecycleFits
<1>2. QED
  BY <1>1, CredentialsInvariant, PTL

\* A rotation stores what was issued for the very token in the row.
THEOREM RotationsAreExact == Spec => RotationIsExact
<1> DEFINE Exact == \/ cred'.token \in {0, cred.token}
                    \/ tokens[cred'.token].parent \in {0, cred.token}
<1>1. ASSUME CredentialsInv, Next
      PROVE  Exact
  <2>1. Types /\ HandlersFit /\ cred \in CredType
    BY <1>1 DEF CredentialsInv, Types, CredTypes
  <2>2. CASE UNCHANGED cred \/ cred' = Burned \/ cred' = Scrubbed \/ cred' = Claimed
    BY <2>2 DEF Burned, Scrubbed, Without, Claimed
  <2>3. CASE ComesDue \/ LeaseRunsOut
    BY <2>1, <2>3 DEF ComesDue, LeaseRunsOut, CredType
  <2>4. ASSUME NEW c \in Reconcilers, rec[c].at = "store", cred' = Stored(rec[c].got)
        PROVE  Exact
    BY <2>1, <2>4 DEF HandlersFit, RecFits, Issued, Stored
  <2>5. ASSUME NEW r \in Reconnects, states[r].at = "persist", cred' = Stored(states[r].got)
        PROVE  Exact
    BY <2>1, <2>5 DEF HandlersFit, FlowFits, Issued, Stored
  <2>6. ASSUME NEW w \in Workers, pass[w].at = "store", ClaimCurrent(w), cred' = Stored(pass[w].got)
        PROVE  Exact
    <3>1. cred.lease # 0 /\ cred.lease = pass[w].lease
      BY <2>1, <2>6 DEF ClaimCurrent, Types, CredTypes, RefreshStateCheck
    <3>2. cred.token = pass[w].token /\ Issued(pass[w].got, pass[w].gen, pass[w].token)
      BY <2>1, <2>6, <3>1 DEF HandlersFit, PassFits
    <3>3. cred'.token = pass[w].got
      BY <2>6 DEF Stored
    <3>4. QED
      BY <3>2, <3>3 DEF Issued
  <2>7. CASE Webhook \/ \E b \in Bootstraps : AcceptCallback(b)
    BY <2>2, <2>7 DEF Webhook, Install, Uninstall, IgnoreEvent, AcceptCallback
  <2>8. CASE Exchanging
    BY <2>2, <2>4, <2>8 DEF Exchanging, ListRecoverable, ClaimExchange, RejectClaim, SendCode,
       CodeAnswer, FinalizeExchange, FailBootstrap, AbandonExchange
  <2>9. CASE Reconnecting
    BY <2>2, <2>5, <2>9 DEF Reconnecting, Initiate, ConsumeState, ExchangeReconnect, PersistInstalled
  <2>10. CASE Refreshing
    BY <2>2, <2>6, <2>10 DEF Refreshing, FindExpiredLease, FindCandidate, ClaimRefresh,
       RejectRefreshClaim, SendRefreshToken, RefreshAnswer, FinalizeRefresh, FailRefresh,
       AbandonRefresh
  <2>11. CASE Deadline
    BY <2>2, <2>3, <2>11 DEF Deadline, BootstrapRunsOut
  <2>12. QED
    BY <1>1, <2>7, <2>8, <2>9, <2>10, <2>11 DEF Next
<1>2. ASSUME UNCHANGED vars
      PROVE  Exact
  BY <1>2 DEF vars
<1>3. CredentialsInv /\ [Next]_vars => [Exact]_vars
  BY <1>1
<1>4. QED
  BY <1>3, CredentialsInvariant, PTL DEF Spec, RotationIsExact

-----------------------------------------------------------------------------
(* What the triggers admit *)

\* Writes of the credential columns in one generation.
LEMMA ColumnsAdmitted ==
  ASSUME CredentialsInv, UNCHANGED inst,
         \/ cred' = Burned /\ inst.status = "pending"
         \/ cred' = Claimed /\ cred.state = "usable"
         \/ \E t : cred' = Stored(t) /\ inst.status = "pending"
  PROVE  LifecycleAdmitted(inst, inst') /\ CredentialAdmitted(inst, inst', cred, cred')
<1>1. inst \in InstType /\ cred \in CredType /\ RefreshStateCheck(cred)
  BY DEF CredentialsInv, Types, InstTypes, CredTypes
<1>2. LifecycleAdmitted(inst, inst')
  <2>1. inst.status # "absent" => EventAt[inst.latest] \in Nat
    BY EventsAssumption DEF CredentialsInv, LifecycleFits
  <2>2. QED
    BY <1>1, <2>1 DEF LifecycleAdmitted, InstType
<1>3. inst.status = "pending"
  BY <1>1 DEF CredentialsInv, CredentialOfGeneration, RefreshStateCheck
<1>4. CASE cred' = Burned
  BY <1>1, <1>2, <1>3, <1>4 DEF CredentialAdmitted, Burned, Without, CredType
<1>5. CASE cred' = Claimed /\ cred.state = "usable"
  BY <1>1, <1>2, <1>3, <1>5 DEF CredentialAdmitted, Claimed, CredType
<1>6. ASSUME NEW t, cred' = Stored(t)
      PROVE  CredentialAdmitted(inst, inst', cred, cred')
  BY <1>1, <1>3, <1>6 DEF CredentialAdmitted, Stored, CredType
<1>7. QED
  BY <1>2, <1>4, <1>5, <1>6

\* A flag is no column.
LEMMA FlagsAreNoColumns ==
  ASSUME NEW row, NEW flag, NEW n, NEW new,
         \/ new = [row EXCEPT !.over = flag]
         \/ new = [row EXCEPT !.due = flag]
         \/ new = [row EXCEPT !.uses = n]
  PROVE  Columns(new) = Columns(row)
<1>1. DOMAIN new = DOMAIN row
  OBVIOUS
<1>2. \A field \in DOMAIN row \ {"due", "over", "uses"} : new[field] = row[field]
  OBVIOUS
<1>3. QED
  BY <1>1, <1>2 DEF Columns

\* Lifecycle events write what the trigger on installations admits.
LEMMA WebhookAdmitted ==
  ASSUME CredentialsInv, NEW e \in Events, Install(e) \/ Uninstall(e)
  PROVE  LifecycleAdmitted(inst, inst') /\ CredentialAdmitted(inst, inst', cred, cred')
<1>1. inst \in InstType /\ cred \in CredType /\ RefreshStateCheck(cred) /\ CredentialOfGeneration
  BY DEF CredentialsInv, Types, InstTypes, CredTypes
<1>2. Outcome(e) = "applied"
  BY DEF Install, Uninstall
<1>3. CASE Install(e)
  <2>1. inst' = Installed(e) /\ cred' = cred /\ EventType[e] = "INSTALL"
    BY <1>3 DEF Install
  <2>2. CASE inst.status # "absent"
    <3>1. ~TriggerRefuses(e)
      BY <1>2, <2>2 DEF Outcome
    <3>2. QED
      BY <2>1, <3>1 DEF TriggerRefuses
  <2>3. CASE inst.status = "absent"
    <3>1. inst'.status = "pending"
      BY <2>1 DEF Installed
    <3>2. QED
      BY <1>1, <2>1, <2>3, <3>1
      DEF LifecycleAdmitted, CredentialAdmitted, CredType, CredentialOfGeneration, RefreshStateCheck
  <2>4. QED
    BY <2>2, <2>3
<1>4. CASE Uninstall(e)
  <2>1. /\ inst'.status = "uninstalled" /\ inst'.latest = e
        /\ inst'.gen \in {inst.gen, inst.gen + 1}
        /\ cred'.state = "none" /\ cred'.revision = cred.revision
    BY <1>4 DEF Uninstall, Scrubbed, Without
  <2>2. CredentialAdmitted(inst, inst', cred, cred')
    BY <1>1, <2>1 DEF CredentialAdmitted, CredType
  <2>3. inst.status # "absent" => EventAt[e] > EventAt[inst.latest] /\ EventAt[inst.latest] \in Nat
    BY <1>2, AppliedIsNewer, EventsAssumption DEF CredentialsInv, LifecycleFits, LifecycleConverges
  <2>4. EventAt[e] \in Nat
    BY EventsAssumption
  <2>5. LifecycleAdmitted(inst, inst')
    BY <1>1, <2>1, <2>3, <2>4 DEF LifecycleAdmitted, InstType
  <2>6. QED
    BY <2>2, <2>5
<1>5. QED
  BY <1>3, <1>4

\* An unfinished bootstrap may fail.
LEMMA FailureAdmitted ==
  ASSUME BootTypes, NEW b \in Bootstraps, NEW f \in Failures,
         boots[b].status \in {"waiting_install", "ready", "exchanging"}
  PROVE  BootstrapAdmitted(boots[b], FailedBoot(b, f))
  BY FailedRow DEF BootstrapAdmitted, BootstrapMoves

LEMMA RecoveryAdmitted ==
  ASSUME BootTypes, NEW b \in Bootstraps, Recovered[b] # boots[b]
  PROVE  BootstrapAdmitted(boots[b], Recovered[b])
  BY RecoveredRow, FailureAdmitted

LEMMA CallbackAdmitted ==
  ASSUME CredentialsInv, NEW b \in Bootstraps, AcceptCallback(b), NEW a \in Bootstraps,
         boots'[a] # boots[a]
  PROVE  BootstrapAdmitted(boots[a], boots'[a])
<1>1. BootTypes
  BY DEF CredentialsInv, Types
<1>2. CASE boots' = Recovered
  BY <1>1, <1>2, RecoveryAdmitted
<1>3. CASE boots' # Recovered
  <2>1. boots'[a] =
          IF a = b
          THEN [NoBoot EXCEPT !.status = IF Eligible(inst.gen) THEN "ready" ELSE "waiting_install",
                              !.target = CallbackTarget]
          ELSE IF /\ Recovered[a].target = CallbackTarget
                  /\ Recovered[a].status \in {"waiting_install", "ready"}
          THEN FailedBoot(a, "definite")
          ELSE Recovered[a]
    BY <1>3 DEF AcceptCallback
  <2>2. CASE a = b
    <3>1. boots'[a].status \in {"waiting_install", "ready"} /\ boots'[a].failure = "none"
      BY <2>1, <2>2 DEF NoBoot
    <3>2. QED
      BY <2>2, <3>1 DEF BootstrapAdmitted, AcceptCallback
  <2>3. CASE /\ a # b
             /\ Recovered[a].status \in {"waiting_install", "ready"}
             /\ boots'[a] = FailedBoot(a, "definite")
    <3>1. Recovered[a] = boots[a]
      BY <1>1, <2>3, RecoveredRow, FailedRow
    <3>2. "definite" \in Failures
      BY DEF Failures
    <3>3. QED
      BY <1>1, <2>3, <3>1, <3>2, FailureAdmitted
  <2>4. CASE boots'[a] = Recovered[a]
    BY <1>1, <2>4, RecoveryAdmitted
  <2>5. QED
    BY <2>1, <2>2, <2>3, <2>4
<1>4. QED
  BY <1>2, <1>3

\* What a reconciler writes in a bootstrap.
LEMMA ExchangingAdmitted ==
  ASSUME CredentialsInv, NEW c \in Reconcilers, NEW a \in Bootstraps, Columns(boots'[a]) # Columns(boots[a]),
         \/ ListRecoverable(c) \/ ClaimExchange(c) \/ RejectClaim(c) \/ SendCode(c)
         \/ CodeAnswer(c) \/ FinalizeExchange(c) \/ FailBootstrap(c) \/ AbandonExchange(c)
  PROVE  BootstrapAdmitted(boots[a], boots'[a])
<1>1. /\ BootTypes /\ boots[a] \in BootType /\ boots'[a] # boots[a]
      /\ RecFits(c) /\ rec[c] \in RecType /\ boots \in [Bootstraps -> BootType]
  BY DEF CredentialsInv, Types, BootTypes, HandlersFit, RecTypes
<1>2. CASE ListRecoverable(c)
  BY <1>1, <1>2, RecoveryAdmitted DEF ListRecoverable
<1>3. CASE ClaimExchange(c)
  <2>1. PICK b \in Bootstraps : Claimable(b) /\ boots' = [boots EXCEPT ![b].status = "exchanging"]
    BY <1>1, <1>3 DEF ClaimExchange, RecType
  <2>2. a = b
    BY <1>1, <2>1
  <2>3. boots[a].status = "ready" /\ boots'[a].status = "exchanging"
        /\ boots'[a].target = boots[a].target
    BY <1>1, <2>1, <2>2 DEF Claimable, BootType
  <2>4. QED
    BY <2>3 DEF BootstrapAdmitted, BootstrapMoves
<1>4. CASE SendCode(c)
  <2>1. boots' = [boots EXCEPT ![rec[c].boot].uses = @ + 1]
    BY <1>4 DEF SendCode
  <2>2. a = rec[c].boot
    BY <1>1, <2>1
  <2>3. boots'[a] = [boots[a] EXCEPT !.uses = boots[a].uses + 1]
    BY <1>1, <2>1, <2>2
  <2>4. QED
    BY <2>3, FlagsAreNoColumns
<1>5. CASE FinalizeExchange(c)
  <2>1. /\ ExchangeCurrent(rec[c].boot)
        /\ boots' = [boots EXCEPT ![rec[c].boot].status = "succeeded", ![rec[c].boot].over = FALSE]
    BY <1>1, <1>5 DEF FinalizeExchange
  <2>2. PICK row : row = [[boots[rec[c].boot] EXCEPT !.status = "succeeded"] EXCEPT !.over = FALSE]
    OBVIOUS
  <2>3. boots' = [boots EXCEPT ![rec[c].boot] = row]
    BY <1>1, <2>1, <2>2
  <2>4. a = rec[c].boot /\ boots'[a] = row
    BY <1>1, <2>3
  <2>5. row.status = "succeeded" /\ row.target = boots[a].target
    BY <1>1, <2>2, <2>4 DEF BootType
  <2>6. boots[a].status = "exchanging" /\ boots'[a].status = "succeeded"
        /\ boots'[a].target = boots[a].target
    BY <2>1, <2>4, <2>5 DEF ExchangeCurrent
  <2>7. QED
    BY <2>6 DEF BootstrapAdmitted, BootstrapMoves
<1>6. CASE FailBootstrap(c)
  <2>1. /\ boots[rec[c].boot].status \in {"waiting_install", "ready", "exchanging"}
        /\ boots' = [boots EXCEPT ![rec[c].boot] = FailedBoot(rec[c].boot, rec[c].failure)]
    BY <1>1, <1>6 DEF FailBootstrap
  <2>2. a = rec[c].boot /\ boots'[a] = FailedBoot(a, rec[c].failure) /\ rec[c].failure \in Failures
    BY <1>1, <2>1 DEF RecType
  <2>3. QED
    BY <1>1, <2>1, <2>2, FailureAdmitted
<1>7. CASE RejectClaim(c) \/ CodeAnswer(c) \/ AbandonExchange(c)
  BY <1>1, <1>7 DEF RejectClaim, CodeAnswer, AbandonExchange
<1>8. QED
  BY <1>2, <1>3, <1>4, <1>5, <1>6, <1>7

\* What the lifecycle and the deadlines write in a bootstrap.
LEMMA OthersAdmitted ==
  ASSUME CredentialsInv, NEW a \in Bootstraps, Columns(boots'[a]) # Columns(boots[a]),
         \/ \E e \in Events : Install(e) \/ Uninstall(e)
         \/ \E b \in Bootstraps : BootstrapRunsOut(b)
  PROVE  BootstrapAdmitted(boots[a], boots'[a])
<1>1. BootTypes /\ boots[a] \in BootType /\ boots'[a] # boots[a] /\ boots \in [Bootstraps -> BootType]
  BY DEF CredentialsInv, Types, BootTypes
<1>2. ASSUME NEW g, boots' = Rendezvous(g)
      PROVE  BootstrapAdmitted(boots[a], boots'[a])
  <2>1. boots[a].status = "waiting_install" /\ boots'[a] = [boots[a] EXCEPT !.status = "ready"]
    BY <1>1, <1>2 DEF Rendezvous
  <2>2. QED
    BY <1>1, <2>1 DEF BootstrapAdmitted, BootstrapMoves, BootType
<1>3. ASSUME NEW g, boots' = Invalidated(g)
      PROVE  BootstrapAdmitted(boots[a], boots'[a])
  <2>1. /\ boots[a].status \in {"waiting_install", "ready", "exchanging"}
        /\ boots'[a] = FailedBoot(a, "definite") /\ "definite" \in Failures
    BY <1>1, <1>3 DEF Invalidated, Failures
  <2>2. QED
    BY <1>1, <2>1, FailureAdmitted
<1>4. ASSUME NEW b \in Bootstraps, BootstrapRunsOut(b)
      PROVE  BootstrapAdmitted(boots[a], boots'[a])
  <2>1. boots'[a] = [boots[a] EXCEPT !.over = TRUE]
    BY <1>1, <1>4 DEF BootstrapRunsOut
  <2>2. QED
    BY <2>1, FlagsAreNoColumns
<1>5. QED
  BY <1>2, <1>3, <1>4 DEF Install, Uninstall

\* No call is refused by the trigger or the check constraint of the table it writes.
THEOREM WritesAreAdmitted == Spec => RowsAdmitted
<1> DEFINE RowAdmitted ==
             inst' # inst \/ Columns(cred') # Columns(cred) =>
               LifecycleAdmitted(inst, inst') /\ CredentialAdmitted(inst, inst', cred, cred')
           BootsAdmitted ==
             \A b \in Bootstraps :
               Columns(boots'[b]) # Columns(boots[b]) => BootstrapAdmitted(boots[b], boots'[b])
<1>1. ASSUME CredentialsInv, Next
      PROVE  RowAdmitted
  <2>1. CASE UNCHANGED <<inst, cred>>
    BY <2>1
  <2>2. CASE UNCHANGED inst /\ (\/ cred' = Burned /\ inst.status = "pending"
                                \/ cred' = Claimed /\ cred.state = "usable"
                                \/ \E t : cred' = Stored(t) /\ inst.status = "pending")
    BY <1>1, <2>2, ColumnsAdmitted
  <2>3. CASE ComesDue \/ LeaseRunsOut
    BY <2>3, FlagsAreNoColumns DEF ComesDue, LeaseRunsOut
  <2>4. CASE Webhook \/ \E b \in Bootstraps : AcceptCallback(b)
    BY <1>1, <2>1, <2>4, WebhookAdmitted DEF Webhook, IgnoreEvent, AcceptCallback
  <2>5. CASE Exchanging
    BY <2>1, <2>2, <2>5 DEF Exchanging, ListRecoverable, ClaimExchange, RejectClaim, SendCode,
       CodeAnswer, FinalizeExchange, FailBootstrap, AbandonExchange, ExchangeCurrent, Eligible,
       Failing
  <2>6. CASE Reconnecting
    BY <2>1, <2>2, <2>6 DEF Reconnecting, Initiate, ConsumeState, ExchangeReconnect,
       PersistInstalled, Eligible
  <2>7. CASE Refreshing
    <3>1. cred.state = "refreshing" => inst.status = "pending"
      BY <1>1 DEF CredentialsInv, Types, CredTypes, RefreshStateCheck, CredentialOfGeneration
    <3>2. QED
      BY <2>1, <2>2, <2>7, <3>1 DEF Refreshing, FindExpiredLease, FindCandidate, ClaimRefresh,
         RejectRefreshClaim, SendRefreshToken, RefreshAnswer, FinalizeRefresh, FailRefresh,
         AbandonRefresh, LeaseExpired, Due, ClaimCurrent, Eligible
  <2>8. CASE Deadline
    BY <2>1, <2>3, <2>8 DEF Deadline, BootstrapRunsOut
  <2>9. QED
    BY <1>1, <2>4, <2>5, <2>6, <2>7, <2>8 DEF Next
<1>2. ASSUME CredentialsInv, Next
      PROVE  BootsAdmitted
  <2>1. SUFFICES ASSUME NEW a \in Bootstraps, Columns(boots'[a]) # Columns(boots[a])
                 PROVE  BootstrapAdmitted(boots[a], boots'[a])
    OBVIOUS
  <2>2. boots' # boots
    BY <2>1
  <2>3. CASE Reconnecting \/ Refreshing \/ ComesDue \/ LeaseRunsOut \/ \E e \in Events : IgnoreEvent(e)
    BY <2>2, <2>3 DEF Reconnecting, Initiate, ConsumeState, ExchangeReconnect, PersistInstalled,
       Refreshing, FindExpiredLease, FindCandidate, ClaimRefresh, RejectRefreshClaim,
       SendRefreshToken, RefreshAnswer, FinalizeRefresh, FailRefresh, AbandonRefresh, ComesDue,
       LeaseRunsOut, IgnoreEvent
  <2>4. CASE \E b \in Bootstraps : AcceptCallback(b)
    BY <1>2, <2>1, <2>4, CallbackAdmitted
  <2>5. CASE Exchanging
    BY <1>2, <2>1, <2>5, ExchangingAdmitted DEF Exchanging
  <2>6. CASE \/ \E e \in Events : Install(e) \/ Uninstall(e)
             \/ \E b \in Bootstraps : BootstrapRunsOut(b)
    BY <1>2, <2>1, <2>6, OthersAdmitted
  <2>7. QED
    BY <1>2, <2>3, <2>4, <2>5, <2>6 DEF Next, Webhook, Deadline
<1> DEFINE ChecksPass ==
             inst' # inst \/ Columns(cred') # Columns(cred) =>
               /\ LifecycleAdmitted(inst, inst')
               /\ CredentialAdmitted(inst, inst', cred, cred')
               /\ RefreshStateCheck(cred')
<1>3. CredentialsInv' => RefreshStateCheck(cred')
  BY DEF CredentialsInv, Types, CredTypes
<1>4. CredentialsInv /\ CredentialsInv' /\ [Next]_vars => [ChecksPass /\ BootsAdmitted]_vars
  BY <1>1, <1>2, <1>3
<1>5. QED
  BY <1>4, CredentialsInvariant, PTL DEF Spec, RowsAdmitted
=============================================================================
