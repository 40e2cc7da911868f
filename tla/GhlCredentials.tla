--------------------------- MODULE GhlCredentials ---------------------------
(***************************************************************************)
(* The HighLevel credentials of the EVERY8D installation of one Location:  *)
(* the row of ghl_marketplace_installations with its lifecycle and its     *)
(* credential state, the public OAuth bootstraps, the OAuth states of an   *)
(* installed reconnection, the reconciler passes that exchange             *)
(* authorization codes and the refresh passes that exchange refresh        *)
(* tokens.                                                                 *)
(*                                                                         *)
(* Every SQL function runs under the Location's advisory lock or the lock  *)
(* of the installation row, so a call is one step.  Between two calls of a *)
(* pass anything may happen.  A deadline (the five minutes of a lease, the *)
(* two minutes of an exchange, the life of a bootstrap, the due time of a  *)
(* token) is a flag an action of its own raises at any moment, which       *)
(* includes every relation the clocks of the database and of the processes *)
(* can have.                                                               *)
(***************************************************************************)
EXTENDS Integers, Sequences, FiniteSets

CONSTANTS
  EventType,    \* the lifecycle events HighLevel sends: <<type of event 1, ...>>
  EventAt,      \* and their timestamps; two events may have the same one
  Bootstraps,   \* callbacks of the public first-install path
  Reconnects,   \* OAuth states of the installed path
  Reconcilers,  \* processes that run the OAuth reconciler
  Workers,      \* processes that run the refresh reconciler
  MaxTokens     \* bound: token pairs HighLevel issues

Events == DOMAIN EventType

ASSUME EventsAssumption ==
  /\ EventType \in Seq({"INSTALL", "UNINSTALL"})
  /\ EventAt \in [Events -> Nat]

ASSUME MaxTokensAssumption == MaxTokens \in Nat

VARIABLES
  inst,     \* lifecycle columns of the installation row
  cred,     \* credential columns of the installation row
  boots,    \* ghl_marketplace_oauth_bootstraps
  states,   \* ghl_marketplace_oauth_states, with the flow that consumes each
  rec,      \* the OAuth reconciler pass of each process
  pass,     \* the refresh pass of each process
  tokens,   \* every token pair HighLevel has issued, in order
  leases,   \* leases granted so far: gen_random_uuid never repeats one
  newest    \* timestamp of the newest lifecycle event answered with an outcome

vars == <<inst, cred, boots, states, rec, pass, tokens, leases, newest>>

-----------------------------------------------------------------------------
(* The rows *)

Failures == {"none", "definite", "exchange_outcome_unknown", "credential_persistence_failed"}
Progressing == {"waiting_install", "ready", "exchanging", "succeeded"}

\* Credential columns without an encrypted pair: never authorized, scrubbed
\* by UNINSTALL, or burned.
Without(state, revision) ==
  [state |-> state, revision |-> revision, token |-> 0, due |-> FALSE, lease |-> 0, over |-> FALSE]

\* A pair is stored by advancing the revision once and clearing every lease.
Stored(t) ==
  [state |-> "usable", revision |-> cred.revision + 1, token |-> t,
   due |-> FALSE, lease |-> 0, over |-> FALSE]

\* A claim keeps the pair and the revision and takes a fresh lease.
Claimed ==
  [state |-> "refreshing", revision |-> cred.revision, token |-> cred.token,
   due |-> cred.due, lease |-> leases + 1, over |-> FALSE]

\* Mutant: an expired lease is handed back for another try.
Burned_Retried ==
  [state |-> "usable", revision |-> cred.revision, token |-> cred.token,
   due |-> TRUE, lease |-> 0, over |-> FALSE]

\* The outcome of a single-use exchange is unknown or bad: scrub the pair.
Burned == Without("reauth_required", cred.revision)

NoOne == "none"

NoBoot == [status |-> "none", target |-> 0, over |-> FALSE, failure |-> "none", uses |-> 0]

FailedBoot(b, failure) ==
  [boots[b] EXCEPT !.status = "failed", !.over = FALSE, !.failure = failure]

IdleRec == [at |-> "idle", todo |-> {}, boot |-> NoOne, got |-> 0, failure |-> "none"]

IdlePass ==
  [at |-> "idle", gen |-> 0, revision |-> 0, lease |-> 0, token |-> 0, got |-> 0,
   recovering |-> FALSE]

NoState == [at |-> "none", gen |-> 0, got |-> 0]

RecSteps == {"idle", "next", "held", "waiting", "store", "fail"}
PassSteps == {"idle", "recover", "select", "claim", "held", "waiting", "store", "fail"}
FlowSteps == {"none", "started", "consumed", "persist", "done"}

TokenIds == 1..Len(tokens)

\* refresh_state_check: a lease exactly while refreshing, a pair exactly while
\* usable or refreshing, a revision once there was a pair.
RefreshStateCheck(row) ==
  /\ row.lease # 0 <=> row.state = "refreshing"
  /\ row.token # 0 <=> row.state \in {"usable", "refreshing"}
  /\ row.state # "none" => row.revision > 0

\* Rows and passes have their types, and the credentials keep their constraint.
TypeOK ==
  /\ inst \in [status: {"absent", "pending", "uninstalled"}, gen: Nat, latest: Events \cup {0}]
  /\ cred \in [state: {"none", "usable", "refreshing", "reauth_required"}, revision: Nat,
               token: TokenIds \cup {0}, due: BOOLEAN, lease: 0..leases, over: BOOLEAN]
  /\ RefreshStateCheck(cred)
  /\ boots \in [Bootstraps -> [status: Progressing \cup {"none", "failed"}, target: Nat,
                               over: BOOLEAN, failure: Failures, uses: Nat]]
  /\ states \in [Reconnects -> [at: FlowSteps, gen: Nat, got: TokenIds \cup {0}]]
  /\ rec \in [Reconcilers -> [at: RecSteps, todo: SUBSET Bootstraps, boot: Bootstraps \cup {NoOne},
                              got: TokenIds \cup {0}, failure: Failures]]
  /\ pass \in [Workers -> [at: PassSteps, gen: Nat, revision: Nat, lease: 0..leases,
                           token: TokenIds \cup {0}, got: TokenIds \cup {0}, recovering: BOOLEAN]]
  /\ tokens \in Seq([parent: Nat, gen: Nat, uses: Nat])
  /\ Len(tokens) <= MaxTokens
  /\ leases \in Nat
  /\ newest \in Nat

Init ==
  /\ inst = [status |-> "absent", gen |-> 0, latest |-> 0]
  /\ cred = Without("none", 0)
  /\ boots = [b \in Bootstraps |-> NoBoot]
  /\ states = [r \in Reconnects |-> NoState]
  /\ rec = [c \in Reconcilers |-> IdleRec]
  /\ pass = [w \in Workers |-> IdlePass]
  /\ tokens = <<>>
  /\ leases = 0
  /\ newest = 0

-----------------------------------------------------------------------------
(* Lifecycle webhooks *)

\* Mutant: the generation of the caller is not compared.
Eligible_AnyGeneration(g) ==
  /\ inst.status = "pending"
  /\ EventType[inst.latest] = "INSTALL"

\* The installation row is eligible for authorization in generation g.
Eligible(g) ==
  /\ inst.status = "pending"
  /\ inst.gen = g
  /\ EventType[inst.latest] = "INSTALL"

\* Mutant: only an event with another identity counts as older.
Stale_Never(e) == FALSE

\* Older than the watermark of the row.
Stale(e) == EventAt[e] < EventAt[inst.latest]

\* Reactivation after UNINSTALL is a new generation.
InstalledGeneration ==
  CASE inst.status = "absent" -> 1
    [] inst.status = "uninstalled" -> inst.gen + 1
    [] OTHER -> inst.gen

\* An INSTALL rewrites the lifecycle columns and keeps the credential columns.
Installed(e) == [status |-> "pending", gen |-> InstalledGeneration, latest |-> e]

\* Mutant: UNINSTALL asks for a new authorization as a failed refresh does.
Scrubbed_Burned == Without("reauth_required", cred.revision)

\* UNINSTALL scrubs the credential columns and keeps the revision.
Scrubbed == Without("none", cred.revision)

\* What the trigger on installations demands of the lifecycle columns: the
\* generation moves by one, a reactivation moves it, the watermark never goes
\* back and an event at its time is the same event.
LifecycleAdmitted(old, new) ==
  old.status # "absent" =>
    /\ new.gen \in {old.gen, old.gen + 1}
    /\ old.status = "uninstalled" /\ new.status = "pending" => new.gen = old.gen + 1
    /\ EventAt[new.latest] >= EventAt[old.latest]
    /\ EventAt[new.latest] = EventAt[old.latest] => new.latest = old.latest

\* What it demands of the credential columns: a revision per pair, no pair or
\* lease over a change of generation or an UNINSTALL, and a row is written as
\* refreshing only when it was usable.
CredentialAdmitted(oldInst, newInst, old, new) ==
  /\ new.revision \in {old.revision, old.revision + 1}
  /\ oldInst.status # "absent" /\ newInst.gen # oldInst.gen => new.state = "none"
  /\ old.state = "refreshing" /\ new.state = "usable" => new.revision = old.revision + 1
  /\ new.state = "refreshing" => old.state = "usable" /\ new.revision = old.revision
  /\ newInst.status = "uninstalled" => new.state = "none"

\* So it refuses an INSTALL that meets a refresh under its lease.
TriggerRefuses(e) ==
  /\ EventType[e] = "INSTALL"
  /\ ~ /\ LifecycleAdmitted(inst, Installed(e))
       /\ CredentialAdmitted(inst, Installed(e), cred, cred)

\* What the lifecycle function answers to the webhook of event e.
Outcome(e) ==
  CASE inst.status = "absent" -> IF EventType[e] = "INSTALL" THEN "applied" ELSE "raised"
    [] inst.status # "absent" /\ Stale(e) -> "stale_ignored"
    [] inst.status # "absent" /\ ~Stale(e) /\ EventAt[e] = EventAt[inst.latest] ->
         IF e = inst.latest THEN "exact_replay" ELSE "raised"
    [] OTHER -> IF TriggerRefuses(e) THEN "raised" ELSE "applied"

Answered(e) == newest' = IF EventAt[e] > newest THEN EventAt[e] ELSE newest

\* INSTALL makes one waiting bootstrap of the generation ready.
Rendezvous(g) ==
  [b \in Bootstraps |->
    IF boots[b].status = "waiting_install" /\ boots[b].target = g /\ ~boots[b].over
    THEN [boots[b] EXCEPT !.status = "ready"] ELSE boots[b]]

\* UNINSTALL fails the unfinished bootstraps of the generation it ends.
Invalidated(g) ==
  [b \in Bootstraps |->
    IF boots[b].status \in {"waiting_install", "ready", "exchanging"} /\ boots[b].target = g
    THEN FailedBoot(b, "definite") ELSE boots[b]]

Install(e) ==
  /\ EventType[e] = "INSTALL"
  /\ Outcome(e) = "applied"
  /\ inst' = Installed(e)
  /\ boots' = Rendezvous(InstalledGeneration)
  /\ Answered(e)
  /\ UNCHANGED <<cred, states, rec, pass, tokens, leases>>

Uninstall(e) ==
  /\ EventType[e] = "UNINSTALL"
  /\ Outcome(e) = "applied"
  /\ inst' = [status |-> "uninstalled",
              gen |-> IF inst.status = "uninstalled" THEN inst.gen ELSE inst.gen + 1,
              latest |-> e]
  /\ cred' = Scrubbed
  /\ boots' = Invalidated(inst.gen)
  /\ Answered(e)
  /\ UNCHANGED <<states, rec, pass, tokens, leases>>

\* A stale or repeated event is answered and changes no row.
IgnoreEvent(e) ==
  /\ Outcome(e) \in {"stale_ignored", "exact_replay"}
  /\ Answered(e)
  /\ UNCHANGED <<inst, cred, boots, states, rec, pass, tokens, leases>>

-----------------------------------------------------------------------------
(* The public bootstrap: callbacks, and the two updates every reader of the *)
(* table makes first                                                        *)

Recovered ==
  [b \in Bootstraps |->
    CASE boots[b].over /\ boots[b].status \in {"waiting_install", "ready"} -> FailedBoot(b, "definite")
      [] boots[b].over /\ boots[b].status = "exchanging" -> FailedBoot(b, "exchange_outcome_unknown")
      [] OTHER -> boots[b]]

\* Mutant: a pair that could not be stored does not burn its generation.
Burning_UnlessUnpersisted(boot) ==
  \/ boot.status \in {"exchanging", "succeeded"}
  \/ boot.status = "failed" /\ boot.failure = "exchange_outcome_unknown"

\* A bootstrap that may have spent its code without a definite refusal: its
\* generation admits no other.
Burning(boot) ==
  \/ boot.status \in {"exchanging", "succeeded"}
  \/ /\ boot.status = "failed"
     /\ boot.failure \in {"exchange_outcome_unknown", "credential_persistence_failed"}

CallbackTarget == IF inst.status = "pending" THEN inst.gen ELSE inst.gen + 1

\* A callback with a fresh state: it replaces a waiting or ready bootstrap of
\* its generation, and is refused (keeping the recovery) when one burned it.
AcceptCallback(b) ==
  /\ boots[b].status = "none"
  /\ boots' =
       IF \E other \in Bootstraps : Recovered[other].target = CallbackTarget /\ Burning(Recovered[other])
       THEN Recovered
       ELSE [other \in Bootstraps |->
              IF other = b
              THEN [NoBoot EXCEPT !.status = IF Eligible(inst.gen) THEN "ready" ELSE "waiting_install",
                                  !.target = CallbackTarget]
              ELSE IF /\ Recovered[other].target = CallbackTarget
                      /\ Recovered[other].status \in {"waiting_install", "ready"}
              THEN FailedBoot(other, "definite")
              ELSE Recovered[other]]
  /\ UNCHANGED <<inst, cred, states, rec, pass, tokens, leases, newest>>

-----------------------------------------------------------------------------
(* A pass of the OAuth reconciler *)

Go(c, step) == rec' = [rec EXCEPT ![c] = step]

\* The next bootstrap of the list, or the end of the pass.
NextOf(todo) == IF todo = {} THEN IdleRec ELSE [IdleRec EXCEPT !.at = "next", !.todo = todo]

ListRecoverable(c) ==
  /\ rec[c].at = "idle"
  /\ boots' = Recovered
  /\ Go(c, NextOf({b \in Bootstraps : Recovered[b].status = "ready"}))
  /\ UNCHANGED <<inst, cred, states, pass, tokens, leases, newest>>

\* The winner of ready -> exchanging, checked against the installation.
Claimable(b) ==
  /\ boots[b].status = "ready"
  /\ ~boots[b].over
  /\ Eligible(boots[b].target)
  /\ \A other \in Bootstraps \ {b} : boots[other].target = boots[b].target => ~Burning(boots[other])

ClaimExchange(c) ==
  /\ rec[c].at = "next"
  /\ \E b \in rec[c].todo :
       IF Claimable(b)
       THEN /\ boots' = [boots EXCEPT ![b].status = "exchanging"]
            /\ Go(c, [IdleRec EXCEPT !.at = "held", !.todo = rec[c].todo \ {b}, !.boot = b])
       ELSE /\ boots' = boots
            /\ Go(c, NextOf(rec[c].todo \ {b}))
  /\ UNCHANGED <<inst, cred, states, pass, tokens, leases, newest>>

Failing(c, failure) == Go(c, [rec[c] EXCEPT !.at = "fail", !.got = 0, !.failure = failure])

\* The claim is not exact or the code cannot be decrypted: nothing is sent.
RejectClaim(c) ==
  /\ rec[c].at = "held"
  /\ Failing(c, "definite")
  /\ UNCHANGED <<inst, cred, boots, states, pass, tokens, leases, newest>>

\* HighLevel grants a new pair for what it was shown, or does not.
Granted(parent, gen, shown) ==
  /\ Len(tokens) < MaxTokens
  /\ tokens' = Append(shown, [parent |-> parent, gen |-> gen, uses |-> 0])

SendCode(c) ==
  /\ rec[c].at = "held"
  /\ boots' = [boots EXCEPT ![rec[c].boot].uses = @ + 1]
  /\ \/ /\ Granted(0, boots[rec[c].boot].target, tokens)
        /\ Go(c, [rec[c] EXCEPT !.at = "waiting", !.got = Len(tokens) + 1])
     \/ /\ Go(c, [rec[c] EXCEPT !.at = "waiting"])
        /\ UNCHANGED tokens
  /\ UNCHANGED <<inst, cred, states, pass, leases, newest>>

\* A complete answer of a granted exchange is kept; any other ending, a
\* granted one whose answer is lost or rejected included, fails the attempt.
CodeAnswer(c) ==
  /\ rec[c].at = "waiting"
  /\ \/ rec[c].got # 0 /\ Go(c, [rec[c] EXCEPT !.at = "store"])
     \/ \E failure \in {"definite", "exchange_outcome_unknown"} : Failing(c, failure)
  /\ UNCHANGED <<inst, cred, boots, states, pass, tokens, leases, newest>>

\* Finalization accepts only the claimed attempt of the installation's
\* generation.
ExchangeCurrent(b) == boots[b].status = "exchanging" /\ Eligible(boots[b].target)

FinalizeExchange(c) ==
  /\ rec[c].at = "store"
  /\ \/ /\ ExchangeCurrent(rec[c].boot)
        /\ cred' = Stored(rec[c].got)
        /\ boots' = [boots EXCEPT ![rec[c].boot].status = "succeeded", ![rec[c].boot].over = FALSE]
        /\ Go(c, NextOf(rec[c].todo))
     \/ /\ Failing(c, "credential_persistence_failed")
        /\ UNCHANGED <<cred, boots>>
  /\ UNCHANGED <<inst, states, pass, tokens, leases, newest>>

\* The failure call acts on an unfinished attempt only, and its own failure
\* is swallowed.
FailBootstrap(c) ==
  /\ rec[c].at = "fail"
  /\ \/ /\ boots[rec[c].boot].status \in {"waiting_install", "ready", "exchanging"}
        /\ boots' = [boots EXCEPT ![rec[c].boot] = FailedBoot(rec[c].boot, rec[c].failure)]
     \/ UNCHANGED boots
  /\ Go(c, NextOf(rec[c].todo))
  /\ UNCHANGED <<inst, cred, states, pass, tokens, leases, newest>>

\* The process stops, or a call of the pass throws.
AbandonExchange(c) ==
  /\ rec[c].at # "idle"
  /\ Go(c, IdleRec)
  /\ UNCHANGED <<inst, cred, boots, states, pass, tokens, leases, newest>>

-----------------------------------------------------------------------------
(* Reconnection of an installed Location *)

Flow(r, at, gen, got) == states' = [states EXCEPT ![r] = [at |-> at, gen |-> gen, got |-> got]]

\* The OAuth state remembers the generation it was created in.
Initiate(r) ==
  /\ states[r].at = "none"
  /\ Eligible(inst.gen)
  /\ Flow(r, "started", inst.gen, 0)
  /\ UNCHANGED <<inst, cred, boots, rec, pass, tokens, leases, newest>>

\* The callback consumes the state once, in that generation only.
ConsumeState(r) ==
  /\ states[r].at = "started"
  /\ Eligible(states[r].gen)
  /\ Flow(r, "consumed", states[r].gen, 0)
  /\ UNCHANGED <<inst, cred, boots, rec, pass, tokens, leases, newest>>

ExchangeReconnect(r) ==
  /\ states[r].at = "consumed"
  /\ \/ /\ Granted(0, states[r].gen, tokens)
        /\ \/ Flow(r, "persist", states[r].gen, Len(tokens) + 1)
           \/ Flow(r, "done", states[r].gen, 0)
     \/ Flow(r, "done", states[r].gen, 0) /\ UNCHANGED tokens
  /\ UNCHANGED <<inst, cred, boots, rec, pass, leases, newest>>

\* The direct write of the five credential columns, filtered by the
\* generation; the trigger makes it a new usable revision.
PersistInstalled(r) ==
  /\ states[r].at = "persist"
  /\ \/ Eligible(states[r].gen) /\ cred' = Stored(states[r].got)
     \/ UNCHANGED cred
  /\ Flow(r, "done", states[r].gen, 0)
  /\ UNCHANGED <<inst, boots, rec, pass, tokens, leases, newest>>

-----------------------------------------------------------------------------
(* A refresh pass *)

\* One step of worker w, which keeps what it has read.
Do(w, step) == pass' = [pass EXCEPT ![w] = step]

\* The pass first looks for a lease its own clock calls expired ...
FindExpiredLease(w) ==
  /\ pass[w].at = "idle"
  /\ Do(w, IF Eligible(inst.gen) /\ cred.state = "refreshing"
           THEN [IdlePass EXCEPT !.at = "recover", !.gen = inst.gen, !.recovering = TRUE]
           ELSE [IdlePass EXCEPT !.at = "select"])
  /\ UNCHANGED <<inst, cred, boots, states, rec, tokens, leases, newest>>

\* ... and then for a pair that its clock calls due.
FindCandidate(w) ==
  /\ pass[w].at = "select"
  /\ Do(w, IF Eligible(inst.gen) /\ cred.state = "usable"
           THEN [IdlePass EXCEPT !.at = "claim", !.gen = inst.gen]
           ELSE IdlePass)
  /\ UNCHANGED <<inst, cred, boots, states, rec, tokens, leases, newest>>

\* What a claim without a lease leads to.
NotClaimed(w) == IF pass[w].recovering THEN [IdlePass EXCEPT !.at = "select"] ELSE IdlePass

LeaseExpired == cred.state = "refreshing" /\ cred.over

Due(g) == Eligible(g) /\ cred.state = "usable" /\ cred.due

\* The claim function: an expired lease burns the pair and grants nothing, a
\* due pair is leased, anything else is refused.  A recovery that is granted
\* a lease gives it up at once.
ClaimRefresh(w) ==
  /\ pass[w].at \in {"recover", "claim"}
  /\ \/ /\ inst.gen = pass[w].gen /\ LeaseExpired
        /\ cred' = Burned
        /\ Do(w, NotClaimed(w))
        /\ UNCHANGED leases
     \/ /\ Due(pass[w].gen)
        /\ cred' = Claimed
        /\ leases' = leases + 1
        /\ Do(w, [pass[w] EXCEPT !.at = IF pass[w].recovering THEN "fail" ELSE "held",
                                 !.revision = cred.revision, !.lease = leases + 1,
                                 !.token = cred.token])
     \/ /\ ~(inst.gen = pass[w].gen /\ LeaseExpired)
        /\ ~Due(pass[w].gen)
        /\ Do(w, NotClaimed(w))
        /\ UNCHANGED <<cred, leases>>
  /\ UNCHANGED <<inst, boots, states, rec, tokens, newest>>

\* The claim does not fit the configuration or the token cannot be
\* decrypted: nothing is sent.
RejectRefreshClaim(w) ==
  /\ pass[w].at = "held"
  /\ Do(w, [pass[w] EXCEPT !.at = "fail"])
  /\ UNCHANGED <<inst, cred, boots, states, rec, tokens, leases, newest>>

SendRefreshToken(w) ==
  /\ pass[w].at = "held"
  /\ LET shown == [tokens EXCEPT ![pass[w].token].uses = @ + 1] IN
     \/ /\ Granted(pass[w].token, tokens[pass[w].token].gen, shown)
        /\ Do(w, [pass[w] EXCEPT !.at = "waiting", !.got = Len(tokens) + 1])
     \/ /\ tokens' = shown
        /\ Do(w, [pass[w] EXCEPT !.at = "waiting"])
  /\ UNCHANGED <<inst, cred, boots, states, rec, leases, newest>>

RefreshAnswer(w) ==
  /\ pass[w].at = "waiting"
  /\ \/ pass[w].got # 0 /\ Do(w, [pass[w] EXCEPT !.at = "store"])
     \/ Do(w, [pass[w] EXCEPT !.at = "fail"])
  /\ UNCHANGED <<inst, cred, boots, states, rec, tokens, leases, newest>>

\* Mutant: any refreshing row of the generation is taken for the claim's own.
ClaimCurrent_AnyLease(w) ==
  /\ Eligible(pass[w].gen)
  /\ cred.state = "refreshing"

\* The row still holds the generation, the revision and the lease of a claim.
ClaimCurrent(w) ==
  /\ Eligible(pass[w].gen)
  /\ cred.state = "refreshing"
  /\ cred.revision = pass[w].revision
  /\ cred.lease = pass[w].lease

\* Finalization: an expired lease of its own burns the pair, a live one
\* rotates it.  A call that throws, before or after its commit, leads to the
\* failure call; one whose claim is gone or whose answer has expired changes
\* nothing.
FinalizeRefresh(w) ==
  /\ pass[w].at = "store"
  /\ \/ /\ ClaimCurrent(w)
        /\ cred' = IF cred.over THEN Burned ELSE Stored(pass[w].got)
     \/ UNCHANGED cred
  /\ \/ Do(w, IdlePass)
     \/ Do(w, [pass[w] EXCEPT !.at = "fail"])
  /\ UNCHANGED <<inst, boots, states, rec, tokens, leases, newest>>

\* A failure burns the pair of the claim it names; one that cannot be
\* recorded leaves the lease to expire.
FailRefresh(w) ==
  /\ pass[w].at = "fail"
  /\ \/ ClaimCurrent(w) /\ cred' = Burned
     \/ UNCHANGED cred
  /\ Do(w, NotClaimed(w))
  /\ UNCHANGED <<inst, boots, states, rec, tokens, leases, newest>>

\* The process stops or its drain times out, or a call outside the handled
\* part of the pass throws.
AbandonRefresh(w) ==
  /\ pass[w].at # "idle"
  /\ Do(w, IdlePass)
  /\ UNCHANGED <<inst, cred, boots, states, rec, tokens, leases, newest>>

-----------------------------------------------------------------------------
(* Deadlines *)

\* The pair comes within five minutes of its expiry.
ComesDue ==
  /\ cred.state = "usable"
  /\ cred' = [cred EXCEPT !.due = TRUE]
  /\ UNCHANGED <<inst, boots, states, rec, pass, tokens, leases, newest>>

LeaseRunsOut ==
  /\ cred.state = "refreshing"
  /\ cred' = [cred EXCEPT !.over = TRUE]
  /\ UNCHANGED <<inst, boots, states, rec, pass, tokens, leases, newest>>

\* The life of a waiting or ready bootstrap, or the two minutes of an exchange.
BootstrapRunsOut(b) ==
  /\ boots[b].status \in {"waiting_install", "ready", "exchanging"}
  /\ boots' = [boots EXCEPT ![b].over = TRUE]
  /\ UNCHANGED <<inst, cred, states, rec, pass, tokens, leases, newest>>

-----------------------------------------------------------------------------
Webhook == \E e \in Events : Install(e) \/ Uninstall(e) \/ IgnoreEvent(e)

Exchanging ==
  \E c \in Reconcilers :
    \/ ListRecoverable(c) \/ ClaimExchange(c) \/ RejectClaim(c) \/ SendCode(c)
    \/ CodeAnswer(c) \/ FinalizeExchange(c) \/ FailBootstrap(c) \/ AbandonExchange(c)

Reconnecting ==
  \E r \in Reconnects : Initiate(r) \/ ConsumeState(r) \/ ExchangeReconnect(r) \/ PersistInstalled(r)

Refreshing ==
  \E w \in Workers :
    \/ FindExpiredLease(w) \/ FindCandidate(w) \/ ClaimRefresh(w) \/ RejectRefreshClaim(w)
    \/ SendRefreshToken(w) \/ RefreshAnswer(w) \/ FinalizeRefresh(w) \/ FailRefresh(w)
    \/ AbandonRefresh(w)

Deadline == ComesDue \/ LeaseRunsOut \/ \E b \in Bootstraps : BootstrapRunsOut(b)

Next ==
  \/ Webhook
  \/ \E b \in Bootstraps : AcceptCallback(b)
  \/ Exchanging
  \/ Reconnecting
  \/ Refreshing
  \/ Deadline

Spec == Init /\ [][Next]_vars

-----------------------------------------------------------------------------
(* What the trigger on bootstraps admits *)

BootstrapMoves ==
  ({"waiting_install"} \X {"ready", "failed"})
  \cup ({"ready"} \X {"exchanging", "failed"})
  \cup ({"exchanging"} \X {"succeeded", "failed"})

\* A callback makes a waiting or a ready row; its context never changes, its
\* status moves forward and its end is final.
BootstrapAdmitted(old, new) ==
  IF old.status = "none" THEN new.status \in {"waiting_install", "ready"} /\ new.failure = "none"
  ELSE /\ new.target = old.target
       /\ <<old.status, new.status>> \in BootstrapMoves

\* The columns of a row, without the deadlines that pass by themselves and
\* without what HighLevel has seen of it.
Columns(row) == [field \in DOMAIN row \ {"due", "over", "uses"} |-> row[field]]

-----------------------------------------------------------------------------
(* Properties *)

\* A refresh token and an authorization code are single-use: neither is shown
\* to HighLevel twice, whatever is lost, late or restarted, and a pair the row
\* offers as usable has never been shown.
SingleUse ==
  /\ \A t \in TokenIds : tokens[t].uses <= 1
  /\ \A b \in Bootstraps : boots[b].uses <= 1
  /\ cred.state = "usable" => tokens[cred.token].uses = 0

\* A refresh replaces the very pair it has refreshed: a reauthorization, a new
\* generation or another worker's rotation that came first is never
\* overwritten by a late finalization.
RotationIsExact ==
  [][\/ cred'.token \in {0, cred.token}
     \/ tokens[cred'.token].parent \in {0, cred.token}]_vars

\* A pair in the row was authorized in the current generation of an installed
\* Location: nothing that was in flight over an UNINSTALL brings one back.
CredentialOfGeneration ==
  cred.token # 0 => inst.status = "pending" /\ tokens[cred.token].gen = inst.gen

\* In one generation at most one public bootstrap holds, has used, or has lost
\* track of an authorization code.
OneBurningBootstrap ==
  LET Holds(b) == \/ boots[b].status \in Progressing
                  \/ boots[b].status = "failed" /\ boots[b].failure # "definite"
  IN \A a, b \in Bootstraps :
       Holds(a) /\ Holds(b) /\ boots[a].target = boots[b].target => a = b

\* The row stands where the newest answered event puts it, in whatever order
\* and however often the webhooks arrive.
LifecycleConverges ==
  inst.status # "absent" =>
    /\ EventAt[inst.latest] = newest
    /\ inst.status = "uninstalled" <=> EventType[inst.latest] = "UNINSTALL"

\* No call is refused by the trigger or the check constraint of the table it
\* writes, whatever came between its reads and its write: what finalizations, failures, claims,
\* recoveries, callbacks, reconnections and webhooks write over each other's
\* rows are transitions the triggers admit.  (The one refusal the code has,
\* an INSTALL during a refresh, is the webhook's outcome "raised".)
RowsAdmitted ==
  [][/\ inst' # inst \/ Columns(cred') # Columns(cred) =>
          /\ LifecycleAdmitted(inst, inst')
          /\ CredentialAdmitted(inst, inst', cred, cred')
          /\ RefreshStateCheck(cred')
     /\ \A b \in Bootstraps :
          Columns(boots'[b]) # Columns(boots[b]) => BootstrapAdmitted(boots[b], boots'[b])]_vars

\* "ordering semantics are unchanged" (docs/every8d-ghl-oauth-refresh-foundation.md):
\* an event newer than the watermark of its row is applied.
NewerEventApplies ==
  \A e \in Events :
    inst.status # "absent" /\ EventAt[e] > EventAt[inst.latest] => Outcome(e) = "applied"
=============================================================================
