---------------------------- MODULE EmailOutbox ----------------------------
(***************************************************************************)
(* The settings e-mail outbox and the engine that drains it.               *)
(*                                                                         *)
(* One outbox row carries the one-time code of one settings challenge to   *)
(* an e-mail provider.  Rows live in PostgreSQL and change only inside the *)
(* RPCs enqueue, claim, begin_send, finalize, recover and purge; any       *)
(* number of worker processes call them.  Claiming a row mints a lease and *)
(* a fence, and one engine session (processJob) then works under that      *)
(* fence.  Calls may be lost, late or repeated; sessions may die at any    *)
(* point; the provider may accept a mail after the session stopped         *)
(* waiting for it.                                                         *)
(*                                                                         *)
(* A challenge has at most one row, so a job names both.  Time is one      *)
(* integer clock: the database decides by clock_timestamp(), the engine    *)
(* measures durations that advance at the same rate.                       *)
(***************************************************************************)
EXTENDS Integers, FiniteSets

CONSTANTS
    Jobs,           \* job identifiers, one per challenge
    Workers,        \* worker processes that scan the outbox
    MaxFence,       \* last value of the fence sequence (no cycle)
    LeaseTtl,       \* 30 seconds
    SendWindow,     \* 10 seconds, what one provider call may take
    ShortRetry,     \* 5 seconds, delay after the first attempt
    LongRetry,      \* 20 seconds, delay after the second attempt
    Lifetimes,      \* how long a challenge may live (at most 10 minutes)
    Retention,      \* 24 hours, what a finished row is kept
    BatchSize,      \* rows one scan selects
    Unsettled,      \* bound: the jobs whose challenge or authority may be withdrawn
    LastRequest,    \* bound: no challenge is requested after this time
    LastUnrest,     \* bound: after this time no authority changes and no scan
                    \* begins beside another one
    MaxTime         \* bound: the clock stops here

ASSUME TimingAssumption ==
    /\ LeaseTtl \in Nat \ {0} /\ SendWindow \in Nat \ {0}
    /\ ShortRetry \in Nat /\ LongRetry \in Nat
    /\ Lifetimes \subseteq Nat \ {0}
    /\ Retention \in Nat /\ LastRequest \in Nat
    /\ LastUnrest \in Nat /\ MaxTime \in Nat

ASSUME BoundAssumption ==
    MaxFence \in Nat /\ BatchSize \in Nat \ {0} /\ Unsettled \subseteq Jobs

VARIABLES
    now,        \* clock_timestamp()
    challenge,  \* every8d_settings_auth_challenges, the columns delivery depends on
    authority,  \* the grant or administrator and its installation still back it
    outbox,     \* every8d_settings_auth_email_outbox
    nextFence,  \* the fence sequence
    scan,       \* a worker's claim or recover transaction between select and decision
    sess        \* engine sessions, by the fence they run under

dbVars == <<challenge, outbox, nextFence>>
vars == <<now, challenge, authority, outbox, nextFence, scan, sess>>

MaxAttempts == 3
Fences == 1..MaxFence

ActiveStates == {"PENDING", "LEASED", "SENDING", "RETRY_WAIT"}
TerminalStates == {"ACCEPTED", "FAILED_TERMINAL", "DELIVERY_OUTCOME_UNKNOWN",
                   "CANCELLED", "EXPIRED"}
ProviderOutcomes == {"accepted", "rejected", "not_accepted_retryable",
                     "outcome_unknown"}
Dispositions == {"accepted", "provider_rejected", "delivery_outcome_unknown",
                 "sender_unavailable_pre_send", "cancelled_pre_send",
                 "expired_pre_send", "retry_budget_exhausted",
                 "retry_deadline_exhausted", "retry_unusable"}

\* The resolution_* columns: what closed the last lease, and which one it was.
Resolution == [kind : {"none", "provider", "pre_send", "recovery", "unusable"},
               provider_outcome : {"none"} \cup ProviderOutcomes,
               non_acceptance_proven : BOOLEAN,
               fence_generation : Nat,
               attempt_count : 0..MaxAttempts]

NoResolution == [kind |-> "none", provider_outcome |-> "none",
                 non_acceptance_proven |-> FALSE, fence_generation |-> 0,
                 attempt_count |-> 0]

\* A column that is null holds 0 (times, fences, leases) or "none".
Row == [state : {"absent"} \cup ActiveStates \cup TerminalStates,
        attempt_count : 0..MaxAttempts,
        fence_generation : Nat,
        lease_id : Nat,           \* named by the fence its claim drew
        leased_at : Nat,
        available_at : Nat,
        last_attempt_started_at : Nat,
        delivery_deadline_at : Nat,
        terminal_at : Nat,
        terminal_disposition : {"none"} \cup Dispositions,
        challenge_recording : {"not_applicable", "recorded", "not_recorded"},
        resolution : Resolution,
        resolved_at : Nat]

NoRow == [state |-> "absent", attempt_count |-> 0, fence_generation |-> 0,
          lease_id |-> 0, leased_at |-> 0, available_at |-> 0,
          last_attempt_started_at |-> 0, delivery_deadline_at |-> 0,
          terminal_at |-> 0, terminal_disposition |-> "none",
          challenge_recording |-> "not_applicable",
          resolution |-> NoResolution, resolved_at |-> 0]

\* locked_at, verified_at and consumed_at all imply delivery "succeeded".
Challenge == [requested : BOOLEAN, has_email : BOOLEAN, superseded : BOOLEAN,
              delivery : {"none", "succeeded", "failed"}, expires_at : Nat]

NoChallenge == [requested |-> FALSE, has_email |-> FALSE, superseded |-> FALSE,
                delivery |-> "none", expires_at |-> 0]

Scan == [kind : {"idle", "claim", "recover"}, rows : SUBSET Jobs,
         located : SUBSET Jobs, started : Nat]

NoScan == [kind |-> "idle", rows |-> {}, located |-> {}, started |-> 0]

\* "outcome" is what the session sends to finalize; "mail" is what became of
\* the message at the provider, which the session learns only by an answer.
\* "deadline" is the session's own: first the lease, then the provider call.
\* A dead session is "done"; a call it left behind may still execute before.
Session == [job : Jobs,
            pc : {"claimed", "begin_sent", "begun", "calling", "final_sent",
                  "confirmed", "done"},
            deadline : Nat,
            attempt : 0..MaxAttempts,
            outcome : {"none", "sender_unavailable"} \cup ProviderOutcomes,
            mail : {"unsent", "in_flight", "accepted", "refused"}]

NoSession == [pc |-> "unused"]

\* The columns and locals stay in the ranges their types and checks give them.
TypeOK ==
    /\ now \in Nat
    /\ challenge \in [Jobs -> Challenge]
    /\ authority \in [Jobs -> BOOLEAN]
    /\ outbox \in [Jobs -> Row]
    /\ nextFence \in 1..(MaxFence + 1)
    /\ scan \in [Workers -> Scan]
    /\ sess \in [Fences -> Session \cup {NoSession}]

Init ==
    /\ now = 1
    /\ challenge = [j \in Jobs |-> NoChallenge]
    /\ authority = [j \in Jobs |-> TRUE]
    /\ outbox = [j \in Jobs |-> NoRow]
    /\ nextFence = 1
    /\ scan = [w \in Workers |-> NoScan]
    /\ sess = [f \in Fences |-> NoSession]

-----------------------------------------------------------------------------
(* What the RPCs compute.                                                  *)

LeaseExpires(r) == r.leased_at + LeaseTtl

\* The challenge columns of the usability predicate; "located" are the jobs
\* whose parent rows the transaction found before it locked anything.
Usable(j, located) ==
    /\ challenge[j].has_email
    /\ challenge[j].delivery = "none"
    /\ ~challenge[j].superseded
    /\ authority[j]
    /\ j \in located

\* v_window: a whole provider call still fits before the challenge expires.
WindowOpen(r) == now + SendWindow < r.delivery_deadline_at

RetryDelay(attempts) == IF attempts = 1 THEN ShortRetry ELSE LongRetry

\* runtime_record_every8d_settings_challenge_delivery_v1 at time t.
Recordable(j, t) ==
    /\ challenge[j].requested
    /\ challenge[j].delivery = "none"
    /\ ~challenge[j].superseded
    /\ t < challenge[j].expires_at

Recorded(j, succeeded) ==
    IF succeeded
    THEN [challenge[j] EXCEPT !.delivery = "succeeded"]
    ELSE [challenge[j] EXCEPT !.delivery = "failed", !.has_email = FALSE]

ClosingFence_Prior(r) == r.resolution.fence_generation

\* Which lease and which attempt a resolution closes.
ClosingFence(r) == IF r.lease_id = 0 THEN 0 ELSE r.fence_generation
ClosingAttempt(r) == r.attempt_count

Resolved(r, kind, outcome, proven) ==
    [kind |-> kind, provider_outcome |-> outcome, non_acceptance_proven |-> proven,
     fence_generation |-> ClosingFence(r), attempt_count |-> ClosingAttempt(r)]

\* The update every terminal decision ends in; the lease and the schedule are
\* cleared and the resolution names the lease it closed.
Terminal(r, state, disposition, kind, outcome, proven, recording) ==
    [r EXCEPT !.state = state, !.terminal_disposition = disposition,
              !.terminal_at = now, !.resolved_at = now,
              !.challenge_recording = recording,
              !.resolution = Resolved(r, kind, outcome, proven),
              !.lease_id = 0, !.leased_at = 0, !.available_at = 0]

\* A row that must not be sent (again): the challenge is unusable or too old.
Unsendable(r, kind, usable) ==
    LET disposition ==
            IF r.attempt_count = 0
            THEN IF WindowOpen(r) THEN "cancelled_pre_send" ELSE "expired_pre_send"
            ELSE IF usable THEN "retry_deadline_exhausted" ELSE "retry_unusable"
        state ==
            CASE disposition = "expired_pre_send" -> "EXPIRED"
              [] disposition = "cancelled_pre_send" -> "CANCELLED"
              [] OTHER -> "FAILED_TERMINAL"
    IN  Terminal(r, state, disposition, kind, "none", r.attempt_count > 0,
                 "not_applicable")

Rescheduled(r, available) ==
    [r EXCEPT !.state = "RETRY_WAIT", !.available_at = available,
              !.lease_id = 0, !.leased_at = 0, !.resolved_at = now,
              !.resolution = Resolved(r, "provider", "not_accepted_retryable", TRUE)]

\* The first BatchSize of "ready" by "key"; equal keys come in any order
\* because job identifiers are random.
FirstBatch(ready, key) ==
    {rows \in SUBSET ready :
        /\ Cardinality(rows) = IF Cardinality(ready) < BatchSize
                               THEN Cardinality(ready) ELSE BatchSize
        /\ \A i \in rows, k \in ready \ rows : key[i] <= key[k]}

-----------------------------------------------------------------------------
(* Challenges and what backs them, as far as delivery depends on them.     *)

Tick ==
    /\ now < MaxTime
    /\ now' = now + 1
    /\ UNCHANGED <<challenge, authority, outbox, nextFence, scan, sess>>

RequestChallenge(j) ==
    /\ ~challenge[j].requested
    /\ now <= LastRequest
    /\ \E life \in Lifetimes :
         challenge' = [challenge EXCEPT ![j] =
            [requested |-> TRUE, has_email |-> TRUE, superseded |-> FALSE,
             delivery |-> "none", expires_at |-> now + life]]
    /\ UNCHANGED <<now, authority, outbox, nextFence, scan, sess>>

\* A newer challenge for the same grant or e-mail replaces this one.
SupersedeChallenge(j) ==
    /\ j \in Unsettled
    /\ challenge[j].requested
    /\ ~challenge[j].superseded
    /\ challenge[j].delivery # "failed"
    /\ now < challenge[j].expires_at
    /\ challenge' = [challenge EXCEPT ![j].superseded = TRUE,
                                      ![j].has_email = FALSE]
    /\ UNCHANGED <<now, authority, outbox, nextFence, scan, sess>>

\* Expired challenges lose their e-mail address.
ScrubChallenge(j) ==
    /\ challenge[j].requested
    /\ challenge[j].has_email
    /\ challenge[j].expires_at <= now
    /\ challenge' = [challenge EXCEPT ![j].has_email = FALSE]
    /\ UNCHANGED <<now, authority, outbox, nextFence, scan, sess>>

\* The grant, the administrator or the installation stops (or starts again)
\* backing the challenge.
ChangeAuthority(j) ==
    /\ j \in Unsettled
    /\ challenge[j].requested
    /\ now <= LastUnrest
    /\ authority' = [authority EXCEPT ![j] = ~@]
    /\ UNCHANGED <<now, challenge, outbox, nextFence, scan, sess>>

-----------------------------------------------------------------------------
(* The RPCs of the outbox that no engine session waits for.                *)

\* A row already there is returned as it is.
Enqueue(j) ==
    /\ challenge[j].requested
    /\ outbox[j].state = "absent"
    /\ Usable(j, Jobs)
    /\ now < challenge[j].expires_at
    /\ nextFence <= MaxFence
    /\ outbox' = [outbox EXCEPT ![j] =
         [NoRow EXCEPT !.state = "PENDING", !.fence_generation = nextFence,
                       !.available_at = now,
                       !.delivery_deadline_at = challenge[j].expires_at]]
    /\ nextFence' = nextFence + 1
    /\ UNCHANGED <<now, challenge, authority, scan, sess>>

\* Candidates are chosen, and their parents located, before any lock.
StartScan(w, kind, ready, key) ==
    /\ scan[w].kind = "idle"
    /\ ready # {}
    /\ now <= LastUnrest \/ \A v \in Workers : scan[v].kind = "idle"
    /\ \E rows \in FirstBatch(ready, key) :
         scan' = [scan EXCEPT ![w] =
            [kind |-> kind, rows |-> rows,
             located |-> {j \in rows : authority[j]}, started |-> now]]
    /\ UNCHANGED <<now, challenge, authority, outbox, nextFence, sess>>

ScanDone(w, j) ==
    scan' = [scan EXCEPT ![w] =
        IF scan[w].rows = {j} THEN NoScan ELSE [scan[w] EXCEPT !.rows = @ \ {j}]]

ClaimSelect(w) ==
    StartScan(w, "claim",
              {j \in Jobs : /\ outbox[j].state \in {"PENDING", "RETRY_WAIT"}
                            /\ outbox[j].available_at <= now},
              [j \in Jobs |-> outbox[j].available_at])

Claimable(j, located) ==
    /\ outbox[j].state \in {"PENDING", "RETRY_WAIT"}
    /\ Usable(j, located)
    /\ WindowOpen(outbox[j])
    /\ outbox[j].available_at <= now
    /\ outbox[j].attempt_count < MaxAttempts

\* The decision on one candidate, under its lock.  The engine counts the
\* lease from before its call, which is no later than the selection.
ClaimOne(w, j) ==
    /\ scan[w].kind = "claim" /\ j \in scan[w].rows
    /\ Claimable(j, scan[w].located)
    /\ nextFence <= MaxFence
    /\ outbox' = [outbox EXCEPT ![j].state = "LEASED", ![j].lease_id = nextFence,
                                ![j].leased_at = now,
                                ![j].fence_generation = nextFence]
    /\ sess' = [sess EXCEPT ![nextFence] =
         [job |-> j, pc |-> "claimed", deadline |-> scan[w].started + LeaseTtl,
          attempt |-> outbox[j].attempt_count, outcome |-> "none",
          mail |-> "unsent"]]
    /\ nextFence' = nextFence + 1
    /\ ScanDone(w, j)
    /\ UNCHANGED <<now, challenge, authority>>

ClaimSkip(w, j) ==
    /\ scan[w].kind = "claim" /\ j \in scan[w].rows
    /\ \/ ~Claimable(j, scan[w].located)
       \/ \E v \in Workers \ {w} : j \in scan[v].rows    \* skip locked
    /\ ScanDone(w, j)
    /\ UNCHANGED <<now, challenge, authority, outbox, nextFence, sess>>

Recoverable_LeasesOnly(j) ==
    /\ outbox[j].state \in {"LEASED", "SENDING"}
    /\ LeaseExpires(outbox[j]) <= now

\* Leases that ran out, and rows that can no longer be sent.
Recoverable(j) ==
    \/ /\ outbox[j].state \in {"LEASED", "SENDING"}
       /\ LeaseExpires(outbox[j]) <= now
    \/ /\ outbox[j].state \in {"PENDING", "RETRY_WAIT"}
       /\ ~WindowOpen(outbox[j]) \/ ~Usable(j, Jobs)

RecoverSelect(w) ==
    StartScan(w, "recover", {j \in Jobs : Recoverable(j)},
              [j \in Jobs |-> IF outbox[j].lease_id # 0
                              THEN LeaseExpires(outbox[j])
                              ELSE outbox[j].delivery_deadline_at])

LeaseRunsOn(r) == r.state \in {"LEASED", "SENDING"} /\ now < LeaseExpires(r)

\* A send whose answer never came is unknown, never repeated.
RecoverSending(w, j) ==
    /\ scan[w].kind = "recover" /\ j \in scan[w].rows
    /\ outbox[j].state = "SENDING" /\ ~LeaseRunsOn(outbox[j])
    /\ \E recordedAt \in {now, now + 1} :
         LET recorded == Recordable(j, recordedAt)
         IN  /\ challenge' = [challenge EXCEPT ![j] =
                    IF recorded THEN Recorded(j, FALSE) ELSE @]
             /\ outbox' = [outbox EXCEPT ![j] =
                    Terminal(@, "DELIVERY_OUTCOME_UNKNOWN",
                             "delivery_outcome_unknown", "recovery", "none", FALSE,
                             IF recorded THEN "recorded" ELSE "not_recorded")]
    /\ ScanDone(w, j)
    /\ UNCHANGED <<now, authority, nextFence, sess>>

ClaimedNotSent_AlsoSending(r) == r.state \in {"LEASED", "SENDING"}
ClaimedNotSent(r) == r.state = "LEASED"

RequeuedState_Pending(r) == "PENDING"
RequeuedState(r) == IF r.attempt_count = 0 THEN "PENDING" ELSE "RETRY_WAIT"

Requeued(r) == [r EXCEPT !.state = RequeuedState(r), !.lease_id = 0, !.leased_at = 0]

\* A claimed row that was not sent goes back to where it was claimed from.
RecoverLeased(w, j) ==
    /\ scan[w].kind = "recover" /\ j \in scan[w].rows
    /\ ClaimedNotSent(outbox[j]) /\ ~LeaseRunsOn(outbox[j])
    /\ Usable(j, scan[w].located) /\ WindowOpen(outbox[j])
    /\ outbox' = [outbox EXCEPT ![j] = Requeued(@)]
    /\ ScanDone(w, j)
    /\ UNCHANGED <<now, challenge, authority, nextFence, sess>>

RecoverUnsendable(w, j) ==
    /\ scan[w].kind = "recover" /\ j \in scan[w].rows
    /\ outbox[j].state \in {"PENDING", "LEASED", "RETRY_WAIT"}
    /\ ~LeaseRunsOn(outbox[j])
    /\ ~Usable(j, scan[w].located) \/ ~WindowOpen(outbox[j])
    /\ outbox' = [outbox EXCEPT ![j] =
         Unsendable(@, "recovery", Usable(j, scan[w].located))]
    /\ ScanDone(w, j)
    /\ UNCHANGED <<now, challenge, authority, nextFence, sess>>

RecoverSkip(w, j) ==
    /\ scan[w].kind = "recover" /\ j \in scan[w].rows
    /\ \/ LeaseRunsOn(outbox[j])
       \/ outbox[j].state \notin ActiveStates
       \/ /\ outbox[j].state \in {"PENDING", "RETRY_WAIT"}
          /\ Usable(j, scan[w].located) /\ WindowOpen(outbox[j])
       \/ \E v \in Workers \ {w} : j \in scan[v].rows
    /\ ScanDone(w, j)
    /\ UNCHANGED <<now, challenge, authority, outbox, nextFence, sess>>

RecoverOne(w, j) ==
    \/ RecoverSending(w, j)
    \/ RecoverLeased(w, j)
    \/ RecoverUnsendable(w, j)
    \/ RecoverSkip(w, j)

\* The process dies or the call is rolled back: nothing of it happens.
AbortScan(w) ==
    /\ scan[w].kind # "idle"
    /\ scan' = [scan EXCEPT ![w] = NoScan]
    /\ UNCHANGED <<now, challenge, authority, outbox, nextFence, sess>>

Purgeable_AnyChallenge(j) ==
    /\ outbox[j].state \in TerminalStates
    /\ outbox[j].terminal_at + Retention <= now

Purgeable(j) ==
    /\ outbox[j].state \in TerminalStates
    /\ outbox[j].terminal_at + Retention <= now
    /\ challenge[j].expires_at <= now

Purge(j) ==
    /\ Purgeable(j)
    /\ outbox' = [outbox EXCEPT ![j] = NoRow]
    /\ UNCHANGED <<now, challenge, authority, nextFence, scan, sess>>

-----------------------------------------------------------------------------
(* One engine session (processJob), the two RPCs it makes and the provider *)
(* call between them.                                                      *)

\* Its locals go with the session.
Finish(f) ==
    sess' = [sess EXCEPT ![f].pc = "done", ![f].deadline = 0,
                         ![f].attempt = 0, ![f].outcome = "none"]

\* The session ends early: payload or sender unusable, cancelled, budget
\* spent, a call without an answer, or its process died.
Abandon(f) ==
    /\ sess[f].pc \in {"claimed", "begin_sent", "begun", "calling", "final_sent"}
    /\ Finish(f)
    /\ UNCHANGED <<now, challenge, authority, outbox, nextFence, scan>>

\* No sender is configured: finalize at once, before anything was sent.
SenderUnavailable(f) ==
    /\ sess[f].pc = "claimed"
    /\ now < sess[f].deadline
    /\ sess' = [sess EXCEPT ![f].pc = "final_sent",
                            ![f].outcome = "sender_unavailable"]
    /\ UNCHANGED <<now, challenge, authority, outbox, nextFence, scan>>

SendDeadline_Lease(f) == sess[f].deadline

\* Until when the session may wait for the provider.
SendDeadline(f) ==
    IF now + SendWindow < sess[f].deadline THEN now + SendWindow
    ELSE sess[f].deadline

BeginCall(f) ==
    /\ sess[f].pc = "claimed"
    /\ now < sess[f].deadline
    /\ sess' = [sess EXCEPT ![f].pc = "begin_sent",
                            ![f].deadline = SendDeadline(f)]
    /\ UNCHANGED <<now, challenge, authority, outbox, nextFence, scan>>

\* The row is in "state" under this session's lease and fence, unexpired.
HoldsLease(f, state) ==
    LET r == outbox[sess[f].job]
    IN  /\ r.state = state
        /\ r.lease_id = f /\ r.fence_generation = f
        /\ now < LeaseExpires(r)

Sendable(r) ==
    /\ r.available_at <= now
    /\ r.attempt_count < MaxAttempts
    /\ now + SendWindow < LeaseExpires(r)

\* begin_send commits an attempt; the answer may never arrive.
BeginApplied(f) ==
    LET j == sess[f].job
    IN  /\ sess[f].pc = "begin_sent"
        /\ HoldsLease(f, "LEASED")
        /\ Usable(j, Jobs) /\ WindowOpen(outbox[j])
        /\ Sendable(outbox[j])
        /\ outbox' = [outbox EXCEPT ![j].state = "SENDING",
                                    ![j].attempt_count = @ + 1,
                                    ![j].last_attempt_started_at = now]
        /\ \/ sess' = [sess EXCEPT ![f].pc = "begun", ![f].attempt = @ + 1]
           \/ Finish(f)
        /\ UNCHANGED <<now, challenge, authority, nextFence, scan>>

BeginUnsendable(f) ==
    LET j == sess[f].job
    IN  /\ sess[f].pc = "begin_sent"
        /\ HoldsLease(f, "LEASED")
        /\ ~Usable(j, Jobs) \/ ~WindowOpen(outbox[j])
        /\ outbox' = [outbox EXCEPT ![j] = Unsendable(@, "unusable", Usable(j, Jobs))]
        /\ Finish(f)
        /\ UNCHANGED <<now, challenge, authority, nextFence, scan>>

BeginRefused(f) ==
    LET j == sess[f].job
    IN  /\ sess[f].pc = "begin_sent"
        /\ \/ ~HoldsLease(f, "LEASED")
           \/ Usable(j, Jobs) /\ WindowOpen(outbox[j]) /\ ~Sendable(outbox[j])
        /\ Finish(f)
        /\ UNCHANGED <<now, challenge, authority, outbox, nextFence, scan>>

\* invokeOnce submits the mail while its deadline allows.
Invoke(f) ==
    /\ sess[f].pc = "begun"
    /\ now < sess[f].deadline
    /\ sess' = [sess EXCEPT ![f].pc = "calling", ![f].mail = "in_flight"]
    /\ UNCHANGED <<now, challenge, authority, outbox, nextFence, scan>>

\* The provider takes or refuses the mail, whoever is still waiting for it.
ProviderDecides(f) ==
    /\ sess[f].pc # "unused"
    /\ sess[f].mail = "in_flight"
    /\ \E mail \in {"accepted", "refused"} :
         sess' = [sess EXCEPT ![f].mail = mail]
    /\ UNCHANGED <<now, challenge, authority, outbox, nextFence, scan>>

Answers_SilenceIsRefusal(mail) ==
    CASE mail = "accepted" -> {"accepted"}
      [] mail = "refused" -> {"rejected", "not_accepted_retryable"}
      [] OTHER -> {"not_accepted_retryable"}

\* What the answer says; silence, a throw and a late answer are unknown.
Answers(mail) ==
    CASE mail = "accepted" -> {"accepted"}
      [] mail = "refused" -> {"rejected", "not_accepted_retryable"}
      [] OTHER -> {}

Settle(f) ==
    /\ sess[f].pc = "calling"
    /\ \E o \in ProviderOutcomes :
         /\ o # "outcome_unknown" =>
              now < sess[f].deadline /\ o \in Answers(sess[f].mail)
         /\ sess' = [sess EXCEPT ![f].pc = "final_sent", ![f].outcome = o]
    /\ UNCHANGED <<now, challenge, authority, outbox, nextFence, scan>>

\* The state finalize expects, and the kind of resolution it stores.
ExpectedState(f) ==
    IF sess[f].outcome = "sender_unavailable" THEN "LEASED" ELSE "SENDING"

ResolutionKind(f) ==
    IF sess[f].outcome = "sender_unavailable" THEN "pre_send" ELSE "provider"

ProviderOutcome(f) ==
    IF sess[f].outcome = "sender_unavailable" THEN "none" ELSE sess[f].outcome

\* A compatible duplicate: the stored receipt is returned as it is.
Duplicate(f) ==
    LET r == outbox[sess[f].job]
    IN  /\ r.resolution.kind = ResolutionKind(f)
        /\ r.resolution.provider_outcome = ProviderOutcome(f)
        /\ r.resolution.fence_generation = f
        /\ r.resolution.attempt_count = sess[f].attempt
        /\ \/ r.state \in {"ACCEPTED", "FAILED_TERMINAL", "DELIVERY_OUTCOME_UNKNOWN"}
           \/ r.state = "RETRY_WAIT" /\ r.fence_generation = f

FinalizeApplies(f) ==
    /\ ~Duplicate(f)
    /\ HoldsLease(f, ExpectedState(f))
    /\ outbox[sess[f].job].attempt_count = sess[f].attempt

\* Applied or repeated calls are answered; the answer may be lost, and the
\* call may execute once more.
FinalizeAnswered(f) ==
    \/ UNCHANGED sess
    \/ sess' = [sess EXCEPT ![f].pc = "confirmed"]
    \/ Finish(f)

FinalizeDuplicate(f) ==
    /\ sess[f].pc = "final_sent"
    /\ Duplicate(f)
    /\ FinalizeAnswered(f)
    /\ UNCHANGED <<now, challenge, authority, outbox, nextFence, scan>>

FinalizeRefused(f) ==
    /\ sess[f].pc = "final_sent"
    /\ ~Duplicate(f) /\ ~FinalizeApplies(f)
    /\ Finish(f)
    /\ UNCHANGED <<now, challenge, authority, outbox, nextFence, scan>>

GiveUpDisposition_UnusableFirst(j) ==
    IF ~Usable(j, Jobs) THEN "retry_unusable"
    ELSE IF outbox[j].attempt_count = MaxAttempts THEN "retry_budget_exhausted"
    ELSE "retry_deadline_exhausted"

GiveUpDisposition(j) ==
    IF outbox[j].attempt_count = MaxAttempts THEN "retry_budget_exhausted"
    ELSE IF ~Usable(j, Jobs) THEN "retry_unusable"
    ELSE "retry_deadline_exhausted"

NextAvailable(j) == now + RetryDelay(outbox[j].attempt_count)

MayRetry(j) ==
    /\ outbox[j].attempt_count < MaxAttempts
    /\ Usable(j, Jobs)
    /\ NextAvailable(j) + SendWindow < outbox[j].delivery_deadline_at

\* Non-acceptance is proven: schedule another attempt or give up.
FinalizeRetryable(f) ==
    LET j == sess[f].job
    IN  /\ sess[f].pc = "final_sent"
        /\ sess[f].outcome = "not_accepted_retryable"
        /\ FinalizeApplies(f)
        /\ outbox' = [outbox EXCEPT ![j] =
             IF MayRetry(j)
             THEN Rescheduled(@, NextAvailable(j))
             ELSE Terminal(@, "FAILED_TERMINAL", GiveUpDisposition(j), "provider",
                           "not_accepted_retryable", TRUE, "not_applicable")]
        /\ FinalizeAnswered(f)
        /\ UNCHANGED <<now, challenge, authority, nextFence, scan>>

\* Every other outcome closes the row and is recorded on the challenge, by a
\* second reading of the clock.
FinalizeSettled(f) ==
    LET j == sess[f].job
        o == sess[f].outcome
        state == CASE o = "accepted" -> "ACCEPTED"
                   [] o = "outcome_unknown" -> "DELIVERY_OUTCOME_UNKNOWN"
                   [] OTHER -> "FAILED_TERMINAL"
        disposition == CASE o = "accepted" -> "accepted"
                         [] o = "outcome_unknown" -> "delivery_outcome_unknown"
                         [] o = "rejected" -> "provider_rejected"
                         [] OTHER -> "sender_unavailable_pre_send"
    IN  /\ sess[f].pc = "final_sent"
        /\ o # "not_accepted_retryable"
        /\ FinalizeApplies(f)
        /\ \E recordedAt \in {now, now + 1} :
             LET recorded == Recordable(j, recordedAt)
             IN  /\ challenge' = [challenge EXCEPT ![j] =
                        IF recorded THEN Recorded(j, o = "accepted") ELSE @]
                 /\ outbox' = [outbox EXCEPT ![j] =
                        Terminal(@, state, disposition, ResolutionKind(f),
                                 ProviderOutcome(f), FALSE,
                                 IF recorded THEN "recorded" ELSE "not_recorded")]
        /\ FinalizeAnswered(f)
        /\ UNCHANGED <<now, authority, nextFence, scan>>

-----------------------------------------------------------------------------
Environment ==
    \/ Tick
    \/ \E j \in Jobs : \/ RequestChallenge(j) \/ SupersedeChallenge(j)
                        \/ ScrubChallenge(j) \/ ChangeAuthority(j)

Scanning ==
    \/ \E j \in Jobs : Enqueue(j) \/ Purge(j)
    \/ \E w \in Workers : ClaimSelect(w) \/ RecoverSelect(w) \/ AbortScan(w)
    \/ \E w \in Workers, j \in Jobs :
         ClaimOne(w, j) \/ ClaimSkip(w, j) \/ RecoverOne(w, j)

Sending ==
    \E f \in Fences :
        \/ Abandon(f) \/ SenderUnavailable(f) \/ BeginCall(f)
        \/ BeginApplied(f) \/ BeginUnsendable(f) \/ BeginRefused(f)
        \/ Invoke(f) \/ ProviderDecides(f) \/ Settle(f)
        \/ FinalizeDuplicate(f) \/ FinalizeRefused(f)
        \/ FinalizeRetryable(f) \/ FinalizeSettled(f)

Next == Environment \/ Scanning \/ Sending

Spec == Init /\ [][Next]_vars

EndsScan(w) ==
    AbortScan(w) \/ \E j \in Jobs : ClaimOne(w, j) \/ ClaimSkip(w, j) \/ RecoverOne(w, j)

\* A transaction ends, by its decisions or rolled back.  The runtime recovers
\* every five seconds and its process is restarted when it dies, so scans of
\* kind "recover" come again and again, by one worker or another, and some of
\* them get to decide.
Fairness ==
    /\ WF_vars(Tick)
    /\ \A w \in Workers : WF_vars(EndsScan(w))
    /\ SF_vars(\E w \in Workers : RecoverSelect(w))
    /\ SF_vars(\E w \in Workers, j \in Jobs : RecoverOne(w, j))

FairSpec == Spec /\ Fairness

-----------------------------------------------------------------------------
(* What the table and its trigger admit.  An RPC whose write they refuse    *)
(* raises, so whatever the RPCs above write must be admitted.              *)

CounterCheck(r) ==
    /\ r.fence_generation > 0
    /\ r.state = "PENDING" => r.attempt_count = 0
    /\ r.state = "LEASED" => r.attempt_count \in 0..2
    /\ r.state = "SENDING" => r.attempt_count \in 1..3
    /\ r.state = "RETRY_WAIT" => r.attempt_count \in 1..2

LeaseAndScheduleCheck(r) ==
    /\ (r.state \in {"LEASED", "SENDING"}) <=> (r.lease_id # 0)
    /\ (r.lease_id # 0) <=> (r.leased_at # 0)
    /\ (r.state \in ActiveStates) <=> (r.available_at # 0)
    /\ r.state = "RETRY_WAIT" =>
         r.available_at = r.resolved_at + RetryDelay(r.attempt_count)
    /\ (r.attempt_count = 0) <=> (r.last_attempt_started_at = 0)
    /\ r.attempt_count > 0 =>
         r.last_attempt_started_at + SendWindow < r.delivery_deadline_at
    /\ r.state = "SENDING" =>
         /\ r.last_attempt_started_at >= r.leased_at
         /\ r.last_attempt_started_at + SendWindow < LeaseExpires(r)

TerminalCheck(r) ==
    IF r.state \in ActiveStates
    THEN r.terminal_at = 0 /\ r.terminal_disposition = "none"
    ELSE /\ r.terminal_at # 0
         /\ LET closes(state, disposition, attempts) ==
                    /\ r.state = state /\ r.terminal_disposition = disposition
                    /\ r.attempt_count \in attempts
            IN  \/ closes("ACCEPTED", "accepted", 1..3)
                \/ closes("DELIVERY_OUTCOME_UNKNOWN", "delivery_outcome_unknown", 1..3)
                \/ closes("CANCELLED", "cancelled_pre_send", {0})
                \/ closes("EXPIRED", "expired_pre_send", {0})
                \/ closes("FAILED_TERMINAL", "provider_rejected", 1..3)
                \/ closes("FAILED_TERMINAL", "sender_unavailable_pre_send", 0..2)
                \/ closes("FAILED_TERMINAL", "retry_budget_exhausted", {3})
                \/ closes("FAILED_TERMINAL", "retry_deadline_exhausted", 1..2)
                \/ closes("FAILED_TERMINAL", "retry_unusable", 1..2)

RetryDispositions ==
    {"retry_budget_exhausted", "retry_deadline_exhausted", "retry_unusable"}

ProviderResolutionCheck(r) ==
    LET recording == {"recorded", "not_recorded"}
        outcome == r.resolution.provider_outcome
    IN  /\ r.resolution.fence_generation # 0
        /\ r.resolution.non_acceptance_proven <=> (outcome = "not_accepted_retryable")
        /\ outcome = "not_accepted_retryable" => r.challenge_recording = "not_applicable"
        /\ outcome # "not_accepted_retryable" => r.challenge_recording \in recording
        /\ CASE outcome = "accepted" -> r.state = "ACCEPTED"
             [] outcome = "rejected" -> r.terminal_disposition = "provider_rejected"
             [] outcome = "outcome_unknown" -> r.state = "DELIVERY_OUTCOME_UNKNOWN"
             [] outcome = "not_accepted_retryable" ->
                  \/ r.state \in {"LEASED", "SENDING", "RETRY_WAIT"}
                  \/ r.terminal_disposition \in RetryDispositions
             [] OTHER -> FALSE

ResolutionCheck(r) ==
    IF r.resolution.kind = "none"
    THEN /\ r.resolved_at = 0 /\ r.resolution = NoResolution
         /\ r.state \in {"PENDING", "LEASED", "SENDING"}
         /\ r.challenge_recording = "not_applicable"
    ELSE /\ r.resolved_at # 0
         /\ r.resolution.attempt_count <= r.attempt_count
         /\ \/ r.state \in {"LEASED", "SENDING"}
            \/ r.resolution.attempt_count = r.attempt_count
         /\ r.terminal_at = 0 \/ r.resolved_at = r.terminal_at
         /\ CASE r.resolution.kind = "provider" -> ProviderResolutionCheck(r)
              [] r.resolution.kind = "pre_send" ->
                   /\ r.terminal_disposition = "sender_unavailable_pre_send"
                   /\ r.resolution.provider_outcome = "none"
                   /\ ~r.resolution.non_acceptance_proven
                   /\ r.resolution.fence_generation # 0
                   /\ r.challenge_recording \in {"recorded", "not_recorded"}
              [] OTHER ->
                   /\ r.resolution.provider_outcome = "none"
                   /\ \/ /\ r.state = "DELIVERY_OUTCOME_UNKNOWN"
                         /\ r.resolution.kind = "recovery"
                         /\ ~r.resolution.non_acceptance_proven
                         /\ r.challenge_recording \in {"recorded", "not_recorded"}
                      \/ /\ r.state \in {"CANCELLED", "EXPIRED"}
                         /\ ~r.resolution.non_acceptance_proven
                         /\ r.challenge_recording = "not_applicable"
                      \/ /\ r.terminal_disposition \in
                                {"retry_unusable", "retry_deadline_exhausted"}
                         /\ r.resolution.non_acceptance_proven
                         /\ r.challenge_recording = "not_applicable"

\* The provenance a row needs before it may be claimed or closed once more.
PriorPositive(old) ==
    /\ old.attempt_count \in 1..2
    /\ old.resolution.kind = "provider"
    /\ old.resolution.provider_outcome = "not_accepted_retryable"
    /\ old.resolution.non_acceptance_proven
    /\ old.resolution.attempt_count = old.attempt_count
    /\ old.resolution.fence_generation # 0
    /\ old.challenge_recording = "not_applicable"

ResolutionMatches(old, new) ==
    /\ new.resolution.fence_generation =
         IF old.lease_id = 0 THEN 0 ELSE old.fence_generation
    /\ new.resolution.attempt_count = old.attempt_count

AdmitsClaim(old, new) ==
    /\ new.state = "LEASED"
    /\ \/ old.state = "PENDING" /\ old.attempt_count = 0 /\ old.resolution.kind = "none"
       \/ old.state = "RETRY_WAIT" /\ PriorPositive(old)
    /\ new = [old EXCEPT !.state = "LEASED", !.lease_id = new.lease_id,
                         !.leased_at = new.leased_at,
                         !.fence_generation = nextFence]

AdmitsBegin(old, new) ==
    /\ old.state = "LEASED" /\ new.state = "SENDING"
    /\ old.attempt_count = 0 \/ PriorPositive(old)
    /\ new = [old EXCEPT !.state = "SENDING", !.attempt_count = @ + 1,
                         !.last_attempt_started_at = new.last_attempt_started_at]

AdmitsRequeue(old, new) ==
    /\ old.state = "LEASED"
    /\ \/ old.attempt_count = 0 /\ old.resolution.kind = "none" /\ new.state = "PENDING"
       \/ PriorPositive(old) /\ new.state = "RETRY_WAIT"
    /\ new = [old EXCEPT !.state = new.state, !.lease_id = 0, !.leased_at = 0]

AdmitsRetry(old, new) ==
    /\ old.state = "SENDING" /\ old.attempt_count \in 1..2
    /\ new.state = "RETRY_WAIT" /\ ResolutionMatches(old, new)
    /\ new = [old EXCEPT !.state = "RETRY_WAIT", !.available_at = new.available_at,
                         !.lease_id = 0, !.leased_at = 0,
                         !.resolved_at = new.resolved_at,
                         !.resolution = new.resolution]
    /\ new.resolution.kind = "provider"
    /\ new.resolution.provider_outcome = "not_accepted_retryable"
    /\ new.resolution.non_acceptance_proven

NeverSentTerminal(old, new) ==
    /\ old.attempt_count = 0 /\ old.resolution.kind = "none"
    /\ old.state \in {"PENDING", "LEASED"}
    /\ ~new.resolution.non_acceptance_proven
    /\ <<new.state, new.terminal_disposition>> \in
         {<<"EXPIRED", "expired_pre_send">>, <<"CANCELLED", "cancelled_pre_send">>}

RetryTerminal(old, new) ==
    /\ PriorPositive(old) /\ old.state \in {"LEASED", "RETRY_WAIT"}
    /\ new.state = "FAILED_TERMINAL" /\ new.resolution.non_acceptance_proven
    /\ new.terminal_disposition \in {"retry_unusable", "retry_deadline_exhausted"}

AdmitsTerminal(old, new) ==
    /\ new.state \in TerminalStates /\ ResolutionMatches(old, new)
    /\ \/ /\ new.resolution.kind = "unusable" /\ old.state = "LEASED"
          /\ NeverSentTerminal(old, new) \/ RetryTerminal(old, new)
       \/ /\ new.resolution.kind = "recovery"
          /\ \/ NeverSentTerminal(old, new) \/ RetryTerminal(old, new)
             \/ old.state = "SENDING" /\ new.state = "DELIVERY_OUTCOME_UNKNOWN"
       \/ /\ new.resolution.kind = "provider" /\ old.state = "SENDING"
          /\ new.terminal_disposition = "retry_budget_exhausted" => old.attempt_count = 3
       \/ /\ new.resolution.kind = "pre_send" /\ old.state = "LEASED"
          /\ old.attempt_count = 0 \/ PriorPositive(old)
    /\ new.lease_id = 0 /\ new.leased_at = 0 /\ new.available_at = 0
    /\ new.attempt_count = old.attempt_count
    /\ new.fence_generation = old.fence_generation
    /\ new.delivery_deadline_at = old.delivery_deadline_at

AdmitsDelete(j, old, new) ==
    /\ old.state \in TerminalStates
    /\ old.terminal_at # 0 /\ old.terminal_at + Retention <= now
    /\ challenge[j].expires_at <= now
    /\ new.state = "absent"

AdmitsInsert(j, old, new) ==
    /\ old.state = "absent" /\ new.state = "PENDING"
    /\ new.attempt_count = 0 /\ new.resolution.kind = "none"
    /\ new.delivery_deadline_at = challenge[j].expires_at

-----------------------------------------------------------------------------
(* What the repository admits.  It parses the receipt of every RPC and takes *)
(* one it does not expect for a violated contract: the worker then goes on   *)
(* as if the call had failed, although the row has changed.                  *)

ClaimReceipt(r) ==
    /\ r.attempt_count \in 0 .. 2
    /\ r.available_at <= r.leased_at /\ r.leased_at = now
    /\ WindowOpen(r)

BeginTerminal(r) ==
    \/ /\ <<r.state, r.terminal_disposition>> = <<"EXPIRED", "expired_pre_send">>
       /\ r.attempt_count = 0 /\ ~WindowOpen(r)
    \/ /\ <<r.state, r.terminal_disposition>> = <<"CANCELLED", "cancelled_pre_send">>
       /\ r.attempt_count = 0 /\ WindowOpen(r)
    \/ /\ r.state = "FAILED_TERMINAL" /\ r.attempt_count \in 1 .. 2
       /\ \/ r.terminal_disposition = "retry_unusable"
          \/ r.terminal_disposition = "retry_deadline_exhausted" /\ ~WindowOpen(r)

BeginReceipt(f, r) ==
    \/ /\ r.state = "SENDING" /\ r.attempt_count >= 1 /\ r.lease_id = f
       /\ r.last_attempt_started_at = now /\ r.terminal_at = 0
       /\ now + SendWindow < LeaseExpires(r) /\ WindowOpen(r)
    \/ BeginTerminal(r) /\ r.lease_id = 0 /\ r.terminal_at = now

TerminalReceipt(r) ==
    /\ r.available_at = 0 /\ r.terminal_at = r.resolved_at
    /\ LET closed == <<r.state, r.terminal_disposition>> IN
       \/ r.attempt_count >= 1
          /\ closed \in {<<"ACCEPTED", "accepted">>, <<"FAILED_TERMINAL", "provider_rejected">>,
                         <<"DELIVERY_OUTCOME_UNKNOWN", "delivery_outcome_unknown">>}
       \/ r.attempt_count = 0
          /\ closed \in {<<"EXPIRED", "expired_pre_send">>, <<"CANCELLED", "cancelled_pre_send">>}
       \/ r.attempt_count <= 2 /\ closed = <<"FAILED_TERMINAL", "sender_unavailable_pre_send">>
       \/ r.attempt_count = 3 /\ closed = <<"FAILED_TERMINAL", "retry_budget_exhausted">>
       \/ r.attempt_count \in 1 .. 2
          /\ closed \in {"FAILED_TERMINAL"} \X {"retry_deadline_exhausted", "retry_unusable"}

FinalizeArguments(f) ==
    sess[f].attempt \in IF sess[f].outcome = "sender_unavailable" THEN 0 .. 2 ELSE 1 .. 3

\* What the receipt of finalize must say for the outcome that was passed in.
FinalizeReceipt(f, r) ==
    LET o == sess[f].outcome IN
    /\ FinalizeArguments(f) /\ r.attempt_count = sess[f].attempt
    /\ \/ /\ r.state = "RETRY_WAIT" /\ o = "not_accepted_retryable"
          /\ r.attempt_count \in 1 .. 2 /\ r.terminal_disposition = "none" /\ r.terminal_at = 0
          /\ r.available_at - r.resolved_at = RetryDelay(r.attempt_count)
       \/ /\ TerminalReceipt(r)
          /\ CASE o = "accepted" -> r.state = "ACCEPTED"
               [] o = "rejected" -> r.terminal_disposition = "provider_rejected"
               [] o = "outcome_unknown" -> r.state = "DELIVERY_OUTCOME_UNKNOWN"
               [] o = "sender_unavailable" ->
                    r.terminal_disposition = "sender_unavailable_pre_send"
               [] OTHER -> r.terminal_disposition \in RetryDispositions
    /\ r.challenge_recording \in IF o = "not_accepted_retryable" THEN {"not_applicable"}
                                 ELSE {"recorded", "not_recorded"}

\* recoveryFamilies: what recovery may make of a row, by its state before.
RecoveryFamily(old, r) ==
    LET closed == <<r.state, r.terminal_disposition>> IN
    \/ /\ old.state \in {"PENDING", "LEASED"} /\ r.attempt_count = 0
       /\ \/ closed \in {<<"EXPIRED", "expired_pre_send">>, <<"CANCELLED", "cancelled_pre_send">>}
          \/ old.state = "LEASED" /\ closed = <<"PENDING", "none">>
    \/ /\ old.state \in {"LEASED", "RETRY_WAIT"} /\ r.attempt_count \in 1 .. 2
       /\ \/ closed \in {"FAILED_TERMINAL"} \X {"retry_unusable", "retry_deadline_exhausted"}
          \/ old.state = "LEASED" /\ closed = <<"RETRY_WAIT", "none">>
    \/ /\ old.state = "SENDING" /\ r.attempt_count \in 1 .. 3
       /\ closed = <<"DELIVERY_OUTCOME_UNKNOWN", "delivery_outcome_unknown">>

RecoverReceipt(old, r) ==
    /\ RecoveryFamily(old, r)
    /\ r.challenge_recording \in IF old.state = "SENDING" THEN {"recorded", "not_recorded"}
                                 ELSE {"not_applicable"}
    /\ IF r.state \in {"PENDING", "RETRY_WAIT"} THEN r.terminal_at = 0 /\ r.available_at <= now
       ELSE TerminalReceipt(r) /\ r.terminal_at = now

-----------------------------------------------------------------------------
Sessions(j) == {f \in Fences : sess[f].pc # "unused" /\ sess[f].job = j}

\* A code is mailed at most once: of all the sessions that ever worked on a
\* job, across lost replies, crashes, expired leases and retries, at most one
\* left a message the provider has accepted or may yet accept.
AtMostOneAcceptance ==
    \A j \in Jobs : \A f, g \in Sessions(j) :
        {sess[f].mail, sess[g].mail} \subseteq {"in_flight", "accepted"} => f = g

\* While a session may still submit or await its mail, the row is its own: in
\* SENDING, under its fence, with the lease running and the code still valid.
\* invokeOnce checks only its local deadline; the RPCs must make that enough.
ProviderCallCovered ==
    \A f \in Fences :
        sess[f].pc \in {"begun", "calling"} /\ now < sess[f].deadline =>
            /\ HoldsLease(f, "SENDING")
            /\ outbox[sess[f].job].attempt_count = sess[f].attempt
            /\ now < challenge[sess[f].job].expires_at

\* The verdict on the challenge, which opens or closes code entry, and the row
\* of the outbox agree: finalize and recover write both, from two clock
\* readings.  A purged row no longer matters, its challenge has expired.
ChallengeMatchesOutbox ==
    \A j \in Jobs :
        LET c == challenge[j]
            r == outbox[j]
        IN  /\ c.delivery = "succeeded" =>
                 /\ \E f \in Sessions(j) : sess[f].mail = "accepted"
                 /\ \/ r.state = "ACCEPTED" /\ r.challenge_recording = "recorded"
                    \/ r.state = "absent" /\ c.expires_at <= now
            /\ r.challenge_recording = "recorded" =>
                 c.delivery = IF r.state = "ACCEPTED" THEN "succeeded" ELSE "failed"
            /\ c.delivery = "failed" =>
                 r.challenge_recording = "recorded" \/ r.state = "absent"

\* An answer "applied" from finalize reports what is stored: the row carries
\* the resolution of that very attempt until the purge drops it; only a row
\* scheduled for another attempt may move on, by a claim or by recovery.
ConfirmedIsStored ==
    \A f \in Fences :
        sess[f].pc = "confirmed" =>
            LET r == outbox[sess[f].job]
            IN  \/ Duplicate(f)
                \/ r.state = "absent"
                \/ /\ sess[f].outcome = "not_accepted_retryable"
                   /\ r.fence_generation > f \/ r.resolution.kind = "recovery"

\* What became of a code whose sessions' mails are "mails".
Fate(mails) ==
    CASE "accepted" \in mails -> "accepted"
      [] "accepted" \notin mails /\ "in_flight" \in mails -> "in_flight"
      [] mails \cap {"accepted", "in_flight"} = {} /\ "refused" \in mails -> "refused"
      [] OTHER -> "unsent"

MailOf(j) == Fate({sess[f].mail : f \in Sessions(j)})

Delivery == INSTANCE CodeDelivery WITH
    Codes <- Jobs,
    MaxTries <- MaxAttempts,
    mail <- [j \in Jobs |-> MailOf(j)],
    tries <- [j \in Jobs |->
                Cardinality({f \in Sessions(j) : sess[f].mail # "unsent"})],
    verdict <- [j \in Jobs |-> challenge[j].delivery]

\* Rows, leases, fences, sessions and recovery together implement the delivery
\* of a code: a mail is submitted again only after a proven refusal, never
\* after the verdict, and the verdict is final and truthful.
DeliversOnce == Delivery!Spec

RowConstraints(r) ==
    CounterCheck(r) /\ LeaseAndScheduleCheck(r) /\ TerminalCheck(r) /\ ResolutionCheck(r)

\* Every write of the RPCs leaves a row that passes the table's CHECK
\* constraints, and is one of the transition families the trigger admits, with
\* the provenance it asks of the row; otherwise it would raise, and the row
\* stay stuck.  RPCs, constraints and trigger state the protocol three times
\* and must agree on every reachable row.
TriggerAdmits ==
    [][\A j \in Jobs :
          LET old == outbox[j]
              new == outbox'[j]
          IN  new # old =>
                /\ new.state # "absent" => RowConstraints(new)
                /\ \/ AdmitsInsert(j, old, new) \/ AdmitsDelete(j, old, new)
                   \/ AdmitsClaim(old, new) \/ AdmitsBegin(old, new)
                   \/ AdmitsRequeue(old, new) \/ AdmitsRetry(old, new)
                   \/ AdmitsTerminal(old, new)]_vars

\* The repository admits the receipt of every call that changes a row and of
\* every repeated finalize: a worker never takes for a failed call what the
\* database has done, and a contract stated once more, on the client's side,
\* never keeps a session from its row.
ReceiptsAdmitted ==
    [][/\ outbox' # outbox =>
            /\ \A w \in Workers, j \in Jobs :
                 /\ ClaimOne(w, j) => ClaimReceipt(outbox'[j])
                 /\ RecoverOne(w, j) => RecoverReceipt(outbox[j], outbox'[j])
            /\ \A f \in Fences :
                 /\ BeginApplied(f) \/ BeginUnsendable(f) =>
                      BeginReceipt(f, outbox'[sess[f].job])
                 /\ FinalizeRetryable(f) \/ FinalizeSettled(f) =>
                      FinalizeReceipt(f, outbox'[sess[f].job])
       /\ \A f \in Fences :
            FinalizeDuplicate(f) => FinalizeReceipt(f, outbox[sess[f].job])]_vars

\* An enqueued code is eventually mailed, given up or expired, whatever dies.
EnqueuedEnds ==
    \A j \in Jobs : outbox[j].state \in ActiveStates
                        ~> outbox[j].state \notin ActiveStates

-----------------------------------------------------------------------------
(* An inductive invariant that implies AtMostOneAcceptance and              *)
(* ProviderCallCovered.                                                     *)

OwnsRow(f, state) ==
    LET r == outbox[sess[f].job]
    IN  r.state = state /\ r.lease_id = f /\ r.fence_generation = f

\* A claim and the row it leased count the same attempts.
ClaimAgrees ==
    \A f \in Fences :
        sess[f].pc \in {"claimed", "begin_sent"} /\ OwnsRow(f, "LEASED") =>
            sess[f].attempt = outbox[sess[f].job].attempt_count

\* The session took its deadline no later than begin_send takes its own.
BegunInTime ==
    \A f \in Fences :
        sess[f].pc = "begin_sent" => sess[f].deadline <= now + SendWindow

DeadlineIsExpiry ==
    \A j \in Jobs :
        outbox[j].state # "absent" =>
            /\ challenge[j].requested
            /\ outbox[j].delivery_deadline_at = challenge[j].expires_at

\* Until its deadline a session owns the row it is sending.
CallOwnsRow ==
    \A f \in Fences :
        sess[f].pc \in {"begun", "calling"} /\ now < sess[f].deadline =>
            /\ OwnsRow(f, "SENDING")
            /\ sess[f].attempt = outbox[sess[f].job].attempt_count
            /\ sess[f].deadline <= LeaseExpires(outbox[sess[f].job])
            /\ sess[f].deadline <= challenge[sess[f].job].expires_at

RefusalProven ==
    \A f \in Fences :
        sess[f].pc = "final_sent" /\ sess[f].outcome = "not_accepted_retryable" =>
            sess[f].mail = "refused"

\* A mail that may be delivered keeps its row from ever being claimed again.
MailClosesRow ==
    \A f \in Fences :
        sess[f].pc # "unused" /\ sess[f].mail \in {"in_flight", "accepted"} =>
            LET j == sess[f].job
            IN  \/ OwnsRow(f, "SENDING")
                \/ outbox[j].state \in TerminalStates
                \/ /\ outbox[j].state = "absent" /\ challenge[j].requested
                   /\ challenge[j].expires_at <= now

\* Why a code is mailed at most once: the row belongs to the session that may
\* still deliver, or is closed.  Proved to be inductive in EmailOutboxProofs.
DeliveryInv ==
    /\ TypeOK
    /\ ClaimAgrees /\ BegunInTime /\ DeadlineIsExpiry /\ CallOwnsRow
    /\ RefusalProven /\ MailClosesRow /\ AtMostOneAcceptance
=============================================================================
