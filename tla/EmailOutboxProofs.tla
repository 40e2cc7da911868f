------------------------- MODULE EmailOutboxProofs -------------------------
(***************************************************************************)
(* Proofs about the e-mail outbox, for any number of jobs, workers and     *)
(* fences and any durations, and about the runtime of its worker, for any  *)
(* batch of jobs.  The two share no variable.                              *)
(***************************************************************************)
EXTENDS EmailOutbox, EmailWorkerRuntime, FiniteSetTheorems, TLAPS

-----------------------------------------------------------------------------
(* The rows the RPCs compute are rows.                                     *)

\* A resolution built from a typed row is one the columns can hold.
LEMMA ResolvedType ==
    ASSUME NEW r \in Row, NEW outcome \in {"none"} \cup ProviderOutcomes,
           NEW kind \in {"provider", "pre_send", "recovery", "unusable"},
           NEW proven \in BOOLEAN
    PROVE  Resolved(r, kind, outcome, proven) \in Resolution
<1>1. ClosingFence(r) \in Nat /\ ClosingAttempt(r) \in 0..MaxAttempts
  BY DEF ClosingFence, ClosingAttempt, Row
<1>2. kind \in {"none", "provider", "pre_send", "recovery", "unusable"}
  OBVIOUS
<1> QED
  BY <1>1, <1>2, Zenon DEF Resolved, Resolution

\* Closing a typed row (finalize, recover, begin_send) yields a typed row.
LEMMA TerminalType ==
    ASSUME now \in Nat, NEW r \in Row, NEW final \in TerminalStates,
           NEW disposition \in Dispositions,
           NEW kind \in {"provider", "pre_send", "recovery", "unusable"},
           NEW outcome \in {"none"} \cup ProviderOutcomes,
           NEW proven \in BOOLEAN,
           NEW recording \in {"not_applicable", "recorded", "not_recorded"}
    PROVE  Terminal(r, final, disposition, kind, outcome, proven, recording) \in Row
<1>1. 0 \in Nat
  OBVIOUS
<1>2. final \in {"absent"} \cup ActiveStates \cup TerminalStates
  OBVIOUS
<1>3. disposition \in {"none"} \cup Dispositions
  OBVIOUS
<1>4. Resolved(r, kind, outcome, proven) \in Resolution
  BY ResolvedType
<1> QED
  BY <1>1, <1>2, <1>3, <1>4, ZenonT(60) DEF Terminal, Row

\* So does giving up a row that must not be sent.
LEMMA UnsendableType ==
    ASSUME now \in Nat, NEW r \in Row,
           NEW kind \in {"recovery", "unusable"}, NEW usable
    PROVE  Unsendable(r, kind, usable) \in Row
<1> DEFINE disposition ==
            IF r.attempt_count = 0
            THEN IF WindowOpen(r) THEN "cancelled_pre_send" ELSE "expired_pre_send"
            ELSE IF usable THEN "retry_deadline_exhausted" ELSE "retry_unusable"
        final ==
            CASE disposition = "expired_pre_send" -> "EXPIRED"
              [] disposition = "cancelled_pre_send" -> "CANCELLED"
              [] OTHER -> "FAILED_TERMINAL"
<1>1. disposition \in {"cancelled_pre_send", "expired_pre_send",
                       "retry_deadline_exhausted", "retry_unusable"}
  OBVIOUS
<1>2. disposition \in Dispositions
  BY <1>1 DEF Dispositions
<1>3. final \in TerminalStates
  BY <1>1 DEF TerminalStates
<1>4. (r.attempt_count > 0) \in BOOLEAN
  OBVIOUS
<1>5. Unsendable(r, kind, usable) =
        Terminal(r, final, disposition, kind, "none", r.attempt_count > 0,
                 "not_applicable")
  BY DEF Unsendable
<1> HIDE DEF disposition, final
<1> QED
  BY <1>2, <1>3, <1>4, <1>5, TerminalType

\* So does scheduling another attempt in finalize.
LEMMA RescheduledType ==
    ASSUME now \in Nat, NEW r \in Row, NEW available \in Nat
    PROVE  Rescheduled(r, available) \in Row
<1>1. Resolved(r, "provider", "not_accepted_retryable", TRUE) \in Resolution
  BY ResolvedType DEF ProviderOutcomes
<1>2. "RETRY_WAIT" \in {"absent"} \cup ActiveStates \cup TerminalStates
  BY DEF ActiveStates
<1>3. 0 \in Nat
  OBVIOUS
<1> QED
  BY <1>1, <1>2, <1>3, ZenonT(30) DEF Rescheduled, Row

\* The delivery recorder leaves a typed challenge.
LEMMA RecordedType ==
    ASSUME NEW j \in Jobs, challenge[j] \in Challenge, NEW succeeded \in BOOLEAN
    PROVE  Recorded(j, succeeded) \in Challenge
  BY DEF Recorded, Challenge

\* Recovery puts a typed row back.
LEMMA RequeuedType ==
    ASSUME NEW r \in Row
    PROVE  Requeued(r) \in Row
<1>1. RequeuedState(r) \in {"absent"} \cup ActiveStates \cup TerminalStates
  BY DEF RequeuedState, ActiveStates
<1>2. 0 \in Nat
  OBVIOUS
<1> QED
  BY <1>1, <1>2, Zenon DEF Requeued, Row

\* The absent row, which purge leaves behind, is typed.
LEMMA NoRowType == NoRow \in Row
  BY DEF NoRow, Row, NoResolution, Resolution, MaxAttempts

\* A session that is not unused has the type of its record.
LEMMA SessionType ==
    ASSUME TypeOK, NEW f \in Fences, sess[f].pc # "unused"
    PROVE  sess[f] \in Session
<1>1. sess[f] \in Session \cup {NoSession}
  BY DEF TypeOK
<1>2. NoSession.pc = "unused"
  BY DEF NoSession
<1> QED
  BY <1>1, <1>2

-----------------------------------------------------------------------------
(* Type correctness, action by action.                                     *)

\* The clock and what happens to challenges preserve the types.
LEMMA EnvironmentTyped ==
    ASSUME TypeOK, Environment
    PROVE  TypeOK'
<1>1. CASE Tick
  BY <1>1 DEF TypeOK, Tick
<1>2. ASSUME NEW j \in Jobs, RequestChallenge(j)
      PROVE  TypeOK'
  <2>1. PICK life \in Lifetimes : challenge' = [challenge EXCEPT ![j] =
            [requested |-> TRUE, has_email |-> TRUE, superseded |-> FALSE,
             delivery |-> "none", expires_at |-> now + life]]
    BY <1>2 DEF RequestChallenge
  <2>2. now + life \in Nat
    BY TimingAssumption DEF TypeOK
  <2>3. [requested |-> TRUE, has_email |-> TRUE, superseded |-> FALSE,
         delivery |-> "none", expires_at |-> now + life] \in Challenge
    BY <2>2, Zenon DEF Challenge
  <2> QED
    BY <1>2, <2>1, <2>3, Zenon DEF TypeOK, RequestChallenge
<1>3. ASSUME NEW j \in Jobs, SupersedeChallenge(j)
      PROVE  TypeOK'
  <2>1. [challenge[j] EXCEPT !.superseded = TRUE, !.has_email = FALSE] \in Challenge
    BY Zenon DEF TypeOK, Challenge
  <2> QED
    BY <1>3, <2>1, Zenon DEF TypeOK, SupersedeChallenge
<1>4. ASSUME NEW j \in Jobs, ScrubChallenge(j)
      PROVE  TypeOK'
  <2>1. [challenge[j] EXCEPT !.has_email = FALSE] \in Challenge
    BY Zenon DEF TypeOK, Challenge
  <2> QED
    BY <1>4, <2>1, Zenon DEF TypeOK, ScrubChallenge
<1>5. ASSUME NEW j \in Jobs, ChangeAuthority(j)
      PROVE  TypeOK'
  BY <1>5 DEF TypeOK, ChangeAuthority
<1> QED
  BY <1>1, <1>2, <1>3, <1>4, <1>5 DEF Environment

\* Selecting candidates preserves the types.
LEMMA StartScanTyped ==
    ASSUME TypeOK, NEW w \in Workers, NEW kind \in {"claim", "recover"},
           NEW ready \in SUBSET Jobs, NEW key, StartScan(w, kind, ready, key)
    PROVE  TypeOK'
<1>1. PICK rows \in FirstBatch(ready, key) : scan' = [scan EXCEPT ![w] =
            [kind |-> kind, rows |-> rows,
             located |-> {j \in rows : authority[j]}, started |-> now]]
  BY DEF StartScan
<1>2. rows \in SUBSET Jobs /\ {j \in rows : authority[j]} \in SUBSET Jobs
  BY DEF FirstBatch
<1>3. [kind |-> kind, rows |-> rows,
       located |-> {j \in rows : authority[j]}, started |-> now] \in Scan
  BY <1>2 DEF Scan, TypeOK
<1> QED
  BY <1>1, <1>3, Zenon DEF TypeOK, StartScan

\* So does dropping a candidate that was decided.
LEMMA ScanDoneTyped ==
    ASSUME TypeOK, NEW w \in Workers, NEW j, ScanDone(w, j)
    PROVE  scan' \in [Workers -> Scan]
<1>1. NoScan \in Scan
  BY DEF NoScan, Scan
<1>2. [scan[w] EXCEPT !.rows = @ \ {j}] \in Scan
  BY DEF TypeOK, Scan
<1> QED
  BY <1>1, <1>2, Zenon DEF ScanDone, TypeOK

\* enqueue preserves the types.
LEMMA EnqueueTyped ==
    ASSUME TypeOK, NEW j \in Jobs, Enqueue(j)
    PROVE  TypeOK'
<1> DEFINE row == [NoRow EXCEPT !.state = "PENDING", !.fence_generation = nextFence,
                                !.available_at = now,
                                !.delivery_deadline_at = challenge[j].expires_at]
<1>1. nextFence \in Nat /\ challenge[j].expires_at \in Nat
      /\ nextFence + 1 \in 1..(MaxFence + 1)
  BY BoundAssumption DEF TypeOK, Challenge, Enqueue
<1>2. "PENDING" \in {"absent"} \cup ActiveStates \cup TerminalStates
  BY DEF ActiveStates
<1>3. row \in Row
  BY <1>1, <1>2, NoRowType, ZenonT(30) DEF Row, TypeOK
<1> QED
  BY <1>1, <1>3, Zenon DEF Enqueue, TypeOK

\* Claiming one row preserves the types: the fence drawn is in range.
LEMMA ClaimOneTyped ==
    ASSUME TypeOK, NEW w \in Workers, NEW j \in Jobs, ClaimOne(w, j)
    PROVE  TypeOK'
<1> DEFINE row == [outbox[j] EXCEPT !.state = "LEASED", !.lease_id = nextFence,
                                    !.leased_at = now, !.fence_generation = nextFence]
           session == [job |-> j, pc |-> "claimed",
                       deadline |-> scan[w].started + LeaseTtl,
                       attempt |-> outbox[j].attempt_count, outcome |-> "none",
                       mail |-> "unsent"]
<1>1. /\ nextFence \in Fences /\ nextFence \in Nat
      /\ nextFence + 1 \in 1..(MaxFence + 1)
  BY BoundAssumption DEF TypeOK, ClaimOne, Fences
<1>2. "LEASED" \in {"absent"} \cup ActiveStates \cup TerminalStates
  BY DEF ActiveStates
<1>3. row \in Row
  BY <1>1, <1>2, ZenonT(30) DEF TypeOK, Row
<1>4. /\ scan[w].started + LeaseTtl \in Nat
      /\ outbox[j].attempt_count \in 0..MaxAttempts
  BY TimingAssumption DEF TypeOK, Scan, Row
<1>5. session \in Session
  BY <1>4, Zenon DEF Session
<1>6. scan' \in [Workers -> Scan]
  BY ScanDoneTyped DEF ClaimOne
<1> QED
  BY <1>1, <1>3, <1>5, <1>6, Zenon DEF ClaimOne, TypeOK

\* A terminal decision that may also be recorded on the challenge
\* preserves the types (finalize and recover).
LEMMA VerdictTyped ==
    ASSUME TypeOK, NEW j \in Jobs, NEW t, NEW succeeded \in BOOLEAN,
           challenge' = [challenge EXCEPT ![j] =
                IF Recordable(j, t) THEN Recorded(j, succeeded) ELSE @]
    PROVE  challenge' \in [Jobs -> Challenge]
<1> DEFINE c == IF Recordable(j, t) THEN Recorded(j, succeeded) ELSE challenge[j]
<1>1. challenge[j] \in Challenge
  BY DEF TypeOK
<1>2. c \in Challenge
  BY <1>1, RecordedType
<1> QED
  BY <1>2, Zenon DEF TypeOK

\* Recovering one row preserves the types.
LEMMA RecoverOneTyped ==
    ASSUME TypeOK, NEW w \in Workers, NEW j \in Jobs, RecoverOne(w, j)
    PROVE  TypeOK'
<1>1. outbox[j] \in Row /\ challenge[j] \in Challenge /\ now \in Nat
  BY DEF TypeOK
<1>2. scan' \in [Workers -> Scan]
  BY ScanDoneTyped DEF RecoverOne, RecoverSending, RecoverLeased,
                       RecoverUnsendable, RecoverSkip
<1>3. CASE RecoverSending(w, j)
  <2>1. PICK recordedAt \in {now, now + 1} :
          /\ challenge' = [challenge EXCEPT ![j] =
                IF Recordable(j, recordedAt) THEN Recorded(j, FALSE) ELSE @]
          /\ outbox' = [outbox EXCEPT ![j] =
                Terminal(@, "DELIVERY_OUTCOME_UNKNOWN",
                         "delivery_outcome_unknown", "recovery", "none", FALSE,
                         IF Recordable(j, recordedAt) THEN "recorded"
                         ELSE "not_recorded")]
    BY <1>3 DEF RecoverSending
  <2>2. challenge' \in [Jobs -> Challenge]
    BY <2>1, VerdictTyped
  <2>3. Terminal(outbox[j], "DELIVERY_OUTCOME_UNKNOWN",
                 "delivery_outcome_unknown", "recovery", "none", FALSE,
                 IF Recordable(j, recordedAt) THEN "recorded"
                 ELSE "not_recorded") \in Row
    <3>1. /\ "DELIVERY_OUTCOME_UNKNOWN" \in TerminalStates
          /\ "delivery_outcome_unknown" \in Dispositions
          /\ FALSE \in BOOLEAN
      BY DEF TerminalStates, Dispositions
    <3>2. (IF Recordable(j, recordedAt) THEN "recorded" ELSE "not_recorded")
            \in {"not_applicable", "recorded", "not_recorded"}
      OBVIOUS
    <3> QED
      BY <1>1, <3>1, <3>2, TerminalType
  <2>4. outbox' \in [Jobs -> Row]
    BY <2>1, <2>3, Zenon DEF TypeOK
  <2> QED
    BY <1>2, <1>3, <2>2, <2>4 DEF TypeOK, RecoverSending
<1>4. CASE RecoverLeased(w, j)
  <2>1. Requeued(outbox[j]) \in Row
    BY <1>1, RequeuedType
  <2> QED
    BY <1>2, <1>4, <2>1, Zenon DEF TypeOK, RecoverLeased
<1>5. CASE RecoverUnsendable(w, j)
  <2>1. Unsendable(outbox[j], "recovery", Usable(j, scan[w].located)) \in Row
    BY <1>1, UnsendableType
  <2> QED
    BY <1>2, <1>5, <2>1, Zenon DEF TypeOK, RecoverUnsendable
<1>6. CASE RecoverSkip(w, j)
  BY <1>2, <1>6 DEF TypeOK, RecoverSkip
<1> QED
  BY <1>3, <1>4, <1>5, <1>6 DEF RecoverOne

\* Every RPC no session waits for preserves the types.
LEMMA ScanningTyped ==
    ASSUME TypeOK, Scanning
    PROVE  TypeOK'
<1>1. ASSUME NEW j \in Jobs, Purge(j)
      PROVE  TypeOK'
  BY <1>1, NoRowType, Zenon DEF TypeOK, Purge
<1>2. ASSUME NEW w \in Workers, ClaimSelect(w) \/ RecoverSelect(w)
      PROVE  TypeOK'
  BY <1>2, StartScanTyped DEF ClaimSelect, RecoverSelect
<1>3. ASSUME NEW w \in Workers, AbortScan(w)
      PROVE  TypeOK'
  <2>1. NoScan \in Scan
    BY DEF NoScan, Scan
  <2> QED
    BY <1>3, <2>1, Zenon DEF TypeOK, AbortScan
<1>4. ASSUME NEW w \in Workers, NEW j \in Jobs, ClaimSkip(w, j)
      PROVE  TypeOK'
  BY <1>4, ScanDoneTyped DEF TypeOK, ClaimSkip
<1> QED
  BY <1>1, <1>2, <1>3, <1>4, EnqueueTyped, ClaimOneTyped, RecoverOneTyped DEF Scanning

\* A session that ends is typed.
LEMMA FinishTyped ==
    ASSUME TypeOK, NEW f \in Fences, sess[f].pc # "unused", Finish(f)
    PROVE  sess' \in [Fences -> Session \cup {NoSession}]
<1>1. sess[f] \in Session
  BY SessionType
<1>2. 0 \in Nat /\ 0 \in 0..MaxAttempts
  BY DEF MaxAttempts
<1>3. [sess[f] EXCEPT !.pc = "done", !.deadline = 0, !.attempt = 0,
                      !.outcome = "none"] \in Session
  BY <1>1, <1>2, Zenon DEF Session
<1> QED
  BY <1>3, Zenon DEF Finish, TypeOK

\* So is one whose finalize was answered, or not.
LEMMA FinalizeAnsweredTyped ==
    ASSUME TypeOK, NEW f \in Fences, sess[f].pc # "unused", FinalizeAnswered(f)
    PROVE  sess' \in [Fences -> Session \cup {NoSession}]
<1>1. [sess[f] EXCEPT !.pc = "confirmed"] \in Session
  BY SessionType, Zenon DEF Session
<1>2. CASE UNCHANGED sess
  BY <1>2 DEF TypeOK
<1>3. CASE sess' = [sess EXCEPT ![f].pc = "confirmed"]
  BY <1>1, <1>3, Zenon DEF TypeOK
<1> QED
  BY <1>2, <1>3, FinishTyped DEF FinalizeAnswered

\* begin_send preserves the types: an attempt is added only below the limit.
LEMMA BeginTyped ==
    ASSUME TypeOK, NEW f \in Fences,
           BeginApplied(f) \/ BeginUnsendable(f) \/ BeginRefused(f),
           BeginApplied(f) => sess[f].attempt < MaxAttempts
    PROVE  TypeOK'
<1> DEFINE j == sess[f].job
<1>1. /\ sess[f].pc = "begin_sent" /\ sess[f] \in Session
      /\ j \in Jobs /\ outbox[j] \in Row /\ now \in Nat
  <2>1. sess[f].pc = "begin_sent"
    BY DEF BeginApplied, BeginUnsendable, BeginRefused
  <2>2. sess[f] \in Session
    BY <2>1, SessionType
  <2> QED
    BY <2>1, <2>2 DEF TypeOK, Session
<1>2. CASE BeginApplied(f)
  <2>1. outbox[j].attempt_count + 1 \in 0..MaxAttempts
    BY <1>1, <1>2 DEF BeginApplied, Sendable, Row, MaxAttempts
  <2>2. "SENDING" \in {"absent"} \cup ActiveStates \cup TerminalStates
    BY DEF ActiveStates
  <2>3. [outbox[j] EXCEPT !.state = "SENDING", !.attempt_count = @ + 1,
                          !.last_attempt_started_at = now] \in Row
    BY <1>1, <2>1, <2>2, Zenon DEF Row
  <2>4. outbox' \in [Jobs -> Row]
    BY <1>2, <2>3, Zenon DEF BeginApplied, TypeOK
  <2>5. sess[f].attempt + 1 \in 0..MaxAttempts
    BY <1>1, <1>2 DEF Session, MaxAttempts
  <2>6. [sess[f] EXCEPT !.pc = "begun", !.attempt = @ + 1] \in Session
    BY <1>1, <2>5, Zenon DEF Session
  <2>7. sess' \in [Fences -> Session \cup {NoSession}]
    <3>1. CASE sess' = [sess EXCEPT ![f].pc = "begun", ![f].attempt = @ + 1]
      BY <2>6, <3>1, Zenon DEF TypeOK
    <3> QED
      BY <1>1, <1>2, <3>1, FinishTyped DEF BeginApplied
  <2> QED
    BY <1>1, <1>2, <2>4, <2>7 DEF BeginApplied, TypeOK
<1>3. CASE BeginUnsendable(f)
  <2>1. Unsendable(outbox[j], "unusable", Usable(j, Jobs)) \in Row
    BY <1>1, UnsendableType
  <2>2. outbox' \in [Jobs -> Row]
    BY <1>3, <2>1, Zenon DEF BeginUnsendable, TypeOK
  <2> QED
    BY <1>1, <1>3, <2>2, FinishTyped DEF BeginUnsendable, TypeOK
<1>4. CASE BeginRefused(f)
  BY <1>1, <1>4, FinishTyped DEF BeginRefused, TypeOK
<1> QED
  BY <1>2, <1>3, <1>4

\* finalize of a proven refusal preserves the types.
LEMMA FinalizeRetryableTyped ==
    ASSUME TypeOK, NEW f \in Fences, FinalizeRetryable(f)
    PROVE  TypeOK'
<1> DEFINE j == sess[f].job
<1>1. /\ sess[f].pc # "unused" /\ j \in Jobs
      /\ outbox[j] \in Row /\ now \in Nat
  BY SessionType DEF FinalizeRetryable, TypeOK, Session
<1>2. NextAvailable(j) \in Nat
  BY <1>1, TimingAssumption DEF NextAvailable, RetryDelay
<1>3. Rescheduled(outbox[j], NextAvailable(j)) \in Row
  BY <1>1, <1>2, RescheduledType
<1>4. GiveUpDisposition(j) \in Dispositions
  BY DEF GiveUpDisposition, Dispositions
<1>5. Terminal(outbox[j], "FAILED_TERMINAL", GiveUpDisposition(j), "provider",
               "not_accepted_retryable", TRUE, "not_applicable") \in Row
  BY <1>1, <1>4, TerminalType DEF TerminalStates, ProviderOutcomes
<1>6. outbox' \in [Jobs -> Row]
  <2>1. CASE MayRetry(j)
    BY <1>3, <2>1, Zenon DEF FinalizeRetryable, TypeOK
  <2>2. CASE ~MayRetry(j)
    BY <1>5, <2>2, Zenon DEF FinalizeRetryable, TypeOK
  <2> QED
    BY <2>1, <2>2
<1> QED
  BY <1>1, <1>6, FinalizeAnsweredTyped DEF FinalizeRetryable, TypeOK

\* finalize of every other outcome preserves the types.
LEMMA FinalizeSettledTyped ==
    ASSUME TypeOK, NEW f \in Fences, FinalizeSettled(f)
    PROVE  TypeOK'
<1> DEFINE j == sess[f].job
           o == sess[f].outcome
           final == CASE o = "accepted" -> "ACCEPTED"
                      [] o = "outcome_unknown" -> "DELIVERY_OUTCOME_UNKNOWN"
                      [] OTHER -> "FAILED_TERMINAL"
           disposition == CASE o = "accepted" -> "accepted"
                            [] o = "outcome_unknown" -> "delivery_outcome_unknown"
                            [] o = "rejected" -> "provider_rejected"
                            [] OTHER -> "sender_unavailable_pre_send"
<1>1. /\ sess[f].pc # "unused" /\ j \in Jobs
      /\ outbox[j] \in Row /\ now \in Nat
      /\ o \in {"none", "sender_unavailable"} \cup ProviderOutcomes
  BY SessionType DEF FinalizeSettled, TypeOK, Session
<1>2. final \in TerminalStates
  BY DEF TerminalStates
<1>3. disposition \in Dispositions
  BY DEF Dispositions
<1>4. ResolutionKind(f) \in {"provider", "pre_send", "recovery", "unusable"}
  BY DEF ResolutionKind
<1>5. ProviderOutcome(f) \in {"none"} \cup ProviderOutcomes
  BY <1>1 DEF ProviderOutcome
<1>6. PICK recordedAt \in {now, now + 1} :
        /\ challenge' = [challenge EXCEPT ![j] =
              IF Recordable(j, recordedAt) THEN Recorded(j, o = "accepted") ELSE @]
        /\ outbox' = [outbox EXCEPT ![j] =
              Terminal(@, final, disposition, ResolutionKind(f), ProviderOutcome(f), FALSE,
                       IF Recordable(j, recordedAt) THEN "recorded"
                       ELSE "not_recorded")]
  BY DEF FinalizeSettled
<1> HIDE DEF final, disposition
<1>7. challenge' \in [Jobs -> Challenge]
  <2>1. (o = "accepted") \in BOOLEAN
    OBVIOUS
  <2> QED
    BY <1>1, <1>6, <2>1, VerdictTyped
<1>8. Terminal(outbox[j], final, disposition, ResolutionKind(f), ProviderOutcome(f),
               FALSE, IF Recordable(j, recordedAt) THEN "recorded"
                      ELSE "not_recorded") \in Row
  BY <1>1, <1>2, <1>3, <1>4, <1>5, TerminalType
<1>9. outbox' \in [Jobs -> Row]
  BY <1>6, <1>8, Zenon DEF TypeOK
<1> QED
  BY <1>1, <1>7, <1>9, FinalizeAnsweredTyped DEF FinalizeSettled, TypeOK

\* Every step of an engine session preserves the types.
LEMMA SendingTyped ==
    ASSUME TypeOK, Sending,
           \A f \in Fences : BeginApplied(f) => sess[f].attempt < MaxAttempts
    PROVE  TypeOK'
<1>1. ASSUME NEW f \in Fences, Abandon(f)
      PROVE  TypeOK'
  BY <1>1, FinishTyped DEF Abandon, TypeOK
<1>2. ASSUME NEW f \in Fences, SenderUnavailable(f)
      PROVE  TypeOK'
  <2>1. [sess[f] EXCEPT !.pc = "final_sent", !.outcome = "sender_unavailable"] \in Session
    BY <1>2, SessionType, Zenon DEF SenderUnavailable, Session
  <2> QED
    BY <1>2, <2>1, Zenon DEF SenderUnavailable, TypeOK
<1>3. ASSUME NEW f \in Fences, BeginCall(f)
      PROVE  TypeOK'
  <2> DEFINE d == IF now + SendWindow < sess[f].deadline
                  THEN now + SendWindow ELSE sess[f].deadline
  <2>1. sess[f] \in Session
    BY <1>3, SessionType DEF BeginCall, SendDeadline
  <2>2. d \in Nat
    BY <2>1, TimingAssumption DEF TypeOK, Session
  <2>3. sess' = [sess EXCEPT ![f].pc = "begin_sent", ![f].deadline = d]
    BY <1>3 DEF BeginCall, SendDeadline
  <2> HIDE DEF d
  <2>4. [sess[f] EXCEPT !.pc = "begin_sent", !.deadline = d] \in Session
    BY <2>1, <2>2, Zenon DEF Session
  <2> QED
    BY <1>3, <2>3, <2>4, Zenon DEF BeginCall, SendDeadline, TypeOK
<1>4. ASSUME NEW f \in Fences, Invoke(f)
      PROVE  TypeOK'
  <2>1. [sess[f] EXCEPT !.pc = "calling", !.mail = "in_flight"] \in Session
    BY <1>4, SessionType, Zenon DEF Invoke, Session
  <2> QED
    BY <1>4, <2>1, Zenon DEF Invoke, TypeOK
<1>5. ASSUME NEW f \in Fences, ProviderDecides(f)
      PROVE  TypeOK'
  <2>1. PICK mail \in {"accepted", "refused"} : sess' = [sess EXCEPT ![f].mail = mail]
    BY <1>5 DEF ProviderDecides
  <2>2. [sess[f] EXCEPT !.mail = mail] \in Session
    BY <1>5, SessionType DEF ProviderDecides, Session
  <2> QED
    BY <1>5, <2>1, <2>2, Zenon DEF ProviderDecides, TypeOK
<1>6. ASSUME NEW f \in Fences, Settle(f)
      PROVE  TypeOK'
  <2>1. PICK o \in ProviderOutcomes :
          sess' = [sess EXCEPT ![f].pc = "final_sent", ![f].outcome = o]
    BY <1>6 DEF Settle
  <2>2. [sess[f] EXCEPT !.pc = "final_sent", !.outcome = o] \in Session
    BY <1>6, SessionType, Zenon DEF Settle, Session
  <2> QED
    BY <1>6, <2>1, <2>2, Zenon DEF Settle, TypeOK
<1>7. ASSUME NEW f \in Fences, FinalizeDuplicate(f)
      PROVE  TypeOK'
  BY <1>7, FinalizeAnsweredTyped DEF FinalizeDuplicate, TypeOK
<1>8. ASSUME NEW f \in Fences, FinalizeRefused(f)
      PROVE  TypeOK'
  BY <1>8, FinishTyped DEF FinalizeRefused, TypeOK
<1> QED
  BY <1>1, <1>2, <1>3, <1>4, <1>5, <1>6, <1>7, <1>8, BeginTyped,
     FinalizeRetryableTyped, FinalizeSettledTyped DEF Sending

-----------------------------------------------------------------------------
(* What the computed rows keep and set.                                    *)

\* The fields of a closed row that the invariants speak of.
LEMMA TerminalFields ==
    ASSUME NEW r \in Row, NEW final, NEW disposition, NEW kind, NEW outcome,
           NEW proven, NEW recording
    PROVE  /\ Terminal(r, final, disposition, kind, outcome, proven, recording).state
                = final
           /\ Terminal(r, final, disposition, kind, outcome, proven, recording)
                .delivery_deadline_at = r.delivery_deadline_at
           /\ Terminal(r, final, disposition, kind, outcome, proven, recording)
                .challenge_recording = recording
           /\ Terminal(r, final, disposition, kind, outcome, proven, recording)
                .attempt_count = r.attempt_count
  BY DEF Terminal, Row

\* The same of a row given up.
LEMMA UnsendableFields ==
    ASSUME NEW r \in Row, NEW kind, NEW usable
    PROVE  /\ Unsendable(r, kind, usable).state \in TerminalStates \ {"ACCEPTED"}
           /\ Unsendable(r, kind, usable).delivery_deadline_at = r.delivery_deadline_at
           /\ Unsendable(r, kind, usable).challenge_recording = "not_applicable"
           /\ Unsendable(r, kind, usable).attempt_count = r.attempt_count
<1>1. {"EXPIRED", "CANCELLED", "FAILED_TERMINAL"} \subseteq TerminalStates \ {"ACCEPTED"}
  BY DEF TerminalStates
<1> QED
  BY <1>1, TerminalFields DEF Unsendable

\* The same of a row scheduled again.
LEMMA RescheduledFields ==
    ASSUME NEW r \in Row, NEW available
    PROVE  /\ Rescheduled(r, available).state = "RETRY_WAIT"
           /\ Rescheduled(r, available).delivery_deadline_at = r.delivery_deadline_at
           /\ Rescheduled(r, available).challenge_recording = r.challenge_recording
           /\ Rescheduled(r, available).attempt_count = r.attempt_count
  BY DEF Rescheduled, Row

\* The same of a row recovery put back.
LEMMA RequeuedFields ==
    ASSUME NEW r \in Row
    PROVE  /\ Requeued(r).state \in {"PENDING", "RETRY_WAIT"}
           /\ Requeued(r).delivery_deadline_at = r.delivery_deadline_at
           /\ Requeued(r).challenge_recording = r.challenge_recording
           /\ Requeued(r).attempt_count = r.attempt_count
  BY DEF Requeued, RequeuedState, Row

\* The recorder leaves request, and expiry alone.
LEMMA RecordedFields ==
    ASSUME NEW j, challenge[j] \in Challenge, NEW succeeded
    PROVE  /\ Recorded(j, succeeded).requested = challenge[j].requested
           /\ Recorded(j, succeeded).expires_at = challenge[j].expires_at
  BY DEF Recorded, Challenge

-----------------------------------------------------------------------------
(* DeliveryInv is inductive.                                               *)

\* A step that closes the row of job j, or moves it on, while no session can
\* still send it and, unless it closes it, while no mail of it can arrive.
RowStep(j) ==
    /\ now' = now
    /\ \A k \in Jobs : k # j => outbox'[k] = outbox[k]
    /\ \A k \in Jobs : /\ challenge'[k].requested = challenge[k].requested
                        /\ challenge'[k].expires_at = challenge[k].expires_at
    /\ outbox'[j].state # "absent" =>
         /\ challenge[j].requested
         /\ outbox'[j].delivery_deadline_at = challenge[j].expires_at
    /\ outbox'[j].state # "LEASED"
    /\ \A f \in Fences :
         \/ sess'[f] = sess[f]
         \/ /\ sess[f].pc # "unused"
            /\ sess'[f].pc \in {"done", "confirmed"}
            /\ sess'[f].mail = sess[f].mail /\ sess'[f].job = sess[f].job
    /\ \A f \in Fences :
         sess[f].pc \in {"begun", "calling"} /\ now < sess[f].deadline =>
            sess[f].job # j
    /\ \/ outbox'[j].state \in TerminalStates
       \/ /\ outbox'[j].state = "absent" /\ challenge[j].requested
          /\ challenge[j].expires_at <= now
       \/ \A f \in Fences :
            sess[f].pc # "unused" /\ sess[f].job = j =>
                sess[f].mail \notin {"in_flight", "accepted"}

\* The sessions of a job depend on which fences were used for it only.
LEMMA SessionsSame ==
    ASSUME \A f \in Fences :
             \/ sess'[f] = sess[f]
             \/ /\ sess[f].pc # "unused" /\ sess'[f].pc # "unused"
                /\ sess'[f].mail = sess[f].mail /\ sess'[f].job = sess[f].job,
           AtMostOneAcceptance
    PROVE  AtMostOneAcceptance'
  BY DEF AtMostOneAcceptance, Sessions

\* A step on one row that no running session depends on keeps DeliveryInv.
LEMMA RowStepKeeps ==
    ASSUME DeliveryInv, TypeOK', NEW j \in Jobs, RowStep(j)
    PROVE  DeliveryInv'
<1>1. \A f \in Fences : sess[f].pc # "unused" => sess[f].job \in Jobs
  BY SessionType DEF DeliveryInv, Session
<1>2. ClaimAgrees'
  BY <1>1 DEF DeliveryInv, RowStep, ClaimAgrees, OwnsRow
<1>3. BegunInTime'
  BY DEF DeliveryInv, RowStep, BegunInTime
<1>4. DeadlineIsExpiry'
  BY DEF DeliveryInv, RowStep, DeadlineIsExpiry
<1>5. CallOwnsRow'
  BY <1>1 DEF DeliveryInv, RowStep, CallOwnsRow, OwnsRow, LeaseExpires
<1>6. RefusalProven'
  BY DEF DeliveryInv, RowStep, RefusalProven
<1>7. MailClosesRow'
  BY <1>1 DEF DeliveryInv, RowStep, MailClosesRow, OwnsRow
<1>8. AtMostOneAcceptance'
  BY SessionsSame DEF DeliveryInv, RowStep
<1> QED
  BY <1>2, <1>3, <1>4, <1>5, <1>6, <1>7, <1>8 DEF DeliveryInv

\* Nothing DeliveryInv speaks of changes.
LEMMA ScanStepKeeps ==
    ASSUME DeliveryInv, TypeOK', UNCHANGED <<now, challenge, outbox, sess>>
    PROVE  DeliveryInv'
  BY DEF DeliveryInv, ClaimAgrees, BegunInTime, DeadlineIsExpiry, CallOwnsRow,
         RefusalProven, MailClosesRow, AtMostOneAcceptance, OwnsRow, LeaseExpires,
         Sessions

\* Time passing keeps DeliveryInv: deadlines only run out.
LEMMA TickKeeps ==
    ASSUME DeliveryInv, TypeOK', Tick
    PROVE  DeliveryInv'
<1>1. now' = now + 1 /\ now \in Nat /\ SendWindow \in Nat
      /\ UNCHANGED <<challenge, outbox, sess>>
  BY TimingAssumption DEF Tick, DeliveryInv, TypeOK
<1>2. \A f \in Fences : sess[f].pc # "unused" =>
        /\ sess[f].job \in Jobs /\ sess[f].deadline \in Nat
  BY SessionType DEF DeliveryInv, Session
<1>3. \A j \in Jobs : challenge[j].expires_at \in Nat
  BY DEF DeliveryInv, TypeOK, Challenge
<1>4. ClaimAgrees' /\ DeadlineIsExpiry' /\ RefusalProven'
  BY <1>1 DEF DeliveryInv, ClaimAgrees, DeadlineIsExpiry, RefusalProven, OwnsRow
<1>5. BegunInTime'
  BY <1>1, <1>2 DEF DeliveryInv, BegunInTime
<1>6. CallOwnsRow'
  BY <1>1, <1>2 DEF DeliveryInv, CallOwnsRow, OwnsRow, LeaseExpires
<1>7. MailClosesRow'
  BY <1>1, <1>2, <1>3 DEF DeliveryInv, MailClosesRow, OwnsRow
<1>8. AtMostOneAcceptance'
  BY <1>1 DEF DeliveryInv, AtMostOneAcceptance, Sessions
<1> QED
  BY <1>4, <1>5, <1>6, <1>7, <1>8 DEF DeliveryInv

\* A change of a challenge other than its expiry keeps DeliveryInv.
LEMMA ChallengeStepKeeps ==
    ASSUME DeliveryInv, TypeOK', UNCHANGED <<now, outbox, sess>>,
           \A j \in Jobs : challenge[j].requested =>
               /\ challenge'[j].requested
               /\ challenge'[j].expires_at = challenge[j].expires_at
    PROVE  DeliveryInv'
<1>1. \A f \in Fences : sess[f].pc # "unused" => sess[f].job \in Jobs
  BY SessionType DEF DeliveryInv, Session
<1>2. ClaimAgrees' /\ BegunInTime' /\ RefusalProven'
  BY DEF DeliveryInv, ClaimAgrees, BegunInTime, RefusalProven, OwnsRow
<1>3. DeadlineIsExpiry'
  BY DEF DeliveryInv, DeadlineIsExpiry
<1>4. CallOwnsRow'
  BY <1>1 DEF DeliveryInv, CallOwnsRow, DeadlineIsExpiry, OwnsRow, LeaseExpires
<1>5. MailClosesRow'
  BY <1>1 DEF DeliveryInv, MailClosesRow, OwnsRow
<1>6. AtMostOneAcceptance'
  BY DEF DeliveryInv, AtMostOneAcceptance, Sessions
<1> QED
  BY <1>2, <1>3, <1>4, <1>5, <1>6 DEF DeliveryInv

\* What happens to challenges and authorities keeps DeliveryInv.
LEMMA EnvironmentKeeps ==
    ASSUME DeliveryInv, Environment
    PROVE  DeliveryInv'
<1>1. TypeOK /\ TypeOK'
  BY EnvironmentTyped DEF DeliveryInv
<1>2. ASSUME NEW j \in Jobs,
             RequestChallenge(j) \/ SupersedeChallenge(j) \/ ScrubChallenge(j)
      PROVE  DeliveryInv'
  <2>1. UNCHANGED <<now, outbox, sess>>
    BY <1>2 DEF RequestChallenge, SupersedeChallenge, ScrubChallenge
  <2>2. \A k \in Jobs : challenge[k].requested =>
           /\ challenge'[k].requested
           /\ challenge'[k].expires_at = challenge[k].expires_at
    BY <1>1, <1>2 DEF RequestChallenge, SupersedeChallenge, ScrubChallenge,
                      TypeOK, Challenge
  <2> QED
    BY <1>1, <2>1, <2>2, ChallengeStepKeeps
<1>3. ASSUME NEW j \in Jobs, ChangeAuthority(j)
      PROVE  DeliveryInv'
  BY <1>1, <1>3, ScanStepKeeps DEF ChangeAuthority
<1> QED
  BY <1>1, <1>2, <1>3, TickKeeps DEF Environment

\* A claim keeps DeliveryInv: the row it takes belonged to nobody who may
\* still send, and its fence was never used.
LEMMA ClaimOneKeeps ==
    ASSUME DeliveryInv, TypeOK', NEW w \in Workers, NEW j \in Jobs, ClaimOne(w, j)
    PROVE  DeliveryInv'
<1> DEFINE s == [job |-> j, pc |-> "claimed", deadline |-> scan[w].started + LeaseTtl,
                 attempt |-> outbox[j].attempt_count, outcome |-> "none",
                 mail |-> "unsent"]
<1>1. /\ UNCHANGED <<now, challenge>>
      /\ outbox[j].state \in {"PENDING", "RETRY_WAIT"}
      /\ sess' = [sess EXCEPT ![nextFence] = s]
      /\ outbox' = [outbox EXCEPT ![j].state = "LEASED", ![j].lease_id = nextFence,
                                  ![j].leased_at = now,
                                  ![j].fence_generation = nextFence]
  BY DEF ClaimOne, Claimable
<1>2. /\ nextFence \in Fences
      /\ outbox \in [Jobs -> Row] /\ DOMAIN sess = Fences
  BY BoundAssumption DEF ClaimOne, DeliveryInv, TypeOK, Fences
<1>3. /\ outbox'[j].lease_id = nextFence
      /\ outbox'[j].attempt_count = outbox[j].attempt_count
      /\ outbox'[j].delivery_deadline_at = outbox[j].delivery_deadline_at
      /\ \A k \in Jobs : k # j => outbox'[k] = outbox[k]
  BY <1>1, <1>2 DEF Row
<1>4. sess'[nextFence] = s /\ \A f \in Fences : f # nextFence => sess'[f] = sess[f]
  BY <1>1, <1>2
<1>5. \A f \in Fences : sess[f].pc # "unused" => sess[f].job \in Jobs
  BY SessionType DEF DeliveryInv, Session
<1> HIDE DEF s
<1>6. s.pc = "claimed" /\ s.mail = "unsent" /\ s.job = j
      /\ s.attempt = outbox[j].attempt_count
  BY DEF s
<1>7. ClaimAgrees'
  BY <1>2, <1>3, <1>4, <1>5, <1>6 DEF DeliveryInv, ClaimAgrees, OwnsRow
<1>8. BegunInTime' /\ RefusalProven'
  BY <1>1, <1>4, <1>6 DEF DeliveryInv, BegunInTime, RefusalProven
<1>9. DeadlineIsExpiry'
  BY <1>1, <1>3 DEF DeliveryInv, DeadlineIsExpiry
<1>10. CallOwnsRow'
  <2> SUFFICES ASSUME NEW f \in Fences, sess'[f].pc \in {"begun", "calling"},
                      now' < sess'[f].deadline
               PROVE  /\ OwnsRow(f, "SENDING")'
                      /\ sess'[f].attempt = outbox'[sess'[f].job].attempt_count
                      /\ sess'[f].deadline <= LeaseExpires(outbox[sess[f].job])'
                      /\ sess'[f].deadline <= challenge'[sess'[f].job].expires_at
    BY DEF CallOwnsRow
  <2>1. f # nextFence /\ sess'[f] = sess[f] /\ now < sess[f].deadline
    BY <1>1, <1>4, <1>6
  <2>2. /\ OwnsRow(f, "SENDING")
        /\ sess[f].attempt = outbox[sess[f].job].attempt_count
        /\ sess[f].deadline <= LeaseExpires(outbox[sess[f].job])
        /\ sess[f].deadline <= challenge[sess[f].job].expires_at
    BY <2>1 DEF DeliveryInv, CallOwnsRow
  <2>3. outbox'[sess[f].job] = outbox[sess[f].job]
    BY <1>1, <1>3, <1>5, <2>1, <2>2 DEF OwnsRow
  <2> QED
    BY <1>1, <2>1, <2>2, <2>3 DEF OwnsRow, LeaseExpires
<1>11. MailClosesRow'
  <2> SUFFICES ASSUME NEW f \in Fences, sess'[f].pc # "unused",
                      sess'[f].mail \in {"in_flight", "accepted"}
               PROVE  LET k == sess'[f].job
                      IN  \/ OwnsRow(f, "SENDING")'
                          \/ outbox'[k].state \in TerminalStates
                          \/ /\ outbox'[k].state = "absent" /\ challenge'[k].requested
                             /\ challenge'[k].expires_at <= now'
    BY DEF MailClosesRow
  <2>1. f # nextFence /\ sess'[f] = sess[f]
    BY <1>4, <1>6
  <2>2. \/ OwnsRow(f, "SENDING")
        \/ outbox[sess[f].job].state \in TerminalStates
        \/ /\ outbox[sess[f].job].state = "absent" /\ challenge[sess[f].job].requested
           /\ challenge[sess[f].job].expires_at <= now
    BY <2>1 DEF DeliveryInv, MailClosesRow
  <2>3. sess[f].job # j
    BY <1>1, <2>2 DEF OwnsRow, TerminalStates
  <2>4. outbox'[sess[f].job] = outbox[sess[f].job]
    BY <1>3, <1>5, <2>1, <2>3
  <2> QED
    BY <1>1, <2>1, <2>2, <2>4 DEF OwnsRow
<1>12. AtMostOneAcceptance'
  BY <1>4, <1>6 DEF DeliveryInv, AtMostOneAcceptance, Sessions
<1> QED
  BY <1>7, <1>8, <1>9, <1>10, <1>11, <1>12 DEF DeliveryInv

\* Who may still send a row, or have mailed it.
LEMMA Owners ==
    ASSUME DeliveryInv, NEW f \in Fences, NEW j \in Jobs,
           sess[f].pc # "unused", sess[f].job = j
    PROVE  /\ sess[f].pc \in {"begun", "calling"} /\ now < sess[f].deadline =>
                /\ outbox[j].state = "SENDING" /\ outbox[j].lease_id = f
                /\ now < LeaseExpires(outbox[j])
           /\ sess[f].mail \in {"in_flight", "accepted"} =>
                \/ outbox[j].state = "SENDING" /\ outbox[j].lease_id = f
                \/ outbox[j].state \in TerminalStates
                \/ /\ outbox[j].state = "absent" /\ challenge[j].requested
                   /\ challenge[j].expires_at <= now
<1>1. now \in Nat /\ sess[f].deadline \in Nat
      /\ LeaseExpires(outbox[j]) \in Nat
  BY SessionType, TimingAssumption DEF DeliveryInv, TypeOK, Session, LeaseExpires, Row
<1> QED
  BY <1>1 DEF DeliveryInv, CallOwnsRow, MailClosesRow, OwnsRow

\* What recording a delivery leaves alone.
LEMMA VerdictFields ==
    ASSUME DeliveryInv, NEW j \in Jobs, NEW t, NEW succeeded,
           challenge' = [challenge EXCEPT ![j] =
                IF Recordable(j, t) THEN Recorded(j, succeeded) ELSE @]
    PROVE  \A k \in Jobs : /\ challenge'[k].requested = challenge[k].requested
                            /\ challenge'[k].expires_at = challenge[k].expires_at
<1>1. challenge[j] \in Challenge /\ DOMAIN challenge = Jobs
  BY DEF DeliveryInv, TypeOK
<1> QED
  BY <1>1, RecordedFields

\* Recovery keeps DeliveryInv: it closes what was being sent and reopens
\* only what was not.
LEMMA RecoverOneKeeps ==
    ASSUME DeliveryInv, TypeOK', NEW w \in Workers, NEW j \in Jobs, RecoverOne(w, j)
    PROVE  DeliveryInv'
<1>1. /\ outbox[j] \in Row /\ outbox \in [Jobs -> Row]
      /\ outbox[j].state # "absent" =>
           /\ challenge[j].requested
           /\ outbox[j].delivery_deadline_at = challenge[j].expires_at
      /\ {"LEASED", "absent"} \cap TerminalStates = {}
      /\ "DELIVERY_OUTCOME_UNKNOWN" \in TerminalStates
      /\ {"SENDING", "PENDING", "RETRY_WAIT", "LEASED"} \cap TerminalStates = {}
  BY DEF DeliveryInv, TypeOK, DeadlineIsExpiry, TerminalStates
<1>2. CASE RecoverSending(w, j)
  <2>1. PICK t \in {now, now + 1} :
          /\ challenge' = [challenge EXCEPT ![j] =
                IF Recordable(j, t) THEN Recorded(j, FALSE) ELSE @]
          /\ outbox' = [outbox EXCEPT ![j] =
                Terminal(@, "DELIVERY_OUTCOME_UNKNOWN",
                         "delivery_outcome_unknown", "recovery", "none", FALSE,
                         IF Recordable(j, t) THEN "recorded" ELSE "not_recorded")]
    BY <1>2 DEF RecoverSending
  <2>2. \A k \in Jobs : /\ challenge'[k].requested = challenge[k].requested
                        /\ challenge'[k].expires_at = challenge[k].expires_at
    BY <2>1, VerdictFields
  <2>3. /\ outbox'[j].state = "DELIVERY_OUTCOME_UNKNOWN"
        /\ outbox'[j].delivery_deadline_at = outbox[j].delivery_deadline_at
    <3> DEFINE recording == IF Recordable(j, t) THEN "recorded" ELSE "not_recorded"
    <3>1. outbox'[j] = Terminal(outbox[j], "DELIVERY_OUTCOME_UNKNOWN",
                         "delivery_outcome_unknown", "recovery", "none", FALSE,
                         recording)
      BY <1>1, <2>1
    <3> HIDE DEF recording
    <3> QED
      BY <1>1, <3>1 DEF Terminal, Row
  <2>4. ASSUME NEW f \in Fences, sess[f].pc \in {"begun", "calling"},
               now < sess[f].deadline
        PROVE  sess[f].job # j
    BY <1>2, <2>4, Owners DEF RecoverSending, LeaseRunsOn
  <2>5. RowStep(j)
    <3>1. now' = now /\ sess' = sess
      BY <1>2 DEF RecoverSending
    <3>2. \A k \in Jobs : k # j => outbox'[k] = outbox[k]
      BY <1>1, <2>1
    <3> QED
      BY <1>1, <1>2, <2>2, <2>3, <2>4, <3>1, <3>2 DEF RowStep, RecoverSending
  <2> QED
    BY <2>5, RowStepKeeps
<1>3. CASE RecoverLeased(w, j)
  <2>1. /\ outbox'[j].state \in {"PENDING", "RETRY_WAIT"}
        /\ outbox'[j].delivery_deadline_at = outbox[j].delivery_deadline_at
    BY <1>1, <1>3, RequeuedFields DEF RecoverLeased
  <2>2. RowStep(j)
    BY <1>1, <1>3, <2>1, Owners DEF RowStep, RecoverLeased, ClaimedNotSent
  <2> QED
    BY <2>2, RowStepKeeps
<1>4. CASE RecoverUnsendable(w, j)
  <2>1. /\ outbox'[j].state \in TerminalStates
        /\ outbox'[j].delivery_deadline_at = outbox[j].delivery_deadline_at
    BY <1>1, <1>4, UnsendableFields DEF RecoverUnsendable
  <2>2. RowStep(j)
    BY <1>1, <1>4, <2>1, Owners DEF RowStep, RecoverUnsendable
  <2> QED
    BY <2>2, RowStepKeeps
<1>5. CASE RecoverSkip(w, j)
  BY <1>5, ScanStepKeeps DEF RecoverSkip
<1> QED
  BY <1>2, <1>3, <1>4, <1>5 DEF RecoverOne

\* enqueue keeps DeliveryInv: a job with a mail out has no absent row.
LEMMA EnqueueKeeps ==
    ASSUME DeliveryInv, TypeOK', NEW j \in Jobs, Enqueue(j)
    PROVE  DeliveryInv'
<1>1. /\ outbox'[j].state = "PENDING"
      /\ outbox'[j].delivery_deadline_at = challenge[j].expires_at
      /\ \A k \in Jobs : k # j => outbox'[k] = outbox[k]
  BY DEF Enqueue, DeliveryInv, TypeOK, NoRow
<1>2. /\ now \in Nat /\ challenge[j].expires_at \in Nat
      /\ {"PENDING", "absent"} \cap TerminalStates = {}
  BY DEF DeliveryInv, TypeOK, Challenge, TerminalStates
<1>3. RowStep(j)
  BY <1>1, <1>2, Owners DEF RowStep, Enqueue
<1> QED
  BY <1>3, RowStepKeeps

\* The purge keeps DeliveryInv: it waits for the challenge to expire.
LEMMA PurgeKeeps ==
    ASSUME DeliveryInv, TypeOK', NEW j \in Jobs, Purge(j)
    PROVE  DeliveryInv'
<1>1. /\ outbox'[j].state = "absent"
      /\ \A k \in Jobs : k # j => outbox'[k] = outbox[k]
  BY DEF Purge, DeliveryInv, TypeOK, NoRow
<1>2. /\ {"SENDING", "absent"} \cap TerminalStates = {}
      /\ challenge[j].requested
  BY DEF Purge, Purgeable, DeliveryInv, DeadlineIsExpiry, TerminalStates
<1>3. RowStep(j)
  BY <1>1, <1>2, Owners DEF RowStep, Purge, Purgeable
<1> QED
  BY <1>3, RowStepKeeps

\* Every RPC no session waits for keeps DeliveryInv.
LEMMA ScanningKeeps ==
    ASSUME DeliveryInv, Scanning
    PROVE  DeliveryInv'
<1>1. TypeOK'
  BY ScanningTyped DEF DeliveryInv
<1>2. ASSUME NEW w \in Workers, ClaimSelect(w) \/ RecoverSelect(w) \/ AbortScan(w)
      PROVE  DeliveryInv'
  BY <1>1, <1>2, ScanStepKeeps DEF ClaimSelect, RecoverSelect, AbortScan, StartScan
<1>3. ASSUME NEW w \in Workers, NEW j \in Jobs, ClaimSkip(w, j)
      PROVE  DeliveryInv'
  BY <1>1, <1>3, ScanStepKeeps DEF ClaimSkip
<1> QED
  BY <1>1, <1>2, <1>3, EnqueueKeeps, PurgeKeeps, ClaimOneKeeps, RecoverOneKeeps
     DEF Scanning

\* Steps of a session that touch nothing else.
LEMMA SessionStepKeeps ==
    ASSUME DeliveryInv, TypeOK', NEW f \in Fences, sess[f].pc # "unused",
           UNCHANGED <<now, challenge, outbox>>,
           \A g \in Fences : g # f => sess'[g] = sess[g],
           sess'[f].job = sess[f].job, sess'[f].pc # "unused",
           sess'[f].pc \in {"claimed", "begin_sent"} =>
               /\ sess[f].pc \in {"claimed", "begin_sent"}
               /\ sess'[f].attempt = sess[f].attempt,
           sess'[f].pc = "begin_sent" => sess'[f].deadline <= now + SendWindow,
           sess'[f].pc \in {"begun", "calling"} =>
               /\ sess[f].pc \in {"begun", "calling"}
               /\ sess'[f].deadline = sess[f].deadline
               /\ sess'[f].attempt = sess[f].attempt,
           sess'[f].pc = "final_sent" /\ sess'[f].outcome = "not_accepted_retryable" =>
               sess'[f].mail = "refused",
           sess'[f].mail \in {"in_flight", "accepted"} =>
               \/ sess[f].mail \in {"in_flight", "accepted"}
               \/ sess[f].pc = "begun" /\ now < sess[f].deadline
    PROVE  DeliveryInv'
<1>1. \A g \in Fences : sess[g].pc # "unused" => sess[g].job \in Jobs
  BY SessionType DEF DeliveryInv, Session
<1>2. ClaimAgrees' /\ BegunInTime' /\ DeadlineIsExpiry' /\ RefusalProven'
  BY DEF DeliveryInv, ClaimAgrees, BegunInTime, DeadlineIsExpiry, RefusalProven, OwnsRow
<1>3. CallOwnsRow'
  BY DEF DeliveryInv, CallOwnsRow, OwnsRow, LeaseExpires
<1>4. MailClosesRow'
  BY DEF DeliveryInv, MailClosesRow, CallOwnsRow, OwnsRow
<1>5. AtMostOneAcceptance'
  <2>1. ASSUME NEW g \in Fences, g # f, sess[g].pc # "unused",
               sess[g].job = sess[f].job, sess[g].mail \in {"in_flight", "accepted"},
               sess'[f].mail \in {"in_flight", "accepted"}
        PROVE  FALSE
    <3>1. CASE sess[f].mail \in {"in_flight", "accepted"}
      BY <1>1, <2>1, <3>1 DEF DeliveryInv, AtMostOneAcceptance, Sessions
    <3>2. CASE sess[f].pc = "begun" /\ now < sess[f].deadline
      <4>1. outbox[sess[f].job].state = "SENDING" /\ outbox[sess[f].job].lease_id = f
        BY <1>1, <3>2, Owners
      <4>2. \/ outbox[sess[f].job].state = "SENDING"
               /\ outbox[sess[f].job].lease_id = g
            \/ outbox[sess[f].job].state \in TerminalStates
            \/ outbox[sess[f].job].state = "absent"
        BY <1>1, <2>1, Owners
      <4> QED
        BY <2>1, <4>1, <4>2 DEF TerminalStates
    <3> QED
      BY <2>1, <3>1, <3>2
  <2>2. \A g \in Fences : g # f =>
          /\ sess'[g] = sess[g]
          /\ sess[g].pc # "unused" /\ sess[g].job = sess[f].job
             /\ sess[g].mail \in {"in_flight", "accepted"} =>
                  sess'[f].mail \notin {"in_flight", "accepted"}
    BY <2>1
  <2> QED
    BY <2>2 DEF DeliveryInv, AtMostOneAcceptance, Sessions
<1> QED
  BY <1>2, <1>3, <1>4, <1>5 DEF DeliveryInv

\* How a session looks after it ended or was answered.
LEMMA AnsweredFields ==
    ASSUME DeliveryInv, NEW f \in Fences, sess[f].pc # "unused",
           Finish(f) \/ FinalizeAnswered(f)
    PROVE  \A g \in Fences :
             \/ sess'[g] = sess[g]
             \/ /\ g = f /\ sess'[g].pc \in {"done", "confirmed"}
                /\ sess'[g].mail = sess[g].mail /\ sess'[g].job = sess[g].job
<1>1. sess[f] \in Session /\ DOMAIN sess = Fences
  BY SessionType DEF DeliveryInv, TypeOK
<1>2. CASE UNCHANGED sess
  BY <1>2
<1>3. CASE sess' = [sess EXCEPT ![f].pc = "confirmed"]
  BY <1>1, <1>3 DEF Session
<1>4. CASE Finish(f)
  <2>1. \A g \in Fences : g # f => sess'[g] = sess[g]
    BY <1>1, <1>4, Zenon DEF Finish
  <2>2. sess'[f] = [sess[f] EXCEPT !.pc = "done", !.deadline = 0, !.attempt = 0,
                                   !.outcome = "none"]
    BY <1>1, <1>4, Zenon DEF Finish
  <2>3. sess'[f].pc = "done" /\ sess'[f].mail = sess[f].mail
        /\ sess'[f].job = sess[f].job
    BY <1>1, <2>2 DEF Session
  <2> QED
    BY <2>1, <2>3
<1> QED
  BY <1>2, <1>3, <1>4 DEF FinalizeAnswered

\* The steps of a session before and around the provider call.
LEMMA CallStepKeeps ==
    ASSUME DeliveryInv, TypeOK', NEW f \in Fences,
           \/ SenderUnavailable(f) \/ BeginCall(f) \/ Invoke(f)
           \/ ProviderDecides(f) \/ Settle(f)
    PROVE  DeliveryInv'
<1>1. sess[f].pc # "unused" /\ UNCHANGED <<now, challenge, outbox>>
  BY DEF SenderUnavailable, BeginCall, Invoke, ProviderDecides, Settle
<1>2. sess[f] \in Session /\ sess \in [Fences -> Session \cup {NoSession}]
      /\ now \in Nat /\ SendWindow \in Nat
  BY <1>1, SessionType, TimingAssumption DEF DeliveryInv, TypeOK
<1>3. CASE SenderUnavailable(f)
  <2>1. \A g \in Fences : g # f => sess'[g] = sess[g]
    BY <1>2, <1>3 DEF SenderUnavailable
  <2>2. /\ sess'[f].pc = "final_sent" /\ sess'[f].outcome = "sender_unavailable"
        /\ sess'[f].job = sess[f].job /\ sess'[f].mail = sess[f].mail
    BY <1>2, <1>3 DEF SenderUnavailable, Session
  <2> QED
    BY <1>1, <2>1, <2>2, SessionStepKeeps
<1>4. CASE BeginCall(f)
  <2> DEFINE d == IF now + SendWindow < sess[f].deadline
                  THEN now + SendWindow ELSE sess[f].deadline
  <2>1. d <= now + SendWindow
    BY <1>2 DEF Session
  <2>2. sess' = [sess EXCEPT ![f].pc = "begin_sent", ![f].deadline = d]
        /\ sess[f].pc = "claimed"
    BY <1>4 DEF BeginCall, SendDeadline
  <2> HIDE DEF d
  <2>3. \A g \in Fences : g # f => sess'[g] = sess[g]
    BY <1>2, <2>2
  <2>4. /\ sess'[f].pc = "begin_sent" /\ sess'[f].deadline = d
        /\ sess'[f].job = sess[f].job /\ sess'[f].mail = sess[f].mail
        /\ sess'[f].attempt = sess[f].attempt
    BY <1>2, <2>2 DEF Session
  <2> QED
    BY <1>1, <2>1, <2>2, <2>3, <2>4, SessionStepKeeps
<1>5. CASE Invoke(f)
  <2>1. \A g \in Fences : g # f => sess'[g] = sess[g]
    BY <1>2, <1>5 DEF Invoke
  <2>2. /\ sess'[f].pc = "calling" /\ sess'[f].deadline = sess[f].deadline
        /\ sess'[f].job = sess[f].job /\ sess'[f].attempt = sess[f].attempt
        /\ sess[f].pc = "begun" /\ now < sess[f].deadline
    BY <1>2, <1>5 DEF Invoke, Session
  <2> QED
    BY <1>1, <2>1, <2>2, SessionStepKeeps
<1>6. CASE ProviderDecides(f)
  <2>1. PICK mail \in {"accepted", "refused"} : sess' = [sess EXCEPT ![f].mail = mail]
    BY <1>6 DEF ProviderDecides
  <2>2. \A g \in Fences : g # f => sess'[g] = sess[g]
    BY <1>2, <2>1
  <2>3. /\ sess'[f].pc = sess[f].pc /\ sess'[f].deadline = sess[f].deadline
        /\ sess'[f].job = sess[f].job /\ sess'[f].attempt = sess[f].attempt
        /\ sess'[f].outcome = sess[f].outcome /\ sess[f].mail = "in_flight"
    BY <1>2, <1>6, <2>1 DEF ProviderDecides, Session
  <2>4. sess[f].pc # "final_sent" \/ sess[f].outcome # "not_accepted_retryable"
    BY <2>3 DEF DeliveryInv, RefusalProven
  <2>5. sess[f].pc = "begin_sent" => sess[f].deadline <= now + SendWindow
    BY DEF DeliveryInv, BegunInTime
  <2> QED
    BY <1>1, <2>2, <2>3, <2>4, <2>5, SessionStepKeeps
<1>7. CASE Settle(f)
  <2>1. PICK o \in ProviderOutcomes :
          /\ o # "outcome_unknown" => o \in Answers(sess[f].mail)
          /\ sess' = [sess EXCEPT ![f].pc = "final_sent", ![f].outcome = o]
    BY <1>7 DEF Settle
  <2>2. \A g \in Fences : g # f => sess'[g] = sess[g]
    BY <1>2, <2>1
  <2>3. /\ sess'[f].pc = "final_sent" /\ sess'[f].outcome = o
        /\ sess'[f].job = sess[f].job /\ sess'[f].mail = sess[f].mail
    BY <1>2, <2>1 DEF Session
  <2>4. o = "not_accepted_retryable" => sess[f].mail = "refused"
    BY <2>1 DEF Answers
  <2> QED
    BY <1>1, <2>2, <2>3, <2>4, SessionStepKeeps
<1> QED
  BY <1>3, <1>4, <1>5, <1>6, <1>7

\* The begin of an attempt: the row becomes this session's until its deadline.
LEMMA BeginAppliedKeeps ==
    ASSUME DeliveryInv, TypeOK', NEW f \in Fences, BeginApplied(f)
    PROVE  DeliveryInv'
<1> DEFINE j == sess[f].job
           r == outbox[j]
<1>1. /\ sess[f].pc = "begin_sent" /\ sess[f] \in Session /\ j \in Jobs
      /\ r \in Row /\ DOMAIN outbox = Jobs /\ DOMAIN sess = Fences
      /\ UNCHANGED <<now, challenge>>
  BY SessionType DEF BeginApplied, DeliveryInv, TypeOK, Session
<1>2. /\ r.state = "LEASED" /\ r.lease_id = f /\ r.fence_generation = f
      /\ sess[f].attempt = r.attempt_count
      /\ sess[f].deadline <= now + SendWindow
  BY <1>1 DEF BeginApplied, HoldsLease, DeliveryInv, ClaimAgrees, BegunInTime, OwnsRow
<1>3. /\ challenge[j].requested
      /\ r.delivery_deadline_at = challenge[j].expires_at
  BY <1>1, <1>2 DEF DeliveryInv, DeadlineIsExpiry
<1>4. /\ sess[f].deadline <= LeaseExpires(r)
      /\ sess[f].deadline <= challenge[j].expires_at
  <2>1. /\ now \in Nat /\ SendWindow \in Nat /\ LeaseTtl \in Nat
        /\ sess[f].deadline \in Nat
        /\ r.leased_at \in Nat /\ r.delivery_deadline_at \in Nat
    BY <1>1, TimingAssumption DEF DeliveryInv, TypeOK, Session, Row
  <2>2. now + SendWindow < LeaseExpires(r) /\ now + SendWindow < r.delivery_deadline_at
    BY DEF BeginApplied, Sendable, WindowOpen
  <2> QED
    BY <1>2, <1>3, <2>1, <2>2 DEF LeaseExpires
<1>5. /\ outbox'[j].state = "SENDING"
      /\ outbox'[j].lease_id = f /\ outbox'[j].fence_generation = f
      /\ outbox'[j].attempt_count = r.attempt_count + 1
      /\ outbox'[j].leased_at = r.leased_at
      /\ outbox'[j].delivery_deadline_at = r.delivery_deadline_at
  BY <1>1, <1>2 DEF BeginApplied, Row
<1>6. \A k \in Jobs : k # j => outbox'[k] = outbox[k]
  BY <1>1 DEF BeginApplied
<1>7. /\ \A g \in Fences : g # f => sess'[g] = sess[g]
      /\ sess'[f].job = j /\ sess'[f].mail = sess[f].mail
      /\ \/ sess'[f].pc = "done"
         \/ /\ sess'[f].pc = "begun" /\ sess'[f].deadline = sess[f].deadline
            /\ sess'[f].attempt = sess[f].attempt + 1
  <2>1. CASE sess' = [sess EXCEPT ![f].pc = "begun", ![f].attempt = @ + 1]
    BY <1>1, <2>1 DEF Session
  <2>2. CASE Finish(f)
    BY <1>1, <2>2, AnsweredFields, Zenon DEF Finish, Session
  <2> QED
    BY <2>1, <2>2 DEF BeginApplied
<1>8. \A g \in Fences : sess[g].pc # "unused" => sess[g].job \in Jobs
  BY SessionType DEF DeliveryInv, Session
<1>9. /\ \A g \in Fences : sess[g].pc \in {"begun", "calling"}
               /\ now < sess[g].deadline => sess[g].job # j
      /\ \A g \in Fences : sess[g].pc # "unused"
               /\ sess[g].mail \in {"in_flight", "accepted"} => sess[g].job # j
  <2>1. ASSUME NEW g \in Fences, sess[g].pc # "unused", sess[g].job = j
        PROVE  /\ ~(sess[g].pc \in {"begun", "calling"} /\ now < sess[g].deadline)
               /\ sess[g].mail \notin {"in_flight", "accepted"}
    BY <1>1, <1>2, <2>1, Owners DEF TerminalStates
  <2> QED
    BY <2>1
<1> HIDE DEF j, r
<1>10. ClaimAgrees'
  BY <1>5, <1>6, <1>7, <1>8 DEF DeliveryInv, ClaimAgrees, OwnsRow
<1>11. BegunInTime' /\ RefusalProven'
  BY <1>1, <1>7 DEF DeliveryInv, BegunInTime, RefusalProven
<1>12. DeadlineIsExpiry'
  BY <1>1, <1>3, <1>5, <1>6 DEF DeliveryInv, DeadlineIsExpiry
<1>13. CallOwnsRow'
  <2> SUFFICES ASSUME NEW g \in Fences, sess'[g].pc \in {"begun", "calling"},
                      now' < sess'[g].deadline
               PROVE  /\ OwnsRow(g, "SENDING")'
                      /\ sess'[g].attempt = outbox'[sess'[g].job].attempt_count
                      /\ sess'[g].deadline <= LeaseExpires(outbox[sess[g].job])'
                      /\ sess'[g].deadline <= challenge'[sess'[g].job].expires_at
    BY DEF CallOwnsRow
  <2>1. CASE g = f
    <3>1. sess'[f].pc = "begun"
      BY <1>7, <2>1
    <3>2. LeaseExpires(outbox'[j]) = LeaseExpires(r)
      BY <1>5 DEF LeaseExpires
    <3>3. OwnsRow(f, "SENDING")'
      BY <1>5, <1>7 DEF OwnsRow
    <3>4. sess'[f].attempt = outbox'[j].attempt_count
      BY <1>2, <1>5, <1>7, <3>1
    <3>5. sess'[f].deadline <= LeaseExpires(outbox'[j])
          /\ sess'[f].deadline <= challenge'[j].expires_at
      BY <1>1, <1>4, <1>7, <3>1, <3>2
    <3> QED
      BY <1>7, <2>1, <3>3, <3>4, <3>5 DEF LeaseExpires
  <2>2. CASE g # f
    <3>1. sess'[g] = sess[g] /\ now < sess[g].deadline
      BY <1>1, <1>7, <2>2
    <3>2. sess[g].job # j /\ sess[g].job \in Jobs
      BY <1>8, <1>9, <3>1
    <3>3. outbox'[sess[g].job] = outbox[sess[g].job]
      BY <1>6, <3>2
    <3> QED
      BY <1>1, <3>1, <3>3 DEF DeliveryInv, CallOwnsRow, OwnsRow, LeaseExpires
  <2> QED
    BY <2>1, <2>2
<1>14. MailClosesRow'
  <2> SUFFICES ASSUME NEW g \in Fences, sess'[g].pc # "unused",
                      sess'[g].mail \in {"in_flight", "accepted"}
               PROVE  LET k == sess'[g].job
                      IN  \/ OwnsRow(g, "SENDING")'
                          \/ outbox'[k].state \in TerminalStates
                          \/ /\ outbox'[k].state = "absent" /\ challenge'[k].requested
                             /\ challenge'[k].expires_at <= now'
    BY DEF MailClosesRow
  <2>1. g # f /\ sess'[g] = sess[g]
    BY <1>1, <1>7, <1>9 DEF j
  <2>2. sess[g].job # j /\ sess[g].job \in Jobs
    BY <1>8, <1>9, <2>1
  <2>3. outbox'[sess[g].job] = outbox[sess[g].job]
    BY <1>6, <2>2
  <2> QED
    BY <1>1, <2>1, <2>3 DEF DeliveryInv, MailClosesRow, OwnsRow
<1>15. AtMostOneAcceptance'
  <2>1. \A g \in Fences :
          \/ sess'[g] = sess[g]
          \/ /\ sess[g].pc # "unused" /\ sess'[g].pc # "unused"
             /\ sess'[g].mail = sess[g].mail /\ sess'[g].job = sess[g].job
    BY <1>1, <1>7 DEF j
  <2> QED
    BY <2>1, SessionsSame DEF DeliveryInv
<1> QED
  BY <1>10, <1>11, <1>12, <1>13, <1>14, <1>15 DEF DeliveryInv

\* A begin_send that gives the row up keeps DeliveryInv.
LEMMA BeginUnsendableKeeps ==
    ASSUME DeliveryInv, TypeOK', NEW f \in Fences, BeginUnsendable(f)
    PROVE  DeliveryInv'
<1> DEFINE j == sess[f].job
<1>1. /\ sess[f].pc = "begin_sent" /\ j \in Jobs
      /\ outbox[j] \in Row /\ DOMAIN outbox = Jobs
      /\ UNCHANGED <<now, challenge>>
  BY SessionType DEF BeginUnsendable, DeliveryInv, TypeOK, Session
<1>2. outbox[j].state = "LEASED"
  BY DEF BeginUnsendable, HoldsLease
<1>3. /\ challenge[j].requested
      /\ outbox[j].delivery_deadline_at = challenge[j].expires_at
  BY <1>1, <1>2 DEF DeliveryInv, DeadlineIsExpiry
<1>4. /\ outbox'[j].state \in TerminalStates
      /\ outbox'[j].delivery_deadline_at = outbox[j].delivery_deadline_at
  BY <1>1, UnsendableFields DEF BeginUnsendable
<1>5. \A k \in Jobs : k # j => outbox'[k] = outbox[k]
  BY <1>1 DEF BeginUnsendable
<1>6. ASSUME NEW g \in Fences, sess[g].pc \in {"begun", "calling"},
             now < sess[g].deadline
      PROVE  sess[g].job # j
  BY <1>1, <1>2, <1>6, Owners
<1>7. \A g \in Fences :
        \/ sess'[g] = sess[g]
        \/ /\ sess[g].pc # "unused" /\ sess'[g].pc \in {"done", "confirmed"}
           /\ sess'[g].mail = sess[g].mail /\ sess'[g].job = sess[g].job
  BY <1>1, AnsweredFields DEF BeginUnsendable
<1>8. RowStep(j)
  BY <1>1, <1>3, <1>4, <1>5, <1>6, <1>7 DEF RowStep, TerminalStates
<1> QED
  BY <1>1, <1>8, RowStepKeeps

\* Refused, repeated and abandoned calls touch only their session.
LEMMA EndStepKeeps ==
    ASSUME DeliveryInv, TypeOK', NEW f \in Fences,
           \/ Abandon(f) \/ BeginRefused(f)
           \/ FinalizeDuplicate(f) \/ FinalizeRefused(f)
    PROVE  DeliveryInv'
<1>1. /\ sess[f].pc # "unused" /\ UNCHANGED <<now, challenge, outbox>>
      /\ Finish(f) \/ FinalizeAnswered(f)
  BY DEF Abandon, BeginRefused, FinalizeDuplicate, FinalizeRefused
<1>2. \A g \in Fences :
        \/ sess'[g] = sess[g]
        \/ /\ g = f /\ sess'[g].pc \in {"done", "confirmed"}
           /\ sess'[g].mail = sess[g].mail /\ sess'[g].job = sess[g].job
  BY <1>1, AnsweredFields
<1>3. CASE sess'[f] = sess[f]
  <2>1. \A g \in Fences : sess'[g] = sess[g]
    BY <1>2, <1>3
  <2>2. sess' = sess
    BY <2>1 DEF DeliveryInv, TypeOK
  <2> QED
    BY <1>1, <2>2, ScanStepKeeps
<1>4. CASE /\ sess'[f].pc \in {"done", "confirmed"}
           /\ sess'[f].mail = sess[f].mail /\ sess'[f].job = sess[f].job
  BY <1>1, <1>2, <1>4, SessionStepKeeps
<1> QED
  BY <1>2, <1>3, <1>4

\* The row finalize is applied to is the session's own.
LEMMA FinalizeOwns ==
    ASSUME DeliveryInv, NEW f \in Fences, sess[f].pc = "final_sent",
           FinalizeApplies(f)
    PROVE  LET j == sess[f].job
           IN  /\ outbox[j].state = ExpectedState(f)
               /\ challenge[j].requested
               /\ outbox[j].delivery_deadline_at = challenge[j].expires_at
               /\ \A g \in Fences :
                    /\ sess[g].pc \in {"begun", "calling"} /\ now < sess[g].deadline =>
                         sess[g].job # j
                    /\ sess[g].pc # "unused" /\ sess[g].job = j
                       /\ sess[g].mail \in {"in_flight", "accepted"} => g = f
<1> DEFINE j == sess[f].job
<1>1. j \in Jobs
  BY SessionType DEF DeliveryInv, Session
<1>2. /\ outbox[j].state = ExpectedState(f) /\ outbox[j].lease_id = f
      /\ ExpectedState(f) \in {"LEASED", "SENDING"}
  BY DEF FinalizeApplies, HoldsLease, ExpectedState
<1>3. /\ challenge[j].requested
      /\ outbox[j].delivery_deadline_at = challenge[j].expires_at
  BY <1>1, <1>2 DEF DeliveryInv, DeadlineIsExpiry
<1>4. ASSUME NEW g \in Fences, sess[g].pc # "unused", sess[g].job = j
      PROVE  /\ ~(sess[g].pc \in {"begun", "calling"} /\ now < sess[g].deadline)
             /\ sess[g].mail \in {"in_flight", "accepted"} => g = f
  <2>1. /\ sess[g].pc \in {"begun", "calling"} /\ now < sess[g].deadline =>
             outbox[j].lease_id = g
        /\ sess[g].mail \in {"in_flight", "accepted"} =>
             \/ outbox[j].lease_id = g
             \/ outbox[j].state \in TerminalStates
             \/ outbox[j].state = "absent"
    BY <1>1, <1>4, Owners
  <2> QED
    BY <1>2, <2>1 DEF TerminalStates
<1> QED
  BY <1>2, <1>3, <1>4

\* Another attempt is scheduled only after the session's own mail was refused.
LEMMA FinalizeRetryableKeeps ==
    ASSUME DeliveryInv, TypeOK', NEW f \in Fences, FinalizeRetryable(f)
    PROVE  DeliveryInv'
<1> DEFINE j == sess[f].job
<1>1. /\ sess[f].pc = "final_sent" /\ j \in Jobs
      /\ outbox[j] \in Row /\ DOMAIN outbox = Jobs
      /\ UNCHANGED <<now, challenge>> /\ FinalizeAnswered(f) /\ FinalizeApplies(f)
      /\ sess[f].outcome = "not_accepted_retryable"
  BY SessionType DEF FinalizeRetryable, DeliveryInv, TypeOK, Session
<1>2. /\ challenge[j].requested
      /\ outbox[j].delivery_deadline_at = challenge[j].expires_at
      /\ \A g \in Fences :
           /\ sess[g].pc \in {"begun", "calling"} /\ now < sess[g].deadline =>
                sess[g].job # j
           /\ sess[g].pc # "unused" /\ sess[g].job = j
              /\ sess[g].mail \in {"in_flight", "accepted"} => g = f
  BY <1>1, FinalizeOwns
<1>3. sess[f].mail = "refused"
  BY <1>1 DEF DeliveryInv, RefusalProven
<1>4. /\ outbox'[j].state \in {"RETRY_WAIT", "FAILED_TERMINAL"}
      /\ outbox'[j].delivery_deadline_at = outbox[j].delivery_deadline_at
  <2>1. CASE MayRetry(j)
    <3>1. outbox'[j] = Rescheduled(outbox[j], NextAvailable(j))
      BY <1>1, <2>1 DEF FinalizeRetryable
    <3> QED
      BY <1>1, <3>1, RescheduledFields
  <2>2. CASE ~MayRetry(j)
    <3>1. outbox'[j] = Terminal(outbox[j], "FAILED_TERMINAL", GiveUpDisposition(j),
                "provider", "not_accepted_retryable", TRUE, "not_applicable")
      BY <1>1, <2>2 DEF FinalizeRetryable
    <3> QED
      BY <1>1, <3>1 DEF Terminal, Row
  <2> QED
    BY <2>1, <2>2
<1>5. \A k \in Jobs : k # j => outbox'[k] = outbox[k]
  BY <1>1 DEF FinalizeRetryable
<1>6. \A g \in Fences :
        \/ sess'[g] = sess[g]
        \/ /\ sess[g].pc # "unused" /\ sess'[g].pc \in {"done", "confirmed"}
           /\ sess'[g].mail = sess[g].mail /\ sess'[g].job = sess[g].job
  BY <1>1, AnsweredFields
<1>7. \A g \in Fences : sess[g].pc # "unused" /\ sess[g].job = j =>
        sess[g].mail \notin {"in_flight", "accepted"}
  BY <1>2, <1>3
<1> HIDE DEF j
<1>8. RowStep(j)
  BY <1>1, <1>2, <1>4, <1>5, <1>6, <1>7 DEF RowStep
<1> QED
  BY <1>1, <1>8, RowStepKeeps

\* Every other outcome closes the row for good.
LEMMA FinalizeSettledKeeps ==
    ASSUME DeliveryInv, TypeOK', NEW f \in Fences, FinalizeSettled(f)
    PROVE  DeliveryInv'
<1> DEFINE j == sess[f].job
           o == sess[f].outcome
           final == CASE o = "accepted" -> "ACCEPTED"
                      [] o = "outcome_unknown" -> "DELIVERY_OUTCOME_UNKNOWN"
                      [] OTHER -> "FAILED_TERMINAL"
           disposition == CASE o = "accepted" -> "accepted"
                            [] o = "outcome_unknown" -> "delivery_outcome_unknown"
                            [] o = "rejected" -> "provider_rejected"
                            [] OTHER -> "sender_unavailable_pre_send"
<1>1. /\ sess[f].pc = "final_sent" /\ j \in Jobs
      /\ outbox[j] \in Row /\ DOMAIN outbox = Jobs
      /\ now' = now /\ FinalizeAnswered(f) /\ FinalizeApplies(f)
  BY SessionType DEF FinalizeSettled, DeliveryInv, TypeOK, Session
<1>2. /\ challenge[j].requested
      /\ outbox[j].delivery_deadline_at = challenge[j].expires_at
      /\ \A g \in Fences :
           sess[g].pc \in {"begun", "calling"} /\ now < sess[g].deadline =>
               sess[g].job # j
  BY <1>1, FinalizeOwns
<1>3. PICK t \in {now, now + 1} :
        /\ challenge' = [challenge EXCEPT ![j] =
              IF Recordable(j, t) THEN Recorded(j, o = "accepted") ELSE @]
        /\ outbox' = [outbox EXCEPT ![j] =
              Terminal(@, final, disposition, ResolutionKind(f), ProviderOutcome(f), FALSE,
                       IF Recordable(j, t) THEN "recorded" ELSE "not_recorded")]
  BY DEF FinalizeSettled
<1>4. final \in TerminalStates
  BY DEF TerminalStates
<1> HIDE DEF final, disposition
<1>5. /\ outbox'[j].state = final
      /\ outbox'[j].delivery_deadline_at = outbox[j].delivery_deadline_at
  <2> DEFINE recording == IF Recordable(j, t) THEN "recorded" ELSE "not_recorded"
  <2>1. outbox'[j] = Terminal(outbox[j], final, disposition, ResolutionKind(f),
                              ProviderOutcome(f), FALSE, recording)
    BY <1>1, <1>3
  <2> HIDE DEF recording
  <2> QED
    BY <1>1, <2>1 DEF Terminal, Row
<1>6. \A k \in Jobs : k # j => outbox'[k] = outbox[k]
  BY <1>1, <1>3
<1>7. \A k \in Jobs : /\ challenge'[k].requested = challenge[k].requested
                      /\ challenge'[k].expires_at = challenge[k].expires_at
  BY <1>1, <1>3, VerdictFields
<1>8. \A g \in Fences :
        \/ sess'[g] = sess[g]
        \/ /\ sess[g].pc # "unused" /\ sess'[g].pc \in {"done", "confirmed"}
           /\ sess'[g].mail = sess[g].mail /\ sess'[g].job = sess[g].job
  BY <1>1, AnsweredFields
<1> HIDE DEF j
<1>9. RowStep(j)
  BY <1>1, <1>2, <1>4, <1>5, <1>6, <1>7, <1>8 DEF RowStep, TerminalStates
<1> QED
  BY <1>1, <1>9, RowStepKeeps

\* Every step of an engine session keeps DeliveryInv.
LEMMA SendingKeeps ==
    ASSUME DeliveryInv, Sending
    PROVE  DeliveryInv'
<1>1. \A f \in Fences : BeginApplied(f) => sess[f].attempt < MaxAttempts
  BY DEF BeginApplied, HoldsLease, Sendable, DeliveryInv, ClaimAgrees, OwnsRow
<1>2. TypeOK'
  BY <1>1, SendingTyped DEF DeliveryInv
<1> QED
  BY <1>2, CallStepKeeps, EndStepKeeps, BeginAppliedKeeps, BeginUnsendableKeeps,
     FinalizeRetryableKeeps, FinalizeSettledKeeps DEF Sending

-----------------------------------------------------------------------------
(* The theorems.                                                           *)

\* The empty outbox satisfies DeliveryInv.
LEMMA InitDelivers == Init => DeliveryInv
<1> SUFFICES ASSUME Init
             PROVE  DeliveryInv
  OBVIOUS
<1>1. /\ NoChallenge \in Challenge /\ NoScan \in Scan /\ NoRow \in Row
      /\ NoSession.pc = "unused" /\ NoRow.state = "absent"
  BY NoRowType DEF NoChallenge, Challenge, NoScan, Scan, NoSession, NoRow
<1>2. TypeOK
  BY <1>1, BoundAssumption DEF Init, TypeOK
<1>3. \A f \in Fences : sess[f].pc = "unused"
  BY <1>1 DEF Init
<1>4. \A j \in Jobs : outbox[j].state = "absent"
  BY <1>1 DEF Init
<1> QED
  BY <1>2, <1>3, <1>4
     DEF DeliveryInv, ClaimAgrees, BegunInTime, DeadlineIsExpiry, CallOwnsRow,
         RefusalProven, MailClosesRow, AtMostOneAcceptance, Sessions

\* DeliveryInv is inductive.
LEMMA NextDelivers == DeliveryInv /\ [Next]_vars => DeliveryInv'
<1> SUFFICES ASSUME DeliveryInv, [Next]_vars
             PROVE  DeliveryInv'
  OBVIOUS
<1>1. CASE UNCHANGED vars
  <2>1. TypeOK'
    BY <1>1 DEF DeliveryInv, TypeOK, vars
  <2> QED
    BY <1>1, <2>1, ScanStepKeeps DEF vars
<1> QED
  BY <1>1, EnvironmentKeeps, ScanningKeeps, SendingKeeps DEF Next

\* The row of a job belongs to the one session that may still deliver its mail,
\* or is closed: claims, attempts, deadlines and mails of all sessions agree
\* with the rows, for any number of jobs, workers and claims and any durations.
THEOREM DeliveryInvariant == Spec => []DeliveryInv
  BY InitDelivers, NextDelivers, PTL DEF Spec

\* Every column the RPCs write stays in its range; in particular the attempt
\* count never passes three and the fence sequence never runs beyond its end.
THEOREM TypeCorrect == Spec => []TypeOK
<1>1. DeliveryInv => TypeOK
  BY DEF DeliveryInv
<1> QED
  BY <1>1, DeliveryInvariant, PTL

\* At most one of all the sessions that ever worked on a job left a mail that
\* the provider accepted or may yet accept: no code is mailed twice.
THEOREM MailedAtMostOnce == Spec => []AtMostOneAcceptance
<1>1. DeliveryInv => AtMostOneAcceptance
  BY DEF DeliveryInv
<1> QED
  BY <1>1, DeliveryInvariant, PTL

\* A session that may still submit or await its mail holds its row's lease,
\* is the row's current attempt and acts before the challenge expires.
THEOREM CallsAreCovered == Spec => []ProviderCallCovered
<1>1. DeliveryInv => ProviderCallCovered
  <2> SUFFICES ASSUME DeliveryInv, NEW f \in Fences,
                      sess[f].pc \in {"begun", "calling"}, now < sess[f].deadline
               PROVE  /\ HoldsLease(f, "SENDING")
                      /\ outbox[sess[f].job].attempt_count = sess[f].attempt
                      /\ now < challenge[sess[f].job].expires_at
    BY DEF ProviderCallCovered
  <2> DEFINE j == sess[f].job
  <2>1. /\ OwnsRow(f, "SENDING") /\ sess[f].attempt = outbox[j].attempt_count
        /\ sess[f].deadline <= LeaseExpires(outbox[j])
        /\ sess[f].deadline <= challenge[j].expires_at
    BY DEF DeliveryInv, CallOwnsRow
  <2>2. /\ now \in Nat /\ sess[f].deadline \in Nat
        /\ challenge[j].expires_at \in Nat /\ LeaseExpires(outbox[j]) \in Nat
    BY SessionType, TimingAssumption
       DEF DeliveryInv, TypeOK, Session, Challenge, LeaseExpires, Row
  <2>3. now < LeaseExpires(outbox[j]) /\ now < challenge[j].expires_at
    BY <2>1, <2>2
  <2> QED
    BY <2>1, <2>3 DEF OwnsRow, HoldsLease
<1> QED
  BY <1>1, DeliveryInvariant, PTL

-----------------------------------------------------------------------------
(* What the rows say of verdicts and attempts.                             *)

\* The challenge has expired; nothing can be enqueued for it any more.
Gone(c) == c.requested /\ c.expires_at <= now

\* A verdict is in exactly when the row that recorded it says so, until the
\* purge, which waits for the challenge to expire.
VerdictAgrees(c, r) ==
    /\ c.delivery = "succeeded" =>
         \/ r.state = "ACCEPTED" /\ r.challenge_recording = "recorded"
         \/ r.state = "absent" /\ Gone(c)
    /\ c.delivery = "failed" =>
         \/ /\ r.state \in TerminalStates /\ r.state # "ACCEPTED"
            /\ r.challenge_recording = "recorded"
         \/ r.state = "absent" /\ Gone(c)
    /\ r.challenge_recording = "recorded" =>
         /\ r.state \in TerminalStates
         /\ c.delivery = IF r.state = "ACCEPTED" THEN "succeeded" ELSE "failed"

\* The sessions of a job that have submitted a mail or are about to.
Spent(j) ==
    {f \in Fences : /\ sess[f].pc # "unused" /\ sess[f].job = j
                    /\ sess[f].pc = "begun" \/ sess[f].mail # "unsent"}

\* Each of them was counted by the row.
AttemptsCounted(j) ==
    IF outbox[j].state = "absent" THEN Spent(j) = {} \/ Gone(challenge[j])
    ELSE Cardinality(Spent(j)) <= outbox[j].attempt_count

AcceptedMail(j) ==
    \E f \in Fences : /\ sess[f].pc # "unused" /\ sess[f].job = j
                      /\ sess[f].mail = "accepted"

\* Why a verdict is true and the attempts are few: fences are fresh, a mail
\* follows its call, an answer "accepted" was given, and row, challenge and
\* sessions of a job agree.
PromiseInv ==
    /\ \A f \in Fences : sess[f].pc # "unused" => f < nextFence
    /\ \A f \in Fences :
         sess[f].pc \in {"claimed", "begin_sent", "begun"} => sess[f].mail = "unsent"
    /\ \A f \in Fences :
         sess[f].pc = "final_sent" /\ sess[f].outcome = "accepted" =>
            sess[f].mail = "accepted"
    /\ \A j \in Jobs :
         /\ VerdictAgrees(challenge[j], outbox[j])
         /\ AttemptsCounted(j)
         /\ challenge[j].delivery = "succeeded" => AcceptedMail(j)

\* The sessions of the fences are finitely many, so are those that mailed.
LEMMA SpentFinite ==
    ASSUME NEW S \in SUBSET Fences
    PROVE  IsFiniteSet(S) /\ Cardinality(S) \in Nat
<1>1. IsFiniteSet(Fences)
  BY FS_Interval, BoundAssumption DEF Fences
<1> QED
  BY <1>1, FS_Subset, FS_CardinalityType

\* Fewer sessions have a smaller count.
LEMMA SpentLess ==
    ASSUME NEW S \in SUBSET Fences, NEW T \in SUBSET S
    PROVE  Cardinality(T) <= Cardinality(S)
  BY SpentFinite, FS_Subset

\* One more session adds one at most.
LEMMA SpentOneMore ==
    ASSUME NEW S \in SUBSET Fences, NEW f \in Fences, NEW T \in SUBSET (S \cup {f})
    PROVE  Cardinality(T) <= Cardinality(S) + 1
<1>1. IsFiniteSet(S) /\ IsFiniteSet(S \cup {f}) /\ Cardinality(S) \in Nat
  BY SpentFinite
<1>2. Cardinality(S \cup {f}) <= Cardinality(S) + 1
  BY <1>1, FS_AddElement
<1>3. Cardinality(T) <= Cardinality(S \cup {f}) /\ T \in SUBSET Fences
  BY <1>1, FS_Subset
<1> QED
  BY <1>1, <1>2, <1>3, SpentFinite

\* A step of the sessions that submits no mail: each stays, ends or is new.
SessionsMove ==
    \A f \in Fences :
        \/ sess'[f] = sess[f]
        \/ /\ sess[f].pc # "unused" /\ sess'[f].pc # "unused"
           /\ sess'[f].job = sess[f].job /\ sess'[f].mail = sess[f].mail
           /\ sess'[f].pc = "begun" => sess[f].pc = "begun"
           /\ sess'[f].pc \in {"claimed", "begin_sent", "begun"} =>
                sess[f].pc \in {"claimed", "begin_sent", "begun"}
           /\ sess'[f].pc = "final_sent" /\ sess'[f].outcome = "accepted" =>
                sess[f].mail = "accepted"
        \/ /\ sess[f].pc = "unused" /\ sess'[f].pc = "claimed"
           /\ sess'[f].mail = "unsent" /\ f < nextFence'

\* What such a step keeps.
LEMMA SessionsMoveKeeps ==
    ASSUME PromiseInv, SessionsMove, nextFence' >= nextFence,
           nextFence \in Nat, nextFence' \in Nat
    PROVE  /\ \A f \in Fences : sess'[f].pc # "unused" => f < nextFence'
           /\ \A f \in Fences :
                sess'[f].pc \in {"claimed", "begin_sent", "begun"} => sess'[f].mail = "unsent"
           /\ \A f \in Fences :
                sess'[f].pc = "final_sent" /\ sess'[f].outcome = "accepted" =>
                    sess'[f].mail = "accepted"
           /\ \A j \in Jobs : Spent(j)' \subseteq Spent(j)
           /\ \A j \in Jobs : AcceptedMail(j) => AcceptedMail(j)'
<1>1. \A f \in Fences : sess'[f].pc # "unused" => f < nextFence'
  BY DEF PromiseInv, SessionsMove, Fences
<1>2. \A f \in Fences :
        sess'[f].pc \in {"claimed", "begin_sent", "begun"} => sess'[f].mail = "unsent"
  BY DEF PromiseInv, SessionsMove
<1>3. \A f \in Fences :
        sess'[f].pc = "final_sent" /\ sess'[f].outcome = "accepted" =>
            sess'[f].mail = "accepted"
  BY DEF PromiseInv, SessionsMove
<1>4. \A j \in Jobs : Spent(j)' \subseteq Spent(j)
  BY DEF Spent, SessionsMove
<1>5. \A j \in Jobs : AcceptedMail(j) => AcceptedMail(j)'
  BY DEF AcceptedMail, SessionsMove
<1> QED
  BY <1>1, <1>2, <1>3, <1>4, <1>5

\* A step on the row and the challenge of one job, with its sessions moving: a
\* verdict, if one is written, is the first, and true.
PromiseStep(j) ==
    /\ now' = now /\ nextFence' >= nextFence
    /\ SessionsMove
    /\ \A k \in Jobs : k # j => outbox'[k] = outbox[k] /\ challenge'[k] = challenge[k]
    /\ challenge'[j].requested = challenge[j].requested
    /\ challenge'[j].expires_at = challenge[j].expires_at
    /\ VerdictAgrees(challenge'[j], outbox'[j])
    /\ challenge'[j].delivery # challenge[j].delivery =>
         /\ challenge[j].delivery = "none"
         /\ challenge'[j].delivery = "succeeded" => AcceptedMail(j)
    /\ \/ /\ outbox[j].state # "absent" /\ outbox'[j].state # "absent"
          /\ outbox'[j].attempt_count = outbox[j].attempt_count
       \/ outbox'[j].state = "absent" /\ Gone(challenge[j])
       \/ /\ outbox[j].state = "absent" /\ ~Gone(challenge[j])
          /\ outbox'[j].state # "absent" /\ outbox'[j].attempt_count = 0

\* Such a step keeps PromiseInv.
LEMMA PromiseStepKeeps ==
    ASSUME DeliveryInv, TypeOK', PromiseInv, NEW j \in Jobs, PromiseStep(j)
    PROVE  PromiseInv'
<1>1. nextFence \in Nat /\ nextFence' \in Nat
  BY DEF DeliveryInv, TypeOK
<1>2. /\ \A f \in Fences : sess'[f].pc # "unused" => f < nextFence'
      /\ \A f \in Fences :
           sess'[f].pc \in {"claimed", "begin_sent", "begun"} => sess'[f].mail = "unsent"
      /\ \A f \in Fences :
           sess'[f].pc = "final_sent" /\ sess'[f].outcome = "accepted" =>
               sess'[f].mail = "accepted"
      /\ \A k \in Jobs : Spent(k)' \subseteq Spent(k)
      /\ \A k \in Jobs : AcceptedMail(k) => AcceptedMail(k)'
  BY <1>1, SessionsMoveKeeps DEF PromiseStep
<1>3. ASSUME NEW k \in Jobs
      PROVE  VerdictAgrees(challenge[k], outbox[k])'
  <2>1. CASE k = j
    BY <2>1 DEF PromiseStep, VerdictAgrees, Gone
  <2>2. CASE k # j
    BY <2>2 DEF PromiseStep, PromiseInv, VerdictAgrees, Gone
  <2> QED
    BY <2>1, <2>2
<1>4. ASSUME NEW k \in Jobs, challenge'[k].delivery = "succeeded"
      PROVE  AcceptedMail(k)'
  BY <1>2, <1>4 DEF PromiseStep, PromiseInv
<1>5. ASSUME NEW k \in Jobs
      PROVE  AttemptsCounted(k)'
  <2>1. Spent(k) \in SUBSET Fences /\ Spent(k)' \in SUBSET Spent(k)
    BY <1>2 DEF Spent
  <2>2. /\ Cardinality(Spent(k)) \in Nat /\ Cardinality(Spent(k)') \in Nat
        /\ Cardinality(Spent(k)') <= Cardinality(Spent(k))
    BY <2>1, SpentFinite, SpentLess
  <2>3. outbox[k] \in Row /\ AttemptsCounted(k)
    BY DEF DeliveryInv, TypeOK, PromiseInv
  <2>4. CASE k # j
    <3>1. /\ outbox'[k] = outbox[k] /\ challenge'[k] = challenge[k] /\ now' = now
      BY <2>4 DEF PromiseStep
    <3>2. CASE outbox[k].state = "absent"
      BY <2>1, <2>3, <3>1, <3>2 DEF AttemptsCounted, Gone
    <3>3. CASE outbox[k].state # "absent"
      BY <2>2, <2>3, <3>1, <3>3 DEF AttemptsCounted, Row, MaxAttempts
    <3> QED
      BY <3>2, <3>3
  <2>5. CASE k = j
    <3>1. CASE /\ outbox[j].state # "absent" /\ outbox'[j].state # "absent"
               /\ outbox'[j].attempt_count = outbox[j].attempt_count
      BY <2>2, <2>3, <2>5, <3>1 DEF AttemptsCounted, Row, MaxAttempts
    <3>2. CASE outbox'[j].state = "absent" /\ Gone(challenge[j])
      BY <2>5, <3>2 DEF AttemptsCounted, Gone, PromiseStep
    <3>3. CASE /\ outbox[j].state = "absent" /\ ~Gone(challenge[j])
               /\ outbox'[j].state # "absent" /\ outbox'[j].attempt_count = 0
      <4>1. Spent(k)' = {}
        BY <2>1, <2>3, <2>5, <3>3 DEF AttemptsCounted
      <4>2. Cardinality(Spent(k)') = 0
        BY <4>1, FS_EmptySet
      <4> QED
        BY <2>5, <3>3, <4>2 DEF AttemptsCounted
    <3> QED
      BY <3>1, <3>2, <3>3 DEF PromiseStep
  <2> QED
    BY <2>4, <2>5
<1> QED
  BY <1>2, <1>3, <1>4, <1>5 DEF PromiseInv

\* Steps that leave rows, challenges and the sequence alone.
LEMMA QuietStepPromises ==
    ASSUME DeliveryInv, TypeOK', PromiseInv, SessionsMove,
           UNCHANGED <<challenge, outbox, nextFence>>, now' >= now
    PROVE  PromiseInv'
<1>1. nextFence \in Nat /\ nextFence' \in Nat /\ nextFence' >= nextFence
      /\ now \in Nat /\ now' \in Nat
  BY DEF DeliveryInv, TypeOK
<1>2. /\ \A f \in Fences : sess'[f].pc # "unused" => f < nextFence'
      /\ \A f \in Fences :
           sess'[f].pc \in {"claimed", "begin_sent", "begun"} => sess'[f].mail = "unsent"
      /\ \A f \in Fences :
           sess'[f].pc = "final_sent" /\ sess'[f].outcome = "accepted" =>
               sess'[f].mail = "accepted"
      /\ \A k \in Jobs : Spent(k)' \subseteq Spent(k)
      /\ \A k \in Jobs : AcceptedMail(k) => AcceptedMail(k)'
  BY <1>1, SessionsMoveKeeps
<1>3. ASSUME NEW k \in Jobs
      PROVE  /\ VerdictAgrees(challenge[k], outbox[k])' /\ AttemptsCounted(k)'
             /\ challenge'[k].delivery = "succeeded" => AcceptedMail(k)'
  <2>1. challenge[k].expires_at \in Nat /\ outbox[k] \in Row
    BY DEF DeliveryInv, TypeOK, Challenge
  <2>2. Gone(challenge[k]) => Gone(challenge[k])'
    BY <1>1, <2>1 DEF Gone
  <2>3. VerdictAgrees(challenge[k], outbox[k])'
    BY <2>2 DEF PromiseInv, VerdictAgrees
  <2>4. Spent(k) \in SUBSET Fences /\ Spent(k)' \in SUBSET Spent(k)
    BY <1>2 DEF Spent
  <2>5. /\ Cardinality(Spent(k)) \in Nat /\ Cardinality(Spent(k)') \in Nat
        /\ Cardinality(Spent(k)') <= Cardinality(Spent(k))
    BY <2>4, SpentFinite, SpentLess
  <2>6. AttemptsCounted(k)
    BY DEF PromiseInv
  <2>7. CASE outbox[k].state = "absent"
    BY <1>2, <2>2, <2>3, <2>4, <2>6, <2>7 DEF AttemptsCounted, PromiseInv
  <2>8. CASE outbox[k].state # "absent"
    BY <1>2, <2>1, <2>3, <2>5, <2>6, <2>8 DEF AttemptsCounted, PromiseInv, Row, MaxAttempts
  <2> QED
    BY <2>7, <2>8
<1> QED
  BY <1>2, <1>3 DEF PromiseInv

\* Sessions that stay as they are move.
LEMMA SessionsStay ==
    ASSUME UNCHANGED sess
    PROVE  SessionsMove
  BY DEF SessionsMove

\* What happens to a challenge keeps PromiseInv: only a new one has no verdict.
LEMMA ChallengePromises ==
    ASSUME DeliveryInv, TypeOK', PromiseInv, NEW j \in Jobs,
           RequestChallenge(j) \/ SupersedeChallenge(j) \/ ScrubChallenge(j)
    PROVE  PromiseInv'
<1>1. /\ UNCHANGED <<now, outbox, nextFence, sess>>
      /\ challenge[j] \in Challenge /\ DOMAIN challenge = Jobs
      /\ \A k \in Jobs : k # j => challenge'[k] = challenge[k]
  BY DEF RequestChallenge, SupersedeChallenge, ScrubChallenge, DeliveryInv, TypeOK
<1>2. CASE RequestChallenge(j)
  <2>1. /\ ~challenge[j].requested /\ challenge'[j].delivery = "none"
    BY <1>1, <1>2 DEF RequestChallenge
  <2>2. outbox[j].state = "absent" /\ "absent" \notin TerminalStates
    BY <2>1 DEF DeliveryInv, DeadlineIsExpiry, TerminalStates
  <2>3. Spent(j) = {}
    BY <2>1, <2>2 DEF PromiseInv, AttemptsCounted, Gone
  <2>4. \A k \in Jobs : Spent(k)' = Spent(k) /\ (AcceptedMail(k)' <=> AcceptedMail(k))
    BY <1>1 DEF Spent, AcceptedMail
  <2>5. VerdictAgrees(challenge[j], outbox[j])' /\ AttemptsCounted(j)'
    BY <1>1, <2>1, <2>2, <2>3, <2>4 DEF PromiseInv, VerdictAgrees, AttemptsCounted
  <2>6. ASSUME NEW k \in Jobs, k # j
        PROVE  VerdictAgrees(challenge[k], outbox[k])' /\ AttemptsCounted(k)'
    BY <1>1, <2>4, <2>6 DEF PromiseInv, VerdictAgrees, AttemptsCounted, Gone
  <2> QED
    BY <1>1, <2>1, <2>4, <2>5, <2>6 DEF PromiseInv
<1>3. CASE SupersedeChallenge(j) \/ ScrubChallenge(j)
  <2>1. /\ challenge'[j].requested = challenge[j].requested
        /\ challenge'[j].expires_at = challenge[j].expires_at
        /\ challenge'[j].delivery = challenge[j].delivery
    BY <1>1, <1>3 DEF SupersedeChallenge, ScrubChallenge, Challenge
  <2>2. \A k \in Jobs : /\ challenge'[k].requested = challenge[k].requested
                        /\ challenge'[k].expires_at = challenge[k].expires_at
                        /\ challenge'[k].delivery = challenge[k].delivery
    BY <1>1, <2>1
  <2>3. \A k \in Jobs : Spent(k)' = Spent(k) /\ (AcceptedMail(k)' <=> AcceptedMail(k))
    BY <1>1 DEF Spent, AcceptedMail
  <2>4. ASSUME NEW k \in Jobs
        PROVE  VerdictAgrees(challenge[k], outbox[k])' /\ AttemptsCounted(k)'
    BY <1>1, <2>2, <2>3, <2>4 DEF PromiseInv, VerdictAgrees, AttemptsCounted, Gone
  <2> QED
    BY <1>1, <2>2, <2>3, <2>4 DEF PromiseInv
<1> QED
  BY <1>2, <1>3

\* enqueue keeps PromiseInv: no session ever worked for a job without a row
\* whose challenge is alive.
LEMMA EnqueuePromises ==
    ASSUME DeliveryInv, TypeOK', PromiseInv, NEW j \in Jobs, Enqueue(j)
    PROVE  PromiseInv'
<1>1. /\ UNCHANGED <<now, challenge, sess>> /\ DOMAIN outbox = Jobs
      /\ nextFence \in Nat /\ nextFence' = nextFence + 1
      /\ outbox[j].state = "absent" /\ challenge[j].delivery = "none"
      /\ now \in Nat /\ challenge[j].expires_at \in Nat /\ now < challenge[j].expires_at
  BY DEF Enqueue, Usable, DeliveryInv, TypeOK, Challenge
<1>2. /\ outbox'[j].state = "PENDING" /\ outbox'[j].attempt_count = 0
      /\ outbox'[j].challenge_recording = "not_applicable"
      /\ \A k \in Jobs : k # j => outbox'[k] = outbox[k]
  BY <1>1 DEF Enqueue, NoRow
<1>3. ~Gone(challenge[j])
  BY <1>1 DEF Gone
<1>4. VerdictAgrees(challenge'[j], outbox'[j])
  BY <1>1, <1>2 DEF VerdictAgrees
<1>5. PromiseStep(j)
  BY <1>1, <1>2, <1>3, <1>4, SessionsStay DEF PromiseStep
<1> QED
  BY <1>5, PromiseStepKeeps

\* The purge keeps PromiseInv: it waits for the challenge to expire.
LEMMA PurgePromises ==
    ASSUME DeliveryInv, TypeOK', PromiseInv, NEW j \in Jobs, Purge(j)
    PROVE  PromiseInv'
<1>1. /\ UNCHANGED <<now, challenge, nextFence, sess>> /\ DOMAIN outbox = Jobs
      /\ nextFence \in Nat
      /\ outbox[j].state \in TerminalStates /\ "absent" \notin TerminalStates
      /\ challenge[j].expires_at <= now
  BY DEF Purge, Purgeable, DeliveryInv, TypeOK, TerminalStates
<1>2. Gone(challenge[j])
  BY <1>1 DEF DeliveryInv, DeadlineIsExpiry, Gone
<1>3. /\ outbox'[j].state = "absent" /\ outbox'[j].challenge_recording = "not_applicable"
      /\ \A k \in Jobs : k # j => outbox'[k] = outbox[k]
  BY <1>1 DEF Purge, NoRow
<1>4. VerdictAgrees(challenge'[j], outbox'[j])
  BY <1>1, <1>2, <1>3 DEF VerdictAgrees
<1>5. PromiseStep(j)
  BY <1>1, <1>2, <1>3, <1>4, SessionsStay DEF PromiseStep
<1> QED
  BY <1>5, PromiseStepKeeps

\* A claim keeps PromiseInv: its fence is fresh and its challenge undecided.
LEMMA ClaimPromises ==
    ASSUME DeliveryInv, TypeOK', PromiseInv, NEW w \in Workers, NEW j \in Jobs, ClaimOne(w, j)
    PROVE  PromiseInv' /\ SessionsMove
<1>1. /\ UNCHANGED <<now, challenge>> /\ outbox[j] \in Row /\ DOMAIN outbox = Jobs
      /\ DOMAIN sess = Fences
      /\ nextFence \in Nat /\ nextFence' = nextFence + 1 /\ nextFence \in Fences
      /\ outbox[j].state \in {"PENDING", "RETRY_WAIT"} /\ challenge[j].delivery = "none"
  BY BoundAssumption DEF ClaimOne, Claimable, Usable, DeliveryInv, TypeOK, Fences
<1>2. sess[nextFence].pc = "unused"
  BY <1>1 DEF PromiseInv
<1>3. /\ sess'[nextFence].pc = "claimed" /\ sess'[nextFence].mail = "unsent"
      /\ \A f \in Fences : f # nextFence => sess'[f] = sess[f]
  BY <1>1 DEF ClaimOne
<1>4. SessionsMove
  <2>1. nextFence < nextFence'
    BY <1>1
  <2> QED
    BY <1>2, <1>3, <2>1 DEF SessionsMove
<1>5. /\ outbox'[j].state = "LEASED" /\ outbox'[j].attempt_count = outbox[j].attempt_count
      /\ outbox'[j].challenge_recording = outbox[j].challenge_recording
      /\ \A k \in Jobs : k # j => outbox'[k] = outbox[k]
  BY <1>1 DEF ClaimOne, Row
<1>6. VerdictAgrees(challenge[j], outbox[j])
  BY DEF PromiseInv
<1>7. VerdictAgrees(challenge'[j], outbox'[j])
  BY <1>1, <1>5, <1>6 DEF VerdictAgrees, TerminalStates
<1>8. PromiseStep(j)
  BY <1>1, <1>4, <1>5, <1>7 DEF PromiseStep
<1> QED
  BY <1>4, <1>8, PromiseStepKeeps

\* The verdict and the row that records it are written together, and say the
\* same, whatever the second reading of the clock shows.
LEMMA VerdictWritten ==
    ASSUME DeliveryInv, PromiseInv, NEW j \in Jobs, NEW t, NEW accepted \in BOOLEAN,
           outbox[j].state \in ActiveStates,
           challenge' = [challenge EXCEPT ![j] =
                IF Recordable(j, t) THEN Recorded(j, accepted) ELSE @],
           outbox'[j].state \in TerminalStates,
           outbox'[j].state = "ACCEPTED" <=> accepted,
           outbox'[j].challenge_recording =
                IF Recordable(j, t) THEN "recorded" ELSE "not_recorded"
    PROVE  /\ VerdictAgrees(challenge'[j], outbox'[j])
           /\ challenge'[j].delivery = "succeeded" => accepted
           /\ challenge'[j].requested = challenge[j].requested
           /\ challenge'[j].expires_at = challenge[j].expires_at
           /\ \A k \in Jobs : k # j => challenge'[k] = challenge[k]
           /\ \/ challenge'[j].delivery = challenge[j].delivery
              \/ /\ challenge[j].delivery = "none"
                 /\ challenge'[j].delivery = IF accepted THEN "succeeded" ELSE "failed"
<1>1. challenge[j] \in Challenge /\ DOMAIN challenge = Jobs
  BY DEF DeliveryInv, TypeOK
<1>2. ActiveStates \cap TerminalStates = {} /\ "ACCEPTED" \notin ActiveStates
      /\ "absent" \notin ActiveStates
  BY DEF ActiveStates, TerminalStates
<1>3. challenge[j].delivery = "none"
  BY <1>1, <1>2 DEF PromiseInv, VerdictAgrees, Challenge
<1>4. CASE Recordable(j, t)
  <2>1. challenge'[j] = Recorded(j, accepted)
    BY <1>1, <1>4
  <2>2. /\ challenge'[j].delivery = IF accepted THEN "succeeded" ELSE "failed"
        /\ challenge'[j].requested = challenge[j].requested
        /\ challenge'[j].expires_at = challenge[j].expires_at
    BY <1>1, <2>1 DEF Recorded, Challenge
  <2> QED
    BY <1>1, <1>3, <1>4, <2>2 DEF VerdictAgrees
<1>5. CASE ~Recordable(j, t)
  <2>1. challenge'[j] = challenge[j]
    BY <1>1, <1>5
  <2> QED
    BY <1>1, <1>3, <1>5, <2>1 DEF VerdictAgrees
<1> QED
  BY <1>4, <1>5

\* An active row has no verdict, so it may change its state, or close without
\* recording one.
LEMMA ActiveRowAgrees ==
    ASSUME DeliveryInv, PromiseInv, NEW j \in Jobs, NEW r,
           outbox[j].state \in ActiveStates,
           r.challenge_recording \in {"not_applicable", outbox[j].challenge_recording}
    PROVE  VerdictAgrees(challenge[j], r) /\ challenge[j].delivery = "none"
<1>1. challenge[j] \in Challenge /\ VerdictAgrees(challenge[j], outbox[j])
  BY DEF DeliveryInv, TypeOK, PromiseInv
<1>2. ActiveStates \cap TerminalStates = {} /\ "ACCEPTED" \notin ActiveStates
      /\ "absent" \notin ActiveStates
  BY DEF ActiveStates, TerminalStates
<1> QED
  BY <1>1, <1>2 DEF VerdictAgrees, Challenge

\* Recovery keeps PromiseInv.
LEMMA RecoverPromises ==
    ASSUME DeliveryInv, TypeOK', PromiseInv, NEW w \in Workers, NEW j \in Jobs,
           RecoverOne(w, j)
    PROVE  PromiseInv' /\ (PromiseStep(j) \/ UNCHANGED <<challenge, sess>>)
<1>1. /\ outbox[j] \in Row /\ DOMAIN outbox = Jobs /\ challenge[j] \in Challenge
      /\ nextFence \in Nat /\ now \in Nat
  BY DEF DeliveryInv, TypeOK
<1>6. UNCHANGED <<now, nextFence, sess>>
  BY DEF RecoverOne, RecoverSending, RecoverLeased, RecoverUnsendable, RecoverSkip
<1>2. "absent" \notin ActiveStates /\ "absent" \notin TerminalStates
  BY DEF ActiveStates, TerminalStates
<1>3. CASE RecoverSending(w, j)
  <2>1. PICK t \in {now, now + 1} :
          /\ challenge' = [challenge EXCEPT ![j] =
                IF Recordable(j, t) THEN Recorded(j, FALSE) ELSE @]
          /\ outbox' = [outbox EXCEPT ![j] =
                Terminal(@, "DELIVERY_OUTCOME_UNKNOWN", "delivery_outcome_unknown",
                         "recovery", "none", FALSE,
                         IF Recordable(j, t) THEN "recorded" ELSE "not_recorded")]
    BY <1>3 DEF RecoverSending
  <2>7. PICK recording :
          recording = IF Recordable(j, t) THEN "recorded" ELSE "not_recorded"
    OBVIOUS
  <2>2. outbox'[j] = Terminal(outbox[j], "DELIVERY_OUTCOME_UNKNOWN",
                              "delivery_outcome_unknown", "recovery", "none", FALSE, recording)
    BY <1>1, <2>1, <2>7
  <2>8. \A k \in Jobs : k # j => outbox'[k] = outbox[k]
    BY <1>1, <2>1
  <2>3. /\ outbox'[j].state = "DELIVERY_OUTCOME_UNKNOWN"
        /\ outbox'[j].challenge_recording = recording
        /\ outbox'[j].attempt_count = outbox[j].attempt_count
    BY <1>1, <2>2 DEF Terminal, Row
  <2>4. outbox[j].state \in ActiveStates /\ outbox'[j].state \in TerminalStates
        /\ outbox'[j].state # "ACCEPTED"
    BY <1>3, <2>3 DEF RecoverSending, ActiveStates, TerminalStates
  <2>5. /\ VerdictAgrees(challenge'[j], outbox'[j])
        /\ challenge'[j].delivery # "succeeded"
        /\ challenge'[j].requested = challenge[j].requested
        /\ challenge'[j].expires_at = challenge[j].expires_at
        /\ \A k \in Jobs : k # j => challenge'[k] = challenge[k]
        /\ \/ challenge'[j].delivery = challenge[j].delivery
           \/ challenge[j].delivery = "none"
    BY <2>1, <2>3, <2>4, <2>7, VerdictWritten
  <2>6. PromiseStep(j)
    BY <1>1, <1>2, <1>6, <2>3, <2>4, <2>5, <2>8, SessionsStay DEF PromiseStep
  <2> QED
    BY <2>6, PromiseStepKeeps
<1>4. CASE RecoverLeased(w, j) \/ RecoverUnsendable(w, j)
  <2>1. outbox[j].state \in ActiveStates /\ UNCHANGED challenge
    BY <1>4 DEF RecoverLeased, RecoverUnsendable, ClaimedNotSent, ActiveStates
  <2>2. /\ outbox'[j].state # "absent"
        /\ outbox'[j].attempt_count = outbox[j].attempt_count
        /\ outbox'[j].challenge_recording \in
             {"not_applicable", outbox[j].challenge_recording}
        /\ \A k \in Jobs : k # j => outbox'[k] = outbox[k]
    <3>1. CASE RecoverLeased(w, j)
      <4>1. outbox'[j] = Requeued(outbox[j])
            /\ \A k \in Jobs : k # j => outbox'[k] = outbox[k]
        BY <1>1, <3>1 DEF RecoverLeased
      <4> QED
        BY <1>1, <4>1, RequeuedFields
    <3>2. CASE RecoverUnsendable(w, j)
      <4>1. outbox'[j] = Unsendable(outbox[j], "recovery", Usable(j, scan[w].located))
            /\ \A k \in Jobs : k # j => outbox'[k] = outbox[k]
        BY <1>1, <3>2 DEF RecoverUnsendable
      <4> QED
        BY <1>1, <1>2, <4>1, UnsendableFields
    <3> QED
      BY <1>4, <3>1, <3>2
  <2>3. VerdictAgrees(challenge[j], outbox'[j]) /\ challenge[j].delivery = "none"
    BY <2>1, <2>2, ActiveRowAgrees
  <2>4. VerdictAgrees(challenge'[j], outbox'[j])
    BY <2>1, <2>3
  <2>5. PromiseStep(j)
    BY <1>1, <1>2, <2>1, <2>2, <2>3, <2>4, SessionsStay, <1>6 DEF PromiseStep
  <2> QED
    BY <2>5, PromiseStepKeeps
<1>5. CASE RecoverSkip(w, j)
  <2>1. UNCHANGED <<challenge, outbox>>
    BY <1>5 DEF RecoverSkip
  <2> QED
    BY <1>1, <1>6, <2>1, SessionsStay, QuietStepPromises
<1> QED
  BY <1>3, <1>4, <1>5 DEF RecoverOne

\* A session that ends or is answered moves.
LEMMA AnsweredMoves ==
    ASSUME DeliveryInv, NEW f \in Fences, sess[f].pc # "unused",
           Finish(f) \/ FinalizeAnswered(f)
    PROVE  SessionsMove
<1>1. \A g \in Fences :
        \/ sess'[g] = sess[g]
        \/ /\ g = f /\ sess'[g].pc \in {"done", "confirmed"}
           /\ sess'[g].mail = sess[g].mail /\ sess'[g].job = sess[g].job
  BY AnsweredFields
<1> QED
  BY <1>1 DEF SessionsMove

\* The steps of a session before and around the provider call keep PromiseInv.
LEMMA CallPromises ==
    ASSUME DeliveryInv, TypeOK', PromiseInv, NEW f \in Fences,
           \/ SenderUnavailable(f) \/ BeginCall(f) \/ Settle(f)
    PROVE  PromiseInv' /\ SessionsMove
<1>1. /\ UNCHANGED <<now, challenge, outbox, nextFence>> /\ now \in Nat
      /\ sess[f].pc # "unused" /\ DOMAIN sess = Fences
  BY DEF SenderUnavailable, BeginCall, Settle, DeliveryInv, TypeOK
<1>2. sess[f] \in Session
  BY <1>1, SessionType DEF DeliveryInv
<1>3. SessionsMove
  <2>1. CASE SenderUnavailable(f)
    <3>1. /\ sess'[f].pc = "final_sent" /\ sess'[f].outcome = "sender_unavailable"
          /\ sess'[f].job = sess[f].job /\ sess'[f].mail = sess[f].mail
          /\ \A g \in Fences : g # f => sess'[g] = sess[g]
      BY <1>1, <1>2, <2>1 DEF SenderUnavailable, Session
    <3> QED
      BY <1>1, <3>1 DEF SessionsMove
  <2>2. CASE BeginCall(f)
    <3>1. PICK d : sess' = [sess EXCEPT ![f].pc = "begin_sent", ![f].deadline = d]
      BY <2>2 DEF BeginCall
    <3>2. /\ sess'[f].pc = "begin_sent" /\ sess[f].pc = "claimed"
          /\ sess'[f].job = sess[f].job /\ sess'[f].mail = sess[f].mail
          /\ \A g \in Fences : g # f => sess'[g] = sess[g]
      BY <1>1, <1>2, <2>2, <3>1 DEF BeginCall, Session
    <3> QED
      BY <1>1, <3>2 DEF SessionsMove
  <2>3. CASE Settle(f)
    <3>1. PICK o \in ProviderOutcomes :
            /\ o # "outcome_unknown" => o \in Answers(sess[f].mail)
            /\ sess' = [sess EXCEPT ![f].pc = "final_sent", ![f].outcome = o]
      BY <2>3 DEF Settle
    <3>2. /\ sess'[f].pc = "final_sent" /\ sess'[f].outcome = o
          /\ sess'[f].job = sess[f].job /\ sess'[f].mail = sess[f].mail
          /\ \A g \in Fences : g # f => sess'[g] = sess[g]
      BY <1>1, <1>2, <3>1 DEF Session
    <3>3. o = "accepted" => sess[f].mail = "accepted"
      BY <3>1 DEF Answers
    <3> QED
      BY <1>1, <3>2, <3>3 DEF SessionsMove
  <2> QED
    BY <2>1, <2>2, <2>3
<1> QED
  BY <1>1, <1>3, QuietStepPromises

\* A step of one session that changes what became of its mail.
LEMMA MailPromises ==
    ASSUME DeliveryInv, TypeOK', PromiseInv, NEW f \in Fences, sess[f].pc # "unused",
           UNCHANGED <<now, challenge, outbox, nextFence>>,
           \A g \in Fences : g # f => sess'[g] = sess[g],
           sess'[f].job = sess[f].job, sess'[f].pc \notin {"unused", "begun"},
           sess'[f].mail # "unsent" => f \in Spent(sess[f].job),
           sess'[f].pc \notin {"claimed", "begin_sent"},
           sess'[f].pc = "final_sent" /\ sess'[f].outcome = "accepted" =>
               sess'[f].mail = "accepted",
           sess[f].mail # "accepted"
    PROVE  PromiseInv'
<1>1. \A j \in Jobs : Spent(j)' \subseteq Spent(j)
  BY DEF Spent
<1>2. \A j \in Jobs : AcceptedMail(j) => AcceptedMail(j)'
  BY DEF AcceptedMail
<1>3. ASSUME NEW j \in Jobs
      PROVE  VerdictAgrees(challenge[j], outbox[j])' /\ AttemptsCounted(j)'
  <2>1. Spent(j) \in SUBSET Fences /\ Spent(j)' \in SUBSET Spent(j)
    BY <1>1 DEF Spent
  <2>2. /\ Cardinality(Spent(j)) \in Nat /\ Cardinality(Spent(j)') \in Nat
        /\ Cardinality(Spent(j)') <= Cardinality(Spent(j))
    BY <2>1, SpentFinite, SpentLess
  <2>3. outbox[j] \in Row /\ AttemptsCounted(j) /\ VerdictAgrees(challenge[j], outbox[j])
    BY DEF DeliveryInv, TypeOK, PromiseInv
  <2>4. VerdictAgrees(challenge[j], outbox[j])'
    BY <2>3 DEF VerdictAgrees, Gone
  <2>5. CASE outbox[j].state = "absent"
    BY <2>1, <2>3, <2>4, <2>5 DEF AttemptsCounted, Gone
  <2>6. CASE outbox[j].state # "absent"
    BY <2>2, <2>3, <2>4, <2>6 DEF AttemptsCounted, Row, MaxAttempts
  <2> QED
    BY <2>5, <2>6
<1>4. /\ \A g \in Fences : sess'[g].pc # "unused" => g < nextFence'
      /\ \A g \in Fences :
           sess'[g].pc \in {"claimed", "begin_sent", "begun"} => sess'[g].mail = "unsent"
      /\ \A g \in Fences :
           sess'[g].pc = "final_sent" /\ sess'[g].outcome = "accepted" =>
               sess'[g].mail = "accepted"
  BY DEF PromiseInv
<1> QED
  BY <1>2, <1>3, <1>4 DEF PromiseInv

\* Submitting a mail and the provider's decision keep PromiseInv.
LEMMA SubmitPromises ==
    ASSUME DeliveryInv, TypeOK', PromiseInv, NEW f \in Fences,
           Invoke(f) \/ ProviderDecides(f)
    PROVE  PromiseInv'
<1>1. /\ UNCHANGED <<now, challenge, outbox, nextFence>>
      /\ sess[f].pc # "unused" /\ DOMAIN sess = Fences
  BY DEF Invoke, ProviderDecides, DeliveryInv, TypeOK
<1>2. sess[f] \in Session
  BY <1>1, SessionType DEF DeliveryInv
<1>3. CASE Invoke(f)
  <2>1. /\ sess'[f].pc = "calling" /\ sess'[f].mail = "in_flight"
        /\ sess'[f].job = sess[f].job /\ sess[f].pc = "begun"
        /\ \A g \in Fences : g # f => sess'[g] = sess[g]
    BY <1>1, <1>2, <1>3 DEF Invoke, Session
  <2>2. sess[f].mail = "unsent" /\ f \in Spent(sess[f].job)
    BY <2>1 DEF PromiseInv, Spent
  <2> QED
    BY <1>1, <2>1, <2>2, MailPromises
<1>4. CASE ProviderDecides(f)
  <2>1. PICK mail \in {"accepted", "refused"} : sess' = [sess EXCEPT ![f].mail = mail]
    BY <1>4 DEF ProviderDecides
  <2>2. /\ sess'[f].pc = sess[f].pc /\ sess'[f].mail = mail /\ sess[f].mail = "in_flight"
        /\ sess'[f].job = sess[f].job /\ sess'[f].outcome = sess[f].outcome
        /\ \A g \in Fences : g # f => sess'[g] = sess[g]
    BY <1>1, <1>2, <1>4, <2>1 DEF ProviderDecides, Session
  <2>3. /\ sess[f].pc \notin {"claimed", "begin_sent", "begun"}
        /\ sess[f].pc # "final_sent" \/ sess[f].outcome # "accepted"
        /\ f \in Spent(sess[f].job)
    BY <1>1, <2>2 DEF PromiseInv, Spent
  <2> QED
    BY <1>1, <2>2, <2>3, MailPromises
<1> QED
  BY <1>3, <1>4

\* The begin of an attempt is counted by the row before its mail can be sent.
LEMMA BeginAppliedPromises ==
    ASSUME DeliveryInv, TypeOK', PromiseInv, NEW f \in Fences, BeginApplied(f)
    PROVE  PromiseInv'
<1>1. PICK j \in Jobs : j = sess[f].job
  BY SessionType DEF BeginApplied, DeliveryInv, Session
<1>2. /\ sess[f].pc = "begin_sent" /\ sess[f] \in Session
      /\ outbox[j] \in Row /\ DOMAIN outbox = Jobs /\ DOMAIN sess = Fences
      /\ UNCHANGED <<now, challenge, nextFence>> /\ outbox[j].state = "LEASED"
  BY <1>1, SessionType DEF BeginApplied, HoldsLease, DeliveryInv, TypeOK
<1>3. /\ outbox'[j].state = "SENDING"
      /\ outbox'[j].attempt_count = outbox[j].attempt_count + 1
      /\ outbox'[j].challenge_recording = outbox[j].challenge_recording
      /\ \A k \in Jobs : k # j => outbox'[k] = outbox[k]
  BY <1>1, <1>2 DEF BeginApplied, Row
<1>4. /\ \A g \in Fences : g # f => sess'[g] = sess[g]
      /\ sess'[f].job = j /\ sess'[f].mail = sess[f].mail
      /\ sess'[f].pc \in {"done", "begun"}
  <2>1. CASE sess' = [sess EXCEPT ![f].pc = "begun", ![f].attempt = @ + 1]
    BY <1>1, <1>2, <2>1 DEF Session
  <2>2. CASE Finish(f)
    <3>1. sess'[f].pc = "done"
      BY <1>2, <2>2, Zenon DEF Finish, Session
    <3>2. \A g \in Fences :
            \/ sess'[g] = sess[g]
            \/ /\ g = f /\ sess'[g].mail = sess[g].mail /\ sess'[g].job = sess[g].job
      BY <1>2, <2>2, AnsweredFields
    <3> QED
      BY <1>1, <1>2, <3>1, <3>2
  <2> QED
    BY <2>1, <2>2 DEF BeginApplied
<1>5. sess[f].mail = "unsent"
  BY <1>2 DEF PromiseInv
<1>6. /\ \A g \in Fences : sess'[g].pc # "unused" => g < nextFence'
      /\ \A g \in Fences :
           sess'[g].pc \in {"claimed", "begin_sent", "begun"} => sess'[g].mail = "unsent"
      /\ \A g \in Fences :
           sess'[g].pc = "final_sent" /\ sess'[g].outcome = "accepted" =>
               sess'[g].mail = "accepted"
  BY <1>2, <1>4, <1>5 DEF PromiseInv
<1>7. \A k \in Jobs : AcceptedMail(k) => AcceptedMail(k)'
  BY <1>1, <1>2, <1>4 DEF AcceptedMail
<1>8. ASSUME NEW k \in Jobs
      PROVE  VerdictAgrees(challenge[k], outbox[k])' /\ AttemptsCounted(k)'
  <2>1. VerdictAgrees(challenge[k], outbox[k]) /\ AttemptsCounted(k) /\ outbox[k] \in Row
    BY DEF PromiseInv, DeliveryInv, TypeOK
  <2>2. CASE k # j
    <3>1. Spent(k)' \subseteq Spent(k)
      BY <1>4, <2>2 DEF Spent
    <3>2. Spent(k) \in SUBSET Fences /\ Spent(k)' \in SUBSET Spent(k)
      BY <3>1 DEF Spent
    <3>3. /\ Cardinality(Spent(k)) \in Nat /\ Cardinality(Spent(k)') \in Nat
          /\ Cardinality(Spent(k)') <= Cardinality(Spent(k))
      BY <3>2, SpentFinite, SpentLess
    <3>4. outbox'[k] = outbox[k] /\ challenge'[k] = challenge[k] /\ now' = now
      BY <1>2, <1>3, <2>2
    <3>5. VerdictAgrees(challenge[k], outbox[k])'
      BY <2>1, <3>4 DEF VerdictAgrees, Gone
    <3>6. CASE outbox[k].state = "absent"
      BY <2>1, <3>2, <3>4, <3>5, <3>6 DEF AttemptsCounted, Gone
    <3>7. CASE outbox[k].state # "absent"
      BY <2>1, <3>3, <3>4, <3>5, <3>7 DEF AttemptsCounted, Row, MaxAttempts
    <3> QED
      BY <3>6, <3>7
  <2>3. CASE k = j
    <3>1. Spent(j)' \subseteq Spent(j) \cup {f}
      BY <1>4 DEF Spent
    <3>2. Spent(j) \in SUBSET Fences /\ Spent(j)' \in SUBSET (Spent(j) \cup {f})
          /\ Spent(j)' \in SUBSET Fences
      BY <3>1 DEF Spent
    <3>3. /\ Cardinality(Spent(j)) \in Nat /\ Cardinality(Spent(j)') \in Nat
          /\ Cardinality(Spent(j)') <= Cardinality(Spent(j)) + 1
      BY <3>2, SpentFinite, SpentOneMore
    <3>4. AttemptsCounted(j)'
      BY <1>2, <1>3, <2>1, <2>3, <3>3 DEF AttemptsCounted, Row, MaxAttempts
    <3>5. VerdictAgrees(challenge[j], outbox[j])'
      BY <1>2, <1>3, <2>1, <2>3 DEF VerdictAgrees, TerminalStates
    <3> QED
      BY <2>3, <3>4, <3>5
  <2> QED
    BY <2>2, <2>3
<1> QED
  BY <1>2, <1>6, <1>7, <1>8 DEF PromiseInv

\* A begin_send that gives the row up, and finalize, keep PromiseInv: the
\* verdict "succeeded" is written for an accepted mail only.
LEMMA ClosePromises ==
    ASSUME DeliveryInv, TypeOK', PromiseInv, NEW f \in Fences,
           BeginUnsendable(f) \/ FinalizeRetryable(f) \/ FinalizeSettled(f)
    PROVE  PromiseInv' /\ \E j \in Jobs : PromiseStep(j)
<1>1. /\ sess[f].pc # "unused" /\ UNCHANGED <<now, nextFence>>
      /\ Finish(f) \/ FinalizeAnswered(f)
  BY DEF BeginUnsendable, FinalizeRetryable, FinalizeSettled
<1>2. PICK j \in Jobs : j = sess[f].job
  BY <1>1, SessionType DEF DeliveryInv, Session
<1>3. /\ outbox[j] \in Row /\ DOMAIN outbox = Jobs /\ challenge[j] \in Challenge
      /\ nextFence \in Nat
  BY DEF DeliveryInv, TypeOK
<1>4. SessionsMove
  BY <1>1, AnsweredMoves
<1>5. "absent" \notin ActiveStates /\ "absent" \notin TerminalStates
      /\ "FAILED_TERMINAL" \in TerminalStates
  BY DEF ActiveStates, TerminalStates
<1>6. outbox[j].state \in ActiveStates
  BY <1>2 DEF BeginUnsendable, FinalizeRetryable, FinalizeSettled, FinalizeApplies,
              HoldsLease, ExpectedState, ActiveStates
<1>7. CASE BeginUnsendable(f) \/ FinalizeRetryable(f)
  <2>1. UNCHANGED challenge
    BY <1>7 DEF BeginUnsendable, FinalizeRetryable
  <2>2. /\ outbox'[j].state # "absent"
        /\ outbox'[j].attempt_count = outbox[j].attempt_count
        /\ outbox'[j].challenge_recording \in
             {"not_applicable", outbox[j].challenge_recording}
        /\ \A k \in Jobs : k # j => outbox'[k] = outbox[k]
    <3>1. CASE BeginUnsendable(f)
      <4>1. outbox'[j] = Unsendable(outbox[j], "unusable", Usable(j, Jobs))
            /\ \A k \in Jobs : k # j => outbox'[k] = outbox[k]
        BY <1>2, <1>3, <3>1 DEF BeginUnsendable
      <4> QED
        BY <1>3, <1>5, <4>1, UnsendableFields
    <3>2. CASE FinalizeRetryable(f)
      <4>1. \A k \in Jobs : k # j => outbox'[k] = outbox[k]
        BY <1>2, <1>3, <3>2 DEF FinalizeRetryable
      <4>2. CASE MayRetry(j)
        <5>1. outbox'[j] = Rescheduled(outbox[j], NextAvailable(j))
          BY <1>2, <1>3, <3>2, <4>2 DEF FinalizeRetryable
        <5> QED
          BY <1>3, <4>1, <5>1, RescheduledFields
      <4>3. CASE ~MayRetry(j)
        <5>1. outbox'[j] = Terminal(outbox[j], "FAILED_TERMINAL", GiveUpDisposition(j),
                    "provider", "not_accepted_retryable", TRUE, "not_applicable")
          BY <1>2, <1>3, <3>2, <4>3 DEF FinalizeRetryable
        <5>2. /\ outbox'[j].state = "FAILED_TERMINAL"
              /\ outbox'[j].challenge_recording = "not_applicable"
              /\ outbox'[j].attempt_count = outbox[j].attempt_count
          BY <1>3, <5>1 DEF Terminal, Row
        <5> QED
          BY <4>1, <5>2
      <4> QED
        BY <4>2, <4>3
    <3> QED
      BY <1>7, <3>1, <3>2
  <2>3. VerdictAgrees(challenge[j], outbox'[j]) /\ challenge[j].delivery = "none"
    BY <1>6, <2>2, ActiveRowAgrees
  <2>4. VerdictAgrees(challenge'[j], outbox'[j])
    BY <2>1, <2>3
  <2>5. PromiseStep(j)
    BY <1>1, <1>3, <1>4, <1>5, <1>6, <2>1, <2>2, <2>3, <2>4 DEF PromiseStep
  <2> QED
    BY <1>4, <2>1, <2>5, PromiseStepKeeps
<1>8. CASE FinalizeSettled(f)
  <2> DEFINE final == CASE sess[f].outcome = "accepted" -> "ACCEPTED"
                        [] sess[f].outcome = "outcome_unknown" -> "DELIVERY_OUTCOME_UNKNOWN"
                        [] OTHER -> "FAILED_TERMINAL"
             disposition == CASE sess[f].outcome = "accepted" -> "accepted"
                              [] sess[f].outcome = "outcome_unknown" ->
                                   "delivery_outcome_unknown"
                              [] sess[f].outcome = "rejected" -> "provider_rejected"
                              [] OTHER -> "sender_unavailable_pre_send"
  <2>1. PICK t \in {now, now + 1} :
          /\ challenge' = [challenge EXCEPT ![j] =
                IF Recordable(j, t) THEN Recorded(j, sess[f].outcome = "accepted") ELSE @]
          /\ outbox' = [outbox EXCEPT ![j] =
                Terminal(@, final, disposition, ResolutionKind(f), ProviderOutcome(f), FALSE,
                         IF Recordable(j, t) THEN "recorded" ELSE "not_recorded")]
    BY <1>2, <1>8 DEF FinalizeSettled
  <2>8. PICK recording :
          recording = IF Recordable(j, t) THEN "recorded" ELSE "not_recorded"
    OBVIOUS
  <2> DEFINE accepted == sess[f].outcome = "accepted"
  <2>2. final \in TerminalStates /\ (final = "ACCEPTED" <=> accepted)
    BY DEF TerminalStates
  <2>3. outbox'[j] = Terminal(outbox[j], final, disposition, ResolutionKind(f),
                              ProviderOutcome(f), FALSE, recording)
    BY <1>3, <2>1, <2>8
  <2>9. \A k \in Jobs : k # j => outbox'[k] = outbox[k]
    BY <1>3, <2>1
  <2> HIDE DEF final, disposition
  <2>4. /\ outbox'[j].state = final /\ outbox'[j].challenge_recording = recording
        /\ outbox'[j].attempt_count = outbox[j].attempt_count
    BY <1>3, <2>3 DEF Terminal, Row
  <2>5. /\ VerdictAgrees(challenge'[j], outbox'[j])
        /\ challenge'[j].delivery = "succeeded" => accepted
        /\ challenge'[j].requested = challenge[j].requested
        /\ challenge'[j].expires_at = challenge[j].expires_at
        /\ \A k \in Jobs : k # j => challenge'[k] = challenge[k]
        /\ \/ challenge'[j].delivery = challenge[j].delivery
           \/ challenge[j].delivery = "none"
    BY <1>6, <2>1, <2>2, <2>4, <2>8, VerdictWritten
  <2>6. accepted => AcceptedMail(j)
    BY <1>1, <1>2, <1>8 DEF FinalizeSettled, PromiseInv, AcceptedMail
  <2>7. PromiseStep(j)
    BY <1>1, <1>3, <1>4, <1>5, <1>6, <2>2, <2>4, <2>5, <2>6, <2>9 DEF PromiseStep
  <2> QED
    BY <1>4, <2>5, <2>6, <2>7, PromiseStepKeeps
<1> QED
  BY <1>7, <1>8

\* Refused, repeated and abandoned calls keep PromiseInv.
LEMMA EndPromises ==
    ASSUME DeliveryInv, TypeOK', PromiseInv, NEW f \in Fences,
           \/ Abandon(f) \/ BeginRefused(f)
           \/ FinalizeDuplicate(f) \/ FinalizeRefused(f)
    PROVE  PromiseInv' /\ SessionsMove
<1>1. /\ sess[f].pc # "unused" /\ UNCHANGED <<now, challenge, outbox, nextFence>>
      /\ now \in Nat
      /\ Finish(f) \/ FinalizeAnswered(f)
  BY DEF Abandon, BeginRefused, FinalizeDuplicate, FinalizeRefused, DeliveryInv, TypeOK
<1>2. SessionsMove
  BY <1>1, AnsweredMoves
<1> QED
  BY <1>1, <1>2, QuietStepPromises

\* No row, no session: nothing is promised yet.
LEMMA InitPromises == Init => PromiseInv
<1> SUFFICES ASSUME Init
             PROVE  PromiseInv
  OBVIOUS
<1>1. /\ \A f \in Fences : sess[f].pc = "unused"
      /\ \A j \in Jobs : /\ outbox[j].state = "absent"
                         /\ outbox[j].challenge_recording = "not_applicable"
                         /\ challenge[j].delivery = "none"
  BY DEF Init, NoSession, NoRow, NoChallenge
<1>2. \A j \in Jobs : Spent(j) = {}
  BY <1>1 DEF Spent
<1> QED
  BY <1>1, <1>2 DEF PromiseInv, VerdictAgrees, AttemptsCounted

\* PromiseInv is inductive, given DeliveryInv.
LEMMA NextPromises == DeliveryInv /\ PromiseInv /\ [Next]_vars => PromiseInv'
<1> SUFFICES ASSUME DeliveryInv, PromiseInv, [Next]_vars
             PROVE  PromiseInv'
  OBVIOUS
<1>1. TypeOK' /\ now \in Nat
  BY NextDelivers DEF DeliveryInv, TypeOK
<1>2. ASSUME \/ UNCHANGED vars
             \/ Tick
             \/ \E j \in Jobs : ChangeAuthority(j)
             \/ \E w \in Workers : ClaimSelect(w) \/ RecoverSelect(w) \/ AbortScan(w)
             \/ \E w \in Workers, j \in Jobs : ClaimSkip(w, j)
      PROVE  PromiseInv'
  <2>1. UNCHANGED <<challenge, outbox, nextFence, sess>> /\ now' \in {now, now + 1}
    BY <1>2 DEF vars, Tick, ChangeAuthority, ClaimSelect, RecoverSelect, StartScan,
                AbortScan, ClaimSkip
  <2>2. now' >= now
    BY <1>1, <2>1
  <2> QED
    BY <1>1, <2>1, <2>2, SessionsStay, QuietStepPromises
<1>3. CASE Environment
  BY <1>1, <1>2, <1>3, ChallengePromises DEF Environment
<1>4. CASE Scanning
  BY <1>1, <1>2, <1>4, EnqueuePromises, PurgePromises, ClaimPromises, RecoverPromises
     DEF Scanning
<1>5. CASE Sending
  BY <1>1, <1>5, CallPromises, SubmitPromises, BeginAppliedPromises, ClosePromises,
     EndPromises DEF Sending
<1> QED
  BY <1>2, <1>3, <1>4, <1>5 DEF Next

-----------------------------------------------------------------------------
(* The outbox implements CodeDelivery.                                     *)

\* The sessions whose mails CodeDelivery counts as tries.
Tried(j) == {f \in Sessions(j) : sess[f].mail # "unsent"}

\* No session submits a mail and no mail is decided: each stays, goes on with
\* its mail as it is, or is new.
MailsStay ==
    \A f \in Fences :
        \/ sess'[f] = sess[f]
        \/ /\ sess[f].pc # "unused" /\ sess'[f].pc # "unused"
           /\ sess'[f].job = sess[f].job /\ sess'[f].mail = sess[f].mail
        \/ /\ sess[f].pc = "unused" /\ sess'[f].mail = "unsent"

\* The outcome that decides a code's fate.
LEMMA FateIs ==
    ASSUME NEW S
    PROVE  Fate(S) = IF "accepted" \in S THEN "accepted"
                     ELSE IF "in_flight" \in S THEN "in_flight"
                     ELSE IF "refused" \in S THEN "refused" ELSE "unsent"
<1>1. CASE "accepted" \in S
  BY <1>1 DEF Fate
<1>2. CASE "accepted" \notin S /\ "in_flight" \in S
  BY <1>2 DEF Fate
<1>3. CASE S \cap {"accepted", "in_flight"} = {} /\ "refused" \in S
  BY <1>3 DEF Fate
<1>4. CASE S \cap {"accepted", "in_flight", "refused"} = {}
  BY <1>4 DEF Fate
<1> QED
  BY <1>1, <1>2, <1>3, <1>4

\* An unsent mail decides nothing.
LEMMA FateSame ==
    ASSUME NEW S, NEW T,
           \A m \in {"accepted", "in_flight", "refused"} : m \in S <=> m \in T
    PROVE  Fate(S) = Fate(T)
  BY FateIs

\* While mails stay, CodeDelivery sees no change.
LEMMA MailsStayMaps ==
    ASSUME MailsStay, NEW j \in Jobs
    PROVE  MailOf(j)' = MailOf(j) /\ Tried(j)' = Tried(j)
<1>1. ASSUME NEW m, m # "unsent"
      PROVE  m \in {sess[f].mail : f \in Sessions(j)}
                <=> m \in {sess[f].mail : f \in Sessions(j)}'
  BY <1>1 DEF MailsStay, Sessions
<1>2. PICK S, T : /\ S = {sess[f].mail : f \in Sessions(j)}
                  /\ T = {sess[f].mail : f \in Sessions(j)}'
  OBVIOUS
<1>3. Fate(S) = Fate(T)
  BY <1>1, <1>2, FateSame
<1>4. MailOf(j) = Fate(S) /\ MailOf(j)' = Fate(T)
  BY <1>2 DEF MailOf
<1>5. Tried(j)' = Tried(j)
  BY DEF MailsStay, Tried, Sessions
<1> QED
  BY <1>3, <1>4, <1>5

\* Sessions that move leave the mails.
LEMMA SessionsMoveStays == SessionsMove => MailsStay
  BY DEF SessionsMove, MailsStay

\* A step that leaves mails and verdicts is no step of CodeDelivery.
LEMMA QuietMaps ==
    ASSUME MailsStay, UNCHANGED challenge
    PROVE  UNCHANGED Delivery!vars
<1>1. \A k \in Jobs : MailOf(k)' = MailOf(k) /\ Tried(k)' = Tried(k)
  BY MailsStayMaps
<1> QED
  BY <1>1 DEF Delivery!vars, Tried

\* Writing a verdict is Conclude of CodeDelivery, or no step of it.
LEMMA VerdictMaps ==
    ASSUME DeliveryInv, TypeOK', NEW j \in Jobs, PromiseStep(j)
    PROVE  [Delivery!Next]_(Delivery!vars)
<1>1. \A k \in Jobs : MailOf(k)' = MailOf(k) /\ Tried(k)' = Tried(k)
  BY MailsStayMaps, SessionsMoveStays DEF PromiseStep
<1>2. /\ [k \in Jobs |-> MailOf(k)]' = [k \in Jobs |-> MailOf(k)]
      /\ [k \in Jobs |-> Cardinality(Tried(k))]' = [k \in Jobs |-> Cardinality(Tried(k))]
  BY <1>1
<1>3. CASE challenge'[j].delivery = challenge[j].delivery
  <2>1. [k \in Jobs |-> challenge[k].delivery]' = [k \in Jobs |-> challenge[k].delivery]
    BY <1>3 DEF PromiseStep
  <2> QED
    BY <1>2, <2>1 DEF Delivery!vars, Tried
<1>4. CASE challenge'[j].delivery # challenge[j].delivery
  <2>1. PICK v \in {"succeeded", "failed"} : v = challenge'[j].delivery
    BY <1>4 DEF PromiseStep, TypeOK, Challenge
  <2>2. [k \in Jobs |-> challenge[k].delivery]'
            = [[k \in Jobs |-> challenge[k].delivery] EXCEPT ![j] = v]
    BY <2>1 DEF PromiseStep
  <2>3. v = "succeeded" => MailOf(j) = "accepted"
    BY <1>4, <2>1, FateIs DEF PromiseStep, AcceptedMail, MailOf, Sessions
  <2>4. Delivery!Conclude(j)
    BY <1>2, <1>4, <2>1, <2>2, <2>3 DEF PromiseStep, Delivery!Conclude, Tried
  <2> QED
    BY <2>4 DEF Delivery!Next
<1> QED
  BY <1>3, <1>4

\* A new challenge has no verdict, like the one before it: no step either.
LEMMA ChallengeMaps ==
    ASSUME DeliveryInv, PromiseInv, NEW j \in Jobs,
           RequestChallenge(j) \/ SupersedeChallenge(j) \/ ScrubChallenge(j)
    PROVE  UNCHANGED Delivery!vars
<1>1. /\ challenge[j] \in Challenge /\ DOMAIN challenge = Jobs
      /\ VerdictAgrees(challenge[j], outbox[j])
  BY DEF DeliveryInv, TypeOK, PromiseInv
<1>2. /\ UNCHANGED sess
      /\ \A k \in Jobs : k # j => challenge'[k] = challenge[k]
  BY <1>1 DEF RequestChallenge, SupersedeChallenge, ScrubChallenge
<1>3. challenge'[j].delivery = challenge[j].delivery
  <2>1. CASE RequestChallenge(j)
    <3>1. outbox[j].state = "absent" /\ ~Gone(challenge[j]) /\ "absent" \notin TerminalStates
      BY <2>1 DEF RequestChallenge, DeliveryInv, DeadlineIsExpiry, Gone, TerminalStates
    <3>2. challenge[j].delivery = "none"
      BY <1>1, <3>1 DEF VerdictAgrees, Challenge
    <3> QED
      BY <1>1, <2>1, <3>2 DEF RequestChallenge
  <2>2. CASE SupersedeChallenge(j) \/ ScrubChallenge(j)
    BY <1>1, <2>2 DEF SupersedeChallenge, ScrubChallenge, Challenge
  <2> QED
    BY <2>1, <2>2
<1>4. \A k \in Jobs : /\ MailOf(k)' = MailOf(k) /\ Tried(k)' = Tried(k)
                      /\ challenge'[k].delivery = challenge[k].delivery
  BY <1>2, <1>3, MailsStayMaps DEF MailsStay
<1> QED
  BY <1>4 DEF Delivery!vars, Tried

\* invokeOnce is Submit: the row is the session's, so no verdict is in, no
\* other mail may arrive and, as the row counts it, an attempt is left.
LEMMA InvokeMaps ==
    ASSUME DeliveryInv, PromiseInv, NEW f \in Fences, Invoke(f)
    PROVE  Delivery!Next
<1>1. /\ sess[f].pc = "begun" /\ now < sess[f].deadline /\ UNCHANGED challenge
      /\ sess[f] \in Session /\ DOMAIN sess = Fences
  BY SessionType DEF Invoke, DeliveryInv, TypeOK
<1>2. PICK j \in Jobs : j = sess[f].job
  BY <1>1 DEF Session
<1>3. /\ sess'[f].pc = "calling" /\ sess'[f].mail = "in_flight" /\ sess'[f].job = j
      /\ sess[f].mail = "unsent"
      /\ \A g \in Fences : g # f => sess'[g] = sess[g]
  BY <1>1, <1>2 DEF Invoke, Session, PromiseInv
<1>4. OwnsRow(f, "SENDING")
  BY <1>1 DEF DeliveryInv, CallOwnsRow
<1>5. outbox[j].state = "SENDING" /\ outbox[j].lease_id = f /\ outbox[j] \in Row
  BY <1>2, <1>4 DEF OwnsRow, DeliveryInv, TypeOK
<1>6. challenge[j].delivery = "none"
  BY <1>5, ActiveRowAgrees DEF ActiveStates
<1>7. \A g \in Sessions(j) : sess[g].mail \notin {"in_flight", "accepted"}
  <2> SUFFICES ASSUME NEW g \in Sessions(j), sess[g].mail \in {"in_flight", "accepted"}
               PROVE  FALSE
    OBVIOUS
  <2>1. g \in Fences /\ sess[g].pc # "unused" /\ sess[g].job = j
    BY DEF Sessions
  <2>2. OwnsRow(g, "SENDING")
    BY <1>5, <2>1 DEF DeliveryInv, MailClosesRow, TerminalStates
  <2> QED
    BY <1>3, <1>5, <2>1, <2>2 DEF OwnsRow
<1>8. MailOf(j) \in {"unsent", "refused"} /\ MailOf(j)' = "in_flight"
  <2>1. PICK S, T : /\ S = {sess[g].mail : g \in Sessions(j)}
                    /\ T = {sess[g].mail : g \in Sessions(j)}'
    OBVIOUS
  <2>2. "accepted" \notin S /\ "in_flight" \notin S
    BY <1>7, <2>1
  <2>3. "accepted" \notin T /\ "in_flight" \in T
    BY <1>2, <1>3, <1>7, <2>1 DEF Sessions
  <2>4. Fate(S) \in {"unsent", "refused"} /\ Fate(T) = "in_flight"
    BY <2>2, <2>3, FateIs
  <2> QED
    BY <2>1, <2>4 DEF MailOf
<1>9. Tried(j)' = Tried(j) \cup {f} /\ f \notin Tried(j)
  BY <1>1, <1>2, <1>3 DEF Tried, Sessions
<1>10. /\ Cardinality(Tried(j)') = Cardinality(Tried(j)) + 1
       /\ Cardinality(Tried(j)) < MaxAttempts
  <2>1. Tried(j) \in SUBSET Fences /\ Spent(j) \in SUBSET Fences
        /\ Tried(j) \cup {f} \in SUBSET Spent(j)
    BY <1>1, <1>2 DEF Tried, Sessions, Spent
  <2>2. Cardinality(Tried(j) \cup {f}) = Cardinality(Tried(j)) + 1
    BY <1>9, <2>1, SpentFinite, FS_AddElement
  <2>3. /\ Cardinality(Tried(j) \cup {f}) <= Cardinality(Spent(j))
        /\ Cardinality(Spent(j)) \in Nat /\ Cardinality(Tried(j)) \in Nat
    BY <2>1, SpentFinite, SpentLess
  <2>4. Cardinality(Spent(j)) <= outbox[j].attempt_count
    BY <1>5 DEF PromiseInv, AttemptsCounted
  <2> QED
    BY <1>5, <1>9, <2>2, <2>3, <2>4 DEF Row, MaxAttempts
<1>11. \A k \in Jobs : k # j => MailOf(k)' = MailOf(k) /\ Tried(k)' = Tried(k)
  <2> SUFFICES ASSUME NEW k \in Jobs, k # j
               PROVE  MailOf(k)' = MailOf(k) /\ Tried(k)' = Tried(k)
    OBVIOUS
  <2>1. Sessions(k)' = Sessions(k) /\ f \notin Sessions(k) /\ Sessions(k) \subseteq Fences
    BY <1>1, <1>2, <1>3 DEF Sessions
  <2>2. \A g \in Sessions(k) : sess'[g].mail = sess[g].mail
    BY <1>3, <2>1
  <2> QED
    BY <2>1, <2>2 DEF MailOf, Tried
<1>12. Delivery!Submit(j)
  <2>1. [k \in Jobs |-> MailOf(k)]'
            = [[k \in Jobs |-> MailOf(k)] EXCEPT ![j] = "in_flight"]
    BY <1>8, <1>11
  <2>2. [k \in Jobs |-> Cardinality(Tried(k))]'
            = [[k \in Jobs |-> Cardinality(Tried(k))] EXCEPT ![j] = @ + 1]
    BY <1>10, <1>11
  <2>3. UNCHANGED [k \in Jobs |-> challenge[k].delivery]
    BY <1>1
  <2> QED
    BY <1>6, <1>8, <1>10, <2>1, <2>2, <2>3 DEF Delivery!Submit, Tried
<1> QED
  BY <1>12 DEF Delivery!Next

\* The provider's decision is ProviderDecides: of all sessions of the job only
\* this one has a mail that is not refused.
LEMMA DecisionMaps ==
    ASSUME DeliveryInv, NEW f \in Fences, ProviderDecides(f)
    PROVE  Delivery!Next
<1>1. /\ sess[f].pc # "unused" /\ sess[f].mail = "in_flight" /\ UNCHANGED challenge
      /\ sess[f] \in Session /\ DOMAIN sess = Fences
  BY SessionType DEF ProviderDecides, DeliveryInv, TypeOK
<1>2. PICK j \in Jobs : j = sess[f].job
  BY <1>1 DEF Session
<1>3. PICK m \in {"accepted", "refused"} : sess' = [sess EXCEPT ![f].mail = m]
  BY DEF ProviderDecides
<1>4. /\ sess'[f].pc = sess[f].pc /\ sess'[f].mail = m /\ sess'[f].job = j
      /\ \A g \in Fences : g # f => sess'[g] = sess[g]
  BY <1>1, <1>2, <1>3 DEF Session
<1>5. \A g \in Sessions(j) : g # f => sess[g].mail \notin {"in_flight", "accepted"}
  BY <1>1, <1>2 DEF DeliveryInv, AtMostOneAcceptance, Sessions
<1>6. \A k \in Jobs : Sessions(k)' = Sessions(k) /\ Sessions(k) \subseteq Fences
  BY <1>1, <1>2, <1>4 DEF Sessions
<1>7. f \in Sessions(j) /\ \A k \in Jobs : k # j => f \notin Sessions(k)
  BY <1>1, <1>2 DEF Sessions
<1>8. MailOf(j) = "in_flight" /\ MailOf(j)' = m
  <2>1. PICK S, T : /\ S = {sess[g].mail : g \in Sessions(j)}
                    /\ T = {sess[g].mail : g \in Sessions(j)}'
    OBVIOUS
  <2>2. "accepted" \notin S /\ "in_flight" \in S
    BY <1>1, <1>5, <1>7, <2>1
  <2>3. m \in T /\ "in_flight" \notin T /\ (m = "refused" => "accepted" \notin T)
    BY <1>4, <1>5, <1>6, <1>7, <2>1
  <2>4. Fate(S) = "in_flight" /\ Fate(T) = m
    BY <2>2, <2>3, FateIs
  <2> QED
    BY <2>1, <2>4 DEF MailOf
<1>9. \A k \in Jobs : Tried(k)' = Tried(k)
  BY <1>1, <1>4, <1>6 DEF Tried
<1>10. \A k \in Jobs : k # j => MailOf(k)' = MailOf(k)
  <2> SUFFICES ASSUME NEW k \in Jobs, k # j
               PROVE  MailOf(k)' = MailOf(k)
    OBVIOUS
  <2>1. \A g \in Sessions(k) : sess'[g].mail = sess[g].mail
    BY <1>4, <1>6, <1>7
  <2> QED
    BY <1>6, <2>1 DEF MailOf
<1>11. Delivery!ProviderDecides(j)
  <2>1. [k \in Jobs |-> MailOf(k)]' = [[k \in Jobs |-> MailOf(k)] EXCEPT ![j] = m]
    BY <1>8, <1>10
  <2>2. /\ UNCHANGED [k \in Jobs |-> Cardinality(Tried(k))]
        /\ UNCHANGED [k \in Jobs |-> challenge[k].delivery]
    BY <1>1, <1>9
  <2> QED
    BY <1>8, <2>1, <2>2 DEF Delivery!ProviderDecides, Tried
<1> QED
  BY <1>11 DEF Delivery!Next

\* The start of an attempt submits nothing yet.
LEMMA BeginMaps ==
    ASSUME DeliveryInv, NEW f \in Fences, BeginApplied(f)
    PROVE  MailsStay
<1>1. /\ sess[f] \in Session /\ DOMAIN sess = Fences /\ sess[f].pc = "begin_sent"
  BY SessionType DEF BeginApplied, DeliveryInv, TypeOK
<1>2. CASE sess' = [sess EXCEPT ![f].pc = "begun", ![f].attempt = @ + 1]
  BY <1>1, <1>2 DEF Session, MailsStay
<1>3. CASE Finish(f)
  BY <1>1, <1>3, AnsweredMoves, SessionsMoveStays
<1> QED
  BY <1>2, <1>3 DEF BeginApplied

\* Before any request nothing is mailed.
LEMMA InitMaps == Init => Delivery!Init
<1> SUFFICES ASSUME Init
             PROVE  Delivery!Init
  OBVIOUS
<1>1. \A j \in Jobs : Sessions(j) = {} /\ challenge[j].delivery = "none"
  BY DEF Init, NoSession, NoChallenge, Sessions
<1>2. \A j \in Jobs : Tried(j) = {} /\ MailOf(j) = "unsent"
  BY <1>1, FateIs DEF Tried, MailOf
<1>3. \A j \in Jobs : Cardinality(Tried(j)) = 0
  BY <1>2, FS_EmptySet
<1> QED
  BY <1>1, <1>2, <1>3 DEF Delivery!Init, Tried

\* Every step of the outbox is a step of CodeDelivery or none.
LEMMA NextMaps ==
    DeliveryInv /\ PromiseInv /\ [Next]_vars => [Delivery!Next]_(Delivery!vars)
<1> SUFFICES ASSUME DeliveryInv, PromiseInv, [Next]_vars
             PROVE  [Delivery!Next]_(Delivery!vars)
  OBVIOUS
<1>1. TypeOK'
  BY NextDelivers DEF DeliveryInv
<1>2. ASSUME UNCHANGED <<challenge, sess>>
      PROVE  UNCHANGED Delivery!vars
  BY <1>2, QuietMaps DEF MailsStay
<1>3. CASE UNCHANGED vars
  BY <1>2, <1>3 DEF vars
<1>4. CASE Environment
  <2>1. ASSUME Tick \/ \E j \in Jobs : ChangeAuthority(j)
        PROVE  UNCHANGED Delivery!vars
    BY <1>2, <2>1 DEF Tick, ChangeAuthority
  <2> QED
    BY <1>4, <2>1, ChallengeMaps DEF Environment
<1>5. CASE Scanning
  <2>1. ASSUME \/ \E j \in Jobs : Enqueue(j) \/ Purge(j)
               \/ \E w \in Workers : ClaimSelect(w) \/ RecoverSelect(w) \/ AbortScan(w)
               \/ \E w \in Workers, j \in Jobs : ClaimSkip(w, j)
        PROVE  UNCHANGED Delivery!vars
    BY <1>2, <2>1
       DEF Enqueue, Purge, ClaimSelect, RecoverSelect, StartScan, AbortScan, ClaimSkip
  <2>2. ASSUME NEW w \in Workers, NEW j \in Jobs, ClaimOne(w, j)
        PROVE  UNCHANGED Delivery!vars
    <3>1. MailsStay /\ UNCHANGED challenge
      BY <1>1, <2>2, ClaimPromises, SessionsMoveStays DEF ClaimOne
    <3> QED
      BY <3>1, QuietMaps
  <2>3. ASSUME NEW w \in Workers, NEW j \in Jobs, RecoverOne(w, j)
        PROVE  [Delivery!Next]_(Delivery!vars)
    BY <1>1, <1>2, <2>3, RecoverPromises, VerdictMaps
  <2> QED
    BY <1>5, <2>1, <2>2, <2>3 DEF Scanning
<1>6. CASE Sending
  <2>1. ASSUME NEW f \in Fences,
               \/ Abandon(f) \/ SenderUnavailable(f) \/ BeginCall(f) \/ Settle(f)
               \/ BeginApplied(f) \/ BeginRefused(f)
               \/ FinalizeDuplicate(f) \/ FinalizeRefused(f)
        PROVE  UNCHANGED Delivery!vars
    <3>1. UNCHANGED challenge
      BY <2>1 DEF Abandon, SenderUnavailable, BeginCall, Settle, BeginApplied,
                  BeginRefused, FinalizeDuplicate, FinalizeRefused
    <3>2. MailsStay
      BY <1>1, <2>1, BeginMaps, CallPromises, EndPromises, SessionsMoveStays
    <3> QED
      BY <3>1, <3>2, QuietMaps
  <2>2. ASSUME NEW f \in Fences,
               BeginUnsendable(f) \/ FinalizeRetryable(f) \/ FinalizeSettled(f)
        PROVE  [Delivery!Next]_(Delivery!vars)
    BY <1>1, <2>2, ClosePromises, VerdictMaps
  <2>3. ASSUME NEW f \in Fences, Invoke(f) \/ ProviderDecides(f)
        PROVE  Delivery!Next
    BY <2>3, InvokeMaps, DecisionMaps
  <2> QED
    BY <1>6, <2>1, <2>2, <2>3 DEF Sending
<1> QED
  BY <1>3, <1>4, <1>5, <1>6 DEF Next

-----------------------------------------------------------------------------
(* Verdicts and the refinement.                                            *)

\* Rows, verdicts and sessions agree on every code, and the row has counted
\* every mail, for any number of jobs and workers, whatever is lost or dies.
THEOREM PromiseInvariant == Spec => []PromiseInv
  BY DeliveryInvariant, InitPromises, NextPromises, PTL DEF Spec

\* The verdict on a challenge and its outbox row, written by two clock
\* readings, always agree until the row is purged, and a "succeeded" is true.
THEOREM VerdictsMatchRows == Spec => []ChallengeMatchesOutbox
<1>1. PromiseInv => ChallengeMatchesOutbox
  BY DEF PromiseInv, VerdictAgrees, AcceptedMail, Gone, ChallengeMatchesOutbox, Sessions
<1> QED
  BY <1>1, PromiseInvariant, PTL

\* The outbox implements CodeDelivery: rows, leases, fences, retries and
\* recovery deliver a code in at most three tries, each after a refusal, and
\* conclude it once and truthfully.
THEOREM OutboxDelivers == Spec => DeliversOnce
<1>1. Spec => Delivery!Init /\ [][Delivery!Next]_(Delivery!vars)
  BY InitMaps, NextMaps, DeliveryInvariant, PromiseInvariant, PTL DEF Spec
<1> QED
  BY <1>1 DEF DeliversOnce, Delivery!Spec

-----------------------------------------------------------------------------
(* The rows the RPCs write pass the checks and the trigger of the table.   *)

\* What the trigger asks of a row before its next write, and its checks do not
\* say: nothing has closed a first lease, and a second attempt comes after a
\* proven refusal, at its time.  A leased row was due.
Provenance(r) ==
    /\ r.state = "PENDING" => r.resolution.kind = "none"
    /\ r.state = "LEASED" /\ r.attempt_count = 0 => r.resolution.kind = "none"
    /\ r.state = "LEASED" /\ r.attempt_count # 0 =>
         /\ PriorPositive(r)
         /\ r.available_at = r.resolved_at + RetryDelay(r.attempt_count)
    /\ r.state = "RETRY_WAIT" => PriorPositive(r)
    /\ r.state = "LEASED" => r.available_at <= now
    /\ r.leased_at <= now

Sound(r) == RowConstraints(r) /\ Provenance(r)

\* Every row is sound, and time has begun.
RowsInv ==
    /\ now >= 1
    /\ \A j \in Jobs : outbox[j].state # "absent" => Sound(outbox[j])

\* All that Terminal writes.
LEMMA TerminalColumns ==
    ASSUME NEW r \in Row, NEW final, NEW disposition, NEW kind, NEW outcome,
           NEW proven, NEW recording, NEW t,
           t = Terminal(r, final, disposition, kind, outcome, proven, recording)
    PROVE  /\ t.state = final /\ t.terminal_disposition = disposition
           /\ t.terminal_at = now /\ t.resolved_at = now
           /\ t.challenge_recording = recording
           /\ t.resolution = Resolved(r, kind, outcome, proven)
           /\ t.lease_id = 0 /\ t.leased_at = 0 /\ t.available_at = 0
           /\ t.attempt_count = r.attempt_count
           /\ t.fence_generation = r.fence_generation
           /\ t.last_attempt_started_at = r.last_attempt_started_at
           /\ t.delivery_deadline_at = r.delivery_deadline_at
  BY DEF Terminal, Row

\* All that Resolved writes.
LEMMA ResolvedColumns ==
    ASSUME NEW r \in Row, NEW kind, NEW outcome, NEW proven
    PROVE  /\ Resolved(r, kind, outcome, proven).kind = kind
           /\ Resolved(r, kind, outcome, proven).provider_outcome = outcome
           /\ Resolved(r, kind, outcome, proven).non_acceptance_proven = proven
           /\ Resolved(r, kind, outcome, proven).fence_generation =
                IF r.lease_id = 0 THEN 0 ELSE r.fence_generation
           /\ Resolved(r, kind, outcome, proven).attempt_count = r.attempt_count
  BY DEF Resolved, ClosingFence, ClosingAttempt

\* A row is what its columns are; TLAPS is told which it is to read.
Closed(r, t, kind, outcome, proven) ==
    /\ t.state \in TerminalStates
    /\ t.lease_id = 0 /\ t.leased_at = 0 /\ t.available_at = 0
    /\ t.terminal_at = now /\ t.resolved_at = now
    /\ t.attempt_count = r.attempt_count
    /\ t.fence_generation = r.fence_generation
    /\ t.last_attempt_started_at = r.last_attempt_started_at
    /\ t.delivery_deadline_at = r.delivery_deadline_at
    /\ t.resolution.kind = kind
    /\ t.resolution.provider_outcome = outcome
    /\ t.resolution.non_acceptance_proven = proven
    /\ t.resolution.fence_generation = (IF r.lease_id = 0 THEN 0 ELSE r.fence_generation)
    /\ t.resolution.attempt_count = r.attempt_count

\* Terminal closes a row.
LEMMA TerminalCloses ==
    ASSUME NEW r \in Row, NEW final \in TerminalStates, NEW disposition, NEW kind,
           NEW outcome, NEW proven, NEW recording, NEW t,
           t = Terminal(r, final, disposition, kind, outcome, proven, recording)
    PROVE  /\ Closed(r, t, kind, outcome, proven)
           /\ t.state = final /\ t.terminal_disposition = disposition
           /\ t.challenge_recording = recording
  BY TerminalColumns, ResolvedColumns DEF Closed

\* What a closed row owes to being closed, whatever closed it.
LEMMA ClosedRow ==
    ASSUME now \in Nat, now >= 1, NEW r \in Row, Sound(r), r.state \in ActiveStates,
           NEW t, NEW kind, NEW outcome, NEW proven, Closed(r, t, kind, outcome, proven)
    PROVE  /\ CounterCheck(t) /\ LeaseAndScheduleCheck(t) /\ Provenance(t)
           /\ ResolutionMatches(r, t)
           /\ t.terminal_at # 0 /\ t.state \notin ActiveStates
<1>1. /\ TerminalStates \cap ActiveStates = {}
      /\ TerminalStates \cap {"PENDING", "LEASED", "SENDING", "RETRY_WAIT"} = {}
      /\ t.state \in TerminalStates
  BY DEF Closed, TerminalStates, ActiveStates
<1>2. CounterCheck(t)
  BY <1>1 DEF Closed, Sound, RowConstraints, CounterCheck
<1>3. LeaseAndScheduleCheck(t)
  BY <1>1 DEF Closed, Sound, RowConstraints, LeaseAndScheduleCheck
<1>4. Provenance(t)
  BY <1>1 DEF Closed, Provenance
<1>5. ResolutionMatches(r, t)
  BY DEF Closed, ResolutionMatches
<1> QED
  BY <1>1, <1>2, <1>3, <1>4, <1>5 DEF Closed

\* A row that is given up, before its first attempt or after one, closes as the
\* table admits: by recovery in any state but SENDING, by begin_send if leased.
LEMMA UnsendableSound ==
    ASSUME now \in Nat, now >= 1, NEW r \in Row, Sound(r), NEW usable \in BOOLEAN,
           NEW kind \in {"recovery", "unusable"},
           r.state \in {"PENDING", "LEASED", "RETRY_WAIT"},
           kind = "unusable" => r.state = "LEASED"
    PROVE  /\ Sound(Unsendable(r, kind, usable))
           /\ AdmitsTerminal(r, Unsendable(r, kind, usable))
<1>1. r.state \in ActiveStates /\ r.attempt_count \in 0..3
  BY DEF ActiveStates, Row, MaxAttempts
<1>2. PICK proven : proven = (r.attempt_count > 0)
  OBVIOUS
<1>10. (r.attempt_count = 0 => ~proven) /\ (r.attempt_count > 0 => proven)
  <2>1. proven <=> r.attempt_count > 0
    BY <1>2, Zenon
  <2>2. r.attempt_count = 0 => ~(r.attempt_count > 0)
    BY <1>1
  <2> QED
    BY <2>1, <2>2, Zenon
<1>3. PICK t, final, disposition :
        /\ t = Unsendable(r, kind, usable)
        /\ t = Terminal(r, final, disposition, kind, "none", proven, "not_applicable")
        /\ \/ /\ r.attempt_count = 0
              /\ <<final, disposition>> \in {<<"EXPIRED", "expired_pre_send">>,
                                             <<"CANCELLED", "cancelled_pre_send">>}
           \/ /\ r.attempt_count > 0 /\ final = "FAILED_TERMINAL"
              /\ disposition \in {"retry_unusable", "retry_deadline_exhausted"}
  BY <1>1, <1>2 DEF Unsendable
<1>4. /\ Closed(r, t, kind, "none", proven)
      /\ t.state = final /\ t.terminal_disposition = disposition
      /\ t.challenge_recording = "not_applicable"
  BY <1>3, TerminalColumns, ResolvedColumns DEF Closed, TerminalStates
<1>5. /\ CounterCheck(t) /\ LeaseAndScheduleCheck(t) /\ Provenance(t)
      /\ ResolutionMatches(r, t)
      /\ t.terminal_at # 0 /\ t.state \notin ActiveStates
  BY <1>1, <1>4, ClosedRow
<1>6. \/ r.attempt_count = 0 /\ r.resolution.kind = "none" /\ r.state \in {"PENDING", "LEASED"}
      \/ r.attempt_count \in 1..2 /\ PriorPositive(r) /\ r.state \in {"LEASED", "RETRY_WAIT"}
  BY <1>1 DEF Sound, Provenance, RowConstraints, CounterCheck, PriorPositive
<1>7. TerminalCheck(t)
  BY <1>3, <1>4, <1>5, <1>6 DEF TerminalCheck, Closed
<1>8. ResolutionCheck(t)
  BY <1>3, <1>4, <1>5, <1>6, <1>10 DEF ResolutionCheck, Closed
<1>9. AdmitsTerminal(r, t)
  BY <1>3, <1>4, <1>5, <1>6, <1>10
     DEF AdmitsTerminal, NeverSentTerminal, RetryTerminal, Closed
<1> QED
  BY <1>3, <1>5, <1>7, <1>8, <1>9 DEF Sound, RowConstraints

\* A send whose answer never came closes as unknown.
LEMMA UnknownSound ==
    ASSUME now \in Nat, now >= 1, NEW r \in Row, Sound(r), r.state = "SENDING",
           NEW recording \in {"recorded", "not_recorded"}, NEW t,
           NEW proven \in BOOLEAN, ~proven,
           t = Terminal(r, "DELIVERY_OUTCOME_UNKNOWN", "delivery_outcome_unknown",
                        "recovery", "none", proven, recording)
    PROVE  Sound(t) /\ AdmitsTerminal(r, t)
<1>1. r.state \in ActiveStates /\ r.attempt_count \in 1..3
  BY DEF ActiveStates, Sound, RowConstraints, CounterCheck
<1>2. /\ Closed(r, t, "recovery", "none", proven)
      /\ t.state = "DELIVERY_OUTCOME_UNKNOWN"
      /\ t.terminal_disposition = "delivery_outcome_unknown"
      /\ t.challenge_recording = recording
  BY TerminalColumns, ResolvedColumns DEF Closed, TerminalStates
<1>3. /\ CounterCheck(t) /\ LeaseAndScheduleCheck(t) /\ Provenance(t)
      /\ ResolutionMatches(r, t)
      /\ t.terminal_at # 0 /\ t.state \notin ActiveStates
  BY <1>1, <1>2, ClosedRow
<1>4. TerminalCheck(t)
  BY <1>1, <1>2, <1>3 DEF TerminalCheck, Closed
<1>5. ResolutionCheck(t)
  BY <1>1, <1>2, <1>3 DEF ResolutionCheck, Closed
<1>6. AdmitsTerminal(r, t)
  BY <1>2, <1>3 DEF AdmitsTerminal, Closed
<1> QED
  BY <1>3, <1>4, <1>5, <1>6 DEF Sound, RowConstraints

\* What finalize closes, for each outcome it may report but a retryable one.
LEMMA SettledSound ==
    ASSUME now \in Nat, now >= 1, NEW r \in Row, Sound(r),
           NEW recording \in {"recorded", "not_recorded"},
           NEW final, NEW disposition, NEW kind, NEW outcome, NEW t,
           NEW proven \in BOOLEAN, ~proven,
           t = Terminal(r, final, disposition, kind, outcome, proven, recording),
           \/ /\ r.state = "SENDING" /\ kind = "provider"
              /\ <<outcome, final, disposition>> \in
                   {<<"accepted", "ACCEPTED", "accepted">>,
                    <<"rejected", "FAILED_TERMINAL", "provider_rejected">>,
                    <<"outcome_unknown", "DELIVERY_OUTCOME_UNKNOWN",
                      "delivery_outcome_unknown">>}
           \/ /\ r.state = "LEASED" /\ kind = "pre_send" /\ outcome = "none"
              /\ final = "FAILED_TERMINAL" /\ disposition = "sender_unavailable_pre_send"
    PROVE  Sound(t) /\ AdmitsTerminal(r, t)
<1>1. /\ r.state \in ActiveStates /\ r.lease_id # 0 /\ r.fence_generation > 0
      /\ r.fence_generation \in Nat
      /\ r.state = "SENDING" => r.attempt_count \in 1..3
      /\ r.state = "LEASED" => r.attempt_count \in 0..2
  BY DEF ActiveStates, Sound, RowConstraints, CounterCheck, LeaseAndScheduleCheck, Row
<1>2. /\ Closed(r, t, kind, outcome, proven)
      /\ t.state = final /\ t.terminal_disposition = disposition
      /\ t.challenge_recording = recording
  BY TerminalColumns, ResolvedColumns DEF Closed, TerminalStates
<1>3. /\ CounterCheck(t) /\ LeaseAndScheduleCheck(t) /\ Provenance(t)
      /\ ResolutionMatches(r, t)
      /\ t.terminal_at # 0 /\ t.state \notin ActiveStates
  BY <1>1, <1>2, ClosedRow
<1>4. TerminalCheck(t)
  BY <1>1, <1>2, <1>3 DEF TerminalCheck, Closed
<1>5. ResolutionCheck(t)
  BY <1>1, <1>2, <1>3 DEF ResolutionCheck, ProviderResolutionCheck, Closed
<1>6. r.state = "LEASED" => r.attempt_count = 0 \/ PriorPositive(r)
  BY DEF Sound, Provenance
<1>7. AdmitsTerminal(r, t)
  BY <1>2, <1>3, <1>6 DEF AdmitsTerminal, Closed
<1> QED
  BY <1>3, <1>4, <1>5, <1>7 DEF Sound, RowConstraints

\* A row given up after a proven refusal.
LEMMA GivenUpSound ==
    ASSUME now \in Nat, now >= 1, NEW r \in Row, Sound(r), r.state = "SENDING",
           NEW disposition, NEW t, NEW proven \in BOOLEAN, proven # FALSE,
           \/ disposition = "retry_budget_exhausted" /\ r.attempt_count = 3
           \/ /\ disposition \in {"retry_unusable", "retry_deadline_exhausted"}
              /\ r.attempt_count # 3,
           t = Terminal(r, "FAILED_TERMINAL", disposition, "provider",
                        "not_accepted_retryable", proven, "not_applicable")
    PROVE  Sound(t) /\ AdmitsTerminal(r, t)
<1>1. /\ r.state \in ActiveStates /\ r.lease_id # 0 /\ r.fence_generation > 0
      /\ r.fence_generation \in Nat /\ r.attempt_count \in 1..3
  BY DEF ActiveStates, Sound, RowConstraints, CounterCheck, LeaseAndScheduleCheck, Row
<1>2. /\ Closed(r, t, "provider", "not_accepted_retryable", proven)
      /\ t.state = "FAILED_TERMINAL" /\ t.terminal_disposition = disposition
      /\ t.challenge_recording = "not_applicable"
  <2>1. "FAILED_TERMINAL" \in TerminalStates
    BY DEF TerminalStates
  <2> QED
    BY <2>1, TerminalCloses
<1>3. /\ CounterCheck(t) /\ LeaseAndScheduleCheck(t) /\ Provenance(t)
      /\ ResolutionMatches(r, t)
      /\ t.terminal_at # 0 /\ t.state \notin ActiveStates
  BY <1>1, <1>2, ClosedRow
<1>4. TerminalCheck(t)
  BY <1>1, <1>2, <1>3 DEF TerminalCheck, Closed, RetryDispositions, MaxAttempts
<1>5. ProviderResolutionCheck(t)
  <2>1. /\ t.resolution.provider_outcome = "not_accepted_retryable"
        /\ t.resolution.fence_generation # 0
    BY <1>1, <1>2 DEF Closed
  <2>2. t.resolution.non_acceptance_proven
    BY <1>2 DEF Closed
  <2>3. t.terminal_disposition \in RetryDispositions
    BY <1>2 DEF RetryDispositions
  <2> QED
    BY <1>2, <2>1, <2>2, <2>3 DEF ProviderResolutionCheck
<1>7. ResolutionCheck(t)
  BY <1>1, <1>2, <1>3, <1>5 DEF ResolutionCheck, Closed
<1>6. AdmitsTerminal(r, t)
  BY <1>1, <1>2, <1>3 DEF AdmitsTerminal, Closed, MaxAttempts
<1> QED
  BY <1>3, <1>4, <1>6, <1>7 DEF Sound, RowConstraints

\* A retry is admitted and its row sound.
LEMMA RescheduledSound ==
    ASSUME now \in Nat, now >= 1, NEW r \in Row, Sound(r), r.state = "SENDING",
           r.attempt_count # 3, NEW t,
           t = Rescheduled(r, now + RetryDelay(r.attempt_count))
    PROVE  Sound(t) /\ AdmitsRetry(r, t)
<1>1. /\ r.state \in ActiveStates /\ r.lease_id # 0 /\ r.fence_generation > 0
      /\ r.fence_generation \in Nat /\ r.attempt_count \in 1..2
      /\ RetryDelay(r.attempt_count) \in Nat
  BY TimingAssumption
     DEF ActiveStates, Sound, RowConstraints, CounterCheck, LeaseAndScheduleCheck, Row,
         RetryDelay
<1>2. r.challenge_recording = "not_applicable"
  BY <1>1 DEF Sound, RowConstraints, ResolutionCheck, ProviderResolutionCheck, TerminalCheck
<1>3. PICK proven \in BOOLEAN : proven = TRUE
  OBVIOUS
<1>4. t = [r EXCEPT !.state = "RETRY_WAIT",
                    !.available_at = now + RetryDelay(r.attempt_count),
                    !.lease_id = 0, !.leased_at = 0, !.resolved_at = now,
                    !.resolution = Resolved(r, "provider", "not_accepted_retryable", proven)]
  BY <1>3, Zenon DEF Rescheduled
<1>5. proven # FALSE
  BY <1>3, Zenon
<1>6. /\ t.state = "RETRY_WAIT" /\ t.available_at = now + RetryDelay(r.attempt_count)
      /\ t.lease_id = 0 /\ t.leased_at = 0 /\ t.resolved_at = now
      /\ t.resolution = Resolved(r, "provider", "not_accepted_retryable", proven)
      /\ t.attempt_count = r.attempt_count /\ t.fence_generation = r.fence_generation
      /\ t.last_attempt_started_at = r.last_attempt_started_at
      /\ t.delivery_deadline_at = r.delivery_deadline_at
      /\ t.terminal_at = r.terminal_at /\ t.terminal_disposition = r.terminal_disposition
      /\ t.challenge_recording = "not_applicable"
  BY <1>2, <1>4 DEF Row
<1>7. /\ t.resolution.kind = "provider"
      /\ t.resolution.provider_outcome = "not_accepted_retryable"
      /\ t.resolution.non_acceptance_proven
      /\ t.resolution.fence_generation = r.fence_generation
      /\ t.resolution.attempt_count = r.attempt_count
  <2>1. /\ t.resolution.kind = "provider"
        /\ t.resolution.provider_outcome = "not_accepted_retryable"
        /\ t.resolution.non_acceptance_proven = proven
        /\ t.resolution.fence_generation =
             IF r.lease_id = 0 THEN 0 ELSE r.fence_generation
        /\ t.resolution.attempt_count = r.attempt_count
    BY <1>6, ResolvedColumns
  <2>2. t.resolution.non_acceptance_proven
    BY <1>5, <2>1, Zenon
  <2> QED
    BY <1>1, <2>1, <2>2
<1>8. /\ CounterCheck(t) /\ LeaseAndScheduleCheck(t)
  BY <1>1, <1>6
     DEF CounterCheck, LeaseAndScheduleCheck, Sound, RowConstraints, ActiveStates
<1>9. TerminalCheck(t)
  BY <1>1, <1>6 DEF TerminalCheck, Sound, RowConstraints, ActiveStates
<1>10. ResolutionCheck(t)
  BY <1>1, <1>6, <1>7, <1>9
     DEF ResolutionCheck, ProviderResolutionCheck, TerminalCheck, ActiveStates
<1>11. Provenance(t)
  BY <1>1, <1>6, <1>7 DEF Provenance, PriorPositive
<1>12. AdmitsRetry(r, t)
  <2>1. t = [r EXCEPT !.state = "RETRY_WAIT", !.available_at = t.available_at,
                      !.lease_id = 0, !.leased_at = 0, !.resolved_at = t.resolved_at,
                      !.resolution = t.resolution]
    BY <1>4, <1>6, Zenon
  <2> QED
    BY <1>1, <1>6, <1>7, <2>1 DEF AdmitsRetry, ResolutionMatches
<1> QED
  BY <1>8, <1>9, <1>10, <1>11, <1>12 DEF Sound, RowConstraints

\* What a requeued row was claimed as, it is again.
LEMMA RequeuedSound ==
    ASSUME now \in Nat, now >= 1, NEW r \in Row, Sound(r), r.state = "LEASED", NEW t,
           t = Requeued(r)
    PROVE  Sound(t) /\ AdmitsRequeue(r, t)
<1>1. /\ r.state \in ActiveStates /\ r.attempt_count \in 0..2
      /\ r.attempt_count = 0 => r.resolution.kind = "none"
      /\ r.attempt_count # 0 =>
           /\ PriorPositive(r)
           /\ r.available_at = r.resolved_at + RetryDelay(r.attempt_count)
  BY DEF ActiveStates, Sound, RowConstraints, CounterCheck, Provenance, Row
<1>2. PICK final : /\ t = [r EXCEPT !.state = final, !.lease_id = 0, !.leased_at = 0]
                   /\ final = RequeuedState(r)
  BY DEF Requeued
<1>3. final = IF r.attempt_count = 0 THEN "PENDING" ELSE "RETRY_WAIT"
  BY <1>2 DEF RequeuedState
<1>4. /\ t.state = final /\ t.lease_id = 0 /\ t.leased_at = 0
      /\ t.available_at = r.available_at /\ t.resolved_at = r.resolved_at
      /\ t.resolution = r.resolution
      /\ t.attempt_count = r.attempt_count /\ t.fence_generation = r.fence_generation
      /\ t.last_attempt_started_at = r.last_attempt_started_at
      /\ t.delivery_deadline_at = r.delivery_deadline_at
      /\ t.terminal_at = r.terminal_at /\ t.terminal_disposition = r.terminal_disposition
      /\ t.challenge_recording = r.challenge_recording
  BY <1>2 DEF Row
<1>5. /\ CounterCheck(t) /\ LeaseAndScheduleCheck(t)
  BY <1>1, <1>3, <1>4
     DEF CounterCheck, LeaseAndScheduleCheck, Sound, RowConstraints, ActiveStates
<1>6. TerminalCheck(t)
  BY <1>1, <1>3, <1>4 DEF TerminalCheck, Sound, RowConstraints, ActiveStates
<1>7. PriorPositive(r) => PriorPositive(t)
  BY <1>4 DEF PriorPositive
<1>8. ResolutionCheck(t)
  BY <1>1, <1>3, <1>4, <1>6
     DEF ResolutionCheck, ProviderResolutionCheck, PriorPositive, TerminalCheck, Sound,
         RowConstraints, ActiveStates
<1>9. Provenance(t)
  BY <1>1, <1>3, <1>4, <1>7 DEF Provenance
<1>10. AdmitsRequeue(r, t)
  <2>1. t = [r EXCEPT !.state = t.state, !.lease_id = 0, !.leased_at = 0]
    BY <1>2, <1>4, Zenon
  <2> QED
    BY <1>1, <1>3, <1>4, <2>1 DEF AdmitsRequeue
<1> QED
  BY <1>5, <1>6, <1>8, <1>9, <1>10 DEF Sound, RowConstraints

\* A claim takes a row that was never sent, or refused.
LEMMA ClaimedSound ==
    ASSUME now \in Nat, now >= 1, NEW r \in Row, Sound(r),
           r.state \in {"PENDING", "RETRY_WAIT"}, r.available_at <= now,
           nextFence \in Nat, nextFence >= 1, NEW t,
           t = [r EXCEPT !.state = "LEASED", !.lease_id = nextFence, !.leased_at = now,
                         !.fence_generation = nextFence]
    PROVE  Sound(t) /\ AdmitsClaim(r, t)
<1>1. /\ r.state \in ActiveStates /\ r.attempt_count \in 0..3
      /\ r.state = "PENDING" => r.attempt_count = 0 /\ r.resolution.kind = "none"
      /\ r.state = "RETRY_WAIT" =>
           /\ PriorPositive(r) /\ r.attempt_count \in 1..2
           /\ r.available_at = r.resolved_at + RetryDelay(r.attempt_count)
  BY DEF ActiveStates, Sound, RowConstraints, CounterCheck, LeaseAndScheduleCheck,
         Provenance, Row, MaxAttempts
<1>2. /\ t.state = "LEASED" /\ t.lease_id = nextFence /\ t.leased_at = now
      /\ t.fence_generation = nextFence
      /\ t.available_at = r.available_at /\ t.resolved_at = r.resolved_at
      /\ t.resolution = r.resolution /\ t.attempt_count = r.attempt_count
      /\ t.last_attempt_started_at = r.last_attempt_started_at
      /\ t.delivery_deadline_at = r.delivery_deadline_at
      /\ t.terminal_at = r.terminal_at /\ t.terminal_disposition = r.terminal_disposition
      /\ t.challenge_recording = r.challenge_recording
  BY DEF Row
<1>3. /\ CounterCheck(t) /\ LeaseAndScheduleCheck(t)
  BY <1>1, <1>2
     DEF CounterCheck, LeaseAndScheduleCheck, Sound, RowConstraints, ActiveStates
<1>4. TerminalCheck(t)
  BY <1>1, <1>2 DEF TerminalCheck, Sound, RowConstraints, ActiveStates
<1>5. PriorPositive(r) => PriorPositive(t)
  BY <1>2 DEF PriorPositive
<1>6. ResolutionCheck(t)
  BY <1>1, <1>2, <1>4
     DEF ResolutionCheck, ProviderResolutionCheck, PriorPositive, TerminalCheck, Sound,
         RowConstraints, ActiveStates
<1>7. Provenance(t)
  BY <1>1, <1>2, <1>5 DEF Provenance
<1>8. AdmitsClaim(r, t)
  <2>1. t = [r EXCEPT !.state = "LEASED", !.lease_id = t.lease_id,
                      !.leased_at = t.leased_at, !.fence_generation = nextFence]
    BY <1>2, Zenon
  <2> QED
    BY <1>1, <1>2, <2>1 DEF AdmitsClaim
<1> QED
  BY <1>3, <1>4, <1>6, <1>7, <1>8 DEF Sound, RowConstraints

\* begin_send starts an attempt that fits into lease and deadline.
LEMMA BegunSound ==
    ASSUME now \in Nat, now >= 1, NEW r \in Row, Sound(r), r.state = "LEASED",
           WindowOpen(r), Sendable(r), NEW t,
           t = [r EXCEPT !.state = "SENDING", !.attempt_count = @ + 1,
                         !.last_attempt_started_at = now]
    PROVE  Sound(t) /\ AdmitsBegin(r, t)
<1>1. /\ r.state \in ActiveStates /\ r.attempt_count \in 0..2 /\ r.leased_at <= now
      /\ r.attempt_count = 0 => r.resolution.kind = "none"
      /\ r.attempt_count # 0 => PriorPositive(r)
      /\ now + SendWindow < r.delivery_deadline_at
      /\ now + SendWindow < LeaseExpires(r)
  BY DEF ActiveStates, Sound, RowConstraints, CounterCheck, Provenance, Row, WindowOpen,
         Sendable
<1>2. /\ t.state = "SENDING" /\ t.attempt_count = r.attempt_count + 1
      /\ t.last_attempt_started_at = now
      /\ t.lease_id = r.lease_id /\ t.leased_at = r.leased_at
      /\ t.fence_generation = r.fence_generation
      /\ t.available_at = r.available_at /\ t.resolved_at = r.resolved_at
      /\ t.resolution = r.resolution
      /\ t.delivery_deadline_at = r.delivery_deadline_at
      /\ t.terminal_at = r.terminal_at /\ t.terminal_disposition = r.terminal_disposition
      /\ t.challenge_recording = r.challenge_recording
  BY DEF Row
<1>3. /\ CounterCheck(t) /\ LeaseAndScheduleCheck(t)
  BY <1>1, <1>2
     DEF CounterCheck, LeaseAndScheduleCheck, Sound, RowConstraints, ActiveStates,
         LeaseExpires
<1>4. TerminalCheck(t)
  BY <1>1, <1>2 DEF TerminalCheck, Sound, RowConstraints, ActiveStates
<1>5. ResolutionCheck(t)
  BY <1>1, <1>2, <1>4
     DEF ResolutionCheck, ProviderResolutionCheck, PriorPositive, TerminalCheck, Sound,
         RowConstraints, ActiveStates
<1>6. Provenance(t)
  BY <1>1, <1>2 DEF Provenance
<1>7. AdmitsBegin(r, t)
  <2>1. t = [r EXCEPT !.state = "SENDING", !.attempt_count = @ + 1,
                      !.last_attempt_started_at = t.last_attempt_started_at]
    BY <1>2, Zenon
  <2> QED
    BY <1>1, <1>2, <2>1 DEF AdmitsBegin
<1> QED
  BY <1>3, <1>4, <1>5, <1>6, <1>7 DEF Sound, RowConstraints

\* An enqueued row has never been sent.
LEMMA EnqueuedSound ==
    ASSUME now \in Nat, now >= 1, NEW j \in Jobs,
           nextFence \in Nat, nextFence >= 1, NEW r, r.state = "absent", NEW t,
           t = [NoRow EXCEPT !.state = "PENDING", !.fence_generation = nextFence,
                             !.available_at = now,
                             !.delivery_deadline_at = challenge[j].expires_at]
    PROVE  Sound(t) /\ AdmitsInsert(j, r, t)
<1>1. NoResolution.kind = "none"
  BY Zenon DEF NoResolution
<1>2. /\ t.state = "PENDING" /\ t.fence_generation = nextFence /\ t.available_at = now
      /\ t.delivery_deadline_at = challenge[j].expires_at
      /\ t.attempt_count = 0 /\ t.lease_id = 0 /\ t.leased_at = 0 /\ t.resolved_at = 0
      /\ t.last_attempt_started_at = 0
      /\ t.terminal_at = 0 /\ t.terminal_disposition = "none"
      /\ t.challenge_recording = "not_applicable" /\ t.resolution = NoResolution
  BY DEF NoRow
<1>3. /\ CounterCheck(t) /\ LeaseAndScheduleCheck(t)
  BY <1>2 DEF CounterCheck, LeaseAndScheduleCheck, ActiveStates
<1>4. TerminalCheck(t)
  BY <1>2 DEF TerminalCheck, ActiveStates
<1>5. ResolutionCheck(t)
  BY <1>1, <1>2 DEF ResolutionCheck
<1>6. Provenance(t)
  BY <1>1, <1>2 DEF Provenance
<1>7. AdmitsInsert(j, r, t)
  BY <1>1, <1>2 DEF AdmitsInsert
<1> QED
  BY <1>3, <1>4, <1>5, <1>6, <1>7 DEF Sound, RowConstraints

\* What TriggerAdmits asks of a write of job j's row.
Admitted(j, old, new) ==
    /\ new.state # "absent" => RowConstraints(new)
    /\ \/ AdmitsInsert(j, old, new) \/ AdmitsDelete(j, old, new)
       \/ AdmitsClaim(old, new) \/ AdmitsBegin(old, new)
       \/ AdmitsRequeue(old, new) \/ AdmitsRetry(old, new)
       \/ AdmitsTerminal(old, new)

WritesAdmitted ==
    \A j \in Jobs : outbox'[j] # outbox[j] => Admitted(j, outbox[j], outbox'[j])

\* A sound row stays sound as time goes on.
LEMMA SoundLater ==
    ASSUME now \in Nat, now' \in Nat, now' >= now, NEW j \in Jobs,
           outbox'[j].leased_at \in Nat, outbox'[j].available_at \in Nat,
           Sound(outbox'[j])
    PROVE  Sound(outbox[j])'
<1>1. RowConstraints(outbox[j])'
  BY DEF Sound, RowConstraints, CounterCheck, LeaseAndScheduleCheck, TerminalCheck,
         ResolutionCheck, ProviderResolutionCheck, LeaseExpires, RetryDelay
<1>2. Provenance(outbox[j])'
  BY DEF Sound, Provenance, PriorPositive, RetryDelay
<1> QED
  BY <1>1, <1>2 DEF Sound

\* A step that writes no row.
LEMMA NoRowWritten ==
    ASSUME TypeOK, RowsInv, TypeOK', UNCHANGED outbox, now' >= now
    PROVE  RowsInv' /\ WritesAdmitted
<1>1. now \in Nat /\ now' \in Nat /\ outbox' \in [Jobs -> Row]
  BY DEF TypeOK
<1>2. WritesAdmitted
  BY DEF WritesAdmitted
<1>3. now' >= 1
  BY <1>1 DEF RowsInv
<1>4. ASSUME NEW j \in Jobs, outbox'[j].state # "absent"
      PROVE  Sound(outbox[j])'
  <2>1. outbox'[j].leased_at \in Nat /\ outbox'[j].available_at \in Nat
    BY <1>1 DEF Row
  <2>2. Sound(outbox'[j])
    BY <1>4 DEF RowsInv
  <2> QED
    BY <1>1, <2>1, <2>2, SoundLater
<1> QED
  BY <1>2, <1>3, <1>4 DEF RowsInv

\* A step that writes one row.
LEMMA OneRowWritten ==
    ASSUME TypeOK, RowsInv, TypeOK', UNCHANGED now, NEW j \in Jobs,
           \A k \in Jobs : k # j => outbox'[k] = outbox[k],
           outbox'[j].state # "absent" => Sound(outbox'[j]),
           Admitted(j, outbox[j], outbox'[j])
    PROVE  RowsInv' /\ WritesAdmitted
<1>1. now \in Nat /\ now' \in Nat /\ now' >= now /\ outbox' \in [Jobs -> Row]
  BY DEF TypeOK
<1>2. WritesAdmitted
  BY DEF WritesAdmitted
<1>3. now' >= 1
  BY DEF RowsInv
<1>4. ASSUME NEW k \in Jobs, outbox'[k].state # "absent"
      PROVE  Sound(outbox[k])'
  <2>1. outbox'[k].leased_at \in Nat /\ outbox'[k].available_at \in Nat
    BY <1>1 DEF Row
  <2>2. Sound(outbox'[k])
    BY <1>4 DEF RowsInv
  <2> QED
    BY <1>1, <2>1, <2>2, SoundLater
<1> QED
  BY <1>2, <1>3, <1>4 DEF RowsInv

\* The usability predicate has a truth value.
LEMMA UsableBoolean ==
    ASSUME TypeOK, NEW j \in Jobs, NEW located
    PROVE  Usable(j, located) \in BOOLEAN
  BY DEF TypeOK, Usable, Challenge

\* enqueue inserts a row that was never sent.
LEMMA EnqueueAdmitted ==
    ASSUME TypeOK, RowsInv, TypeOK', NEW j \in Jobs, Enqueue(j)
    PROVE  RowsInv' /\ WritesAdmitted
<1>1. /\ now \in Nat /\ now >= 1 /\ nextFence \in Nat /\ nextFence >= 1
      /\ outbox \in [Jobs -> Row] /\ outbox[j].state = "absent" /\ UNCHANGED now
  BY BoundAssumption DEF TypeOK, RowsInv, Enqueue
<1>2. PICK t : t = [NoRow EXCEPT !.state = "PENDING", !.fence_generation = nextFence,
                                 !.available_at = now,
                                 !.delivery_deadline_at = challenge[j].expires_at]
  OBVIOUS
<1>3. outbox' = [outbox EXCEPT ![j] = t]
  BY <1>2, Zenon DEF Enqueue
<1>4. Sound(t) /\ AdmitsInsert(j, outbox[j], t) /\ t.state # "absent"
  <2>1. Sound(t) /\ AdmitsInsert(j, outbox[j], t)
    BY <1>1, <1>2, EnqueuedSound
  <2> QED
    BY <2>1 DEF AdmitsInsert
<1>5. outbox'[j] = t /\ \A k \in Jobs : k # j => outbox'[k] = outbox[k]
  BY <1>1, <1>3
<1>6. Admitted(j, outbox[j], outbox'[j])
  BY <1>4, <1>5 DEF Admitted, Sound
<1> QED
  BY <1>1, <1>4, <1>5, <1>6, OneRowWritten

\* The purge deletes only closed rows of expired challenges.
LEMMA PurgedAdmitted ==
    ASSUME TypeOK, RowsInv, TypeOK', NEW j \in Jobs, Purge(j)
    PROVE  RowsInv' /\ WritesAdmitted
<1>1. /\ outbox \in [Jobs -> Row] /\ outbox' = [outbox EXCEPT ![j] = NoRow]
      /\ UNCHANGED now /\ outbox[j].state \in TerminalStates
      /\ outbox[j].terminal_at + Retention <= now /\ challenge[j].expires_at <= now
  BY DEF TypeOK, Purge, Purgeable
<1>2. outbox'[j] = NoRow /\ \A k \in Jobs : k # j => outbox'[k] = outbox[k]
  BY <1>1
<1>3. NoRow.state = "absent"
  BY Zenon DEF NoRow
<1>4. outbox[j].terminal_at # 0
  <2>1. outbox[j].state # "absent" /\ outbox[j].state \notin ActiveStates
    BY <1>1 DEF TerminalStates, ActiveStates
  <2>2. TerminalCheck(outbox[j])
    BY <2>1 DEF RowsInv, Sound, RowConstraints
  <2> QED
    BY <2>1, <2>2 DEF TerminalCheck
<1>5. Admitted(j, outbox[j], outbox'[j])
  BY <1>1, <1>2, <1>3, <1>4 DEF Admitted, AdmitsDelete
<1> QED
  BY <1>1, <1>2, <1>3, <1>5, OneRowWritten

\* A claim is a transition the trigger admits.
LEMMA ClaimAdmitted ==
    ASSUME TypeOK, RowsInv, TypeOK', NEW w \in Workers, NEW j \in Jobs, ClaimOne(w, j)
    PROVE  RowsInv' /\ WritesAdmitted
<1>1. /\ now \in Nat /\ now >= 1 /\ nextFence \in Nat /\ nextFence >= 1
      /\ outbox \in [Jobs -> Row] /\ outbox[j].state \in {"PENDING", "RETRY_WAIT"}
      /\ outbox[j].available_at <= now /\ UNCHANGED now
  BY BoundAssumption DEF TypeOK, RowsInv, ClaimOne, Claimable
<1>2. outbox[j] \in Row /\ Sound(outbox[j])
  BY <1>1 DEF RowsInv
<1>3. /\ outbox'[j] = [outbox[j] EXCEPT !.state = "LEASED", !.lease_id = nextFence,
                                        !.leased_at = now, !.fence_generation = nextFence]
      /\ \A k \in Jobs : k # j => outbox'[k] = outbox[k]
  BY <1>1 DEF ClaimOne
<1>4. Sound(outbox'[j]) /\ AdmitsClaim(outbox[j], outbox'[j])
  BY <1>1, <1>2, <1>3, ClaimedSound
<1>5. Admitted(j, outbox[j], outbox'[j])
  BY <1>4 DEF Admitted, Sound
<1> QED
  BY <1>1, <1>3, <1>4, <1>5, OneRowWritten

\* An attempt begun is a transition the trigger admits.
LEMMA BeginAdmitted ==
    ASSUME TypeOK, RowsInv, TypeOK', NEW f \in Fences, BeginApplied(f)
    PROVE  RowsInv' /\ WritesAdmitted
<1>1. PICK j \in Jobs : j = sess[f].job
  BY SessionType DEF BeginApplied, Session
<1>2. /\ now \in Nat /\ now >= 1 /\ UNCHANGED now
      /\ outbox \in [Jobs -> Row] /\ outbox[j].state = "LEASED"
      /\ WindowOpen(outbox[j]) /\ Sendable(outbox[j])
  BY <1>1 DEF TypeOK, RowsInv, BeginApplied, HoldsLease
<1>3. outbox[j] \in Row /\ Sound(outbox[j])
  BY <1>2 DEF RowsInv
<1>4. /\ outbox'[j] = [outbox[j] EXCEPT !.state = "SENDING", !.attempt_count = @ + 1,
                                        !.last_attempt_started_at = now]
      /\ \A k \in Jobs : k # j => outbox'[k] = outbox[k]
  BY <1>1, <1>2 DEF BeginApplied
<1>5. Sound(outbox'[j]) /\ AdmitsBegin(outbox[j], outbox'[j])
  BY <1>2, <1>3, <1>4, BegunSound
<1>6. Admitted(j, outbox[j], outbox'[j])
  BY <1>5 DEF Admitted, Sound
<1> QED
  BY <1>2, <1>4, <1>5, <1>6, OneRowWritten

\* So is what begin_send gives up.
LEMMA BeginUnsendableAdmitted ==
    ASSUME TypeOK, RowsInv, TypeOK', NEW f \in Fences, BeginUnsendable(f)
    PROVE  RowsInv' /\ WritesAdmitted
<1>1. PICK j \in Jobs : j = sess[f].job
  BY SessionType DEF BeginUnsendable, Session
<1>2. /\ now \in Nat /\ now >= 1 /\ UNCHANGED now
      /\ outbox \in [Jobs -> Row] /\ outbox[j].state = "LEASED"
  BY <1>1 DEF TypeOK, RowsInv, BeginUnsendable, HoldsLease
<1>3. outbox[j] \in Row /\ Sound(outbox[j])
  BY <1>2 DEF RowsInv
<1>4. PICK usable \in BOOLEAN : usable = Usable(j, Jobs)
  BY UsableBoolean
<1>5. /\ outbox'[j] = Unsendable(outbox[j], "unusable", usable)
      /\ \A k \in Jobs : k # j => outbox'[k] = outbox[k]
  BY <1>1, <1>2, <1>4 DEF BeginUnsendable
<1>6. Sound(outbox'[j]) /\ AdmitsTerminal(outbox[j], outbox'[j])
  BY <1>2, <1>3, <1>5, UnsendableSound
<1>7. Admitted(j, outbox[j], outbox'[j])
  BY <1>6 DEF Admitted, Sound
<1> QED
  BY <1>2, <1>5, <1>6, <1>7, OneRowWritten

\* So is whatever recovery decides.
LEMMA RecoverAdmitted ==
    ASSUME TypeOK, RowsInv, TypeOK', NEW w \in Workers, NEW j \in Jobs, RecoverOne(w, j)
    PROVE  RowsInv' /\ WritesAdmitted
<1>1. /\ now \in Nat /\ now >= 1 /\ outbox \in [Jobs -> Row] /\ UNCHANGED now
      /\ \A k \in Jobs : outbox[k].state # "absent" => outbox[k] \in Row /\ Sound(outbox[k])
  BY DEF TypeOK, RowsInv, RecoverOne, RecoverSending, RecoverLeased, RecoverUnsendable,
         RecoverSkip
<1>2. CASE RecoverSending(w, j)
  <2>1. outbox[j].state = "SENDING" /\ outbox[j] \in Row /\ Sound(outbox[j])
    BY <1>1, <1>2 DEF RecoverSending
  <2>2. PICK proven \in BOOLEAN : proven = FALSE
    OBVIOUS
  <2>3. PICK recordedAt \in {now, now + 1} :
          outbox' = [outbox EXCEPT ![j] =
            Terminal(@, "DELIVERY_OUTCOME_UNKNOWN", "delivery_outcome_unknown", "recovery",
                     "none", FALSE,
                     IF Recordable(j, recordedAt) THEN "recorded" ELSE "not_recorded")]
    BY <1>2, Zenon DEF RecoverSending
  <2>4. PICK recording \in {"recorded", "not_recorded"} :
          recording = IF Recordable(j, recordedAt) THEN "recorded" ELSE "not_recorded"
    OBVIOUS
  <2>5. outbox' = [outbox EXCEPT ![j] =
            Terminal(@, "DELIVERY_OUTCOME_UNKNOWN", "delivery_outcome_unknown", "recovery",
                     "none", proven, recording)]
    BY <2>2, <2>3, <2>4, Zenon
  <2>6. ~proven
    BY <2>2, Zenon
  <2>7. /\ outbox'[j] = Terminal(outbox[j], "DELIVERY_OUTCOME_UNKNOWN",
                                 "delivery_outcome_unknown", "recovery", "none", proven,
                                 recording)
        /\ \A k \in Jobs : k # j => outbox'[k] = outbox[k]
    BY <1>1, <2>5
  <2>8. Sound(outbox'[j]) /\ AdmitsTerminal(outbox[j], outbox'[j])
    BY <1>1, <2>1, <2>6, <2>7, UnknownSound
  <2>9. Admitted(j, outbox[j], outbox'[j])
    BY <2>8 DEF Admitted, Sound
  <2> QED
    BY <1>1, <2>7, <2>8, <2>9, OneRowWritten
<1>3. CASE RecoverLeased(w, j)
  <2>1. outbox[j].state = "LEASED" /\ outbox[j] \in Row /\ Sound(outbox[j])
    BY <1>1, <1>3 DEF RecoverLeased, ClaimedNotSent
  <2>2. /\ outbox'[j] = Requeued(outbox[j])
        /\ \A k \in Jobs : k # j => outbox'[k] = outbox[k]
    BY <1>1, <1>3 DEF RecoverLeased
  <2>3. Sound(outbox'[j]) /\ AdmitsRequeue(outbox[j], outbox'[j])
    BY <1>1, <2>1, <2>2, RequeuedSound
  <2>4. Admitted(j, outbox[j], outbox'[j])
    BY <2>3 DEF Admitted, Sound
  <2> QED
    BY <1>1, <2>2, <2>3, <2>4, OneRowWritten
<1>4. CASE RecoverUnsendable(w, j)
  <2>1. /\ outbox[j].state \in {"PENDING", "LEASED", "RETRY_WAIT"}
        /\ outbox[j] \in Row /\ Sound(outbox[j])
    BY <1>1, <1>4 DEF RecoverUnsendable
  <2>2. PICK usable \in BOOLEAN : usable = Usable(j, scan[w].located)
    BY UsableBoolean
  <2>3. /\ outbox'[j] = Unsendable(outbox[j], "recovery", usable)
        /\ \A k \in Jobs : k # j => outbox'[k] = outbox[k]
    BY <1>1, <1>4, <2>2 DEF RecoverUnsendable
  <2>4. Sound(outbox'[j]) /\ AdmitsTerminal(outbox[j], outbox'[j])
    BY <1>1, <2>1, <2>3, UnsendableSound
  <2>5. Admitted(j, outbox[j], outbox'[j])
    BY <2>4 DEF Admitted, Sound
  <2> QED
    BY <1>1, <2>3, <2>4, <2>5, OneRowWritten
<1>5. CASE RecoverSkip(w, j)
  <2>1. UNCHANGED outbox /\ now' >= now
    BY <1>1, <1>5 DEF RecoverSkip
  <2> QED
    BY <2>1, NoRowWritten
<1> QED
  BY <1>2, <1>3, <1>4, <1>5 DEF RecoverOne

\* What a session passes to finalize is one of the outcomes it knows.
OutcomeNamed ==
    \A f \in Fences : sess[f].pc = "final_sent" => sess[f].outcome # "none"

\* OutcomeNamed is inductive: Settle and SenderUnavailable name an outcome.
LEMMA NextNamed == DeliveryInv /\ OutcomeNamed /\ [Next]_vars => OutcomeNamed'
<1> SUFFICES ASSUME DeliveryInv, OutcomeNamed, [Next]_vars
             PROVE  OutcomeNamed'
  OBVIOUS
<1>1. /\ sess \in [Fences -> Session \cup {NoSession}]
      /\ \A f \in Fences : sess[f].pc = "final_sent" => sess[f].outcome # "none"
  BY DEF DeliveryInv, TypeOK, OutcomeNamed
<1>2. ASSUME UNCHANGED sess
      PROVE  OutcomeNamed'
  BY <1>1, <1>2 DEF OutcomeNamed
<1>3. ASSUME NEW w \in Workers, NEW j \in Jobs, ClaimOne(w, j)
      PROVE  OutcomeNamed'
  <2>1. \A f \in Fences : sess'[f] = sess[f] \/ sess'[f].pc = "claimed"
    BY <1>1, <1>3 DEF ClaimOne
  <2> QED
    BY <1>1, <2>1 DEF OutcomeNamed
<1>4. CASE Environment
  BY <1>2, <1>4
     DEF Environment, Tick, RequestChallenge, SupersedeChallenge, ScrubChallenge,
         ChangeAuthority
<1>5. CASE Scanning
  BY <1>2, <1>3, <1>5
     DEF Scanning, Enqueue, Purge, ClaimSelect, RecoverSelect, StartScan, AbortScan,
         ClaimSkip, RecoverOne, RecoverSending, RecoverLeased, RecoverUnsendable,
         RecoverSkip
<1>6. ASSUME NEW f \in Fences, sess[f].pc # "unused", Finish(f) \/ FinalizeAnswered(f)
      PROVE  OutcomeNamed'
  <2>1. \A g \in Fences : sess'[g] = sess[g] \/ sess'[g].pc \in {"done", "confirmed"}
    BY <1>6, AnsweredFields
  <2> QED
    BY <1>1, <2>1 DEF OutcomeNamed
<1>7. ASSUME NEW f \in Fences,
             \/ Abandon(f) \/ BeginUnsendable(f) \/ BeginRefused(f)
             \/ FinalizeDuplicate(f) \/ FinalizeRefused(f)
             \/ FinalizeRetryable(f) \/ FinalizeSettled(f)
      PROVE  OutcomeNamed'
  <2>1. sess[f].pc # "unused" /\ (Finish(f) \/ FinalizeAnswered(f))
    BY <1>7 DEF Abandon, BeginUnsendable, BeginRefused, FinalizeDuplicate,
                FinalizeRefused, FinalizeRetryable, FinalizeSettled
  <2> QED
    BY <1>6, <2>1
<1>8. ASSUME NEW f \in Fences,
             \/ SenderUnavailable(f) \/ BeginCall(f) \/ BeginApplied(f)
             \/ Invoke(f) \/ ProviderDecides(f) \/ Settle(f)
      PROVE  OutcomeNamed'
  <2>1. sess[f] \in Session
    BY <1>8, SessionType
       DEF DeliveryInv, SenderUnavailable, BeginCall, BeginApplied, Invoke,
           ProviderDecides, Settle
  <2>2. \/ \E g \in Fences : sess[g].pc # "unused" /\ (Finish(g) \/ FinalizeAnswered(g))
        \/ \A g \in Fences : \/ sess'[g] = sess[g]
                             \/ sess'[g].pc \in {"begin_sent", "begun", "calling"}
                             \/ sess'[g].outcome \in ProviderOutcomes \cup {"sender_unavailable"}
                             \/ sess'[g].pc = sess[g].pc /\ sess'[g].outcome = sess[g].outcome
    <3>1. CASE SenderUnavailable(f) \/ BeginCall(f)
      BY <1>1, <2>1, <3>1 DEF SenderUnavailable, BeginCall, Session
    <3>2. CASE Invoke(f) \/ ProviderDecides(f)
      BY <1>1, <2>1, <3>2 DEF Invoke, ProviderDecides, Session
    <3>3. CASE Settle(f)
      BY <1>1, <2>1, <3>3 DEF Settle, Session
    <3>4. CASE BeginApplied(f)
      <4>1. CASE sess' = [sess EXCEPT ![f].pc = "begun", ![f].attempt = @ + 1]
        BY <1>1, <2>1, <4>1 DEF Session
      <4>2. CASE Finish(f)
        BY <3>4, <4>2 DEF BeginApplied
      <4> QED
        BY <3>4, <4>1, <4>2 DEF BeginApplied
    <3> QED
      BY <1>8, <3>1, <3>2, <3>3, <3>4
  <2>3. "none" \notin ProviderOutcomes \cup {"sender_unavailable"}
    BY DEF ProviderOutcomes
  <2> QED
    BY <1>1, <1>6, <2>2, <2>3 DEF OutcomeNamed
<1>9. CASE Sending
  BY <1>7, <1>8, <1>9 DEF Sending
<1>10. CASE UNCHANGED vars
  BY <1>2, <1>10 DEF vars
<1> QED
  BY <1>4, <1>5, <1>9, <1>10 DEF Next

\* So is a retry, and giving up after a proven refusal.
LEMMA RetryableAdmitted ==
    ASSUME TypeOK, RowsInv, TypeOK', NEW f \in Fences, FinalizeRetryable(f)
    PROVE  RowsInv' /\ WritesAdmitted
<1>1. PICK j \in Jobs : j = sess[f].job
  BY SessionType DEF FinalizeRetryable, Session
<1>2. /\ now \in Nat /\ now >= 1 /\ UNCHANGED now
      /\ outbox \in [Jobs -> Row] /\ outbox[j].state = "SENDING"
  BY <1>1 DEF TypeOK, RowsInv, FinalizeRetryable, FinalizeApplies, HoldsLease,
              ExpectedState
<1>3. outbox[j] \in Row /\ Sound(outbox[j])
  BY <1>2 DEF RowsInv
<1>4. \A k \in Jobs : k # j => outbox'[k] = outbox[k]
  BY <1>1, <1>2 DEF FinalizeRetryable
<1>5. CASE MayRetry(j)
  <2>1. outbox'[j] = Rescheduled(outbox[j], now + RetryDelay(outbox[j].attempt_count))
    BY <1>1, <1>2, <1>5 DEF FinalizeRetryable, NextAvailable
  <2>2. outbox[j].attempt_count # 3
    BY <1>3, <1>5 DEF MayRetry, MaxAttempts, Row
  <2>3. Sound(outbox'[j]) /\ AdmitsRetry(outbox[j], outbox'[j])
    BY <1>2, <1>3, <2>1, <2>2, RescheduledSound
  <2>4. Admitted(j, outbox[j], outbox'[j])
    BY <2>3 DEF Admitted, Sound
  <2> QED
    BY <1>2, <1>4, <2>3, <2>4, OneRowWritten
<1>6. CASE ~MayRetry(j)
  <2>1. PICK proven \in BOOLEAN : proven = TRUE
    OBVIOUS
  <2>2. proven # FALSE
    BY <2>1, Zenon
  <2>3. PICK disposition : disposition = GiveUpDisposition(j)
    OBVIOUS
  <2>4. \/ disposition = "retry_budget_exhausted" /\ outbox[j].attempt_count = 3
        \/ /\ disposition \in {"retry_unusable", "retry_deadline_exhausted"}
           /\ outbox[j].attempt_count # 3
    BY <2>3 DEF GiveUpDisposition, MaxAttempts
  <2>5. outbox' = [outbox EXCEPT ![j] =
          Terminal(@, "FAILED_TERMINAL", disposition, "provider",
                   "not_accepted_retryable", proven, "not_applicable")]
    BY <1>1, <1>6, <2>1, <2>3, Zenon DEF FinalizeRetryable
  <2>6. outbox'[j] = Terminal(outbox[j], "FAILED_TERMINAL", disposition, "provider",
                              "not_accepted_retryable", proven, "not_applicable")
    BY <1>2, <2>5
  <2>7. Sound(outbox'[j]) /\ AdmitsTerminal(outbox[j], outbox'[j])
    BY <1>2, <1>3, <2>2, <2>4, <2>6, GivenUpSound
  <2>8. Admitted(j, outbox[j], outbox'[j])
    BY <2>7 DEF Admitted, Sound
  <2> QED
    BY <1>2, <1>4, <2>7, <2>8, OneRowWritten
<1> QED
  BY <1>5, <1>6

\* So is whatever else finalize closes.
LEMMA SettledAdmitted ==
    ASSUME TypeOK, RowsInv, OutcomeNamed, TypeOK', NEW f \in Fences, FinalizeSettled(f)
    PROVE  RowsInv' /\ WritesAdmitted
<1>1. PICK j \in Jobs, o \in {"accepted", "rejected", "outcome_unknown", "sender_unavailable"} :
        j = sess[f].job /\ o = sess[f].outcome
  <2>1. sess[f] \in Session /\ sess[f].outcome # "none"
        /\ sess[f].outcome # "not_accepted_retryable"
    BY SessionType DEF FinalizeSettled, OutcomeNamed
  <2> QED
    BY <2>1 DEF Session, ProviderOutcomes
<1>2. /\ now \in Nat /\ now >= 1 /\ UNCHANGED now /\ outbox \in [Jobs -> Row]
      /\ outbox[j].state = IF o = "sender_unavailable" THEN "LEASED" ELSE "SENDING"
  BY <1>1 DEF TypeOK, RowsInv, FinalizeSettled, FinalizeApplies, HoldsLease, ExpectedState
<1>3. outbox[j] \in Row /\ Sound(outbox[j])
  BY <1>2 DEF RowsInv
<1>4. PICK proven \in BOOLEAN : proven = FALSE
  OBVIOUS
<1>5. ~proven
  BY <1>4, Zenon
<1>6. PICK final, disposition, kind, outcome :
        /\ final = CASE o = "accepted" -> "ACCEPTED"
                     [] o = "outcome_unknown" -> "DELIVERY_OUTCOME_UNKNOWN"
                     [] OTHER -> "FAILED_TERMINAL"
        /\ disposition = CASE o = "accepted" -> "accepted"
                           [] o = "outcome_unknown" -> "delivery_outcome_unknown"
                           [] o = "rejected" -> "provider_rejected"
                           [] OTHER -> "sender_unavailable_pre_send"
        /\ kind = ResolutionKind(f) /\ outcome = ProviderOutcome(f)
  OBVIOUS
<1>7. \/ /\ outbox[j].state = "SENDING" /\ kind = "provider"
         /\ <<outcome, final, disposition>> \in
              {<<"accepted", "ACCEPTED", "accepted">>,
               <<"rejected", "FAILED_TERMINAL", "provider_rejected">>,
               <<"outcome_unknown", "DELIVERY_OUTCOME_UNKNOWN", "delivery_outcome_unknown">>}
      \/ /\ outbox[j].state = "LEASED" /\ kind = "pre_send" /\ outcome = "none"
         /\ final = "FAILED_TERMINAL" /\ disposition = "sender_unavailable_pre_send"
  BY <1>1, <1>2, <1>6 DEF ResolutionKind, ProviderOutcome
<1>8. PICK recording \in {"recorded", "not_recorded"} :
        outbox' = [outbox EXCEPT ![j] =
          Terminal(@, final, disposition, kind, outcome, proven, recording)]
  <2>1. PICK recordedAt \in {now, now + 1} :
          outbox' = [outbox EXCEPT ![j] =
            Terminal(@, final, disposition, kind, outcome, proven,
                     IF Recordable(j, recordedAt) THEN "recorded" ELSE "not_recorded")]
    BY <1>1, <1>4, <1>6, Zenon DEF FinalizeSettled
  <2>2. PICK recording \in {"recorded", "not_recorded"} :
          recording = IF Recordable(j, recordedAt) THEN "recorded" ELSE "not_recorded"
    OBVIOUS
  <2> QED
    BY <2>1, <2>2, Zenon
<1>9. /\ outbox'[j] = Terminal(outbox[j], final, disposition, kind, outcome, proven,
                               recording)
      /\ \A k \in Jobs : k # j => outbox'[k] = outbox[k]
  BY <1>2, <1>8
<1>10. Sound(outbox'[j]) /\ AdmitsTerminal(outbox[j], outbox'[j])
  BY <1>2, <1>3, <1>5, <1>7, <1>9, SettledSound
<1>11. Admitted(j, outbox[j], outbox'[j])
  BY <1>10 DEF Admitted, Sound
<1> QED
  BY <1>2, <1>9, <1>10, <1>11, OneRowWritten

\* RowsInv is inductive, and what it says of a row is what its next write needs.
LEMMA NextRows ==
    DeliveryInv /\ OutcomeNamed /\ RowsInv /\ [Next]_vars => RowsInv' /\ WritesAdmitted
<1> SUFFICES ASSUME DeliveryInv, OutcomeNamed, RowsInv, [Next]_vars
             PROVE  RowsInv' /\ WritesAdmitted
  OBVIOUS
<1>1. TypeOK /\ TypeOK' /\ now \in Nat
  BY NextDelivers DEF DeliveryInv, TypeOK
<1>2. ASSUME UNCHANGED outbox, now' \in {now, now + 1}
      PROVE  RowsInv' /\ WritesAdmitted
  BY <1>1, <1>2, NoRowWritten
<1>3. CASE UNCHANGED vars
  BY <1>2, <1>3 DEF vars
<1>4. CASE Environment
  BY <1>2, <1>4
     DEF Environment, Tick, RequestChallenge, SupersedeChallenge, ScrubChallenge,
         ChangeAuthority
<1>5. CASE Scanning
  <2>1. ASSUME \/ \E w \in Workers : ClaimSelect(w) \/ RecoverSelect(w) \/ AbortScan(w)
               \/ \E w \in Workers, j \in Jobs : ClaimSkip(w, j)
        PROVE  RowsInv' /\ WritesAdmitted
    BY <1>2, <2>1 DEF ClaimSelect, RecoverSelect, StartScan, AbortScan, ClaimSkip
  <2> QED
    BY <1>1, <1>5, <2>1, EnqueueAdmitted, PurgedAdmitted, ClaimAdmitted, RecoverAdmitted
       DEF Scanning
<1>6. CASE Sending
  <2>1. ASSUME NEW f \in Fences,
               \/ Abandon(f) \/ SenderUnavailable(f) \/ BeginCall(f) \/ BeginRefused(f)
               \/ Invoke(f) \/ ProviderDecides(f) \/ Settle(f)
               \/ FinalizeDuplicate(f) \/ FinalizeRefused(f)
        PROVE  RowsInv' /\ WritesAdmitted
    BY <1>2, <2>1
       DEF Abandon, SenderUnavailable, BeginCall, BeginRefused, Invoke, ProviderDecides,
           Settle, FinalizeDuplicate, FinalizeRefused
  <2> QED
    BY <1>1, <1>6, <2>1, BeginAdmitted, BeginUnsendableAdmitted, RetryableAdmitted,
       SettledAdmitted DEF Sending
<1> QED
  BY <1>3, <1>4, <1>5, <1>6 DEF Next

\* No row, no session: nothing is unsound.
LEMMA InitRows == Init => OutcomeNamed /\ RowsInv
<1> SUFFICES ASSUME Init
             PROVE  OutcomeNamed /\ RowsInv
  OBVIOUS
<1>1. now = 1 /\ \A j \in Jobs : outbox[j].state = "absent"
  BY DEF Init, NoRow
<1>2. \A f \in Fences : sess[f].pc = "unused"
  BY DEF Init, NoSession
<1> QED
  BY <1>1, <1>2 DEF OutcomeNamed, RowsInv

\* Every stored row passes the checks of its table and has the provenance its
\* next transition needs, for any jobs, workers, durations and interleaving.
THEOREM RowsInvariant == Spec => [](OutcomeNamed /\ RowsInv)
  BY DeliveryInvariant, InitRows, NextNamed, NextRows, PTL DEF Spec

\* No write of an RPC is refused by the checks or the trigger of the table: the
\* protocol, stated three times, is one.
THEOREM WritesAreAdmitted == Spec => TriggerAdmits
<1>1. DeliveryInv /\ OutcomeNamed /\ RowsInv /\ [Next]_vars => [WritesAdmitted]_vars
  BY NextRows
<1>2. Spec => [][WritesAdmitted]_vars
  BY <1>1, DeliveryInvariant, RowsInvariant, PTL DEF Spec
<1> QED
  BY <1>2 DEF TriggerAdmits, WritesAdmitted, Admitted

-----------------------------------------------------------------------------
(* A confirmed answer stays what is stored.                                *)

\* Where the answer of session f is stored, or why its row has moved on.
StoredAt(f) ==
    LET j == sess[f].job
        r == outbox[j]
    IN  \/ Duplicate(f)
        \/ r.state = "absent" /\ Gone(challenge[j])
        \/ /\ r.state # "absent" /\ sess[f].outcome = "not_accepted_retryable"
           /\ \/ r.fence_generation > f
              \/ r.state \in TerminalStates /\ r.resolution.kind = "recovery"

ConfirmedInv == \A f \in Fences : sess[f].pc = "confirmed" => StoredAt(f)

SameSession(f) ==
    /\ sess'[f].pc = sess[f].pc /\ sess'[f].job = sess[f].job
    /\ sess'[f].outcome = sess[f].outcome /\ sess'[f].attempt = sess[f].attempt

\* A session is confirmed by its finalize and then left alone.
LEMMA ConfirmedSteps ==
    ASSUME DeliveryInv, [Next]_vars, NEW f \in Fences, sess'[f].pc = "confirmed"
    PROVE  \/ SameSession(f)
           \/ /\ FinalizeDuplicate(f) \/ FinalizeRetryable(f) \/ FinalizeSettled(f)
              /\ sess' = [sess EXCEPT ![f].pc = "confirmed"]
<1>1. sess \in [Fences -> Session \cup {NoSession}]
  BY DEF DeliveryInv, TypeOK
<1>2. CASE UNCHANGED sess
  BY <1>2 DEF SameSession
<1>3. CASE Environment \/ UNCHANGED vars
  BY <1>2, <1>3
     DEF Environment, Tick, RequestChallenge, SupersedeChallenge, ScrubChallenge,
         ChangeAuthority, vars
<1>4. CASE Scanning
  <2>1. ASSUME NEW w \in Workers, NEW j \in Jobs, ClaimOne(w, j)
        PROVE  SameSession(f)
    <3>1. sess'[f] = sess[f] \/ sess'[f].pc = "claimed"
      BY <1>1, <2>1 DEF ClaimOne
    <3> QED
      BY <3>1 DEF SameSession
  <2> QED
    BY <1>2, <1>4, <2>1
       DEF Scanning, Enqueue, Purge, ClaimSelect, RecoverSelect, StartScan, AbortScan,
           ClaimSkip, RecoverOne, RecoverSending, RecoverLeased, RecoverUnsendable,
           RecoverSkip
<1>5. ASSUME NEW g \in Fences, sess[g].pc # "unused", Finish(g)
      PROVE  SameSession(f)
  <2>1. sess'[f] = sess[f] \/ sess'[f].pc = "done"
    <3>1. sess'[g].pc = "done"
      <4>1. sess[g] \in Session
        BY <1>5, SessionType DEF DeliveryInv
      <4>2. sess'[g] = [sess[g] EXCEPT !.pc = "done", !.deadline = 0, !.attempt = 0,
                                       !.outcome = "none"]
        BY <1>1, <1>5, Zenon DEF Finish
      <4> QED
        BY <4>1, <4>2 DEF Session
    <3>2. \A h \in Fences : h # g => sess'[h] = sess[h]
      <4>1. DOMAIN sess = Fences
        BY DEF DeliveryInv, TypeOK
      <4> QED
        BY <1>5, <4>1, Zenon DEF Finish
    <3> QED
      BY <3>1, <3>2
  <2> QED
    BY <2>1 DEF SameSession
<1>6. ASSUME NEW g \in Fences,
             FinalizeDuplicate(g) \/ FinalizeRetryable(g) \/ FinalizeSettled(g)
      PROVE  \/ SameSession(f)
             \/ /\ FinalizeDuplicate(f) \/ FinalizeRetryable(f) \/ FinalizeSettled(f)
                /\ sess' = [sess EXCEPT ![f].pc = "confirmed"]
  <2>1. sess[g].pc = "final_sent" /\ FinalizeAnswered(g)
    BY <1>6 DEF FinalizeDuplicate, FinalizeRetryable, FinalizeSettled
  <2>2. CASE sess' = [sess EXCEPT ![g].pc = "confirmed"]
    <3>1. f # g => sess'[f] = sess[f]
      BY <1>1, <2>2
    <3> QED
      BY <1>6, <2>2, <3>1 DEF SameSession
  <2> QED
    BY <1>2, <1>5, <2>1, <2>2 DEF FinalizeAnswered
<1>7. ASSUME NEW g \in Fences,
             \/ SenderUnavailable(g) \/ BeginCall(g) \/ Invoke(g) \/ ProviderDecides(g)
             \/ Settle(g) \/ BeginApplied(g)
      PROVE  SameSession(f)
  <2>1. sess[g] \in Session
    BY <1>7, SessionType
       DEF DeliveryInv, SenderUnavailable, BeginCall, BeginApplied, Invoke,
           ProviderDecides, Settle
  <2>2. CASE SenderUnavailable(g) \/ BeginCall(g)
    BY <1>1, <2>1, <2>2 DEF SenderUnavailable, BeginCall, Session, SameSession
  <2>3. CASE Invoke(g) \/ ProviderDecides(g)
    BY <1>1, <2>1, <2>3 DEF Invoke, ProviderDecides, Session, SameSession
  <2>4. CASE Settle(g)
    BY <1>1, <2>1, <2>4 DEF Settle, Session, SameSession
  <2>5. CASE BeginApplied(g)
    <3>1. CASE sess' = [sess EXCEPT ![g].pc = "begun", ![g].attempt = @ + 1]
      <4>1. sess'[f] = sess[f] \/ sess'[f].pc = "begun"
        BY <1>1, <2>1, <3>1 DEF Session
      <4> QED
        BY <4>1 DEF SameSession
    <3>2. CASE Finish(g)
      BY <1>5, <2>5, <3>2 DEF BeginApplied
    <3> QED
      BY <2>5, <3>1, <3>2 DEF BeginApplied
  <2> QED
    BY <1>7, <2>2, <2>3, <2>4, <2>5
<1>8. CASE Sending
  <2>1. ASSUME NEW g \in Fences,
               Abandon(g) \/ BeginUnsendable(g) \/ BeginRefused(g) \/ FinalizeRefused(g)
        PROVE  SameSession(f)
    BY <1>5, <2>1 DEF Abandon, BeginUnsendable, BeginRefused, FinalizeRefused
  <2> QED
    BY <1>6, <1>7, <1>8, <2>1 DEF Sending
<1> QED
  BY <1>3, <1>4, <1>8 DEF Next

\* A challenge once requested keeps its expiry.
LEMMA ExpiryStays ==
    ASSUME DeliveryInv, [Next]_vars, NEW j \in Jobs, challenge[j].requested
    PROVE  challenge'[j].requested /\ challenge'[j].expires_at = challenge[j].expires_at
<1>1. challenge \in [Jobs -> Challenge]
  BY DEF DeliveryInv, TypeOK
<1>2. CASE UNCHANGED challenge
  BY <1>2
<1>3. CASE Environment \/ UNCHANGED vars
  <2>1. ASSUME NEW k \in Jobs,
               RequestChallenge(k) \/ SupersedeChallenge(k) \/ ScrubChallenge(k)
        PROVE  /\ challenge'[j].requested
               /\ challenge'[j].expires_at = challenge[j].expires_at
    BY <1>1, <2>1 DEF RequestChallenge, SupersedeChallenge, ScrubChallenge, Challenge
  <2> QED
    BY <1>2, <1>3, <2>1 DEF Environment, Tick, ChangeAuthority, vars
<1>4. CASE Scanning
  <2>1. ASSUME NEW w \in Workers, NEW k \in Jobs, RecoverSending(w, k)
        PROVE  /\ challenge'[j].requested
               /\ challenge'[j].expires_at = challenge[j].expires_at
    <3>1. PICK t \in {now, now + 1} :
            challenge' = [challenge EXCEPT ![k] =
                IF Recordable(k, t) THEN Recorded(k, FALSE) ELSE @]
      BY <2>1 DEF RecoverSending
    <3> QED
      BY <3>1, VerdictFields
  <2>2. ASSUME NEW k \in Jobs, Enqueue(k) \/ Purge(k)
        PROVE  UNCHANGED challenge
    BY <2>2 DEF Enqueue, Purge
  <2>3. ASSUME NEW w \in Workers, ClaimSelect(w) \/ RecoverSelect(w) \/ AbortScan(w)
        PROVE  UNCHANGED challenge
    BY <2>3 DEF ClaimSelect, RecoverSelect, StartScan, AbortScan
  <2>4. ASSUME NEW w \in Workers, NEW k \in Jobs,
               \/ ClaimOne(w, k) \/ ClaimSkip(w, k) \/ RecoverLeased(w, k)
               \/ RecoverUnsendable(w, k) \/ RecoverSkip(w, k)
        PROVE  UNCHANGED challenge
    BY <2>4 DEF ClaimOne, ClaimSkip, RecoverLeased, RecoverUnsendable, RecoverSkip
  <2> QED
    BY <1>2, <1>4, <2>1, <2>2, <2>3, <2>4 DEF Scanning, RecoverOne
<1>5. CASE Sending
  <2>1. ASSUME NEW g \in Fences, FinalizeSettled(g)
        PROVE  /\ challenge'[j].requested
               /\ challenge'[j].expires_at = challenge[j].expires_at
    <3>1. PICK k \in Jobs : k = sess[g].job
      BY <2>1, SessionType DEF FinalizeSettled, Session, DeliveryInv
    <3>2. PICK t, succeeded :
            challenge' = [challenge EXCEPT ![k] =
                IF Recordable(k, t) THEN Recorded(k, succeeded) ELSE @]
      BY <2>1, <3>1, Zenon DEF FinalizeSettled
    <3> QED
      BY <3>1, <3>2, VerdictFields
  <2> QED
    BY <1>2, <1>5, <2>1
       DEF Sending, Abandon, SenderUnavailable, BeginCall, BeginApplied, BeginUnsendable,
           BeginRefused, Invoke, ProviderDecides, Settle, FinalizeDuplicate,
           FinalizeRefused, FinalizeRetryable
<1> QED
  BY <1>3, <1>4, <1>5 DEF Next

\* A row appears only while its challenge lives.
LEMMA RowsAppearInTime ==
    ASSUME TypeOK, [Next]_vars, NEW j \in Jobs, outbox[j].state = "absent",
           outbox'[j] # outbox[j]
    PROVE  now < challenge[j].expires_at
<1>1. outbox \in [Jobs -> Row] /\ "absent" \notin TerminalStates
  BY DEF TypeOK, TerminalStates
<1>2. outbox' # outbox
  OBVIOUS
<1>3. ~UNCHANGED vars /\ ~Environment
  BY <1>2 DEF Environment, Tick, RequestChallenge, SupersedeChallenge, ScrubChallenge,
              ChangeAuthority, vars
<1>4. CASE Scanning
  <2>1. ASSUME NEW k \in Jobs, Enqueue(k)
        PROVE  now < challenge[j].expires_at
    BY <1>1, <2>1 DEF Enqueue
  <2>2. ASSUME NEW k \in Jobs, Purge(k)
        PROVE  FALSE
    BY <1>1, <2>2 DEF Purge, Purgeable
  <2>3. ASSUME NEW w \in Workers, NEW k \in Jobs, ClaimOne(w, k)
        PROVE  FALSE
    BY <1>1, <2>3 DEF ClaimOne, Claimable
  <2>4. ASSUME NEW w \in Workers, NEW k \in Jobs, RecoverOne(w, k)
        PROVE  FALSE
    BY <1>1, <2>4
       DEF RecoverOne, RecoverSending, RecoverLeased, RecoverUnsendable, RecoverSkip,
           ClaimedNotSent
  <2> QED
    BY <1>2, <1>4, <2>1, <2>2, <2>3, <2>4
       DEF Scanning, ClaimSelect, RecoverSelect, StartScan, AbortScan, ClaimSkip
<1>5. CASE Sending
  <2>1. ASSUME NEW g \in Fences, BeginApplied(g) \/ BeginUnsendable(g)
        PROVE  FALSE
    BY <1>1, <2>1 DEF BeginApplied, BeginUnsendable, HoldsLease
  <2>2. ASSUME NEW g \in Fences, FinalizeRetryable(g) \/ FinalizeSettled(g)
        PROVE  FALSE
    BY <1>1, <2>2
       DEF FinalizeRetryable, FinalizeSettled, FinalizeApplies, HoldsLease, ExpectedState
  <2> QED
    BY <1>2, <1>5, <2>1, <2>2
       DEF Sending, Abandon, SenderUnavailable, BeginCall, BeginRefused, Invoke,
           ProviderDecides, Settle, FinalizeDuplicate, FinalizeRefused
<1> QED
  BY <1>3, <1>4, <1>5 DEF Next

\* What the trigger admits takes no stored answer away.
LEMMA StoredStays ==
    ASSUME TypeOK, DeadlineIsExpiry, TypeOK', now' >= now, NEW f \in Fences, StoredAt(f),
           f < nextFence, SameSession(f), NEW j \in Jobs, j = sess[f].job,
           challenge[j].requested =>
             challenge'[j].requested /\ challenge'[j].expires_at = challenge[j].expires_at,
           outbox'[j] # outbox[j] =>
             /\ Admitted(j, outbox[j], outbox'[j])
             /\ outbox[j].state = "absent" => now < challenge[j].expires_at
    PROVE  StoredAt(f)'
<1>1. /\ now \in Nat /\ now' \in Nat /\ outbox[j] \in Row /\ outbox'[j] \in Row
      /\ challenge[j] \in Challenge /\ challenge'[j] \in Challenge
      /\ f \in Nat /\ nextFence \in Nat
  BY BoundAssumption DEF TypeOK, Fences
<1>2. /\ sess'[f].job = j /\ sess'[f].outcome = sess[f].outcome
      /\ sess'[f].attempt = sess[f].attempt
  BY DEF SameSession
<1>3. challenge[j].expires_at \in Nat /\ (Gone(challenge[j]) => Gone(challenge[j])')
  BY <1>1 DEF Challenge, Gone
<1>4. CASE outbox'[j] = outbox[j]
  <2>1. Duplicate(f) => Duplicate(f)'
    BY <1>2, <1>4 DEF Duplicate, ResolutionKind, ProviderOutcome
  <2> QED
    BY <1>2, <1>3, <1>4, <2>1 DEF StoredAt
<1>5. CASE outbox'[j] # outbox[j]
  <2> DEFINE old == outbox[j]
             new == outbox'[j]
  <2>1. /\ TerminalStates \cap ActiveStates = {}
        /\ "absent" \notin TerminalStates \cup ActiveStates
    BY DEF TerminalStates, ActiveStates
  <2>2. ~AdmitsInsert(j, old, new)
    <3>1. ASSUME old.state = "absent"
          PROVE  FALSE
      <4>1. ~Gone(challenge[j])
        BY <1>1, <1>3, <1>5, <3>1 DEF Gone
      <4> QED
        BY <3>1, <4>1 DEF StoredAt, Duplicate
    <3> QED
      BY <3>1 DEF AdmitsInsert
  <2>3. old.state # "absent"
    BY <1>5, <2>1, <2>2
       DEF Admitted, AdmitsInsert, AdmitsDelete, AdmitsClaim, AdmitsBegin, AdmitsRequeue,
           AdmitsRetry, AdmitsTerminal, NeverSentTerminal, RetryTerminal
  <2>4. CASE AdmitsDelete(j, old, new)
    <3>1. challenge[j].requested /\ challenge[j].expires_at <= now
      BY <2>3, <2>4 DEF DeadlineIsExpiry, AdmitsDelete
    <3>2. Gone(challenge[j])'
      BY <1>3, <3>1 DEF Gone
    <3> QED
      BY <1>2, <2>4, <3>2 DEF StoredAt, AdmitsDelete
  <2>5. ASSUME old.state \in {"PENDING", "LEASED", "SENDING"}, new.state # "absent",
               new.fence_generation = old.fence_generation \/ new.fence_generation = nextFence
        PROVE  StoredAt(f)'
    <3>1. ~Duplicate(f) /\ old.state \notin TerminalStates
      BY <2>5 DEF Duplicate, TerminalStates
    <3>2. sess[f].outcome = "not_accepted_retryable" /\ old.fence_generation > f
      BY <2>3, <3>1 DEF StoredAt
    <3>3. new.fence_generation > f
      BY <1>1, <2>5, <3>2
    <3> QED
      BY <1>2, <2>5, <3>2, <3>3 DEF StoredAt
  <2>6. ASSUME old.state = "RETRY_WAIT", PriorPositive(old)
        PROVE  sess[f].outcome = "not_accepted_retryable"
    BY <2>3, <2>6 DEF StoredAt, Duplicate, PriorPositive, ProviderOutcome, TerminalStates
  <2>7. CASE AdmitsClaim(old, new)
    <3>1. new.fence_generation = nextFence /\ new.state = "LEASED"
      BY <1>1, <2>7 DEF AdmitsClaim, Row
    <3>2. CASE old.state = "PENDING"
      BY <2>5, <3>1, <3>2
    <3>3. CASE old.state = "RETRY_WAIT" /\ PriorPositive(old)
      BY <1>1, <1>2, <2>6, <3>1, <3>3 DEF StoredAt
    <3> QED
      BY <2>7, <3>2, <3>3 DEF AdmitsClaim
  <2>8. CASE AdmitsBegin(old, new)
    <3>1. new.fence_generation = old.fence_generation
      BY <1>1, <2>8 DEF AdmitsBegin, Row
    <3> QED
      BY <2>5, <2>8, <3>1 DEF AdmitsBegin
  <2>9. CASE AdmitsRequeue(old, new)
    <3>1. new.fence_generation = old.fence_generation
      BY <1>1, <2>9 DEF AdmitsRequeue, Row
    <3> QED
      BY <2>5, <2>9, <3>1 DEF AdmitsRequeue
  <2>10. CASE AdmitsRetry(old, new)
    <3>1. new.fence_generation = old.fence_generation
      BY <1>1, <2>10 DEF AdmitsRetry, Row
    <3> QED
      BY <2>5, <2>10, <3>1 DEF AdmitsRetry
  <2>11. CASE AdmitsTerminal(old, new)
    <3>1. /\ new.fence_generation = old.fence_generation /\ new.state \in TerminalStates
          /\ new.state # "absent"
      BY <2>1, <2>11 DEF AdmitsTerminal
    <3>2. \/ old.state \in {"PENDING", "LEASED", "SENDING"}
          \/ /\ old.state = "RETRY_WAIT" /\ PriorPositive(old)
             /\ new.resolution.kind = "recovery"
      BY <2>11 DEF AdmitsTerminal, NeverSentTerminal, RetryTerminal
    <3> QED
      BY <1>2, <2>5, <2>6, <3>1, <3>2 DEF StoredAt
  <2> QED
    BY <1>5, <2>2, <2>4, <2>7, <2>8, <2>9, <2>10, <2>11 DEF Admitted
<1> QED
  BY <1>4, <1>5

\* The answer of session f, in the columns of row r.
Stores(f, r) ==
    /\ r.resolution.kind = ResolutionKind(f)
    /\ r.resolution.provider_outcome = ProviderOutcome(f)
    /\ r.resolution.fence_generation = f
    /\ r.resolution.attempt_count = sess[f].attempt
    /\ \/ r.state \in {"ACCEPTED", "FAILED_TERMINAL", "DELIVERY_OUTCOME_UNKNOWN"}
       \/ r.state = "RETRY_WAIT" /\ r.fence_generation = f

\* finalize stores the answer it gives.
LEMMA AppliedWrites ==
    ASSUME TypeOK, NEW f \in Fences, FinalizeRetryable(f) \/ FinalizeSettled(f)
    PROVE  Stores(f, outbox'[sess[f].job])
<1>1. PICK j \in Jobs : j = sess[f].job
  BY SessionType DEF FinalizeRetryable, FinalizeSettled, Session
<1> SUFFICES Stores(f, outbox'[j])
  BY <1>1
<1>2. /\ outbox \in [Jobs -> Row] /\ outbox[j] \in Row
      /\ outbox[j].lease_id = f /\ outbox[j].fence_generation = f /\ f # 0
      /\ outbox[j].attempt_count = sess[f].attempt
  <2>1. outbox \in [Jobs -> Row] /\ outbox[j] \in Row
    BY <1>1 DEF TypeOK
  <2>2. FinalizeApplies(f)
    BY DEF FinalizeRetryable, FinalizeSettled
  <2>3. f # 0
    BY BoundAssumption DEF Fences
  <2> QED
    BY <1>1, <2>1, <2>2, <2>3 DEF FinalizeApplies, HoldsLease
<1>3. ASSUME NEW final \in {"ACCEPTED", "FAILED_TERMINAL", "DELIVERY_OUTCOME_UNKNOWN"},
             NEW disposition, NEW proven, NEW recording,
             outbox'[j] = Terminal(outbox[j], final, disposition, ResolutionKind(f),
                                   ProviderOutcome(f), proven, recording)
      PROVE  Stores(f, outbox'[j])
  <2>1. PICK kind, outcome : kind = ResolutionKind(f) /\ outcome = ProviderOutcome(f)
    OBVIOUS
  <2>2. outbox'[j] = Terminal(outbox[j], final, disposition, kind, outcome, proven,
                              recording)
    BY <1>3, <2>1
  <2>3. /\ outbox'[j].state = final
        /\ outbox'[j].resolution.kind = kind
        /\ outbox'[j].resolution.provider_outcome = outcome
        /\ outbox'[j].resolution.fence_generation = f
        /\ outbox'[j].resolution.attempt_count = outbox[j].attempt_count
    BY <1>2, <2>2, TerminalColumns, ResolvedColumns
  <2> QED
    BY <1>2, <2>1, <2>3 DEF Stores
<1>4. CASE FinalizeRetryable(f)
  <2>1. sess[f].outcome = "not_accepted_retryable"
        /\ ResolutionKind(f) = "provider" /\ ProviderOutcome(f) = "not_accepted_retryable"
    BY <1>4 DEF FinalizeRetryable, ResolutionKind, ProviderOutcome
  <2>2. PICK proven : proven = TRUE
    OBVIOUS
  <2>3. CASE MayRetry(j)
    <3>1. outbox' = [outbox EXCEPT ![j] = Rescheduled(@, NextAvailable(j))]
      BY <1>1, <1>4, <2>3, Zenon DEF FinalizeRetryable
    <3>2. outbox'[j] = Rescheduled(outbox[j], NextAvailable(j))
      BY <1>2, <3>1
    <3>3. outbox'[j] =
            [outbox[j] EXCEPT !.state = "RETRY_WAIT",
                    !.available_at = NextAvailable(j),
                    !.lease_id = 0, !.leased_at = 0, !.resolved_at = now,
                    !.resolution = Resolved(outbox[j], "provider", "not_accepted_retryable",
                                            proven)]
      BY <2>2, <3>2, Zenon DEF Rescheduled
    <3>4. /\ outbox'[j].state = "RETRY_WAIT" /\ outbox'[j].fence_generation = f
          /\ outbox'[j].resolution =
               Resolved(outbox[j], "provider", "not_accepted_retryable", proven)
      BY <1>2, <3>3 DEF Row
    <3>5. /\ outbox'[j].resolution.kind = "provider"
          /\ outbox'[j].resolution.provider_outcome = "not_accepted_retryable"
          /\ outbox'[j].resolution.fence_generation = f
          /\ outbox'[j].resolution.attempt_count = outbox[j].attempt_count
      BY <1>2, <3>4, ResolvedColumns
    <3> QED
      BY <1>2, <2>1, <3>4, <3>5 DEF Stores
  <2>4. CASE ~MayRetry(j)
    <3>1. outbox' = [outbox EXCEPT ![j] =
            Terminal(@, "FAILED_TERMINAL", GiveUpDisposition(j), "provider",
                     "not_accepted_retryable", proven, "not_applicable")]
      BY <1>1, <1>4, <2>2, <2>4, Zenon DEF FinalizeRetryable
    <3>2. outbox'[j] = Terminal(outbox[j], "FAILED_TERMINAL", GiveUpDisposition(j),
                                ResolutionKind(f), ProviderOutcome(f), proven,
                                "not_applicable")
      BY <1>2, <2>1, <3>1
    <3> QED
      BY <1>3, <3>2
  <2> QED
    BY <2>3, <2>4
<1>5. CASE FinalizeSettled(f)
  <2>1. PICK final, disposition :
        /\ final = CASE sess[f].outcome = "accepted" -> "ACCEPTED"
                     [] sess[f].outcome = "outcome_unknown" -> "DELIVERY_OUTCOME_UNKNOWN"
                     [] OTHER -> "FAILED_TERMINAL"
        /\ disposition = CASE sess[f].outcome = "accepted" -> "accepted"
                           [] sess[f].outcome = "outcome_unknown" -> "delivery_outcome_unknown"
                           [] sess[f].outcome = "rejected" -> "provider_rejected"
                           [] OTHER -> "sender_unavailable_pre_send"
    OBVIOUS
  <2>2. PICK proven : proven = FALSE
    OBVIOUS
  <2>3. PICK recordedAt \in {now, now + 1} :
          outbox' = [outbox EXCEPT ![j] =
            Terminal(@, final, disposition, ResolutionKind(f), ProviderOutcome(f), proven,
                     IF Recordable(j, recordedAt) THEN "recorded" ELSE "not_recorded")]
    BY <1>1, <1>5, <2>1, <2>2, Zenon DEF FinalizeSettled
  <2>4. PICK recording :
          recording = IF Recordable(j, recordedAt) THEN "recorded" ELSE "not_recorded"
    OBVIOUS
  <2>5. outbox' = [outbox EXCEPT ![j] =
          Terminal(@, final, disposition, ResolutionKind(f), ProviderOutcome(f), proven,
                   recording)]
    BY <2>3, <2>4, Zenon
  <2>6. outbox'[j] = Terminal(outbox[j], final, disposition, ResolutionKind(f),
                              ProviderOutcome(f), proven, recording)
    BY <1>2, <2>5
  <2>7. final \in {"ACCEPTED", "FAILED_TERMINAL", "DELIVERY_OUTCOME_UNKNOWN"}
    BY <2>1
  <2> QED
    BY <1>3, <2>6, <2>7
<1> QED
  BY <1>4, <1>5

\* Once confirmed, the session finds its answer stored.
LEMMA AppliedStores ==
    ASSUME TypeOK, NEW f \in Fences, FinalizeRetryable(f) \/ FinalizeSettled(f),
           sess' = [sess EXCEPT ![f].pc = "confirmed"]
    PROVE  Duplicate(f)'
<1>1. sess[f] \in Session /\ DOMAIN sess = Fences
  BY SessionType DEF FinalizeRetryable, FinalizeSettled, TypeOK
<1>2. /\ sess'[f].job = sess[f].job /\ sess'[f].outcome = sess[f].outcome
      /\ sess'[f].attempt = sess[f].attempt
  BY <1>1 DEF Session
<1>3. Stores(f, outbox'[sess[f].job])
  BY AppliedWrites
<1> QED
  BY <1>2, <1>3 DEF Stores, Duplicate, ResolutionKind, ProviderOutcome

\* The clock never goes back.
LEMMA TimeMovesOn ==
    ASSUME now \in Nat, [Next]_vars
    PROVE  now' >= now
<1>1. CASE UNCHANGED now
  BY <1>1
<1>2. CASE Tick
  BY <1>2 DEF Tick
<1>3. CASE Environment \/ UNCHANGED vars
  BY <1>1, <1>2, <1>3
     DEF Environment, RequestChallenge, SupersedeChallenge, ScrubChallenge,
         ChangeAuthority, vars
<1>4. CASE Scanning
  <2>1. ASSUME NEW k \in Jobs, Enqueue(k) \/ Purge(k)
        PROVE  UNCHANGED now
    BY <2>1 DEF Enqueue, Purge
  <2>2. ASSUME NEW w \in Workers, ClaimSelect(w) \/ RecoverSelect(w) \/ AbortScan(w)
        PROVE  UNCHANGED now
    BY <2>2 DEF ClaimSelect, RecoverSelect, StartScan, AbortScan
  <2>3. ASSUME NEW w \in Workers, NEW k \in Jobs,
               ClaimOne(w, k) \/ ClaimSkip(w, k) \/ RecoverOne(w, k)
        PROVE  UNCHANGED now
    BY <2>3
       DEF ClaimOne, ClaimSkip, RecoverOne, RecoverSending, RecoverLeased,
           RecoverUnsendable, RecoverSkip
  <2> QED
    BY <1>1, <1>4, <2>1, <2>2, <2>3 DEF Scanning
<1>5. CASE Sending
  <2>1. UNCHANGED now
    BY <1>5
       DEF Sending, Abandon, SenderUnavailable, BeginCall, BeginApplied, BeginUnsendable,
           BeginRefused, Invoke, ProviderDecides, Settle, FinalizeDuplicate,
           FinalizeRefused, FinalizeRetryable, FinalizeSettled
  <2> QED
    BY <1>1, <2>1
<1> QED
  BY <1>3, <1>4, <1>5 DEF Next

\* ConfirmedInv is inductive, by what the trigger admits.
LEMMA NextConfirmed ==
    /\ DeliveryInv /\ PromiseInv /\ OutcomeNamed /\ RowsInv /\ ConfirmedInv
    /\ [Next]_vars
    => ConfirmedInv'
<1> SUFFICES ASSUME DeliveryInv, PromiseInv, OutcomeNamed, RowsInv, ConfirmedInv,
                    [Next]_vars, NEW f \in Fences, sess'[f].pc = "confirmed"
             PROVE  StoredAt(f)'
  BY DEF ConfirmedInv
<1>1. TypeOK /\ TypeOK' /\ DeadlineIsExpiry /\ WritesAdmitted /\ now \in Nat
  BY NextDelivers, NextRows DEF DeliveryInv, TypeOK
<1>2. now' >= now
  BY <1>1, TimeMovesOn
<1>3. CASE SameSession(f)
  <2>1. sess[f].pc = "confirmed"
    BY <1>3 DEF SameSession
  <2>2. StoredAt(f) /\ f < nextFence
    BY <2>1 DEF ConfirmedInv, PromiseInv
  <2>3. PICK j \in Jobs : j = sess[f].job
    BY <1>1, <2>1, SessionType DEF Session
  <2>4. outbox'[j] # outbox[j] =>
          /\ Admitted(j, outbox[j], outbox'[j])
          /\ outbox[j].state = "absent" => now < challenge[j].expires_at
    BY <1>1, RowsAppearInTime DEF WritesAdmitted
  <2>5. challenge[j].requested =>
          challenge'[j].requested /\ challenge'[j].expires_at = challenge[j].expires_at
    BY ExpiryStays
  <2> QED
    BY <1>1, <1>2, <1>3, <2>2, <2>3, <2>4, <2>5, StoredStays
<1>4. CASE FinalizeDuplicate(f) /\ sess' = [sess EXCEPT ![f].pc = "confirmed"]
  <2>1. /\ Duplicate(f) /\ UNCHANGED outbox /\ sess[f] \in Session
        /\ sess[f].pc # "unused" /\ DOMAIN sess = Fences
    BY <1>1, <1>4, SessionType DEF FinalizeDuplicate, TypeOK
  <2>2. /\ sess'[f].job = sess[f].job /\ sess'[f].outcome = sess[f].outcome
        /\ sess'[f].attempt = sess[f].attempt
    BY <1>4, <2>1 DEF Session
  <2>3. Duplicate(f)'
    BY <2>1, <2>2 DEF Duplicate, ResolutionKind, ProviderOutcome
  <2> QED
    BY <2>3 DEF StoredAt
<1>5. CASE /\ FinalizeRetryable(f) \/ FinalizeSettled(f)
           /\ sess' = [sess EXCEPT ![f].pc = "confirmed"]
  <2>1. Duplicate(f)'
    BY <1>1, <1>5, AppliedStores
  <2> QED
    BY <2>1 DEF StoredAt
<1> QED
  BY <1>3, <1>4, <1>5, ConfirmedSteps

\* An answer "applied" reports what is stored until the purge; only a row
\* scheduled for another attempt moves on, by a claim or by recovery.
THEOREM ConfirmedStaysStored == Spec => []ConfirmedIsStored
<1>1. Init => ConfirmedInv
  BY DEF Init, NoSession, ConfirmedInv
<1>2. ConfirmedInv => ConfirmedIsStored
  BY DEF ConfirmedInv, StoredAt, ConfirmedIsStored
<1> QED
  BY <1>1, <1>2, NextConfirmed, DeliveryInvariant, PromiseInvariant, RowsInvariant, PTL
     DEF Spec

-----------------------------------------------------------------------------
(* The repository admits the receipts.                                     *)

\* A closed row that passes the table's checks makes a good receipt.
LEMMA ClosedReceipt ==
    ASSUME NEW r, RowConstraints(r), r.state \in TerminalStates
    PROVE  TerminalReceipt(r)
<1>1. r.state \notin ActiveStates /\ r.state \notin {"PENDING", "LEASED", "SENDING"}
  BY DEF TerminalStates, ActiveStates
<1>2. r.available_at = 0
  BY <1>1 DEF RowConstraints, LeaseAndScheduleCheck
<1>3. r.terminal_at = r.resolved_at
  BY <1>1 DEF RowConstraints, TerminalCheck, ResolutionCheck
<1> QED
  BY <1>1, <1>2, <1>3 DEF RowConstraints, TerminalCheck, TerminalReceipt

\* So does a row that stores the answer of the session that asks.
LEMMA StoredReceipt ==
    ASSUME NEW f \in Fences, NEW r, RowConstraints(r), Stores(f, r),
           r.available_at \in Nat, r.resolved_at \in Nat,
           sess[f].outcome \in {"sender_unavailable"} \cup ProviderOutcomes
    PROVE  FinalizeReceipt(f, r)
<1> DEFINE o == sess[f].outcome
<1>1. /\ r.resolution.kind = ResolutionKind(f) /\ r.resolution.kind # "none"
      /\ r.resolution.provider_outcome = ProviderOutcome(f)
      /\ r.attempt_count = sess[f].attempt
      /\ r.state \notin {"PENDING", "LEASED", "SENDING"}
  BY DEF Stores, ResolutionKind, RowConstraints, ResolutionCheck
<1>2. \/ r.state = "RETRY_WAIT"
      \/ r.state \in TerminalStates /\ TerminalReceipt(r)
  BY ClosedReceipt DEF Stores, TerminalStates
<1>3. ASSUME r.state = "RETRY_WAIT"
      PROVE  /\ r.attempt_count \in 1..2 /\ r.terminal_disposition = "none"
             /\ r.terminal_at = 0
             /\ r.available_at = r.resolved_at + RetryDelay(r.attempt_count)
  BY <1>3 DEF RowConstraints, CounterCheck, TerminalCheck, LeaseAndScheduleCheck,
              ActiveStates
<1>4. CASE o = "sender_unavailable"
  <2>1. /\ r.terminal_disposition = "sender_unavailable_pre_send"
        /\ r.challenge_recording \in {"recorded", "not_recorded"}
    BY <1>1, <1>4 DEF ResolutionKind, RowConstraints, ResolutionCheck
  <2>2. r.state # "RETRY_WAIT"
    BY <1>3, <2>1
  <2>3. r.attempt_count \in 0..2
    BY <2>1 DEF RowConstraints, TerminalCheck
  <2> QED
    BY <1>1, <1>2, <1>4, <2>1, <2>2, <2>3 DEF FinalizeReceipt, FinalizeArguments
<1>5. CASE o # "sender_unavailable"
  <2>1. /\ r.resolution.kind = "provider" /\ r.resolution.provider_outcome = o
        /\ ProviderResolutionCheck(r)
    BY <1>1, <1>5
       DEF ResolutionKind, ProviderOutcome, RowConstraints, ResolutionCheck
  <2>2. CASE o = "not_accepted_retryable"
    <3>1. r.challenge_recording = "not_applicable"
      BY <2>1, <2>2 DEF ProviderResolutionCheck
    <3>2. CASE r.state = "RETRY_WAIT"
      <4>1. r.available_at - r.resolved_at = RetryDelay(r.attempt_count)
        BY <1>3, <3>2, TimingAssumption DEF RetryDelay
      <4> QED
        BY <1>1, <1>3, <2>2, <3>1, <3>2, <4>1 DEF FinalizeReceipt, FinalizeArguments
    <3>3. CASE r.state # "RETRY_WAIT"
      <4>1. r.terminal_disposition \in RetryDispositions
        BY <1>1, <2>1, <2>2, <3>3 DEF ProviderResolutionCheck
      <4>2. r.attempt_count \in 1..3
        BY <1>2, <3>3, <4>1 DEF TerminalReceipt, RetryDispositions
      <4> QED
        BY <1>1, <1>2, <2>2, <3>1, <3>3, <4>1, <4>2 DEF FinalizeReceipt, FinalizeArguments
    <3> QED
      BY <3>2, <3>3
  <2>3. CASE o \in {"accepted", "rejected", "outcome_unknown"}
    <3>1. /\ r.challenge_recording \in {"recorded", "not_recorded"}
          /\ o = "accepted" => r.state = "ACCEPTED"
          /\ o = "rejected" => r.terminal_disposition = "provider_rejected"
          /\ o = "outcome_unknown" => r.state = "DELIVERY_OUTCOME_UNKNOWN"
      BY <2>1, <2>3 DEF ProviderResolutionCheck
    <3>2. r.state # "RETRY_WAIT"
      BY <1>3, <2>3, <3>1
    <3>3. r.attempt_count \in 1..3
      BY <1>2, <2>3, <3>1, <3>2 DEF RowConstraints, TerminalCheck, TerminalStates, ActiveStates
    <3> QED
      BY <1>1, <1>2, <2>3, <3>1, <3>2, <3>3 DEF FinalizeReceipt, FinalizeArguments
  <2> QED
    BY <1>5, <2>2, <2>3 DEF ProviderOutcomes
<1> QED
  BY <1>4, <1>5

\* What recovery closes.
LEMMA RecoveredReceipt ==
    ASSUME NEW old, NEW new, RowConstraints(old), RowConstraints(new),
           AdmitsTerminal(old, new), new.resolution.kind = "recovery", new.terminal_at = now
    PROVE  RecoverReceipt(old, new)
<1>1. /\ new.state \in TerminalStates /\ new.attempt_count = old.attempt_count
      /\ new.state \notin {"PENDING", "RETRY_WAIT", "LEASED", "SENDING"}
  BY DEF AdmitsTerminal, TerminalStates
<1>2. TerminalReceipt(new)
  BY <1>1, ClosedReceipt
<1>3. \/ NeverSentTerminal(old, new) \/ RetryTerminal(old, new)
      \/ old.state = "SENDING" /\ new.state = "DELIVERY_OUTCOME_UNKNOWN"
  BY DEF AdmitsTerminal
<1>4. CASE NeverSentTerminal(old, new)
  <2>1. new.challenge_recording = "not_applicable" /\ old.state # "SENDING"
    BY <1>4 DEF NeverSentTerminal, RowConstraints, ResolutionCheck, TerminalCheck,
                ActiveStates
  <2> QED
    BY <1>1, <1>2, <1>4, <2>1 DEF NeverSentTerminal, RecoverReceipt, RecoveryFamily
<1>5. CASE RetryTerminal(old, new)
  <2>1. new.challenge_recording = "not_applicable" /\ old.state # "SENDING"
    BY <1>5 DEF RetryTerminal, RowConstraints, ResolutionCheck
  <2> QED
    BY <1>1, <1>2, <1>5, <2>1 DEF RetryTerminal, PriorPositive, RecoverReceipt, RecoveryFamily
<1>6. CASE old.state = "SENDING" /\ new.state = "DELIVERY_OUTCOME_UNKNOWN"
  <2>1. /\ old.attempt_count \in 1..3
        /\ new.terminal_disposition = "delivery_outcome_unknown"
    BY <1>1, <1>6 DEF RowConstraints, CounterCheck, TerminalCheck, ActiveStates
  <2>2. new.challenge_recording \in {"recorded", "not_recorded"}
    BY <1>6, <2>1 DEF RowConstraints, ResolutionCheck
  <2> QED
    BY <1>1, <1>2, <1>6, <2>1, <2>2 DEF RecoverReceipt, RecoveryFamily
<1> QED
  BY <1>3, <1>4, <1>5, <1>6

\* What begin_send refuses to send.
LEMMA UnusableReceipt ==
    ASSUME NEW f \in Fences, NEW j \in Jobs, TypeOK, outbox[j].state = "LEASED",
           RowConstraints(outbox[j]), NEW usable \in BOOLEAN,
           ~usable \/ ~WindowOpen(outbox[j]), NEW t,
           t = Unsendable(outbox[j], "unusable", usable)
    PROVE  BeginReceipt(f, t)
<1> DEFINE r == outbox[j]
<1>1. /\ r \in Row /\ r.attempt_count \in 0..2 /\ now \in Nat
  BY DEF TypeOK, RowConstraints, CounterCheck
<1>2. PICK proven : proven = (r.attempt_count > 0)
  OBVIOUS
<1>3. PICK final, disposition :
        /\ t = Terminal(r, final, disposition, "unusable", "none", proven, "not_applicable")
        /\ \/ /\ r.attempt_count = 0 /\ WindowOpen(r)
              /\ final = "CANCELLED" /\ disposition = "cancelled_pre_send"
           \/ /\ r.attempt_count = 0 /\ ~WindowOpen(r)
              /\ final = "EXPIRED" /\ disposition = "expired_pre_send"
           \/ /\ r.attempt_count \in 1..2 /\ final = "FAILED_TERMINAL"
              /\ \/ disposition = "retry_unusable"
                 \/ disposition = "retry_deadline_exhausted" /\ ~WindowOpen(r)
  BY <1>1, <1>2 DEF Unsendable
<1>4. /\ t.state = final /\ t.terminal_disposition = disposition
      /\ t.terminal_at = now /\ t.lease_id = 0
      /\ t.attempt_count = r.attempt_count
      /\ t.delivery_deadline_at = r.delivery_deadline_at
  BY <1>1, <1>3, TerminalColumns
<1>5. WindowOpen(t) <=> WindowOpen(r)
  BY <1>4 DEF WindowOpen
<1>6. BeginTerminal(t)
  BY <1>3, <1>4, <1>5 DEF BeginTerminal
<1> QED
  BY <1>4, <1>6 DEF BeginReceipt

\* The receipts of a step that changes rows, and of a repeated finalize.
Receipts ==
    /\ outbox' # outbox =>
         /\ \A w \in Workers, j \in Jobs :
              /\ ClaimOne(w, j) => ClaimReceipt(outbox'[j])
              /\ RecoverOne(w, j) => RecoverReceipt(outbox[j], outbox'[j])
         /\ \A f \in Fences :
              /\ BeginApplied(f) \/ BeginUnsendable(f) =>
                   BeginReceipt(f, outbox'[sess[f].job])
              /\ FinalizeRetryable(f) \/ FinalizeSettled(f) =>
                   FinalizeReceipt(f, outbox'[sess[f].job])
    /\ \A f \in Fences :
         FinalizeDuplicate(f) => FinalizeReceipt(f, outbox[sess[f].job])

\* A written row passes the checks of its table.
LEMMA WrittenRow ==
    ASSUME TypeOK, TypeOK', WritesAdmitted, NEW j \in Jobs,
           outbox'[j].state # outbox[j].state, outbox'[j].state # "absent"
    PROVE  /\ RowConstraints(outbox'[j]) /\ outbox'[j] \in Row
           /\ Admitted(j, outbox[j], outbox'[j])
  BY DEF WritesAdmitted, Admitted, TypeOK

\* The receipt of a claim.
LEMMA ClaimReceived ==
    ASSUME TypeOK, TypeOK', WritesAdmitted,
           NEW w \in Workers, NEW j \in Jobs, ClaimOne(w, j)
    PROVE  ClaimReceipt(outbox'[j])
<1>1. /\ outbox[j] \in Row /\ outbox \in [Jobs -> Row]
      /\ outbox[j].state \in {"PENDING", "RETRY_WAIT"}
      /\ outbox[j].available_at <= now /\ WindowOpen(outbox[j])
  BY DEF TypeOK, ClaimOne, Claimable
<1>2. outbox'[j] = [outbox[j] EXCEPT !.state = "LEASED", !.lease_id = nextFence,
                                     !.leased_at = now, !.fence_generation = nextFence]
  BY <1>1 DEF ClaimOne
<1>3. /\ outbox'[j].state = "LEASED" /\ outbox'[j].leased_at = now
      /\ outbox'[j].available_at = outbox[j].available_at
      /\ outbox'[j].delivery_deadline_at = outbox[j].delivery_deadline_at
  BY <1>1, <1>2 DEF Row
<1>4. outbox'[j].attempt_count \in 0..2
  BY <1>1, <1>3, WrittenRow DEF RowConstraints, CounterCheck
<1> QED
  BY <1>1, <1>3, <1>4 DEF ClaimReceipt, WindowOpen

\* The receipt of begin_send.
LEMMA BeginReceived ==
    ASSUME TypeOK, TypeOK', WritesAdmitted, RowsInv, NEW f \in Fences,
           BeginApplied(f) \/ BeginUnsendable(f)
    PROVE  BeginReceipt(f, outbox'[sess[f].job])
<1>1. PICK j \in Jobs : j = sess[f].job
  BY SessionType DEF BeginApplied, BeginUnsendable, Session
<1> SUFFICES BeginReceipt(f, outbox'[j])
  BY <1>1
<1>2. /\ outbox[j] \in Row /\ outbox \in [Jobs -> Row]
      /\ outbox[j].state = "LEASED" /\ outbox[j].lease_id = f
  BY <1>1 DEF TypeOK, BeginApplied, BeginUnsendable, HoldsLease
<1>3. RowConstraints(outbox[j])
  BY <1>2 DEF RowsInv, Sound
<1>4. CASE BeginApplied(f)
  <2>1. /\ WindowOpen(outbox[j]) /\ now + SendWindow < LeaseExpires(outbox[j])
        /\ outbox'[j] = [outbox[j] EXCEPT !.state = "SENDING", !.attempt_count = @ + 1,
                                          !.last_attempt_started_at = now]
    BY <1>1, <1>2, <1>4 DEF BeginApplied, Sendable
  <2>2. /\ outbox'[j].state = "SENDING" /\ outbox'[j].lease_id = f
        /\ outbox'[j].last_attempt_started_at = now
        /\ outbox'[j].attempt_count = outbox[j].attempt_count + 1
        /\ outbox'[j].leased_at = outbox[j].leased_at
        /\ outbox'[j].terminal_at = outbox[j].terminal_at
        /\ outbox'[j].delivery_deadline_at = outbox[j].delivery_deadline_at
    BY <1>2, <2>1 DEF Row
  <2>3. outbox[j].attempt_count \in Nat /\ outbox[j].terminal_at = 0
    BY <1>2, <1>3 DEF Row, RowConstraints, TerminalCheck, ActiveStates
  <2> QED
    BY <2>1, <2>2, <2>3 DEF BeginReceipt, WindowOpen, LeaseExpires
<1>5. CASE BeginUnsendable(f)
  <2>1. PICK usable \in BOOLEAN : usable = Usable(j, Jobs)
    BY UsableBoolean
  <2>2. /\ outbox'[j] = Unsendable(outbox[j], "unusable", usable)
        /\ ~usable \/ ~WindowOpen(outbox[j])
    BY <1>1, <1>2, <1>5, <2>1 DEF BeginUnsendable
  <2> QED
    BY <1>2, <1>3, <2>2, UnusableReceipt
<1> QED
  BY <1>4, <1>5

\* The receipt of a recovery.
LEMMA RecoverReceived ==
    ASSUME TypeOK, TypeOK', WritesAdmitted, RowsInv,
           NEW w \in Workers, NEW j \in Jobs, RecoverOne(w, j), outbox' # outbox
    PROVE  RecoverReceipt(outbox[j], outbox'[j])
<1>1. /\ outbox[j] \in Row /\ outbox \in [Jobs -> Row] /\ now \in Nat
      /\ outbox[j].state # "absent" => Sound(outbox[j])
      /\ TerminalStates \cap {"PENDING", "LEASED", "RETRY_WAIT", "SENDING"} = {}
      /\ "absent" \notin TerminalStates
  BY DEF TypeOK, RowsInv, TerminalStates
<1>2. ASSUME NEW final \in TerminalStates, NEW disposition, NEW outcome, NEW proven,
             NEW recording,
             outbox[j].state \in {"PENDING", "LEASED", "RETRY_WAIT", "SENDING"},
             outbox'[j] = Terminal(outbox[j], final, disposition, "recovery", outcome,
                                   proven, recording)
      PROVE  RecoverReceipt(outbox[j], outbox'[j])
  <2>1. /\ outbox'[j].state = final /\ outbox'[j].terminal_at = now
        /\ outbox'[j].resolution.kind = "recovery"
    BY <1>1, <1>2, TerminalColumns, ResolvedColumns
  <2>2. RowConstraints(outbox'[j]) /\ Admitted(j, outbox[j], outbox'[j])
    BY <1>1, <1>2, <2>1, WrittenRow
  <2>3. AdmitsTerminal(outbox[j], outbox'[j])
    BY <1>1, <1>2, <2>1, <2>2
       DEF Admitted, AdmitsInsert, AdmitsDelete, AdmitsClaim, AdmitsBegin, AdmitsRequeue,
           AdmitsRetry
  <2> QED
    BY <1>1, <1>2, <2>1, <2>2, <2>3, RecoveredReceipt DEF Sound
<1>3. CASE RecoverSending(w, j)
  <2>1. PICK t \in {now, now + 1} :
          outbox' = [outbox EXCEPT ![j] =
            Terminal(@, "DELIVERY_OUTCOME_UNKNOWN", "delivery_outcome_unknown", "recovery",
                     "none", FALSE,
                     IF Recordable(j, t) THEN "recorded" ELSE "not_recorded")]
    BY <1>3, Zenon DEF RecoverSending
  <2>2. PICK proven, recording :
          /\ proven = FALSE
          /\ recording = IF Recordable(j, t) THEN "recorded" ELSE "not_recorded"
    OBVIOUS
  <2>3. outbox' = [outbox EXCEPT ![j] =
            Terminal(@, "DELIVERY_OUTCOME_UNKNOWN", "delivery_outcome_unknown", "recovery",
                     "none", proven, recording)]
    BY <2>1, <2>2, Zenon
  <2>4. outbox'[j] = Terminal(outbox[j], "DELIVERY_OUTCOME_UNKNOWN",
                              "delivery_outcome_unknown", "recovery", "none", proven,
                              recording)
    BY <1>1, <2>3
  <2>5. outbox[j].state = "SENDING" /\ "DELIVERY_OUTCOME_UNKNOWN" \in TerminalStates
    BY <1>3 DEF RecoverSending, TerminalStates
  <2> QED
    BY <1>2, <2>4, <2>5
<1>4. CASE RecoverLeased(w, j)
  <2>1. /\ outbox[j].state = "LEASED" /\ outbox'[j] = Requeued(outbox[j])
    BY <1>1, <1>4 DEF RecoverLeased, ClaimedNotSent
  <2>2. PICK final : final = RequeuedState(outbox[j])
    OBVIOUS
  <2>3. /\ outbox'[j].state = final
        /\ outbox'[j].attempt_count = outbox[j].attempt_count
        /\ outbox'[j].terminal_at = outbox[j].terminal_at
        /\ outbox'[j].terminal_disposition = outbox[j].terminal_disposition
        /\ outbox'[j].challenge_recording = outbox[j].challenge_recording
        /\ outbox'[j].available_at = outbox[j].available_at
    BY <1>1, <2>1, <2>2 DEF Requeued, Row
  <2>4. /\ outbox[j].terminal_at = 0 /\ outbox[j].terminal_disposition = "none"
        /\ outbox[j].attempt_count \in 0..2 /\ outbox[j].available_at <= now
        /\ outbox[j].attempt_count # 0 => PriorPositive(outbox[j])
        /\ outbox[j].attempt_count = 0 => outbox[j].resolution.kind = "none"
    BY <1>1, <2>1
       DEF Sound, RowConstraints, TerminalCheck, ActiveStates, CounterCheck, Provenance
  <2>5. outbox[j].challenge_recording = "not_applicable"
    BY <1>1, <2>1, <2>4 DEF PriorPositive, Sound, RowConstraints, ResolutionCheck
  <2>6. final = IF outbox[j].attempt_count = 0 THEN "PENDING" ELSE "RETRY_WAIT"
    BY <2>2 DEF RequeuedState
  <2>7. RecoveryFamily(outbox[j], outbox'[j])
    BY <2>1, <2>3, <2>4, <2>6 DEF RecoveryFamily
  <2> QED
    BY <2>1, <2>3, <2>4, <2>5, <2>6, <2>7 DEF RecoverReceipt
<1>5. CASE RecoverUnsendable(w, j)
  <2>1. /\ outbox[j].state \in {"PENDING", "LEASED", "RETRY_WAIT"}
        /\ outbox'[j] = Unsendable(outbox[j], "recovery", Usable(j, scan[w].located))
    BY <1>1, <1>5 DEF RecoverUnsendable
  <2>2. PICK proven : proven = (outbox[j].attempt_count > 0)
    OBVIOUS
  <2>3. PICK final \in TerminalStates, disposition \in Dispositions :
          outbox'[j] = Terminal(outbox[j], final, disposition, "recovery", "none", proven,
                                "not_applicable")
    BY <2>1, <2>2 DEF Unsendable, TerminalStates, Dispositions
  <2> QED
    BY <1>2, <2>1, <2>3
<1>6. CASE RecoverSkip(w, j)
  BY <1>6 DEF RecoverSkip
<1> QED
  BY <1>3, <1>4, <1>5, <1>6 DEF RecoverOne

\* The receipt of a finalize that applies.
LEMMA FinalizeReceived ==
    ASSUME TypeOK, TypeOK', WritesAdmitted, OutcomeNamed, NEW f \in Fences,
           FinalizeRetryable(f) \/ FinalizeSettled(f)
    PROVE  FinalizeReceipt(f, outbox'[sess[f].job])
<1>1. PICK j \in Jobs : j = sess[f].job
  BY SessionType DEF FinalizeRetryable, FinalizeSettled, Session
<1> SUFFICES FinalizeReceipt(f, outbox'[j])
  BY <1>1
<1>2. Stores(f, outbox'[j])
  BY <1>1, AppliedWrites
<1>3. outbox[j].state \in {"LEASED", "SENDING"}
  BY <1>1 DEF FinalizeRetryable, FinalizeSettled, FinalizeApplies, HoldsLease, ExpectedState
<1>4. RowConstraints(outbox'[j]) /\ outbox'[j] \in Row
  BY <1>2, <1>3, WrittenRow DEF Stores
<1>5. sess[f].outcome \in {"sender_unavailable"} \cup ProviderOutcomes
  BY SessionType DEF FinalizeRetryable, FinalizeSettled, Session, OutcomeNamed
<1> QED
  BY <1>2, <1>4, <1>5, StoredReceipt DEF Row

\* The receipt of a finalize that was applied before.
LEMMA DuplicateReceived ==
    ASSUME TypeOK, RowsInv, OutcomeNamed, NEW f \in Fences, FinalizeDuplicate(f)
    PROVE  FinalizeReceipt(f, outbox[sess[f].job])
<1>1. PICK j \in Jobs : j = sess[f].job
  BY SessionType DEF FinalizeDuplicate, Session
<1> SUFFICES FinalizeReceipt(f, outbox[j])
  BY <1>1
<1>2. Stores(f, outbox[j])
  BY <1>1 DEF FinalizeDuplicate, Duplicate, Stores
<1>3. RowConstraints(outbox[j]) /\ outbox[j] \in Row
  BY <1>2 DEF Stores, RowsInv, Sound, TypeOK
<1>4. sess[f].outcome \in {"sender_unavailable"} \cup ProviderOutcomes
  BY SessionType DEF FinalizeDuplicate, Session, OutcomeNamed
<1> QED
  BY <1>2, <1>3, <1>4, StoredReceipt DEF Row

\* Every receipt the database gives for a write, or for a finalize it has seen
\* before, is one the repository takes: no applied call passes for a failed one.
THEOREM ReceiptsAreAdmitted == Spec => ReceiptsAdmitted
<1>1. DeliveryInv /\ OutcomeNamed /\ RowsInv /\ [Next]_vars => [Receipts]_vars
  <2> SUFFICES ASSUME DeliveryInv, OutcomeNamed, RowsInv, [Next]_vars
               PROVE  Receipts
    OBVIOUS
  <2>1. TypeOK /\ TypeOK' /\ WritesAdmitted
    BY NextDelivers, NextRows DEF DeliveryInv
  <2> QED
    BY <2>1, ClaimReceived, RecoverReceived, BeginReceived, FinalizeReceived,
       DuplicateReceived DEF Receipts
<1>2. Spec => [][Receipts]_vars
  BY <1>1, DeliveryInvariant, RowsInvariant, PTL DEF Spec
<1> QED
  BY <1>2 DEF ReceiptsAdmitted, Receipts

-----------------------------------------------------------------------------
(* The runtime of the worker.                                              *)

Counters == [flow : BOOLEAN, repository : Int, provider : Int]

-----------------------------------------------------------------------------
(* Stopping inside a callback keeps what the callback left behind.         *)

\* Aborting the provider calls moves their sessions and nothing else.
LEMMA AbortedJobs ==
    ASSUME NEW jobs \in [BatchJobs -> JobStates]
    PROVE  /\ Aborted(jobs) \in [BatchJobs -> JobStates]
           /\ \A j \in BatchJobs : \/ Aborted(jobs)[j] = jobs[j]
                                   \/ jobs[j] = "sending" /\ Aborted(jobs)[j] = "result"
  BY DEF Aborted, JobStates

\* The slots of aborted calls are counted, and the flow flag is left alone.
LEMMA AbortedCounters ==
    ASSUME NEW jobs, NEW a \in Counters
    PROVE  /\ ProviderAborted(a, jobs) \in Counters
           /\ ProviderAborted(a, jobs).flow = a.flow
<1>1. InFlight(jobs) \subseteq BatchJobs
  BY DEF InFlight
<1>2. Cardinality(InFlight(jobs)) \in Nat
  BY <1>1, RuntimeAssumption, FS_Subset, FS_CardinalityType
<1> QED
  BY <1>2 DEF ProviderAborted, Counters

\* The effect of a callback on the sessions, the flow and the exit.
LEMMA SettlesEffect ==
    ASSUME NEW jobs \in [BatchJobs -> JobStates], NEW a \in Counters, NEW reasons,
           Settles(jobs, a, reasons), FlowCovers,
           a.flow => active.flow
    PROVE  /\ job' \in [BatchJobs -> JobStates] /\ active' \in Counters
           /\ active'.flow = a.flow
           /\ \A j \in BatchJobs : \/ job'[j] = jobs[j]
                                   \/ jobs[j] = "sending" /\ job'[j] = "result"
           /\ state' = "idle" => state = "idle" /\ job' = jobs
           /\ state' \in {"idle", "running", "stopping", "stopped"}
           /\ exit' \in {"none", "drained", "expired"}
           /\ state' = "stopped" <=> exit' # "none"
           /\ exit' = "drained" => ~active'.flow
           /\ exit = "expired" => exit' = "expired"
<1> DEFINE stops == reasons # {} /\ state \in {"idle", "running"}
           after == IF stops THEN ProviderAborted(a, jobs) ELSE a
           draining == stops \/ state = "stopping"
<1>1. /\ job' = IF stops THEN Aborted(jobs) ELSE jobs
      /\ active' = after
      /\ state' = IF ~draining THEN state
                  ELSE IF Quiet(after) THEN "stopped" ELSE "stopping"
      /\ exit' = IF draining /\ Quiet(after) THEN "drained" ELSE exit
  BY DEF Settles
<1>2. after \in Counters /\ after.flow = a.flow
  BY AbortedCounters
<1>3. /\ job' \in [BatchJobs -> JobStates]
      /\ \A j \in BatchJobs : \/ job'[j] = jobs[j]
                              \/ jobs[j] = "sending" /\ job'[j] = "result"
  BY <1>1, AbortedJobs
<1>4. /\ state \in {"idle", "running", "stopping", "stopped"}
      /\ exit \in {"none", "drained", "expired"}
      /\ state = "stopped" <=> exit # "none"
      /\ exit = "drained" => ~active.flow
  BY DEF FlowCovers
<1> HIDE DEF after
<1>5. Quiet(after) => ~after.flow
  BY DEF Quiet
<1> QED
  BY <1>1, <1>2, <1>3, <1>4, <1>5

\* A callback that ends in Settles keeps FlowCovers if what it leaves does.
LEMMA CallbackKeeps ==
    ASSUME NEW jobs \in [BatchJobs -> JobStates], NEW a \in Counters, NEW reasons,
           Settles(jobs, a, reasons), FlowCovers,
           a.flow => active.flow,
           a.flow <=> loop' \notin {"off", "ended"},
           loop' # "batch" => \A j \in BatchJobs : jobs[j] \in JobOver,
           state = "idle" => loop' = "off" /\ \A j \in BatchJobs : jobs[j] = "none",
           (\E j \in BatchJobs : jobs[j] = "lost") => exit = "expired"
    PROVE  FlowCovers'
<1>1. /\ job' \in [BatchJobs -> JobStates] /\ active' \in Counters
      /\ active'.flow = a.flow
      /\ \A j \in BatchJobs : \/ job'[j] = jobs[j]
                              \/ jobs[j] = "sending" /\ job'[j] = "result"
      /\ state' = "idle" => state = "idle" /\ job' = jobs
      /\ state' \in {"idle", "running", "stopping", "stopped"}
      /\ exit' \in {"none", "drained", "expired"}
      /\ state' = "stopped" <=> exit' # "none"
      /\ exit' = "drained" => ~active'.flow
      /\ exit = "expired" => exit' = "expired"
  BY SettlesEffect
<1>2. loop' # "batch" => \A j \in BatchJobs : job'[j] \in JobOver
  BY <1>1 DEF JobOver
<1>3. OutcomesAreFinalized'
  BY <1>1 DEF OutcomesAreFinalized
<1> QED
  BY <1>1, <1>2, <1>3 DEF FlowCovers, Counters

\* A step of the loop alone, within the flow.
LEMMA LoopStepKeeps ==
    ASSUME FlowCovers, UNCHANGED <<state, exit, active>>,
           loop \notin {"off", "ended"}, loop' \notin {"off", "ended", "batch"},
           \A j \in BatchJobs : job[j] \in JobOver,
           \/ job' = job
           \/ job' = [j \in BatchJobs |-> "none"]
    PROVE  FlowCovers'
<1>1. \A j \in BatchJobs : job'[j] \in JobOver
  BY DEF JobOver
<1>2. job' \in [BatchJobs -> JobStates]
  BY DEF FlowCovers, JobStates
<1>3. OutcomesAreFinalized'
  BY DEF FlowCovers, OutcomesAreFinalized
<1> QED
  BY <1>1, <1>2, <1>3 DEF FlowCovers

-----------------------------------------------------------------------------
(* FlowCovers is inductive.                                                *)

\* The counters a call or its return leaves behind.
LEMMA CallCounters ==
    ASSUME active \in Counters
    PROVE  /\ Called \in Counters /\ Called.flow = active.flow
           /\ Returned \in Counters /\ Returned.flow = active.flow
  BY DEF Called, Returned, Counters

\* Signals, faults, timers and the start keep FlowCovers.
LEMMA LifecycleKeeps ==
    ASSUME FlowCovers, Lifecycle
    PROVE  FlowCovers'
<1>1. job \in [BatchJobs -> JobStates] /\ active \in Counters
  BY DEF FlowCovers, Counters
<1>2. CASE Signal \/ Fault \/ Stall
  <2>1. PICK reasons : Settles(job, active, reasons) /\ loop' = loop
    BY <1>2 DEF Signal, Fault, Stall
  <2> QED
    BY <1>1, <2>1, CallbackKeeps DEF FlowCovers, OutcomesAreFinalized
<1>3. CASE DrainExpires
  BY <1>3 DEF DrainExpires, FlowCovers, OutcomesAreFinalized
<1>4. CASE Start
  <2>1. active' \in Counters /\ active'.flow = TRUE
    BY <1>1, <1>4 DEF Start, Counters
  <2> QED
    BY <1>4, <2>1 DEF Start, FlowCovers, OutcomesAreFinalized, Counters, JobOver
<1> QED
  BY <1>2, <1>3, <1>4 DEF Lifecycle

\* Every step of the serial loop keeps FlowCovers.
LEMMA LoopingKeeps ==
    ASSUME FlowCovers, Looping
    PROVE  FlowCovers'
<1>1. job \in [BatchJobs -> JobStates] /\ active \in Counters
  BY DEF FlowCovers, Counters
<1>2. ASSUME NEW reasons, End(reasons), loop \notin {"off", "ended", "batch"}
      PROVE  FlowCovers'
  <2> DEFINE a == [active EXCEPT !.flow = FALSE]
  <2>1. a \in Counters /\ a.flow = FALSE
    BY <1>1 DEF Counters
  <2>2. Settles(job, a, reasons) /\ loop' = "ended"
    BY <1>2 DEF End
  <2> HIDE DEF a
  <2> QED
    BY <1>1, <1>2, <2>1, <2>2, CallbackKeeps DEF FlowCovers, OutcomesAreFinalized
<1>3. ASSUME NEW a \in Counters, a.flow = active.flow, NEW reasons,
             Settles(job, a, reasons), loop \notin {"off", "ended", "batch"},
             loop' \notin {"off", "ended", "batch"}
      PROVE  FlowCovers'
  BY <1>1, <1>3, CallbackKeeps DEF FlowCovers, OutcomesAreFinalized
<1>4. CASE LeaveLoop \/ LoopThrows
  BY <1>2, <1>4 DEF LeaveLoop, LoopThrows
<1>5. CASE Top \/ RecoverContinues \/ Decide
  <2>1. loop \in {"top", "recovered", "decide"}
    BY <1>5 DEF Top, RecoverContinues, Decide
  <2>2. CASE \E where \in Calling : Call(where)
    <3>1. Settles(job, Called, {}) /\ loop' \in Calling
      BY <2>2 DEF Call
    <3> QED
      BY <1>1, <1>3, <2>1, <3>1, CallCounters DEF Calling
  <2>3. CASE /\ UNCHANGED <<state, exit, active, job>>
             /\ loop' \in {"decide", "backoff", "waiting"}
    BY <2>1, <2>3, LoopStepKeeps DEF FlowCovers
  <2> QED
    BY <1>5, <2>2, <2>3 DEF Top, RecoverContinues, Decide, Sleep, Calling
<1>6. CASE LoopCallSettles
  <2>1. PICK reasons : Settles(job, Returned, reasons)
    BY <1>6 DEF LoopCallSettles
  <2>2. loop \in Calling /\ loop' \in Settled
    BY <1>6 DEF LoopCallSettles, Calling, Settled
  <2> QED
    BY <1>1, <1>3, <2>1, <2>2, CallCounters DEF Calling, Settled
<1>7. CASE PurgeContinues \/ Wake
  BY <1>7, LoopStepKeeps DEF PurgeContinues, Wake, FlowCovers
<1>8. ASSUME NEW k \in {"recovery", "purge", "poll"}, Elapse(k)
      PROVE  FlowCovers'
  BY <1>8 DEF Elapse, FlowCovers, OutcomesAreFinalized
<1> QED
  BY <1>4, <1>5, <1>6, <1>7, <1>8 DEF Looping

\* Every step of a batch keeps FlowCovers.
LEMMA BatchKeeps ==
    ASSUME FlowCovers, Batch
    PROVE  FlowCovers'
<1>1. job \in [BatchJobs -> JobStates] /\ active \in Counters
  BY DEF FlowCovers, Counters
<1>2. CASE BatchStarts
  <2>1. PICK begun \in SUBSET BatchJobs :
          Settles([j \in BatchJobs |-> IF j \in begun THEN "beginning" ELSE "ended"],
                  [active EXCEPT !.repository = @ + Cardinality(begun)], {})
    BY <1>2 DEF BatchStarts
  <2>2. Cardinality(begun) \in Nat
    BY RuntimeAssumption, FS_Subset, FS_CardinalityType
  <2> DEFINE jobs == [j \in BatchJobs |-> IF j \in begun THEN "beginning" ELSE "ended"]
             a == [active EXCEPT !.repository = @ + Cardinality(begun)]
  <2>3. jobs \in [BatchJobs -> JobStates] /\ \A j \in BatchJobs : jobs[j] # "lost"
    BY DEF JobStates
  <2>4. a \in Counters /\ a.flow = active.flow
    BY <1>1, <2>2 DEF Counters
  <2>5. loop = "claimed" /\ loop' = "batch" /\ Settles(jobs, a, {})
    BY <1>2, <2>1 DEF BatchStarts
  <2> HIDE DEF jobs, a
  <2>6. state # "idle" /\ active.flow
    BY <2>5 DEF FlowCovers
  <2> QED
    BY <2>3, <2>4, <2>5, <2>6, CallbackKeeps
<1>3. CASE ClaimFails
  BY <1>3, LoopStepKeeps DEF ClaimFails, Sleep, FlowCovers
<1>4. CASE BatchEnds
  <2>1. loop = "batch" /\ \A j \in BatchJobs : job[j] \in JobOver
    BY <1>4 DEF BatchEnds
  <2>2. CASE state = "running"
    BY <1>4, <2>1, <2>2, LoopStepKeeps DEF BatchEnds, Sleep
  <2>3. CASE state # "running"
    <3> DEFINE a == [active EXCEPT !.flow = FALSE]
    <3>1. a \in Counters /\ a.flow = FALSE
      BY <1>1 DEF Counters
    <3>2. Settles(job, a, {}) /\ loop' = "ended"
      BY <1>4, <2>3 DEF BatchEnds, End
    <3> HIDE DEF a
    <3> QED
      BY <1>1, <2>1, <3>1, <3>2, CallbackKeeps DEF FlowCovers, OutcomesAreFinalized
  <2> QED
    BY <2>2, <2>3
<1>5. ASSUME NEW j \in BatchJobs, NEW over \in JobStates, NEW a \in Counters,
             a.flow = active.flow, NEW reasons, job[j] \notin JobOver, loop' = loop,
             over = "lost" => state \notin {"running", "stopping"},
             Settles([job EXCEPT ![j] = over], a, reasons)
      PROVE  FlowCovers'
  <2> DEFINE jobs == [job EXCEPT ![j] = over]
  <2>1. jobs \in [BatchJobs -> JobStates] /\ jobs[j] = over
        /\ \A k \in BatchJobs : k # j => jobs[k] = job[k]
    BY <1>1
  <2>2. loop = "batch" /\ state # "idle" /\ active.flow
    BY <1>5 DEF FlowCovers
  <2>3. over = "lost" => exit = "expired"
    BY <1>5, <2>2 DEF FlowCovers
  <2>4. (\E k \in BatchJobs : jobs[k] = "lost") => exit = "expired"
    BY <2>1, <2>3 DEF FlowCovers, OutcomesAreFinalized
  <2> HIDE DEF jobs
  <2>5. Settles(jobs, a, reasons)
    BY <1>5 DEF jobs
  <2> QED
    BY <1>5, <2>1, <2>2, <2>4, <2>5, CallbackKeeps DEF FlowCovers
<1>6. ASSUME NEW j \in BatchJobs, JobCallSettles(j)
      PROVE  FlowCovers'
  <2>1. PICK answer \in {"applied", "refused", "failure", "violation", "thrown"} :
          Settles([job EXCEPT ![j] =
                      IF @ = "finalizing" THEN "finalized"
                      ELSE IF answer = "applied" THEN "begun" ELSE "ended"],
                  Returned,
                  IF answer = "violation"
                  THEN {"repository_contract_violation"} ELSE {})
    BY <1>6 DEF JobCallSettles
  <2> DEFINE over == IF job[j] = "finalizing" THEN "finalized"
                     ELSE IF answer = "applied" THEN "begun" ELSE "ended"
             reasons == IF answer = "violation"
                        THEN {"repository_contract_violation"} ELSE {}
  <2>2. over \in JobStates /\ over # "lost"
    BY DEF JobStates
  <2>3. Settles([job EXCEPT ![j] = over], Returned, reasons)
    BY <2>1
  <2>4. job[j] \notin JobOver /\ loop' = loop
    BY <1>6 DEF JobCallSettles, JobOver
  <2> HIDE DEF over, reasons
  <2> QED
    BY <1>1, <1>5, <2>2, <2>3, <2>4, CallCounters
<1>7. ASSUME NEW j \in BatchJobs, Send(j) \/ SendRefused(j) \/ SendSettles(j)
      PROVE  FlowCovers'
  <2>1. job[j] \notin JobOver /\ loop' = loop
    BY <1>7 DEF Send, SendRefused, SendSettles, JobOver
  <2>2. PICK over \in {"sending", "ended", "result"},
             a \in {active, [active EXCEPT !.provider = @ + 1],
                    [active EXCEPT !.provider = @ - 1]} :
          Settles([job EXCEPT ![j] = over], a, {})
    BY <1>7 DEF Send, SendRefused, SendSettles
  <2>3. a \in Counters /\ a.flow = active.flow
    BY <1>1, <2>2 DEF Counters
  <2> QED
    BY <1>5, <2>1, <2>2, <2>3 DEF JobStates
<1>8. ASSUME NEW j \in BatchJobs, Finalize(j)
      PROVE  FlowCovers'
  <2>1. job[j] \notin JobOver /\ loop' = loop
    BY <1>8 DEF Finalize, JobOver
  <2>2. CASE AdmitsFinalize
    BY <1>1, <1>5, <1>8, <2>1, <2>2, CallCounters DEF Finalize, JobStates
  <2>3. CASE ~AdmitsFinalize
    BY <1>1, <1>5, <1>8, <2>1, <2>3 DEF Finalize, JobStates, AdmitsFinalize
  <2> QED
    BY <2>2, <2>3
<1> QED
  BY <1>2, <1>3, <1>4, <1>6, <1>7, <1>8 DEF Batch

-----------------------------------------------------------------------------
(* The theorems.                                                           *)

\* A runtime that was not started satisfies FlowCovers.
LEMMA InitCovers == RuntimeInit => FlowCovers
  BY DEF RuntimeInit, FlowCovers, JobStates, JobOver, OutcomesAreFinalized

\* FlowCovers is inductive.
LEMMA NextCovers == FlowCovers /\ [RuntimeNext]_runtimeVars => FlowCovers'
<1>1. FlowCovers /\ UNCHANGED runtimeVars => FlowCovers'
  BY DEF FlowCovers, OutcomesAreFinalized, runtimeVars
<1> QED
  BY <1>1, LifecycleKeeps, LoopingKeeps, BatchKeeps DEF RuntimeNext

\* The flow flag covers the loop and every session of its batch.
THEOREM FlowInvariant == RuntimeSpec => []FlowCovers
  BY InitCovers, NextCovers, PTL DEF RuntimeSpec

\* A process that reports "drained" has no call, session or loop under way,
\* for any batch and however its calls settle.
THEOREM DrainIsComplete == RuntimeSpec => []DrainedIsQuiet
<1>1. FlowCovers => DrainedIsQuiet
  BY DEF FlowCovers, DrainedIsQuiet
<1> QED
  BY <1>1, FlowInvariant, PTL

\* A submitted mail's outcome reaches finalize unless the drain expired.
THEOREM NoOutcomeIsDropped == RuntimeSpec => []OutcomesAreFinalized
<1>1. FlowCovers => OutcomesAreFinalized
  BY DEF FlowCovers
<1> QED
  BY <1>1, FlowInvariant, PTL

-----------------------------------------------------------------------------
(* What a stop admits.                                                     *)

\* A callback leaves a session as it says, or aborted.
LEMMA SettlesJobs ==
    ASSUME NEW jobs \in [BatchJobs -> JobStates], NEW a, NEW reasons, Settles(jobs, a, reasons)
    PROVE  \A j \in BatchJobs : job'[j] = jobs[j] \/ job'[j] = "result"
<1>1. job' = jobs \/ job' = Aborted(jobs)
  BY DEF Settles
<1> QED
  BY <1>1, AbortedJobs

\* What a step may not begin when the process is not running.
Idles ==
    /\ loop' \in Calling => loop' = loop
    /\ \A j \in BatchJobs : job'[j] \in {"beginning", "sending"} => job'[j] = job[j]
    /\ state = "stopped" =>
         \A j \in BatchJobs : job'[j] = "finalizing" => job[j] = "finalizing"

\* A callback that begins no session and no call of the loop.
LEMMA CallbackIdles ==
    ASSUME NEW jobs \in [BatchJobs -> JobStates], NEW a, NEW reasons, Settles(jobs, a, reasons),
           loop' \in Calling => loop' = loop,
           \A j \in BatchJobs : \/ jobs[j] = job[j]
                                \/ jobs[j] \notin {"beginning", "sending", "finalizing"}
                                \/ jobs[j] = "finalizing" /\ state # "stopped"
    PROVE  Idles
  BY SettlesJobs DEF Idles

\* No step of a process that is not running begins anything but a finalize.
LEMMA StepIdles ==
    ASSUME FlowCovers, [RuntimeNext]_runtimeVars, state # "running"
    PROVE  Idles
<1>1. job \in [BatchJobs -> JobStates]
  BY DEF FlowCovers
<1>2. CASE UNCHANGED runtimeVars
  BY <1>2 DEF runtimeVars, Idles
<1>3. CASE Lifecycle
  <2>1. CASE DrainExpires \/ Start
    BY <2>1 DEF DrainExpires, Start, Idles, Calling
  <2>2. CASE Signal \/ Fault \/ Stall
    <3>1. PICK reasons : Settles(job, active, reasons) /\ loop' = loop
      BY <2>2 DEF Signal, Fault, Stall
    <3> QED
      BY <1>1, <3>1, CallbackIdles
  <2> QED
    BY <1>3, <2>1, <2>2 DEF Lifecycle
<1>4. CASE Looping
  <2>1. ASSUME NEW reasons, End(reasons)
        PROVE  Idles
    <3>1. Settles(job, [active EXCEPT !.flow = FALSE], reasons) /\ loop' = "ended"
      BY <2>1 DEF End
    <3> QED
      BY <1>1, <3>1, CallbackIdles DEF Calling
  <2>2. CASE LeaveLoop \/ LoopThrows
    BY <2>1, <2>2 DEF LeaveLoop, LoopThrows
  <2>3. CASE LoopCallSettles
    <3>1. PICK reasons : Settles(job, Returned, reasons)
      BY <2>3 DEF LoopCallSettles
    <3>2. loop' \notin Calling
      BY <2>3 DEF LoopCallSettles, Calling
    <3> QED
      BY <1>1, <3>1, <3>2, CallbackIdles
  <2>4. ASSUME NEW k \in {"recovery", "purge", "poll"}, Elapse(k)
        PROVE  Idles
    BY <2>4 DEF Elapse, Idles
  <2>5. ~(Top \/ RecoverContinues \/ PurgeContinues \/ Decide \/ Wake)
    BY DEF Top, RecoverContinues, PurgeContinues, Decide, Wake
  <2> QED
    BY <1>4, <2>2, <2>3, <2>4, <2>5 DEF Looping
<1>5. CASE Batch
  <2>1. CASE BatchStarts
    <3> DEFINE jobs == [j \in BatchJobs |-> "ended"]
    <3>1. PICK a : Settles([j \in BatchJobs |-> IF j \in {} THEN "beginning" ELSE "ended"], a, {})
                   /\ loop' = "batch"
      BY <2>1 DEF BatchStarts
    <3>2. Settles(jobs, a, {})
      BY <3>1
    <3>3. jobs \in [BatchJobs -> JobStates] /\ \A j \in BatchJobs : jobs[j] = "ended"
      BY DEF JobStates
    <3> HIDE DEF jobs
    <3> QED
      BY <3>1, <3>2, <3>3, CallbackIdles DEF Calling
  <2>2. CASE BatchEnds
    <3>1. Settles(job, [active EXCEPT !.flow = FALSE], {}) /\ loop' = "ended"
      BY <2>2 DEF BatchEnds, End
    <3> QED
      BY <1>1, <3>1, CallbackIdles DEF Calling
  <2>3. ASSUME NEW j \in BatchJobs, NEW over \in JobStates, NEW a, NEW reasons, loop' = loop,
               \/ over \notin {"beginning", "sending", "finalizing"}
               \/ over = "finalizing" /\ state # "stopped",
               Settles([job EXCEPT ![j] = over], a, reasons)
        PROVE  Idles
    <3> DEFINE jobs == [job EXCEPT ![j] = over]
    <3>1. jobs \in [BatchJobs -> JobStates] /\ jobs[j] = over
          /\ \A k \in BatchJobs : k # j => jobs[k] = job[k]
      BY <1>1
    <3>2. Settles(jobs, a, reasons)
      BY <2>3
    <3> HIDE DEF jobs
    <3> QED
      BY <2>3, <3>1, <3>2, CallbackIdles
  <2>4. ASSUME NEW j \in BatchJobs, JobCallSettles(j)
        PROVE  Idles
    <3>1. PICK over \in {"finalized", "begun", "ended"} :
            \E reasons : Settles([job EXCEPT ![j] = over], Returned, reasons)
      BY <2>4 DEF JobCallSettles
    <3>2. loop' = loop
      BY <2>4 DEF JobCallSettles
    <3> QED
      BY <2>3, <3>1, <3>2 DEF JobStates
  <2>5. ASSUME NEW j \in BatchJobs, SendRefused(j) \/ SendSettles(j)
        PROVE  Idles
    <3>1. PICK over \in {"ended", "result"} :
            \E a : Settles([job EXCEPT ![j] = over], a, {})
      BY <2>5 DEF SendRefused, SendSettles
    <3>2. loop' = loop
      BY <2>5 DEF SendRefused, SendSettles
    <3> QED
      BY <2>3, <3>1, <3>2 DEF JobStates
  <2>6. ASSUME NEW j \in BatchJobs, Finalize(j)
        PROVE  Idles
    <3>1. CASE AdmitsFinalize
      <4>1. state # "stopped" /\ Settles([job EXCEPT ![j] = "finalizing"], Called, {})
            /\ loop' = loop
        BY <2>6, <3>1 DEF Finalize, AdmitsFinalize
      <4> QED
        BY <2>3, <4>1 DEF JobStates
    <3>2. CASE ~AdmitsFinalize
      <4>1. Settles([job EXCEPT ![j] = "lost"], active, {}) /\ loop' = loop
        BY <2>6, <3>2 DEF Finalize
      <4> QED
        BY <2>3, <4>1 DEF JobStates
    <3> QED
      BY <3>1, <3>2
  <2>7. ~ClaimFails /\ \A j \in BatchJobs : ~Send(j)
    BY DEF ClaimFails, Send, SendAdmitted
  <2> QED
    BY <1>5, <2>1, <2>2, <2>4, <2>5, <2>6, <2>7 DEF Batch
<1> QED
  BY <1>2, <1>3, <1>4, <1>5 DEF RuntimeNext

\* Once stop() was called no claim, maintenance, attempt or mail begins, and after
\* the exit no finalize either.
THEOREM StopBeginsNothing == RuntimeSpec => BeginsNothing
<1> DEFINE Quietly == state # "running" => Idles
<1>1. FlowCovers /\ [RuntimeNext]_runtimeVars => [Quietly]_runtimeVars
  BY StepIdles
<1>2. RuntimeSpec => [][Quietly]_runtimeVars
  BY <1>1, FlowInvariant, PTL DEF RuntimeSpec
<1> QED
  BY <1>2 DEF BeginsNothing, Quietly, Idles
-----------------------------------------------------------------------------
(* The counters that decide when the process may exit are exact: they       *)
(* count the calls that have not returned, and never fall below zero.      *)

Awaited(jobs) == {j \in BatchJobs : jobs[j] \in {"beginning", "finalizing"}}
LoopCalls(place) == IF place \in Calling THEN 1 ELSE 0

CountersExact ==
    /\ active.repository = Cardinality(Awaited(job)) + LoopCalls(loop)
    /\ active.provider = Cardinality(InFlight(job))

\* One element more or less.
LEMMA OneMoves ==
    ASSUME NEW S, IsFiniteSet(S), NEW T, NEW x, T \ {x} = S \ {x}
    PROVE  Cardinality(T) = Cardinality(S) - (IF x \in S THEN 1 ELSE 0)
                                           + (IF x \in T THEN 1 ELSE 0)
<1> DEFINE R == S \ {x}
<1>1. IsFiniteSet(R) /\ Cardinality(R) = Cardinality(S) - (IF x \in S THEN 1 ELSE 0)
  <2>1. CASE x \in S
    BY <2>1, FS_RemoveElement
  <2>2. CASE x \notin S
    <3>1. R = S
      BY <2>2
    <3>2. Cardinality(S) \in Nat
      BY FS_CardinalityType
    <3>3. Cardinality(R) = Cardinality(S)
      BY <3>1
    <3> HIDE DEF R
    <3> QED
      BY <2>2, <3>1, <3>2, <3>3
  <2> QED
    BY <2>1, <2>2
<1>2. Cardinality(R) \in Nat /\ Cardinality(S) \in Nat
  BY <1>1, FS_CardinalityType
<1>3. CASE x \in T
  <2>1. T = R \cup {x} /\ x \notin R
    BY <1>3
  <2>2. Cardinality(T) = Cardinality(R) + 1
    BY <1>1, <2>1, FS_AddElement
  <2> QED
    BY <1>1, <1>2, <1>3, <2>2
<1>4. CASE x \notin T
  <2>1. T = R
    BY <1>4
  <2> QED
    BY <1>1, <1>2, <1>4, <2>1
<1> QED
  BY <1>3, <1>4

\* The calls under way are finitely many.
LEMMA CallsAreFinite ==
    ASSUME NEW jobs
    PROVE  /\ IsFiniteSet(Awaited(jobs)) /\ Cardinality(Awaited(jobs)) \in Nat
           /\ IsFiniteSet(InFlight(jobs)) /\ Cardinality(InFlight(jobs)) \in Nat
<1>1. Awaited(jobs) \subseteq BatchJobs /\ InFlight(jobs) \subseteq BatchJobs
  BY DEF Awaited, InFlight
<1> QED
  BY <1>1, RuntimeAssumption, FS_Subset, FS_CardinalityType

\* A session that moves on gives a call back, or takes one, or both.
LEMMA SessionMoves ==
    ASSUME NEW jobs \in [BatchJobs -> JobStates], NEW j \in BatchJobs, NEW over \in JobStates,
           NEW after \in [BatchJobs -> JobStates],
           after[j] = over, \A k \in BatchJobs \ {j} : after[k] = jobs[k]
    PROVE  /\ Cardinality(Awaited(after)) =
                Cardinality(Awaited(jobs))
                  - (IF jobs[j] \in {"beginning", "finalizing"} THEN 1 ELSE 0)
                  + (IF over \in {"beginning", "finalizing"} THEN 1 ELSE 0)
           /\ Cardinality(InFlight(after)) =
                Cardinality(InFlight(jobs)) - (IF jobs[j] = "sending" THEN 1 ELSE 0)
                                            + (IF over = "sending" THEN 1 ELSE 0)
<1>1. Awaited(after) \ {j} = Awaited(jobs) \ {j} /\ InFlight(after) \ {j} = InFlight(jobs) \ {j}
  BY DEF Awaited, InFlight
<1>2. /\ j \in Awaited(after) <=> over \in {"beginning", "finalizing"}
      /\ j \in Awaited(jobs) <=> jobs[j] \in {"beginning", "finalizing"}
      /\ j \in InFlight(after) <=> over = "sending"
      /\ j \in InFlight(jobs) <=> jobs[j] = "sending"
  BY DEF Awaited, InFlight
<1>3. Cardinality(Awaited(after)) = Cardinality(Awaited(jobs))
        - (IF j \in Awaited(jobs) THEN 1 ELSE 0) + (IF j \in Awaited(after) THEN 1 ELSE 0)
  BY <1>1, CallsAreFinite, OneMoves
<1>4. Cardinality(InFlight(after)) = Cardinality(InFlight(jobs))
        - (IF j \in InFlight(jobs) THEN 1 ELSE 0) + (IF j \in InFlight(after) THEN 1 ELSE 0)
  BY <1>1, CallsAreFinite, OneMoves
<1> QED
  BY <1>2, <1>3, <1>4

\* A callback that leaves exact counters behind leaves exact counters, whether
\* it stops the process, which settles the provider's calls, or not.
LEMMA SettlesExactly ==
    ASSUME NEW jobs \in [BatchJobs -> JobStates], NEW a \in Counters, NEW reasons,
           Settles(jobs, a, reasons),
           a.repository = Cardinality(Awaited(jobs)) + LoopCalls(loop'),
           a.provider = Cardinality(InFlight(jobs))
    PROVE  CountersExact'
<1> DEFINE stops == reasons # {} /\ state \in {"idle", "running"}
<1>1. /\ job' = IF stops THEN Aborted(jobs) ELSE jobs
      /\ active' = IF stops THEN ProviderAborted(a, jobs) ELSE a
  BY DEF Settles
<1>2. CASE ~stops
  BY <1>1, <1>2 DEF CountersExact, Awaited, InFlight
<1>3. CASE stops
  <2>1. job' = Aborted(jobs) /\ active' = ProviderAborted(a, jobs)
    BY <1>1, <1>3
  <2>2. Awaited(Aborted(jobs)) = Awaited(jobs)
    BY DEF Awaited, Aborted
  <2>3. InFlight(Aborted(jobs)) = {}
    BY DEF InFlight, Aborted
  <2>4. /\ ProviderAborted(a, jobs).repository = a.repository
        /\ ProviderAborted(a, jobs).provider = a.provider - Cardinality(InFlight(jobs))
    BY DEF ProviderAborted, Counters
  <2>5. a.provider - Cardinality(InFlight(jobs)) = 0
    BY CallsAreFinite
  <2>6. Cardinality({}) = 0
    BY FS_EmptySet
  <2>7. /\ Awaited(job)' = Awaited(job') /\ InFlight(job)' = InFlight(job')
        /\ LoopCalls(loop)' = LoopCalls(loop')
    BY DEF Awaited, InFlight, LoopCalls
  <2> QED
    BY <2>1, <2>2, <2>3, <2>4, <2>5, <2>6, <2>7 DEF CountersExact
<1> QED
  BY <1>2, <1>3

\* What a call and its return count.
LEMMA CallsCount ==
    ASSUME active \in Counters
    PROVE  /\ Called \in Counters /\ Called.repository = active.repository + 1
           /\ Called.provider = active.provider
           /\ Returned \in Counters /\ Returned.repository = active.repository - 1
           /\ Returned.provider = active.provider
  BY DEF Called, Returned, Counters

\* Steps that touch no session and no counter.
LEMMA UncountedStep ==
    ASSUME CountersExact, UNCHANGED <<active, job>>,
           LoopCalls(loop') = LoopCalls(loop)
    PROVE  CountersExact'
  BY DEF CountersExact, LoopCalls, Awaited, InFlight

LEMMA LifecycleCounts ==
    ASSUME FlowCovers, CountersExact, Lifecycle
    PROVE  CountersExact'
<1>1. job \in [BatchJobs -> JobStates] /\ active \in Counters
  BY DEF FlowCovers, Counters
<1>2. CASE Signal \/ Fault \/ Stall
  <2>1. PICK reasons : Settles(job, active, reasons) /\ loop' = loop
    BY <1>2 DEF Signal, Fault, Stall
  <2> QED
    BY <1>1, <2>1, SettlesExactly DEF CountersExact
<1>3. CASE DrainExpires
  BY <1>3, UncountedStep DEF DrainExpires
<1>4. CASE Start
  <2>1. /\ active'.repository = active.repository /\ active'.provider = active.provider
        /\ job' = job /\ loop = "off" /\ loop' = "top"
    BY <1>1, <1>4 DEF Start, FlowCovers, Counters
  <2> QED
    BY <2>1 DEF CountersExact, LoopCalls, Calling, Awaited, InFlight
<1> QED
  BY <1>2, <1>3, <1>4 DEF Lifecycle

LEMMA LoopingCounts ==
    ASSUME FlowCovers, CountersExact, Looping
    PROVE  CountersExact'
<1>1. job \in [BatchJobs -> JobStates] /\ active \in Counters
  BY DEF FlowCovers, Counters
<1>2. ASSUME NEW reasons, End(reasons), loop \notin Calling
      PROVE  CountersExact'
  <2> DEFINE a == [active EXCEPT !.flow = FALSE]
  <2>1. a \in Counters /\ a.repository = active.repository /\ a.provider = active.provider
    BY <1>1 DEF Counters
  <2>2. Settles(job, a, reasons) /\ loop' = "ended"
    BY <1>2 DEF End
  <2>3. LoopCalls(loop') = LoopCalls(loop)
    BY <1>2, <2>2 DEF LoopCalls, Calling
  <2> HIDE DEF a
  <2> QED
    BY <1>1, <2>1, <2>2, <2>3, SettlesExactly DEF CountersExact
<1>3. ASSUME NEW where \in Calling, Call(where), loop \notin Calling
      PROVE  CountersExact'
  <2>1. Settles(job, Called, {}) /\ LoopCalls(loop') = 1 /\ LoopCalls(loop) = 0
    BY <1>3 DEF Call, LoopCalls
  <2>2. Cardinality(Awaited(job)) \in Nat
    BY CallsAreFinite
  <2>3. /\ Called.repository = Cardinality(Awaited(job)) + LoopCalls(loop')
        /\ Called.provider = Cardinality(InFlight(job))
    BY <1>1, <2>1, <2>2, CallsCount DEF CountersExact
  <2> QED
    BY <1>1, <2>1, <2>3, CallsCount, SettlesExactly
<1>4. CASE LeaveLoop \/ LoopThrows
  BY <1>2, <1>4 DEF LeaveLoop, LoopThrows, Calling
<1>5. CASE Top \/ RecoverContinues \/ Decide
  <2>1. loop \in {"top", "recovered", "decide"}
    BY <1>5 DEF Top, RecoverContinues, Decide
  <2>2. CASE \E where \in Calling : Call(where)
    BY <1>3, <2>1, <2>2 DEF Calling
  <2>3. CASE UNCHANGED <<active, job>> /\ loop' \in {"decide", "backoff", "waiting"}
    BY <2>1, <2>3, UncountedStep DEF LoopCalls, Calling
  <2> QED
    BY <1>5, <2>2, <2>3 DEF Top, RecoverContinues, Decide, Sleep, Calling
<1>6. CASE LoopCallSettles
  <2>1. PICK reasons : Settles(job, Returned, reasons)
    BY <1>6 DEF LoopCallSettles
  <2>2. LoopCalls(loop) = 1 /\ LoopCalls(loop') = 0
    BY <1>6 DEF LoopCallSettles, Calling, LoopCalls
  <2>3. Cardinality(Awaited(job)) \in Nat
    BY CallsAreFinite
  <2>4. /\ Returned.repository = Cardinality(Awaited(job)) + LoopCalls(loop')
        /\ Returned.provider = Cardinality(InFlight(job))
    BY <1>1, <2>2, <2>3, CallsCount DEF CountersExact
  <2> QED
    BY <1>1, <2>1, <2>4, CallsCount, SettlesExactly
<1>7. CASE PurgeContinues \/ Wake
  BY <1>7, UncountedStep DEF PurgeContinues, Wake, LoopCalls, Calling
<1>8. ASSUME NEW k \in {"recovery", "purge", "poll"}, Elapse(k)
      PROVE  CountersExact'
  BY <1>8, UncountedStep DEF Elapse
<1> QED
  BY <1>4, <1>5, <1>6, <1>7, <1>8 DEF Looping

LEMMA BatchCounts ==
    ASSUME FlowCovers, CountersExact, Batch
    PROVE  CountersExact'
<1>1. job \in [BatchJobs -> JobStates] /\ active \in Counters
  BY DEF FlowCovers, Counters
<1>2. ASSUME NEW jobs, \A j \in BatchJobs : jobs[j] \in JobOver
      PROVE  Awaited(jobs) = {} /\ InFlight(jobs) = {}
  BY <1>2 DEF Awaited, InFlight, JobOver
<1>3. Cardinality({}) = 0
  BY FS_EmptySet
<1>4. CASE BatchStarts
  <2>1. PICK begun \in SUBSET BatchJobs :
          Settles([j \in BatchJobs |-> IF j \in begun THEN "beginning" ELSE "ended"],
                  [active EXCEPT !.repository = @ + Cardinality(begun)], {})
    BY <1>4 DEF BatchStarts
  <2> DEFINE jobs == [j \in BatchJobs |-> IF j \in begun THEN "beginning" ELSE "ended"]
             a == [active EXCEPT !.repository = @ + Cardinality(begun)]
  <2>2. loop = "claimed" /\ loop' = "batch" /\ Settles(jobs, a, {})
    BY <1>4, <2>1 DEF BatchStarts
  <2>3. Cardinality(begun) \in Nat
    BY RuntimeAssumption, FS_Subset, FS_CardinalityType
  <2>4. active.repository = 0 /\ active.provider = 0
    <3>1. \A j \in BatchJobs : job[j] \in JobOver
      BY <2>2 DEF FlowCovers
    <3>2. Awaited(job) = {} /\ InFlight(job) = {} /\ LoopCalls(loop) = 0
      BY <1>2, <2>2, <3>1 DEF LoopCalls, Calling
    <3> QED
      BY <1>3, <3>2 DEF CountersExact
  <2>5. jobs \in [BatchJobs -> JobStates] /\ Awaited(jobs) = begun /\ InFlight(jobs) = {}
    BY DEF JobStates, Awaited, InFlight
  <2>6. a \in Counters /\ a.repository = Cardinality(begun) /\ a.provider = 0
    BY <1>1, <2>3, <2>4 DEF Counters
  <2>7. LoopCalls(loop') = 0
    BY <2>2 DEF LoopCalls, Calling
  <2> HIDE DEF jobs, a
  <2> QED
    <3>1. a.repository = Cardinality(Awaited(jobs)) + LoopCalls(loop')
      BY <2>3, <2>5, <2>6, <2>7
    <3>2. a.provider = Cardinality(InFlight(jobs))
      BY <1>3, <2>5, <2>6
    <3> QED
      BY <2>2, <2>5, <2>6, <3>1, <3>2, SettlesExactly
<1>5. CASE ClaimFails
  BY <1>5, UncountedStep DEF ClaimFails, Sleep, LoopCalls, Calling
<1>6. CASE BatchEnds
  <2>1. /\ loop = "batch" /\ \A j \in BatchJobs : job[j] \in JobOver
        /\ LoopCalls(loop) = 0
    BY <1>6 DEF BatchEnds, LoopCalls, Calling
  <2>2. CASE state = "running"
    <3>1. /\ job' = [j \in BatchJobs |-> "none"] /\ active' = active
          /\ loop' \in {"backoff", "waiting"}
      BY <1>6, <2>2 DEF BatchEnds, Sleep
    <3>2. \A j \in BatchJobs : job'[j] \in JobOver
      BY <3>1 DEF JobOver
    <3>3. /\ Awaited(job) = {} /\ InFlight(job) = {}
          /\ Awaited(job') = {} /\ InFlight(job') = {}
      BY <1>2, <2>1, <3>2
    <3>4. LoopCalls(loop') = 0
      BY <3>1 DEF LoopCalls, Calling
    <3>5. /\ Awaited(job)' = Awaited(job') /\ InFlight(job)' = InFlight(job')
          /\ LoopCalls(loop)' = LoopCalls(loop')
      BY DEF Awaited, InFlight, LoopCalls
    <3> QED
      BY <2>1, <3>1, <3>3, <3>4, <3>5 DEF CountersExact
  <2>3. CASE state # "running"
    <3> DEFINE a == [active EXCEPT !.flow = FALSE]
    <3>1. a \in Counters /\ a.repository = active.repository /\ a.provider = active.provider
      BY <1>1 DEF Counters
    <3>2. Settles(job, a, {}) /\ loop' = "ended"
      BY <1>6, <2>3 DEF BatchEnds, End
    <3>3. LoopCalls(loop') = LoopCalls(loop)
      BY <2>1, <3>2 DEF LoopCalls, Calling
    <3> HIDE DEF a
    <3> QED
      BY <1>1, <3>1, <3>2, <3>3, SettlesExactly DEF CountersExact
  <2> QED
    BY <2>2, <2>3
<1>7. ASSUME NEW j \in BatchJobs, NEW over \in JobStates, NEW a \in Counters, NEW reasons,
             loop' = loop, Settles([job EXCEPT ![j] = over], a, reasons),
             a.repository = active.repository
                 - (IF job[j] \in {"beginning", "finalizing"} THEN 1 ELSE 0)
                 + (IF over \in {"beginning", "finalizing"} THEN 1 ELSE 0),
             a.provider = active.provider - (IF job[j] = "sending" THEN 1 ELSE 0)
                                          + (IF over = "sending" THEN 1 ELSE 0)
      PROVE  CountersExact'
  <2> DEFINE jobs == [job EXCEPT ![j] = over]
  <2>1. /\ jobs \in [BatchJobs -> JobStates] /\ jobs[j] = over
        /\ \A k \in BatchJobs \ {j} : jobs[k] = job[k]
    BY <1>1
  <2> HIDE DEF jobs
  <2>2. /\ Cardinality(Awaited(job)) \in Nat /\ Cardinality(InFlight(job)) \in Nat
        /\ LoopCalls(loop) \in Nat
    BY CallsAreFinite DEF LoopCalls
  <2>3. a.repository = Cardinality(Awaited(jobs)) + LoopCalls(loop')
    <3>1. Cardinality(Awaited(jobs)) = Cardinality(Awaited(job))
            - (IF job[j] \in {"beginning", "finalizing"} THEN 1 ELSE 0)
            + (IF over \in {"beginning", "finalizing"} THEN 1 ELSE 0)
      BY <1>1, <2>1, SessionMoves
    <3> QED
      BY <1>7, <2>2, <3>1 DEF CountersExact
  <2>4. a.provider = Cardinality(InFlight(jobs))
    <3>1. Cardinality(InFlight(jobs)) = Cardinality(InFlight(job))
            - (IF job[j] = "sending" THEN 1 ELSE 0) + (IF over = "sending" THEN 1 ELSE 0)
      BY <1>1, <2>1, SessionMoves
    <3> QED
      BY <1>7, <2>2, <3>1 DEF CountersExact
  <2>5. Settles(jobs, a, reasons)
    BY <1>7 DEF jobs
  <2> QED
    BY <1>7, <2>1, <2>3, <2>4, <2>5, SettlesExactly
<1>8. active.repository \in Int /\ active.provider \in Int
  BY <1>1 DEF Counters
<1>9. ASSUME NEW j \in BatchJobs, JobCallSettles(j)
      PROVE  CountersExact'
  <2>1. PICK answer \in {"applied", "refused", "failure", "violation", "thrown"} :
          Settles([job EXCEPT ![j] =
                      IF @ = "finalizing" THEN "finalized"
                      ELSE IF answer = "applied" THEN "begun" ELSE "ended"],
                  Returned,
                  IF answer = "violation"
                  THEN {"repository_contract_violation"} ELSE {})
    BY <1>9 DEF JobCallSettles
  <2> DEFINE over == IF job[j] = "finalizing" THEN "finalized"
                     ELSE IF answer = "applied" THEN "begun" ELSE "ended"
             reasons == IF answer = "violation"
                        THEN {"repository_contract_violation"} ELSE {}
  <2>2. over \in {"finalized", "begun", "ended"}
    OBVIOUS
  <2>3. Settles([job EXCEPT ![j] = over], Returned, reasons)
    BY <2>1
  <2>4. job[j] \in {"beginning", "finalizing"} /\ loop' = loop
    BY <1>9 DEF JobCallSettles
  <2> HIDE DEF over, reasons
  <2>5. over \in JobStates
    BY <2>2 DEF JobStates
  <2> QED
    <3>1. /\ Returned.repository = active.repository
               - (IF job[j] \in {"beginning", "finalizing"} THEN 1 ELSE 0)
               + (IF over \in {"beginning", "finalizing"} THEN 1 ELSE 0)
          /\ Returned.provider = active.provider - (IF job[j] = "sending" THEN 1 ELSE 0)
                                                 + (IF over = "sending" THEN 1 ELSE 0)
      BY <1>1, <1>8, <2>2, <2>4, CallsCount
    <3> QED
      BY <1>1, <1>7, <2>3, <2>4, <2>5, <3>1, CallsCount
<1>10. ASSUME NEW j \in BatchJobs, Send(j)
       PROVE  CountersExact'
  <2> DEFINE a == [active EXCEPT !.provider = @ + 1]
  <2>1. a \in Counters /\ a.repository = active.repository /\ a.provider = active.provider + 1
    BY <1>1 DEF Counters
  <2>2. job[j] = "begun" /\ loop' = loop /\ Settles([job EXCEPT ![j] = "sending"], a, {})
    BY <1>10 DEF Send
  <2> HIDE DEF a
  <2> QED
    <3>1. /\ a.repository = active.repository
               - (IF job[j] \in {"beginning", "finalizing"} THEN 1 ELSE 0)
               + (IF "sending" \in {"beginning", "finalizing"} THEN 1 ELSE 0)
          /\ a.provider = active.provider - (IF job[j] = "sending" THEN 1 ELSE 0)
                                          + (IF "sending" = "sending" THEN 1 ELSE 0)
      BY <1>8, <2>1, <2>2
    <3>2. "sending" \in JobStates
      BY DEF JobStates
    <3> QED
      BY <1>7, <2>1, <2>2, <3>1, <3>2
<1>11. ASSUME NEW j \in BatchJobs, SendRefused(j)
       PROVE  CountersExact'
  <2>1. PICK over \in {"ended", "result"} : Settles([job EXCEPT ![j] = over], active, {})
    BY <1>11 DEF SendRefused
  <2>2. job[j] = "begun" /\ loop' = loop /\ over \in JobStates
    BY <1>11 DEF SendRefused, JobStates
  <2> QED
    <3>1. /\ active.repository = active.repository
               - (IF job[j] \in {"beginning", "finalizing"} THEN 1 ELSE 0)
               + (IF over \in {"beginning", "finalizing"} THEN 1 ELSE 0)
          /\ active.provider = active.provider - (IF job[j] = "sending" THEN 1 ELSE 0)
                                          + (IF over = "sending" THEN 1 ELSE 0)
      BY <1>8, <2>2
    <3> QED
      BY <1>1, <1>7, <2>1, <2>2, <3>1
<1>12. ASSUME NEW j \in BatchJobs, SendSettles(j)
       PROVE  CountersExact'
  <2> DEFINE a == [active EXCEPT !.provider = @ - 1]
  <2>1. a \in Counters /\ a.repository = active.repository /\ a.provider = active.provider - 1
    BY <1>1 DEF Counters
  <2>2. job[j] = "sending" /\ loop' = loop /\ Settles([job EXCEPT ![j] = "result"], a, {})
    BY <1>12 DEF SendSettles
  <2> HIDE DEF a
  <2> QED
    <3>1. /\ a.repository = active.repository
               - (IF job[j] \in {"beginning", "finalizing"} THEN 1 ELSE 0)
               + (IF "result" \in {"beginning", "finalizing"} THEN 1 ELSE 0)
          /\ a.provider = active.provider - (IF job[j] = "sending" THEN 1 ELSE 0)
                                          + (IF "result" = "sending" THEN 1 ELSE 0)
      BY <1>8, <2>1, <2>2
    <3>2. "result" \in JobStates
      BY DEF JobStates
    <3> QED
      BY <1>7, <2>1, <2>2, <3>1, <3>2
<1>13. ASSUME NEW j \in BatchJobs, Finalize(j)
       PROVE  CountersExact'
  <2>1. job[j] = "result" /\ loop' = loop
    BY <1>13 DEF Finalize
  <2>2. CASE Settles([job EXCEPT ![j] = "finalizing"], Called, {})
    <3>1. /\ Called.repository = active.repository
               - (IF job[j] \in {"beginning", "finalizing"} THEN 1 ELSE 0)
               + (IF "finalizing" \in {"beginning", "finalizing"} THEN 1 ELSE 0)
          /\ Called.provider = active.provider - (IF job[j] = "sending" THEN 1 ELSE 0)
                                          + (IF "finalizing" = "sending" THEN 1 ELSE 0)
      BY <1>1, <1>8, <2>1, CallsCount
    <3>2. "finalizing" \in JobStates
      BY DEF JobStates
    <3> QED
      BY <1>1, <1>7, <2>1, <2>2, <3>1, <3>2, CallsCount
  <2>3. CASE Settles([job EXCEPT ![j] = "lost"], active, {})
    <3>1. /\ active.repository = active.repository
               - (IF job[j] \in {"beginning", "finalizing"} THEN 1 ELSE 0)
               + (IF "lost" \in {"beginning", "finalizing"} THEN 1 ELSE 0)
          /\ active.provider = active.provider - (IF job[j] = "sending" THEN 1 ELSE 0)
                                          + (IF "lost" = "sending" THEN 1 ELSE 0)
      BY <1>8, <2>1
    <3>2. "lost" \in JobStates
      BY DEF JobStates
    <3> QED
      BY <1>1, <1>7, <2>1, <2>3, <3>1, <3>2
  <2> QED
    BY <1>13, <2>2, <2>3 DEF Finalize
<1> QED
  BY <1>4, <1>5, <1>6, <1>9, <1>10, <1>11, <1>12, <1>13 DEF Batch

\* checkDrain can trust its counters: they are exactly the repository and the
\* provider calls that have not returned, of the loop and of every session.
THEOREM CountersAreExact == RuntimeSpec => []CountersExact
<1>1. RuntimeInit => CountersExact
  <2> SUFFICES ASSUME RuntimeInit
               PROVE  CountersExact
    OBVIOUS
  <2>1. Awaited(job) = {} /\ InFlight(job) = {} /\ LoopCalls(loop) = 0
    BY DEF RuntimeInit, Awaited, InFlight, LoopCalls, Calling
  <2> QED
    BY <2>1, FS_EmptySet DEF RuntimeInit, CountersExact
<1>2. FlowCovers /\ CountersExact /\ [RuntimeNext]_runtimeVars => CountersExact'
  <2>1. CountersExact /\ UNCHANGED runtimeVars => CountersExact'
    BY DEF CountersExact, runtimeVars, Awaited, InFlight, LoopCalls
  <2> QED
    BY <2>1, LifecycleCounts, LoopingCounts, BatchCounts DEF RuntimeNext
<1> QED
  BY <1>1, <1>2, FlowInvariant, PTL DEF RuntimeSpec

\* The locals of the runtime and of its loop.
LocalTypes ==
    /\ stopReason \in StopReasons
    /\ loop \in {"off", "top", "decide", "batch", "waiting", "backoff", "ended"}
                \cup Calling \cup Settled
    /\ pass \in [answer : {"none", "applied", "failure", "thrown"},
                 purgeDue : BOOLEAN, recovered : BOOLEAN, failed : BOOLEAN,
                 everRecovered : BOOLEAN, everPurged : BOOLEAN,
                 startupComplete : BOOLEAN, failures : 0..MaxFailures]
    /\ due \in [recovery : BOOLEAN, purge : BOOLEAN, poll : BOOLEAN]
    /\ fault \in BOOLEAN

\* A callback stops the process for one of its reasons.
LEMMA SettlesReason ==
    ASSUME NEW jobs, NEW a, NEW reasons \in SUBSET StopReasons,
           Settles(jobs, a, reasons), stopReason \in StopReasons
    PROVE  stopReason' \in StopReasons
  BY DEF Settles

\* The back-off tier stays in its table.
LEMMA TierType ==
    ASSUME NEW failures \in 0..MaxFailures
    PROVE  Tier(failures) \in 0..MaxFailures
  BY RuntimeAssumption DEF Tier

\* Every step keeps the locals in their ranges.
LEMMA LocalsKeep ==
    ASSUME LocalTypes, [RuntimeNext]_runtimeVars
    PROVE  LocalTypes'
<1> USE DEF LocalTypes
<1>1. CASE UNCHANGED runtimeVars
  BY <1>1 DEF runtimeVars
<1>2. ASSUME NEW jobs, NEW a, NEW reasons \in SUBSET StopReasons, Settles(jobs, a, reasons)
      PROVE  stopReason' \in StopReasons
  BY <1>2, SettlesReason
<1>3. /\ {} \in SUBSET StopReasons
      /\ {"signal"} \in SUBSET StopReasons
      /\ {"process_failure"} \in SUBSET StopReasons
      /\ {"repository_stall"} \in SUBSET StopReasons
      /\ {"repository_contract_violation"} \in SUBSET StopReasons
      /\ {"internal_failure"} \in SUBSET StopReasons
  BY DEF StopReasons
<1>4. 0 \in 0..MaxFailures /\ \A n \in 0..MaxFailures : Tier(n) \in 0..MaxFailures
  BY TierType, RuntimeAssumption
<1>5. CASE Lifecycle
  <2>1. CASE Signal \/ Fault \/ Stall
    BY <1>2, <1>3, <2>1 DEF Signal, Fault, Stall
  <2>2. CASE DrainExpires \/ Start
    BY <2>2 DEF DrainExpires, Start
  <2> QED
    BY <1>5, <2>1, <2>2 DEF Lifecycle
<1>6. ASSUME NEW failed \in BOOLEAN, NEW ranBatch \in BOOLEAN, Sleep(failed, ranBatch)
      PROVE  /\ loop' \in {"backoff", "waiting"}
             /\ pass' \in [answer : {"none", "applied", "failure", "thrown"},
                           purgeDue : BOOLEAN, recovered : BOOLEAN, failed : BOOLEAN,
                           everRecovered : BOOLEAN, everPurged : BOOLEAN,
                           startupComplete : BOOLEAN, failures : 0..MaxFailures]
             /\ due' \in [recovery : BOOLEAN, purge : BOOLEAN, poll : BOOLEAN]
  <2>1. loop' \in {"backoff", "waiting"}
    BY <1>6 DEF Sleep
  <2>2. due' \in [recovery : BOOLEAN, purge : BOOLEAN, poll : BOOLEAN]
    BY <1>6 DEF Sleep
  <2>3. (IF failed THEN Tier(pass.failures) ELSE 0) \in 0..MaxFailures
    BY <1>4
  <2>4. (pass.startupComplete \/ (~failed /\ pass.everRecovered /\ pass.everPurged)) \in BOOLEAN
    OBVIOUS
  <2>5. pass' = [pass EXCEPT
                  !.failed = failed,
                  !.startupComplete =
                      pass.startupComplete \/ (~failed /\ pass.everRecovered /\ pass.everPurged),
                  !.failures = IF failed THEN Tier(pass.failures) ELSE 0]
    BY <1>6 DEF Sleep
  <2> QED
    BY <2>1, <2>2, <2>3, <2>4, <2>5
<1>7. CASE LeaveLoop \/ LoopThrows
  BY <1>2, <1>3, <1>7 DEF LeaveLoop, LoopThrows, End
<1>8. ASSUME NEW where \in Calling, Call(where)
      PROVE  loop' \in Calling /\ stopReason' \in StopReasons
  BY <1>2, <1>3, <1>8 DEF Call
<1>9. CASE Top
  <2>1. pass' \in [answer : {"none", "applied", "failure", "thrown"},
                   purgeDue : BOOLEAN, recovered : BOOLEAN, failed : BOOLEAN,
                   everRecovered : BOOLEAN, everPurged : BOOLEAN,
                   startupComplete : BOOLEAN, failures : 0..MaxFailures]
    BY <1>9 DEF Top
  <2>2. due' = due /\ fault' = fault
    BY <1>9 DEF Top
  <2>3. loop' \in Calling \cup {"decide"} /\ stopReason' \in StopReasons
    BY <1>8, <1>9 DEF Top, Calling
  <2> QED
    BY <2>1, <2>2, <2>3
<1>10. CASE LoopCallSettles
  <2>1. PICK answer \in {"applied", "failure", "violation", "thrown"} :
          /\ pass' = [pass EXCEPT !.answer = IF answer = "violation" THEN "failure" ELSE answer,
                                  !.failed = pass.failed \/ answer # "applied"]
          /\ Settles(job, Returned, IF answer = "violation"
                                    THEN {"repository_contract_violation"} ELSE {})
    BY <1>10 DEF LoopCallSettles
  <2>2. stopReason' \in StopReasons
    BY <1>2, <1>3, <2>1
  <2>3. /\ (IF answer = "violation" THEN "failure" ELSE answer) \in {"applied", "failure", "thrown"}
        /\ (pass.failed \/ answer # "applied") \in BOOLEAN
    OBVIOUS
  <2>4. pass' \in [answer : {"none", "applied", "failure", "thrown"},
                   purgeDue : BOOLEAN, recovered : BOOLEAN, failed : BOOLEAN,
                   everRecovered : BOOLEAN, everPurged : BOOLEAN,
                   startupComplete : BOOLEAN, failures : 0..MaxFailures]
    BY <2>1, <2>3
  <2>5. loop' \in Settled /\ due' = due /\ fault' = fault
    BY <1>10 DEF LoopCallSettles, Calling, Settled
  <2> QED
    BY <2>2, <2>4, <2>5
<1>11. CASE RecoverContinues
  <2> DEFINE applied == pass.answer = "applied"
             p == [pass EXCEPT !.recovered = applied, !.everRecovered = @ \/ applied]
  <2>1. /\ pass' = p
        /\ due' = [due EXCEPT !.recovery = @ /\ ~applied]
        /\ fault' = fault
        /\ Call("purging") \/ (loop' = "decide" /\ stopReason' = stopReason)
    BY <1>11 DEF RecoverContinues
  <2>2. p \in [answer : {"none", "applied", "failure", "thrown"},
               purgeDue : BOOLEAN, recovered : BOOLEAN, failed : BOOLEAN,
               everRecovered : BOOLEAN, everPurged : BOOLEAN,
               startupComplete : BOOLEAN, failures : 0..MaxFailures]
    OBVIOUS
  <2>3. due' \in [recovery : BOOLEAN, purge : BOOLEAN, poll : BOOLEAN]
    BY <2>1
  <2> HIDE DEF applied, p
  <2>4. loop' \in Calling \cup {"decide"} /\ stopReason' \in StopReasons
    BY <1>8, <2>1 DEF Calling
  <2> QED
    BY <2>1, <2>2, <2>3, <2>4
<1>12. CASE PurgeContinues
  <2> DEFINE applied == pass.answer = "applied"
  <2>1. /\ pass' = [pass EXCEPT !.everPurged = @ \/ applied]
        /\ due' = [due EXCEPT !.purge = @ /\ ~applied]
        /\ loop' = "decide" /\ stopReason' = stopReason /\ fault' = fault
    BY <1>12 DEF PurgeContinues
  <2> QED
    BY <2>1
<1>13. CASE Decide
  <2>1. CASE PollAdmitted(pass)
    <3>1. /\ pass' = [pass EXCEPT !.startupComplete = TRUE, !.answer = "none"]
          /\ Call("claiming") /\ due' = due /\ fault' = fault
      BY <1>13, <2>1 DEF Decide
    <3>2. loop' \in Calling /\ stopReason' \in StopReasons
      BY <1>8, <3>1 DEF Calling
    <3> QED
      BY <3>1, <3>2
  <2>2. CASE ~PollAdmitted(pass)
    BY <1>6, <1>13, <2>2 DEF Decide
  <2> QED
    BY <2>1, <2>2
<1>14. CASE Wake \/ \E k \in {"recovery", "purge", "poll"} : Elapse(k)
  BY <1>14 DEF Wake, Elapse
<1>15. CASE BatchStarts
  BY <1>2, <1>3, <1>15 DEF BatchStarts
<1>16. CASE ClaimFails
  BY <1>6, <1>16 DEF ClaimFails
<1>17. CASE BatchEnds
  BY <1>2, <1>3, <1>6, <1>17 DEF BatchEnds, End
<1>18. ASSUME NEW j \in BatchJobs, JobCallSettles(j)
       PROVE  LocalTypes'
  <2>1. PICK answer \in {"applied", "refused", "failure", "violation", "thrown"} :
          /\ pass' = [pass EXCEPT !.failed =
                         pass.failed \/ answer \in {"failure", "violation", "thrown"}]
          /\ \E jobs :
               Settles(jobs, Returned, IF answer = "violation"
                                       THEN {"repository_contract_violation"} ELSE {})
    BY <1>18 DEF JobCallSettles
  <2>2. stopReason' \in StopReasons
    BY <1>2, <1>3, <2>1
  <2>3. (pass.failed \/ answer \in {"failure", "violation", "thrown"}) \in BOOLEAN
    OBVIOUS
  <2>4. pass' \in [answer : {"none", "applied", "failure", "thrown"},
                   purgeDue : BOOLEAN, recovered : BOOLEAN, failed : BOOLEAN,
                   everRecovered : BOOLEAN, everPurged : BOOLEAN,
                   startupComplete : BOOLEAN, failures : 0..MaxFailures]
    BY <2>1, <2>3
  <2>5. loop' = loop /\ due' = due /\ fault' = fault
    BY <1>18 DEF JobCallSettles
  <2> QED
    BY <2>2, <2>4, <2>5
<1>19. ASSUME NEW j \in BatchJobs, Send(j) \/ SendRefused(j) \/ SendSettles(j) \/ Finalize(j)
       PROVE  LocalTypes'
  <2>1. \E jobs, a : Settles(jobs, a, {})
    BY <1>19 DEF Send, SendRefused, SendSettles, Finalize
  <2>2. UNCHANGED <<loop, pass, due, fault>>
    BY <1>19 DEF Send, SendRefused, SendSettles, Finalize
  <2> QED
    BY <1>2, <1>3, <2>1, <2>2
<1> QED
  BY <1>1, <1>5, <1>7, <1>9, <1>10, <1>11, <1>12, <1>13, <1>14, <1>15, <1>16, <1>17, <1>18, <1>19
     DEF RuntimeNext, Looping, Batch

\* The runtime's variables keep their types: no counter goes below zero, and the
\* back-off tier stays in its table.
THEOREM RuntimeTypeCorrect == RuntimeSpec => []RuntimeTypeOK
<1>1. RuntimeInit => LocalTypes
  <2> SUFFICES ASSUME RuntimeInit PROVE LocalTypes
    OBVIOUS
  <2>1. 0 \in 0..MaxFailures
    BY RuntimeAssumption
  <2>2. pass \in [answer : {"none", "applied", "failure", "thrown"},
                  purgeDue : BOOLEAN, recovered : BOOLEAN, failed : BOOLEAN,
                  everRecovered : BOOLEAN, everPurged : BOOLEAN,
                  startupComplete : BOOLEAN, failures : 0..MaxFailures]
    BY <2>1 DEF RuntimeInit
  <2>3. stopReason \in StopReasons /\ loop = "off" /\ fault \in BOOLEAN
    BY DEF RuntimeInit, StopReasons
  <2>4. due \in [recovery : BOOLEAN, purge : BOOLEAN, poll : BOOLEAN]
    BY DEF RuntimeInit
  <2> QED
    BY <2>2, <2>3, <2>4 DEF LocalTypes
<1>2. FlowCovers /\ CountersExact /\ LocalTypes => RuntimeTypeOK
  <2> SUFFICES ASSUME FlowCovers, CountersExact, LocalTypes
               PROVE  RuntimeTypeOK
    OBVIOUS
  <2>1. active.repository \in Nat /\ active.provider \in Nat
    BY CallsAreFinite DEF CountersExact, LoopCalls
  <2>2. active \in [flow : BOOLEAN, repository : Nat, provider : Nat]
    BY <2>1 DEF FlowCovers
  <2> QED
    BY <2>2 DEF FlowCovers, LocalTypes, RuntimeTypeOK
<1>3. LocalTypes /\ [RuntimeNext]_runtimeVars => LocalTypes'
  BY LocalsKeep
<1> QED
  BY <1>1, <1>2, <1>3, FlowInvariant, CountersAreExact, PTL DEF RuntimeSpec
=============================================================================
