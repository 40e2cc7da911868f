--------------------------- MODULE MessageDelivery ---------------------------
(***************************************************************************)
(* What the two outbound paths (SMS through EVERY8D, LINE through its      *)
(* channels) promise of a message that HighLevel calls back about, without *)
(* rows, claims, late calls or deaths: it is submitted once at most, by    *)
(* one of its handlers, and never once anything is settled about it; what  *)
(* is recorded of it is never changed, what HighLevel was told is never    *)
(* taken back, and both are true of what the provider did.                 *)
(***************************************************************************)

CONSTANTS Messages, Handlers, None

VARIABLES
  attempt,  \* what each handler submitted, and what the provider made of it
  record,   \* what is recorded of each message in the end
  told      \* what HighLevel has been told of it

vars == <<attempt, record, told>>

NoAttempt == [of |-> None, fate |-> "none"]

Init ==
  /\ attempt = [h \in Handlers |-> NoAttempt]
  /\ record = [m \in Messages |-> "none"]
  /\ told = [m \in Messages |-> {}]

Submit(h, m) ==
  /\ attempt[h] = NoAttempt
  /\ \A k \in Handlers : attempt[k].of # m
  /\ record[m] = "none" /\ told[m] = {}
  /\ attempt' = [attempt EXCEPT ![h] = [of |-> m, fate |-> "submitted"]]
  /\ UNCHANGED <<record, told>>

ProviderDecides(h) ==
  /\ attempt[h].fate = "submitted"
  /\ \E fate \in {"accepted", "refused"} : attempt' = [attempt EXCEPT ![h].fate = fate]
  /\ UNCHANGED <<record, told>>

\* A message is said to be sent only when the provider has it, recorded as
\* failed only when the provider will never have it, and never said to be both.
Truthful(m, r, words) ==
  /\ r = "sent" \/ "sent" \in words =>
       \E h \in Handlers : attempt[h] = [of |-> m, fate |-> "accepted"]
  /\ r = "failed" => \A h \in Handlers : attempt[h].of = m => attempt[h].fate = "refused"
  /\ "sent" \in words => r \in {"none", "sent"} /\ "failed" \notin words
  /\ "failed" \in words => r # "sent"

\* The outcome is recorded, or told, or both.
Conclude(m) ==
  /\ UNCHANGED attempt
  /\ \E r \in {"none", "sent", "failed", "unknown"} :
       /\ record[m] \in {"none", r}
       /\ record' = [record EXCEPT ![m] = r]
       /\ \E words \in SUBSET {"sent", "failed"} :
            /\ told[m] \subseteq words
            /\ told' = [told EXCEPT ![m] = words]
            /\ Truthful(m, r, words)

\* Most of what the handlers do is neither.
Prepare == UNCHANGED vars

Next ==
  \/ Prepare
  \/ \E h \in Handlers : ProviderDecides(h) \/ \E m \in Messages : Submit(h, m)
  \/ \E m \in Messages : Conclude(m)

Spec == Init /\ [][Next]_vars
=============================================================================
