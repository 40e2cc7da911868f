---------------------------- MODULE CodeDelivery ----------------------------
(***************************************************************************)
(* What the e-mail outbox promises for a one-time code, without rows,      *)
(* leases or sessions: a code is submitted to the provider a few times at  *)
(* most, again only after the provider proved it refused the mail before,  *)
(* and never once the verdict on its challenge is in; the verdict, once    *)
(* in, stays, and says "succeeded" only of a mail the provider accepted.   *)
(***************************************************************************)
EXTENDS Naturals

CONSTANTS Codes, MaxTries

VARIABLES mail, tries, verdict

vars == <<mail, tries, verdict>>

TypeOK ==
    /\ mail \in [Codes -> {"unsent", "in_flight", "accepted", "refused"}]
    /\ tries \in [Codes -> 0..MaxTries]
    /\ verdict \in [Codes -> {"none", "succeeded", "failed"}]

Init ==
    /\ mail = [c \in Codes |-> "unsent"]
    /\ tries = [c \in Codes |-> 0]
    /\ verdict = [c \in Codes |-> "none"]

Submit(c) ==
    /\ verdict[c] = "none"
    /\ mail[c] \in {"unsent", "refused"}
    /\ tries[c] < MaxTries
    /\ mail' = [mail EXCEPT ![c] = "in_flight"]
    /\ tries' = [tries EXCEPT ![c] = @ + 1]
    /\ UNCHANGED verdict

ProviderDecides(c) ==
    /\ mail[c] = "in_flight"
    /\ \E m \in {"accepted", "refused"} : mail' = [mail EXCEPT ![c] = m]
    /\ UNCHANGED <<tries, verdict>>

Conclude(c) ==
    /\ verdict[c] = "none"
    /\ \E v \in {"succeeded", "failed"} :
         /\ v = "succeeded" => mail[c] = "accepted"
         /\ verdict' = [verdict EXCEPT ![c] = v]
    /\ UNCHANGED <<mail, tries>>

Next == \E c \in Codes : Submit(c) \/ ProviderDecides(c) \/ Conclude(c)

Spec == Init /\ [][Next]_vars
=============================================================================
