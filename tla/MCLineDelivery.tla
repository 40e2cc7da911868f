---------------------------- MODULE MCLineDelivery ----------------------------
(* LineDelivery for TLC: runs, callbacks and messages may be exchanged.  The *)
(* constraints end what follows when troubles meet, and a run whose files    *)
(* meet no callback; both are left to the proofs.                            *)
EXTENDS LineDelivery, TLC

Symmetry == Permutations(Runs) \cup Permutations(Callbacks) \cup Permutations(Messages)

\* At one time one write whose caller saw an error is still to come, or one
\* handler is dead.
OneTrouble ==
  /\ \A v, w \in late : v = w
  /\ \A a, b \in Actors : at[a] = "dead" /\ at[b] = "dead" => a = b
  /\ late = {} \/ \A a \in Actors : at[a] # "dead"

\* Images and attachments share no row with a callback.
FilesAlone ==
  \A r \in Runs : job[r].kind = "files" => \A c \in Callbacks : at[c] = "idle"
=============================================================================
