--------------------------- MODULE MCSmsOutbound ---------------------------
(* SmsOutbound for TLC: callbacks, messages and authorizations of one        *)
(* Location may be exchanged.                                                *)
EXTENDS SmsOutbound, TLC

Symmetry == Permutations(Callbacks) \cup Permutations(Messages) \cup Permutations(Authorizations)
=============================================================================
