-------------------------- MODULE MCLocationTokens --------------------------
(* LocationTokens for TLC: handlers of one kind, locations and keys may be   *)
(* exchanged with each other.                                                *)
EXTENDS LocationTokens, TLC

Symmetry == Permutations(Installs) \cup Permutations(Callbacks) \cup Permutations(Requests)
            \cup Permutations(Previews) \cup Permutations(Locations) \cup Permutations(Keys)
=============================================================================
