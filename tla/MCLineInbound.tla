---------------------------- MODULE MCLineInbound -----------------------------
(* Instances of LineInbound for TLC. *)
EXTENDS LineInbound, TLC

CONSTANTS d1, d2, t1, t2, x, u1, u2

Told(user, kind) == [user |-> user, kind |-> kind]

\* Two texts, of one user or of two, and an event that is no text.
MCAssignments ==
  {(t1 :> Told(u1, "text")) @@ (t2 :> Told(u, "text")) @@ (x :> Told(u1, k)) :
     <<u, k>> \in {<<u1, "media">>, <<u2, "other">>, <<u2, "anonymous">>}}

\* Two deliveries at a time, of the same text or of two; or a longer one alone.
MCTraffic ==
  {(d1 :> one) @@ (d2 :> two) :
     <<one, two>> \in {<< <<t1>>, <<t1>> >>, << <<t1>>, <<t2>> >>,
                       << <<x, t1>>, <<>> >>, << <<t1, t2>>, <<>> >>}}

Symmetry == Permutations(Contacts)
=============================================================================
