--------------------------- MODULE MCSettingsAuth ---------------------------
(* SettingsAuth for TLC: names that only stand for rows or calls may be      *)
(* exchanged with each other.                                                *)
EXTENDS SettingsAuth, TLC

Symmetry == Permutations(Installations) \cup Permutations(Grants)
            \cup Permutations(Challenges) \cup Permutations(Sessions)
            \cup Permutations(Calls)

(* Two things are explored side by side.  With at most two codes, two        *)
(* sessions and one installation holding grants, everything may happen but   *)
(* wrong codes and a reinstallation in one behaviour.  With a third code, a  *)
(* third session or grants of a second installation, which the races of      *)
(* logins need, time, generations and failures stand still.  A grant of a    *)
(* callback is the only grant of its behaviour, and so is a short one, whose *)
(* codes expire while a call waits.                                          *)
UsedOnes == {i \in Installations : \E g \in Grants : grant[g].installation = i}

Crowded == \/ Cardinality({c \in Challenges : challenge[c].state # "absent"}) = 3
           \/ Cardinality({s \in Sessions : session[s].state # "absent"}) = 3
           \/ Cardinality(UsedOnes) = 2

OneGeneration == \A i \in Installations : install[i].generation = 1
NoFailures == \A c \in Challenges : challenge[c].failures = <<>>

Short(g) == grant[g].expires_at < grant[g].issued_at + 2
OnlyGrant(g) == \A h \in Grants : grant[h].state # "absent" => g = h

Explored ==
    /\ OneGeneration \/ NoFailures
    /\ Crowded => now = 1 /\ OneGeneration /\ NoFailures
    /\ \A g \in Grants :
         /\ grant[g].method = "install_callback" => OnlyGrant(g) /\ ~Crowded
         /\ grant[g].state # "absent" /\ Short(g)
              => OnlyGrant(g) /\ OneGeneration /\ NoFailures
=============================================================================
