-------------------------- MODULE MCGhlCredentials --------------------------
(* GhlCredentials for TLC: an installation that is uninstalled and           *)
(* installed again, and an event as old as the reinstallation that           *)
(* contradicts it.  Processes and callbacks may be exchanged.                *)
EXTENDS GhlCredentials, TLC

MCEventType == <<"INSTALL", "UNINSTALL", "INSTALL", "UNINSTALL">>
MCEventAt == <<1, 2, 3, 3>>

Symmetry == Permutations(Bootstraps) \cup Permutations(Reconnects)
            \cup Permutations(Reconcilers) \cup Permutations(Workers)
=============================================================================
