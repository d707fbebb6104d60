------------------------------ MODULE MCProbe -------------------------------
(* A leader and two descendants: enough for a daemon that forks twice, for  *)
(* a descendant that leaves the group, and for a chain the sweep must walk. *)
EXTENDS Probe

CONSTANTS l, d1, d2
=============================================================================
