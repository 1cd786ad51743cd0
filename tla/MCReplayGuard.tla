--------------------------- MODULE MCReplayGuard ---------------------------
(* Instances of ReplayGuard for TLC. *)
EXTENDS ReplayGuard, TLC

CONSTANTS t1, t2, e1, e2, e3

MCThread == {t1, t2}
MCEventId == {e1, e2, e3}
Symmetry == Permutations(MCThread) \cup Permutations(MCEventId)
============================================================================
