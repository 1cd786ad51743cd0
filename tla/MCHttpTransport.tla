-------------------------- MODULE MCHttpTransport --------------------------
(* Instances of HttpTransport for TLC. *)
EXTENDS HttpTransport, TLC

CONSTANTS t1, t2, a

MCThread == {t1, t2}
MCToken == {a}
Symmetry == Permutations(MCThread)
============================================================================
