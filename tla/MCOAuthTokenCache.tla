------------------------- MODULE MCOAuthTokenCache -------------------------
(* Instances of OAuthTokenCache for TLC.  An expiresTime of 2 is in seconds,  *)
(* that is 4 ms, and one of 3 is in milliseconds.                            *)
EXTENDS OAuthTokenCache, TLC

CONSTANTS t1, t2

MCThread == {t1, t2}
MCExpiry == {0, 2, 3}
Symmetry == Permutations(MCThread)
============================================================================
