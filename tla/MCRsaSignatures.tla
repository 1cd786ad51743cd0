-------------------------- MODULE MCRsaSignatures --------------------------
(* Instances of RsaSignatures for TLC: bytes of 3 bits, a digest of one     *)
(* byte.  The first modulus has just enough room for the padding, the       *)
(* second has its high bit set, the third is too short.                     *)
EXTENDS RsaSignatures

MCPairs == {
    [modulus |-> 4757, exponent |-> 13, privateExponent |-> 1777, prime |-> 67],
    [modulus |-> 16637, exponent |-> 11, privateExponent |-> 14891, prime |-> 127],
    [modulus |-> 4087, exponent |-> 7, privateExponent |-> 2263, prime |-> 61]}

MCContents == {1, 6}
MCDigest == [c \in MCContents |-> <<c>>]
============================================================================
