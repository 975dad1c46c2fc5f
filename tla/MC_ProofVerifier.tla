------------------------- MODULE MC_ProofVerifier --------------------------
(* Model-checking instance of ProofVerifier: three verifiers, weights    *)
(* that make exactly two thirds possible, heights 0 to 2.               *)
EXTENDS ProofVerifier, TLC

CONSTANTS a1, a2, a3

MC_Addrs == {a1, a2, a3}
MC_AddrOrder == <<a1, a2, a3>>
MC_Weights == {1, 2}
MC_Numbers == {0, 1, 2}
=============================================================================
