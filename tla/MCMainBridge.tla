---------------------------- MODULE MCMainBridge ----------------------------
(* MainBridge for TLC: three authorities, two needed, words modulo 8. *)
EXTENDS Encoding, TLC

CONSTANTS a1, a2, a3

MCAuthorities == <<a1, a2, a3>>
Symmetry == Permutations({a1, a2, a3}) \cup Permutations(SideTx)
=============================================================================
