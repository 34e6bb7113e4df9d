---------------------------- MODULE MCSideBridge ----------------------------
(* SideBridge for TLC. *)
EXTENDS SideBridge, TLC

CONSTANTS a1, a2, a3

(* Quorum instance: three authorities, two needed. *)
QuorumAuthorities == <<a1, a2, a3>>
QuorumSymmetry ==
    Permutations({a1, a2, a3}) \cup Permutations(MainTx) \cup Permutations(SideTx)

(* Token instance: the one authority listed mints at once. *)
TokenAuthorities == <<a1>>
TokenSymmetry == Permutations(Recipient) \cup Permutations(MainTx)
=============================================================================
