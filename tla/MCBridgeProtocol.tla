-------------------------- MODULE MCBridgeProtocol --------------------------
(* BridgeProtocol for TLC. *)
EXTENDS BridgeProtocol, TLC

CONSTANTS h1, h2, b1

(* Two honest authorities and one Byzantine one, two signatures needed. *)
MCAuthorities == <<h1, h2, b1>>
Symmetry == Permutations({h1, h2}) \cup Permutations(MainTx)
=============================================================================
