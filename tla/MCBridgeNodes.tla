---------------------------- MODULE MCBridgeNodes ----------------------------
(* BridgeNodes for TLC. *)
EXTENDS BridgeNodes

CONSTANTS h1, h2, b1

(* Safety: one honest authority and one Byzantine one, both needed. *)
MixedAuthorities == <<h1, b1>>

(* Liveness: two honest authorities, both needed. *)
HonestAuthorities == <<h1, h2>>
=============================================================================
