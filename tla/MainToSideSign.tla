--------------------------- MODULE MainToSideSign ---------------------------
(***************************************************************************)
(* The future MainToSideSign (bridge/src/main_to_side_sign.rs): for one    *)
(* Deposit log of MainBridge it asks whether this authority has confirmed  *)
(* the deposit on side already and, if not, sends SideBridge.deposit.      *)
(*                                                                         *)
(* `future` is all futures of all authorities, by the authority and the    *)
(* log.  Each action is one turn of the loop in poll: the answer to the    *)
(* request under way is processed.  A failed or timed-out request is an    *)
(* error, which ends the process.                                          *)
(***************************************************************************)
CONSTANT Id                 \* an authority and a log

VARIABLE future

States == {"none", "AwaitAlreadySigned", "AwaitTxSent", "done"}

TypeOK == future \in [Id -> States]

Init == future = [id \in Id |-> "none"]

new(id) ==
    /\ future[id] = "none"
    /\ future' = [future EXCEPT ![id] = "AwaitAlreadySigned"]

pollAlreadySigned(id, has_already_signed) ==
    /\ future[id] = "AwaitAlreadySigned"
    /\ future' = [future EXCEPT ![id] =
                     IF has_already_signed THEN "done" ELSE "AwaitTxSent"]

(* The transaction is in the hands of the authority's Ethereum node. *)
pollTxSent(id) ==
    /\ future[id] = "AwaitTxSent"
    /\ future' = [future EXCEPT ![id] = "done"]
=============================================================================
