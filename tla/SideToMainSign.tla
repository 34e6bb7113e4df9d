--------------------------- MODULE SideToMainSign ---------------------------
(***************************************************************************)
(* The future SideToMainSign (bridge/src/side_to_main_sign.rs): for one    *)
(* Withdraw log of SideBridge it asks whether this authority has submitted *)
(* its signature already and, if not, has the message signed and sends     *)
(* SideBridge.submitSignature.  Laid out like MainToSideSign.              *)
(***************************************************************************)
CONSTANT Id                 \* an authority and a log

VARIABLE future

States == {"none", "AwaitCheckAlreadySigned", "AwaitSignature", "AwaitTransaction",
           "done"}

TypeOK == future \in [Id -> States]

Init == future = [id \in Id |-> "none"]

new(id) ==
    /\ future[id] = "none"
    /\ future' = [future EXCEPT ![id] = "AwaitCheckAlreadySigned"]

pollCheckAlreadySigned(id, is_already_signed) ==
    /\ future[id] = "AwaitCheckAlreadySigned"
    /\ future' = [future EXCEPT ![id] =
                     IF is_already_signed THEN "done" ELSE "AwaitSignature"]

pollSignature(id) ==
    /\ future[id] = "AwaitSignature"
    /\ future' = [future EXCEPT ![id] = "AwaitTransaction"]

pollTransaction(id) ==
    /\ future[id] = "AwaitTransaction"
    /\ future' = [future EXCEPT ![id] = "done"]
=============================================================================
