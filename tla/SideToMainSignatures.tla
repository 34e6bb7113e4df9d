------------------------ MODULE SideToMainSignatures ------------------------
(***************************************************************************)
(* The future SideToMainSignatures (bridge/src/side_to_main_signatures.rs):*)
(* for one CollectedSignatures log that names this authority it fetches    *)
(* the message, asks whether MainBridge has paid it already and, if not,   *)
(* fetches the signatures and sends MainBridge.withdraw.  Laid out like    *)
(* MainToSideSign; `signatures` are the ones the request under way is with.*)
(***************************************************************************)
EXTENDS Sequences

CONSTANTS Id,               \* an authority and a log
          Signature

VARIABLE future

at(name) == [name |-> name, signatures |-> <<>>]

States ==
    {at(name) : name \in {"none", "AwaitMessage", "AwaitIsRelayed", "AwaitSignatures",
                          "done"}}
        \cup [name : {"AwaitTxSent"}, signatures : Seq(Signature)]

TypeOK == future \in [Id -> States]

Init == future = [id \in Id |-> at("none")]

new(id) ==
    /\ future[id].name = "none"
    /\ future' = [future EXCEPT ![id] = at("AwaitMessage")]

pollMessage(id) ==
    /\ future[id].name = "AwaitMessage"
    /\ future' = [future EXCEPT ![id] = at("AwaitIsRelayed")]

pollIsRelayed(id, is_relayed) ==
    /\ future[id].name = "AwaitIsRelayed"
    /\ future' = [future EXCEPT ![id] =
                     at(IF is_relayed THEN "done" ELSE "AwaitSignatures")]

pollSignatures(id, raw_signatures) ==
    /\ future[id].name = "AwaitSignatures"
    /\ future' = [future EXCEPT ![id] =
                     [name |-> "AwaitTxSent", signatures |-> raw_signatures]]

pollTxSent(id) ==
    /\ future[id].name = "AwaitTxSent"
    /\ future' = [future EXCEPT ![id] = at("done")]
=============================================================================
