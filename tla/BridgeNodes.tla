----------------------------- MODULE BridgeNodes -----------------------------
(***************************************************************************)
(* The bridge with the processes of its authorities.  Each honest          *)
(* authority runs the three relays of Bridge (bridge/src/bridge.rs): a     *)
(* future per log, which looks at a contract, decides, and sends a         *)
(* transaction that is mined some time later, or reverts.  A process may   *)
(* end at any time and loses its futures; it starts again from the         *)
(* database, where a log counts as checked once its future has completed.  *)
(*                                                                         *)
(* Here each log has a block range of its own; what becomes of ranges with *)
(* several logs, which the first completed relay records as a whole, is    *)
(* RelayStream's subject.  A transaction handed to an Ethereum node is     *)
(* mined, after others that were sent before or after it, or dropped, and  *)
(* no process asks what became of it.                                      *)
(***************************************************************************)
EXTENDS BridgeProtocol

CONSTANTS MaxCrashes,       \* bound: how often a process ends
          MaxDrops          \* bound: how many transactions are dropped

ASSUME FaultsAssumption == MaxCrashes \in Nat /\ MaxDrops \in Nat

(* A withdraw with as many signatures as it needs is within the bound. *)
ASSUME SignaturesAssumption == requiredSignatures <= MaxSignatures

VARIABLES
    mainToSideSign, sideToMainSign, sideToMainSignatures,   \* futures
    pool,               \* transactions sent and not yet mined
    running, run,       \* per authority: its process runs; how often it ended
    database,           \* per authority: the logs persisted as checked
    dropped             \* transactions sent that will never be mined

futureVars == <<mainToSideSign, sideToMainSign, sideToMainSignatures>>
nodeVars == <<futureVars, pool, running, run, database, dropped>>
allVars == <<vars, nodeVars>>

Honest == (Range(authorities) \cap Caller) \ Byzantine

Deposits == INSTANCE MainToSideSign WITH
                Id <- Honest \X DepositKey, future <- mainToSideSign
Withdraws == INSTANCE SideToMainSign WITH
                Id <- Honest \X Message, future <- sideToMainSign
Collected == INSTANCE SideToMainSignatures WITH
                Id <- Honest \X Message, future <- sideToMainSignatures

(* State, of database.rs: one entry for each relay. *)
State == [main_to_side_sign       : SUBSET DepositKey,
          side_to_main_sign       : SUBSET Message,
          side_to_main_signatures : SUBSET Message]

Transaction ==
    [from : Honest, run : 0 .. MaxCrashes, call : {"deposit"},
     log : DepositKey, signatures : {<<>>}]
    \cup [from : Honest, run : 0 .. MaxCrashes, call : {"submitSignature", "withdraw"},
          log : Message, signatures : Seq(Signature)]

NodesTypeOK ==
    /\ Deposits!TypeOK /\ Withdraws!TypeOK /\ Collected!TypeOK
    /\ pool \subseteq Transaction
    /\ running \in [Honest -> BOOLEAN] /\ run \in [Honest -> 0 .. MaxCrashes]
    /\ database \in [Honest -> State]
    /\ dropped \subseteq Transaction

NodesInit ==
    /\ Init
    /\ Deposits!Init /\ Withdraws!Init /\ Collected!Init
    /\ pool = {} /\ dropped = {}
    /\ running = [a \in Honest |-> TRUE] /\ run = [a \in Honest |-> 0]
    /\ database = [a \in Honest |-> [main_to_side_sign       |-> {},
                                     side_to_main_sign       |-> {},
                                     side_to_main_signatures |-> {}]]

-----------------------------------------------------------------------------
(* Sending: the three transactions an authority makes. *)

send(authority, call, log, sigs) ==
    pool' = pool \cup {[from |-> authority, run |-> run[authority], call |-> call,
                        log |-> log, signatures |-> sigs]}

(* sign_main_to_side: the fields of the Deposit log and its transaction. *)
depositInput(key) ==
    [recipient |-> key.recipient, value |-> key.value,
     transactionHash |-> key.transactionHash]

(* A message that asks for another gas price than the user did. *)
MutantFromLog(log) ==
    [log EXCEPT !.mainGasPrice = CHOOSE p \in GasPrice : p # log.mainGasPrice]

(* MessageToMain::from_log: the fields of the Withdraw log, in the order of *)
(* the bytes, with the transaction hash between them.                       *)
from_log(log) ==
    [recipient |-> log.recipient, value |-> log.value,
     transactionHash |-> log.transactionHash, mainGasPrice |-> log.mainGasPrice]

(* One signature short. *)
MutantGetSignatures(message) ==
    SubSeq(signatures[message].signatures, 1, requiredSignatures - 1)

get_signatures(message) ==
    SubSeq(signatures[message].signatures, 1, requiredSignatures)

(* A gas price of the node's own. *)
MutantRelayGasPrice(message) == CHOOSE p \in GasPrice : p # message.mainGasPrice

(* relay_side_to_main sends withdraw with the gas price of the message. *)
relayGasPrice(message) == message.mainGasPrice

(* A log counts as checked as soon as its relay is under way. *)
MutantCompleted(name) == name # "none"

(* What RelayStream waits for before a log counts as checked. *)
completed(name) == name = "done"

-----------------------------------------------------------------------------
(* The relay of Deposit logs. *)

newMainToSideSign(a, key) ==
    /\ mainDepositLog[key] > 0
    /\ key \notin database[a].main_to_side_sign
    /\ Deposits!new(<<a, key>>)
    /\ UNCHANGED <<pool, database>>

pollMainToSideSign(a, key) ==
    \/ /\ Deposits!pollAlreadySigned(<<a, key>>,
                                     Side!hasAuthoritySignedMainToSide(a, key))
       /\ UNCHANGED pool
    \/ /\ Deposits!pollTxSent(<<a, key>>)
       /\ send(a, "deposit", depositInput(key), <<>>)

persistMainToSideSign(a, key) ==
    /\ completed(mainToSideSign[<<a, key>>])
    /\ key \notin database[a].main_to_side_sign
    /\ database' = [database EXCEPT ![a].main_to_side_sign = @ \cup {key}]
    /\ UNCHANGED <<mainToSideSign, pool>>

relayDeposit(a, key) ==
    /\ running[a]
    /\ \/ newMainToSideSign(a, key)
       \/ pollMainToSideSign(a, key) /\ UNCHANGED database
       \/ persistMainToSideSign(a, key)
    /\ UNCHANGED <<vars, sideToMainSign, sideToMainSignatures, running, run, dropped>>

-----------------------------------------------------------------------------
(* The relay of Withdraw logs.  Signing makes a signature exist. *)

newSideToMainSign(a, log) ==
    /\ sideWithdrawLog[log] > 0
    /\ log \notin database[a].side_to_main_sign
    /\ Withdraws!new(<<a, log>>)
    /\ UNCHANGED <<vars, pool, database>>

pollSideToMainSign(a, log) ==
    LET message == from_log(log) IN
    \/ /\ Withdraws!pollCheckAlreadySigned(<<a, log>>,
                                           Side!hasAuthoritySignedSideToMain(a, message))
       /\ UNCHANGED <<vars, pool>>
    \/ /\ Withdraws!pollSignature(<<a, log>>)
       /\ Main!eth_sign(a, message)
       /\ UNCHANGED <<sideVars, pool>>
    \/ /\ Withdraws!pollTransaction(<<a, log>>)
       /\ send(a, "submitSignature", message, <<[signer |-> a, message |-> message]>>)
       /\ UNCHANGED vars

persistSideToMainSign(a, log) ==
    /\ completed(sideToMainSign[<<a, log>>])
    /\ log \notin database[a].side_to_main_sign
    /\ database' = [database EXCEPT ![a].side_to_main_sign = @ \cup {log}]
    /\ UNCHANGED <<vars, sideToMainSign, pool>>

relayWithdraw(a, log) ==
    /\ running[a]
    /\ \/ newSideToMainSign(a, log)
       \/ pollSideToMainSign(a, log) /\ UNCHANGED database
       \/ persistSideToMainSign(a, log)
    /\ UNCHANGED <<mainToSideSign, sideToMainSignatures, running, run, dropped>>

-----------------------------------------------------------------------------
(* The relay of CollectedSignatures logs that name this authority. *)

newSideToMainSignatures(a, message) ==
    /\ collectedLog[[authorityResponsibleForRelay |-> a, message |-> message]] > 0
    /\ message \notin database[a].side_to_main_signatures
    /\ Collected!new(<<a, message>>)
    /\ UNCHANGED <<pool, database>>

pollSideToMainSignatures(a, message) ==
    LET id == <<a, message>> IN
    \/ Collected!pollMessage(id) /\ UNCHANGED pool
    \/ /\ Collected!pollIsRelayed(id, message.transactionHash \in withdraws)
       /\ UNCHANGED pool
    \/ Collected!pollSignatures(id, get_signatures(message)) /\ UNCHANGED pool
    \/ /\ Collected!pollTxSent(id)
       /\ send(a, "withdraw", message, sideToMainSignatures[id].signatures)

persistSideToMainSignatures(a, message) ==
    /\ completed(sideToMainSignatures[<<a, message>>].name)
    /\ message \notin database[a].side_to_main_signatures
    /\ database' = [database EXCEPT ![a].side_to_main_signatures = @ \cup {message}]
    /\ UNCHANGED <<sideToMainSignatures, pool>>

relayCollected(a, message) ==
    /\ running[a]
    /\ \/ newSideToMainSignatures(a, message)
       \/ pollSideToMainSignatures(a, message) /\ UNCHANGED database
       \/ persistSideToMainSignatures(a, message)
    /\ UNCHANGED <<vars, mainToSideSign, sideToMainSign, running, run, dropped>>

-----------------------------------------------------------------------------
(* External: the chains mine what was sent; a call that reverts does nothing. *)

execute(t) ==
    \/ /\ t.call = "deposit"
       /\ Side!deposit(t.from, t.log)
       /\ UNCHANGED <<mainVars, signed>>
    \/ /\ t.call = "submitSignature"
       /\ Side!submitSignature(t.from, t.signatures[1], t.log)
       /\ UNCHANGED <<mainVars, signed>>
    \/ /\ t.call = "withdraw"
       /\ Main!withdraw(t.from, relayGasPrice(t.log), t.signatures, t.log)
       /\ UNCHANGED sideVars

mine(t) ==
    /\ pool' = pool \ {t}
    /\ \/ execute(t)
       \/ ~ENABLED execute(t) /\ UNCHANGED vars
    /\ UNCHANGED <<futureVars, running, run, database, dropped>>

(* External: a transaction that was accepted is never mined. *)
drop(t) ==
    /\ Cardinality(dropped) < MaxDrops
    /\ dropped' = dropped \cup {t}
    /\ pool' = pool \ {t}
    /\ UNCHANGED <<vars, futureVars, running, run, database>>

-----------------------------------------------------------------------------
(* The process ends, by an error or a crash, and is started again. *)

crash(a) ==
    /\ running[a]
    /\ SumFunction(run) < MaxCrashes
    /\ running' = [running EXCEPT ![a] = FALSE]
    /\ run' = [run EXCEPT ![a] = @ + 1]
    /\ mainToSideSign' = [id \in DOMAIN mainToSideSign |->
                            IF id[1] = a THEN "none" ELSE mainToSideSign[id]]
    /\ sideToMainSign' = [id \in DOMAIN sideToMainSign |->
                            IF id[1] = a THEN "none" ELSE sideToMainSign[id]]
    /\ sideToMainSignatures' = [id \in DOMAIN sideToMainSignatures |->
                            IF id[1] = a THEN Collected!at("none")
                            ELSE sideToMainSignatures[id]]
    /\ UNCHANGED <<vars, pool, database, dropped>>

restart(a) ==
    /\ ~running[a]
    /\ running' = [running EXCEPT ![a] = TRUE]
    /\ UNCHANGED <<vars, futureVars, pool, run, database, dropped>>

-----------------------------------------------------------------------------
(* One step of the event loop of an authority's process. *)
Node(a) ==
    \/ \E key \in DepositKey : relayDeposit(a, key)
    \/ \E log \in Message : relayWithdraw(a, log)
    \/ \E message \in Message : relayCollected(a, message)

Mine == \E t \in pool : mine(t)

(* Users, Byzantine authorities, and whoever calls MainBridge.withdraw. *)
Environment ==
    /\ \/ UserNext
       \/ \E a \in Byzantine \cap Caller : AuthorityNext(a)
       \/ WithdrawNext
    /\ UNCHANGED nodeVars

NodesNext ==
    \/ \E a \in Honest : Node(a) \/ crash(a) \/ restart(a)
    \/ Mine
    \/ \E t \in pool : drop(t)
    \/ Environment

(***************************************************************************)
(* The event loop of a process polls all its futures, somebody starts a    *)
(* process again when it has ended, and the chains go on.  Users, and the  *)
(* callers of withdraw that are no authority, need not do anything.        *)
(***************************************************************************)
Fairness ==
    /\ \A a \in Honest : WF_allVars(Node(a)) /\ WF_allVars(restart(a))
    /\ WF_allVars(Mine)

NodesSpec == NodesInit /\ [][NodesNext]_allVars /\ Fairness

-----------------------------------------------------------------------------
(***************************************************************************)
(* The processes follow the protocol: what they sign and send, with checks *)
(* that are stale by the time a transaction is mined and with transactions *)
(* sent again after a restart, is a run of BridgeProtocol.  So everything  *)
(* shown of BridgeProtocol holds here.                                     *)
(***************************************************************************)
ImplementsProtocol == Spec

(***************************************************************************)
(* A withdraw that an authority sends for a CollectedSignatures event is   *)
(* accepted by MainBridge whenever it is mined, unless the side            *)
(* transaction has been paid by then, or one of the two accounts does not  *)
(* accept ether: the first requiredSignatures signatures are valid, the    *)
(* gas price is the one asked for, and there is enough ether.              *)
(***************************************************************************)
SentWithdrawIsAccepted ==
    \A t \in pool :
        t.call = "withdraw" /\ t.from \in Payable /\ t.log.recipient \in Payable =>
            \/ t.log.transactionHash \in withdraws
            \/ Main!mayWithdraw(t.from, relayGasPrice(t.log), t.signatures, t.log)

(* An authority's transaction for a log was dropped and the log persisted  *)
(* as checked: none is under way and none will be sent again.              *)
GaveUp(a, call, log, checked) ==
    LET isIn(txs) == \E t \in txs : t.from = a /\ t.call = call /\ t.log = log
    IN  log \in checked /\ isIn(dropped) /\ ~isIn(pool)

(* So many of them that those left are no quorum. *)
TooFewAreLeft(who) == Cardinality(Honest \ who) < requiredSignatures

UnconfirmedFor(key) ==
    {a \in Honest : /\ ~Side!hasAuthoritySignedMainToSide(a, key)
                    /\ GaveUp(a, "deposit", key, database[a].main_to_side_sign)}

UnsignedFor(message) ==
    {a \in Honest : /\ ~Side!hasAuthoritySignedSideToMain(a, message)
                    /\ GaveUp(a, "submitSignature", message, database[a].side_to_main_sign)}

NotRelayed(message) ==
    \E a \in Honest :
        /\ collectedLog[[authorityResponsibleForRelay |-> a, message |-> message]] > 0
        /\ GaveUp(a, "withdraw", message, database[a].side_to_main_signatures)

(***************************************************************************)
(* A deposit on main that is alone in its block range is eventually minted *)
(* on side, although processes end between deciding, sending and recording *)
(* and transactions are dropped, unless so many were dropped after the log *)
(* was recorded as checked that no quorum is left.  (A range with several  *)
(* logs is recorded at the first of them, and a process that ends then     *)
(* loses the others too: RelayStream's PersistedBlocksAreRelayed.)         *)
(***************************************************************************)
DepositsAreMinted ==
    \A key \in DepositKey :
        mainDepositLog[key] > 0
            ~> (sideDepositLog[key] > 0 \/ TooFewAreLeft(UnconfirmedFor(key)))

(***************************************************************************)
(* A withdrawal on side, its logs again alone in their block ranges, is    *)
(* eventually paid on main by the authorities alone: some authority        *)
(* completes the quorum, and that one, although it may end and start       *)
(* again, relays.  The exception is that submitted signatures, or the      *)
(* relay, were dropped after they were recorded.                           *)
(***************************************************************************)
BurnsArePaid ==
    \A message \in Message :
        sideWithdrawLog[message] > 0
            ~> \/ message.transactionHash \in withdraws
               \/ TooFewAreLeft(UnsignedFor(message))
               \/ NotRelayed(message)
=============================================================================
