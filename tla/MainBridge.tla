----------------------------- MODULE MainBridge -----------------------------
(***************************************************************************)
(* Contract MainBridge (contracts/bridge.sol, 195-319): it takes ether     *)
(* deposits and pays out withdrawals that enough authorities signed.       *)
(*                                                                         *)
(* A transaction that reverts changes nothing, so every `require` is a     *)
(* guard.  A transaction can hold several calls (made by a contract): `tx` *)
(* is the transaction of the last call, which the next deposit may share.  *)
(***************************************************************************)
EXTENDS Helpers

CONSTANTS
    maxTotalMainContractBalance, maxSingleDepositValue,
    Payable,            \* accounts that accept a transfer with its 2300 gas
    EtherSupply,        \* all the ether there is
    MaxRepeats,         \* bound: how often one Deposit event is emitted
    MaxSigned,          \* bound: signatures made
    MaxSignatures       \* bound: signatures given to one withdraw

ASSUME MainAssumption ==
    /\ maxTotalMainContractBalance \in Uint /\ maxSingleDepositValue \in Uint
    /\ Payable \subseteq Address
    /\ EtherSupply \in Uint
    /\ MaxRepeats \in Nat /\ MaxSigned \in Nat /\ MaxSignatures \in Nat

VARIABLES
    balance,            \* this.balance
    withdraws,          \* the side transaction hashes used
    depositLog,         \* emitted Deposit events, with their transaction
    withdrawLog,        \* emitted Withdraw events
    tx,                 \* the transaction under way, or NoTx
    signed              \* the signatures anyone can have got hold of

vars == <<balance, withdraws, depositLog, withdrawLog, tx, signed>>

NoTx == "none"
WithdrawEvent == [recipient : Recipient, value : Uint, transactionHash : SideTx]

TypeOK ==
    /\ balance \in 0 .. EtherSupply
    /\ withdraws \subseteq SideTx
    /\ depositLog \in [DepositKey -> Nat]
    /\ withdrawLog \in [WithdrawEvent -> Nat]
    /\ tx \in MainTx \cup {NoTx}
    /\ signed \subseteq Signature

Init ==
    /\ balance = 0
    /\ withdraws = {}
    /\ depositLog = NoEvents(DepositKey)
    /\ withdrawLog = NoEvents(WithdrawEvent)
    /\ tx = NoTx
    /\ signed = {}

-----------------------------------------------------------------------------
(* A hash no transaction with a Deposit has, or the one of the current one. *)
inTransaction(hash) ==
    hash = tx \/ \A e \in DepositKey : e.transactionHash = hash => depositLog[e] = 0

(* The cap compared with the balance before the deposit. *)
MutantWithinLimits(value) ==
    /\ maxSingleDepositValue = 0 \/ value <= maxSingleDepositValue
    /\ maxTotalMainContractBalance = 0 \/ balance <= maxTotalMainContractBalance

withinLimits(value) ==
    /\ maxSingleDepositValue = 0 \/ value <= maxSingleDepositValue
    /\ maxTotalMainContractBalance = 0 \/ balance + value <= maxTotalMainContractBalance

(* The fallback function.  The caller has the ether it sends.  Ether forced *)
(* into a contract without a call of it is not modelled.                    *)
fallback(sender, value, hash) ==
    LET event == [recipient |-> sender, value |-> value, transactionHash |-> hash] IN
    /\ inTransaction(hash)
    /\ balance + value <= EtherSupply
    /\ withinLimits(value)
    /\ depositLog[event] < MaxRepeats
    /\ balance' = balance + value
    /\ depositLog' = Emit(depositLog, event)
    /\ tx' = hash
    /\ UNCHANGED <<withdraws, withdrawLog, signed>>

(* Transfers that do not fail for want of ether. *)
MutantTransfersSucceed(recipient, remaining, sender, cost) ==
    recipient \in Payable /\ sender \in Payable

(* recipient.transfer(remaining), then msg.sender.transfer(cost). *)
transfersSucceed(recipient, remaining, sender, cost) ==
    /\ recipient \in Payable /\ sender \in Payable
    /\ remaining <= balance
    /\ cost <= balance - remaining

(* Checks the hash but never marks it as used. *)
MutantMarkWithdrawn(hash) == withdraws

markWithdrawn(hash) == withdraws \cup {hash}

(* The recipient pays the relay cost on top of, not out of, the value. *)
MutantRemaining(value, cost) == value

valueRemainingAfterSubtractingCost(value, cost) == Sub(value, cost)

(* What withdraw requires, and its transfers: it does not revert. *)
mayWithdraw(sender, gasprice, sigs, message) ==
    LET cost      == relayCost(message.mainGasPrice)
        remaining == valueRemainingAfterSubtractingCost(message.value, cost)
    IN  /\ hasEnoughValidSignatures(message, sigs)
        /\ message.recipient = sender \/ gasprice = message.mainGasPrice
        /\ message.transactionHash \notin withdraws
        /\ transfersSucceed(message.recipient, remaining, sender, cost)

withdraw(sender, gasprice, sigs, message) ==
    LET cost      == relayCost(message.mainGasPrice)
        remaining == valueRemainingAfterSubtractingCost(message.value, cost)
        event     == [recipient       |-> message.recipient,
                      value           |-> remaining,
                      transactionHash |-> message.transactionHash]
    IN  /\ mayWithdraw(sender, gasprice, sigs, message)
        /\ withdraws' = markWithdrawn(message.transactionHash)
        /\ balance' = balance - remaining - cost
        /\ withdrawLog' = Emit(withdrawLog, event)
        /\ tx' = NoTx
        /\ UNCHANGED <<depositLog, signed>>

(***************************************************************************)
(* External: an authority signs with its key (eth_sign).  The contract     *)
(* knows nothing of what authorities should sign.                          *)
(***************************************************************************)
eth_sign(authority, message) ==
    /\ authority \in Range(authorities)
    /\ Cardinality(signed) < MaxSigned
    /\ signed' = signed \cup {[signer |-> authority, message |-> message]}
    /\ UNCHANGED <<balance, withdraws, depositLog, withdrawLog, tx>>

(* What a caller can pass as vs, rs, ss: signatures of the message, or      *)
(* garbage; to ecrecover a signature of another message is garbage too.     *)
SignatureLists(message) ==
    LET garbage == [signer |-> ZeroAddress, message |-> message]
        usable  == {sig \in signed : sig.message = message} \cup {garbage}
    IN  UNION {[1 .. n -> usable] : n \in 0 .. MaxSignatures}

Next ==
    \/ \E sender \in Recipient \cap Caller, value \in Value, hash \in MainTx :
          fallback(sender, value, hash)
    \/ \E message \in Message, sender \in Caller, gasprice \in GasPrice :
          \E sigs \in SignatureLists(message) :
             withdraw(sender, gasprice, sigs, message)
    \/ \E authority \in Address, message \in Message : eth_sign(authority, message)

Spec == Init /\ [][Next]_vars

-----------------------------------------------------------------------------
(* The authorities whose signature of a message exists. *)
Signers(message) ==
    {a \in Range(authorities) : [signer |-> a, message |-> message] \in signed}

(* A payout that authorities signed for: whom, what and for which burn. *)
PaysFor(event, message) ==
    /\ event.recipient = message.recipient
    /\ event.transactionHash = message.transactionHash
    /\ event.value + relayCost(message.mainGasPrice) = message.value

(***************************************************************************)
(* Every Withdraw event pays what some message says, to whom it says, and  *)
(* at least requiredSignatures different authorities signed that message:  *)
(* no list of repeated, foreign or garbage signatures gets past            *)
(* hasEnoughValidSignatures, and no wrap-around of value - cost gets past  *)
(* the two transfers.                                                      *)
(***************************************************************************)
PayoutsAreSigned ==
    \A event \in WithdrawEvent : withdrawLog[event] > 0 =>
        \E message \in Message :
            /\ PaysFor(event, message)
            /\ Cardinality(Signers(message)) >= requiredSignatures

(***************************************************************************)
(* One side transaction pays out at most once, whichever of the messages   *)
(* signed for it is presented, by whom and how often.                      *)
(***************************************************************************)
PaidOncePerSideTransaction ==
    /\ \A event \in WithdrawEvent : withdrawLog[event] <= 1
    /\ \A e1, e2 \in WithdrawEvent :
          withdrawLog[e1] > 0 /\ withdrawLog[e2] > 0
             /\ e1.transactionHash = e2.transactionHash => e1 = e2

(***************************************************************************)
(* Ether leaves the contract only by a withdrawal of one message that at   *)
(* least requiredSignatures different authorities have signed by then: its *)
(* hash was unused and is now used, its recipient is paid, and recipient   *)
(* and relayer together take exactly the value signed, although the        *)
(* multiplication and the subtraction behind the two transfers are         *)
(* unchecked.                                                              *)
(***************************************************************************)
WithdrawTakesExactlyValue ==
    [][balance' < balance \/ withdraws' # withdraws =>
         \E message \in Message, event \in WithdrawEvent :
            /\ Cardinality(Signers(message)) >= requiredSignatures
            /\ message.transactionHash \notin withdraws
            /\ withdraws' = withdraws \cup {message.transactionHash}
            /\ PaysFor(event, message)
            /\ withdrawLog' = Emit(withdrawLog, event)
            /\ balance' = balance - message.value]_vars

(***************************************************************************)
(* The balance never exceeds maxTotalMainContractBalance, the limit on the *)
(* ether a faulty bridge can lose.                                         *)
(***************************************************************************)
BalanceIsCapped ==
    maxTotalMainContractBalance # 0 => balance <= maxTotalMainContractBalance
=============================================================================
