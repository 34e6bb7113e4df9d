--------------------------- MODULE BridgeProtocol ---------------------------
(***************************************************************************)
(* The bridge as a protocol between its two contracts: MainBridge and      *)
(* SideBridge, the authorities that carry events from one to the other,    *)
(* and users.  An honest authority confirms a deposit, or signs a message, *)
(* only for an event in the other chain's log (bridge/src/main_to_side_    *)
(* sign.rs, side_to_main_sign.rs); a Byzantine one does what it likes with *)
(* its own key.  Nothing is assumed of the order in which authorities act, *)
(* and any account may call MainBridge.withdraw.                           *)
(*                                                                         *)
(* A log, once seen, is final: the nodes wait for confirmations            *)
(* (log_stream.rs), so a reorganisation of a chain is not modelled.        *)
(***************************************************************************)
EXTENDS Helpers

CONSTANTS
    maxTotalMainContractBalance, maxSingleDepositValue, Payable, EtherSupply,
    MaxRepeats, MaxSigned, MaxSignatures, MaxWithdraws,
    Byzantine           \* the authorities that do not follow the protocol

ASSUME ParameterAssumption ==
    /\ maxTotalMainContractBalance \in Uint /\ maxSingleDepositValue \in Uint
    /\ Payable \subseteq Address /\ EtherSupply \in Uint
    /\ MaxRepeats \in Nat /\ MaxSigned \in Nat /\ MaxSignatures \in Nat
    /\ MaxWithdraws \in Nat

ASSUME ByzantineAssumption ==
    /\ Byzantine \subseteq Range(authorities)
    /\ Cardinality(Byzantine) < requiredSignatures

VARIABLES
    mainBalance, withdraws, mainDepositLog, mainWithdrawLog, mainTx, signed,
    totalSupply, balances, allowed, deposits, signatures,
    sideDepositLog, sideWithdrawLog, collectedLog, sideTx

mainVars == <<mainBalance, withdraws, mainDepositLog, mainWithdrawLog, mainTx>>
sideVars == <<totalSupply, balances, allowed, deposits, signatures,
              sideDepositLog, sideWithdrawLog, collectedLog, sideTx>>
vars == <<mainVars, signed, sideVars>>

Main == INSTANCE MainBridge WITH
            balance <- mainBalance, depositLog <- mainDepositLog,
            withdrawLog <- mainWithdrawLog, tx <- mainTx

Side == INSTANCE SideBridge WITH
            depositLog <- sideDepositLog, withdrawLog <- sideWithdrawLog,
            tx <- sideTx

TypeOK == Main!TypeOK /\ Side!TypeOK

Init == Main!Init /\ Side!Init

-----------------------------------------------------------------------------
(* Users. *)

depositOnMain(user, value, hash) ==
    /\ Main!fallback(user, value, hash)
    /\ UNCHANGED sideVars

transferOnSide(user, recipient, tokens) ==
    /\ Side!transfer(user, recipient, tokens)
    /\ UNCHANGED <<mainVars, signed>>

withdrawOnSide(user, message) ==
    /\ Side!transferToMainViaRelay(user, message)
    /\ UNCHANGED <<mainVars, signed>>

-----------------------------------------------------------------------------
(* Authorities. *)

(* Confirms whatever it is told. *)
MutantMayConfirm(authority, key) == TRUE

(* MainToSideSign is created for a Deposit log of MainBridge. *)
mayConfirm(authority, key) == authority \in Byzantine \/ mainDepositLog[key] > 0

confirmDeposit(authority, key) ==
    /\ mayConfirm(authority, key)
    /\ Side!deposit(authority, key)
    /\ UNCHANGED <<mainVars, signed>>

(* Signs the event without looking at its gas price. *)
MutantMaySign(authority, message) ==
    authority \in Byzantine
        \/ \E p \in GasPrice : sideWithdrawLog[[message EXCEPT !.mainGasPrice = p]] > 0

(* SideToMainSign signs MessageToMain::from_log of a Withdraw log. *)
maySign(authority, message) ==
    authority \in Byzantine \/ sideWithdrawLog[message] > 0

signMessage(authority, message) ==
    /\ maySign(authority, message)
    /\ Main!eth_sign(authority, message)
    /\ UNCHANGED sideVars

submitToSide(authority, message) ==
    LET sig == [signer |-> authority, message |-> message] IN
    /\ sig \in signed
    /\ Side!submitSignature(authority, sig, message)
    /\ UNCHANGED <<mainVars, signed>>

(* Anyone: the authority CollectedSignatures names, the recipient, others. *)
withdrawOnMain(caller, gasprice, sigs, message) ==
    /\ Main!withdraw(caller, gasprice, sigs, message)
    /\ UNCHANGED sideVars

-----------------------------------------------------------------------------
(***************************************************************************)
(* approve and transferFrom are explored in SideBridge and left out here:  *)
(* `allowed` stays 0, and tokens move between users by transfer, with the  *)
(* same effect on what the two contracts owe each other.                   *)
(***************************************************************************)
UserNext ==
    \/ \E user \in Recipient \cap Caller, value \in Value, hash \in MainTx :
          depositOnMain(user, value, hash)
    \/ \E user, recipient \in Recipient \cap Caller, tokens \in Value :
          transferOnSide(user, recipient, tokens)
    \/ \E user \in Recipient \cap Caller, message \in Message :
          withdrawOnSide(user, message)

AuthorityNext(authority) ==
    \/ \E key \in DepositKey : confirmDeposit(authority, key)
    \/ \E message \in Message : signMessage(authority, message)
    \/ \E message \in Message : submitToSide(authority, message)

WithdrawNext ==
    \E message \in Message, caller \in Caller, gasprice \in GasPrice :
        \E sigs \in Main!SignatureLists(message) :
            withdrawOnMain(caller, gasprice, sigs, message)

Next ==
    \/ UserNext
    \/ \E authority \in Range(authorities) \cap Caller : AuthorityNext(authority)
    \/ WithdrawNext

Spec == Init /\ [][Next]_vars

-----------------------------------------------------------------------------
(***************************************************************************)
(* Tokens are minted only for a deposit that MainBridge logged, with the   *)
(* same recipient, value and transaction, whatever fewer than              *)
(* requiredSignatures Byzantine authorities confirm.                       *)
(***************************************************************************)
MintsAreBacked ==
    \A key \in DepositKey : sideDepositLog[key] > 0 => mainDepositLog[key] > 0

(***************************************************************************)
(* Ether is paid out only for a Withdraw that SideBridge logged: to its    *)
(* recipient, its value less the relay cost at its gas price.              *)
(***************************************************************************)
PayoutsAreBurned ==
    \A event \in Main!WithdrawEvent : mainWithdrawLog[event] > 0 =>
        \E message \in Message :
            sideWithdrawLog[message] > 0 /\ Main!PaysFor(event, message)

(* The value of the burns whose transaction has not been paid on main. *)
Owed == [m \in Message |-> IF m.transactionHash \in withdraws THEN 0
                           ELSE sideWithdrawLog[m] * m.value]
Outstanding == Total(Owed)

(***************************************************************************)
(* The ether in MainBridge covers every token on side and every withdrawal *)
(* under way, in every interleaving of deposits, confirmations, transfers, *)
(* burns, signatures and payouts.  The sums of SideBridge do not wrap      *)
(* around.                                                                 *)
(***************************************************************************)
Solvent ==
    /\ mainBalance >= totalSupply + Outstanding
    /\ totalSupply = Total(balances)

(***************************************************************************)
(* README.md: once the signatures of a withdrawal are collected, everyone  *)
(* can hand them to MainBridge and complete it, at the gas price asked for *)
(* or, as the recipient, at any.  So neither an authority that does not    *)
(* relay nor what Byzantine ones confirm, sign and withdraw for themselves *)
(* can keep the ether from its recipient, if that accepts ether.           *)
(***************************************************************************)
EveryoneCanComplete ==
    \A event \in Side!CollectedEvent :
        LET message == event.message
            sigs    == SubSeq(signatures[message].signatures, 1, requiredSignatures)
        IN  /\ collectedLog[event] > 0
            /\ message.transactionHash \notin withdraws
            /\ message.recipient \in Payable
            => \A caller \in Payable, gasprice \in GasPrice :
                  caller = message.recipient \/ gasprice = message.mainGasPrice
                     => Main!mayWithdraw(caller, gasprice, sigs, message)

(***************************************************************************)
(* bridge.sol:508-509: "an authority will pick up `CollectedSignatures` an *)
(* call `MainBridge.withdraw` which transfers `value - relayCost` to       *)
(* `recipient` completing the transfer".  So no burn may be shut out: when *)
(* MainBridge has used up its transaction hash, each Withdraw of that      *)
(* transaction was paid.                                                   *)
(***************************************************************************)
NoBurnIsShutOut ==
    \A message \in Message :
        sideWithdrawLog[message] > 0 /\ message.transactionHash \in withdraws =>
            \E event \in Main!WithdrawEvent :
                mainWithdrawLog[event] > 0 /\ Main!PaysFor(event, message)

(***************************************************************************)
(* README.md: "when users deposit ether into the `MainBridge` contract on  *)
(* `main` they get the same amount of ERC20 tokens on `side`".  So once    *)
(* every authority has confirmed a deposit, each Deposit event like it has *)
(* been minted.                                                            *)
(***************************************************************************)
EveryDepositIsMinted ==
    \A key \in DepositKey :
        Range(authorities) \subseteq Range(deposits[key]) =>
            sideDepositLog[key] >= mainDepositLog[key]
=============================================================================
