----------------------------- MODULE SideBridge -----------------------------
(***************************************************************************)
(* Contract SideBridge (contracts/bridge.sol, 322-578): an ERC20 token     *)
(* whose tokens are minted once enough authorities confirmed a deposit on  *)
(* main and burned by transferToMainViaRelay, and the place where the      *)
(* authorities collect their signatures of a withdrawal.                   *)
(*                                                                         *)
(* As in MainBridge, `require` is a guard, and `tx` is the transaction the *)
(* next transferToMainViaRelay may share with the last one.  Events nobody *)
(* in the repository acts on (Transfer, Approval, DepositConfirmation,     *)
(* WithdrawSignatureSubmitted) are left out.                               *)
(***************************************************************************)
EXTENDS Helpers

CONSTANT MaxWithdraws    \* bound: how often one Withdraw event is emitted

ASSUME SideAssumption == MaxWithdraws \in Nat

VARIABLES
    totalSupply, balances, allowed,
    deposits,           \* who confirmed each deposit, in order
    signatures,         \* per message: who signed and the signatures
    depositLog,         \* emitted Deposit events
    withdrawLog,        \* emitted Withdraw events, with their transaction
    collectedLog,       \* emitted CollectedSignatures events
    tx                  \* the transaction under way, or NoTx

tokenVars == <<totalSupply, balances, allowed>>
vars == <<tokenVars, deposits, signatures, depositLog, withdrawLog, collectedLog, tx>>

NoTx == "none"
SignaturesCollection == [authorities : Seq(Address), signatures : Seq(Signature)]
CollectedEvent == [authorityResponsibleForRelay : Address, message : Message]

TypeOK ==
    /\ totalSupply \in Uint
    /\ balances \in [Address -> Uint]
    /\ allowed \in [Address -> [Address -> Uint]]
    /\ deposits \in [DepositKey -> Seq(Address)]
    /\ signatures \in [Message -> SignaturesCollection]
    /\ depositLog \in [DepositKey -> Nat]
    /\ withdrawLog \in [Message -> Nat]
    /\ collectedLog \in [CollectedEvent -> Nat]
    /\ tx \in SideTx \cup {NoTx}

Init ==
    /\ totalSupply = 0
    /\ balances = [a \in Address |-> 0]
    /\ allowed = [a \in Address |-> [b \in Address |-> 0]]
    /\ deposits = [k \in DepositKey |-> <<>>]
    /\ signatures = [m \in Message |-> [authorities |-> <<>>, signatures |-> <<>>]]
    /\ depositLog = NoEvents(DepositKey)
    /\ withdrawLog = NoEvents(Message)
    /\ collectedLog = NoEvents(CollectedEvent)
    /\ tx = NoTx

onlyAuthority(sender) == addressArrayContains(authorities, sender)

-----------------------------------------------------------------------------
(* The ERC20 part. *)

(* The two updates computed from the same old balances. *)
MutantMoved(from, to, tokens) ==
    [balances EXCEPT ![from] = balances[from] - tokens, ![to] = balances[to] + tokens]

(* Two assignments in sequence, so that from = to moves nothing.  The order *)
(* of the two, which transferFrom reverses, makes no difference.            *)
moved(from, to, tokens) ==
    [[balances EXCEPT ![from] = Sub(@, tokens)] EXCEPT ![to] = Add(@, tokens)]

noOverflow(to, tokens) == Add(balances[to], tokens) >= balances[to]

transfer(sender, recipient, tokens) ==
    /\ balances[sender] >= tokens
    /\ noOverflow(recipient, tokens)
    /\ balances' = moved(sender, recipient, tokens)
    /\ UNCHANGED <<totalSupply, allowed, deposits, signatures,
                   depositLog, withdrawLog, collectedLog, tx>>

approve(sender, spender, tokens) ==
    /\ allowed' = [allowed EXCEPT ![sender][spender] = tokens]
    /\ UNCHANGED <<totalSupply, balances, deposits, signatures,
                   depositLog, withdrawLog, collectedLog, tx>>

transferFrom(sender, from, to, tokens) ==
    /\ balances[from] >= tokens
    /\ allowed[from][sender] >= tokens
    /\ noOverflow(to, tokens)
    /\ balances' = moved(from, to, tokens)
    /\ allowed' = [allowed EXCEPT ![from][sender] = @ - tokens]
    /\ UNCHANGED <<totalSupply, deposits, signatures,
                   depositLog, withdrawLog, collectedLog, tx>>

-----------------------------------------------------------------------------
(* Moving tokens from and to main. *)

(* Mints whenever there are enough confirmations, also for late ones. *)
MutantConfirmed(confirmations) == Len(confirmations) >= requiredSignatures

(* Whether this confirmation, or signature, completes the quorum. *)
confirmed(confirmations) == Len(confirmations) = requiredSignatures

mint(key) ==
    /\ balances' = [balances EXCEPT ![key.recipient] = Add(@, key.value)]
    /\ totalSupply' = Add(totalSupply, key.value)
    /\ depositLog' = Emit(depositLog, key)

(* An authority may confirm again. *)
MutantFirstTime(array, sender) == TRUE

firstTime(array, sender) == ~addressArrayContains(array, sender)

deposit(sender, key) ==
    /\ onlyAuthority(sender)
    /\ firstTime(deposits[key], sender)
    /\ deposits' = [deposits EXCEPT ![key] = Append(@, sender)]
    /\ IF confirmed(deposits'[key])
       THEN mint(key)
       ELSE UNCHANGED <<balances, totalSupply, depositLog>>
    /\ tx' = NoTx
    /\ UNCHANGED <<allowed, signatures, withdrawLog, collectedLog>>

(* A hash no transaction with a Withdraw has, or the one of the current one. *)
inTransaction(hash) ==
    hash = tx \/ \A m \in Message : m.transactionHash = hash => withdrawLog[m] = 0

burn(sender, value) ==
    /\ balances' = [balances EXCEPT ![sender] = Sub(@, value)]
    /\ totalSupply' = Sub(totalSupply, value)

(* `withdrawal` is the Withdraw event with the hash of its transaction. *)
transferToMainViaRelay(sender, withdrawal) ==
    /\ inTransaction(withdrawal.transactionHash)
    /\ withdrawLog[withdrawal] < MaxWithdraws
    /\ balances[sender] >= withdrawal.value
    /\ withdrawal.value > 0
    /\ withdrawal.value > relayCost(withdrawal.mainGasPrice)
    /\ burn(sender, withdrawal.value)
    /\ withdrawLog' = Emit(withdrawLog, withdrawal)
    /\ tx' = withdrawal.transactionHash
    /\ UNCHANGED <<allowed, deposits, signatures, depositLog, collectedLog>>

(* Takes any signature an authority hands in. *)
MutantIsSignedBy(sender, sig, message) == TRUE

isSignedBy(sender, sig, message) == sender = ecrecover(message, sig)

submitSignature(sender, sig, message) ==
    /\ onlyAuthority(sender)
    /\ isSignedBy(sender, sig, message)
    /\ firstTime(signatures[message].authorities, sender)
    /\ signatures' = [signatures EXCEPT
                        ![message].authorities = Append(@, sender),
                        ![message].signatures = Append(@, sig)]
    /\ collectedLog' =
          IF confirmed(signatures'[message].authorities)
          THEN Emit(collectedLog, [authorityResponsibleForRelay |-> sender,
                                   message |-> message])
          ELSE collectedLog
    /\ tx' = NoTx
    /\ UNCHANGED <<tokenVars, deposits, depositLog, withdrawLog>>

-----------------------------------------------------------------------------
(* The views an authority asks before it signs. *)
hasAuthoritySignedMainToSide(authority, key) ==
    addressArrayContains(deposits[key], authority)

hasAuthoritySignedSideToMain(authority, message) ==
    addressArrayContains(signatures[message].authorities, authority)

-----------------------------------------------------------------------------
(* The accounts whose token calls are explored. *)
User == Recipient \cap Caller

Next ==
    \/ \E sender \in User, recipient \in Recipient, tokens \in Value :
          transfer(sender, recipient, tokens)
    \/ \E sender, spender \in User, tokens \in Value :
          approve(sender, spender, tokens)
    \/ \E sender, from \in User, to \in Recipient, tokens \in Value :
          transferFrom(sender, from, to, tokens)
    \/ \E sender \in Caller, key \in DepositKey : deposit(sender, key)
    \/ \E sender \in User, m \in Message : transferToMainViaRelay(sender, m)
    \/ \E sender \in Caller, m \in Message, signer \in Address :
          submitSignature(sender, [signer |-> signer, message |-> m], m)

Spec == Init /\ [][Next]_vars

-----------------------------------------------------------------------------
(***************************************************************************)
(* A deposit is minted exactly when its confirmations reach the quorum:    *)
(* once, and not again for the authorities that confirm later.  The        *)
(* confirmations are of different authorities.                             *)
(***************************************************************************)
MintedOncePerQuorum ==
    \A k \in DepositKey :
        /\ IsInjective(deposits[k])
        /\ Range(deposits[k]) \subseteq Range(authorities)
        /\ depositLog[k] = IF Len(deposits[k]) >= requiredSignatures THEN 1 ELSE 0

(***************************************************************************)
(* CollectedSignatures is emitted for a message exactly when the quorum is *)
(* reached, for the one authority whose signature completed it: that       *)
(* authority alone goes on to relay.                                       *)
(***************************************************************************)
CollectedOncePerQuorum ==
    \A a \in Address, m \in Message :
        LET signers == signatures[m].authorities IN
        collectedLog[[authorityResponsibleForRelay |-> a, message |-> m]] =
            IF Len(signers) >= requiredSignatures /\ signers[requiredSignatures] = a
            THEN 1 ELSE 0

(***************************************************************************)
(* The signatures of a collection, in the order `signature(hash, index)`   *)
(* hands them out, are accepted by MainBridge.withdraw once there are      *)
(* requiredSignatures of them.                                             *)
(***************************************************************************)
CollectedSignaturesAreEnough ==
    \A e \in CollectedEvent : collectedLog[e] > 0 =>
        hasEnoughValidSignatures(e.message,
            SubSeq(signatures[e.message].signatures, 1, requiredSignatures))

(***************************************************************************)
(* The total is the sum of the balances, modulo the word size, through     *)
(* every mint, burn, transfer to oneself and wrap-around.                  *)
(***************************************************************************)
TotalSupplyIsSum == totalSupply = Total(balances) % UintModulus
=============================================================================
