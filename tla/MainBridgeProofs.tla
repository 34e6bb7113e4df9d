-------------------------- MODULE MainBridgeProofs --------------------------
(***************************************************************************)
(* Proofs about MainBridge, for every set of authorities, every quorum and *)
(* every word size.                                                        *)
(***************************************************************************)
EXTENDS MainBridge, HelpersProofs

(* Every payout has used up its side transaction hash. *)
HashesAreMarked ==
    \A event \in WithdrawEvent :
        withdrawLog[event] > 0 => event.transactionHash \in withdraws

(***************************************************************************)
(* The inductive invariant.  PaidOncePerSideTransaction alone is not       *)
(* inductive: that a hash outside withdraws has not been paid for is what  *)
(* the guard of markWithdrawn relies on.                                   *)
(***************************************************************************)
Inv == TypeOK /\ HashesAreMarked /\ PaidOncePerSideTransaction /\ PayoutsAreSigned

-----------------------------------------------------------------------------
(* The two transfers succeed only when value - cost has not wrapped around. *)
LEMMA NoWrapAround ==
    ASSUME balance \in 0 .. EtherSupply,
           NEW v \in Uint, NEW c \in Uint,
           Sub(v, c) <= balance,
           c <= balance - Sub(v, c)
    PROVE  Sub(v, c) \in Uint /\ Sub(v, c) + c = v
<1>1. v - c \in Int /\ v \in Int /\ c \in Int /\ balance \in Int /\ balance < UintModulus
    BY WordAssumption, MainAssumption DEF Uint
<1>2. Sub(v, c) \in Uint
    BY <1>1, ModIsUint DEF Sub
<1>3. CASE v - c >= 0
    <2>1. v - c \in Uint
        BY <1>1, <1>3, WordAssumption DEF Uint
    <2>2. Sub(v, c) = v - c
        BY <2>1, ModOfUint DEF Sub
    <2> QED
        BY <1>1, <1>2, <2>2
<1>4. CASE v - c < 0
    <2>1. v - c + UintModulus >= 0
        BY WordAssumption DEF Uint
    <2>2. Sub(v, c) = v - c + UintModulus
        BY <1>1, <1>4, <2>1, ModOfNegative DEF Sub
    <2>3. v + UintModulus <= balance
        BY <1>1, <2>2, WordAssumption DEF Uint
    <2> QED
        BY <1>1, <2>3, WordAssumption DEF Uint
<1> QED
    BY <1>1, <1>3, <1>4

(* What a withdraw that does not revert has established. *)
LEMMA WithdrawFacts ==
    ASSUME TypeOK, NEW message \in Message, NEW sender, NEW gasprice,
           NEW sigs \in SignatureLists(message),
           withdraw(sender, gasprice, sigs, message)
    PROVE  LET cost      == relayCost(message.mainGasPrice)
               remaining == Sub(message.value, cost)
               event     == [recipient       |-> message.recipient,
                             value           |-> remaining,
                             transactionHash |-> message.transactionHash]
           IN  /\ event \in WithdrawEvent
               /\ PaysFor(event, message)
               /\ requiredSignatures <= Cardinality(Signers(message))
               /\ balance' = balance - message.value
               /\ balance' \in 0 .. EtherSupply
               /\ withdrawLog' = [withdrawLog EXCEPT ![event] = @ + 1]
<1> DEFINE cost      == relayCost(message.mainGasPrice)
           remaining == Sub(message.value, cost)
           event     == [recipient       |-> message.recipient,
                         value           |-> remaining,
                         transactionHash |-> message.transactionHash]
<1>1. cost \in Uint /\ message.value \in Uint
    BY RelayCostType, WordAssumption DEF Message
<1>2. /\ remaining <= balance
      /\ cost <= balance - remaining
      /\ balance' = balance - remaining - cost
    BY DEF withdraw, mayWithdraw, transfersSucceed, valueRemainingAfterSubtractingCost
<1>3. remaining \in Uint /\ remaining + cost = message.value
    BY <1>1, <1>2, NoWrapAround DEF TypeOK
<1>4. event \in WithdrawEvent
    BY <1>3 DEF WithdrawEvent, Message
<1>5. PaysFor(event, message)
    BY <1>3 DEF PaysFor
<1>6. requiredSignatures <= Cardinality(Signers(message))
    <2>1. hasEnoughValidSignatures(message, sigs)
        BY DEF withdraw, mayWithdraw
    <2>2. IsFiniteSet(Signers(message))
        BY AuthoritiesFinite, FS_Subset DEF Signers
    <2>3. ASSUME NEW i \in 1 .. requiredSignatures
          PROVE  ecrecover(message, sigs[i]) \in Signers(message)
        <3>1. ecrecover(message, sigs[i]) \in Range(authorities)
            BY <2>1 DEF hasEnoughValidSignatures, addressArrayContains
        <3>2. ecrecover(message, sigs[i]) # ZeroAddress
            BY <2>1 DEF hasEnoughValidSignatures, encountered
        <3>3. i \in DOMAIN sigs
            <4>1. PICK n \in 0 .. MaxSignatures :
                     sigs \in [1 .. n -> {sig \in signed : sig.message = message}
                                \cup {[signer |-> ZeroAddress, message |-> message]}]
                BY DEF SignatureLists
            <4>2. Len(sigs) = n
                BY <4>1, MainAssumption
            <4> QED
                BY <2>1, <4>1, <4>2, MainAssumption, ConstructorAssumption
                DEF hasEnoughValidSignatures
        <3>4. sigs[i] \in signed \cup {[signer |-> ZeroAddress, message |-> message]}
            BY <3>3 DEF SignatureLists
        <3>5. sigs[i] \in signed /\ sigs[i].message = message
            BY <3>2, <3>4 DEF ecrecover
        <3>6. sigs[i] = [signer |-> sigs[i].signer, message |-> message]
            BY <3>5 DEF TypeOK, Signature
        <3> QED
            BY <3>1, <3>5, <3>6 DEF Signers, ecrecover
    <2> QED
        BY <2>1, <2>2, <2>3, EnoughSigners
<1>7. balance' = balance - message.value /\ balance' \in 0 .. EtherSupply
    BY <1>1, <1>2, <1>3, MainAssumption DEF TypeOK, Uint
<1>8. withdrawLog' = [withdrawLog EXCEPT ![event] = @ + 1]
    BY DEF withdraw, Emit, valueRemainingAfterSubtractingCost
<1> QED
    BY <1>4, <1>5, <1>6, <1>7, <1>8

-----------------------------------------------------------------------------
LEMMA InitInv == Init => Inv
<1> SUFFICES ASSUME Init PROVE Inv
    OBVIOUS
<1>1. TypeOK
    BY MainAssumption DEF Init, TypeOK, NoEvents, Uint
<1>2. \A event \in WithdrawEvent : withdrawLog[event] = 0
    BY DEF Init, NoEvents
<1> QED
    BY <1>1, <1>2 DEF Inv, HashesAreMarked, PaidOncePerSideTransaction, PayoutsAreSigned

(* Deposits, signatures and stuttering pay nothing out. *)
LEMMA NoPayout ==
    ASSUME Inv, TypeOK', UNCHANGED <<withdraws, withdrawLog>>, signed \subseteq signed'
    PROVE  Inv'
<1>1. HashesAreMarked' /\ PaidOncePerSideTransaction'
    BY DEF Inv, HashesAreMarked, PaidOncePerSideTransaction
<1>2. ASSUME NEW message \in Message, requiredSignatures <= Cardinality(Signers(message))
      PROVE  requiredSignatures <= Cardinality(Signers(message)')
    <2>1. Signers(message) \subseteq Signers(message)'
        BY DEF Signers
    <2>2. IsFiniteSet(Signers(message)')
        BY AuthoritiesFinite, FS_Subset DEF Signers
    <2>3. /\ Cardinality(Signers(message)) <= Cardinality(Signers(message)')
          /\ IsFiniteSet(Signers(message))
        BY <2>1, <2>2, FS_Subset
    <2>4. Cardinality(Signers(message)) \in Nat /\ Cardinality(Signers(message)') \in Nat
        BY <2>2, <2>3, FS_CardinalityType
    <2> QED
        BY <1>2, <2>3, <2>4, ConstructorAssumption
<1>3. PayoutsAreSigned'
    <2> SUFFICES ASSUME NEW event \in WithdrawEvent, withdrawLog'[event] > 0
                 PROVE  \E message \in Message :
                           /\ PaysFor(event, message)
                           /\ Cardinality(Signers(message)') >= requiredSignatures
        BY DEF PayoutsAreSigned
    <2>1. PICK message \in Message :
             /\ PaysFor(event, message)
             /\ Cardinality(Signers(message)) >= requiredSignatures
        BY DEF Inv, PayoutsAreSigned
    <2>2. IsFiniteSet(Signers(message)) /\ IsFiniteSet(Signers(message)')
        BY AuthoritiesFinite, FS_Subset DEF Signers
    <2>3. Cardinality(Signers(message)) \in Nat /\ Cardinality(Signers(message)') \in Nat
        BY <2>2, FS_CardinalityType
    <2> QED
        BY <1>2, <2>1, <2>3, ConstructorAssumption
<1> QED
    BY <1>1, <1>3 DEF Inv

LEMMA FallbackInv ==
    ASSUME Inv, NEW sender \in Recipient, NEW value \in Value, NEW hash \in MainTx,
           fallback(sender, value, hash)
    PROVE  Inv'
<1>1. balance' \in 0 .. EtherSupply
    BY MainAssumption, WordAssumption DEF Inv, TypeOK, fallback, Uint
<1> DEFINE event == [recipient |-> sender, value |-> value, transactionHash |-> hash]
<1>2. depositLog' \in [DepositKey -> Nat]
    <2>1. event \in DepositKey
        BY DEF DepositKey
    <2>2. depositLog' = Emit(depositLog, event)
        BY DEF fallback
    <2> QED
        BY <2>1, <2>2, EmitFacts DEF Inv, TypeOK
<1>3. TypeOK'
    BY <1>1, <1>2 DEF Inv, TypeOK, fallback
<1> QED
    BY <1>3, NoPayout DEF fallback

LEMMA SignInv ==
    ASSUME Inv, NEW authority \in Address, NEW message \in Message,
           eth_sign(authority, message)
    PROVE  Inv'
<1>1. TypeOK'
    BY DEF Inv, TypeOK, eth_sign, Signature
<1> QED
    BY <1>1, NoPayout DEF eth_sign

LEMMA WithdrawInv ==
    ASSUME Inv, NEW message \in Message, NEW sender, NEW gasprice,
           NEW sigs \in SignatureLists(message),
           withdraw(sender, gasprice, sigs, message)
    PROVE  Inv'
<1> DEFINE event == [recipient       |-> message.recipient,
                     value           |-> Sub(message.value, relayCost(message.mainGasPrice)),
                     transactionHash |-> message.transactionHash]
<1>1. /\ event \in WithdrawEvent
      /\ PaysFor(event, message)
      /\ requiredSignatures <= Cardinality(Signers(message))
      /\ balance' \in 0 .. EtherSupply
      /\ withdrawLog' = [withdrawLog EXCEPT ![event] = @ + 1]
    BY WithdrawFacts DEF Inv
<1>2. /\ event.transactionHash \notin withdraws
      /\ event.transactionHash \in SideTx
      /\ withdraws' = withdraws \cup {event.transactionHash}
      /\ signed' = signed /\ depositLog' = depositLog /\ tx' = NoTx
    BY DEF withdraw, mayWithdraw, markWithdrawn, Message
<1> HIDE DEF event
<1>3. withdrawLog \in [WithdrawEvent -> Nat]
    BY DEF Inv, TypeOK
<1>4. TypeOK'
    BY <1>1, <1>2, <1>3 DEF Inv, TypeOK
<1>5. withdrawLog[event] = 0
    BY <1>1, <1>2, <1>3 DEF Inv, HashesAreMarked
<1>6. HashesAreMarked'
    BY <1>1, <1>2, <1>3 DEF Inv, HashesAreMarked
<1>7. \A e \in WithdrawEvent :
          withdrawLog[e] > 0 => e.transactionHash # event.transactionHash
    BY <1>2 DEF Inv, HashesAreMarked
<1>8. PaidOncePerSideTransaction'
    BY <1>1, <1>3, <1>5, <1>7 DEF Inv, PaidOncePerSideTransaction
<1>9. PayoutsAreSigned'
    <2>1. \A m : Signers(m)' = Signers(m)
        BY <1>2 DEF Signers
    <2>2. Cardinality(Signers(message)) >= requiredSignatures
        <3>1. Cardinality(Signers(message)) \in Nat
            BY AuthoritiesFinite, FS_Subset, FS_CardinalityType DEF Signers
        <3> QED
            BY <1>1, <3>1, ConstructorAssumption
    <2> QED
        BY <1>1, <1>3, <2>1, <2>2 DEF Inv, PayoutsAreSigned
<1> QED
    BY <1>4, <1>6, <1>8, <1>9 DEF Inv

LEMMA NextInv == Inv /\ [Next]_vars => Inv'
<1> SUFFICES ASSUME Inv, [Next]_vars PROVE Inv'
    OBVIOUS
<1>1. CASE \E sender \in Recipient \cap Caller, value \in Value, hash \in MainTx :
              fallback(sender, value, hash)
    BY <1>1, FallbackInv
<1>2. CASE \E message \in Message, sender \in Caller, gasprice \in GasPrice :
              \E sigs \in SignatureLists(message) :
                 withdraw(sender, gasprice, sigs, message)
    BY <1>2, WithdrawInv
<1>3. CASE \E authority \in Address, message \in Message : eth_sign(authority, message)
    BY <1>3, SignInv
<1>4. CASE UNCHANGED vars
    <2>1. TypeOK'
        BY <1>4 DEF Inv, TypeOK, vars
    <2> QED
        BY <1>4, <2>1, NoPayout DEF vars
<1> QED
    BY <1>1, <1>2, <1>3, <1>4 DEF Next

(* The inductive invariant holds throughout. *)
THEOREM Invariance == Spec => []Inv
BY InitInv, NextInv, PTL DEF Spec

(* Variables keep their types; the balance is never negative. *)
THEOREM TypeCorrect == Spec => []TypeOK
<1>1. Inv => TypeOK
    BY DEF Inv
<1> QED
    BY <1>1, Invariance, PTL

(***************************************************************************)
(* MainBridge.withdraw pays at most once per side transaction hash,        *)
(* whatever messages authorities sign and whoever presents them.           *)
(***************************************************************************)
THEOREM PaidOnce == Spec => []PaidOncePerSideTransaction
<1>1. Inv => PaidOncePerSideTransaction
    BY DEF Inv
<1> QED
    BY <1>1, Invariance, PTL

(***************************************************************************)
(* MainBridge.withdraw pays only what requiredSignatures different         *)
(* authorities have signed for, whatever lists of signatures it is given.  *)
(***************************************************************************)
THEOREM PayoutsSigned == Spec => []PayoutsAreSigned
<1>1. Inv => PayoutsAreSigned
    BY DEF Inv
<1> QED
    BY <1>1, Invariance, PTL

(***************************************************************************)
(* Ether leaves MainBridge only by a withdraw of a message signed by       *)
(* requiredSignatures different authorities, whose hash was unused, and    *)
(* then exactly the value signed leaves: the unchecked subtraction is      *)
(* harmless because there is less ether than the word size.                *)
(***************************************************************************)
THEOREM ExactWithdraw == Spec => WithdrawTakesExactlyValue
<1> DEFINE Taken(message, event) ==
               /\ Cardinality(Signers(message)) >= requiredSignatures
               /\ message.transactionHash \notin withdraws
               /\ withdraws' = withdraws \cup {message.transactionHash}
               /\ PaysFor(event, message)
               /\ withdrawLog' = Emit(withdrawLog, event)
               /\ balance' = balance - message.value
           Exact ==
               balance' < balance \/ withdraws' # withdraws =>
                 \E message \in Message, event \in WithdrawEvent : Taken(message, event)
<1>1. ASSUME TypeOK, [Next]_vars PROVE [Exact]_vars
    <2>1. ASSUME NEW message \in Message, NEW sender \in Caller, NEW gasprice \in GasPrice,
                 NEW sigs \in SignatureLists(message),
                 withdraw(sender, gasprice, sigs, message)
          PROVE  Exact
        <3> DEFINE event == [recipient       |-> message.recipient,
                             value           |-> Sub(message.value,
                                                     relayCost(message.mainGasPrice)),
                             transactionHash |-> message.transactionHash]
        <3>1. /\ event \in WithdrawEvent
              /\ PaysFor(event, message)
              /\ requiredSignatures <= Cardinality(Signers(message))
              /\ balance' = balance - message.value
              /\ withdrawLog' = [withdrawLog EXCEPT ![event] = @ + 1]
            BY <1>1, <2>1, WithdrawFacts
        <3>2. /\ message.transactionHash \notin withdraws
              /\ withdraws' = withdraws \cup {message.transactionHash}
            BY <2>1 DEF withdraw, mayWithdraw, markWithdrawn
        <3>3. Cardinality(Signers(message)) \in Nat
            BY AuthoritiesFinite, FS_Subset, FS_CardinalityType DEF Signers
        <3>4. Cardinality(Signers(message)) >= requiredSignatures
            BY <3>1, <3>3, ConstructorAssumption
        <3> HIDE DEF event
        <3>5. Taken(message, event)
            BY <3>1, <3>2, <3>4 DEF Emit
        <3> QED
            BY <3>1, <3>5
    <2>2. ASSUME NEW sender, NEW value \in Value, NEW hash, fallback(sender, value, hash)
          PROVE  Exact
        <3>1. balance \in Int /\ value \in Nat
            <4>1. \A x \in Uint : x \in Nat
                BY WordAssumption DEF Uint
            <4> QED
                BY <1>1, <4>1, WordAssumption DEF TypeOK
        <3>2. balance' = balance + value /\ withdraws' = withdraws
            BY <2>2 DEF fallback
        <3> QED
            BY <3>1, <3>2
    <2>3. CASE UNCHANGED <<balance, withdraws>>
        <3>1. balance \in Int
            BY <1>1 DEF TypeOK
        <3> QED
            BY <2>3, <3>1
    <2> HIDE DEF Exact
    <2>4. CASE \E sender \in Recipient \cap Caller, value \in Value, hash \in MainTx :
                  fallback(sender, value, hash)
        BY <2>2, <2>4
    <2>5. CASE \E message \in Message, sender \in Caller, gasprice \in GasPrice :
                  \E sigs \in SignatureLists(message) :
                     withdraw(sender, gasprice, sigs, message)
        BY <2>1, <2>5
    <2>6. CASE \E authority \in Address, message \in Message : eth_sign(authority, message)
        BY <2>3, <2>6 DEF eth_sign
    <2> QED
        BY <1>1, <2>4, <2>5, <2>6 DEF Next
<1> QED
    BY <1>1, TypeCorrect, PTL DEF Spec, WithdrawTakesExactlyValue

(***************************************************************************)
(* The fallback function keeps the balance within the total limit, and no  *)
(* withdraw raises it.                                                     *)
(***************************************************************************)
THEOREM Capped == Spec => []BalanceIsCapped
<1>1. Init => BalanceIsCapped
    BY WordAssumption, MainAssumption DEF Init, BalanceIsCapped, Uint
<1>2. ASSUME TypeOK, BalanceIsCapped, [Next]_vars PROVE BalanceIsCapped'
    <2>1. balance \in Int /\ maxTotalMainContractBalance \in Int
        BY <1>2, WordAssumption, MainAssumption DEF TypeOK, Uint
    <2>2. ASSUME NEW sender, NEW value, NEW hash, fallback(sender, value, hash)
          PROVE  BalanceIsCapped'
        BY <2>2 DEF fallback, withinLimits, BalanceIsCapped
    <2>3. ASSUME NEW message \in Message, NEW sender, NEW gasprice,
                 NEW sigs \in SignatureLists(message),
                 withdraw(sender, gasprice, sigs, message)
          PROVE  BalanceIsCapped'
        <3>1. balance' = balance - message.value
            BY <1>2, <2>3, WithdrawFacts
        <3>2. message.value \in Nat
            <4>1. message.value \in Value
                BY DEF Message
            <4>2. \A x \in Uint : x \in Nat
                BY WordAssumption DEF Uint
            <4> QED
                BY <4>1, <4>2, WordAssumption
        <3>3. balance' <= balance
            BY <2>1, <3>1, <3>2
        <3> QED
            BY <1>2, <2>1, <3>1, <3>2, <3>3 DEF BalanceIsCapped
    <2>4. CASE UNCHANGED balance
        BY <1>2, <2>4 DEF BalanceIsCapped
    <2> QED
        BY <1>2, <2>2, <2>3, <2>4 DEF Next, eth_sign, vars
<1> QED
    BY <1>1, <1>2, TypeCorrect, PTL DEF Spec
=============================================================================
