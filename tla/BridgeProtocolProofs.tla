------------------------ MODULE BridgeProtocolProofs ------------------------
(***************************************************************************)
(* Proofs about BridgeProtocol, for every number of authorities and every  *)
(* set of Byzantine ones smaller than the quorum.                          *)
(***************************************************************************)
EXTENDS BridgeProtocol, HelpersProofs

(* What is proved of each contract holds of its part of the protocol. *)
MainProofs == INSTANCE MainBridgeProofs WITH
                  balance <- mainBalance, depositLog <- mainDepositLog,
                  withdrawLog <- mainWithdrawLog, tx <- mainTx

SideProofs == INSTANCE SideBridgeProofs WITH
                  depositLog <- sideDepositLog, withdrawLog <- sideWithdrawLog,
                  tx <- sideTx

-----------------------------------------------------------------------------
(* An honest authority has confirmed only what MainBridge logged, *)
HonestConfirmations ==
    \A key \in DepositKey : \A authority \in Range(deposits[key]) :
        authority \in Byzantine \/ mainDepositLog[key] > 0

(* and signed only what SideBridge logged. *)
HonestSignatures ==
    \A sig \in signed : sig.signer \in Byzantine \/ sideWithdrawLog[sig.message] > 0

(* SideBridge collects signatures that exist. *)
CollectedAreSigned ==
    \A message \in Message :
        \A i \in 1 .. Len(signatures[message].signatures) :
            signatures[message].signatures[i] \in signed

(* What is burned is more than the cost of its relay. *)
BurnsCoverTheirCost ==
    \A message \in Message : sideWithdrawLog[message] > 0 =>
        relayCost(message.mainGasPrice) < message.value

(* The value of the deposits that have not been minted. *)
Due == [key \in DepositKey |-> (mainDepositLog[key] - sideDepositLog[key]) * key.value]
Unminted == Total(Due)

(***************************************************************************)
(* Solvent is not inductive: minting needs the ether of a deposit to be    *)
(* there still when the deposit is confirmed, however late.                *)
(***************************************************************************)
Covered ==
    /\ mainBalance >= Total(balances) + Outstanding + Unminted
    /\ totalSupply = Total(balances)

(* The inductive invariant. *)
Inv ==
    /\ MainProofs!Inv /\ SideProofs!Inv
    /\ HonestConfirmations /\ HonestSignatures /\ CollectedAreSigned
    /\ BurnsCoverTheirCost /\ Covered

-----------------------------------------------------------------------------
(* The operators of a contract are those its proofs are about. *)

LEMMA MainOperators ==
    /\ Main!Init <=> MainProofs!Init
    /\ \A s, v, h : Main!fallback(s, v, h) <=> MainProofs!fallback(s, v, h)
    /\ \A s, p, l, m : Main!withdraw(s, p, l, m) <=> MainProofs!withdraw(s, p, l, m)
    /\ \A a, m : Main!eth_sign(a, m) <=> MainProofs!eth_sign(a, m)
    /\ \A m : Main!SignatureLists(m) = MainProofs!SignatureLists(m)
<1>1. Main!Init <=> MainProofs!Init
    BY DEF Main!Init, MainProofs!Init, Main!NoEvents, MainProofs!NoEvents, Main!NoTx,
   MainProofs!NoTx, Main!DepositKey, MainProofs!DepositKey, Main!WithdrawEvent,
   MainProofs!WithdrawEvent, Main!Uint, MainProofs!Uint
<1>2. ASSUME NEW s, NEW v, NEW h
      PROVE  Main!fallback(s, v, h) <=> MainProofs!fallback(s, v, h)
    BY DEF Main!fallback, MainProofs!fallback, Main!inTransaction,
   MainProofs!inTransaction, Main!withinLimits, MainProofs!withinLimits, Main!Emit,
   MainProofs!Emit, Main!DepositKey, MainProofs!DepositKey
<1>3. ASSUME NEW s, NEW p, NEW l, NEW m
      PROVE  Main!withdraw(s, p, l, m) <=> MainProofs!withdraw(s, p, l, m)
    BY DEF Main!withdraw, MainProofs!withdraw, Main!mayWithdraw, MainProofs!mayWithdraw,
   Main!relayCost, MainProofs!relayCost, Main!Mul, MainProofs!Mul, Main!Sub,
   MainProofs!Sub, Main!valueRemainingAfterSubtractingCost,
   MainProofs!valueRemainingAfterSubtractingCost, Main!hasEnoughValidSignatures,
   MainProofs!hasEnoughValidSignatures, Main!ecrecover, MainProofs!ecrecover,
   Main!encountered, MainProofs!encountered, Main!addressArrayContains,
   MainProofs!addressArrayContains, Main!Range, MainProofs!Range,
   Main!markWithdrawn, MainProofs!markWithdrawn, Main!transfersSucceed,
   MainProofs!transfersSucceed, Main!NoTx, MainProofs!NoTx, Main!Emit,
   MainProofs!Emit
<1>4. ASSUME NEW a, NEW m
      PROVE  Main!eth_sign(a, m) <=> MainProofs!eth_sign(a, m)
    BY DEF Main!eth_sign, MainProofs!eth_sign, Main!Range, MainProofs!Range,
   Main!Cardinality, MainProofs!Cardinality
<1>5. ASSUME NEW m PROVE Main!SignatureLists(m) = MainProofs!SignatureLists(m)
    BY DEF Main!SignatureLists, MainProofs!SignatureLists
<1> QED
    BY <1>1, <1>2, <1>3, <1>4, <1>5

LEMMA MainAssumptions ==
    /\ MainProofs!AddressAssumption /\ MainProofs!HashAssumption
    /\ MainProofs!WordAssumption /\ MainProofs!ConstructorAssumption
    /\ MainProofs!MainAssumption
BY AddressAssumption, HashAssumption, WordAssumption, ConstructorAssumption,
   ParameterAssumption
   DEF MainProofs!AddressAssumption, MainProofs!HashAssumption, MainProofs!WordAssumption,
   MainProofs!ConstructorAssumption, MainProofs!MainAssumption, MainProofs!Uint, Uint, MainProofs!IsFiniteSet, IsFiniteSet

LEMMA SideOperators ==
    /\ Side!Init <=> SideProofs!Init
    /\ \A a, r, v : Side!transfer(a, r, v) <=> SideProofs!transfer(a, r, v)
    /\ \A a, k : Side!deposit(a, k) <=> SideProofs!deposit(a, k)
    /\ \A a, m : Side!transferToMainViaRelay(a, m) <=> SideProofs!transferToMainViaRelay(a, m)
    /\ \A a, s, m : Side!submitSignature(a, s, m) <=> SideProofs!submitSignature(a, s, m)
<1>1. Side!Init <=> SideProofs!Init
    BY
       DEF Side!Init, SideProofs!Init, Side!NoEvents, SideProofs!NoEvents, Side!NoTx,
       SideProofs!NoTx, Side!DepositKey, SideProofs!DepositKey, Side!Message,
       SideProofs!Message, Side!CollectedEvent, SideProofs!CollectedEvent
<1>2. ASSUME NEW a, NEW r, NEW v
      PROVE  Side!transfer(a, r, v) <=> SideProofs!transfer(a, r, v)
    BY
       DEF Side!transfer, SideProofs!transfer, Side!noOverflow, SideProofs!noOverflow,
       Side!moved, SideProofs!moved, Side!Add, SideProofs!Add, Side!Sub, SideProofs!Sub
<1>3. ASSUME NEW a, NEW k
      PROVE  Side!deposit(a, k) <=> SideProofs!deposit(a, k)
    BY
       DEF Side!deposit, SideProofs!deposit, Side!onlyAuthority, SideProofs!onlyAuthority,
       Side!firstTime, SideProofs!firstTime, Side!addressArrayContains,
       SideProofs!addressArrayContains, Side!Range, SideProofs!Range, Side!confirmed,
       SideProofs!confirmed, Side!mint, SideProofs!mint, Side!Add, SideProofs!Add, Side!Emit,
       SideProofs!Emit, Side!NoTx, SideProofs!NoTx
<1>4. ASSUME NEW a, NEW m
      PROVE  Side!transferToMainViaRelay(a, m) <=> SideProofs!transferToMainViaRelay(a, m)
    BY
       DEF Side!transferToMainViaRelay, SideProofs!transferToMainViaRelay, Side!inTransaction,
       SideProofs!inTransaction, Side!Message, SideProofs!Message, Side!relayCost,
       SideProofs!relayCost, Side!Mul, SideProofs!Mul, Side!burn, SideProofs!burn, Side!Sub,
       SideProofs!Sub, Side!Emit, SideProofs!Emit
<1>5. ASSUME NEW a, NEW s, NEW m
      PROVE  Side!submitSignature(a, s, m) <=> SideProofs!submitSignature(a, s, m)
    BY
       DEF Side!submitSignature, SideProofs!submitSignature, Side!onlyAuthority,
       SideProofs!onlyAuthority, Side!firstTime, SideProofs!firstTime,
       Side!addressArrayContains, SideProofs!addressArrayContains, Side!Range,
       SideProofs!Range, Side!isSignedBy, SideProofs!isSignedBy, Side!ecrecover,
       SideProofs!ecrecover, Side!confirmed, SideProofs!confirmed, Side!Emit, SideProofs!Emit,
       Side!NoTx, SideProofs!NoTx, Side!tokenVars, SideProofs!tokenVars
<1> QED
    BY <1>1, <1>2, <1>3, <1>4, <1>5

LEMMA SideAssumptions ==
    /\ SideProofs!AddressAssumption /\ SideProofs!HashAssumption
    /\ SideProofs!WordAssumption /\ SideProofs!ConstructorAssumption
    /\ SideProofs!SideAssumption
BY AddressAssumption, HashAssumption, WordAssumption, ConstructorAssumption,
   ParameterAssumption
   DEF SideProofs!AddressAssumption, SideProofs!HashAssumption, SideProofs!WordAssumption,
   SideProofs!ConstructorAssumption, SideProofs!SideAssumption, SideProofs!Uint, Uint,
   SideProofs!IsFiniteSet, IsFiniteSet

-----------------------------------------------------------------------------
(* Every step of the protocol is one of MainBridge or leaves it alone, *)
LEMMA MainStep == [Next]_vars => [MainProofs!Next]_(MainProofs!vars)
<1> SUFFICES ASSUME [Next]_vars PROVE [MainProofs!Next]_(MainProofs!vars)
    OBVIOUS
<1>1. /\ MainProofs!Caller = Caller /\ MainProofs!Message = Message
      /\ Range(authorities) \cap Caller \subseteq Address
    BY DEF MainProofs!Caller, Caller, MainProofs!Message, Message
<1>2. ASSUME NEW user \in Recipient \cap Caller, NEW value \in Value, NEW hash \in MainTx,
             depositOnMain(user, value, hash)
      PROVE  MainProofs!Next
    <2>1. MainProofs!fallback(user, value, hash)
        BY <1>2, MainOperators DEF depositOnMain
    <2> QED
        BY <1>1, <2>1 DEF MainProofs!Next
<1>3. ASSUME NEW authority \in Range(authorities) \cap Caller, NEW message \in Message,
             signMessage(authority, message)
      PROVE  MainProofs!Next
    <2>1. MainProofs!eth_sign(authority, message)
        BY <1>3, MainOperators DEF signMessage
    <2> QED
        BY <1>1, <2>1 DEF MainProofs!Next
<1>4. ASSUME NEW message \in Message, NEW caller \in Caller, NEW gasprice \in GasPrice,
             NEW sigs \in Main!SignatureLists(message),
             withdrawOnMain(caller, gasprice, sigs, message)
      PROVE  MainProofs!Next
    <2>1. /\ MainProofs!withdraw(caller, gasprice, sigs, message)
          /\ sigs \in MainProofs!SignatureLists(message)
        BY <1>4, MainOperators DEF withdrawOnMain
    <2> QED
        BY <1>1, <2>1 DEF MainProofs!Next
<1>5. CASE UNCHANGED <<mainVars, signed>>
    BY <1>5 DEF mainVars, MainProofs!vars
<1>6. CASE UserNext
    BY <1>2, <1>5, <1>6 DEF UserNext, transferOnSide, withdrawOnSide
<1>7. ASSUME NEW authority \in Range(authorities) \cap Caller, AuthorityNext(authority)
      PROVE  [MainProofs!Next]_(MainProofs!vars)
    BY <1>3, <1>5, <1>7 DEF AuthorityNext, confirmDeposit, submitToSide
<1>8. CASE WithdrawNext
    BY <1>4, <1>8 DEF WithdrawNext
<1>9. CASE UNCHANGED vars
    BY <1>5, <1>9 DEF vars
<1> QED
    BY <1>6, <1>7, <1>8, <1>9 DEF Next

(* and the same of SideBridge. *)
LEMMA SideStep == [Next]_vars => [SideProofs!Next]_(SideProofs!vars)
<1> SUFFICES ASSUME [Next]_vars PROVE [SideProofs!Next]_(SideProofs!vars)
    OBVIOUS
<1>1. /\ SideProofs!Caller = Caller /\ SideProofs!Message = Message
      /\ SideProofs!DepositKey = DepositKey /\ SideProofs!User = Recipient \cap Caller
      /\ Range(authorities) \cap Caller \subseteq Address
    BY DEF SideProofs!Caller, Caller, SideProofs!Message, Message,
           SideProofs!DepositKey, DepositKey, SideProofs!User
<1>2. ASSUME NEW user \in Recipient \cap Caller, NEW recipient \in Recipient \cap Caller,
             NEW tokens \in Value, transferOnSide(user, recipient, tokens)
      PROVE  SideProofs!Next
    <2>1. SideProofs!transfer(user, recipient, tokens)
        BY <1>2, SideOperators DEF transferOnSide
    <2> QED
        BY <1>1, <2>1 DEF SideProofs!Next
<1>3. ASSUME NEW user \in Recipient \cap Caller, NEW message \in Message,
             withdrawOnSide(user, message)
      PROVE  SideProofs!Next
    <2>1. SideProofs!transferToMainViaRelay(user, message)
        BY <1>3, SideOperators DEF withdrawOnSide
    <2> QED
        BY <1>1, <2>1 DEF SideProofs!Next
<1>4. ASSUME NEW authority \in Range(authorities) \cap Caller, NEW key \in DepositKey,
             confirmDeposit(authority, key)
      PROVE  SideProofs!Next
    <2>1. SideProofs!deposit(authority, key)
        BY <1>4, SideOperators DEF confirmDeposit
    <2> QED
        BY <1>1, <2>1 DEF SideProofs!Next
<1>5. ASSUME NEW authority \in Range(authorities) \cap Caller, NEW message \in Message,
             submitToSide(authority, message)
      PROVE  SideProofs!Next
    <2>1. SideProofs!submitSignature(authority, [signer |-> authority, message |-> message],
                                     message)
        BY <1>5, SideOperators DEF submitToSide
    <2> QED
        BY <1>1, <2>1 DEF SideProofs!Next
<1>6. CASE UNCHANGED sideVars
    BY <1>6 DEF sideVars, SideProofs!vars, SideProofs!tokenVars
<1>7. CASE UserNext
    BY <1>2, <1>3, <1>6, <1>7 DEF UserNext, depositOnMain
<1>8. ASSUME NEW authority \in Range(authorities) \cap Caller, AuthorityNext(authority)
      PROVE  [SideProofs!Next]_(SideProofs!vars)
    BY <1>4, <1>5, <1>6, <1>8 DEF AuthorityNext, signMessage
<1>9. CASE WithdrawNext
    BY <1>6, <1>9 DEF WithdrawNext, withdrawOnMain
<1>10. CASE UNCHANGED vars
    BY <1>6, <1>10 DEF vars
<1> QED
    BY <1>7, <1>8, <1>9, <1>10 DEF Next

(* So what is proved of each contract is invariant here. *)
LEMMA ContractsInit == Init => MainProofs!Inv /\ SideProofs!Inv
<1>1. MainProofs!Init => MainProofs!Inv
    BY MainAssumptions, MainProofs!InitInv
<1>2. SideProofs!Init => SideProofs!Inv
    BY SideAssumptions, SideProofs!InitInv
<1> QED
    BY <1>1, <1>2, MainOperators, SideOperators DEF Init

LEMMA ContractsNext ==
    MainProofs!Inv /\ SideProofs!Inv /\ [Next]_vars => (MainProofs!Inv /\ SideProofs!Inv)'
<1>1. MainProofs!Inv /\ [MainProofs!Next]_(MainProofs!vars) => MainProofs!Inv'
    BY MainAssumptions, MainProofs!NextInv
<1>2. SideProofs!Inv /\ [SideProofs!Next]_(SideProofs!vars) => SideProofs!Inv'
    BY SideAssumptions, SideProofs!NextInv
<1> QED
    BY <1>1, <1>2, MainStep, SideStep

-----------------------------------------------------------------------------
(* The types of the state, in the names of this module. *)
Types ==
    /\ mainBalance \in 0 .. EtherSupply
    /\ mainDepositLog \in [DepositKey -> Nat]
    /\ signed \subseteq Signature
    /\ totalSupply \in Uint
    /\ balances \in [Address -> Uint]
    /\ deposits \in [DepositKey -> Seq(Address)]
    /\ signatures \in [Message -> [authorities : Seq(Address), signatures : Seq(Signature)]]
    /\ sideDepositLog \in [DepositKey -> Nat]
    /\ sideWithdrawLog \in [Message -> Nat]

LEMMA TypesHold == MainProofs!Inv /\ SideProofs!Inv => Types
<1> SUFFICES ASSUME MainProofs!Inv, SideProofs!Inv PROVE Types
    OBVIOUS
<1>1. /\ mainBalance \in 0 .. EtherSupply
      /\ mainDepositLog \in [DepositKey -> Nat]
      /\ signed \subseteq Signature
    BY DEF MainProofs!Inv, MainProofs!TypeOK, MainProofs!DepositKey, DepositKey,
           MainProofs!Signature, Signature, MainProofs!Message, Message
<1>2. /\ totalSupply \in Uint
      /\ balances \in [Address -> Uint]
      /\ deposits \in [DepositKey -> Seq(Address)]
      /\ sideDepositLog \in [DepositKey -> Nat]
      /\ sideWithdrawLog \in [Message -> Nat]
    BY DEF SideProofs!Inv, SideProofs!TypeOK, SideProofs!DepositKey, DepositKey,
           SideProofs!Message, Message, SideProofs!Uint, Uint
<1>3. signatures \in [Message -> [authorities : Seq(Address), signatures : Seq(Signature)]]
    BY DEF SideProofs!Inv, SideProofs!TypeOK, SideProofs!SignaturesCollection,
           SideProofs!Signature, Signature, SideProofs!Message, Message
<1> QED
    BY <1>1, <1>2, <1>3 DEF Types

LEMMA SideSums == ASSUME NEW f PROVE SideProofs!Total(f) = Total(f)
BY DEF SideProofs!Total, Total, SideProofs!Units, Units, SideProofs!Cardinality, Cardinality,
       SideProofs!IsFiniteSet, IsFiniteSet

(* Every quorum has an honest member. *)
LEMMA HonestMember ==
    ASSUME NEW S, S \subseteq Range(authorities), requiredSignatures <= Cardinality(S)
    PROVE  \E a \in S : a \notin Byzantine
<1> SUFFICES ASSUME S \subseteq Byzantine PROVE FALSE
    OBVIOUS
<1>1. IsFiniteSet(Byzantine)
    BY AuthoritiesFinite, ByzantineAssumption, FS_Subset
<1>2. IsFiniteSet(S) /\ Cardinality(S) <= Cardinality(Byzantine)
    BY <1>1, FS_Subset
<1>3. Cardinality(S) \in Nat /\ Cardinality(Byzantine) \in Nat
    BY <1>1, <1>2, FS_CardinalityType
<1> QED
    BY <1>2, <1>3, ByzantineAssumption, ConstructorAssumption

(* A minted deposit was confirmed by an honest authority, so it was made. *)
LEMMA MintsBacked ==
    ASSUME SideProofs!Inv, HonestConfirmations, Types, NEW key \in DepositKey
    PROVE  /\ sideDepositLog[key] \in {0, 1}
           /\ sideDepositLog[key] > 0 => mainDepositLog[key] > 0
<1> DEFINE confirmations == deposits[key]
<1>1. /\ SideProofs!IsInjective(confirmations)
      /\ SideProofs!Range(confirmations) \subseteq SideProofs!Range(authorities)
      /\ sideDepositLog[key] = IF Len(confirmations) >= requiredSignatures THEN 1 ELSE 0
    BY DEF SideProofs!Inv, SideProofs!MintedOncePerQuorum, SideProofs!DepositKey, DepositKey
<1>2. \A i, j \in DOMAIN confirmations : confirmations[i] = confirmations[j] => i = j
    BY <1>1 DEF SideProofs!IsInjective
<1>3. Range(confirmations) \subseteq Range(authorities)
    BY <1>1 DEF SideProofs!Range, Range
<1>4. confirmations \in Seq(Address)
    BY DEF Types
<1> SUFFICES ASSUME sideDepositLog[key] > 0 PROVE mainDepositLog[key] > 0
    BY <1>1
<1>5. Len(confirmations) >= requiredSignatures
    BY <1>1
<1> DEFINE n == Len(confirmations)
<1>6. n \in Nat /\ DOMAIN confirmations = 1 .. n
    BY <1>4
<1>7. n <= Cardinality(Range(confirmations))
    <2>1. IsFiniteSet(Range(confirmations))
        BY <1>3, AuthoritiesFinite, FS_Subset
    <2>2. confirmations \in [1 .. n -> Range(confirmations)]
        BY <1>4, <1>6 DEF Range
    <2>3. \A x, y \in 1 .. n : x < y => confirmations[x] # confirmations[y]
        BY <1>2, <1>6
    <2> HIDE DEF confirmations, n
    <2> QED
        BY <1>6, <2>1, <2>2, <2>3, DistinctMembers
<1>8. requiredSignatures <= Cardinality(Range(confirmations))
    <2>1. Cardinality(Range(confirmations)) \in Nat
        BY <1>3, AuthoritiesFinite, FS_Subset, FS_CardinalityType
    <2> QED
        BY <1>5, <1>6, <1>7, <2>1, ConstructorAssumption
<1>9. PICK a \in Range(confirmations) : a \notin Byzantine
    BY <1>3, <1>8, HonestMember
<1> QED
    BY <1>9 DEF HonestConfirmations

Backed ==
    \A key \in DepositKey : /\ sideDepositLog[key] \in {0, 1}
                            /\ sideDepositLog[key] > 0 => mainDepositLog[key] > 0

LEMMA MintsBackedNext == (SideProofs!Inv /\ HonestConfirmations /\ Types => Backed)'
<1>1. SideProofs!Inv /\ HonestConfirmations /\ Types => Backed
    BY MintsBacked DEF Backed
<1> QED
    BY <1>1, PTL

(* What a quorum has signed was burned. *)
LEMMA SignedIsBurned ==
    ASSUME HonestSignatures, NEW message,
           requiredSignatures <= MainProofs!Cardinality(MainProofs!Signers(message))
    PROVE  sideWithdrawLog[message] > 0
<1> DEFINE S == MainProofs!Signers(message)
<1>1. S \subseteq Range(authorities) /\ \A a \in S : [signer |-> a, message |-> message] \in signed
    BY DEF MainProofs!Signers, MainProofs!Range, Range
<1> HIDE DEF S
<1>2. requiredSignatures <= Cardinality(S)
    BY DEF S, MainProofs!Cardinality, Cardinality, MainProofs!IsFiniteSet, IsFiniteSet
<1>3. PICK a \in S : a \notin Byzantine
    BY <1>1, <1>2, HonestMember
<1>4. [signer |-> a, message |-> message] \in signed
    BY <1>1
<1> QED
    BY <1>3, <1>4 DEF HonestSignatures

(* The sums are sums of numbers, none below what one argument adds to it. *)
LEMMA Sums ==
    ASSUME Types, SideProofs!Inv, HonestConfirmations
    PROVE  /\ balances \in [Address -> Nat] /\ Total(balances) \in Nat
           /\ Owed \in [Message -> Nat] /\ Outstanding \in Nat
           /\ Due \in [DepositKey -> Nat] /\ Unminted \in Nat
           /\ \A a \in Address : balances[a] <= Total(balances)
           /\ \A key \in DepositKey : Due[key] <= Unminted
<1>1. balances \in [Address -> Nat]
    BY FieldsAreWords DEF Types
<1>2. ASSUME NEW m \in Message PROVE sideWithdrawLog[m] * m.value \in Nat
    <2>1. sideWithdrawLog[m] \in Nat /\ m.value \in Nat
        BY FieldsAreWords DEF Types
    <2> QED
        BY <2>1
<1>3. Owed \in [Message -> Nat]
    BY <1>2 DEF Owed
<1>4. ASSUME NEW key \in DepositKey
      PROVE  (mainDepositLog[key] - sideDepositLog[key]) * key.value \in Nat
    <2>1. /\ mainDepositLog[key] \in Nat /\ sideDepositLog[key] \in Nat
          /\ key.value \in Nat
        BY FieldsAreWords DEF Types
    <2>2. mainDepositLog[key] - sideDepositLog[key] \in Nat
        BY <2>1, MintsBacked
    <2> QED
        BY <2>1, <2>2
<1>5. Due \in [DepositKey -> Nat]
    BY <1>4 DEF Due
<1>6. IsFiniteSet(Address) /\ IsFiniteSet(Message) /\ IsFiniteSet(DepositKey)
    BY AddressAssumption, MessagesFinite
<1>7. Total(balances) \in Nat /\ \A a \in Address : balances[a] <= Total(balances)
    BY <1>1, <1>6, TotalType, TotalBound
<1>8. Outstanding \in Nat
    BY <1>3, <1>6, TotalType DEF Outstanding
<1>9. Unminted \in Nat /\ \A key \in DepositKey : Due[key] <= Unminted
    BY <1>5, <1>6, TotalType, TotalBound DEF Unminted
<1> QED
    BY <1>1, <1>3, <1>5, <1>7, <1>8, <1>9

LEMMA OneMore ==
    ASSUME NEW a \in Nat, NEW b \in Nat, NEW c \in Nat
    PROVE  /\ (a + 1 - b) * c = (a - b) * c + c
           /\ (a - (b + 1)) * c = (a - b) * c - c
           /\ (a + 1) * c = a * c + c
           /\ a > 0 => a * c >= c
OBVIOUS

-----------------------------------------------------------------------------
(* One lemma per action: the parts of the invariant about both contracts. *)

Parts ==
    /\ HonestConfirmations /\ HonestSignatures /\ CollectedAreSigned
    /\ BurnsCoverTheirCost /\ Covered

LEMMA DepositOnMainParts ==
    ASSUME Inv, Types, NEW user \in Recipient, NEW value \in Value, NEW hash \in MainTx,
           depositOnMain(user, value, hash)
    PROVE  Parts'
<1> DEFINE key == [recipient |-> user, value |-> value, transactionHash |-> hash]
<1>1. key \in DepositKey /\ key.value = value /\ value \in Nat
    BY FieldsAreWords, WordAssumption DEF DepositKey
<1>2. /\ mainBalance' = mainBalance + value
      /\ mainDepositLog' = [mainDepositLog EXCEPT ![key] = @ + 1]
      /\ UNCHANGED <<withdraws, signed, sideVars>>
    BY DEF depositOnMain, Main!fallback, Main!Emit
<1> HIDE DEF key
<1>3. /\ mainDepositLog \in [DepositKey -> Nat]
      /\ \A k \in DepositKey : mainDepositLog'[k] \in Nat /\ mainDepositLog'[k] >= mainDepositLog[k]
      /\ mainDepositLog'[key] = mainDepositLog[key] + 1
      /\ \A k \in DepositKey : k # key => mainDepositLog'[k] = mainDepositLog[k]
    BY <1>1, <1>2 DEF Types
<1>4. HonestConfirmations'
    BY <1>2, <1>3 DEF Inv, HonestConfirmations, sideVars
<1>5. HonestSignatures' /\ CollectedAreSigned' /\ BurnsCoverTheirCost'
    BY <1>2 DEF Inv, HonestSignatures, CollectedAreSigned, BurnsCoverTheirCost, sideVars
<1>6. Covered'
    <2>1. /\ Due \in [DepositKey -> Nat] /\ Unminted \in Nat /\ Outstanding \in Nat
          /\ Total(balances) \in Nat /\ Due[key] \in Nat
        BY <1>1, Sums DEF Inv
    <2>2. sideDepositLog' = sideDepositLog /\ Due[key] = (mainDepositLog[key] - sideDepositLog[key]) * key.value
        BY <1>1, <1>2 DEF sideVars, Due
    <2>3. (mainDepositLog'[key] - sideDepositLog'[key]) * key.value = Due[key] + value
        <3>1. mainDepositLog[key] \in Nat /\ sideDepositLog[key] \in Nat
            BY <1>1 DEF Types
        <3>2. (mainDepositLog[key] + 1 - sideDepositLog[key]) * key.value
                 = (mainDepositLog[key] - sideDepositLog[key]) * key.value + key.value
            BY <1>1, <3>1, OneMore
        <3>3. (mainDepositLog'[key] - sideDepositLog'[key]) * key.value
                 = (mainDepositLog[key] + 1 - sideDepositLog[key]) * key.value
            BY <1>1, <2>2, <3>1, <1>3
        <3>4. (mainDepositLog[key] - sideDepositLog[key]) * key.value + key.value = Due[key] + value
            BY <2>2, <1>1, Zenon
        <3> QED
            BY <3>2, <3>3, <3>4, Zenon
    <2>4. Due' = [Due EXCEPT ![key] = Due[key] + value]
        BY <1>1, <1>3, <2>1, <2>2, <2>3 DEF Due
    <2>5. Unminted' = Unminted + value
        <3>1. Total([Due EXCEPT ![key] = Due[key] + value]) = Total(Due) - Due[key] + (Due[key] + value)
            BY <1>1, <2>1, Due[key] + value \in Nat, MessagesFinite, TotalUpdate
        <3>2. Unminted' = Unminted - Due[key] + (Due[key] + value)
            BY <2>4, <3>1, Zenon DEF Unminted
        <3> QED
            BY <3>2, <2>1, <1>1
    <2>6. Outstanding' = Outstanding /\ balances' = balances /\ totalSupply' = totalSupply
        BY <1>2 DEF Outstanding, Owed, sideVars
    <2>7. mainBalance \in Nat /\ mainBalance >= Total(balances) + Outstanding + Unminted
        BY DEF Types, Inv, Covered
    <2>8. Total(balances)' = Total(balances) /\ totalSupply' = Total(balances)
        BY <2>6, Zenon DEF Inv, Covered
    <2> QED
        BY <1>1, <1>2, <2>1, <2>5, <2>6, <2>7, <2>8 DEF Covered
<1> QED
    BY <1>4, <1>5, <1>6 DEF Parts

LEMMA TransferOnSideParts ==
    ASSUME Inv, Types, NEW user \in Address, NEW recipient \in Address, NEW tokens \in Value,
           transferOnSide(user, recipient, tokens)
    PROVE  Parts'
<1>1. /\ UNCHANGED <<mainVars, signed, totalSupply, deposits, signatures>>
      /\ UNCHANGED <<sideDepositLog, sideWithdrawLog>>
    BY DEF transferOnSide, Side!transfer
<1>2. HonestConfirmations' /\ HonestSignatures' /\ CollectedAreSigned' /\ BurnsCoverTheirCost'
    BY <1>1 DEF Inv, HonestConfirmations, HonestSignatures, CollectedAreSigned,
                BurnsCoverTheirCost, mainVars
<1>3. Total(balances)' = Total(balances)
    <2>1. SideProofs!transfer(user, recipient, tokens) /\ SideProofs!TypeOK
        BY SideOperators DEF transferOnSide, Inv, SideProofs!Inv
    <2>2. /\ balances[user] >= tokens /\ SideProofs!noOverflow(recipient, tokens)
          /\ balances' = SideProofs!moved(user, recipient, tokens)
        BY <2>1 DEF SideProofs!transfer
    <2>3. SideProofs!Total(SideProofs!moved(user, recipient, tokens)) = SideProofs!Total(balances)
        BY <2>1, <2>2, SideAssumptions, SideProofs!MovedTotal
    <2>4. Total(SideProofs!moved(user, recipient, tokens)) = Total(balances)
        BY <2>3, SideSums
    <2> QED
        BY <2>2, <2>4, Zenon
<1>4. Outstanding' = Outstanding /\ Unminted' = Unminted
    BY <1>1 DEF Outstanding, Owed, Unminted, Due, mainVars
<1>5. Covered'
    BY <1>1, <1>3, <1>4 DEF Inv, Covered, mainVars
<1> QED
    BY <1>2, <1>5 DEF Parts

LEMMA WithdrawOnSideParts ==
    ASSUME Inv, Types, NEW user \in Address, NEW message \in Message,
           withdrawOnSide(user, message)
    PROVE  Parts'
<1> DEFINE value == message.value
<1>1. value \in Uint /\ value \in Nat /\ relayCost(message.mainGasPrice) \in Nat
    BY FieldsAreWords, RelayCostType
<1>2. /\ balances[user] >= value
      /\ value > relayCost(message.mainGasPrice)
      /\ sideWithdrawLog' = [sideWithdrawLog EXCEPT ![message] = @ + 1]
      /\ totalSupply' = Sub(totalSupply, value)
      /\ UNCHANGED <<mainVars, signed, deposits, signatures, sideDepositLog>>
    BY DEF withdrawOnSide, Side!transferToMainViaRelay, Side!burn, Side!Emit, Side!Sub, Sub,
           Side!relayCost, relayCost, Side!Mul, Mul
<1> HIDE DEF value
<1>3. /\ sideWithdrawLog'[message] = sideWithdrawLog[message] + 1
      /\ sideWithdrawLog[message] \in Nat
      /\ \A m \in Message : m # message => sideWithdrawLog'[m] = sideWithdrawLog[m]
      /\ \A m \in Message : sideWithdrawLog[m] > 0 => sideWithdrawLog'[m] > 0
    BY <1>2 DEF Types
<1>4. HonestConfirmations' /\ CollectedAreSigned'
    BY <1>2 DEF Inv, HonestConfirmations, CollectedAreSigned, mainVars
<1>5. HonestSignatures'
    <2>1. \A sig \in signed : sig.message \in Message
        BY DEF Types, Signature
    <2> QED
        BY <1>2, <1>3, <2>1 DEF Inv, HonestSignatures
<1>6. BurnsCoverTheirCost'
    <2> SUFFICES ASSUME NEW m \in Message, sideWithdrawLog'[m] > 0
                 PROVE  relayCost(m.mainGasPrice) < m.value
        BY DEF BurnsCoverTheirCost
    <2>1. CASE m = message
        BY <1>1, <1>2, <2>1 DEF value
    <2>2. CASE m # message
        BY <1>3, <2>2 DEF Inv, BurnsCoverTheirCost
    <2> QED
        BY <2>1, <2>2
<1>7. Covered'
    <2>1. /\ Owed \in [Message -> Nat] /\ Unminted \in Nat /\ Outstanding \in Nat
          /\ Total(balances) \in Nat /\ balances[user] <= Total(balances)
        BY Sums DEF Inv
    <2>2. Total(balances)' = Total(balances) - value
        <3>1. SideProofs!transferToMainViaRelay(user, message) /\ SideProofs!TypeOK
            BY SideOperators DEF withdrawOnSide, Inv, SideProofs!Inv
        <3>2. SideProofs!burn(user, value) /\ value \in SideProofs!Uint
            BY <1>1, <3>1 DEF SideProofs!transferToMainViaRelay, SideProofs!Uint, Uint, value
        <3>3. SideProofs!Total(balances') = SideProofs!Total(balances) - value
            BY <1>2, <3>1, <3>2, SideAssumptions, SideProofs!BurnTotal
        <3> QED
            BY <3>3, SideSums
    <2>3. totalSupply' = Total(balances) - value
        <3>1. totalSupply = Total(balances) /\ totalSupply \in Uint
            BY DEF Inv, Covered, Types
        <3>2. totalSupply >= value
            <4>1. balances[user] \in Nat
                BY Sums DEF Inv
            <4> QED
                BY <1>1, <1>2, <2>1, <3>1, <4>1
        <3> QED
            BY <1>1, <1>2, <3>1, <3>2, SubExact
    <2>4. Outstanding' \in Nat /\ Outstanding' <= Outstanding + value
        <3> DEFINE more == [Owed EXCEPT ![message] = Owed[message] + value]
        <3>1. Owed[message] \in Nat /\ Owed[message] + value \in Nat
            BY <1>1, <2>1
        <3>2. Total(more) = Outstanding - Owed[message] + (Owed[message] + value)
            BY <2>1, <3>1, MessagesFinite, TotalUpdate DEF Outstanding
        <3>3. more \in [Message -> Nat] /\ more[message] = Owed[message] + value
              /\ \A m \in Message : m # message => more[m] = Owed[m]
            BY <2>1, <3>1
        <3> HIDE DEF more
        <3>4. \A m \in Message :
                 Owed'[m] = IF m.transactionHash \in withdraws THEN 0
                            ELSE sideWithdrawLog'[m] * m.value
            BY <1>2 DEF Owed, mainVars
        <3>5. \A m \in Message :
                 Owed[m] = IF m.transactionHash \in withdraws THEN 0
                           ELSE sideWithdrawLog[m] * m.value
            BY DEF Owed
        <3>6. sideWithdrawLog'[message] * value = sideWithdrawLog[message] * value + value
            <4>1. (sideWithdrawLog[message] + 1) * value = sideWithdrawLog[message] * value + value
                BY <1>1, <1>3, OneMore
            <4> QED
                BY <1>1, <1>3, <4>1
        <3>7. Owed'[message] \in Nat /\ Owed'[message] <= more[message]
            <4>1. CASE message.transactionHash \in withdraws
                BY <1>1, <3>1, <3>3, <3>4, <4>1
            <4>2. CASE message.transactionHash \notin withdraws
                <5>1. Owed'[message] = Owed[message] + value
                    BY <3>4, <3>5, <3>6, <4>2 DEF value
                <5> QED
                    BY <3>1, <3>3, <5>1
            <4> QED
                BY <4>1, <4>2
        <3>8. ASSUME NEW m \in Message PROVE Owed'[m] \in Nat /\ Owed'[m] <= more[m]
            <4>1. CASE m = message
                BY <3>7, <4>1
            <4>2. CASE m # message
                <5>1. Owed'[m] = Owed[m]
                    BY <1>3, <3>4, <3>5, <4>2
                <5>2. more[m] = Owed[m] /\ Owed[m] \in Nat
                    BY <2>1, <3>3, <4>2
                <5> QED
                    BY <5>1, <5>2
            <4> QED
                BY <4>1, <4>2
        <3>9. Owed' \in [Message -> Nat]
            <4>1. Owed' = [m \in Message |-> Owed'[m]]
                BY DEF Owed
            <4> QED
                BY <3>8, <4>1
        <3>10. Total(Owed') <= Total(more) /\ Total(Owed') \in Nat
            BY <3>3, <3>8, <3>9, MessagesFinite, TotalMonotone, TotalType
        <3> QED
            BY <1>1, <2>1, <3>1, <3>2, <3>10 DEF Outstanding
    <2>6. Unminted' = Unminted
        BY <1>2 DEF Unminted, Due, mainVars
    <2>7. mainBalance' = mainBalance /\ mainBalance \in Nat
          /\ mainBalance >= Total(balances) + Outstanding + Unminted
        BY <1>2 DEF Types, Inv, Covered, mainVars
    <2> QED
        BY <1>1, <2>1, <2>2, <2>3, <2>4, <2>6, <2>7 DEF Covered
<1> QED
    BY <1>4, <1>5, <1>6, <1>7 DEF Parts

(* A confirmation that mints: the deposit's ether becomes tokens. *)
LEMMA MintCovered ==
    ASSUME Inv, Types, SideProofs!Inv', Types', HonestConfirmations',
           UNCHANGED <<mainVars, sideWithdrawLog>>,
           NEW key \in DepositKey, SideProofs!mint(key),
           sideDepositLog' = [sideDepositLog EXCEPT ![key] = @ + 1],
           totalSupply' = Add(totalSupply, key.value)
    PROVE  Covered'
<1> DEFINE value == key.value
           r == key.recipient
<1>1. value \in Uint /\ value \in Nat /\ r \in Address
    BY FieldsAreWords
<1>2. /\ Due \in [DepositKey -> Nat] /\ Unminted \in Nat /\ Outstanding \in Nat
      /\ Total(balances) \in Nat /\ Due[key] \in Nat /\ Due[key] <= Unminted
      /\ balances[r] \in Nat /\ balances[r] <= Total(balances)
    BY <1>1, Sums DEF Inv
<1>3. /\ mainDepositLog[key] \in Nat /\ sideDepositLog[key] \in Nat
      /\ sideDepositLog'[key] = sideDepositLog[key] + 1
      /\ \A k \in DepositKey : k # key => sideDepositLog'[k] = sideDepositLog[k]
    BY DEF Types
<1>4. sideDepositLog'[key] \in {0, 1} /\ (sideDepositLog'[key] > 0 => mainDepositLog'[key] > 0)
    BY MintsBackedNext DEF Backed
<1>5. sideDepositLog[key] = 0 /\ mainDepositLog[key] > 0 /\ mainDepositLog' = mainDepositLog
    BY <1>3, <1>4 DEF mainVars
<1>6. Due[key] = (mainDepositLog[key] - sideDepositLog[key]) * key.value
    BY DEF Due
<1>7. value <= Due[key] /\ Due[key] - value \in Nat
    <2>1. mainDepositLog[key] - sideDepositLog[key] = mainDepositLog[key]
        BY <1>3, <1>5
    <2>2. mainDepositLog[key] * key.value >= key.value
        BY <1>1, <1>3, <1>5, OneMore
    <2>3. Due[key] = mainDepositLog[key] * key.value
        BY <1>1, <1>3, <1>6, <2>1
    <2> QED
        BY <1>1, <1>2, <2>2, <2>3
<1>8. (mainDepositLog'[key] - sideDepositLog'[key]) * key.value = Due[key] - value
    <2>1. (mainDepositLog[key] - (sideDepositLog[key] + 1)) * key.value
             = (mainDepositLog[key] - sideDepositLog[key]) * key.value - key.value
        BY <1>1, <1>3, OneMore
    <2> QED
        BY <1>1, <1>3, <1>5, <1>6, <2>1
<1>9. Due' = [Due EXCEPT ![key] = Due[key] - value]
    <2>1. \A k \in DepositKey : k # key =>
             (mainDepositLog'[k] - sideDepositLog'[k]) * k.value
                = (mainDepositLog[k] - sideDepositLog[k]) * k.value
        BY <1>3, <1>5
    <2>2. Due' = [k \in DepositKey |-> (mainDepositLog'[k] - sideDepositLog'[k]) * k.value]
        BY DEF Due
    <2>3. \A k \in DepositKey : k # key => Due'[k] = Due[k]
        BY <2>1, <2>2 DEF Due
    <2>4. Due'[key] = Due[key] - value
        BY <1>8, <2>2
    <2> QED
        BY <1>2, <2>2, <2>3, <2>4
<1> HIDE DEF value, r
<1>10. Unminted' = Unminted - value
    <2>1. Total([Due EXCEPT ![key] = Due[key] - value]) = Total(Due) - Due[key] + (Due[key] - value)
        BY <1>2, <1>7, MessagesFinite, TotalUpdate
    <2>2. Unminted' = Unminted - Due[key] + (Due[key] - value)
        BY <1>9, <2>1, Zenon DEF Unminted
    <2> QED
        BY <1>1, <1>2, <2>2
<1>11. Outstanding' = Outstanding
    BY DEF Outstanding, Owed, mainVars
<1>12. /\ mainBalance' = mainBalance /\ mainBalance \in Nat /\ mainBalance < UintModulus
       /\ mainBalance >= Total(balances) + Outstanding + Unminted
       /\ totalSupply = Total(balances) /\ totalSupply \in Uint /\ UintModulus \in Nat
    BY ParameterAssumption, WordAssumption DEF Types, Inv, Covered, mainVars, Uint
<1>13. Total(balances) + value < UintModulus /\ balances[r] + value < UintModulus
    BY <1>1, <1>2, <1>7, <1>12
<1>14. Total(balances)' = Total(balances) + value
    <2>1. SideProofs!TypeOK /\ key \in SideProofs!DepositKey
        BY DEF Inv, SideProofs!Inv, SideProofs!DepositKey, DepositKey
    <2>2. \/ SideProofs!Total(balances') = SideProofs!Total(balances) + key.value
          \/ balances[key.recipient] + key.value >= UintModulus
        BY <2>1, SideAssumptions, SideProofs!MintTotal
    <2>3. SideProofs!Total(balances') = SideProofs!Total(balances) + value
        BY <1>1, <1>2, <1>12, <1>13, <2>2 DEF value, r
    <2> QED
        BY <2>3, SideSums
<1>15. totalSupply' = Total(balances) + value
    BY <1>1, <1>12, <1>13, AddCases DEF value
<1> QED
    BY <1>1, <1>2, <1>10, <1>11, <1>12, <1>14, <1>15 DEF Covered

LEMMA ConfirmDepositParts ==
    ASSUME Inv, Types, SideProofs!Inv', Types',
           NEW authority \in Address, NEW key \in DepositKey, confirmDeposit(authority, key)
    PROVE  Parts'
<1>1. /\ mayConfirm(authority, key)
      /\ deposits' = [deposits EXCEPT ![key] = Append(@, authority)]
      /\ UNCHANGED <<mainVars, signed, signatures, sideWithdrawLog>>
    BY DEF confirmDeposit, Side!deposit
<1>2. HonestSignatures' /\ CollectedAreSigned' /\ BurnsCoverTheirCost'
    BY <1>1 DEF Inv, HonestSignatures, CollectedAreSigned, BurnsCoverTheirCost
<1>3. HonestConfirmations'
    <2> SUFFICES ASSUME NEW k \in DepositKey, NEW a \in Range(deposits'[k])
                 PROVE  a \in Byzantine \/ mainDepositLog[k] > 0
        BY <1>1 DEF HonestConfirmations, mainVars
    <2>1. CASE k = key
        <3>1. deposits[key] \in Seq(Address) /\ deposits'[key] = Append(deposits[key], authority)
            BY <1>1 DEF Types
        <3>2. a = authority \/ a \in Range(deposits[key])
            BY <2>1, <3>1 DEF Range
        <3> QED
            BY <1>1, <2>1, <3>2 DEF Inv, HonestConfirmations, mayConfirm
    <2>2. CASE k # key
        <3>1. deposits'[k] = deposits[k]
            BY <1>1, <2>2 DEF Types
        <3> QED
            BY <3>1 DEF Inv, HonestConfirmations
    <2> QED
        BY <2>1, <2>2
<1>4. Covered'
    <2>1. CASE SideProofs!mint(key)
        <3>1. /\ sideDepositLog' = [sideDepositLog EXCEPT ![key] = @ + 1]
              /\ totalSupply' = Add(totalSupply, key.value)
            BY <2>1 DEF SideProofs!mint, SideProofs!Emit, SideProofs!Add, Add
        <3> QED
            BY <1>1, <1>3, <2>1, <3>1, MintCovered
    <2>2. CASE UNCHANGED <<balances, totalSupply, sideDepositLog>>
        BY <1>1, <2>2 DEF Inv, Covered, Outstanding, Owed, Unminted, Due, mainVars
    <2> QED
        BY <2>1, <2>2, SideOperators DEF confirmDeposit, SideProofs!deposit
<1> QED
    BY <1>2, <1>3, <1>4 DEF Parts

LEMMA SignMessageParts ==
    ASSUME Inv, Types, NEW authority, NEW message \in Message,
           signMessage(authority, message)
    PROVE  Parts'
<1>1. /\ maySign(authority, message)
      /\ signed' = signed \cup {[signer |-> authority, message |-> message]}
      /\ UNCHANGED <<mainVars, sideVars>>
    BY DEF signMessage, Main!eth_sign, mainVars
<1>2. HonestSignatures'
    BY <1>1 DEF Inv, HonestSignatures, maySign, sideVars
<1>3. HonestConfirmations' /\ CollectedAreSigned' /\ BurnsCoverTheirCost'
    BY <1>1 DEF Inv, HonestConfirmations, CollectedAreSigned, BurnsCoverTheirCost,
                mainVars, sideVars
<1>4. Covered'
    BY <1>1 DEF Inv, Covered, Outstanding, Owed, Unminted, Due, mainVars, sideVars
<1> QED
    BY <1>2, <1>3, <1>4 DEF Parts

LEMMA SubmitToSideParts ==
    ASSUME Inv, Types, NEW authority \in Address, NEW message \in Message,
           submitToSide(authority, message)
    PROVE  Parts'
<1> DEFINE sig == [signer |-> authority, message |-> message]
           old == signatures[message].signatures
<1>1. /\ sig \in signed
      /\ signatures' = [signatures EXCEPT ![message].authorities = Append(@, authority),
                                          ![message].signatures = Append(@, sig)]
      /\ UNCHANGED <<mainVars, signed, totalSupply, balances, deposits>>
      /\ UNCHANGED <<sideDepositLog, sideWithdrawLog>>
    BY DEF submitToSide, Side!submitSignature, Side!tokenVars
<1>2. HonestConfirmations' /\ HonestSignatures' /\ BurnsCoverTheirCost'
    BY <1>1 DEF Inv, HonestConfirmations, HonestSignatures, BurnsCoverTheirCost, mainVars
<1>3. CollectedAreSigned'
    <2>1. signatures \in [Message -> [authorities : Seq(Address), signatures : Seq(Signature)]]
        BY DEF Types
    <2>2. old \in Seq(Signature) /\ signatures'[message].signatures = Append(old, sig)
        BY <1>1, <2>1
    <2>3. \A m \in Message : m # message => signatures'[m] = signatures[m]
        BY <1>1, <2>1
    <2>4. sig \in Signature
        BY <1>1 DEF Types
    <2> HIDE DEF sig
    <2> SUFFICES ASSUME NEW m \in Message, NEW i \in 1 .. Len(signatures'[m].signatures)
                 PROVE  signatures'[m].signatures[i] \in signed
        BY <1>1 DEF CollectedAreSigned
    <2>5. CASE m # message
        BY <2>3, <2>5 DEF Inv, CollectedAreSigned
    <2>6. CASE m = message
        <3>1. /\ Len(Append(old, sig)) = Len(old) + 1
              /\ \A j \in 1 .. Len(old) : Append(old, sig)[j] = old[j]
              /\ Append(old, sig)[Len(old) + 1] = sig
            BY <2>2, <2>4
        <3>2. i \in 1 .. Len(old) \/ i = Len(old) + 1
            BY <2>2, <2>6, <3>1
        <3>3. \A j \in 1 .. Len(old) : old[j] \in signed
            BY DEF Inv, CollectedAreSigned
        <3> QED
            BY <1>1, <2>2, <2>6, <3>1, <3>2, <3>3
    <2> QED
        BY <2>5, <2>6
<1>4. Covered'
    BY <1>1 DEF Inv, Covered, Outstanding, Owed, Unminted, Due, mainVars
<1> QED
    BY <1>2, <1>3, <1>4 DEF Parts

LEMMA WithdrawOnMainParts ==
    ASSUME Inv, Types, NEW message \in Message, NEW caller, NEW gasprice,
           NEW sigs \in Main!SignatureLists(message),
           withdrawOnMain(caller, gasprice, sigs, message)
    PROVE  Parts'
<1> DEFINE value == message.value
<1>1. /\ message.transactionHash \notin withdraws
      /\ withdraws' = withdraws \cup {message.transactionHash}
      /\ UNCHANGED <<mainDepositLog, signed, sideVars>>
    BY DEF withdrawOnMain, Main!withdraw, Main!mayWithdraw, Main!markWithdrawn
<1>2. /\ requiredSignatures <= MainProofs!Cardinality(MainProofs!Signers(message))
      /\ mainBalance' = mainBalance - value
    <2>1. /\ MainProofs!withdraw(caller, gasprice, sigs, message) /\ MainProofs!TypeOK
          /\ sigs \in MainProofs!SignatureLists(message) /\ message \in MainProofs!Message
        BY MainOperators DEF withdrawOnMain, Inv, MainProofs!Inv, MainProofs!Message, Message
    <2> QED
        BY <2>1, MainAssumptions, MainProofs!WithdrawFacts
<1>3. value \in Nat /\ sideWithdrawLog[message] \in Nat /\ sideWithdrawLog[message] > 0
    BY <1>2, FieldsAreWords, SignedIsBurned DEF Inv, Types
<1>4. HonestConfirmations' /\ HonestSignatures' /\ CollectedAreSigned' /\ BurnsCoverTheirCost'
    BY <1>1 DEF Inv, HonestConfirmations, HonestSignatures, CollectedAreSigned,
                BurnsCoverTheirCost, sideVars
<1>5. Outstanding' \in Nat /\ Outstanding' + value <= Outstanding
    <2>1. Owed \in [Message -> Nat]
        BY Sums DEF Inv
    <2>2. Owed' = [m \in Message |-> IF m.transactionHash \in withdraws'
                                     THEN 0 ELSE sideWithdrawLog[m] * m.value]
        BY <1>1 DEF Owed, sideVars
    <2>3. \A m \in Message : Owed[m] = IF m.transactionHash \in withdraws
                                       THEN 0 ELSE sideWithdrawLog[m] * m.value
        BY DEF Owed
    <2>4. ASSUME NEW m \in Message PROVE Owed'[m] = 0 \/ Owed'[m] = Owed[m]
        <3>1. CASE m.transactionHash \in withdraws'
            BY <2>2, <3>1
        <3>2. CASE m.transactionHash \notin withdraws'
            BY <1>1, <2>2, <2>3, <3>2
        <3> QED
            BY <3>1, <3>2
    <2>5. \A m \in Message : Owed'[m] \in Nat /\ Owed'[m] <= Owed[m]
        BY <2>1, <2>4
    <2>6. Owed' \in [Message -> Nat]
        <3>1. Owed' = [m \in Message |-> Owed'[m]]
            BY <2>2
        <3> QED
            BY <2>5, <3>1
    <2>7. Owed'[message] = 0
        BY <1>1, <2>2
    <2>8. Owed[message] >= value
        <3>1. sideWithdrawLog[message] * value >= value
            BY <1>3, OneMore
        <3> QED
            BY <1>1, <2>3, <3>1
    <2>9. Owed'[message] + value <= Owed[message]
        BY <1>3, <2>1, <2>7, <2>8
    <2> HIDE DEF value
    <2>10. Total(Owed') + value <= Total(Owed) /\ Total(Owed') \in Nat
        BY <1>3, <2>1, <2>5, <2>6, <2>9, MessagesFinite, TotalDrop, TotalType
    <2> QED
        BY <2>10 DEF Outstanding
<1>6. Covered'
    <2>1. Unminted' = Unminted /\ balances' = balances /\ totalSupply' = totalSupply
        BY <1>1 DEF Unminted, Due, sideVars
    <2>2. /\ mainBalance >= Total(balances) + Outstanding + Unminted
          /\ mainBalance \in Nat /\ totalSupply = Total(balances)
        BY DEF Inv, Types, Covered
    <2>3. Total(balances) \in Nat /\ Outstanding \in Nat /\ Unminted \in Nat
        BY Sums DEF Inv
    <2>4. Total(balances)' = Total(balances)
        BY <2>1, Zenon
    <2> QED
        BY <1>2, <1>3, <1>5, <2>1, <2>2, <2>3, <2>4 DEF Covered
<1> QED
    BY <1>4, <1>6 DEF Parts

-----------------------------------------------------------------------------
LEMMA InitInv == Init => Inv
<1> SUFFICES ASSUME Init PROVE Inv
    OBVIOUS
<1>1. MainProofs!Inv /\ SideProofs!Inv
    BY ContractsInit
<1>2. /\ mainBalance = 0 /\ signed = {} /\ totalSupply = 0 /\ balances = [a \in Address |-> 0]
      /\ withdraws = {}
      /\ mainDepositLog = [k \in DepositKey |-> 0]
      /\ sideDepositLog = [k \in DepositKey |-> 0]
      /\ sideWithdrawLog = [m \in Message |-> 0]
      /\ deposits = [k \in DepositKey |-> <<>>]
      /\ signatures = [m \in Message |-> [authorities |-> <<>>, signatures |-> <<>>]]
    BY DEF Init, Main!Init, Side!Init, Main!NoEvents, Side!NoEvents, Main!DepositKey,
           Side!DepositKey, DepositKey, Side!Message, Message
<1>3. HonestConfirmations /\ HonestSignatures /\ CollectedAreSigned /\ BurnsCoverTheirCost
    BY <1>2 DEF HonestConfirmations, HonestSignatures, CollectedAreSigned,
                BurnsCoverTheirCost, Range
<1>4. Covered
    <2>1. balances \in [Address -> Nat] /\ \A a \in Address : balances[a] = 0
        BY <1>2
    <2>2. Owed \in [Message -> Nat] /\ \A m \in Message : Owed[m] = 0
        <3>1. \A m \in Message : sideWithdrawLog[m] * m.value = 0
            BY <1>2, FieldsAreWords
        <3> QED
            BY <3>1 DEF Owed
    <2>3. Due \in [DepositKey -> Nat] /\ \A k \in DepositKey : Due[k] = 0
        <3>1. \A k \in DepositKey : (mainDepositLog[k] - sideDepositLog[k]) * k.value = 0
            BY <1>2, FieldsAreWords
        <3> QED
            BY <3>1 DEF Due
    <2>4. Total(balances) = 0 /\ Outstanding = 0 /\ Unminted = 0
        BY <2>1, <2>2, <2>3, TotalZero DEF Outstanding, Unminted
    <2> QED
        BY <1>2, <2>4 DEF Covered
<1> QED
    BY <1>1, <1>3, <1>4 DEF Inv

LEMMA NextInv == Inv /\ [Next]_vars => Inv'
<1>1. (MainProofs!Inv /\ SideProofs!Inv => Types)'
    BY TypesHold, PTL
<1> SUFFICES ASSUME Inv, [Next]_vars PROVE Inv'
    OBVIOUS
<1>2. (MainProofs!Inv /\ SideProofs!Inv)' /\ Types /\ Types'
    BY <1>1, ContractsNext, TypesHold DEF Inv
<1>3. Recipient \subseteq Address /\ Caller \subseteq Address
    BY AddressAssumption DEF Caller
<1>4. CASE UserNext
    <2>1. ASSUME NEW user \in Recipient \cap Caller, NEW value \in Value, NEW hash \in MainTx,
                 depositOnMain(user, value, hash)
          PROVE  Parts'
        BY <1>2, <2>1, DepositOnMainParts
    <2>2. ASSUME NEW user \in Recipient \cap Caller, NEW recipient \in Recipient \cap Caller,
                 NEW tokens \in Value, transferOnSide(user, recipient, tokens)
          PROVE  Parts'
        BY <1>2, <1>3, <2>2, TransferOnSideParts
    <2>3. ASSUME NEW user \in Recipient \cap Caller, NEW message \in Message,
                 withdrawOnSide(user, message)
          PROVE  Parts'
        BY <1>2, <1>3, <2>3, WithdrawOnSideParts
    <2> QED
        BY <1>2, <1>4, <2>1, <2>2, <2>3 DEF UserNext, Inv, Parts
<1>5. ASSUME NEW authority \in Range(authorities) \cap Caller, AuthorityNext(authority)
      PROVE  Inv'
    <2>1. authority \in Address
        BY <1>3
    <2>2. ASSUME NEW key \in DepositKey, confirmDeposit(authority, key) PROVE Parts'
        BY <1>2, <2>1, <2>2, ConfirmDepositParts
    <2>3. ASSUME NEW message \in Message, signMessage(authority, message) PROVE Parts'
        BY <1>2, <2>3, SignMessageParts
    <2>4. ASSUME NEW message \in Message, submitToSide(authority, message) PROVE Parts'
        BY <1>2, <2>1, <2>4, SubmitToSideParts
    <2> QED
        BY <1>2, <1>5, <2>2, <2>3, <2>4 DEF AuthorityNext, Inv, Parts
<1>6. CASE WithdrawNext
    BY <1>2, <1>6, WithdrawOnMainParts DEF WithdrawNext, Inv, Parts
<1>7. CASE UNCHANGED vars
    <2>1. UNCHANGED <<mainVars, signed, sideVars>>
        BY <1>7 DEF vars
    <2> QED
        BY <1>2, <2>1 DEF Inv, HonestConfirmations, HonestSignatures, CollectedAreSigned,
            BurnsCoverTheirCost, Covered, Outstanding, Owed, Unminted, Due, mainVars, sideVars
<1> QED
    BY <1>4, <1>5, <1>6, <1>7 DEF Next

(* The inductive invariant holds throughout. *)
THEOREM Invariance == Spec => []Inv
BY InitInv, NextInv, PTL DEF Spec

(***************************************************************************)
(* SideBridge.deposit mints only what MainBridge's fallback logged: among  *)
(* requiredSignatures different authorities one is honest, and that one    *)
(* confirmed a log.                                                        *)
(***************************************************************************)
THEOREM Backing == Spec => []MintsAreBacked
<1>1. Inv => MintsAreBacked
    BY TypesHold, MintsBacked DEF Inv, MintsAreBacked
<1> QED
    BY <1>1, Invariance, PTL

(***************************************************************************)
(* MainBridge.withdraw pays only for tokens that SideBridge burned, to the *)
(* recipient, of the value and at the gas price of the burn.               *)
(***************************************************************************)
THEOREM Burned == Spec => []PayoutsAreBurned
<1>1. ASSUME Inv, NEW event \in Main!WithdrawEvent, mainWithdrawLog[event] > 0
      PROVE  \E message \in Message :
                sideWithdrawLog[message] > 0 /\ Main!PaysFor(event, message)
    <2>1. event \in MainProofs!WithdrawEvent
        BY DEF Main!WithdrawEvent, MainProofs!WithdrawEvent, Main!Uint, MainProofs!Uint
    <2>2. PICK message \in MainProofs!Message :
             /\ MainProofs!PaysFor(event, message)
             /\ MainProofs!Cardinality(MainProofs!Signers(message)) >= requiredSignatures
        BY <1>1, <2>1 DEF Inv, MainProofs!Inv, MainProofs!PayoutsAreSigned
    <2>3. message \in Message /\ Main!PaysFor(event, message)
        BY <2>2 DEF MainProofs!Message, Message, MainProofs!PaysFor, Main!PaysFor,
            MainProofs!relayCost, Main!relayCost, MainProofs!Mul, Main!Mul
    <2>4. sideWithdrawLog[message] > 0
        BY <1>1, <2>2, SignedIsBurned DEF Inv
    <2> QED
        BY <2>3, <2>4
<1>2. Inv => PayoutsAreBurned
    BY <1>1 DEF PayoutsAreBurned
<1> QED
    BY <1>2, Invariance, PTL

(***************************************************************************)
(* The ether of MainBridge covers the tokens of SideBridge and the burns   *)
(* not yet paid, for every number of users, deposits, messages and values: *)
(* there is less ether than the word size, so minting what it covers never *)
(* wraps around.                                                           *)
(***************************************************************************)
THEOREM Solvency == Spec => []Solvent
<1>1. ASSUME Inv PROVE Solvent
    <2>1. /\ mainBalance >= Total(balances) + Outstanding + Unminted
          /\ totalSupply = Total(balances) /\ mainBalance \in Int
        BY <1>1, TypesHold DEF Inv, Covered, Types
    <2>2. Total(balances) \in Nat /\ Outstanding \in Nat /\ Unminted \in Nat
        BY <1>1, TypesHold, Sums DEF Inv
    <2> QED
        BY <2>1, <2>2 DEF Solvent
<1> QED
    BY <1>1, Invariance, PTL

-----------------------------------------------------------------------------
(* There are as many signatures as a withdraw needs. *)
LEMMA EnoughAreCollected ==
    ASSUME Inv, Types, NEW event \in Side!CollectedEvent, collectedLog[event] > 0
    PROVE  requiredSignatures <= Len(signatures[event.message].signatures)
<1> DEFINE message == event.message
<1>1. message \in Message /\ event \in SideProofs!CollectedEvent
    BY DEF Side!CollectedEvent, SideProofs!CollectedEvent, Side!Message, SideProofs!Message,
           Message
<1>2. /\ event.authorityResponsibleForRelay \in Address
      /\ event = [authorityResponsibleForRelay |-> event.authorityResponsibleForRelay,
                  message |-> message]
      /\ message \in SideProofs!Message
    BY <1>1 DEF SideProofs!CollectedEvent
<1>3. Len(signatures[message].authorities) \in Nat
    BY <1>1 DEF Types
<1>4. Len(signatures[message].authorities) >= requiredSignatures
    BY <1>2 DEF Inv, SideProofs!Inv, SideProofs!CollectedOncePerQuorum
<1>5. Len(signatures[message].signatures) = Len(signatures[message].authorities)
    BY <1>1 DEF Inv, SideProofs!Inv, SideProofs!CollectionsAreAligned, SideProofs!Message,
                Message
<1> QED
    BY <1>3, <1>4, <1>5, ConstructorAssumption

(* The signatures SideBridge has collected are of a message it burned for. *)
LEMMA CollectedIsBurned ==
    ASSUME Inv, Types, NEW event \in Side!CollectedEvent, collectedLog[event] > 0
    PROVE  LET message == event.message
               sigs    == SubSeq(signatures[message].signatures, 1, requiredSignatures)
           IN  /\ message \in Message
               /\ hasEnoughValidSignatures(message, sigs)
               /\ sideWithdrawLog[message] > 0
<1> DEFINE message == event.message
           all     == signatures[message].signatures
           sigs    == SubSeq(all, 1, requiredSignatures)
           S       == MainProofs!Signers(message)
<1>1. message \in Message /\ event \in SideProofs!CollectedEvent
    BY DEF Side!CollectedEvent, SideProofs!CollectedEvent, Side!Message, SideProofs!Message,
           Message
<1>2. hasEnoughValidSignatures(message, sigs)
    <2>1. SideProofs!CollectedSignaturesAreEnough
        BY SideAssumptions, SideProofs!InvCollected DEF Inv
    <2>2. SideProofs!hasEnoughValidSignatures(message, sigs)
        BY <1>1, <2>1 DEF SideProofs!CollectedSignaturesAreEnough
    <2> QED
        BY <2>2 DEF SideProofs!hasEnoughValidSignatures, hasEnoughValidSignatures,
            SideProofs!ecrecover, ecrecover, SideProofs!encountered, encountered,
            SideProofs!addressArrayContains, addressArrayContains, SideProofs!Range, Range
<1>3. all \in Seq(Signature) /\ requiredSignatures \in Nat \ {0}
    BY <1>1, ConstructorAssumption DEF Types
<1>4. \A i \in 1 .. Len(all) : all[i] \in signed
    BY <1>1 DEF Inv, CollectedAreSigned
<1>5. requiredSignatures <= Len(all)
    BY EnoughAreCollected
<1> HIDE DEF all
<1>6. \A i \in 1 .. requiredSignatures : sigs[i] \in signed
    <2>1. \A i \in 1 .. requiredSignatures : sigs[i] = all[i] /\ i \in 1 .. Len(all)
        BY <1>3, <1>5
    <2> QED
        BY <1>4, <2>1
<1> HIDE DEF message, sigs
<1>7. ASSUME NEW i \in 1 .. requiredSignatures PROVE ecrecover(message, sigs[i]) \in S
    <2>1. /\ ecrecover(message, sigs[i]) \in Range(authorities)
          /\ ecrecover(message, sigs[i]) # ZeroAddress
        BY <1>2 DEF hasEnoughValidSignatures, addressArrayContains, encountered
    <2>2. sigs[i].message = message /\ ecrecover(message, sigs[i]) = sigs[i].signer
        BY <2>1 DEF ecrecover
    <2>3. sigs[i] \in signed /\ sigs[i] = [signer |-> sigs[i].signer, message |-> message]
        BY <1>6, <2>2 DEF Types, Signature
    <2> QED
        BY <2>1, <2>2, <2>3 DEF MainProofs!Signers, MainProofs!Range, Range
<1>8. IsFiniteSet(S)
    <2>1. S \subseteq Range(authorities)
        BY DEF MainProofs!Signers, MainProofs!Range, Range
    <2> QED
        BY <2>1, AuthoritiesFinite, FS_Subset
<1> HIDE DEF S
<1>9. requiredSignatures <= Cardinality(S)
    BY <1>2, <1>7, <1>8, EnoughSigners
<1>10. requiredSignatures <= MainProofs!Cardinality(MainProofs!Signers(message))
    BY <1>9 DEF S, MainProofs!Cardinality, Cardinality, MainProofs!IsFiniteSet, IsFiniteSet
<1>11. sideWithdrawLog[message] > 0
    BY <1>10, SignedIsBurned DEF Inv
<1> QED
    BY <1>1, <1>2, <1>11 DEF message, sigs, all

(***************************************************************************)
(* Once CollectedSignatures is emitted, MainBridge.withdraw does not       *)
(* revert for anyone who presents the collected signatures: they suffice,  *)
(* the relay cost does not exceed the value, and the ether is still there. *)
(***************************************************************************)
THEOREM Completion == Spec => []EveryoneCanComplete
<1>1. ASSUME Inv, NEW event \in Side!CollectedEvent, collectedLog[event] > 0,
             event.message.transactionHash \notin withdraws,
             event.message.recipient \in Payable,
             NEW caller \in Payable, NEW gasprice \in GasPrice,
             caller = event.message.recipient \/ gasprice = event.message.mainGasPrice
      PROVE  Main!mayWithdraw(caller, gasprice,
                SubSeq(signatures[event.message].signatures, 1, requiredSignatures),
                event.message)
    <2> DEFINE message == event.message
               sigs    == SubSeq(signatures[message].signatures, 1, requiredSignatures)
               cost    == relayCost(message.mainGasPrice)
               value   == message.value
    <2>1. Types
        BY <1>1, TypesHold DEF Inv
    <2>2. /\ message \in Message
          /\ hasEnoughValidSignatures(message, sigs)
          /\ sideWithdrawLog[message] > 0
        BY <1>1, <2>1, CollectedIsBurned
    <2>3. Main!hasEnoughValidSignatures(message, sigs)
        BY <2>2 DEF Main!hasEnoughValidSignatures, hasEnoughValidSignatures,
            Main!ecrecover, ecrecover, Main!encountered, encountered,
            Main!addressArrayContains, addressArrayContains, Main!Range, Range
    <2> HIDE DEF message, sigs
    <2>4. cost \in Uint /\ value \in Uint /\ cost \in Nat /\ value \in Nat /\ cost < value
        BY <1>1, <2>2, FieldsAreWords, RelayCostType DEF Inv, BurnsCoverTheirCost
    <2>5. value <= mainBalance /\ mainBalance \in Nat
        <3>1. Owed \in [Message -> Nat] /\ Outstanding \in Nat /\ Unminted \in Nat
              /\ Total(balances) \in Nat
            BY <1>1, <2>1, Sums DEF Inv
        <3>2. Owed[message] = sideWithdrawLog[message] * value
            BY <1>1, <2>2 DEF Owed, message
        <3>3. sideWithdrawLog[message] \in Nat
            BY <2>1, <2>2 DEF Types
        <3>4. sideWithdrawLog[message] * value >= value
            BY <2>2, <2>4, <3>3, OneMore
        <3>5. Owed[message] <= Outstanding
            BY <2>2, <3>1, MessagesFinite, TotalBound DEF Outstanding
        <3>6. value <= Outstanding
            BY <2>2, <2>4, <3>1, <3>2, <3>4, <3>5
        <3>7. mainBalance >= Total(balances) + Outstanding + Unminted /\ mainBalance \in Nat
            BY <1>1, <2>1 DEF Inv, Covered, Types
        <3> QED
            BY <2>4, <3>1, <3>6, <3>7
    <2>6. Main!relayCost(message.mainGasPrice) = cost
        BY DEF Main!relayCost, relayCost, Main!Mul, Mul
    <2>7. Main!valueRemainingAfterSubtractingCost(value, cost) = value - cost
        <3>1. Sub(value, cost) = value - cost
            BY <2>4, SubExact
        <3> QED
            BY <3>1 DEF Main!valueRemainingAfterSubtractingCost, Main!Sub, Sub
    <2> HIDE DEF cost, value
    <2>8. Main!transfersSucceed(message.recipient, value - cost, caller, cost)
        <3>1. value - cost <= mainBalance /\ cost <= mainBalance - (value - cost)
            BY <2>4, <2>5
        <3> QED
            BY <1>1, <3>1 DEF Main!transfersSucceed, message
    <2>9. Main!mayWithdraw(caller, gasprice, sigs, message)
        BY <1>1, <2>3, <2>6, <2>7, <2>8 DEF Main!mayWithdraw, message, value
    <2> QED
        BY <2>9 DEF message, sigs
<1>2. Inv => EveryoneCanComplete
    BY <1>1 DEF EveryoneCanComplete
<1> QED
    BY <1>2, Invariance, PTL
=============================================================================
