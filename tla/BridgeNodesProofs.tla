-------------------------- MODULE BridgeNodesProofs --------------------------
(***************************************************************************)
(* Proofs about BridgeNodes: the processes of the honest authorities, with *)
(* what they have read before a crash, a restart or the mining of a        *)
(* transaction, implement BridgeProtocol.                                  *)
(***************************************************************************)
EXTENDS BridgeNodes, BridgeProtocolProofs

collectedEvent(a, message) == [authorityResponsibleForRelay |-> a, message |-> message]

(* A future was created for a log, which stays. *)
DepositsAreLogged ==
    \A a \in Honest, key \in DepositKey :
        mainToSideSign[<<a, key>>] # "none" => mainDepositLog[key] > 0

(* A signature that is about to be sent was made. *)
WithdrawsAreLogged ==
    \A a \in Honest, message \in Message :
        LET name == sideToMainSign[<<a, message>>] IN
        /\ name # "none" => sideWithdrawLog[message] > 0
        /\ name = "AwaitTransaction" => [signer |-> a, message |-> message] \in signed

(* The signatures that are about to be sent are still the collected ones. *)
CollectedAreLogged ==
    \A a \in Honest, message \in Message :
        LET f == sideToMainSignatures[<<a, message>>] IN
        /\ f.name # "none" => collectedLog[collectedEvent(a, message)] > 0
        /\ f.name = "AwaitTxSent" => f.signatures = get_signatures(message)

(* The same of a transaction that was sent, in whatever run of the process. *)
Justified(t) ==
    /\ t.from \in Honest
    /\ t.call = "deposit" => t.log \in DepositKey /\ mainDepositLog[t.log] > 0
    /\ t.call = "submitSignature" =>
          /\ t.log \in Message
          /\ t.signatures[1] = [signer |-> t.from, message |-> t.log]
          /\ t.signatures[1] \in signed
    /\ t.call = "withdraw" =>
          /\ t.log \in Message
          /\ collectedLog[collectedEvent(t.from, t.log)] > 0
          /\ t.signatures = get_signatures(t.log)

FuturesTypeOK == Deposits!TypeOK /\ Withdraws!TypeOK /\ Collected!TypeOK

(***************************************************************************)
(* The inductive invariant: that of the protocol, and that whatever a      *)
(* process knows or has sent is still true of the contracts.               *)
(***************************************************************************)
NodesInv ==
    /\ Inv
    /\ FuturesTypeOK
    /\ DepositsAreLogged /\ WithdrawsAreLogged /\ CollectedAreLogged
    /\ \A t \in pool : Justified(t)

-----------------------------------------------------------------------------
LEMMA HonestAuthority ==
    ASSUME NEW a \in Honest
    PROVE  a \in Range(authorities) \cap Caller /\ a \in Address /\ a \notin Byzantine
BY DEF Honest, Caller

(* The nodes pass on the fields of a log unchanged. *)
LEMMA DepositInput == ASSUME NEW key \in DepositKey PROVE depositInput(key) = key
BY DEF depositInput, DepositKey

LEMMA FromLog == ASSUME NEW log \in Message PROVE from_log(log) = log
BY DEF from_log, Message

LEMMA CollectedEventType ==
    ASSUME NEW a \in Honest, NEW message \in Message
    PROVE  /\ collectedEvent(a, message) \in Side!CollectedEvent
           /\ collectedEvent(a, message).message = message
BY HonestAuthority DEF collectedEvent, Side!CollectedEvent, Side!Message, Message

(* What withdraw is sent with can be presented to MainBridge. *)
LEMMA CollectedLists ==
    ASSUME Inv, NEW a \in Honest, NEW message \in Message,
           collectedLog[collectedEvent(a, message)] > 0
    PROVE  /\ get_signatures(message) \in Seq(Signature)
           /\ get_signatures(message) \in Main!SignatureLists(message)
<1> DEFINE all  == signatures[message].signatures
           sigs == get_signatures(message)
<1>1. Types
    BY TypesHold DEF Inv
<1>2. /\ requiredSignatures <= Len(all)
      /\ hasEnoughValidSignatures(message, SubSeq(all, 1, requiredSignatures))
    <2>1. /\ collectedEvent(a, message) \in Side!CollectedEvent
          /\ collectedEvent(a, message).message = message
        BY CollectedEventType
    <2> QED
        BY <1>1, <2>1, EnoughAreCollected, CollectedIsBurned
<1>3. all \in Seq(Signature) /\ requiredSignatures \in Nat \ {0}
    BY <1>1, ConstructorAssumption DEF Types
<1>4. \A i \in 1 .. Len(all) : all[i] \in signed
    BY DEF Inv, CollectedAreSigned
<1>5. sigs = SubSeq(all, 1, requiredSignatures)
    BY DEF get_signatures
<1> HIDE DEF all, sigs
<1>6. /\ sigs \in Seq(Signature) /\ Len(sigs) = requiredSignatures
      /\ \A i \in 1 .. requiredSignatures : sigs[i] = all[i] /\ i \in 1 .. Len(all)
    BY <1>2, <1>3, <1>5
<1>7. \A i \in 1 .. requiredSignatures : sigs[i].message = message
    BY <1>2, <1>5 DEF hasEnoughValidSignatures, ecrecover, encountered
<1>8. sigs \in Main!SignatureLists(message)
    <2> DEFINE garbage == [signer |-> ZeroAddress, message |-> message]
               usable  == {sig \in signed : sig.message = message} \cup {garbage}
    <2>1. sigs \in [1 .. requiredSignatures -> usable]
        <3>1. \A i \in 1 .. requiredSignatures : sigs[i] \in usable
            BY <1>4, <1>6, <1>7
        <3>2. sigs = [i \in 1 .. requiredSignatures |-> sigs[i]]
            BY <1>6
        <3> QED
            BY <3>1, <3>2
    <2>2. requiredSignatures \in 0 .. MaxSignatures
        BY <1>3, SignaturesAssumption, ParameterAssumption
    <2> HIDE DEF usable
    <2>3. sigs \in UNION {[1 .. n -> usable] : n \in 0 .. MaxSignatures}
        BY <2>1, <2>2
    <2> QED
        BY <2>3 DEF Main!SignatureLists, usable
<1> QED
    BY <1>6, <1>8 DEF sigs

-----------------------------------------------------------------------------
(* What is mined is a step of the protocol. *)

LEMMA ExecuteStep ==
    ASSUME NodesInv, NEW t \in pool, execute(t)
    PROVE  Next
<1>1. Justified(t) /\ t.from \in Range(authorities) \cap Caller /\ t.from \notin Byzantine
    BY HonestAuthority DEF NodesInv, Justified
<1>2. CASE t.call = "deposit" /\ Side!deposit(t.from, t.log) /\ UNCHANGED <<mainVars, signed>>
    <2>1. t.log \in DepositKey /\ mainDepositLog[t.log] > 0
        BY <1>1, <1>2 DEF Justified
    <2>2. confirmDeposit(t.from, t.log)
        BY <1>2, <2>1 DEF confirmDeposit, mayConfirm
    <2> QED
        BY <1>1, <2>1, <2>2 DEF Next, AuthorityNext
<1>3. CASE /\ t.call = "submitSignature" /\ Side!submitSignature(t.from, t.signatures[1], t.log)
           /\ UNCHANGED <<mainVars, signed>>
    <2>1. /\ t.log \in Message /\ t.signatures[1] = [signer |-> t.from, message |-> t.log]
          /\ [signer |-> t.from, message |-> t.log] \in signed
        BY <1>1, <1>3 DEF Justified
    <2>2. submitToSide(t.from, t.log)
        BY <1>3, <2>1 DEF submitToSide
    <2> QED
        BY <1>1, <2>1, <2>2 DEF Next, AuthorityNext
<1>4. CASE /\ t.call = "withdraw"
           /\ Main!withdraw(t.from, relayGasPrice(t.log), t.signatures, t.log)
           /\ UNCHANGED sideVars
    <2>1. t.log \in Message /\ t.log.mainGasPrice \in GasPrice /\ t.from \in Honest
        BY <1>1, <1>4 DEF Justified, Message
    <2>2. t.signatures \in Main!SignatureLists(t.log)
        BY <1>1, <1>4, <2>1, CollectedLists DEF NodesInv, Justified
    <2>3. withdrawOnMain(t.from, t.log.mainGasPrice, t.signatures, t.log)
        BY <1>4 DEF withdrawOnMain, relayGasPrice
    <2>4. WithdrawNext
        BY <1>1, <2>1, <2>2, <2>3 DEF WithdrawNext
    <2> QED
        BY <2>4 DEF Next
<1> QED
    BY <1>2, <1>3, <1>4 DEF execute

LEMMA MineStep ==
    ASSUME NodesInv, NEW t \in pool, mine(t)
    PROVE  [Next]_vars
<1>1. execute(t) \/ UNCHANGED vars
    BY DEF mine
<1> QED
    BY <1>1, ExecuteStep

LEMMA RelayWithdrawStep ==
    ASSUME NodesInv, NEW a \in Honest, NEW log \in Message, relayWithdraw(a, log)
    PROVE  [Next]_vars
<1>1. \/ UNCHANGED vars
      \/ /\ Withdraws!pollSignature(<<a, log>>) /\ Main!eth_sign(a, from_log(log))
         /\ UNCHANGED sideVars
    BY DEF relayWithdraw, newSideToMainSign, pollSideToMainSign, persistSideToMainSign
<1>2. CASE /\ Withdraws!pollSignature(<<a, log>>) /\ Main!eth_sign(a, from_log(log))
           /\ UNCHANGED sideVars
    <2>1. sideToMainSign[<<a, log>>] # "none"
        BY <1>2 DEF Withdraws!pollSignature
    <2>2. maySign(a, log)
        BY <2>1 DEF NodesInv, WithdrawsAreLogged, maySign
    <2>3. signMessage(a, log)
        BY <1>2, <2>2, FromLog DEF signMessage
    <2> QED
        BY <2>3, HonestAuthority DEF Next, AuthorityNext
<1> QED
    BY <1>1, <1>2

(* Every step of the nodes is a step of the protocol or leaves it alone. *)
LEMMA ProtocolStep == NodesInv /\ [NodesNext]_allVars => [Next]_vars
<1> SUFFICES ASSUME NodesInv, [NodesNext]_allVars PROVE [Next]_vars
    OBVIOUS
<1>1. ASSUME NEW a \in Honest, Node(a) PROVE [Next]_vars
    <2>1. ASSUME NEW key \in DepositKey, relayDeposit(a, key) PROVE UNCHANGED vars
        BY <2>1 DEF relayDeposit
    <2>2. ASSUME NEW message \in Message, relayCollected(a, message) PROVE UNCHANGED vars
        BY <2>2 DEF relayCollected
    <2> QED
        BY <1>1, <2>1, <2>2, RelayWithdrawStep DEF Node
<1>2. ASSUME NEW a \in Honest, crash(a) \/ restart(a) PROVE UNCHANGED vars
    BY <1>2 DEF crash, restart
<1>3. CASE Mine
    BY <1>3, MineStep DEF Mine
<1>4. ASSUME NEW t \in pool, drop(t) PROVE UNCHANGED vars
    BY <1>4 DEF drop
<1>5. CASE Environment
    <2>1. ASSUME NEW a \in Byzantine \cap Caller, AuthorityNext(a) PROVE Next
        BY <2>1, ByzantineAssumption DEF Next
    <2> QED
        BY <1>5, <2>1 DEF Environment, Next
<1>6. CASE UNCHANGED allVars
    BY <1>6 DEF allVars
<1> QED
    BY <1>1, <1>2, <1>3, <1>4, <1>5, <1>6 DEF NodesNext

-----------------------------------------------------------------------------
(* What the contracts have logged and collected stays, whoever acts. *)
Grown ==
    /\ \A key \in DepositKey : mainDepositLog[key] > 0 => mainDepositLog'[key] > 0
    /\ \A message \in Message : sideWithdrawLog[message] > 0 => sideWithdrawLog'[message] > 0
    /\ signed \subseteq signed'
    /\ \A a \in Honest, message \in Message :
          collectedLog[collectedEvent(a, message)] > 0 =>
             /\ collectedLog'[collectedEvent(a, message)] > 0
             /\ get_signatures(message)' = get_signatures(message)

LEMMA EmitKeeps ==
    ASSUME NEW S, NEW log \in [S -> Nat], NEW event \in S, NEW e \in S, log[e] > 0
    PROVE  [log EXCEPT ![event] = @ + 1][e] > 0
OBVIOUS

LEMMA CollectedType == Inv => collectedLog \in [Side!CollectedEvent -> Nat]
BY DEF Inv, SideProofs!Inv, SideProofs!TypeOK, SideProofs!CollectedEvent, Side!CollectedEvent,
       SideProofs!Message, Side!Message

(* Signatures that come later are put behind the first ones. *)
LEMMA SubmitGrows ==
    ASSUME Inv, NEW sender \in Address, NEW sig, NEW m \in Message,
           Side!submitSignature(sender, sig, m),
           NEW a \in Honest, NEW message \in Message,
           collectedLog[collectedEvent(a, message)] > 0
    PROVE  /\ collectedLog'[collectedEvent(a, message)] > 0
           /\ get_signatures(message)' = get_signatures(message)
<1>1. Types /\ collectedLog \in [Side!CollectedEvent -> Nat]
    BY TypesHold, CollectedType DEF Inv
<1>2. /\ collectedEvent(a, message) \in Side!CollectedEvent
      /\ collectedEvent(a, message).message = message
    BY CollectedEventType
<1>3. collectedLog'[collectedEvent(a, message)] > 0
    <2> DEFINE event == [authorityResponsibleForRelay |-> sender, message |-> m]
    <2>1. event \in Side!CollectedEvent
        BY DEF Side!CollectedEvent, Side!Message, Message
    <2>2. \/ collectedLog' = collectedLog
          \/ collectedLog' = [collectedLog EXCEPT ![event] = @ + 1]
        BY DEF Side!submitSignature, Side!Emit
    <2> HIDE DEF event
    <2> QED
        BY <1>1, <1>2, <2>1, <2>2, EmitKeeps
<1>4. get_signatures(message)' = get_signatures(message)
    <2> DEFINE all == signatures[message].signatures
    <2>1. all \in Seq(Signature) /\ requiredSignatures \in Nat
        BY <1>1, ConstructorAssumption DEF Types
    <2>2. requiredSignatures <= Len(all)
        BY <1>1, <1>2, EnoughAreCollected
    <2>3. signatures'[message].signatures = all \/ signatures'[message].signatures = Append(all, sig)
        BY <1>1 DEF Side!submitSignature, Types
    <2> HIDE DEF all
    <2>4. SubSeq(Append(all, sig), 1, requiredSignatures) = SubSeq(all, 1, requiredSignatures)
        BY <2>1, <2>2
    <2> QED
        BY <2>3, <2>4 DEF get_signatures, all
<1> QED
    BY <1>3, <1>4

LEMMA Growth == ASSUME Inv, [Next]_vars PROVE Grown
<1>1. Types
    BY TypesHold DEF Inv
<1>2. ASSUME UNCHANGED <<mainDepositLog, sideWithdrawLog, collectedLog, signatures>>,
             signed \subseteq signed'
      PROVE  Grown
    BY <1>2 DEF Grown, get_signatures
<1>3. ASSUME NEW user \in Recipient \cap Caller, NEW value \in Value, NEW hash \in MainTx,
             depositOnMain(user, value, hash)
      PROVE  Grown
    <2> DEFINE event == [recipient |-> user, value |-> value, transactionHash |-> hash]
    <2>1. event \in DepositKey
        BY DEF DepositKey
    <2>2. /\ mainDepositLog' = [mainDepositLog EXCEPT ![event] = @ + 1]
          /\ UNCHANGED <<sideWithdrawLog, collectedLog, signatures, signed>>
        BY <1>3 DEF depositOnMain, Main!fallback, Main!Emit, sideVars
    <2>3. \A key \in DepositKey : mainDepositLog[key] > 0 => mainDepositLog'[key] > 0
        BY <1>1, <2>1, <2>2, EmitKeeps DEF Types
    <2> QED
        BY <2>2, <2>3 DEF Grown, get_signatures
<1>4. ASSUME NEW user \in Recipient \cap Caller, NEW message \in Message,
             withdrawOnSide(user, message)
      PROVE  Grown
    <2>1. /\ sideWithdrawLog' = [sideWithdrawLog EXCEPT ![message] = @ + 1]
          /\ UNCHANGED <<mainDepositLog, collectedLog, signatures, signed>>
        BY <1>4 DEF withdrawOnSide, Side!transferToMainViaRelay, Side!Emit, mainVars
    <2>2. \A m \in Message : sideWithdrawLog[m] > 0 => sideWithdrawLog'[m] > 0
        BY <1>1, <2>1, EmitKeeps DEF Types
    <2> QED
        BY <2>1, <2>2 DEF Grown, get_signatures
<1>5. ASSUME NEW user \in Recipient \cap Caller, NEW recipient \in Recipient \cap Caller,
             NEW tokens \in Value, transferOnSide(user, recipient, tokens)
      PROVE  Grown
    BY <1>2, <1>5 DEF transferOnSide, Side!transfer, mainVars
<1>6. ASSUME NEW authority \in Range(authorities) \cap Caller, AuthorityNext(authority)
      PROVE  Grown
    <2>1. ASSUME NEW key \in DepositKey, confirmDeposit(authority, key) PROVE Grown
        BY <1>2, <2>1 DEF confirmDeposit, Side!deposit, mainVars
    <2>2. ASSUME NEW message \in Message, signMessage(authority, message) PROVE Grown
        BY <1>2, <2>2 DEF signMessage, Main!eth_sign, sideVars
    <2>3. ASSUME NEW m \in Message, submitToSide(authority, m) PROVE Grown
        <3>1. UNCHANGED <<mainDepositLog, sideWithdrawLog, signed>>
            BY <2>3 DEF submitToSide, Side!submitSignature, mainVars
        <3>2. \A a \in Honest, message \in Message :
                 collectedLog[collectedEvent(a, message)] > 0 =>
                    /\ collectedLog'[collectedEvent(a, message)] > 0
                    /\ get_signatures(message)' = get_signatures(message)
            BY <2>3, SubmitGrows DEF submitToSide, Caller
        <3> QED
            BY <3>1, <3>2 DEF Grown
    <2> QED
        BY <1>6, <2>1, <2>2, <2>3 DEF AuthorityNext
<1>7. CASE WithdrawNext
    BY <1>2, <1>7 DEF WithdrawNext, withdrawOnMain, Main!withdraw, sideVars
<1>8. CASE UNCHANGED vars
    BY <1>2, <1>8 DEF vars, mainVars, sideVars
<1> QED
    BY <1>3, <1>4, <1>5, <1>6, <1>7, <1>8 DEF Next, UserNext

-----------------------------------------------------------------------------
(* What a process knows and has sent stays true. *)
LEMMA JustifiedKept ==
    ASSUME Grown, NEW t, Justified(t)
    PROVE  Justified(t)'
BY DEF Grown, Justified

LEMMA PoolKept ==
    ASSUME NodesInv, Grown, \A t \in pool' : t \in pool \/ Justified(t)'
    PROVE  (\A t \in pool : Justified(t))'
BY JustifiedKept DEF NodesInv

LEMMA DepositFuturesKept ==
    ASSUME NodesInv, Grown, UNCHANGED mainToSideSign
    PROVE  Deposits!TypeOK' /\ DepositsAreLogged'
BY DEF NodesInv, FuturesTypeOK, Deposits!TypeOK, DepositsAreLogged, Grown

LEMMA WithdrawFuturesKept ==
    ASSUME NodesInv, Grown, UNCHANGED sideToMainSign
    PROVE  Withdraws!TypeOK' /\ WithdrawsAreLogged'
BY DEF NodesInv, FuturesTypeOK, Withdraws!TypeOK, WithdrawsAreLogged, Grown

LEMMA CollectedFuturesKept ==
    ASSUME NodesInv, Grown, UNCHANGED sideToMainSignatures
    PROVE  Collected!TypeOK' /\ CollectedAreLogged'
<1>1. Collected!TypeOK'
    BY DEF NodesInv, FuturesTypeOK, Collected!TypeOK
<1>2. ASSUME NEW a \in Honest, NEW message \in Message,
             sideToMainSignatures[<<a, message>>].name # "none"
      PROVE  /\ collectedLog'[collectedEvent(a, message)] > 0
             /\ get_signatures(message)' = get_signatures(message)
    BY <1>2 DEF NodesInv, CollectedAreLogged, Grown
<1> QED
    BY <1>1, <1>2 DEF NodesInv, CollectedAreLogged

-----------------------------------------------------------------------------
LEMMA RelayDepositInv ==
    ASSUME NodesInv, Grown, NEW a \in Honest, NEW key \in DepositKey, relayDeposit(a, key)
    PROVE  /\ Deposits!TypeOK' /\ DepositsAreLogged'
           /\ (\A t \in pool : Justified(t))'
<1>1. mainToSideSign \in [Honest \X DepositKey -> Deposits!States] /\ <<a, key>> \in Honest \X DepositKey
    BY DEF NodesInv, FuturesTypeOK, Deposits!TypeOK
<1>2. ASSUME NEW name \in Deposits!States, mainDepositLog[key] > 0,
             mainToSideSign' = [mainToSideSign EXCEPT ![<<a, key>>] = name]
      PROVE  Deposits!TypeOK' /\ DepositsAreLogged'
    <2>1. Deposits!TypeOK'
        BY <1>1, <1>2 DEF Deposits!TypeOK
    <2>2. ASSUME NEW b \in Honest, NEW k \in DepositKey, mainToSideSign'[<<b, k>>] # "none"
          PROVE  mainDepositLog'[k] > 0
        <3>1. mainDepositLog[k] > 0
            BY <1>1, <1>2, <2>2 DEF NodesInv, DepositsAreLogged
        <3> QED
            BY <3>1 DEF Grown
    <2> QED
        BY <2>1, <2>2 DEF DepositsAreLogged
<1>3. CASE newMainToSideSign(a, key)
    <2>1. pool' = pool /\ mainDepositLog[key] > 0
          /\ mainToSideSign' = [mainToSideSign EXCEPT ![<<a, key>>] = "AwaitAlreadySigned"]
        BY <1>3 DEF newMainToSideSign, Deposits!new
    <2> QED
        BY <1>2, <2>1, PoolKept DEF Deposits!States
<1>4. CASE pollMainToSideSign(a, key)
    <2>1. mainDepositLog[key] > 0
        BY <1>4 DEF NodesInv, DepositsAreLogged, pollMainToSideSign,
            Deposits!pollAlreadySigned, Deposits!pollTxSent
    <2>2. \E name \in {"done", "AwaitTxSent"} :
             mainToSideSign' = [mainToSideSign EXCEPT ![<<a, key>>] = name]
        BY <1>4 DEF pollMainToSideSign, Deposits!pollAlreadySigned, Deposits!pollTxSent
    <2>3. Deposits!TypeOK' /\ DepositsAreLogged'
        BY <1>2, <2>1, <2>2 DEF Deposits!States
    <2>4. \/ pool' = pool
          \/ pool' = pool \cup {[from |-> a, run |-> run[a], call |-> "deposit",
                                 log |-> key, signatures |-> <<>>]}
        BY <1>4, DepositInput DEF pollMainToSideSign, send
    <2>5. mainDepositLog'[key] > 0
        BY <2>1 DEF Grown
    <2>6. \A t \in pool' : t \in pool \/ Justified(t)'
        BY <2>4, <2>5 DEF Justified
    <2> QED
        BY <2>3, <2>6, PoolKept
<1>5. CASE persistMainToSideSign(a, key)
    BY <1>5, DepositFuturesKept, PoolKept DEF persistMainToSideSign
<1> QED
    BY <1>3, <1>4, <1>5 DEF relayDeposit

LEMMA RelayWithdrawInv ==
    ASSUME NodesInv, Grown, NEW a \in Honest, NEW log \in Message, relayWithdraw(a, log)
    PROVE  /\ Withdraws!TypeOK' /\ WithdrawsAreLogged'
           /\ (\A t \in pool : Justified(t))'
<1> DEFINE sig == [signer |-> a, message |-> log]
<1>1. /\ sideToMainSign \in [Honest \X Message -> Withdraws!States]
      /\ <<a, log>> \in Honest \X Message
    BY DEF NodesInv, FuturesTypeOK, Withdraws!TypeOK
<1>2. ASSUME NEW name \in Withdraws!States, sideWithdrawLog[log] > 0,
             name = "AwaitTransaction" => sig \in signed',
             sideToMainSign' = [sideToMainSign EXCEPT ![<<a, log>>] = name]
      PROVE  Withdraws!TypeOK' /\ WithdrawsAreLogged'
    <2>1. Withdraws!TypeOK'
        BY <1>1, <1>2 DEF Withdraws!TypeOK
    <2>2. ASSUME NEW b \in Honest, NEW m \in Message, sideToMainSign'[<<b, m>>] # "none"
          PROVE  sideWithdrawLog'[m] > 0
        <3>1. sideWithdrawLog[m] > 0
            BY <1>1, <1>2, <2>2 DEF NodesInv, WithdrawsAreLogged
        <3> QED
            BY <3>1 DEF Grown
    <2>3. ASSUME NEW b \in Honest, NEW m \in Message,
                 sideToMainSign'[<<b, m>>] = "AwaitTransaction"
          PROVE  [signer |-> b, message |-> m] \in signed'
        <3>1. CASE <<b, m>> = <<a, log>>
            BY <1>1, <1>2, <2>3, <3>1
        <3>2. CASE <<b, m>> # <<a, log>>
            <4>1. sideToMainSign[<<b, m>>] = "AwaitTransaction"
                BY <1>1, <1>2, <2>3, <3>2
            <4> QED
                BY <4>1 DEF NodesInv, WithdrawsAreLogged, Grown
        <3> QED
            BY <3>1, <3>2
    <2> QED
        BY <2>1, <2>2, <2>3 DEF WithdrawsAreLogged
<1>3. CASE newSideToMainSign(a, log)
    <2>1. pool' = pool /\ sideWithdrawLog[log] > 0
          /\ sideToMainSign' = [sideToMainSign EXCEPT ![<<a, log>>] = "AwaitCheckAlreadySigned"]
        BY <1>3 DEF newSideToMainSign, Withdraws!new
    <2> QED
        BY <1>2, <2>1, PoolKept DEF Withdraws!States
<1>4. CASE pollSideToMainSign(a, log)
    <2>1. sideWithdrawLog[log] > 0
        BY <1>4 DEF NodesInv, WithdrawsAreLogged, pollSideToMainSign,
            Withdraws!pollCheckAlreadySigned, Withdraws!pollSignature, Withdraws!pollTransaction
    <2>2. \/ /\ \E name \in {"done", "AwaitSignature"} :
                   sideToMainSign' = [sideToMainSign EXCEPT ![<<a, log>>] = name]
             /\ pool' = pool
          \/ /\ sideToMainSign' = [sideToMainSign EXCEPT ![<<a, log>>] = "AwaitTransaction"]
             /\ sig \in signed' /\ pool' = pool
          \/ /\ sideToMainSign[<<a, log>>] = "AwaitTransaction"
             /\ sideToMainSign' = [sideToMainSign EXCEPT ![<<a, log>>] = "done"]
             /\ pool' = pool \cup {[from |-> a, run |-> run[a], call |-> "submitSignature",
                                    log |-> log, signatures |-> <<sig>>]}
        BY <1>4, FromLog DEF pollSideToMainSign, send, Withdraws!pollCheckAlreadySigned,
            Withdraws!pollSignature, Withdraws!pollTransaction, Main!eth_sign
    <2>3. Withdraws!TypeOK' /\ WithdrawsAreLogged'
        BY <1>2, <2>1, <2>2 DEF Withdraws!States
    <2>4. sideToMainSign[<<a, log>>] = "AwaitTransaction" => sig \in signed'
        BY DEF NodesInv, WithdrawsAreLogged, Grown
    <2>5. \A t \in pool' : t \in pool \/ Justified(t)'
        BY <2>2, <2>4 DEF Justified
    <2> QED
        BY <2>3, <2>5, PoolKept
<1>5. CASE persistSideToMainSign(a, log)
    BY <1>5, WithdrawFuturesKept, PoolKept DEF persistSideToMainSign
<1> QED
    BY <1>3, <1>4, <1>5 DEF relayWithdraw

LEMMA RelayCollectedInv ==
    ASSUME NodesInv, Grown, NEW a \in Honest, NEW message \in Message,
           relayCollected(a, message)
    PROVE  /\ Collected!TypeOK' /\ CollectedAreLogged'
           /\ (\A t \in pool : Justified(t))'
<1> DEFINE id == <<a, message>>
<1>1. /\ sideToMainSignatures \in [Honest \X Message -> Collected!States]
      /\ id \in Honest \X Message
    BY DEF NodesInv, FuturesTypeOK, Collected!TypeOK
<1>2. ASSUME NEW f \in Collected!States, collectedLog[collectedEvent(a, message)] > 0,
             f.name = "AwaitTxSent" => f.signatures = get_signatures(message),
             sideToMainSignatures' = [sideToMainSignatures EXCEPT ![id] = f]
      PROVE  Collected!TypeOK' /\ CollectedAreLogged'
    <2>1. Collected!TypeOK'
        BY <1>1, <1>2 DEF Collected!TypeOK
    <2>2. ASSUME NEW b \in Honest, NEW m \in Message,
                 sideToMainSignatures'[<<b, m>>].name # "none"
          PROVE  /\ collectedLog'[collectedEvent(b, m)] > 0
                 /\ sideToMainSignatures'[<<b, m>>].name = "AwaitTxSent" =>
                       sideToMainSignatures'[<<b, m>>].signatures = get_signatures(m)'
        <3>1. /\ collectedLog[collectedEvent(b, m)] > 0
              /\ sideToMainSignatures'[<<b, m>>].name = "AwaitTxSent" =>
                    sideToMainSignatures'[<<b, m>>].signatures = get_signatures(m)
            <4>1. CASE <<b, m>> = id
                BY <1>1, <1>2, <4>1
            <4>2. CASE <<b, m>> # id
                <5>1. sideToMainSignatures'[<<b, m>>] = sideToMainSignatures[<<b, m>>]
                    BY <1>1, <1>2, <4>2
                <5> QED
                    BY <2>2, <5>1 DEF NodesInv, CollectedAreLogged
            <4> QED
                BY <4>1, <4>2
        <3> QED
            BY <3>1 DEF Grown
    <2> QED
        BY <2>1, <2>2 DEF CollectedAreLogged
<1>3. CASE newSideToMainSignatures(a, message)
    <2>1. /\ pool' = pool /\ collectedLog[collectedEvent(a, message)] > 0
          /\ sideToMainSignatures' =
                [sideToMainSignatures EXCEPT ![id] = Collected!at("AwaitMessage")]
        BY <1>3 DEF newSideToMainSignatures, Collected!new, collectedEvent
    <2>2. Collected!at("AwaitMessage") \in Collected!States
          /\ Collected!at("AwaitMessage").name = "AwaitMessage"
        BY DEF Collected!States, Collected!at
    <2> QED
        BY <1>2, <2>1, <2>2, PoolKept
<1>4. CASE pollSideToMainSignatures(a, message)
    <2>1. collectedLog[collectedEvent(a, message)] > 0
        BY <1>4 DEF NodesInv, CollectedAreLogged, pollSideToMainSignatures, Collected!pollMessage,
            Collected!pollIsRelayed, Collected!pollSignatures, Collected!pollTxSent
    <2>2. \/ /\ \E name \in {"AwaitIsRelayed", "AwaitSignatures", "done"} :
                   sideToMainSignatures' =
                      [sideToMainSignatures EXCEPT ![id] = Collected!at(name)]
             /\ pool' = pool
          \/ /\ sideToMainSignatures' =
                   [sideToMainSignatures EXCEPT ![id] =
                      [name |-> "AwaitTxSent", signatures |-> get_signatures(message)]]
             /\ pool' = pool
          \/ /\ sideToMainSignatures[id].name = "AwaitTxSent"
             /\ sideToMainSignatures' =
                   [sideToMainSignatures EXCEPT ![id] = Collected!at("done")]
             /\ pool' = pool \cup {[from |-> a, run |-> run[a], call |-> "withdraw",
                                    log |-> message,
                                    signatures |-> sideToMainSignatures[id].signatures]}
        BY <1>4 DEF pollSideToMainSignatures, Collected!pollMessage, Collected!pollIsRelayed,
            Collected!pollSignatures, Collected!pollTxSent, send
    <2>3. ASSUME NEW name \in {"AwaitIsRelayed", "AwaitSignatures", "done"}
          PROVE  Collected!at(name) \in Collected!States /\ Collected!at(name).name = name
        BY DEF Collected!States, Collected!at
    <2>4. [name |-> "AwaitTxSent", signatures |-> get_signatures(message)] \in Collected!States
        BY <2>1, CollectedLists DEF Collected!States, NodesInv
    <2>5. Collected!TypeOK' /\ CollectedAreLogged'
        BY <1>2, <2>1, <2>2, <2>3, <2>4
    <2>6. sideToMainSignatures[id].name = "AwaitTxSent" =>
             sideToMainSignatures[id].signatures = get_signatures(message)'
        BY <2>1 DEF NodesInv, CollectedAreLogged, Grown
    <2>7. collectedLog'[collectedEvent(a, message)] > 0
        BY <2>1 DEF Grown
    <2>8. \A t \in pool' : t \in pool \/ Justified(t)'
        BY <2>2, <2>6, <2>7 DEF Justified
    <2> QED
        BY <2>5, <2>8, PoolKept
<1>5. CASE persistSideToMainSignatures(a, message)
    BY <1>5, CollectedFuturesKept, PoolKept DEF persistSideToMainSignatures
<1> QED
    BY <1>3, <1>4, <1>5 DEF relayCollected

(* A process that ends knows nothing any more; what it sent stays sent. *)
LEMMA CrashInv ==
    ASSUME NodesInv, Grown, NEW a \in Honest, crash(a)
    PROVE  /\ FuturesTypeOK' /\ DepositsAreLogged' /\ WithdrawsAreLogged' /\ CollectedAreLogged'
           /\ (\A t \in pool : Justified(t))'
<1>1. Deposits!TypeOK' /\ DepositsAreLogged'
    <2>1. mainToSideSign \in [Honest \X DepositKey -> Deposits!States]
        BY DEF NodesInv, FuturesTypeOK, Deposits!TypeOK
    <2>2. mainToSideSign' = [id \in Honest \X DepositKey |->
                                IF id[1] = a THEN "none" ELSE mainToSideSign[id]]
        BY <2>1 DEF crash
    <2>3. Deposits!TypeOK'
        BY <2>1, <2>2 DEF Deposits!TypeOK, Deposits!States
    <2>4. ASSUME NEW b \in Honest, NEW k \in DepositKey, mainToSideSign'[<<b, k>>] # "none"
          PROVE  mainDepositLog'[k] > 0
        BY <2>2, <2>4 DEF NodesInv, DepositsAreLogged, Grown
    <2> QED
        BY <2>3, <2>4 DEF DepositsAreLogged
<1>2. Withdraws!TypeOK' /\ WithdrawsAreLogged'
    <2>1. sideToMainSign \in [Honest \X Message -> Withdraws!States]
        BY DEF NodesInv, FuturesTypeOK, Withdraws!TypeOK
    <2>2. sideToMainSign' = [id \in Honest \X Message |->
                                IF id[1] = a THEN "none" ELSE sideToMainSign[id]]
        BY <2>1 DEF crash
    <2>3. Withdraws!TypeOK'
        BY <2>1, <2>2 DEF Withdraws!TypeOK, Withdraws!States
    <2>4. ASSUME NEW b \in Honest, NEW m \in Message, sideToMainSign'[<<b, m>>] # "none"
          PROVE  /\ sideWithdrawLog'[m] > 0
                 /\ sideToMainSign'[<<b, m>>] = "AwaitTransaction" =>
                       [signer |-> b, message |-> m] \in signed'
        BY <2>2, <2>4 DEF NodesInv, WithdrawsAreLogged, Grown
    <2> QED
        BY <2>3, <2>4 DEF WithdrawsAreLogged
<1>3. Collected!TypeOK' /\ CollectedAreLogged'
    <2>1. sideToMainSignatures \in [Honest \X Message -> Collected!States]
        BY DEF NodesInv, FuturesTypeOK, Collected!TypeOK
    <2>2. sideToMainSignatures' = [id \in Honest \X Message |->
                                      IF id[1] = a THEN Collected!at("none")
                                      ELSE sideToMainSignatures[id]]
        BY <2>1 DEF crash
    <2>3. Collected!at("none") \in Collected!States /\ Collected!at("none").name = "none"
        BY DEF Collected!States, Collected!at
    <2>4. Collected!TypeOK'
        BY <2>1, <2>2, <2>3 DEF Collected!TypeOK
    <2>5. ASSUME NEW b \in Honest, NEW m \in Message,
                 sideToMainSignatures'[<<b, m>>].name # "none"
          PROVE  /\ collectedLog'[collectedEvent(b, m)] > 0
                 /\ sideToMainSignatures'[<<b, m>>].name = "AwaitTxSent" =>
                       sideToMainSignatures'[<<b, m>>].signatures = get_signatures(m)'
        <3>1. sideToMainSignatures'[<<b, m>>] = sideToMainSignatures[<<b, m>>]
            BY <2>2, <2>3, <2>5
        <3> QED
            BY <2>5, <3>1 DEF NodesInv, CollectedAreLogged, Grown
    <2> QED
        BY <2>4, <2>5 DEF CollectedAreLogged
<1>4. (\A t \in pool : Justified(t))'
    BY PoolKept DEF crash
<1> QED
    BY <1>1, <1>2, <1>3, <1>4 DEF FuturesTypeOK

LEMMA NodesInitInv == NodesInit => NodesInv
<1> SUFFICES ASSUME NodesInit PROVE NodesInv
    OBVIOUS
<1>1. Inv
    BY InitInv DEF NodesInit
<1>2. Deposits!TypeOK /\ DepositsAreLogged
    BY DEF NodesInit, Deposits!Init, Deposits!TypeOK, Deposits!States, DepositsAreLogged
<1>3. Withdraws!TypeOK /\ WithdrawsAreLogged
    BY DEF NodesInit, Withdraws!Init, Withdraws!TypeOK, Withdraws!States, WithdrawsAreLogged
<1>4. Collected!TypeOK /\ CollectedAreLogged
    <2>1. Collected!at("none") \in Collected!States /\ Collected!at("none").name = "none"
        BY DEF Collected!States, Collected!at
    <2> QED
        BY <2>1 DEF NodesInit, Collected!Init, Collected!TypeOK, CollectedAreLogged
<1> QED
    BY <1>1, <1>2, <1>3, <1>4 DEF NodesInit, NodesInv, FuturesTypeOK

LEMMA NodesNextInv == NodesInv /\ [NodesNext]_allVars => NodesInv'
<1> SUFFICES ASSUME NodesInv, [NodesNext]_allVars PROVE NodesInv'
    OBVIOUS
<1>1. [Next]_vars
    BY ProtocolStep
<1>2. Inv' /\ Grown
    BY <1>1, NextInv, Growth DEF NodesInv
<1>3. ASSUME UNCHANGED futureVars, \A t \in pool' : t \in pool PROVE NodesInv'
    BY <1>2, <1>3, DepositFuturesKept, WithdrawFuturesKept, CollectedFuturesKept, PoolKept
       DEF NodesInv, FuturesTypeOK, futureVars
<1>4. ASSUME NEW a \in Honest, NEW key \in DepositKey, relayDeposit(a, key) PROVE NodesInv'
    <2>1. UNCHANGED <<sideToMainSign, sideToMainSignatures>>
        BY <1>4 DEF relayDeposit
    <2> QED
        BY <1>2, <1>4, <2>1, RelayDepositInv, WithdrawFuturesKept, CollectedFuturesKept
           DEF NodesInv, FuturesTypeOK
<1>5. ASSUME NEW a \in Honest, NEW log \in Message, relayWithdraw(a, log) PROVE NodesInv'
    <2>1. UNCHANGED <<mainToSideSign, sideToMainSignatures>>
        BY <1>5 DEF relayWithdraw
    <2> QED
        BY <1>2, <1>5, <2>1, RelayWithdrawInv, DepositFuturesKept, CollectedFuturesKept
           DEF NodesInv, FuturesTypeOK
<1>6. ASSUME NEW a \in Honest, NEW message \in Message, relayCollected(a, message)
      PROVE  NodesInv'
    <2>1. UNCHANGED <<mainToSideSign, sideToMainSign>>
        BY <1>6 DEF relayCollected
    <2> QED
        BY <1>2, <1>6, <2>1, RelayCollectedInv, DepositFuturesKept, WithdrawFuturesKept
           DEF NodesInv, FuturesTypeOK
<1>7. ASSUME NEW a \in Honest, crash(a) PROVE NodesInv'
    BY <1>2, <1>7, CrashInv DEF NodesInv
<1>8. ASSUME NEW a \in Honest, restart(a) PROVE NodesInv'
    BY <1>3, <1>8 DEF restart
<1>9. ASSUME NEW t \in pool, mine(t) \/ drop(t) PROVE NodesInv'
    BY <1>3, <1>9 DEF mine, drop
<1>10. CASE Environment \/ UNCHANGED allVars
    BY <1>3, <1>10 DEF Environment, allVars, nodeVars
<1> QED
    BY <1>4, <1>5, <1>6, <1>7, <1>8, <1>9, <1>10 DEF NodesNext, Node, Mine

-----------------------------------------------------------------------------
(* What processes know and have sent is true of the contracts throughout. *)
THEOREM NodesInvariance == NodesSpec => []NodesInv
BY NodesInitInv, NodesNextInv, PTL DEF NodesSpec

(***************************************************************************)
(* The three relays of bridge.rs, with checks that are stale when their    *)
(* transaction is mined, crashes, restarts and transactions that are       *)
(* dropped or sent again, only ever do what BridgeProtocol allows, for     *)
(* every number of authorities, crashes and drops.                         *)
(***************************************************************************)
THEOREM NodesImplementProtocol == NodesSpec => ImplementsProtocol
<1>1. NodesInit => Init
    BY DEF NodesInit
<1> QED
    BY <1>1, ProtocolStep, NodesInvariance, PTL DEF NodesSpec, ImplementsProtocol, Spec

(***************************************************************************)
(* So what is proved of the contracts and the protocol between them holds  *)
(* with the processes.                                                     *)
(***************************************************************************)
THEOREM NodesAreSafe ==
    NodesSpec => [](MintsAreBacked /\ PayoutsAreBurned /\ Solvent /\ EveryoneCanComplete)
BY NodesImplementProtocol, Backing, Burned, Solvency, Completion, PTL DEF ImplementsProtocol

(***************************************************************************)
(* A withdraw that side_to_main_signatures.rs sends does not revert        *)
(* whenever it is mined, unless the withdrawal has been paid by then.      *)
(***************************************************************************)
THEOREM Acceptance == NodesSpec => []SentWithdrawIsAccepted
<1>1. ASSUME NodesInv, EveryoneCanComplete, NEW t \in pool, t.call = "withdraw",
             t.from \in Payable, t.log.recipient \in Payable,
             t.log.transactionHash \notin withdraws
      PROVE  Main!mayWithdraw(t.from, relayGasPrice(t.log), t.signatures, t.log)
    <2> DEFINE event == collectedEvent(t.from, t.log)
    <2>1. /\ t.from \in Honest /\ t.log \in Message
          /\ collectedLog[event] > 0
          /\ t.signatures = SubSeq(signatures[t.log].signatures, 1, requiredSignatures)
        BY <1>1 DEF NodesInv, Justified, get_signatures
    <2>2. event \in Side!CollectedEvent /\ event.message = t.log
        BY <2>1, CollectedEventType
    <2>3. t.log.mainGasPrice \in GasPrice
        BY <2>1 DEF Message
    <2> HIDE DEF event
    <2> QED
        BY <1>1, <2>1, <2>2, <2>3 DEF EveryoneCanComplete, relayGasPrice
<1>2. NodesInv /\ EveryoneCanComplete => SentWithdrawIsAccepted
    BY <1>1 DEF SentWithdrawIsAccepted
<1> QED
    BY <1>2, NodesInvariance, NodesAreSafe, PTL
=============================================================================
