-------------------------- MODULE SideBridgeProofs --------------------------
(***************************************************************************)
(* Proofs about SideBridge, for every set of authorities, every quorum and *)
(* every word size.                                                        *)
(***************************************************************************)
EXTENDS SideBridge, HelpersProofs

(* A collection holds signatures of different authorities, in their order. *)
CollectionsAreAligned ==
    \A m \in Message :
        LET signers == signatures[m].authorities
            sigs    == signatures[m].signatures
        IN  /\ IsInjective(signers)
            /\ Range(signers) \subseteq Range(authorities) \cap Caller
            /\ Len(sigs) = Len(signers)
            /\ \A i \in 1 .. Len(signers) :
                  sigs[i] = [signer |-> signers[i], message |-> m]

(* The inductive invariant. *)
Inv == TypeOK /\ MintedOncePerQuorum /\ CollectionsAreAligned /\ CollectedOncePerQuorum

-----------------------------------------------------------------------------
(* Appending a newcomer to a sequence of different addresses. *)
LEMMA AppendNewcomer ==
    ASSUME NEW s \in Seq(Address), IsInjective(s), NEW e \in Address, e \notin Range(s)
    PROVE  /\ Append(s, e) \in Seq(Address)
           /\ IsInjective(Append(s, e))
           /\ Range(Append(s, e)) = Range(s) \cup {e}
           /\ Len(Append(s, e)) = Len(s) + 1
           /\ Append(s, e)[Len(s) + 1] = e
           /\ \A i \in 1 .. Len(s) : Append(s, e)[i] = s[i]
<1>1. /\ Append(s, e) \in Seq(Address)
      /\ Len(Append(s, e)) = Len(s) + 1
      /\ Append(s, e)[Len(s) + 1] = e
      /\ \A i \in 1 .. Len(s) : Append(s, e)[i] = s[i]
    OBVIOUS
<1>2. \A i \in 1 .. Len(s) : s[i] # e
    BY DEF Range
<1>3. DOMAIN Append(s, e) = 1 .. (Len(s) + 1) /\ DOMAIN s = 1 .. Len(s) /\ Len(s) \in Nat
    BY <1>1
<1>4. IsInjective(Append(s, e))
    BY <1>1, <1>2, <1>3 DEF IsInjective
<1>5. Range(Append(s, e)) = Range(s) \cup {e}
    <2>1. ASSUME NEW x \in Range(Append(s, e)) PROVE x \in Range(s) \cup {e}
        BY <1>1, <1>3 DEF Range
    <2>2. ASSUME NEW x \in Range(s) PROVE x \in Range(Append(s, e))
        <3>1. PICK i \in 1 .. Len(s) : x = s[i]
            BY <1>3 DEF Range
        <3>2. i \in DOMAIN Append(s, e) /\ Append(s, e)[i] = x
            BY <1>1, <1>3, <3>1
        <3> QED
            BY <3>2 DEF Range
    <2>3. e \in Range(Append(s, e))
        <3>1. Len(s) + 1 \in DOMAIN Append(s, e)
            BY <1>3
        <3> QED
            BY <1>1, <3>1 DEF Range
    <2> QED
        BY <2>1, <2>2, <2>3
<1> QED
    BY <1>1, <1>4, <1>5

(* The word operations give words. *)
LEMMA WordOps ==
    ASSUME NEW a \in Uint, NEW b \in Uint
    PROVE  Add(a, b) \in Uint /\ Sub(a, b) \in Uint
<1>1. a + b \in Int /\ a - b \in Int
    BY WordAssumption DEF Uint
<1> QED
    BY <1>1, ModIsUint DEF Add, Sub

(* Moving tokens keeps balances words. *)
LEMMA MovedType ==
    ASSUME TypeOK, NEW from \in Address, NEW to \in Address, NEW tokens \in Value
    PROVE  moved(from, to, tokens) \in [Address -> Uint]
<1> DEFINE b1 == [balances EXCEPT ![from] = Sub(@, tokens)]
<1>1. b1 \in [Address -> Uint]
    BY WordOps, WordAssumption DEF TypeOK
<1>2. moved(from, to, tokens) = [b1 EXCEPT ![to] = Add(@, tokens)]
    BY DEF moved
<1> HIDE DEF b1
<1> QED
    BY <1>1, <1>2, WordOps, WordAssumption

-----------------------------------------------------------------------------
LEMMA InitInv == Init => Inv
<1> SUFFICES ASSUME Init PROVE Inv
    OBVIOUS
<1>1. 0 \in Uint
    BY WordAssumption DEF Uint
<1>2. TypeOK
    BY <1>1 DEF Init, TypeOK, NoEvents, SignaturesCollection
<1>3. \A s : s = <<>> => IsInjective(s) /\ Range(s) = {} /\ Len(s) = 0
    BY DEF IsInjective, Range
<1>4. requiredSignatures \in Nat /\ ~(0 >= requiredSignatures)
    BY ConstructorAssumption
<1>5. MintedOncePerQuorum
    BY <1>3, <1>4 DEF Init, MintedOncePerQuorum, NoEvents
<1>6. CollectionsAreAligned
    BY <1>3 DEF Init, CollectionsAreAligned
<1>7. CollectedOncePerQuorum
    BY <1>3, <1>4 DEF Init, CollectedOncePerQuorum, NoEvents, CollectedEvent
<1> QED
    BY <1>2, <1>5, <1>6, <1>7 DEF Inv

(* The token calls leave the confirmations, signatures and events alone. *)
LEMMA TokenCall ==
    ASSUME Inv, TypeOK',
           UNCHANGED <<deposits, signatures, depositLog, collectedLog>>
    PROVE  Inv'
BY DEF Inv, MintedOncePerQuorum, CollectionsAreAligned, CollectedOncePerQuorum

LEMMA DepositInv ==
    ASSUME Inv, NEW sender \in Caller, NEW key \in DepositKey, deposit(sender, key)
    PROVE  Inv'
<1> DEFINE old == deposits[key]
           new == Append(old, sender)
<1>1. old \in Seq(Address) /\ sender \in Address
    BY DEF Inv, TypeOK, Caller
<1>2. IsInjective(old) /\ Range(old) \subseteq Range(authorities)
    BY DEF Inv, MintedOncePerQuorum
<1>3. sender \in Range(authorities) /\ sender \notin Range(old)
    BY DEF deposit, onlyAuthority, firstTime, addressArrayContains
<1>4. /\ new \in Seq(Address) /\ IsInjective(new) /\ Len(new) = Len(old) + 1
      /\ Range(new) \subseteq Range(authorities)
    BY <1>1, <1>2, <1>3, AppendNewcomer
<1>5. deposits' = [deposits EXCEPT ![key] = new] /\ deposits'[key] = new
    BY DEF deposit, Inv, TypeOK
<1>6. deposits' \in [DepositKey -> Seq(Address)]
    BY <1>4, <1>5 DEF Inv, TypeOK
<1>7. key.recipient \in Address /\ key.value \in Uint
    BY AddressAssumption, WordAssumption DEF DepositKey
<1>8. Len(old) \in Nat /\ requiredSignatures \in Nat
    BY <1>1, ConstructorAssumption
<1>9. depositLog \in [DepositKey -> Nat]
    BY DEF Inv, TypeOK
<1>10. depositLog[key] = IF Len(old) >= requiredSignatures THEN 1 ELSE 0
    BY DEF Inv, MintedOncePerQuorum
<1>11. UNCHANGED <<allowed, signatures, withdrawLog, collectedLog>> /\ tx' = NoTx
    BY DEF deposit
<1>12. /\ balances' \in [Address -> Uint] /\ totalSupply' \in Uint
       /\ depositLog' \in [DepositKey -> Nat]
       /\ depositLog'[key] = IF Len(new) >= requiredSignatures THEN 1 ELSE 0
       /\ \A k \in DepositKey : k # key => depositLog'[k] = depositLog[k]
    <2>1. CASE confirmed(new)
        <3>1. mint(key)
            BY <1>5, <2>1 DEF deposit
        <3>2. balances' \in [Address -> Uint] /\ totalSupply' \in Uint
            <4>1. balances[key.recipient] \in Uint /\ totalSupply \in Uint
                BY <1>7 DEF Inv, TypeOK
            <4>2. /\ Add(balances[key.recipient], key.value) \in Uint
                  /\ Add(totalSupply, key.value) \in Uint
                BY <4>1, <1>7, WordOps
            <4> QED
                BY <3>1, <4>2 DEF mint, Inv, TypeOK
        <3>3. /\ depositLog' \in [DepositKey -> Nat]
              /\ depositLog'[key] = depositLog[key] + 1
              /\ \A k \in DepositKey : k # key => depositLog'[k] = depositLog[k]
            BY <3>1, <1>9, EmitFacts DEF mint
        <3>4. depositLog[key] = 0 /\ Len(new) >= requiredSignatures
            <4>1. Len(new) = requiredSignatures
                BY <2>1 DEF confirmed
            <4>2. ~(Len(old) >= requiredSignatures) /\ Len(new) >= requiredSignatures
                BY <4>1, <1>4, <1>8
            <4> QED
                BY <4>2, <1>10
        <3> QED
            BY <3>2, <3>3, <3>4
    <2>2. CASE ~confirmed(new)
        <3>1. UNCHANGED <<balances, totalSupply, depositLog>>
            BY <1>5, <2>2 DEF deposit
        <3>2. (Len(new) >= requiredSignatures) <=> (Len(old) >= requiredSignatures)
            BY <2>2, <1>4, <1>8 DEF confirmed
        <3> QED
            BY <3>1, <3>2, <1>9, <1>10 DEF Inv, TypeOK
    <2> QED
        BY <2>1, <2>2
<1>13. TypeOK'
    BY <1>6, <1>11, <1>12 DEF Inv, TypeOK
<1>14. MintedOncePerQuorum'
    <2> SUFFICES ASSUME NEW k \in DepositKey
                 PROVE  /\ IsInjective(deposits'[k])
                        /\ Range(deposits'[k]) \subseteq Range(authorities)
                        /\ depositLog'[k] =
                              IF Len(deposits'[k]) >= requiredSignatures THEN 1 ELSE 0
        BY DEF MintedOncePerQuorum
    <2>1. CASE k = key
        BY <2>1, <1>4, <1>5, <1>12
    <2>2. CASE k # key
        <3>1. deposits'[k] = deposits[k]
            BY <2>2, <1>5 DEF Inv, TypeOK
        <3> QED
            BY <2>2, <3>1, <1>12 DEF Inv, MintedOncePerQuorum
    <2> QED
        BY <2>1, <2>2
<1>15. CollectionsAreAligned' /\ CollectedOncePerQuorum'
    BY <1>11 DEF Inv, CollectionsAreAligned, CollectedOncePerQuorum
<1> QED
    BY <1>13, <1>14, <1>15 DEF Inv

-----------------------------------------------------------------------------
LEMMA TransferInv ==
    ASSUME Inv, NEW sender \in Address, NEW recipient \in Address, NEW tokens \in Value,
           transfer(sender, recipient, tokens)
    PROVE  Inv'
<1>1. balances' \in [Address -> Uint]
    BY MovedType DEF Inv, transfer
<1>2. TypeOK'
    BY <1>1 DEF Inv, TypeOK, transfer
<1> QED
    BY <1>2, TokenCall DEF transfer

LEMMA ApproveInv ==
    ASSUME Inv, NEW sender \in Address, NEW spender \in Address, NEW tokens \in Value,
           approve(sender, spender, tokens)
    PROVE  Inv'
<1>1. tokens \in Uint
    BY WordAssumption
<1>2. allowed' \in [Address -> [Address -> Uint]]
    BY <1>1 DEF Inv, TypeOK, approve
<1>3. TypeOK'
    BY <1>2 DEF Inv, TypeOK, approve
<1> QED
    BY <1>3, TokenCall DEF approve

LEMMA TransferFromInv ==
    ASSUME Inv, NEW sender \in Address, NEW from \in Address, NEW to \in Address,
           NEW tokens \in Value, transferFrom(sender, from, to, tokens)
    PROVE  Inv'
<1>1. balances' \in [Address -> Uint]
    BY MovedType DEF Inv, transferFrom
<1>2. allowed[from][sender] - tokens \in Uint
    <2>1. allowed[from][sender] \in Uint /\ tokens \in Uint
        BY WordAssumption DEF Inv, TypeOK
    <2>2. allowed[from][sender] >= tokens
        BY DEF transferFrom
    <2> QED
        BY <2>1, <2>2, WordAssumption DEF Uint
<1>3. allowed' \in [Address -> [Address -> Uint]]
    BY <1>2 DEF Inv, TypeOK, transferFrom
<1>4. TypeOK'
    BY <1>1, <1>3 DEF Inv, TypeOK, transferFrom
<1> QED
    BY <1>4, TokenCall DEF transferFrom

LEMMA RelayInv ==
    ASSUME Inv, NEW sender \in Address, NEW withdrawal \in Message,
           transferToMainViaRelay(sender, withdrawal)
    PROVE  Inv'
<1>1. withdrawal.value \in Uint /\ withdrawal.transactionHash \in SideTx
    BY WordAssumption DEF Message
<1>2. balances[sender] \in Uint /\ totalSupply \in Uint
    BY DEF Inv, TypeOK
<1>3. /\ Sub(balances[sender], withdrawal.value) \in Uint
      /\ Sub(totalSupply, withdrawal.value) \in Uint
    BY <1>1, <1>2, WordOps
<1>4. balances' \in [Address -> Uint] /\ totalSupply' \in Uint
    BY <1>3 DEF Inv, TypeOK, transferToMainViaRelay, burn
<1>5. withdrawLog' \in [Message -> Nat]
    BY EmitFacts DEF Inv, TypeOK, transferToMainViaRelay
<1>6. TypeOK'
    BY <1>1, <1>4, <1>5 DEF Inv, TypeOK, transferToMainViaRelay
<1> QED
    BY <1>6, TokenCall DEF transferToMainViaRelay

LEMMA SubmitInv ==
    ASSUME Inv, NEW sender \in Caller, NEW m \in Message, NEW signer \in Address,
           submitSignature(sender, [signer |-> signer, message |-> m], m)
    PROVE  Inv'
<1> DEFINE sig == [signer |-> signer, message |-> m]
           old == signatures[m].authorities
           new == Append(old, sender)
           sigs == signatures[m].signatures
           event == [authorityResponsibleForRelay |-> sender, message |-> m]
<1>1. /\ old \in Seq(Address) /\ sigs \in Seq(Signature) /\ sender \in Address
      /\ sig \in Signature /\ signer = sender
    BY DEF Inv, TypeOK, SignaturesCollection, Caller, Signature, submitSignature,
           isSignedBy, ecrecover
<1>2. /\ IsInjective(old) /\ Range(old) \subseteq Range(authorities) \cap Caller
      /\ Len(sigs) = Len(old)
      /\ \A i \in 1 .. Len(old) : sigs[i] = [signer |-> old[i], message |-> m]
    BY DEF Inv, CollectionsAreAligned
<1>3. sender \in Range(authorities) /\ sender \notin Range(old)
    BY DEF submitSignature, onlyAuthority, firstTime, addressArrayContains
<1>4. /\ new \in Seq(Address) /\ IsInjective(new) /\ Len(new) = Len(old) + 1
      /\ Range(new) \subseteq Range(authorities) \cap Caller
      /\ new[Len(old) + 1] = sender
      /\ \A i \in 1 .. Len(old) : new[i] = old[i]
    BY <1>1, <1>2, <1>3, AppendNewcomer
<1>5. /\ signatures' = [signatures EXCEPT ![m] =
                          [authorities |-> new, signatures |-> Append(sigs, sig)]]
      /\ signatures'[m].authorities = new /\ signatures'[m].signatures = Append(sigs, sig)
      /\ \A n \in Message : n # m => signatures'[n] = signatures[n]
    <2> DEFINE entry == [authorities |-> new, signatures |-> Append(sigs, sig)]
    <2>1. /\ signatures \in [Message -> SignaturesCollection]
          /\ signatures[m] = [authorities |-> old, signatures |-> sigs]
        BY DEF Inv, TypeOK, SignaturesCollection
    <2>2. signatures' = [signatures EXCEPT ![m].authorities = new,
                                           ![m].signatures = Append(sigs, sig)]
        BY <2>1 DEF submitSignature
    <2>3. signatures' = [signatures EXCEPT ![m] =
                            [signatures[m] EXCEPT !.authorities = new,
                                                  !.signatures = Append(sigs, sig)]]
        BY <2>1, <2>2
    <2>4. [signatures[m] EXCEPT !.authorities = new, !.signatures = Append(sigs, sig)]
             = entry
        <3> DEFINE d == [signatures[m] EXCEPT !.authorities = new]
        <3>1. ASSUME NEW x, NEW y, NEW u, NEW v
              PROVE  /\ [[authorities |-> x, signatures |-> y] EXCEPT !.authorities = u]
                           = [authorities |-> u, signatures |-> y]
                     /\ [[authorities |-> x, signatures |-> y] EXCEPT !.signatures = v]
                           = [authorities |-> x, signatures |-> v]
            OBVIOUS
        <3> HIDE DEF old, sigs, new, sig
        <3>2. d = [authorities |-> new, signatures |-> sigs]
            BY <2>1, <3>1
        <3> HIDE DEF d
        <3>3. [d EXCEPT !.signatures = Append(sigs, sig)] = entry
            BY <3>1, <3>2
        <3> QED
            BY <3>3 DEF d
    <2>5. signatures' = [signatures EXCEPT ![m] = entry]
        BY <2>3, <2>4
    <2>6. entry.authorities = new /\ entry.signatures = Append(sigs, sig)
        OBVIOUS
    <2> HIDE DEF entry
    <2>7. /\ signatures'[m] = entry
          /\ \A n \in Message : n # m => signatures'[n] = signatures[n]
        BY <2>1, <2>5
    <2> QED
        BY <2>5, <2>6, <2>7 DEF entry
<1>6. signatures' \in [Message -> SignaturesCollection]
    <2>1. Append(sigs, sig) \in Seq(Signature)
        BY <1>1
    <2> HIDE DEF sigs, sig
    <2> QED
        BY <1>4, <1>5, <2>1 DEF Inv, TypeOK, SignaturesCollection
<1>7. Len(old) \in Nat /\ requiredSignatures \in Nat \ {0}
    BY <1>1, ConstructorAssumption
<1>8. collectedLog \in [CollectedEvent -> Nat] /\ event \in CollectedEvent
    BY <1>1 DEF Inv, TypeOK, CollectedEvent
<1>9. collectedLog' = IF confirmed(new) THEN Emit(collectedLog, event) ELSE collectedLog
    BY <1>5 DEF submitSignature
<1>10. /\ collectedLog' \in [CollectedEvent -> Nat]
       /\ \A e \in CollectedEvent : e # event => collectedLog'[e] = collectedLog[e]
       /\ collectedLog'[event] = collectedLog[event] + (IF confirmed(new) THEN 1 ELSE 0)
    <2> HIDE DEF event, new
    <2>1. CASE confirmed(new)
        BY <2>1, <1>8, <1>9, EmitFacts
    <2>2. CASE ~confirmed(new)
        BY <2>2, <1>8, <1>9
    <2> QED
        BY <2>1, <2>2
<1>11. UNCHANGED <<tokenVars, deposits, depositLog, withdrawLog>> /\ tx' = NoTx
    BY DEF submitSignature
<1>12. TypeOK'
    BY <1>6, <1>10, <1>11 DEF Inv, TypeOK, tokenVars
<1>13. MintedOncePerQuorum'
    BY <1>11 DEF Inv, MintedOncePerQuorum
<1>14. CollectionsAreAligned'
    <2> DEFINE Aligned(signers, s, n) ==
                  /\ IsInjective(signers)
                  /\ Range(signers) \subseteq Range(authorities) \cap Caller
                  /\ Len(s) = Len(signers)
                  /\ \A i \in 1 .. Len(signers) :
                        s[i] = [signer |-> signers[i], message |-> n]
    <2> SUFFICES ASSUME NEW n \in Message
                 PROVE  Aligned(signatures'[n].authorities, signatures'[n].signatures, n)
        BY DEF CollectionsAreAligned
    <2>1. CASE n = m
        <3>1. /\ Len(Append(sigs, sig)) = Len(sigs) + 1
              /\ Append(sigs, sig)[Len(sigs) + 1] = sig
              /\ \A i \in 1 .. Len(sigs) : Append(sigs, sig)[i] = sigs[i]
            BY <1>1
        <3>2. ASSUME NEW i \in 1 .. Len(new)
              PROVE  Append(sigs, sig)[i] = [signer |-> new[i], message |-> m]
            <4>1. CASE i = Len(old) + 1
                BY <4>1, <3>1, <1>1, <1>2, <1>4
            <4>2. CASE i # Len(old) + 1
                <5>1. i \in 1 .. Len(old)
                    BY <4>2, <1>4, <1>7
                <5> QED
                    BY <5>1, <3>1, <1>2, <1>4
            <4> QED
                BY <4>1, <4>2
        <3> QED
            BY <2>1, <3>1, <3>2, <1>2, <1>4, <1>5
    <2>2. CASE n # m
        BY <2>2, <1>5 DEF Inv, CollectionsAreAligned
    <2> QED
        BY <2>1, <2>2
<1>15. CollectedOncePerQuorum'
    <2> SUFFICES ASSUME NEW a \in Address, NEW n \in Message
                 PROVE  collectedLog'[[authorityResponsibleForRelay |-> a, message |-> n]] =
                          IF /\ Len(signatures'[n].authorities) >= requiredSignatures
                             /\ signatures'[n].authorities[requiredSignatures] = a
                          THEN 1 ELSE 0
        BY DEF CollectedOncePerQuorum
    <2> DEFINE e == [authorityResponsibleForRelay |-> a, message |-> n]
    <2>1. e \in CollectedEvent
        BY DEF CollectedEvent
    <2>2. collectedLog[e] = IF /\ Len(signatures[n].authorities) >= requiredSignatures
                               /\ signatures[n].authorities[requiredSignatures] = a
                            THEN 1 ELSE 0
        BY DEF Inv, CollectedOncePerQuorum
    <2>3. CASE n # m
        <3>1. e # event
            BY <2>3
        <3> QED
            BY <2>1, <2>2, <2>3, <3>1, <1>5, <1>10
    <2>4. CASE n = m /\ confirmed(new)
        <3>1. Len(old) + 1 = requiredSignatures /\ ~(Len(old) >= requiredSignatures)
            BY <2>4, <1>4, <1>7 DEF confirmed
        <3>2. collectedLog[e] = 0 /\ Len(new) >= requiredSignatures
              /\ new[requiredSignatures] = sender
            BY <2>2, <2>4, <3>1, <1>4, <1>7
        <3>3. CASE a = sender
            <4>1. e = event
                BY <2>4, <3>3
            <4>2. collectedLog'[event] = collectedLog[event] + 1
                BY <2>4, <1>10
            <4>3. collectedLog'[e] = 1
                BY <3>2, <4>1, <4>2
            <4> HIDE DEF e, new
            <4> QED
                BY <2>4, <3>2, <3>3, <4>3, <1>5 DEF e
        <3>4. CASE a # sender
            <4>1. e # event
                BY <3>4
            <4> QED
                BY <2>1, <2>4, <3>2, <3>4, <4>1, <1>5, <1>10
        <3> QED
            BY <3>3, <3>4
    <2>5. CASE n = m /\ ~confirmed(new)
        <3>1. Len(new) # requiredSignatures
            BY <2>5 DEF confirmed
        <3>2. (Len(new) >= requiredSignatures) <=> (Len(old) >= requiredSignatures)
            BY <3>1, <1>4, <1>7
        <3>3. Len(old) >= requiredSignatures =>
                 new[requiredSignatures] = old[requiredSignatures]
            BY <1>4, <1>7
        <3>4. collectedLog' = collectedLog
            BY <2>5, <1>9
        <3> QED
            BY <2>2, <2>5, <3>2, <3>3, <3>4, <1>5
    <2> QED
        BY <2>3, <2>4, <2>5
<1> QED
    BY <1>12, <1>13, <1>14, <1>15 DEF Inv

LEMMA NextInv == Inv /\ [Next]_vars => Inv'
<1> SUFFICES ASSUME Inv, [Next]_vars PROVE Inv'
    OBVIOUS
<1>1. Recipient \subseteq Address /\ User \subseteq Address
    BY AddressAssumption DEF User
<1>2. ASSUME NEW sender \in User, NEW recipient \in Recipient, NEW tokens \in Value,
             transfer(sender, recipient, tokens)
      PROVE  Inv'
    BY <1>1, <1>2, TransferInv
<1>3. ASSUME NEW sender \in User, NEW spender \in User, NEW tokens \in Value,
             approve(sender, spender, tokens)
      PROVE  Inv'
    BY <1>1, <1>3, ApproveInv
<1>4. ASSUME NEW sender \in User, NEW from \in User, NEW to \in Recipient,
             NEW tokens \in Value, transferFrom(sender, from, to, tokens)
      PROVE  Inv'
    BY <1>1, <1>4, TransferFromInv
<1>5. ASSUME NEW sender \in Caller, NEW key \in DepositKey, deposit(sender, key)
      PROVE  Inv'
    BY <1>5, DepositInv
<1>6. ASSUME NEW sender \in User, NEW m \in Message, transferToMainViaRelay(sender, m)
      PROVE  Inv'
    BY <1>1, <1>6, RelayInv
<1>7. ASSUME NEW sender \in Caller, NEW m \in Message, NEW signer \in Address,
             submitSignature(sender, [signer |-> signer, message |-> m], m)
      PROVE  Inv'
    BY <1>7, SubmitInv
<1>8. CASE UNCHANGED vars
    <2>1. TypeOK'
        BY <1>8 DEF Inv, TypeOK, vars, tokenVars
    <2> QED
        BY <1>8, <2>1, TokenCall DEF vars
<1> QED
    BY <1>2, <1>3, <1>4, <1>5, <1>6, <1>7, <1>8 DEF Next

-----------------------------------------------------------------------------
(* The inductive invariant holds of every run of SideBridge. *)
THEOREM Invariance == Spec => []Inv
BY InitInv, NextInv, PTL DEF Spec

(* SideBridge keeps words and sequences of addresses in its state. *)
THEOREM TypeCorrect == Spec => []TypeOK
<1>1. Inv => TypeOK
    BY DEF Inv
<1> QED
    BY <1>1, Invariance, PTL

(***************************************************************************)
(* However many authorities there are, whatever the quorum: deposit mints  *)
(* a deposit once, when requiredSignatures different authorities have      *)
(* confirmed it, and never for a later confirmation.                       *)
(***************************************************************************)
THEOREM MintedOnce == Spec => []MintedOncePerQuorum
<1>1. Inv => MintedOncePerQuorum
    BY DEF Inv
<1> QED
    BY <1>1, Invariance, PTL

(***************************************************************************)
(* submitSignature emits CollectedSignatures once per message, for the     *)
(* authority whose signature completed the quorum.                         *)
(***************************************************************************)
THEOREM CollectedOnce == Spec => []CollectedOncePerQuorum
<1>1. Inv => CollectedOncePerQuorum
    BY DEF Inv
<1> QED
    BY <1>1, Invariance, PTL

LEMMA InvCollected == Inv => CollectedSignaturesAreEnough
<1>1. ASSUME Inv, NEW e \in CollectedEvent, collectedLog[e] > 0
      PROVE  hasEnoughValidSignatures(e.message,
                SubSeq(signatures[e.message].signatures, 1, requiredSignatures))
    <2> DEFINE m == e.message
               signers == signatures[m].authorities
               sigs == signatures[m].signatures
               sub == SubSeq(sigs, 1, requiredSignatures)
    <2>1. /\ m \in Message /\ e.authorityResponsibleForRelay \in Address
          /\ e = [authorityResponsibleForRelay |-> e.authorityResponsibleForRelay,
                  message |-> m]
        BY DEF CollectedEvent
    <2>2. Len(signers) >= requiredSignatures
        BY <1>1, <2>1 DEF Inv, CollectedOncePerQuorum
    <2>3. signers \in Seq(Address) /\ sigs \in Seq(Signature)
        BY <1>1, <2>1 DEF Inv, TypeOK, SignaturesCollection
    <2>4. /\ IsInjective(signers) /\ Len(sigs) = Len(signers)
          /\ Range(signers) \subseteq Range(authorities) \cap Caller
          /\ \A i \in 1 .. Len(signers) : sigs[i] = [signer |-> signers[i], message |-> m]
        BY <1>1, <2>1 DEF Inv, CollectionsAreAligned
    <2>5. requiredSignatures \in Nat \ {0} /\ Len(signers) \in Nat
        BY <2>3, ConstructorAssumption
    <2> HIDE DEF m, signers, sigs
    <2>6. /\ Len(sub) = requiredSignatures
          /\ \A i \in 1 .. requiredSignatures : sub[i] = sigs[i]
        BY <2>2, <2>3, <2>4, <2>5
    <2>7. 1 .. requiredSignatures \subseteq DOMAIN signers
        BY <2>2, <2>3, <2>5
    <2> HIDE DEF sub
    <2>8. \A i \in 1 .. requiredSignatures :
            ecrecover(m, sub[i]) = signers[i] /\ signers[i] \in Range(authorities) \cap Caller
        <3> SUFFICES ASSUME NEW i \in 1 .. requiredSignatures
                     PROVE  /\ ecrecover(m, sub[i]) = signers[i]
                            /\ signers[i] \in Range(authorities) \cap Caller
            OBVIOUS
        <3>1. i \in 1 .. Len(signers) /\ i \in DOMAIN signers
            BY <2>2, <2>5, <2>7
        <3>2. sub[i] = [signer |-> signers[i], message |-> m]
            BY <2>4, <2>6, <3>1
        <3>3. signers[i] \in Range(signers)
            BY <3>1 DEF Range
        <3> QED
            BY <2>4, <3>2, <3>3 DEF ecrecover
    <2>9. ASSUME NEW i \in 1 .. requiredSignatures
          PROVE  /\ addressArrayContains(authorities, ecrecover(m, sub[i]))
                 /\ ecrecover(m, sub[i]) \notin encountered(m, sub, i)
        <3>1. signers[i] \in Range(authorities) /\ signers[i] # ZeroAddress
            BY <2>8 DEF Caller
        <3>2. ASSUME NEW j \in 1 .. (i - 1) PROVE ecrecover(m, sub[j]) # signers[i]
            <4>1. j \in 1 .. requiredSignatures /\ j # i
                BY <2>5
            <4> QED
                BY <4>1, <2>4, <2>7, <2>8 DEF IsInjective
        <3> QED
            BY <2>8, <3>1, <3>2 DEF encountered, addressArrayContains
    <2>10. hasEnoughValidSignatures(m, sub)
        BY <2>5, <2>6, <2>9 DEF hasEnoughValidSignatures
    <2> QED
        BY <2>10 DEF m, sub, sigs
<1> QED
    BY <1>1 DEF CollectedSignaturesAreEnough

(***************************************************************************)
(* What CollectedSignatures announces is what MainBridge.withdraw accepts: *)
(* the first requiredSignatures signatures of the collection are valid and *)
(* of different authorities.                                               *)
(***************************************************************************)
THEOREM CollectedEnough == Spec => []CollectedSignaturesAreEnough
BY InvCollected, Invariance, PTL

-----------------------------------------------------------------------------
(* The sum of the balances. *)

(* Balances are numbers, and there are finitely many. *)
LEMMA BalanceFacts ==
    ASSUME TypeOK
    PROVE  /\ IsFiniteSet(Address) /\ balances \in [Address -> Nat]
           /\ Total(balances) \in Nat
           /\ \A a \in Address : balances[a] \in Uint /\ balances[a] <= Total(balances)
<1>1. balances \in [Address -> Uint] /\ Uint \subseteq Nat
    BY WordAssumption DEF TypeOK, Uint
<1>2. balances \in [Address -> Nat] /\ IsFiniteSet(Address)
    BY <1>1, AddressAssumption
<1> QED
    BY <1>1, <1>2, TotalType, TotalBound

(* A balance set to another word. *)
LEMMA SetBalance ==
    ASSUME NEW b \in [Address -> Uint], NEW a \in Address, NEW v \in Uint
    PROVE  Total([b EXCEPT ![a] = v]) = Total(b) - b[a] + v
<1>1. Uint \subseteq Nat
    BY WordAssumption DEF Uint
<1>2. b \in [Address -> Nat] /\ v \in Nat
    BY <1>1
<1> QED
    BY <1>2, AddressAssumption, TotalUpdate

(* A transfer that noOverflow lets through neither makes nor loses tokens, *)
(* to oneself either.                                                      *)
LEMMA MovedTotal ==
    ASSUME TypeOK, NEW from \in Address, NEW to \in Address, NEW tokens \in Value,
           balances[from] >= tokens, noOverflow(to, tokens)
    PROVE  Total(moved(from, to, tokens)) = Total(balances)
<1> DEFINE b1 == [balances EXCEPT ![from] = Sub(@, tokens)]
<1>1. /\ balances \in [Address -> Uint] /\ balances[from] \in Uint
      /\ balances[to] \in Uint /\ tokens \in Uint
    BY WordAssumption DEF TypeOK
<1>2. Sub(balances[from], tokens) = balances[from] - tokens
      /\ balances[from] - tokens \in Uint
    BY <1>1, SubExact
<1>3. b1 = [balances EXCEPT ![from] = balances[from] - tokens]
    BY <1>1, <1>2
<1>4. b1 \in [Address -> Uint] /\ b1[to] \in Uint
    BY <1>1, <1>2, <1>3
<1>5. Total(b1) = Total(balances) - balances[from] + (balances[from] - tokens)
    <2>1. Total([balances EXCEPT ![from] = balances[from] - tokens])
             = Total(balances) - balances[from] + (balances[from] - tokens)
        BY <1>1, <1>2, SetBalance
    <2> QED
        BY <1>3, <2>1, Zenon
<1>6. b1[to] + tokens < UintModulus
    <2>1. CASE from = to
        <3>1. b1[to] + tokens = balances[to]
            BY <2>1, <1>1, <1>3, WordAssumption DEF Uint
        <3> QED
            BY <3>1, <1>1, WordAssumption DEF Uint
    <2>2. CASE from # to
        <3>1. b1[to] = balances[to]
            BY <2>2, <1>1, <1>3
        <3>2. balances[to] + tokens < UintModulus
            BY <1>1, AddCases, WordAssumption DEF noOverflow, Uint
        <3> QED
            BY <3>1, <3>2
    <2> QED
        BY <2>1, <2>2
<1>7. moved(from, to, tokens) = [b1 EXCEPT ![to] = Add(@, tokens)]
    BY DEF moved
<1> HIDE DEF b1
<1>8. Add(b1[to], tokens) = b1[to] + tokens /\ b1[to] + tokens \in Uint
    BY <1>1, <1>4, <1>6, AddCases, WordAssumption DEF Uint
<1>9. Total(moved(from, to, tokens)) = Total(b1) - b1[to] + (b1[to] + tokens)
    <2>1. Total([b1 EXCEPT ![to] = b1[to] + tokens]) = Total(b1) - b1[to] + (b1[to] + tokens)
        BY <1>4, <1>8, SetBalance
    <2>2. moved(from, to, tokens) = [b1 EXCEPT ![to] = b1[to] + tokens]
        BY <1>4, <1>7, <1>8
    <2> QED
        BY <2>1, <2>2, Zenon
<1>10. Total(balances) \in Nat
    BY BalanceFacts
<1> QED
    BY <1>1, <1>4, <1>5, <1>9, <1>10, WordAssumption DEF Uint

(* Minting adds its value to the sum, or all but a wrapped-around word. *)
LEMMA MintTotal ==
    ASSUME TypeOK, NEW key \in DepositKey, mint(key)
    PROVE  \/ /\ balances[key.recipient] + key.value < UintModulus
              /\ Total(balances') = Total(balances) + key.value
           \/ /\ balances[key.recipient] + key.value >= UintModulus
              /\ Total(balances') = Total(balances) + key.value - UintModulus
<1> DEFINE r == key.recipient
           v == key.value
<1>1. r \in Address /\ v \in Uint /\ balances \in [Address -> Uint] /\ balances[r] \in Uint
    BY AddressAssumption, WordAssumption DEF DepositKey, TypeOK
<1>2. balances' = [balances EXCEPT ![r] = Add(balances[r], v)]
    BY <1>1 DEF mint
<1> HIDE DEF r, v
<1>3. Add(balances[r], v) \in Uint
    BY <1>1, WordOps
<1>4. Total(balances') = Total(balances) - balances[r] + Add(balances[r], v)
    BY <1>1, <1>2, <1>3, SetBalance
<1>5. Total(balances) \in Nat
    BY BalanceFacts
<1>6. Add(balances[r], v) =
         IF balances[r] + v < UintModulus THEN balances[r] + v
         ELSE balances[r] + v - UintModulus
    BY <1>1, AddCases
<1>7. UintModulus \in Nat /\ balances[r] \in Nat /\ v \in Nat
    BY <1>1, WordAssumption DEF Uint
<1> QED
    BY <1>4, <1>5, <1>6, <1>7 DEF r, v

(* Burning what the sender has takes its value from the sum. *)
LEMMA BurnTotal ==
    ASSUME TypeOK, NEW sender \in Address, NEW value \in Uint,
           balances[sender] >= value, burn(sender, value)
    PROVE  Total(balances') = Total(balances) - value
<1>1. balances \in [Address -> Uint] /\ balances[sender] \in Uint
    BY DEF TypeOK
<1>2. Sub(balances[sender], value) = balances[sender] - value
      /\ balances[sender] - value \in Uint
    BY <1>1, SubExact
<1>3. balances' = [balances EXCEPT ![sender] = balances[sender] - value]
    BY <1>1, <1>2 DEF burn
<1>4. Total(balances') = Total(balances) - balances[sender] + (balances[sender] - value)
    BY <1>1, <1>2, <1>3, SetBalance
<1>5. Total(balances) \in Nat
    BY BalanceFacts
<1> QED
    BY <1>1, <1>4, <1>5, WordAssumption DEF Uint

LEMMA InitSum == Init => TotalSupplyIsSum
<1> SUFFICES ASSUME Init PROVE TotalSupplyIsSum
    OBVIOUS
<1>1. balances \in [Address -> Nat] /\ \A a \in Address : balances[a] = 0
    BY DEF Init
<1>2. Total(balances) = 0
    BY <1>1, TotalZero
<1>3. 0 % UintModulus = 0
    BY WordAssumption, ModOfUint DEF Uint
<1> QED
    BY <1>2, <1>3 DEF Init, TotalSupplyIsSum

LEMMA NextSum == TypeOK /\ TotalSupplyIsSum /\ [Next]_vars => TotalSupplyIsSum'
<1> SUFFICES ASSUME TypeOK, TotalSupplyIsSum, [Next]_vars PROVE TotalSupplyIsSum'
    OBVIOUS
<1>1. Recipient \subseteq Address /\ User \subseteq Address
    BY AddressAssumption DEF User
<1>2. Total(balances) \in Int /\ totalSupply = Total(balances) % UintModulus
    BY BalanceFacts DEF TotalSupplyIsSum
<1>3. ASSUME totalSupply' = totalSupply, Total(balances') = Total(balances)
      PROVE  TotalSupplyIsSum'
    BY <1>2, <1>3 DEF TotalSupplyIsSum
<1>4. ASSUME NEW sender \in User, NEW recipient \in Recipient, NEW tokens \in Value,
             transfer(sender, recipient, tokens)
      PROVE  TotalSupplyIsSum'
    BY <1>1, <1>3, <1>4, MovedTotal DEF transfer
<1>5. ASSUME NEW sender \in User, NEW spender \in User, NEW tokens \in Value,
             approve(sender, spender, tokens)
      PROVE  TotalSupplyIsSum'
    BY <1>3, <1>5 DEF approve
<1>6. ASSUME NEW sender \in User, NEW from \in User, NEW to \in Recipient,
             NEW tokens \in Value, transferFrom(sender, from, to, tokens)
      PROVE  TotalSupplyIsSum'
    BY <1>1, <1>3, <1>6, MovedTotal DEF transferFrom
<1>7. ASSUME NEW sender \in Caller, NEW key \in DepositKey, deposit(sender, key)
      PROVE  TotalSupplyIsSum'
    <2>1. CASE mint(key)
        <3>1. key.value \in Int /\ UintModulus \in Int
            BY FieldsAreWords
        <3>2. totalSupply' = (Total(balances) + key.value) % UintModulus
            BY <2>1, <3>1, <1>2, ModOfSum DEF mint, Add
        <3>3. CASE Total(balances') = Total(balances) + key.value
            BY <3>2, <3>3 DEF TotalSupplyIsSum
        <3>4. CASE Total(balances') = Total(balances) + key.value - UintModulus
            <4>1. /\ Total(balances) + key.value \in Int /\ Total(balances') \in Int
                  /\ Total(balances) + key.value = Total(balances') + UintModulus * 1
                BY <3>1, <3>4, <1>2
            <4> QED
                BY <4>1, <3>2, SameRemainder DEF TotalSupplyIsSum
        <3> QED
            BY <2>1, <3>3, <3>4, MintTotal
    <2>2. CASE UNCHANGED <<balances, totalSupply>>
        BY <2>2, <1>3
    <2> QED
        BY <2>1, <2>2, <1>7 DEF deposit
<1>8. ASSUME NEW sender \in User, NEW m \in Message, transferToMainViaRelay(sender, m)
      PROVE  TotalSupplyIsSum'
    <2>1. m.value \in Uint /\ 0 - m.value \in Int
        BY FieldsAreWords
    <2>2. Total(balances') = Total(balances) - m.value
        BY <1>1, <1>8, <2>1, BurnTotal DEF transferToMainViaRelay
    <2>3. m.value \in Int
        BY <2>1, WordAssumption DEF Uint
    <2>4. ((Total(balances) % UintModulus) + (0 - m.value)) % UintModulus
             = (Total(balances) + (0 - m.value)) % UintModulus
        BY <1>2, <2>1, ModOfSum
    <2>5. totalSupply' = (totalSupply - m.value) % UintModulus
        BY <1>8 DEF transferToMainViaRelay, burn, Sub
    <2>6. totalSupply - m.value = (Total(balances) % UintModulus) + (0 - m.value)
          /\ Total(balances) - m.value = Total(balances) + (0 - m.value)
        BY <1>2, <2>3, ModIsUint, WordAssumption DEF Uint
    <2> QED
        BY <2>2, <2>4, <2>5, <2>6 DEF TotalSupplyIsSum
<1>9. ASSUME NEW sender \in Caller, NEW m \in Message, NEW signer \in Address,
             submitSignature(sender, [signer |-> signer, message |-> m], m)
      PROVE  TotalSupplyIsSum'
    BY <1>3, <1>9 DEF submitSignature, tokenVars
<1>10. CASE UNCHANGED vars
    BY <1>3, <1>10 DEF vars, tokenVars
<1> QED
    BY <1>4, <1>5, <1>6, <1>7, <1>8, <1>9, <1>10 DEF Next

(***************************************************************************)
(* SideBridge's totalSupply is the sum of all balances, modulo the word    *)
(* size, for any number of accounts: transfers, to oneself too, keep the   *)
(* sum, and minting and burning change both alike, wrapping around or not. *)
(***************************************************************************)
THEOREM SupplyIsSum == Spec => []TotalSupplyIsSum
BY InitSum, NextSum, TypeCorrect, PTL DEF Spec
=============================================================================
