------------------------------- MODULE Helpers -------------------------------
(***************************************************************************)
(* What MainBridge and SideBridge share (contracts/bridge.sol): 256-bit    *)
(* words, the message a withdrawal travels as, and the libraries Helpers   *)
(* and MessageSigning.                                                     *)
(*                                                                         *)
(* Hashes are ideal: keccak256 is injective, so a hash of some arguments   *)
(* is represented by the arguments.  Signatures are ideal too: one is the  *)
(* record of who signed what.                                              *)
(***************************************************************************)
EXTENDS Integers, Sequences, FiniteSets, Functions

CONSTANTS
    Address,            \* accounts of either chain
    ZeroAddress,        \* 0x0
    Recipient,          \* the accounts that deposit, or that calls name as recipients
    Value,              \* the amounts that calls name
    GasPrice,           \* the main gas prices that calls name
    MainTx, SideTx,     \* transaction hashes of the two chains
    UintModulus,        \* 2^256, or a smaller modulus for TLC
    \* the parameters both constructors take
    authorities, requiredSignatures, estimatedGasCostOfWithdraw

(* The words of the EVM. *)
Uint == 0 .. (UintModulus - 1)

ASSUME AddressAssumption ==
    ZeroAddress \in Address /\ Recipient \subseteq Address /\ IsFiniteSet(Address)

(* Hashes have 256 bits. *)
ASSUME HashAssumption == IsFiniteSet(MainTx) /\ IsFiniteSet(SideTx)

ASSUME WordAssumption ==
    UintModulus \in Nat \ {0} /\ Value \subseteq Uint /\ GasPrice \subseteq Uint

(* What the two constructors require; authorities may repeat an address. *)
ASSUME ConstructorAssumption ==
    /\ authorities \in Seq(Address)
    /\ requiredSignatures \in 1 .. Len(authorities)
    /\ estimatedGasCostOfWithdraw \in Uint

-----------------------------------------------------------------------------
(* Solidity 0.4 arithmetic on uint256 wraps around. *)
Add(a, b) == (a + b) % UintModulus

Sub(a, b) == (a - b) % UintModulus
Mul(a, b) == (a * b) % UintModulus

(* estimatedWeiCostOfWithdraw, which both contracts compute the same way. *)
relayCost(mainGasPrice) == Mul(estimatedGasCostOfWithdraw, mainGasPrice)

(* Every account that can call a contract. *)
Caller == Address \ {ZeroAddress}

(***************************************************************************)
(* The 116 bytes of library Message: the Withdraw event of a side          *)
(* transaction together with that transaction's hash.  A call with a       *)
(* message of another length reverts and is no step of the model.          *)
(***************************************************************************)
Message == [recipient       : Recipient,
            value           : Value,
            transactionHash : SideTx,
            mainGasPrice    : GasPrice]

(* A deposit on main as SideBridge.deposit names it. *)
DepositKey == [recipient : Recipient, value : Value, transactionHash : MainTx]

-----------------------------------------------------------------------------
Signature == [signer : Address, message : Message]

(***************************************************************************)
(* External: ecrecover gives the signer of a signature of this message;    *)
(* for anything else it gives 0x0 or an address nobody has the key of, and *)
(* 0x0 stands for both.                                                    *)
(***************************************************************************)
ecrecover(message, sig) ==
    IF sig.message = message THEN sig.signer ELSE ZeroAddress

addressArrayContains(array, value) == value \in Range(array)

(***************************************************************************)
(* encountered_addresses has one slot per allowed signer, all 0x0 at first *)
(* and at least one of them still 0x0 whenever it is searched: 0x0 counts  *)
(* as encountered from the start.  Only the first requiredSignatures       *)
(* entries are looked at.                                                  *)
(***************************************************************************)
encountered(message, sigs, i) ==
    {ZeroAddress} \cup {ecrecover(message, sigs[j]) : j \in 1 .. (i - 1)}

(* Duplicates pass: the check against the addresses encountered is gone. *)
MutantDuplicates(message, sigs) ==
    /\ Len(sigs) >= requiredSignatures
    /\ \A i \in 1 .. requiredSignatures :
          addressArrayContains(authorities, ecrecover(message, sigs[i]))

hasEnoughValidSignatures(message, sigs) ==
    /\ Len(sigs) >= requiredSignatures
    /\ \A i \in 1 .. requiredSignatures :
          LET recovered_address == ecrecover(message, sigs[i]) IN
          /\ addressArrayContains(authorities, recovered_address)
          /\ recovered_address \notin encountered(message, sigs, i)

(* An event log without its order: how often each event was emitted. *)
Emit(log, event) == [log EXCEPT ![event] = @ + 1]
NoEvents(Events) == [e \in Events |-> 0]

(* The sum of what a function to the naturals gives, by counting its units: *)
(* a set whose size changes by what one argument is given or loses.         *)
Units(f) == UNION {{x} \X (1 .. f[x]) : x \in DOMAIN f}
Total(f) == Cardinality(Units(f))
=============================================================================
