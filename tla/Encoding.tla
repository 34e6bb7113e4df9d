------------------------------ MODULE Encoding ------------------------------
(***************************************************************************)
(* The bytes in which messages and signatures travel between the nodes,    *)
(* written in Rust (bridge/src/message_to_main.rs, signature.rs), and the  *)
(* contracts, which read them from memory with mload (contracts/           *)
(* bridge.sol), and the decimal number in the prefix of a signed message.  *)
(* The other modules pass messages and signatures as records: what is      *)
(* checked here is why they may.                                           *)
(*                                                                         *)
(* A byte is a pair: the value it belongs to and its place in the          *)
(* big-endian form of that value, counted from the end.                    *)
(***************************************************************************)
EXTENDS MainBridge

big_endian(value, length) == [i \in 1 .. length |-> <<value, length - i>>]

AddressLength == 20
WordLength == 32
MESSAGE_LENGTH == 116
SIGNATURE_LENGTH == 65

-----------------------------------------------------------------------------
(* MessageToMain, with the bytes of its fields. *)
MessageToMain(message) ==
    [recipient       |-> big_endian(message.recipient, AddressLength),
     value           |-> big_endian(message.value, WordLength),
     transactionHash |-> big_endian(message.transactionHash, WordLength),
     mainGasPrice    |-> big_endian(message.mainGasPrice, WordLength)]

to_bytes(m) == m.recipient \o m.value \o m.transactionHash \o m.mainGasPrice

(* Rust's ranges start at 0 and exclude their end. *)
slice(bytes, from, to) == SubSeq(bytes, from + 1, to)

from_bytes(bytes) ==
    [recipient       |-> slice(bytes, 0, 20),
     value           |-> slice(bytes, 20, 52),
     transactionHash |-> slice(bytes, 52, 84),
     mainGasPrice    |-> slice(bytes, 84, MESSAGE_LENGTH)]

(* External: the parts of a signature, three different values. *)
ECDSA == [v |-> big_endian(1, 1),
          r |-> big_endian(2, WordLength),
          s |-> big_endian(3, WordLength)]

signature_to_bytes(sig) == sig.r \o sig.s \o sig.v

signature_from_bytes(bytes) ==
    [v |-> slice(bytes, 64, 65), r |-> slice(bytes, 0, 32), s |-> slice(bytes, 32, 64)]

-----------------------------------------------------------------------------
(* In memory a `bytes` begins with its length; after it is anything. *)
memory(bytes) ==
    big_endian(Len(bytes), WordLength) \o bytes \o big_endian(-1, WordLength)

mload(bytes, offset) == slice(memory(bytes), offset, offset + WordLength)

(* An address is the end of a word, a bytes1 its start. *)
asAddress(word) == slice(word, WordLength - AddressLength, WordLength)
asByte(word) == slice(word, 0, 1)

(* Reads the recipient where it begins. *)
MutantGetRecipient(bytes) == asAddress(mload(bytes, 32))

getRecipient(bytes) == asAddress(mload(bytes, 20))

getValue(bytes) == mload(bytes, 52)
getTransactionHash(bytes) == mload(bytes, 84)
getMainGasPrice(bytes) == mload(bytes, 116)

recoveredParts(bytes) ==
    [v |-> asByte(mload(bytes, 96)), r |-> mload(bytes, 32), s |-> mload(bytes, 64)]

-----------------------------------------------------------------------------
(* The first loop: how many digits. *)
decimalLength(n) ==
    LET length[v \in 0 .. n] == 1 + (IF v \div 10 = 0 THEN 0 ELSE length[v \div 10])
    IN  length[n]

(* The second loop, from the last digit to the first.  A write before the  *)
(* start reverts, and bytes that it does not reach stay 0.                 *)
uintToString(n) ==
    LET write[v \in 0 .. n] ==
            [i \in 0 .. decimalLength(n) |->
                IF i = 0 THEN <<>>
                ELSE Append(IF v \div 10 = 0 THEN [j \in 1 .. (i - 1) |-> 0]
                                             ELSE write[v \div 10][i - 1],
                            48 + (v % 10))]
    IN  write[n][decimalLength(n)]

(* The length of a message as eth_sign puts it before the message: "116". *)
LengthAsSigned == <<49, 49, 54>>

-----------------------------------------------------------------------------
(***************************************************************************)
(* The two languages agree on every byte of what authorities sign: what    *)
(* the nodes write of a message the contracts read field by field and the  *)
(* nodes parse back, the contracts hash it with the prefix it was signed   *)
(* with, and a signature is recovered from the parts it was made of, by    *)
(* SideBridge from its bytes and, parsed by a node, by MainBridge.         *)
(***************************************************************************)
EncodingsAgree ==
    \A sig \in signed :
        LET m         == MessageToMain(sig.message)
            message   == to_bytes(m)
            signature == signature_to_bytes(ECDSA)
        IN  /\ Len(message) = MESSAGE_LENGTH
            /\ getRecipient(message) = m.recipient
            /\ getValue(message) = m.value
            /\ getTransactionHash(message) = m.transactionHash
            /\ getMainGasPrice(message) = m.mainGasPrice
            /\ from_bytes(message) = m
            /\ uintToString(Len(message)) = LengthAsSigned
            /\ Len(signature) = SIGNATURE_LENGTH
            /\ recoveredParts(signature) = ECDSA
            /\ signature_from_bytes(signature) = ECDSA
=============================================================================
