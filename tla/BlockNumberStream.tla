-------------------------- MODULE BlockNumberStream --------------------------
(***************************************************************************)
(* BlockNumberStream (bridge/src/block_number_stream.rs): waits for its    *)
(* interval, asks for the number of the last block and yields the number   *)
(* of the last confirmed block when that has grown.                        *)
(*                                                                         *)
(* An action is one turn of the loop in poll.  The answer to a request is  *)
(* the number of the last block when the answer is processed; a failed or  *)
(* timed-out request ends the process (RelayStream's fail).                *)
(***************************************************************************)
EXTENDS Integers

CONSTANT confirmations

VARIABLES
    head,               \* external: the number of the chain's last block
    state, last_checked_block

(* The subtraction of a release build, which wraps around; 2^64 cut down. *)
MutantSaturatingSub(a, b) == (a - b) % 2^16

(* u64::saturating_sub *)
saturating_sub(a, b) == IF a > b THEN a - b ELSE 0

(* The last block, confirmed or not. *)
MutantLastConfirmed == head

last_confirmed_block == saturating_sub(head, confirmations)

Start(after) == state = "AwaitInterval" /\ last_checked_block = after

pollInterval ==
    /\ state = "AwaitInterval"
    /\ state' = "AwaitBlockNumber"
    /\ UNCHANGED last_checked_block

pollNoNewBlock ==
    /\ state = "AwaitBlockNumber"
    /\ last_checked_block >= last_confirmed_block
    /\ state' = "AwaitInterval"
    /\ UNCHANGED last_checked_block

(* Yields `block`. *)
pollNewBlock(block) ==
    /\ state = "AwaitBlockNumber"
    /\ block = last_confirmed_block
    /\ last_checked_block < block
    /\ last_checked_block' = block
    /\ state' = "AwaitInterval"
=============================================================================
