------------------------------ MODULE LogStream ------------------------------
(***************************************************************************)
(* LogStream (bridge/src/log_stream.rs): asks for the logs between the     *)
(* last block it has checked and each confirmed block its                  *)
(* BlockNumberStream yields.  An action is one turn of the loop in poll.   *)
(***************************************************************************)
EXTENDS Integers

CONSTANT confirmations

VARIABLES
    head,               \* external: the number of the chain's last block
    bnState, bnLast,    \* self.block_number_stream
    state, last_checked_block

vars == <<bnState, bnLast, state, last_checked_block>>

BlockNumbers == INSTANCE BlockNumberStream WITH
                    state <- bnState, last_checked_block <- bnLast

AwaitBlockNumber == [name |-> "AwaitBlockNumber", from |-> 0, to |-> 0]
AwaitLogs(from, to) == [name |-> "AwaitLogs", from |-> from, to |-> to]

TypeOK ==
    /\ bnState \in {"AwaitInterval", "AwaitBlockNumber"}
    /\ bnLast \in Nat /\ last_checked_block \in Nat
    /\ state = AwaitBlockNumber
          \/ state \in [name : {"AwaitLogs"}, from : Nat, to : Nat]

Start(after) ==
    /\ BlockNumbers!Start(after)
    /\ state = AwaitBlockNumber
    /\ last_checked_block = after

(* The block number stream has nothing yet. *)
pollBlockNumber ==
    /\ state = AwaitBlockNumber
    /\ BlockNumbers!pollInterval \/ BlockNumbers!pollNoNewBlock
    /\ UNCHANGED <<state, last_checked_block>>

(* A range that leaves a block out. *)
MutantFromBlock(last) == last + 2

fromBlock(last) == last + 1

pollRequestLogs ==
    /\ state = AwaitBlockNumber
    /\ BlockNumbers!pollNewBlock(BlockNumbers!last_confirmed_block)
    /\ state' = AwaitLogs(fromBlock(last_checked_block), bnLast')
    /\ UNCHANGED last_checked_block

(* Yields the LogsInBlockRange from .. to. *)
pollLogs(from, to) ==
    /\ state = AwaitLogs(from, to)
    /\ last_checked_block' = to
    /\ state' = AwaitBlockNumber
    /\ UNCHANGED <<bnState, bnLast>>
=============================================================================
