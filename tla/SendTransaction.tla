--------------------------- MODULE SendTransaction ---------------------------
(***************************************************************************)
(* SendTransactionWithReceipt (bridge/src/send_tx_with_receipt.rs): asks   *)
(* for the last block, sends a transaction, and after each newly confirmed *)
(* block asks for the receipt until the receipt's block is confirmed.      *)
(*                                                                         *)
(* An action is one turn of a loop in poll.  The chain may replace its     *)
(* last `confirmations` blocks, which can put the transaction into another *)
(* block or back among the pending ones.                                   *)
(***************************************************************************)
EXTENDS Integers

CONSTANTS confirmations,
          MaxBlock          \* bound: blocks of the chain

VARIABLES
    head,               \* external: the number of the chain's last block
    txBlock,            \* external: the transaction's block, 0 while it has none
    after,              \* the last block when the transaction was sent
    state, last_block,  \* where the future is; last_block of the receipt request
    bnState, bnLast,    \* block_number_stream
    receipt             \* the block number of the receipt returned, or 0

chainVars == <<head, txBlock>>
futureVars == <<after, state, last_block, bnState, bnLast, receipt>>
vars == <<chainVars, futureVars>>

BlockNumbers == INSTANCE BlockNumberStream WITH
                    state <- bnState, last_checked_block <- bnLast

Init ==
    /\ head = 0 /\ txBlock = 0
    /\ state = "NotDeployed" /\ after = 0 /\ last_block = 0
    /\ bnState = "AwaitInterval" /\ bnLast = 0
    /\ receipt = 0

-----------------------------------------------------------------------------
new ==
    /\ state = "NotDeployed"
    /\ state' = "AwaitLastBlock"
    /\ UNCHANGED <<chainVars, after, last_block, bnState, bnLast, receipt>>

(* The transaction is handed over, with the block number stream to come. *)
pollLastBlock ==
    /\ state = "AwaitLastBlock"
    /\ state' = "AwaitSendTransaction"
    /\ after' = head
    /\ bnState' = "AwaitInterval" /\ bnLast' = after'
    /\ UNCHANGED <<chainVars, last_block, receipt>>

pollSendTransaction ==
    /\ state = "AwaitSendTransaction"
    /\ state' = "AwaitBlockNumber"
    /\ UNCHANGED <<chainVars, after, last_block, bnState, bnLast, receipt>>

pollBlockNumber ==
    /\ state = "AwaitBlockNumber"
    /\ \/ /\ BlockNumbers!pollInterval \/ BlockNumbers!pollNoNewBlock
          /\ UNCHANGED <<state, last_block>>
       \/ /\ BlockNumbers!pollNewBlock(BlockNumbers!last_confirmed_block)
          /\ state' = "AwaitTransactionReceipt"
          /\ last_block' = bnLast'
    /\ UNCHANGED <<chainVars, after, receipt>>

(* Takes the receipt of any block. *)
MutantHasConfirmations(receipt_block_number) == receipt_block_number > 0

(* Waits for one block too many. *)
MutantTooLate(receipt_block_number) ==
    receipt_block_number > 0 /\ last_block > receipt_block_number

(* There is a receipt, of a block, and the block is confirmed. *)
hasConfirmations(receipt_block_number) ==
    receipt_block_number > 0 /\ last_block >= receipt_block_number

pollTransactionReceipt ==
    /\ state = "AwaitTransactionReceipt"
    /\ IF hasConfirmations(txBlock)
       THEN state' = "Ready" /\ receipt' = txBlock
       ELSE state' = "AwaitBlockNumber" /\ UNCHANGED receipt
    /\ UNCHANGED <<chainVars, after, last_block, bnState, bnLast>>

poll == pollLastBlock \/ pollSendTransaction \/ pollBlockNumber \/ pollTransactionReceipt

(* The process ends, and nothing of the future is left. *)
forget ==
    /\ after' = 0 /\ last_block' = 0 /\ receipt' = 0
    /\ bnState' = "AwaitInterval" /\ bnLast' = 0
    /\ UNCHANGED <<chainVars, state>>

(***************************************************************************)
(* Another process, with a transaction of its own.  The one before may     *)
(* still be mined, but nobody asks for its receipt any more.               *)
(***************************************************************************)
startOver ==
    /\ state' = "NotDeployed" /\ txBlock' = 0
    /\ after' = 0 /\ last_block' = 0 /\ receipt' = 0
    /\ bnState' = "AwaitInterval" /\ bnLast' = 0
    /\ UNCHANGED head

-----------------------------------------------------------------------------
isSent == state \notin {"NotDeployed", "AwaitLastBlock"}

(* External: a block, perhaps with the transaction. *)
mine(included) ==
    /\ head < MaxBlock
    /\ head' = head + 1
    /\ IF included
       THEN isSent /\ txBlock = 0 /\ txBlock' = head + 1
       ELSE UNCHANGED txBlock
    /\ UNCHANGED futureVars

(* External: a longer chain replaces up to `confirmations` blocks. *)
reorganise(block) ==
    /\ head < MaxBlock
    /\ isSent
    /\ txBlock = 0 \/ txBlock > head - confirmations
    /\ block = 0 \/ block \in (head - confirmations + 1) .. (head + 1)
    /\ head' = head + 1
    /\ txBlock' = block
    /\ UNCHANGED futureVars

chain ==
    \/ \E included \in BOOLEAN : mine(included)
    \/ \E block \in 0 .. MaxBlock : reorganise(block)
=============================================================================
