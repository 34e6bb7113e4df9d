------------------------------- MODULE Deploy -------------------------------
(***************************************************************************)
(* parity-bridge-deploy (deploy/src/main.rs, bridge/src/deploy.rs): it     *)
(* deploys MainBridge on main, then SideBridge on side, and only then      *)
(* writes the database the bridge processes start from.  An error or a     *)
(* crash ends it at any point and leaves the chains as they are; it can    *)
(* then be run again, and deploys two new contracts.                       *)
(***************************************************************************)
EXTENDS Integers

CONSTANTS mainConfirmations, sideConfirmations,     \* required_confirmations
          Radix,                                   \* of the numbers in the file
          MaxBlock                                 \* bound: blocks of each chain

ASSUME DeployAssumption ==
    /\ mainConfirmations \in Nat /\ sideConfirmations \in Nat /\ MaxBlock \in Nat
    /\ Radix \in Nat /\ Radix > 1

VARIABLES
    mHead, mTxBlock, mAfter, mState, mLastBlock, mBnState, mBnLast, mReceipt,
    sHead, sTxBlock, sAfter, sState, sLastBlock, sBnState, sBnLast, sReceipt,
    pc,                 \* "main", "side", "create", "write", "done" or "down"
    file                \* the database

mVars == <<mHead, mTxBlock, mAfter, mState, mLastBlock, mBnState, mBnLast, mReceipt>>
sVars == <<sHead, sTxBlock, sAfter, sState, sLastBlock, sBnState, sBnLast, sReceipt>>
deployVars == <<mVars, sVars, pc, file>>

DeployMain == INSTANCE SendTransaction WITH
    confirmations <- mainConfirmations,
    head <- mHead, txBlock <- mTxBlock, after <- mAfter, state <- mState,
    last_block <- mLastBlock, bnState <- mBnState, bnLast <- mBnLast, receipt <- mReceipt

DeploySide == INSTANCE SendTransaction WITH
    confirmations <- sideConfirmations,
    head <- sHead, txBlock <- sTxBlock, after <- sAfter, state <- sState,
    last_block <- sLastBlock, bnState <- sBnState, bnLast <- sBnLast, receipt <- sReceipt

Database == INSTANCE Database

DeployInit ==
    /\ DeployMain!Init /\ DeploySide!Init
    /\ pc = "main"
    /\ Database!Init

-----------------------------------------------------------------------------
deployMain ==
    /\ pc = "main"
    /\ DeployMain!new \/ DeployMain!poll
    /\ pc' = IF mState' = "Ready" THEN "side" ELSE pc
    /\ UNCHANGED <<sVars, file>>

deploySide ==
    /\ pc = "side"
    /\ DeploySide!new \/ DeploySide!poll
    /\ pc' = IF sState' = "Ready" THEN "create" ELSE pc
    /\ UNCHANGED <<mVars, file>>

(* Nothing of the process is left but what it did to the chains and the file. *)
finish(how) ==
    /\ pc' = how
    /\ DeployMain!forget /\ DeploySide!forget

(* fs::File::create *)
create ==
    /\ pc = "create"
    /\ Database!create
    /\ pc' = "write"
    /\ UNCHANGED <<mVars, sVars>>

from_transaction_receipts == Database!deployedAt(mReceipt, sReceipt)

write ==
    /\ pc = "write"
    /\ Database!write(from_transaction_receipts)
    /\ finish("done")

fail ==
    /\ pc \notin {"done", "down"}
    /\ finish("down")
    /\ UNCHANGED file

(***************************************************************************)
(* The operator runs it once more after a failure.  It knows nothing of    *)
(* the run before: a MainBridge that this one deployed is left behind.     *)
(***************************************************************************)
executeAgain ==
    /\ pc = "down"
    /\ pc' = "main"
    /\ DeployMain!startOver /\ DeploySide!startOver
    /\ UNCHANGED file

execute == deployMain \/ deploySide \/ create \/ write

chain ==
    \/ DeployMain!chain /\ UNCHANGED <<sVars, pc, file>>
    \/ DeploySide!chain /\ UNCHANGED <<mVars, pc, file>>

-----------------------------------------------------------------------------
(***************************************************************************)
(* The database names the blocks both contracts are in for good: no chain  *)
(* that replaces unconfirmed blocks, before or after the write, moves a    *)
(* contract out of the block from which bridge processes look for events.  *)
(* When deployments have failed before, both contracts are those of the    *)
(* run that wrote it, and not one of an earlier run.                       *)
(***************************************************************************)
DatabaseIsFinal ==
    Database!readable =>
        /\ mTxBlock > 0 /\ file.state.main_deployed_at_block = mTxBlock
        /\ sTxBlock > 0 /\ file.state.side_deployed_at_block = sTxBlock

(***************************************************************************)
(* A deployment transaction whose block is confirmed is noticed, and the   *)
(* deployment goes on, as soon as any block after the sending is confirmed *)
(* too: the wait for blocks starts early enough and ends at the right one. *)
(***************************************************************************)
DeploymentGoesOn ==
    /\ (/\ pc = "main" /\ mTxBlock > 0 /\ mTxBlock + mainConfirmations <= mHead
        /\ mAfter + mainConfirmations < mHead)
          ~> pc # "main"
    /\ (/\ pc = "side" /\ sTxBlock > 0 /\ sTxBlock + sideConfirmations <= sHead
        /\ sAfter + sideConfirmations < sHead)
          ~> pc \in {"done", "down"}
=============================================================================
