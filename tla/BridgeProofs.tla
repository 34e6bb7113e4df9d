---------------------------- MODULE BridgeProofs ----------------------------
(***************************************************************************)
(* Proofs about Bridge and the deployment beside it, for every number of   *)
(* confirmations, blocks and failures and every radix.                     *)
(***************************************************************************)
EXTENDS Bridge, FiniteSetTheorems, TLAPS

(* A receipt is given out for a block that no longer chain replaces, and   *)
(* asked for after a block that none replaces.                             *)
Settled(confirmations, head, txBlock, last_block, receipt) ==
    /\ head \in Nat /\ txBlock \in Nat /\ last_block \in Nat /\ receipt \in Nat
    /\ last_block = 0 \/ last_block + confirmations <= head
    /\ receipt # 0 => receipt = txBlock /\ receipt + confirmations <= head

MainSettled == Settled(mainConfirmations, mHead, mTxBlock, mLastBlock, mReceipt)
SideSettled == Settled(sideConfirmations, sHead, sTxBlock, sLastBlock, sReceipt)

(* Both receipts are there when they are needed. *)
ReceiptsAreThere ==
    /\ pc \in {"main", "side", "create", "write", "done", "down"}
    /\ pc \in {"side", "create", "write"} => mReceipt # 0
    /\ pc \in {"create", "write"} => sReceipt # 0

(* Once the database is written its text fills the file, and its contracts *)
(* are where it says for good; before, no bridge process can have started. *)
FileIsFinal ==
    IF pc = "done"
    THEN /\ file.state \in Database!State /\ file.size = Database!serialized(file.state)
         /\ file = [state |-> file.state, size |-> file.size]
         /\ file.state.main_deployed_at_block = mTxBlock
         /\ mTxBlock > 0 /\ mTxBlock + mainConfirmations <= mHead
         /\ file.state.side_deployed_at_block = sTxBlock
         /\ sTxBlock > 0 /\ sTxBlock + sideConfirmations <= sHead
    ELSE file \in {Database!Missing, Database!Empty} /\ at = Off

(* One state is another with numbers that may have grown. *)
NotBehind(before, now) ==
    /\ before.main_deployed_at_block = now.main_deployed_at_block
    /\ before.side_deployed_at_block = now.side_deployed_at_block
    /\ \A r \in Relay : before[field[r]] <= now[field[r]]

(* The process has the state of the file, but for what was yielded since. *)
StateIsCurrent ==
    /\ at \in Polling \cup {Off, "is_main_contract", "is_side_contract"}
    /\ at # Off => state \in Database!State /\ NotBehind(file.state, state)
    /\ at \in {"is_main_contract", "is_side_contract"} \cup Relay \cup {"update"} =>
          state = file.state
    /\ at \in Polling =>
          /\ last \in [Relay -> Nat]
          /\ maybe \in [Relay -> Nat \cup {Nothing}]
          /\ \A r \in Relay : state[field[r]] <= last[r]
          /\ \A r \in Relay : \/ maybe[r] = last[r]
                              \/ maybe[r] = Nothing /\ state[field[r]] = last[r]
          /\ at \in {"open", "write"} => maybe = nothing
    /\ at \notin Polling => maybe = nothing

(* The inductive invariant. *)
Inv ==
    /\ MainSettled /\ SideSettled /\ ReceiptsAreThere
    /\ FileIsFinal /\ StateIsCurrent

-----------------------------------------------------------------------------
(* The length of the text in the file. *)

LEMMA Digits ==
    ASSUME NEW m \in Nat, NEW n \in Nat, m <= n
    PROVE  /\ Database!digits(m) \in Nat /\ Database!digits(n) \in Nat
           /\ 0 < Database!digits(m) /\ Database!digits(m) <= Database!digits(n)
<1> DEFINE P(a) == {p \in 1 .. a : \E k \in 1 .. a : p = Radix ^ k}
<1>1. P(m) \subseteq P(n) /\ P(n) \subseteq 1 .. n
    <2>1. \A a \in 1 .. m : a \in 1 .. n
        OBVIOUS
    <2>2. P(m) \subseteq P(n)
        BY <2>1, Zenon
    <2> QED
        BY <2>2, Zenon
<1> HIDE DEF P
<1>2. IsFiniteSet(P(n))
    BY <1>1, FS_Interval, FS_Subset
<1>3. IsFiniteSet(P(m)) /\ Cardinality(P(m)) <= Cardinality(P(n))
    BY <1>1, <1>2, FS_Subset
<1>4. Cardinality(P(m)) \in Nat /\ Cardinality(P(n)) \in Nat
    BY <1>2, <1>3, FS_CardinalityType
<1>5. ASSUME NEW S PROVE Database!Cardinality(S) = Cardinality(S)
    BY DEF Database!Cardinality, Cardinality, Database!IsFiniteSet, IsFiniteSet
<1>6. /\ Database!digits(m) = 1 + Cardinality(P(m))
      /\ Database!digits(n) = 1 + Cardinality(P(n))
    BY <1>5, Zenon DEF Database!digits, P
<1> QED
    BY <1>3, <1>4, <1>6

(* A state that is not behind another has no shorter text. *)
LEMMA Serialized ==
    ASSUME NEW before \in Database!State, NEW now \in Database!State, NotBehind(before, now)
    PROVE  /\ Database!serialized(before) \in Nat /\ Database!serialized(now) \in Nat
           /\ 4 < Database!serialized(before)
           /\ Database!serialized(before) <= Database!serialized(now)
<1> DEFINE d(n) == Database!digits(n)
<1>1. /\ before.main_deployed_at_block \in Nat /\ before.side_deployed_at_block \in Nat
      /\ before.last_main_to_side_sign_at_block \in Nat
      /\ before.last_side_to_main_sign_at_block \in Nat
      /\ before.last_side_to_main_signatures_at_block \in Nat
    BY DEF Database!State
<1>2. /\ now.main_deployed_at_block \in Nat /\ now.side_deployed_at_block \in Nat
      /\ now.last_main_to_side_sign_at_block \in Nat
      /\ now.last_side_to_main_sign_at_block \in Nat
      /\ now.last_side_to_main_signatures_at_block \in Nat
    BY DEF Database!State
<1>3. /\ before.main_deployed_at_block = now.main_deployed_at_block
      /\ before.side_deployed_at_block = now.side_deployed_at_block
      /\ before.last_main_to_side_sign_at_block <= now.last_main_to_side_sign_at_block
      /\ before.last_side_to_main_sign_at_block <= now.last_side_to_main_sign_at_block
      /\ before.last_side_to_main_signatures_at_block
            <= now.last_side_to_main_signatures_at_block
    BY DEF NotBehind, Relay, field
<1>4. \A m, n \in Nat : m <= n => d(m) \in Nat /\ d(n) \in Nat /\ 0 < d(m) /\ d(m) <= d(n)
    BY Digits
<1> HIDE DEF d
<1>5. /\ d(before.main_deployed_at_block) \in Nat /\ 0 < d(before.main_deployed_at_block)
      /\ d(before.side_deployed_at_block) \in Nat /\ 0 < d(before.side_deployed_at_block)
    BY <1>1, <1>4
<1>6. ASSUME NEW m \in Nat, NEW n \in Nat, m <= n
      PROVE  d(m) \in Nat /\ d(n) \in Nat /\ 0 < d(m) /\ d(m) <= d(n)
    BY <1>4, <1>6
<1>7. /\ d(before.last_main_to_side_sign_at_block) \in Nat
      /\ d(now.last_main_to_side_sign_at_block) \in Nat
      /\ 0 < d(before.last_main_to_side_sign_at_block)
      /\ d(before.last_main_to_side_sign_at_block) <= d(now.last_main_to_side_sign_at_block)
    BY <1>1, <1>2, <1>3, <1>6
<1>8. /\ d(before.last_side_to_main_sign_at_block) \in Nat
      /\ d(now.last_side_to_main_sign_at_block) \in Nat
      /\ 0 < d(before.last_side_to_main_sign_at_block)
      /\ d(before.last_side_to_main_sign_at_block) <= d(now.last_side_to_main_sign_at_block)
    BY <1>1, <1>2, <1>3, <1>6
<1>9. /\ d(before.last_side_to_main_signatures_at_block) \in Nat
      /\ d(now.last_side_to_main_signatures_at_block) \in Nat
      /\ 0 < d(before.last_side_to_main_signatures_at_block)
      /\ d(before.last_side_to_main_signatures_at_block)
            <= d(now.last_side_to_main_signatures_at_block)
    BY <1>1, <1>2, <1>3, <1>6
<1>10. /\ Database!serialized(before) =
             d(before.main_deployed_at_block) + d(before.side_deployed_at_block)
             + d(before.last_main_to_side_sign_at_block)
             + d(before.last_side_to_main_sign_at_block)
             + d(before.last_side_to_main_signatures_at_block)
       /\ Database!serialized(now) =
             d(before.main_deployed_at_block) + d(before.side_deployed_at_block)
             + d(now.last_main_to_side_sign_at_block)
             + d(now.last_side_to_main_sign_at_block)
             + d(now.last_side_to_main_signatures_at_block)
    BY <1>3 DEF Database!serialized, d
<1> QED
    BY <1>5, <1>7, <1>8, <1>9, <1>10

LEMMA MaxOfTwo ==
    ASSUME NEW a \in Int, NEW b \in Int, b <= a
    PROVE  Database!Max({a, b}) = a
<1>1. \A x \in {a, b} : (\A y \in {a, b} : x >= y) <=> x = a
    OBVIOUS
<1> QED
    BY <1>1 DEF Database!Max

LEMMA StateTypes ==
    /\ Database!NoState \in Database!State
    /\ \A m, n \in Nat : Database!deployedAt(m, n) \in Database!State
BY DEF Database!NoState, Database!deployedAt, Database!State

LEMMA SerializedType ==
    ASSUME NEW s \in Database!State
    PROVE  Database!serialized(s) \in Nat /\ 4 < Database!serialized(s)
<1>1. NotBehind(s, s)
    BY DEF NotBehind, Relay, field, Database!State
<1> QED
    BY <1>1, Serialized

(* A file without a text cannot be read. *)
LEMMA NotReadable ==
    ASSUME file \in {Database!Missing, Database!Empty}
    PROVE  ~Database!readable
<1>1. file.state = Database!NoState /\ file.size \in {-1, 0}
    BY DEF Database!Missing, Database!Empty
<1>2. Database!serialized(file.state) \in Nat /\ 4 < Database!serialized(file.state)
    BY <1>1, StateTypes, SerializedType
<1> QED
    BY <1>1, <1>2 DEF Database!readable

(* The text of a state that is not behind fills the file. *)
LEMMA WrittenFile ==
    ASSUME NEW now \in Database!State, Database!write(now),
           file.size \in Int, file.size <= Database!serialized(now)
    PROVE  file' = [state |-> now, size |-> Database!serialized(now)]
<1>1. Database!serialized(now) \in Nat
    BY SerializedType
<1> QED
    BY <1>1, MaxOfTwo DEF Database!write

(* When the process of a bridge can have started. *)
LEMMA Readable ==
    ASSUME FileIsFinal
    PROVE  Database!readable <=> pc = "done"
<1>1. ASSUME pc = "done" PROVE Database!readable
    <2>1. file.size = Database!serialized(file.state) /\ Database!serialized(file.state) \in Nat
        BY <1>1, SerializedType DEF FileIsFinal
    <2> QED
        BY <2>1 DEF Database!readable
<1> QED
    BY <1>1, NotReadable DEF FileIsFinal

-----------------------------------------------------------------------------
(* A future of the deployment on main and the chain under it. *)
LEMMA MainPollSettled ==
    ASSUME MainSettled, DeployMain!new \/ DeployMain!poll
    PROVE  /\ MainSettled' /\ UNCHANGED <<mHead, mTxBlock>>
           /\ mState' = "Ready" => mReceipt' # 0
<1>1. /\ mHead \in Nat /\ mTxBlock \in Nat /\ mLastBlock \in Nat /\ mReceipt \in Nat
      /\ mainConfirmations \in Nat
    BY DeployAssumption DEF MainSettled, Settled
<1>2. ASSUME UNCHANGED <<mHead, mTxBlock, mLastBlock, mReceipt>>, mState' # "Ready"
      PROVE  /\ MainSettled' /\ UNCHANGED <<mHead, mTxBlock>>
             /\ mState' = "Ready" => mReceipt' # 0
    BY <1>2 DEF MainSettled, Settled
<1>3. CASE DeployMain!new \/ DeployMain!pollLastBlock \/ DeployMain!pollSendTransaction
    BY <1>2, <1>3 DEF DeployMain!new, DeployMain!pollLastBlock, DeployMain!pollSendTransaction,
        DeployMain!chainVars
<1>4. CASE DeployMain!pollBlockNumber
    <2>1. /\ UNCHANGED <<mHead, mTxBlock, mReceipt>>
          /\ mState' # "Ready"
          /\ \/ UNCHANGED mLastBlock
             \/ mLastBlock' = IF mHead > mainConfirmations
                               THEN mHead - mainConfirmations ELSE 0
        BY <1>4 DEF DeployMain!pollBlockNumber, DeployMain!chainVars,
            DeployMain!BlockNumbers!pollNewBlock, DeployMain!BlockNumbers!last_confirmed_block,
            DeployMain!BlockNumbers!saturating_sub
    <2>2. /\ mLastBlock' \in Nat
          /\ mLastBlock' = 0 \/ mLastBlock' + mainConfirmations <= mHead
        BY <1>1, <2>1 DEF MainSettled, Settled
    <2> QED
        BY <2>1, <2>2 DEF MainSettled, Settled
<1>5. CASE DeployMain!pollTransactionReceipt
    <2>1. /\ UNCHANGED <<mHead, mTxBlock, mLastBlock>>
          /\ \/ /\ mTxBlock > 0 /\ mLastBlock >= mTxBlock
                /\ mReceipt' = mTxBlock
             \/ mState' # "Ready" /\ UNCHANGED mReceipt
        BY <1>5 DEF DeployMain!pollTransactionReceipt, DeployMain!chainVars,
            DeployMain!hasConfirmations
    <2>2. CASE UNCHANGED mReceipt /\ mState' # "Ready"
        BY <1>2, <2>1, <2>2
    <2>3. CASE mTxBlock > 0 /\ mLastBlock >= mTxBlock /\ mReceipt' = mTxBlock
        <3>1. mLastBlock + mainConfirmations <= mHead
            BY <1>1, <2>3 DEF MainSettled, Settled
        <3>2. mTxBlock + mainConfirmations <= mHead
            BY <1>1, <2>3, <3>1
        <3> QED
            BY <1>1, <2>1, <2>3, <3>1, <3>2 DEF MainSettled, Settled
    <2> QED
        BY <2>1, <2>2, <2>3
<1> QED
    BY <1>3, <1>4, <1>5 DEF DeployMain!poll

LEMMA MainForgetSettled ==
    ASSUME MainSettled, DeployMain!forget
    PROVE  MainSettled' /\ UNCHANGED <<mHead, mTxBlock>>
BY DEF MainSettled, Settled, DeployMain!forget, DeployMain!chainVars

LEMMA MainStartOverSettled ==
    ASSUME MainSettled, DeployMain!startOver
    PROVE  MainSettled' /\ UNCHANGED mHead
BY DEF MainSettled, Settled, DeployMain!startOver

LEMMA MainChainSettled ==
    ASSUME MainSettled, DeployMain!chain
    PROVE  /\ MainSettled' /\ UNCHANGED mReceipt /\ mHead' > mHead
           /\ mTxBlock > 0 /\ mTxBlock + mainConfirmations <= mHead =>
                 mTxBlock' = mTxBlock
<1>1. /\ mHead \in Nat /\ mTxBlock \in Nat /\ mLastBlock \in Nat /\ mReceipt \in Nat
      /\ mainConfirmations \in Nat
    BY DeployAssumption DEF MainSettled, Settled
<1>2. /\ mHead' = mHead + 1 /\ mTxBlock' \in Nat
      /\ UNCHANGED <<mLastBlock, mReceipt>>
      /\ \/ UNCHANGED mTxBlock
         \/ mTxBlock = 0
         \/ mTxBlock > mHead - mainConfirmations
    BY <1>1, DeployAssumption DEF DeployMain!chain, DeployMain!mine, DeployMain!reorganise,
        DeployMain!futureVars
<1>3. mTxBlock > 0 /\ mTxBlock + mainConfirmations <= mHead => mTxBlock' = mTxBlock
    BY <1>1, <1>2
<1>4. mReceipt # 0 => mReceipt = mTxBlock /\ mTxBlock + mainConfirmations <= mHead
    BY DEF MainSettled, Settled
<1>5. mReceipt' # 0 =>
         mReceipt' = mTxBlock' /\ mReceipt' + mainConfirmations <= mHead'
    BY <1>1, <1>2, <1>3, <1>4
<1>6. mLastBlock' = 0 \/ mLastBlock' + mainConfirmations <= mHead'
    BY <1>1, <1>2 DEF MainSettled, Settled
<1> QED
    BY <1>1, <1>2, <1>3, <1>5, <1>6 DEF MainSettled, Settled

(* A future of the deployment on side and the chain under it. *)
LEMMA SidePollSettled ==
    ASSUME SideSettled, DeploySide!new \/ DeploySide!poll
    PROVE  /\ SideSettled' /\ UNCHANGED <<sHead, sTxBlock>>
           /\ sState' = "Ready" => sReceipt' # 0
<1>1. /\ sHead \in Nat /\ sTxBlock \in Nat /\ sLastBlock \in Nat /\ sReceipt \in Nat
      /\ sideConfirmations \in Nat
    BY DeployAssumption DEF SideSettled, Settled
<1>2. ASSUME UNCHANGED <<sHead, sTxBlock, sLastBlock, sReceipt>>, sState' # "Ready"
      PROVE  /\ SideSettled' /\ UNCHANGED <<sHead, sTxBlock>>
             /\ sState' = "Ready" => sReceipt' # 0
    BY <1>2 DEF SideSettled, Settled
<1>3. CASE DeploySide!new \/ DeploySide!pollLastBlock \/ DeploySide!pollSendTransaction
    BY <1>2, <1>3 DEF DeploySide!new, DeploySide!pollLastBlock, DeploySide!pollSendTransaction,
        DeploySide!chainVars
<1>4. CASE DeploySide!pollBlockNumber
    <2>1. /\ UNCHANGED <<sHead, sTxBlock, sReceipt>>
          /\ sState' # "Ready"
          /\ \/ UNCHANGED sLastBlock
             \/ sLastBlock' = IF sHead > sideConfirmations
                               THEN sHead - sideConfirmations ELSE 0
        BY <1>4 DEF DeploySide!pollBlockNumber, DeploySide!chainVars,
            DeploySide!BlockNumbers!pollNewBlock, DeploySide!BlockNumbers!last_confirmed_block,
            DeploySide!BlockNumbers!saturating_sub
    <2>2. /\ sLastBlock' \in Nat
          /\ sLastBlock' = 0 \/ sLastBlock' + sideConfirmations <= sHead
        BY <1>1, <2>1 DEF SideSettled, Settled
    <2> QED
        BY <2>1, <2>2 DEF SideSettled, Settled
<1>5. CASE DeploySide!pollTransactionReceipt
    <2>1. /\ UNCHANGED <<sHead, sTxBlock, sLastBlock>>
          /\ \/ /\ sTxBlock > 0 /\ sLastBlock >= sTxBlock
                /\ sReceipt' = sTxBlock
             \/ sState' # "Ready" /\ UNCHANGED sReceipt
        BY <1>5 DEF DeploySide!pollTransactionReceipt, DeploySide!chainVars,
            DeploySide!hasConfirmations
    <2>2. CASE UNCHANGED sReceipt /\ sState' # "Ready"
        BY <1>2, <2>1, <2>2
    <2>3. CASE sTxBlock > 0 /\ sLastBlock >= sTxBlock /\ sReceipt' = sTxBlock
        <3>1. sLastBlock + sideConfirmations <= sHead
            BY <1>1, <2>3 DEF SideSettled, Settled
        <3>2. sTxBlock + sideConfirmations <= sHead
            BY <1>1, <2>3, <3>1
        <3> QED
            BY <1>1, <2>1, <2>3, <3>1, <3>2 DEF SideSettled, Settled
    <2> QED
        BY <2>1, <2>2, <2>3
<1> QED
    BY <1>3, <1>4, <1>5 DEF DeploySide!poll

LEMMA SideForgetSettled ==
    ASSUME SideSettled, DeploySide!forget
    PROVE  SideSettled' /\ UNCHANGED <<sHead, sTxBlock>>
BY DEF SideSettled, Settled, DeploySide!forget, DeploySide!chainVars

LEMMA SideStartOverSettled ==
    ASSUME SideSettled, DeploySide!startOver
    PROVE  SideSettled' /\ UNCHANGED sHead
BY DEF SideSettled, Settled, DeploySide!startOver

LEMMA SideChainSettled ==
    ASSUME SideSettled, DeploySide!chain
    PROVE  /\ SideSettled' /\ UNCHANGED sReceipt /\ sHead' > sHead
           /\ sTxBlock > 0 /\ sTxBlock + sideConfirmations <= sHead =>
                 sTxBlock' = sTxBlock
<1>1. /\ sHead \in Nat /\ sTxBlock \in Nat /\ sLastBlock \in Nat /\ sReceipt \in Nat
      /\ sideConfirmations \in Nat
    BY DeployAssumption DEF SideSettled, Settled
<1>2. /\ sHead' = sHead + 1 /\ sTxBlock' \in Nat
      /\ UNCHANGED <<sLastBlock, sReceipt>>
      /\ \/ UNCHANGED sTxBlock
         \/ sTxBlock = 0
         \/ sTxBlock > sHead - sideConfirmations
    BY <1>1, DeployAssumption DEF DeploySide!chain, DeploySide!mine, DeploySide!reorganise,
        DeploySide!futureVars
<1>3. sTxBlock > 0 /\ sTxBlock + sideConfirmations <= sHead => sTxBlock' = sTxBlock
    BY <1>1, <1>2
<1>4. sReceipt # 0 => sReceipt = sTxBlock /\ sTxBlock + sideConfirmations <= sHead
    BY DEF SideSettled, Settled
<1>5. sReceipt' # 0 =>
         sReceipt' = sTxBlock' /\ sReceipt' + sideConfirmations <= sHead'
    BY <1>1, <1>2, <1>3, <1>4
<1>6. sLastBlock' = 0 \/ sLastBlock' + sideConfirmations <= sHead'
    BY <1>1, <1>2 DEF SideSettled, Settled
<1> QED
    BY <1>1, <1>2, <1>3, <1>5, <1>6 DEF SideSettled, Settled

-----------------------------------------------------------------------------
LEMMA InitInv == Init => Inv
<1> SUFFICES ASSUME Init PROVE Inv
    OBVIOUS
<1>1. MainSettled /\ SideSettled
    BY DEF Init, DeployInit, DeployMain!Init, DeploySide!Init, MainSettled, SideSettled, Settled
<1>2. ReceiptsAreThere /\ FileIsFinal
    BY DEF Init, DeployInit, NotRunning, ReceiptsAreThere, FileIsFinal, Database!Init
<1>3. StateIsCurrent
    BY DEF Init, NotRunning, StateIsCurrent, Off, Polling, Relay
<1> QED
    BY <1>1, <1>2, <1>3 DEF Inv

(* The deployment does not disturb a bridge process. *)
LEMMA StateKept ==
    ASSUME StateIsCurrent, UNCHANGED bridgeVars, at = Off \/ UNCHANGED file
    PROVE  StateIsCurrent'
<1>1. UNCHANGED <<at, state, last, maybe>>
    BY DEF bridgeVars
<1>2. CASE UNCHANGED file
    BY <1>1, <1>2 DEF StateIsCurrent, NotBehind
<1>3. CASE at = Off
    <2>1. at \notin {"is_main_contract", "is_side_contract"} \cup Relay \cup {"update"}
          /\ at \notin Polling
        BY <1>3 DEF Off, Relay, Polling
    <2> QED
        BY <1>1, <1>3, <2>1 DEF StateIsCurrent
<1> QED
    BY <1>2, <1>3

LEMMA DeployInv == ASSUME Inv, DeployNext PROVE Inv'
<1>1. /\ UNCHANGED bridgeVars /\ UNCHANGED at
      /\ MainSettled /\ SideSettled /\ ReceiptsAreThere /\ FileIsFinal /\ StateIsCurrent
    BY DEF Inv, DeployNext, bridgeVars
<1>2. pc # "done" => at = Off /\ file \in {Database!Missing, Database!Empty}
    BY <1>1 DEF FileIsFinal
<1>3. ASSUME UNCHANGED sVars PROVE SideSettled' /\ UNCHANGED <<sHead, sTxBlock, sReceipt>>
    BY <1>1, <1>3 DEF sVars, SideSettled, Settled
<1>4. ASSUME UNCHANGED mVars PROVE MainSettled' /\ UNCHANGED <<mHead, mTxBlock, mReceipt>>
    BY <1>1, <1>4 DEF mVars, MainSettled, Settled
<1>5. CASE deployMain
    <2>1. /\ pc = "main" /\ (DeployMain!new \/ DeployMain!poll)
          /\ pc' = IF mState' = "Ready" THEN "side" ELSE pc
          /\ UNCHANGED sVars /\ UNCHANGED file
        BY <1>5 DEF deployMain
    <2>2. MainSettled' /\ (mState' = "Ready" => mReceipt' # 0)
        BY <1>1, <2>1, MainPollSettled
    <2>3. pc' = "main" \/ (pc' = "side" /\ mReceipt' # 0)
        BY <2>1, <2>2
    <2>4. ReceiptsAreThere' /\ FileIsFinal'
        BY <1>1, <1>2, <2>1, <2>3 DEF ReceiptsAreThere, FileIsFinal
    <2> QED
        BY <1>1, <1>3, <2>1, <2>2, <2>4, StateKept DEF Inv
<1>6. CASE deploySide
    <2>1. /\ pc = "side" /\ (DeploySide!new \/ DeploySide!poll)
          /\ pc' = IF sState' = "Ready" THEN "create" ELSE pc
          /\ UNCHANGED mVars /\ UNCHANGED file
        BY <1>6 DEF deploySide
    <2>2. SideSettled' /\ (sState' = "Ready" => sReceipt' # 0)
        BY <1>1, <2>1, SidePollSettled
    <2>3. pc' = "side" \/ (pc' = "create" /\ sReceipt' # 0)
        BY <2>1, <2>2
    <2>4. ReceiptsAreThere' /\ FileIsFinal'
        BY <1>1, <1>2, <1>4, <2>1, <2>3 DEF ReceiptsAreThere, FileIsFinal
    <2> QED
        BY <1>1, <1>4, <2>1, <2>2, <2>4, StateKept DEF Inv
<1>7. CASE create
    <2>1. pc = "create" /\ pc' = "write" /\ file' = Database!Empty
          /\ UNCHANGED mVars /\ UNCHANGED sVars
        BY <1>7 DEF create, Database!create
    <2>2. ReceiptsAreThere' /\ FileIsFinal'
        BY <1>1, <1>2, <1>3, <1>4, <2>1 DEF ReceiptsAreThere, FileIsFinal, Database!Empty,
            Database!Missing
    <2> QED
        BY <1>1, <1>2, <1>3, <1>4, <2>1, <2>2, StateKept DEF Inv
<1>8. CASE write
    <2> DEFINE now == Database!deployedAt(mReceipt, sReceipt)
    <2>1. /\ pc = "write" /\ pc' = "done" /\ Database!write(now)
          /\ DeployMain!forget /\ DeploySide!forget
        BY <1>8 DEF write, finish, from_transaction_receipts
    <2>2. /\ MainSettled' /\ UNCHANGED <<mHead, mTxBlock>>
          /\ SideSettled' /\ UNCHANGED <<sHead, sTxBlock>>
        BY <1>1, <2>1, MainForgetSettled, SideForgetSettled
    <2>3. /\ mReceipt = mTxBlock /\ mTxBlock > 0 /\ mTxBlock + mainConfirmations <= mHead
          /\ sReceipt = sTxBlock /\ sTxBlock > 0 /\ sTxBlock + sideConfirmations <= sHead
          /\ mReceipt \in Nat /\ sReceipt \in Nat
        BY <1>1, <2>1 DEF ReceiptsAreThere, MainSettled, SideSettled, Settled
    <2>4. now \in Database!State /\ now.main_deployed_at_block = mReceipt
          /\ now.side_deployed_at_block = sReceipt
        BY <2>3, StateTypes DEF Database!deployedAt
    <2> HIDE DEF now
    <2>5. file.size \in Int /\ file.size <= 0
        BY <1>2, <2>1 DEF Database!Missing, Database!Empty
    <2>6. Database!serialized(now) \in Nat
        BY <2>4, SerializedType
    <2>7. file' = [state |-> now, size |-> Database!serialized(now)]
        BY <2>1, <2>4, <2>5, <2>6, WrittenFile
    <2>8. FileIsFinal'
        BY <2>1, <2>2, <2>3, <2>4, <2>7 DEF FileIsFinal, Database!serialized, Database!digits
    <2>9. ReceiptsAreThere'
        BY <2>1 DEF ReceiptsAreThere
    <2> QED
        BY <1>1, <1>2, <2>1, <2>2, <2>8, <2>9, StateKept DEF Inv
<1>9. CASE fail
    <2>1. /\ pc # "done" /\ pc' = "down" /\ DeployMain!forget /\ DeploySide!forget
          /\ UNCHANGED file
        BY <1>9 DEF fail, finish
    <2>2. MainSettled' /\ SideSettled'
        BY <1>1, <2>1, MainForgetSettled, SideForgetSettled
    <2>3. ReceiptsAreThere' /\ FileIsFinal'
        BY <1>1, <1>2, <2>1 DEF ReceiptsAreThere, FileIsFinal
    <2> QED
        BY <1>1, <2>1, <2>2, <2>3, StateKept DEF Inv
<1>10. CASE DeployMain!chain /\ UNCHANGED <<sVars, pc, file>>
    <2>1. /\ MainSettled' /\ UNCHANGED mReceipt /\ mHead' > mHead
          /\ mTxBlock > 0 /\ mTxBlock + mainConfirmations <= mHead => mTxBlock' = mTxBlock
        BY <1>1, <1>10, MainChainSettled
    <2>2. ReceiptsAreThere'
        BY <1>1, <1>3, <1>10, <2>1 DEF ReceiptsAreThere
    <2>3. mHead \in Nat /\ mHead' \in Nat /\ mTxBlock \in Nat /\ mainConfirmations \in Nat
        BY <1>1, <2>1, DeployAssumption DEF MainSettled, Settled
    <2>4. FileIsFinal'
        BY <1>1, <1>3, <1>10, <2>1, <2>3 DEF FileIsFinal
    <2> QED
        BY <1>1, <1>3, <1>10, <2>1, <2>2, <2>4, StateKept DEF Inv
<1>11. CASE DeploySide!chain /\ UNCHANGED <<mVars, pc, file>>
    <2>1. /\ SideSettled' /\ UNCHANGED sReceipt /\ sHead' > sHead
          /\ sTxBlock > 0 /\ sTxBlock + sideConfirmations <= sHead => sTxBlock' = sTxBlock
        BY <1>1, <1>11, SideChainSettled
    <2>2. ReceiptsAreThere'
        BY <1>1, <1>4, <1>11, <2>1 DEF ReceiptsAreThere
    <2>3. sHead \in Nat /\ sHead' \in Nat /\ sTxBlock \in Nat /\ sideConfirmations \in Nat
        BY <1>1, <2>1, DeployAssumption DEF SideSettled, Settled
    <2>4. FileIsFinal'
        BY <1>1, <1>4, <1>11, <2>1, <2>3 DEF FileIsFinal
    <2> QED
        BY <1>1, <1>4, <1>11, <2>1, <2>2, <2>4, StateKept DEF Inv
<1>12. CASE executeAgain
    <2>1. /\ pc = "down" /\ pc' = "main" /\ DeployMain!startOver /\ DeploySide!startOver
          /\ UNCHANGED file
        BY <1>12 DEF executeAgain
    <2>2. MainSettled' /\ SideSettled'
        BY <1>1, <2>1, MainStartOverSettled, SideStartOverSettled
    <2>3. ReceiptsAreThere' /\ FileIsFinal'
        BY <1>1, <1>2, <2>1 DEF ReceiptsAreThere, FileIsFinal
    <2> QED
        BY <1>1, <2>1, <2>2, <2>3, StateKept DEF Inv
<1> QED
    BY <1>5, <1>6, <1>7, <1>8, <1>9, <1>10, <1>11, <1>12 DEF DeployNext, execute, chain

-----------------------------------------------------------------------------
(* The state of the process. *)

LEMMA SameState ==
    ASSUME NEW before \in Database!State, NEW now \in Database!State,
           before.main_deployed_at_block = now.main_deployed_at_block,
           before.side_deployed_at_block = now.side_deployed_at_block,
           \A r \in Relay : before[field[r]] = now[field[r]]
    PROVE  before = now
<1>1. /\ before.last_main_to_side_sign_at_block = now.last_main_to_side_sign_at_block
      /\ before.last_side_to_main_sign_at_block = now.last_side_to_main_sign_at_block
      /\ before.last_side_to_main_signatures_at_block
            = now.last_side_to_main_signatures_at_block
    BY DEF Relay, field
<1> QED
    BY <1>1 DEF Database!State

LEMMA FieldType ==
    ASSUME NEW s \in Database!State, NEW r \in Relay
    PROVE  s[field[r]] \in Nat
BY DEF Database!State, Relay, field

(* What the relays have yielded gets into their own fields. *)
LEMMA Updated ==
    ASSUME state \in Database!State, maybe \in [Relay -> Nat \cup {Nothing}]
    PROVE  /\ updated \in Database!State
           /\ updated.main_deployed_at_block = state.main_deployed_at_block
           /\ updated.side_deployed_at_block = state.side_deployed_at_block
           /\ \A r \in Relay :
                 updated[field[r]] = IF maybe[r] = Nothing THEN state[field[r]] ELSE maybe[r]
<1>1. /\ maybe["main_to_side_sign"] \in Nat \cup {Nothing}
      /\ maybe["side_to_main_sign"] \in Nat \cup {Nothing}
      /\ maybe["side_to_main_signatures"] \in Nat \cup {Nothing}
    BY DEF Relay
<1> DEFINE taken(r) == IF maybe[r] = Nothing THEN state[field[r]] ELSE maybe[r]
<1>2. updated = [state EXCEPT
                    !.last_main_to_side_sign_at_block = taken("main_to_side_sign"),
                    !.last_side_to_main_sign_at_block = taken("side_to_main_sign"),
                    !.last_side_to_main_signatures_at_block = taken("side_to_main_signatures")]
    BY DEF updated, field
<1>3. /\ taken("main_to_side_sign") \in Nat /\ taken("side_to_main_sign") \in Nat
      /\ taken("side_to_main_signatures") \in Nat
    BY <1>1, FieldType DEF Relay
<1> HIDE DEF taken
<1>4. updated \in Database!State
    BY <1>2, <1>3 DEF Database!State
<1>5. /\ updated.main_deployed_at_block = state.main_deployed_at_block
      /\ updated.side_deployed_at_block = state.side_deployed_at_block
      /\ updated.last_main_to_side_sign_at_block = taken("main_to_side_sign")
      /\ updated.last_side_to_main_sign_at_block = taken("side_to_main_sign")
      /\ updated.last_side_to_main_signatures_at_block = taken("side_to_main_signatures")
    BY <1>2 DEF Database!State
<1>6. \A r \in Relay : updated[field[r]] = taken(r)
    BY <1>5 DEF Relay, field
<1> QED
    BY <1>4, <1>5, <1>6 DEF taken

LEMMA EndCurrent == ASSUME at' = Off, maybe' = nothing PROVE StateIsCurrent'
<1>1. at' \notin {"is_main_contract", "is_side_contract"} \cup Relay \cup {"update"}
      /\ at' \notin Polling
    BY DEF Off, Relay, Polling
<1> QED
    BY <1>1 DEF StateIsCurrent

(* A process that is in step with the file. *)
LEMMA InStep ==
    ASSUME StateIsCurrent, FileIsFinal, at # Off
    PROVE  /\ pc = "done" /\ file.state \in Database!State
           /\ state \in Database!State /\ NotBehind(file.state, state)
BY DEF StateIsCurrent, FileIsFinal

LEMMA NotBehindItself == ASSUME NEW s \in Database!State PROVE NotBehind(s, s)
BY DEF NotBehind, Relay, field, Database!State

LEMMA PollRelayCurrent ==
    ASSUME StateIsCurrent, FileIsFinal, NEW r \in Relay, pollRelay(r)
    PROVE  StateIsCurrent'
<1>1. /\ at = r /\ UNCHANGED file /\ UNCHANGED state
      /\ at' \in Relay \cup {"update"} /\ at' # Off
    BY DEF pollRelay, notReady, after, Relay, Off
<1>2. /\ at \in Polling /\ at # Off /\ at' \in Polling /\ at' \notin {"open", "write"}
    BY <1>1 DEF Polling, Relay, Off
<1>3. /\ state \in Database!State /\ NotBehind(file.state, state) /\ state = file.state
      /\ last \in [Relay -> Nat] /\ maybe \in [Relay -> Nat \cup {Nothing}]
      /\ \A q \in Relay : state[field[q]] <= last[q]
      /\ \A q \in Relay : \/ maybe[q] = last[q]
                          \/ maybe[q] = Nothing /\ state[field[q]] = last[q]
    BY <1>1, <1>2 DEF StateIsCurrent
<1>4. \A q \in Relay : state[field[q]] \in Nat
    BY <1>3, FieldType
<1>5. /\ last' \in [Relay -> Nat] /\ maybe' \in [Relay -> Nat \cup {Nothing}]
      /\ \A q \in Relay : state[field[q]] <= last'[q]
      /\ \A q \in Relay : \/ maybe'[q] = last'[q]
                          \/ maybe'[q] = Nothing /\ state[field[q]] = last'[q]
    <2>1. CASE UNCHANGED maybe /\ UNCHANGED last
        BY <1>3, <2>1
    <2>2. CASE \E block \in last[r] .. confirmed(r) :
                  /\ last' = [last EXCEPT ![r] = block]
                  /\ maybe' = [maybe EXCEPT ![r] = block]
        <3>1. PICK block \in last[r] .. confirmed(r) :
                  /\ last' = [last EXCEPT ![r] = block]
                  /\ maybe' = [maybe EXCEPT ![r] = block]
            BY <2>2
        <3>2. last[r] \in Nat /\ block \in Nat /\ last[r] <= block
            BY <1>3, <3>1
        <3> QED
            BY <1>3, <1>4, <3>1, <3>2
    <2> QED
        BY <2>1, <2>2 DEF pollRelay, notReady
<1> QED
    BY <1>1, <1>2, <1>3, <1>5 DEF StateIsCurrent

LEMMA UpdateCurrent ==
    ASSUME StateIsCurrent, FileIsFinal, update
    PROVE  StateIsCurrent' /\ UNCHANGED file
<1>1. /\ at = "update" /\ state' = updated /\ maybe' = nothing
      /\ at' = IF maybe = nothing THEN "main_to_side_sign" ELSE "open"
      /\ UNCHANGED file /\ UNCHANGED last
    BY DEF update
<1>2. /\ state \in Database!State /\ NotBehind(file.state, state) /\ state = file.state
      /\ last \in [Relay -> Nat] /\ maybe \in [Relay -> Nat \cup {Nothing}]
      /\ \A q \in Relay : state[field[q]] <= last[q]
      /\ \A q \in Relay : \/ maybe[q] = last[q]
                          \/ maybe[q] = Nothing /\ state[field[q]] = last[q]
    BY <1>1 DEF StateIsCurrent, Polling, Relay, Off
<1>3. /\ updated \in Database!State
      /\ updated.main_deployed_at_block = state.main_deployed_at_block
      /\ updated.side_deployed_at_block = state.side_deployed_at_block
      /\ \A q \in Relay :
            updated[field[q]] = IF maybe[q] = Nothing THEN state[field[q]] ELSE maybe[q]
    BY <1>2, Updated
<1>4. \A q \in Relay : last[q] \in Nat /\ last[q] # Nothing /\ state[field[q]] \in Nat
    BY <1>2, FieldType DEF Nothing
<1>5. \A q \in Relay : updated[field[q]] = last[q]
    BY <1>2, <1>3, <1>4
<1>6. NotBehind(file.state, updated)
    BY <1>2, <1>3, <1>5 DEF NotBehind
<1>7. maybe = nothing => updated = state
    BY <1>2, <1>3, SameState DEF nothing
<1>8. at' \in {"main_to_side_sign", "open"} /\ (at' = "main_to_side_sign" => updated = state)
    BY <1>1, <1>7
<1>9. /\ maybe' \in [Relay -> Nat \cup {Nothing}]
      /\ \A q \in Relay : maybe'[q] = Nothing
    BY <1>1 DEF nothing
<1> QED
    BY <1>1, <1>2, <1>3, <1>4, <1>5, <1>6, <1>8, <1>9 DEF StateIsCurrent, Polling, Relay, Off

LEMMA StartCurrent ==
    ASSUME StateIsCurrent, FileIsFinal, start
    PROVE  StateIsCurrent' /\ UNCHANGED file
<1>1. /\ at = Off /\ Database!readable /\ state' = file.state /\ at' = "is_main_contract"
      /\ UNCHANGED file /\ UNCHANGED maybe
    BY DEF start
<1>2. file.state \in Database!State /\ NotBehind(file.state, file.state)
    BY <1>1, Readable, NotBehindItself DEF FileIsFinal
<1>3. maybe = nothing
    BY <1>1 DEF StateIsCurrent, Polling, Relay, Off
<1> QED
    BY <1>1, <1>2, <1>3 DEF StateIsCurrent, Polling, Relay, Off

LEMMA ContractsCurrent ==
    ASSUME StateIsCurrent, FileIsFinal, is_main_contract \/ is_side_contract
    PROVE  StateIsCurrent' /\ UNCHANGED file
<1>1. /\ at \in {"is_main_contract", "is_side_contract"} /\ UNCHANGED file
    BY DEF is_main_contract, is_side_contract
<1>2. /\ state \in Database!State /\ NotBehind(file.state, state) /\ state = file.state
      /\ maybe = nothing
    BY <1>1 DEF StateIsCurrent, Polling, Relay, Off
<1>3. CASE end
    BY <1>1, <1>3, EndCurrent DEF end
<1>4. CASE at' = "is_side_contract" /\ UNCHANGED <<state, last, maybe>>
    BY <1>1, <1>2, <1>4 DEF StateIsCurrent, Polling, Relay, Off
<1>5. CASE at' = "main_to_side_sign" /\ new /\ UNCHANGED <<state, maybe>>
    <2>1. \A r \in Relay : state[field[r]] \in Nat
        BY <1>2, FieldType
    <2>2. /\ last' \in [Relay -> Nat] /\ \A r \in Relay : last'[r] = state[field[r]]
        BY <1>5, <2>1 DEF new
    <2>3. /\ maybe' \in [Relay -> Nat \cup {Nothing}]
          /\ \A r \in Relay : maybe'[r] = Nothing
        BY <1>2, <1>5 DEF nothing
    <2> QED
        BY <1>1, <1>2, <1>5, <2>1, <2>2, <2>3 DEF StateIsCurrent, Polling, Relay, Off
<1> QED
    BY <1>3, <1>4, <1>5 DEF is_main_contract, is_side_contract

(* While polling, in every step but those that change these. *)
LEMMA PollingKept ==
    ASSUME StateIsCurrent, at \in Polling, at' \in Polling, UNCHANGED <<state, last, maybe>>,
           at' \in {"open", "write"} => maybe = nothing,
           state \in Database!State, NotBehind(file'.state, state),
           at' \in Relay \cup {"update"} => state = file'.state
    PROVE  StateIsCurrent'
<1>1. at' # Off /\ at' \notin {"is_main_contract", "is_side_contract"}
    BY DEF Polling, Relay, Off
<1> QED
    BY <1>1 DEF StateIsCurrent, Off

LEMMA OpenCurrent ==
    ASSUME StateIsCurrent, FileIsFinal, openFile
    PROVE  StateIsCurrent' /\ UNCHANGED file
<1>1. at = "open" /\ at \in Polling /\ at # Off /\ UNCHANGED <<state, last, maybe>>
    BY DEF openFile, Polling, Off
<1>2. /\ pc = "done" /\ state \in Database!State /\ NotBehind(file.state, state)
    BY <1>1, InStep
<1>3. file # Database!Missing
    <2>1. file.size = Database!serialized(file.state) /\ Database!serialized(file.state) \in Nat
        BY <1>2, SerializedType DEF FileIsFinal
    <2> QED
        BY <2>1 DEF Database!Missing
<1>4. UNCHANGED file
    BY <1>3 DEF openFile, Database!open
<1>5. maybe = nothing
    BY <1>1 DEF StateIsCurrent
<1>6. at' = "write" \/ (at' = "main_to_side_sign" /\ state = file.state)
    BY DEF openFile
<1>7. /\ at' \in Polling
      /\ at' \in Relay \cup {"update"} => state = file'.state
    BY <1>4, <1>6 DEF Polling, Relay
<1> QED
    BY <1>1, <1>2, <1>4, <1>5, <1>7, PollingKept

LEMMA WriteCurrent ==
    ASSUME StateIsCurrent, FileIsFinal, writeFile
    PROVE  /\ StateIsCurrent'
           /\ file' = [state |-> state, size |-> Database!serialized(state)]
<1>1. /\ at = "write" /\ at' = "main_to_side_sign" /\ at \in Polling /\ at # Off
      /\ at' \in Polling /\ at' \notin {"open", "write"}
      /\ Database!write(state) /\ UNCHANGED <<state, last, maybe>>
    BY DEF writeFile, Polling, Relay, Off
<1>2. /\ pc = "done" /\ file.state \in Database!State
      /\ state \in Database!State /\ NotBehind(file.state, state)
    BY <1>1, InStep
<1>3. /\ file.size = Database!serialized(file.state)
      /\ Database!serialized(file.state) \in Nat /\ Database!serialized(state) \in Nat
      /\ Database!serialized(file.state) <= Database!serialized(state)
    BY <1>2, Serialized DEF FileIsFinal
<1>4. file' = [state |-> state, size |-> Database!serialized(state)]
    BY <1>1, <1>2, <1>3, WrittenFile
<1>5. file'.state = state
    BY <1>4
<1>6. NotBehind(file'.state, state)
    BY <1>2, <1>5, NotBehindItself
<1> QED
    BY <1>1, <1>2, <1>4, <1>5, <1>6, PollingKept

LEMMA BridgeInv == ASSUME Inv, BridgeNext PROVE Inv'
<1>1. MainSettled /\ SideSettled /\ ReceiptsAreThere /\ FileIsFinal /\ StateIsCurrent
    BY DEF Inv
<1>2. /\ UNCHANGED <<mHead, mTxBlock, mLastBlock, mReceipt, sHead, sTxBlock, sLastBlock, sReceipt>>
      /\ UNCHANGED pc
    BY DEF BridgeNext, mVars, sVars
<1>3. MainSettled' /\ SideSettled' /\ ReceiptsAreThere'
    BY <1>1, <1>2 DEF MainSettled, SideSettled, Settled, ReceiptsAreThere
<1>4. pc = "done"
    BY <1>1, Readable DEF BridgeNext, start, executeBridge, is_main_contract, is_side_contract,
        pollRelay, update, openFile, writeFile, failBridge, FileIsFinal, Off, Relay
<1>5. ASSUME UNCHANGED file PROVE FileIsFinal'
    <2>1. Database!serialized(file.state)' = Database!serialized(file.state)
        BY <1>5 DEF Database!serialized, Database!digits
    <2> QED
        BY <1>1, <1>2, <1>4, <1>5, <2>1 DEF FileIsFinal
<1>6. CASE start \/ is_main_contract \/ is_side_contract \/ update \/ openFile
    BY <1>1, <1>3, <1>5, <1>6, StartCurrent, ContractsCurrent, UpdateCurrent, OpenCurrent DEF Inv
<1>7. ASSUME NEW r \in Relay, pollRelay(r) PROVE Inv'
    <2>1. UNCHANGED file
        BY <1>7 DEF pollRelay
    <2> QED
        BY <1>1, <1>3, <1>5, <1>7, <2>1, PollRelayCurrent DEF Inv
<1>8. CASE writeFile
    <2>1. /\ StateIsCurrent'
          /\ file' = [state |-> state, size |-> Database!serialized(state)]
        BY <1>1, <1>8, WriteCurrent
    <2>2. /\ state \in Database!State /\ NotBehind(file.state, state)
        BY <1>1, <1>8, InStep DEF writeFile, Off
    <2>3. /\ file'.state = state /\ file'.size = Database!serialized(state)
          /\ file' = [state |-> file'.state, size |-> file'.size]
        BY <2>1
    <2>4. /\ state.main_deployed_at_block = mTxBlock /\ state.side_deployed_at_block = sTxBlock
        BY <1>1, <1>4, <2>2 DEF FileIsFinal, NotBehind
    <2>5. Database!serialized(file.state)' = Database!serialized(file'.state)
        BY DEF Database!serialized, Database!digits
    <2>6. FileIsFinal'
        BY <1>1, <1>2, <1>4, <2>2, <2>3, <2>4, <2>5 DEF FileIsFinal
    <2> QED
        BY <1>3, <2>1, <2>6 DEF Inv
<1>9. CASE failBridge
    BY <1>3, <1>5, <1>9, EndCurrent DEF failBridge, end, Inv
<1> QED
    BY <1>6, <1>7, <1>8, <1>9 DEF BridgeNext, executeBridge

LEMMA NextInv == Inv /\ [Next]_vars => Inv'
<1> SUFFICES ASSUME Inv, [Next]_vars PROVE Inv'
    OBVIOUS
<1>1. CASE UNCHANGED vars
    BY <1>1 DEF vars, deployVars, bridgeVars, mVars, sVars, Inv, MainSettled, SideSettled, Settled,
        ReceiptsAreThere, FileIsFinal, StateIsCurrent, NotBehind, Database!serialized,
        Database!digits
<1> QED
    BY <1>1, DeployInv, BridgeInv DEF Next

(* The inductive invariant holds of every behaviour. *)
THEOREM Invariance == Spec => []Inv
BY InitInv, NextInv, PTL DEF Spec

(***************************************************************************)
(* Once parity-bridge-deploy has written the database, the contracts stay  *)
(* in the blocks it names, whatever the chains do with unconfirmed blocks, *)
(* however many deployments failed before, and however often bridge        *)
(* processes write the file and end.                                       *)
(***************************************************************************)
THEOREM FinalDatabase == Spec => []DatabaseIsFinal
<1>1. Inv => DatabaseIsFinal
    BY Readable DEF Inv, FileIsFinal, DatabaseIsFinal
<1> QED
    BY <1>1, Invariance, PTL

-----------------------------------------------------------------------------
(* The chain a relay reads its logs from. *)
chainHead(r) == IF r = "main_to_side_sign" THEN mHead ELSE sHead
required(r) == IF r = "main_to_side_sign" THEN mainConfirmations ELSE sideConfirmations

(* What RelayProgress allows a relay, or nothing of it changes. *)
Promised(r) ==
    \/ chainHead(r)' > chainHead(r) /\ UNCHANGED <<progress(r), persisted(r)>>
    \/ /\ persisted(r) = Nothing
       /\ persisted(r)' \in Nat /\ persisted(r)' + required(r) <= chainHead(r)
       /\ progress(r)' = persisted(r)' /\ UNCHANGED chainHead(r)
    \/ /\ progress(r) # Nothing
       /\ progress(r)' >= progress(r) /\ progress(r)' + required(r) <= chainHead(r)
       /\ UNCHANGED <<chainHead(r), persisted(r)>>
    \/ /\ persisted(r) # Nothing /\ persisted(r)' = progress(r)
       /\ UNCHANGED <<chainHead(r), progress(r)>>
    \/ progress(r)' = persisted(r) /\ UNCHANGED <<chainHead(r), persisted(r)>>
    \/ UNCHANGED <<chainHead(r), progress(r), persisted(r)>>

LEMMA Persisted ==
    Inv => \A r \in Relay : persisted(r) = IF pc = "done" THEN file.state[field[r]] ELSE Nothing
BY Readable DEF Inv, persisted

LEMMA PersistedNext ==
    (Inv => \A r \in Relay :
        persisted(r) = IF pc = "done" THEN file.state[field[r]] ELSE Nothing)'
BY Persisted, PTL

LEMMA DeployPromised ==
    ASSUME Inv, Inv', NEW r \in Relay, DeployNext
    PROVE  Promised(r)
<1>1. UNCHANGED <<at, state, last, maybe>>
    BY DEF DeployNext, bridgeVars
<1>2. /\ persisted(r) = IF pc = "done" THEN file.state[field[r]] ELSE Nothing
      /\ persisted(r)' = IF pc' = "done" THEN file'.state[field[r]] ELSE Nothing
    BY Persisted, PersistedNext
<1>3. pc # "done" => at = Off
    BY DEF Inv, FileIsFinal
<1>4. at = Off => progress(r) = persisted(r) /\ progress(r)' = persisted(r)'
    BY <1>1 DEF progress, Polling, Relay, Off
<1>5. ASSUME UNCHANGED <<pc, file>> \/ (pc # "done" /\ pc' # "done")
      PROVE  UNCHANGED <<progress(r), persisted(r)>>
    <2>1. UNCHANGED persisted(r)
        BY <1>2, <1>5
    <2> QED
        BY <1>1, <2>1 DEF progress
<1>6. CASE deployMain \/ deploySide \/ create \/ fail \/ executeAgain
    <2>1. pc # "done" /\ pc' # "done"
        BY <1>6 DEF deployMain, deploySide, create, fail, finish, executeAgain
    <2>2. UNCHANGED <<mHead, sHead>>
        BY <1>6, MainPollSettled, SidePollSettled, MainForgetSettled, SideForgetSettled,
           MainStartOverSettled, SideStartOverSettled
           DEF deployMain, deploySide, create, fail, finish, executeAgain, mVars, sVars, Inv
    <2> QED
        BY <1>5, <2>1, <2>2 DEF Promised, chainHead
<1>7. CASE write
    <2>1. pc = "write" /\ pc' = "done" /\ UNCHANGED <<mHead, sHead>>
        BY <1>7, MainForgetSettled, SideForgetSettled DEF write, finish, Inv
    <2>2. /\ mReceipt \in Nat /\ mReceipt + mainConfirmations <= mHead
          /\ sReceipt \in Nat /\ sReceipt + sideConfirmations <= sHead
        BY <2>1 DEF Inv, ReceiptsAreThere, MainSettled, SideSettled, Settled
    <2>3. file'.state = Database!deployedAt(mReceipt, sReceipt)
        BY <1>7 DEF write, from_transaction_receipts, Database!write
    <2>4. file'.state[field[r]] = IF r = "main_to_side_sign" THEN mReceipt ELSE sReceipt
        BY <2>3 DEF Database!deployedAt, Relay, field
    <2>5. persisted(r) = Nothing /\ persisted(r)' = file'.state[field[r]]
        BY <1>2, <2>1
    <2>6. progress(r)' = persisted(r)'
        BY <1>3, <1>4, <2>1
    <2> QED
        BY <2>1, <2>2, <2>4, <2>5, <2>6 DEF Promised, chainHead, required
<1>8. CASE chain
    <2>1. /\ UNCHANGED <<pc, file>>
          /\ \/ mHead' > mHead /\ UNCHANGED sHead
             \/ sHead' > sHead /\ UNCHANGED mHead
        BY <1>8, MainChainSettled, SideChainSettled DEF chain, Inv, mVars, sVars
    <2> QED
        BY <1>5, <2>1 DEF Promised, chainHead
<1> QED
    BY <1>6, <1>7, <1>8 DEF DeployNext, execute

LEMMA BridgePromised ==
    ASSUME Inv, Inv', NEW r \in Relay, BridgeNext
    PROVE  Promised(r)
<1>1. UNCHANGED <<mHead, sHead, pc>> /\ UNCHANGED chainHead(r)
    BY DEF BridgeNext, mVars, sVars, chainHead
<1>2. FileIsFinal /\ StateIsCurrent
    BY DEF Inv
<1>3. pc = "done"
    BY <1>2, Readable DEF BridgeNext, start, executeBridge, is_main_contract, is_side_contract,
        pollRelay, update, openFile, writeFile, failBridge, FileIsFinal, Off, Relay
<1>4. /\ persisted(r) = file.state[field[r]] /\ persisted(r)' = file'.state[field[r]]
      /\ file.state[field[r]] \in Nat
    BY <1>1, <1>2, <1>3, Persisted, PersistedNext, FieldType DEF FileIsFinal
<1>5. ASSUME UNCHANGED file, at' \notin Polling PROVE Promised(r)
    BY <1>1, <1>4, <1>5 DEF Promised, progress
<1>6. ASSUME UNCHANGED file, UNCHANGED last, at \in Polling, at' \in Polling PROVE Promised(r)
    BY <1>1, <1>4, <1>6 DEF Promised, progress
<1>7. CASE start
    BY <1>5, <1>7 DEF start, Polling, Relay
<1>8. CASE failBridge
    BY <1>5, <1>8 DEF failBridge, end, Polling, Relay, Off
<1>9. CASE is_main_contract
    BY <1>5, <1>9 DEF is_main_contract, end, Polling, Relay, Off
<1>10. CASE is_side_contract
    <2>1. CASE end
        BY <1>5, <1>10, <2>1 DEF is_side_contract, end, Polling, Relay, Off
    <2>2. CASE at' = "main_to_side_sign" /\ new
        <3>1. at = "is_side_contract" /\ at \notin Polling /\ at' \in Polling /\ UNCHANGED file
            BY <1>10, <2>2 DEF is_side_contract, Polling, Relay
        <3>2. state = file.state
            BY <1>2, <3>1 DEF StateIsCurrent
        <3>3. last'[r] = persisted(r)
            BY <1>4, <2>2, <3>2 DEF new
        <3> QED
            BY <1>1, <1>4, <3>1, <3>3 DEF Promised, progress
    <2> QED
        BY <1>10, <2>1, <2>2 DEF is_side_contract
<1>11. ASSUME NEW q \in Relay, pollRelay(q) PROVE Promised(r)
    <2>1. /\ at = q /\ at \in Polling /\ at' \in Polling /\ UNCHANGED file
          /\ \/ UNCHANGED last
             \/ \E block \in last[q] .. confirmed(q) : last' = [last EXCEPT ![q] = block]
        BY <1>11 DEF pollRelay, notReady, after, Polling, Relay
    <2>2. last \in [Relay -> Nat]
        BY <1>2, <2>1 DEF StateIsCurrent
    <2>3. CASE UNCHANGED last
        BY <1>6, <2>1, <2>3
    <2>4. CASE \E block \in last[q] .. confirmed(q) : last' = [last EXCEPT ![q] = block]
        <3>1. PICK block \in last[q] .. confirmed(q) : last' = [last EXCEPT ![q] = block]
            BY <2>4
        <3>2. progress(r) = last[r] /\ progress(r)' = last'[r] /\ UNCHANGED persisted(r)
            BY <1>4, <2>1 DEF progress
        <3>3. CASE q # r
            BY <1>1, <2>2, <3>1, <3>2, <3>3 DEF Promised
        <3>4. CASE q = r
            <4>1. mHead \in Nat /\ sHead \in Nat
                BY DEF Inv, MainSettled, SideSettled, Settled
            <4>2. chainHead(r) \in Nat /\ required(r) \in Nat
                  /\ confirmed(r) = chainHead(r) - required(r)
                BY <4>1, DeployAssumption DEF chainHead, required, confirmed
            <4>3. last'[r] = block /\ last[r] \in Nat /\ block \in Int /\ last[r] <= block
                  /\ block <= chainHead(r) - required(r)
                BY <2>2, <3>1, <3>4, <4>2
            <4>4. last'[r] >= last[r] /\ last'[r] + required(r) <= chainHead(r)
                  /\ last[r] # Nothing
                BY <4>2, <4>3 DEF Nothing
            <4> QED
                BY <1>1, <3>2, <4>4 DEF Promised
        <3> QED
            BY <3>3, <3>4
    <2> QED
        BY <2>1, <2>3, <2>4
<1>12. CASE update
    BY <1>6, <1>12 DEF update, Polling, Relay
<1>13. CASE openFile
    <2>1. UNCHANGED file
        BY <1>2, <1>13, OpenCurrent
    <2> QED
        BY <1>6, <1>13, <2>1 DEF openFile, Polling, Relay
<1>14. CASE writeFile
    <2>1. file' = [state |-> state, size |-> Database!serialized(state)]
        BY <1>2, <1>14, WriteCurrent
    <2>2. at = "write" /\ at \in Polling /\ at' \in Polling /\ UNCHANGED last
        BY <1>14 DEF writeFile, Polling, Relay
    <2>3. state[field[r]] = last[r]
        <3>1. /\ maybe = nothing
              /\ \/ maybe[r] = last[r]
                 \/ maybe[r] = Nothing /\ state[field[r]] = last[r]
              /\ last[r] \in Nat
            BY <1>2, <2>2 DEF StateIsCurrent
        <3> QED
            BY <3>1 DEF nothing, Nothing
    <2>4. persisted(r)' = last[r] /\ persisted(r) # Nothing
        BY <1>4, <2>1, <2>3 DEF Nothing
    <2>5. progress(r) = last[r] /\ progress(r)' = last[r]
        BY <2>2 DEF progress
    <2> QED
        BY <1>1, <2>4, <2>5 DEF Promised
<1> QED
    BY <1>7, <1>8, <1>9, <1>10, <1>11, <1>12, <1>13, <1>14 DEF BridgeNext, executeBridge

LEMMA StepPromised ==
    ASSUME Inv, [Next]_vars, NEW r \in Relay
    PROVE  Promised(r)
<1>1. Inv'
    BY NextInv
<1>2. CASE UNCHANGED vars
    BY <1>2 DEF vars, deployVars, bridgeVars, mVars, sVars, Promised, chainHead, progress,
        persisted, Database!readable, Database!serialized, Database!digits
<1> QED
    BY <1>1, <1>2, DeployPromised, BridgePromised DEF Next

LEMMA InitPromised ==
    ASSUME Init, NEW r \in Relay
    PROVE  /\ chainHead(r) \in Nat /\ persisted(r) \in Nat \cup {Nothing}
           /\ progress(r) = persisted(r)
<1>1. Inv
    BY InitInv
<1>2. pc # "done" /\ at = Off
    BY DEF Init, DeployInit, NotRunning
<1>3. persisted(r) = Nothing
    BY <1>1, <1>2, Persisted
<1>4. at \notin Polling
    BY <1>2 DEF Polling, Relay, Off
<1>5. mHead \in Nat /\ sHead \in Nat
    BY <1>1 DEF Inv, MainSettled, SideSettled, Settled
<1> QED
    BY <1>3, <1>4, <1>5 DEF progress, chainHead

(***************************************************************************)
(* The three relays that bridge.rs polls in turn, with one state and one   *)
(* file between them, each keep what RelayProgress promises, whatever the  *)
(* others do and wherever in a poll or a write the process ends.           *)
(***************************************************************************)
THEOREM RelaysRefineProgress == Spec => RelaysImplementProgress
<1>1. Init => MainToSideSign!Init /\ SideToMainSign!Init /\ SideToMainSignatures!Init
    <2> SUFFICES ASSUME Init
                 PROVE  MainToSideSign!Init /\ SideToMainSign!Init /\ SideToMainSignatures!Init
        OBVIOUS
    <2>1. \A r \in Relay : /\ chainHead(r) \in Nat /\ persisted(r) \in Nat \cup {Nothing}
                           /\ progress(r) = persisted(r)
        BY InitPromised
    <2> QED
        BY <2>1 DEF Relay, chainHead, Nothing,
            MainToSideSign!Init, MainToSideSign!None,
            SideToMainSign!Init, SideToMainSign!None,
            SideToMainSignatures!Init, SideToMainSignatures!None
<1>2. Inv /\ [Next]_vars => [MainToSideSign!Next]_(MainToSideSign!vars)
    <2> SUFFICES ASSUME Inv, [Next]_vars PROVE [MainToSideSign!Next]_(MainToSideSign!vars)
        OBVIOUS
    <2>1. Promised("main_to_side_sign")
        BY StepPromised DEF Relay
    <2> QED
        BY <2>1 DEF Promised, chainHead, required, Nothing, MainToSideSign!Next,
            MainToSideSign!Chain, MainToSideSign!Create, MainToSideSign!Yield,
            MainToSideSign!Persist, MainToSideSign!Restart, MainToSideSign!vars,
            MainToSideSign!None
<1>3. Inv /\ [Next]_vars => [SideToMainSign!Next]_(SideToMainSign!vars)
    <2> SUFFICES ASSUME Inv, [Next]_vars PROVE [SideToMainSign!Next]_(SideToMainSign!vars)
        OBVIOUS
    <2>1. Promised("side_to_main_sign")
        BY StepPromised DEF Relay
    <2> QED
        BY <2>1 DEF Promised, chainHead, required, Nothing, SideToMainSign!Next,
            SideToMainSign!Chain, SideToMainSign!Create, SideToMainSign!Yield,
            SideToMainSign!Persist, SideToMainSign!Restart, SideToMainSign!vars,
            SideToMainSign!None
<1>4. Inv /\ [Next]_vars => [SideToMainSignatures!Next]_(SideToMainSignatures!vars)
    <2> SUFFICES ASSUME Inv, [Next]_vars
                 PROVE  [SideToMainSignatures!Next]_(SideToMainSignatures!vars)
        OBVIOUS
    <2>1. Promised("side_to_main_signatures")
        BY StepPromised DEF Relay
    <2> QED
        BY <2>1 DEF Promised, chainHead, required, Nothing, SideToMainSignatures!Next,
            SideToMainSignatures!Chain, SideToMainSignatures!Create, SideToMainSignatures!Yield,
            SideToMainSignatures!Persist, SideToMainSignatures!Restart,
            SideToMainSignatures!vars, SideToMainSignatures!None
<1> QED
    BY <1>1, <1>2, <1>3, <1>4, Invariance, PTL
       DEF Spec, RelaysImplementProgress, MainToSideSign!Spec, SideToMainSign!Spec,
           SideToMainSignatures!Spec
=============================================================================
