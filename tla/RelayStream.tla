----------------------------- MODULE RelayStream -----------------------------
(***************************************************************************)
(* A node's relay of one kind of log: RelayStream                          *)
(* (bridge/src/relay_stream.rs) over a LogStream and an OrderedStream, and *)
(* what becomes of the block numbers it yields: Bridge::poll hands them on *)
(* and cli/src/main.rs writes them to the database, from which a restarted *)
(* node goes on.                                                           *)
(*                                                                         *)
(* The node is one thread; the chain and the relay futures (transactions   *)
(* on the other chain) move on beside it.  Any error of a request or of a  *)
(* relay ends the process, and so may a crash, at any time: `fail`.        *)
(***************************************************************************)
EXTENDS Integers, Sequences

CONSTANTS
    confirmations,
    MaxBlock,           \* bound: blocks of the chain
    MaxLogs,            \* bound: logs emitted
    MaxFailures         \* bound: how often the process ends

ASSUME RelayAssumption ==
    /\ confirmations \in Nat /\ MaxBlock \in Nat
    /\ MaxLogs \in Nat /\ MaxFailures \in Nat

VARIABLES
    head,               \* the chain: its last block and,
    logBlock,           \* per log, the block it is in
    bnState, bnLast,    \* BlockNumberStream
    lsState, lsLast,    \* LogStream
    entries, done,      \* OrderedStream of relay futures
    pc,                 \* "poll", "write" (a block was yielded) or "down"
    yielded,            \* the last block number yielded in this run
    started,            \* the block number this run started from
    database,           \* the block number persisted
    relayed,            \* logs with a completed relay, in any run
    failures

chainVars == <<head, logBlock>>
logStreamVars == <<bnState, bnLast, lsState, lsLast>>
nodeVars == <<logStreamVars, entries, done, pc, yielded, started>>
vars == <<chainVars, nodeVars, database, relayed, failures>>

Logs == INSTANCE LogStream WITH state <- lsState, last_checked_block <- lsLast

Relays == INSTANCE OrderedStream WITH Order <- Nat, Future <- Nat

(* The logs emitted, numbered in chain order. *)
Log == DOMAIN logBlock

(* The logs in the blocks up to this one are the first of all. *)
logsUpTo(block) ==
    CHOOSE n \in 0 .. Len(logBlock) : \A log \in Log : logBlock[log] <= block <=> log <= n

TypeOK ==
    /\ head \in 0 .. MaxBlock
    /\ logBlock \in Seq(1 .. MaxBlock)
    /\ Logs!TypeOK
    /\ Relays!TypeOK
    /\ pc \in {"poll", "write", "down"}
    /\ yielded \in Nat /\ started \in Nat /\ database \in Nat
    /\ relayed \subseteq Log
    /\ failures \in 0 .. MaxFailures

(* A node starts with what the database holds, here the deployment block. *)
Init ==
    /\ head = 0 /\ logBlock = <<>>
    /\ Logs!Start(0)
    /\ entries = <<>> /\ done = {}
    /\ pc = "poll" /\ yielded = 0 /\ started = 0
    /\ database = 0 /\ relayed = {} /\ failures = 0

-----------------------------------------------------------------------------
(* External: a block with some of the logs this stream filters for. *)
mine(count) ==
    /\ head < MaxBlock
    /\ Len(logBlock) + count <= MaxLogs
    /\ head' = head + 1
    /\ logBlock' = logBlock \o [i \in 1 .. count |-> head + 1]
    /\ UNCHANGED <<nodeVars, database, relayed, failures>>

(***************************************************************************)
(* External: a longer chain replaces the last `depth` blocks, at most as   *)
(* many as `confirmations`: the logs in them are gone, and `block`, one of *)
(* those that replace them, has `count` others.                            *)
(***************************************************************************)
reorganise(depth, block, count) ==
    /\ head < MaxBlock
    /\ depth <= head
    /\ block \in (head - depth + 1) .. (head + 1)
    /\ LET kept == logsUpTo(head - depth) IN
       /\ kept + count <= MaxLogs
       /\ logBlock' = SubSeq(logBlock, 1, kept) \o [i \in 1 .. count |-> block]
    /\ head' = head + 1
    /\ UNCHANGED <<nodeVars, database, relayed, failures>>

(* External: eth_getLogs returns the logs of a block range in chain order. *)
logsInBlockRange(from, to) ==
    LET before == logsUpTo(from - 1)
    IN  [i \in 1 .. (logsUpTo(to) - before) |-> before + i]

(* A relay future for each log, all with the last block of the range. *)
relayFutures(from, to) ==
    LET logs == logsInBlockRange(from, to)
    IN  [i \in DOMAIN logs |-> Relays!newEntry(to, logs[i])]

(* ordered_stream.poll(), and the return of what it yields. *)
pollRelays(inserted) ==
    LET es == Relays!pollAll(inserted, done) IN
    \/ \E i \in DOMAIN es :
          /\ Relays!yields(es, i)
          /\ entries' = Relays!swap_remove(es, i)
          /\ yielded' = es[i].order
          /\ pc' = "write"
    \/ /\ \A i \in DOMAIN es : ~Relays!yields(es, i)
       /\ entries' = es
       /\ UNCHANGED <<yielded, pc>>

(* One turn of the loop in poll without new logs. *)
pollWithoutLogs ==
    /\ pc = "poll"
    /\ \/ Logs!pollBlockNumber
       \/ Logs!pollRequestLogs
       \/ UNCHANGED logStreamVars
    /\ pollRelays(entries)
    /\ UNCHANGED <<chainVars, done, started, database, relayed, failures>>

(* One turn of the loop in poll with the logs of a range. *)
pollWithLogs(from, to) ==
    /\ pc = "poll"
    /\ Logs!pollLogs(from, to)
    /\ pollRelays(entries \o relayFutures(from, to))
    /\ UNCHANGED <<chainVars, done, started, database, relayed, failures>>

(* database.write, after Bridge::poll has yielded the new state. *)
write ==
    /\ pc = "write"
    /\ database' = yielded
    /\ pc' = "poll"
    /\ UNCHANGED <<chainVars, logStreamVars, entries, done, yielded, started,
                   relayed, failures>>

(* External: a relay future completes. *)
completeRelay(log) ==
    /\ pc # "down"
    /\ \E i \in DOMAIN entries : entries[i].future = log
    /\ log \notin done
    /\ done' = done \cup {log}
    /\ relayed' = relayed \cup {log}
    /\ UNCHANGED <<chainVars, logStreamVars, entries, pc, yielded, started,
                   database, failures>>

(* The process ends: an error that execute returns, or a crash. *)
fail ==
    /\ pc # "down"
    /\ failures < MaxFailures
    /\ pc' = "down"
    /\ failures' = failures + 1
    /\ UNCHANGED <<chainVars, logStreamVars, entries, done, yielded, started,
                   database, relayed>>

(* The process is started again. *)
restart ==
    /\ pc = "down"
    /\ bnState' = "AwaitInterval" /\ bnLast' = database
    /\ lsState' = Logs!AwaitBlockNumber /\ lsLast' = database
    /\ entries' = <<>> /\ done' = {}
    /\ pc' = "poll" /\ yielded' = database /\ started' = database
    /\ UNCHANGED <<chainVars, database, relayed, failures>>

-----------------------------------------------------------------------------
poll == pollWithoutLogs \/ pollWithLogs(lsState.from, lsState.to)

Next ==
    \/ \E count \in 0 .. MaxLogs : mine(count)
    \/ \E depth \in 1 .. confirmations, block \in 1 .. MaxBlock, count \in 0 .. MaxLogs :
          reorganise(depth, block, count)
    \/ poll
    \/ write
    \/ \E log \in Log : completeRelay(log)
    \/ fail
    \/ restart

(***************************************************************************)
(* The event loop polls the node as long as it runs and somebody restarts  *)
(* it when it has ended; a relay whose node keeps running completes.       *)
(***************************************************************************)
Fairness ==
    /\ WF_vars(poll) /\ WF_vars(write) /\ WF_vars(restart)
    /\ \A log \in 1 .. MaxLogs : WF_vars(log \in Log /\ completeRelay(log))

Spec == Init /\ [][Next]_vars /\ Fairness

-----------------------------------------------------------------------------
(* The relays this node has under way. *)
Pending == {entries[i].future : i \in DOMAIN entries}

(***************************************************************************)
(* No log falls between two block ranges: each log after the start of this *)
(* run, up to the last block checked, has been relayed or is under way.    *)
(***************************************************************************)
NoLogIsSkipped ==
    pc # "down" => \A log \in Log :
        logBlock[log] > started /\ logBlock[log] <= lsLast
            => log \in relayed \cup Pending

(***************************************************************************)
(* A log is handed to its relay only when its block is confirmed, so that  *)
(* no longer chain takes away a log that a transaction on the other chain  *)
(* has already answered: each log relayed or under way is still there, in  *)
(* a block no reorganisation reaches.                                      *)
(***************************************************************************)
RelaysAreFinal ==
    \A log \in relayed \cup Pending :
        log \in Log /\ logBlock[log] + confirmations <= head

(***************************************************************************)
(* When a block number is yielded all logs of earlier block ranges of this *)
(* run have been relayed: a log up to that block that has not been is of   *)
(* the very range the number belongs to.                                   *)
(***************************************************************************)
EarlierRangesAreRelayed ==
    pc # "down" => \A log \in Log :
        logBlock[log] > started /\ logBlock[log] <= yielded
            => \/ log \in relayed
               \/ \E i \in DOMAIN entries :
                     entries[i].future = log /\ entries[i].order = yielded

(***************************************************************************)
(* Progress that was persisted is never taken back, and no block is        *)
(* persisted before it is confirmed, whatever order relays complete in and *)
(* whenever the node is restarted.                                         *)
(***************************************************************************)
ProgressIsMonotone ==
    [][/\ database' >= database
       /\ database' # database => database' + confirmations <= head']_vars

(***************************************************************************)
(* The relay keeps what RelayProgress promises: relays that complete in    *)
(* any order, reorganisations of unconfirmed blocks and restarts never     *)
(* make it yield or persist a block that is unconfirmed or behind.         *)
(***************************************************************************)
Progress == INSTANCE RelayProgress

ImplementsProgress == Progress!Spec

(***************************************************************************)
(* A confirmed log is eventually relayed, or the database has moved past   *)
(* it: across restarts a node keeps coming back to what it has not         *)
(* recorded as checked.                                                    *)
(***************************************************************************)
LogsAreNotForgotten ==
    \A log \in 1 .. MaxLogs :
        (log \in Log /\ logBlock[log] + confirmations <= head)
            ~> (log \in relayed \/ (log \in Log /\ logBlock[log] <= database))

(***************************************************************************)
(* relay_stream.rs:94-96, where a block number is yielded: "all relay      *)
(* futures for this block or before have completed we can yield the block  *)
(* number which can be safely persisted since it doesn't need to get       *)
(* checked again".  A node never looks at the blocks up to the one it      *)
(* started from, so the logs in them have been relayed.                    *)
(***************************************************************************)
PersistedBlocksAreRelayed ==
    \A log \in Log : logBlock[log] <= started => log \in relayed
=============================================================================
