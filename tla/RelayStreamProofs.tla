-------------------------- MODULE RelayStreamProofs --------------------------
(***************************************************************************)
(* Proofs about RelayStream, for every number of confirmations, blocks,    *)
(* logs and failures.                                                      *)
(***************************************************************************)
EXTENDS RelayStream, WellFoundedInduction, SequenceTheorems, TLAPS

(* Logs are numbered in the order of their blocks. *)
ChainOrdered ==
    /\ \A log \in Log : logBlock[log] \in 1 .. head
    /\ \A log1, log2 \in Log : log1 <= log2 => logBlock[log1] <= logBlock[log2]

(* No reorganisation reaches the block; the deployment block is the first. *)
Confirmed(block) == block = 0 \/ block + confirmations <= head

(* How far the streams, the node and its database are. *)
BlocksAreOrdered ==
    /\ started <= database /\ database <= yielded /\ yielded <= lsLast /\ lsLast <= bnLast
    /\ pc = "poll" => database = yielded
    /\ Confirmed(bnLast)
    /\ lsState = Logs!AwaitBlockNumber => bnLast = lsLast
    /\ lsState # Logs!AwaitBlockNumber =>
          lsState = Logs!AwaitLogs(lsLast + 1, bnLast) /\ lsLast < bnLast

(* A relay under way is of a confirmed log of a range that ends between    *)
(* `first` and `last`; it is ready only when the relay has completed.      *)
OfRanges(es, first, last) ==
    \A i \in DOMAIN es :
        /\ es[i].future \in Log /\ logBlock[es[i].future] + confirmations <= head
        /\ logBlock[es[i].future] <= es[i].order
        /\ first <= es[i].order /\ es[i].order <= last
        /\ es[i].ready => es[i].future \in relayed

(* A range ends before the logs of the next one. *)
Disjoint(es) ==
    \A i, j \in DOMAIN es :
        es[i].order < es[j].order => es[i].order < logBlock[es[j].future]

(***************************************************************************)
(* The inductive invariant.  When a range is passed, EarlierRangesAre-     *)
(* Relayed needs that no later range holds a log of an earlier block, and  *)
(* that an entry is ready only for a relay that completed.                 *)
(***************************************************************************)
Inv ==
    /\ TypeOK /\ ChainOrdered /\ BlocksAreOrdered
    /\ OfRanges(entries, yielded, lsLast) /\ Disjoint(entries)
    /\ done \subseteq relayed
    /\ NoLogIsSkipped /\ RelaysAreFinal /\ EarlierRangesAreRelayed

-----------------------------------------------------------------------------
(* What the first logs are. *)
LEMMA LogsUpTo ==
    ASSUME TypeOK, ChainOrdered, NEW block \in Int
    PROVE  /\ logsUpTo(block) \in 0 .. Len(logBlock)
           /\ \A log \in Log : logBlock[log] <= block <=> log <= logsUpTo(block)
<1>1. logBlock \in Seq(1 .. MaxBlock) /\ Len(logBlock) \in Nat /\ Log = 1 .. Len(logBlock)
    BY DEF TypeOK, Log
<1>2. \A log \in Log : logBlock[log] \in Int
    BY <1>1, RelayAssumption
<1> DEFINE T == {n \in 0 .. Len(logBlock) : \A log \in Log : log > n => logBlock[log] > block}
<1>3. T \subseteq Nat /\ T # {}
    <2>1. Len(logBlock) \in T
        BY <1>1
    <2> QED
        BY <2>1
<1>4. PICK n \in T : \A m \in T : ~(<<m, n>> \in OpToRel(<, Nat))
    BY <1>3, NatLessThanWellFounded, WFMin
<1>5. \A m \in T : ~(m < n)
    BY <1>3, <1>4 DEF OpToRel
<1>6. n \in 0 .. Len(logBlock) /\ \A log \in Log : log > n => logBlock[log] > block
    OBVIOUS
<1>7. ASSUME NEW log \in Log, log <= n PROVE logBlock[log] <= block
    <2> SUFFICES ASSUME logBlock[log] > block PROVE FALSE
        BY <1>2
    <2>1. \A other \in Log : other > n - 1 => logBlock[other] > block
        BY <1>1, <1>2, <1>6, <1>7 DEF ChainOrdered
    <2>2. n - 1 \in T
        BY <1>1, <1>6, <1>7, <2>1
    <2> QED
        BY <1>5, <1>6, <2>2
<1>8. \E m \in 0 .. Len(logBlock) : \A log \in Log : logBlock[log] <= block <=> log <= m
    <2>1. \A log \in Log : logBlock[log] <= block <=> log <= n
        BY <1>1, <1>2, <1>6, <1>7
    <2> QED
        BY <1>6, <2>1
<1> QED
    BY <1>8 DEF logsUpTo

-----------------------------------------------------------------------------
(* The relay futures of a range: one for each of its logs. *)
LEMMA RangeFutures ==
    ASSUME TypeOK, ChainOrdered, NEW from \in Nat, NEW to \in Nat, from <= to
    PROVE  LET new == relayFutures(from, to) IN
           /\ new \in Seq(Relays!Entry)
           /\ \A i \in DOMAIN new :
                 /\ new[i].future \in Log /\ logBlock[new[i].future] \in from .. to
                 /\ new[i].order = to /\ ~new[i].ready
           /\ \A log \in Log : logBlock[log] \in from .. to =>
                 \E i \in DOMAIN new : new[i].future = log
<1> DEFINE before == logsUpTo(from - 1)
           upTo   == logsUpTo(to)
           new    == relayFutures(from, to)
<1>1. logBlock \in Seq(1 .. MaxBlock) /\ Len(logBlock) \in Nat /\ Log = 1 .. Len(logBlock)
    BY DEF TypeOK, Log
<1>2. \A log \in Log : logBlock[log] \in Int
    BY <1>1, RelayAssumption
<1>3. /\ before \in 0 .. Len(logBlock) /\ upTo \in 0 .. Len(logBlock)
      /\ \A log \in Log : logBlock[log] <= from - 1 <=> log <= before
      /\ \A log \in Log : logBlock[log] <= to <=> log <= upTo
    BY from - 1 \in Int, to \in Int, LogsUpTo
<1>4. /\ DOMAIN new = 1 .. (upTo - before)
      /\ \A i \in 1 .. (upTo - before) :
            new[i] = [order |-> to, future |-> before + i, ready |-> FALSE]
    BY DEF relayFutures, logsInBlockRange, Relays!newEntry
<1>5. new = [i \in 1 .. (upTo - before) |->
               [order |-> to, future |-> before + i, ready |-> FALSE]]
    BY DEF relayFutures, logsInBlockRange, Relays!newEntry
<1> HIDE DEF before, upTo, new
<1>6. new \in Seq(Relays!Entry)
    <2>1. \A i \in 1 .. (upTo - before) :
             [order |-> to, future |-> before + i, ready |-> FALSE] \in Relays!Entry
        BY <1>3 DEF Relays!Entry
    <2>2. new \in [1 .. (upTo - before) -> Relays!Entry]
        BY <1>5, <2>1
    <2>3. CASE upTo - before \in Nat
        BY <2>2, <2>3
    <2>4. CASE upTo - before \notin Nat
        <3>1. 1 .. (upTo - before) = 1 .. 0
            BY <1>3, <2>4
        <3>2. new \in [1 .. 0 -> Relays!Entry]
            BY <2>2, <3>1
        <3> QED
            BY <3>2
    <2> QED
        BY <2>3, <2>4
<1>7. ASSUME NEW i \in DOMAIN new
      PROVE  /\ new[i].future \in Log /\ logBlock[new[i].future] \in from .. to
             /\ new[i].order = to /\ ~new[i].ready
    <2>1. /\ i \in 1 .. (upTo - before) /\ new[i].future = before + i
          /\ new[i].order = to /\ ~new[i].ready
        BY <1>4
    <2>2. before + i \in Log /\ ~(before + i <= before) /\ before + i <= upTo
        BY <1>1, <1>3, <2>1
    <2>3. logBlock[before + i] \in from .. to
        BY <1>2, <1>3, <2>2
    <2> QED
        BY <2>1, <2>2, <2>3
<1>8. ASSUME NEW log \in Log, logBlock[log] \in from .. to
      PROVE  \E i \in DOMAIN new : new[i].future = log
    <2>1. before < log /\ log <= upTo
        BY <1>1, <1>2, <1>3, <1>8
    <2>2. log - before \in 1 .. (upTo - before) /\ before + (log - before) = log
        BY <1>1, <1>3, <2>1
    <2> QED
        BY <1>4, <2>2
<1> QED
    BY <1>6, <1>7, <1>8 DEF new

(* Polling the futures changes only which are ready. *)
LEMMA PollAll ==
    ASSUME NEW es \in Seq(Relays!Entry), NEW completed
    PROVE  LET polled == Relays!pollAll(es, completed) IN
           /\ polled \in Seq(Relays!Entry) /\ DOMAIN polled = DOMAIN es
           /\ \A i \in DOMAIN es :
                 /\ polled[i].order = es[i].order /\ polled[i].future = es[i].future
                 /\ polled[i].ready => es[i].ready \/ es[i].future \in completed
<1> DEFINE polled == Relays!pollAll(es, completed)
<1>1. DOMAIN es = 1 .. Len(es) /\ Len(es) \in Nat /\ \A i \in DOMAIN es : es[i] \in Relays!Entry
    OBVIOUS
<1>2. polled = [i \in 1 .. Len(es) |->
                  [es[i] EXCEPT !.ready = es[i].ready \/ es[i].future \in completed]]
    BY <1>1 DEF Relays!pollAll, Relays!Entry
<1>3. ASSUME NEW i \in DOMAIN es
      PROVE  /\ polled[i] \in Relays!Entry
             /\ polled[i].order = es[i].order /\ polled[i].future = es[i].future
             /\ polled[i].ready => es[i].ready \/ es[i].future \in completed
    <2>1. polled[i] = [es[i] EXCEPT !.ready = es[i].ready \/ es[i].future \in completed]
        BY <1>1, <1>2
    <2>2. es[i] \in Relays!Entry
        BY <1>1
    <2> HIDE DEF polled
    <2>3. polled[i] = [order |-> es[i].order, future |-> es[i].future,
                       ready |-> es[i].ready \/ es[i].future \in completed]
        BY <2>1, <2>2 DEF Relays!Entry
    <2> QED
        BY <2>2, <2>3 DEF Relays!Entry
<1> HIDE DEF polled
<1>4. polled \in [1 .. Len(es) -> Relays!Entry]
    BY <1>1, <1>2, <1>3
<1>5. polled \in Seq(Relays!Entry) /\ DOMAIN polled = DOMAIN es
    BY <1>1, <1>4
<1> QED
    BY <1>3, <1>5 DEF polled

(* swap_remove takes out one entry and keeps the others, in some order. *)
LEMMA SwapRemove ==
    ASSUME NEW es \in Seq(Relays!Entry), NEW i \in DOMAIN es
    PROVE  LET rest == Relays!swap_remove(es, i) IN
           /\ rest \in Seq(Relays!Entry)
           /\ \A j \in DOMAIN rest : \E k \in DOMAIN es : k # i /\ rest[j] = es[k]
           /\ \A k \in DOMAIN es : k # i => \E j \in DOMAIN rest : rest[j] = es[k]
<1> DEFINE rest == Relays!swap_remove(es, i)
           n == Len(es)
<1>1. n \in Nat /\ DOMAIN es = 1 .. n /\ i \in 1 .. n /\ \A k \in 1 .. n : es[k] \in Relays!Entry
    OBVIOUS
<1>2. rest = [j \in 1 .. (n - 1) |-> IF j = i THEN es[n] ELSE es[j]]
    BY DEF Relays!swap_remove
<1> HIDE DEF rest, n
<1>3. rest \in [1 .. (n - 1) -> Relays!Entry] /\ n - 1 \in Nat
    BY <1>1, <1>2
<1>4. rest \in Seq(Relays!Entry) /\ DOMAIN rest = 1 .. (n - 1)
    BY <1>3
<1>5. ASSUME NEW j \in DOMAIN rest PROVE \E k \in DOMAIN es : k # i /\ rest[j] = es[k]
    <2>1. CASE j = i
        BY <1>1, <1>2, <1>4, <2>1
    <2>2. CASE j # i
        BY <1>1, <1>2, <1>4, <2>2
    <2> QED
        BY <2>1, <2>2
<1>6. ASSUME NEW k \in DOMAIN es, k # i PROVE \E j \in DOMAIN rest : rest[j] = es[k]
    <2>1. CASE k = n
        BY <1>1, <1>2, <1>4, <1>6, <2>1
    <2>2. CASE k # n
        BY <1>1, <1>2, <1>4, <1>6, <2>2
    <2> QED
        BY <2>1, <2>2
<1> QED
    BY <1>4, <1>5, <1>6 DEF rest

(* Each log since the start of the run, up to a block, is taken care of, *)
TakenCareOf(es, last) ==
    \A log \in Log : logBlock[log] > started /\ logBlock[log] <= last =>
        log \in relayed \/ \E i \in DOMAIN es : es[i].future = log

(* and up to a block that was yielded, by an entry of that block. *)
TakenCareOfAt(es, block) ==
    \A log \in Log : logBlock[log] > started /\ logBlock[log] <= block =>
        log \in relayed \/ \E i \in DOMAIN es : es[i].future = log /\ es[i].order = block

(***************************************************************************)
(* ordered_stream.poll keeps the parts of the invariant about entries.     *)
(***************************************************************************)
LEMMA PollRelays ==
    ASSUME TypeOK, ChainOrdered, done \subseteq relayed,
           NEW es \in Seq(Relays!Entry), NEW last \in Nat, yielded <= last,
           OfRanges(es, yielded, last), Disjoint(es),
           TakenCareOf(es, last), TakenCareOfAt(es, yielded),
           pollRelays(es)
    PROVE  /\ entries' \in Seq(Relays!Entry)
           /\ OfRanges(entries', yielded', last) /\ Disjoint(entries')
           /\ TakenCareOf(entries', last) /\ TakenCareOfAt(entries', yielded')
           /\ yielded' \in yielded .. last
           /\ pc' = "write" \/ UNCHANGED <<pc, yielded>>
<1> DEFINE polled == Relays!pollAll(es, done)
<1>1. /\ polled \in Seq(Relays!Entry) /\ DOMAIN polled = DOMAIN es
      /\ \A i \in DOMAIN es :
            /\ polled[i].order = es[i].order /\ polled[i].future = es[i].future
            /\ polled[i].ready => es[i].ready \/ es[i].future \in done
    BY PollAll
<1>2. \/ \E i \in DOMAIN polled :
            /\ Relays!yields(polled, i)
            /\ entries' = Relays!swap_remove(polled, i)
            /\ yielded' = polled[i].order
            /\ pc' = "write"
      \/ /\ entries' = polled
         /\ UNCHANGED <<yielded, pc>>
    BY DEF pollRelays
<1> HIDE DEF polled
<1>3. yielded \in Nat /\ \A log \in Log : logBlock[log] \in Nat
    BY DEF TypeOK, ChainOrdered
<1>4. \A i \in DOMAIN es : es[i].order \in Nat
    <2>1. \A i \in DOMAIN es : es[i] \in Relays!Entry
        OBVIOUS
    <2> QED
        BY <2>1 DEF Relays!Entry
<1>5. OfRanges(polled, yielded, last) /\ Disjoint(polled)
    BY <1>1 DEF OfRanges, Disjoint
<1>6. TakenCareOf(polled, last) /\ TakenCareOfAt(polled, yielded)
    BY <1>1 DEF TakenCareOf, TakenCareOfAt
<1>7. \A i \in DOMAIN polled : polled[i].order \in Nat
    BY <1>1, <1>4
<1>8. CASE entries' = polled /\ UNCHANGED <<yielded, pc>>
    BY <1>1, <1>3, <1>5, <1>6, <1>8
<1>9. ASSUME NEW i \in DOMAIN polled,
             Relays!yields(polled, i),
             entries' = Relays!swap_remove(polled, i),
             yielded' = polled[i].order,
             pc' = "write"
      PROVE  /\ entries' \in Seq(Relays!Entry)
             /\ OfRanges(entries', yielded', last) /\ Disjoint(entries')
             /\ TakenCareOf(entries', last) /\ TakenCareOfAt(entries', yielded')
             /\ yielded' \in yielded .. last
    <2> DEFINE block == polled[i].order
    <2>1. block \in Nat /\ yielded <= block /\ block <= last
        BY <1>5, <1>7 DEF OfRanges
    <2>2. /\ polled[i].ready /\ polled[i].future \in relayed
          /\ \A j \in DOMAIN polled : block <= polled[j].order
        <3>1. /\ polled[i].ready
              /\ \A j \in DOMAIN polled : polled[j].ready =>
                    block < polled[j].order \/ block = polled[j].order
              /\ \A j \in DOMAIN polled : polled[j].ready \/ block <= polled[j].order
            BY <1>9 DEF Relays!yields, Relays!mayYield, Relays!isMinReady
        <3>2. polled[i].future \in relayed
            BY <1>5, <3>1 DEF OfRanges
        <3> QED
            BY <1>7, <2>1, <3>1, <3>2
    <2>3. /\ entries' \in Seq(Relays!Entry)
          /\ \A j \in DOMAIN entries' : \E k \in DOMAIN polled : entries'[j] = polled[k]
          /\ \A k \in DOMAIN polled : k # i => \E j \in DOMAIN entries' : entries'[j] = polled[k]
        BY <1>1, <1>9, SwapRemove
    <2> HIDE DEF block
    <2>4. OfRanges(entries', block, last)
        BY <1>5, <2>2, <2>3 DEF OfRanges
    <2>5. Disjoint(entries')
        BY <1>5, <2>3 DEF Disjoint
    <2>6. TakenCareOf(entries', last)
        BY <1>6, <2>2, <2>3 DEF TakenCareOf
    <2>7. TakenCareOfAt(entries', block)
        <3> SUFFICES ASSUME NEW log \in Log, logBlock[log] > started, logBlock[log] <= block,
                            log \notin relayed
                     PROVE  \E j \in DOMAIN entries' :
                               entries'[j].future = log /\ entries'[j].order = block
            BY DEF TakenCareOfAt
        <3>1. logBlock[log] <= last
            BY <1>3, <2>1
        <3>2. PICK k \in DOMAIN polled : polled[k].future = log
            BY <1>6, <3>1 DEF TakenCareOf
        <3>3. k # i
            BY <2>2, <3>2
        <3>4. ~(block < polled[k].order)
            BY <1>3, <1>5, <2>1, <3>2 DEF Disjoint, block
        <3>5. polled[k].order = block
            BY <1>7, <2>1, <2>2, <3>4
        <3> QED
            BY <2>3, <3>2, <3>3, <3>5
    <2> QED
        BY <1>3, <1>9, <2>1, <2>3, <2>4, <2>5, <2>6, <2>7 DEF block
<1> QED
    BY <1>2, <1>8, <1>9

(* A sequence of blocks and `count` logs of one more block. *)
LEMMA Extended ==
    ASSUME NEW S, NEW s \in Seq(S), NEW b \in S, NEW count \in Nat
    PROVE  LET t == s \o [i \in 1 .. count |-> b] IN
           /\ t \in Seq(S) /\ DOMAIN t = 1 .. (Len(s) + count)
           /\ \A i \in DOMAIN t : \/ i \in 1 .. Len(s) /\ t[i] = s[i]
                                  \/ i > Len(s) /\ t[i] = b
           /\ \A i \in 1 .. Len(s) : i \in DOMAIN t /\ t[i] = s[i]
<1> DEFINE new == [i \in 1 .. count |-> b]
           t == s \o new
<1>1. new \in Seq(S) /\ Len(new) = count /\ \A i \in 1 .. count : new[i] = b
    OBVIOUS
<1> HIDE DEF new
<1>2. /\ t \in Seq(S) /\ Len(t) = Len(s) + count
      /\ \A i \in 1 .. Len(s) + count : t[i] = IF i <= Len(s) THEN s[i] ELSE new[i - Len(s)]
    BY <1>1, ConcatProperties
<1> HIDE DEF t
<1>3. Len(s) \in Nat /\ DOMAIN t = 1 .. (Len(s) + count)
    BY <1>2
<1>4. ASSUME NEW i \in DOMAIN t
      PROVE  (i \in 1 .. Len(s) /\ t[i] = s[i]) \/ (i > Len(s) /\ t[i] = b)
    <2>1. CASE i <= Len(s)
        <3>1. i \in 1 .. Len(s) + count /\ i \in 1 .. Len(s)
            BY <1>3, <2>1
        <3>2. t[i] = s[i]
            BY <1>2, <2>1, <3>1
        <3> QED
            BY <3>1, <3>2
    <2>2. CASE i > Len(s)
        <3>1. i - Len(s) \in 1 .. count
            BY <1>3, <2>2
        <3> QED
            BY <1>1, <1>2, <1>3, <2>2, <3>1
    <2> QED
        BY <1>3, <2>1, <2>2
<1>5. \A i \in 1 .. Len(s) : i \in DOMAIN t /\ t[i] = s[i]
    BY <1>2, <1>3
<1>6. /\ t \in Seq(S) /\ DOMAIN t = 1 .. (Len(s) + count)
      /\ \A i \in DOMAIN t : \/ i \in 1 .. Len(s) /\ t[i] = s[i]
                             \/ i > Len(s) /\ t[i] = b
      /\ \A i \in 1 .. Len(s) : i \in DOMAIN t /\ t[i] = s[i]
    BY <1>2, <1>3, <1>4, <1>5
<1> QED
    BY <1>6 DEF t, new

(* One sequence after another. *)
LEMMA Joined ==
    ASSUME NEW S, NEW s \in Seq(S), NEW new \in Seq(S)
    PROVE  LET t == s \o new IN
           /\ t \in Seq(S)
           /\ \A i \in DOMAIN t : \/ i \in DOMAIN s /\ t[i] = s[i]
                                  \/ \E j \in DOMAIN new : t[i] = new[j]
           /\ \A i \in DOMAIN s : i \in DOMAIN t /\ t[i] = s[i]
           /\ \A j \in DOMAIN new : \E i \in DOMAIN t : t[i] = new[j]
<1> DEFINE t == s \o new
<1>1. /\ t \in Seq(S) /\ Len(t) = Len(s) + Len(new)
      /\ \A i \in 1 .. Len(s) + Len(new) :
            t[i] = IF i <= Len(s) THEN s[i] ELSE new[i - Len(s)]
    BY ConcatProperties
<1> HIDE DEF t
<1>2. /\ Len(s) \in Nat /\ DOMAIN s = 1 .. Len(s) /\ Len(new) \in Nat
      /\ DOMAIN new = 1 .. Len(new) /\ DOMAIN t = 1 .. Len(s) + Len(new)
    BY <1>1
<1>3. ASSUME NEW i \in DOMAIN t
      PROVE  (i \in DOMAIN s /\ t[i] = s[i]) \/ \E j \in DOMAIN new : t[i] = new[j]
    <2>1. CASE i <= Len(s)
        <3>1. i \in DOMAIN s
            BY <1>2, <2>1
        <3>2. t[i] = s[i]
            BY <1>1, <1>2, <2>1
        <3> QED
            BY <3>1, <3>2
    <2>2. CASE i > Len(s)
        <3>1. i - Len(s) \in DOMAIN new
            BY <1>2, <2>2
        <3>2. t[i] = new[i - Len(s)]
            BY <1>1, <1>2, <2>2
        <3> QED
            BY <3>1, <3>2
    <2> QED
        BY <1>2, <2>1, <2>2
<1>4. \A i \in DOMAIN s : i \in DOMAIN t /\ t[i] = s[i]
    BY <1>1, <1>2
<1>5. ASSUME NEW j \in DOMAIN new PROVE \E i \in DOMAIN t : t[i] = new[j]
    <2>1. Len(s) + j \in DOMAIN t /\ ~(Len(s) + j <= Len(s)) /\ Len(s) + j - Len(s) = j
        BY <1>2
    <2>2. t[Len(s) + j] = new[j]
        BY <1>1, <1>2, <2>1
    <2> QED
        BY <2>1, <2>2
<1> QED
    BY <1>1, <1>3, <1>4, <1>5 DEF t

-----------------------------------------------------------------------------
LEMMA InitInv == Init => Inv
<1> SUFFICES ASSUME Init PROVE Inv
    OBVIOUS
<1>1. /\ head = 0 /\ logBlock = <<>> /\ entries = <<>> /\ done = {} /\ relayed = {}
      /\ pc = "poll" /\ yielded = 0 /\ started = 0 /\ database = 0 /\ failures = 0
      /\ bnState = "AwaitInterval" /\ bnLast = 0 /\ lsLast = 0
      /\ lsState = Logs!AwaitBlockNumber
    BY DEF Init, Logs!Start, Logs!BlockNumbers!Start
<1>2. Log = {} /\ DOMAIN entries = {} /\ Pending = {}
    BY <1>1 DEF Log, Pending
<1>3. TypeOK
    BY <1>1, RelayAssumption DEF TypeOK, Logs!TypeOK, Relays!TypeOK, Log
<1>4. ChainOrdered /\ BlocksAreOrdered
    BY <1>1, <1>2 DEF ChainOrdered, BlocksAreOrdered, Confirmed
<1>5. OfRanges(entries, yielded, lsLast) /\ Disjoint(entries) /\ done \subseteq relayed
    BY <1>1, <1>2 DEF OfRanges, Disjoint
<1>6. NoLogIsSkipped /\ RelaysAreFinal /\ EarlierRangesAreRelayed
    BY <1>1, <1>2 DEF NoLogIsSkipped, RelaysAreFinal, EarlierRangesAreRelayed
<1> QED
    BY <1>3, <1>4, <1>5, <1>6 DEF Inv

(***************************************************************************)
(* A new block, or a longer chain: what is confirmed stays, and what is    *)
(* new is beyond the blocks checked.                                       *)
(***************************************************************************)
LEMMA ChainStep ==
    ASSUME Inv, head' \in 0 .. MaxBlock, head' = head + 1,
           logBlock' \in Seq(1 .. MaxBlock), ChainOrdered',
           \A log \in Log : logBlock[log] + confirmations <= head =>
              log \in DOMAIN logBlock' /\ logBlock'[log] = logBlock[log],
           \A log \in DOMAIN logBlock' :
              logBlock'[log] > lsLast \/ (log \in Log /\ logBlock'[log] = logBlock[log]),
           UNCHANGED <<nodeVars, database, relayed, failures>>
    PROVE  Inv'
<1>1. Log' = DOMAIN logBlock'
    BY DEF Log
<1>2. /\ head \in Nat /\ confirmations \in Nat /\ bnLast \in Nat
      /\ \A log \in Log : logBlock[log] \in Nat
      /\ started \in Nat /\ yielded \in Nat /\ lsLast \in Nat
    BY RelayAssumption DEF Inv, TypeOK, Logs!TypeOK, ChainOrdered
<1>3. /\ UNCHANGED <<bnState, bnLast, lsState, lsLast, entries, done, pc, yielded, started>>
      /\ UNCHANGED <<database, relayed, failures>>
    BY DEF nodeVars, logStreamVars
<1>4. \A log : log \in Log /\ logBlock[log] + confirmations <= head =>
         log \in Log' /\ logBlock'[log] = logBlock[log] /\ logBlock'[log] + confirmations <= head'
    BY <1>1, <1>2
<1>5. RelaysAreFinal'
    BY <1>3, <1>4 DEF Inv, RelaysAreFinal, Pending
<1>6. TypeOK'
    <2>1. relayed' \subseteq Log'
        BY <1>3, <1>4 DEF Inv, RelaysAreFinal
    <2> QED
        BY <1>3, <2>1 DEF Inv, TypeOK, Logs!TypeOK, Relays!TypeOK
<1>7. BlocksAreOrdered'
    BY <1>2, <1>3 DEF Inv, BlocksAreOrdered, Confirmed
<1>8. OfRanges(entries, yielded, lsLast)' /\ Disjoint(entries)'
    BY <1>3, <1>4 DEF Inv, OfRanges, Disjoint
<1>9. \A log \in Log' : logBlock'[log] <= lsLast => log \in Log /\ logBlock'[log] = logBlock[log]
    <2>1. \A log \in Log' : logBlock'[log] \in Nat
        BY DEF ChainOrdered
    <2> QED
        BY <1>1, <1>2, <2>1
<1>10. NoLogIsSkipped'
    BY <1>3, <1>9 DEF Inv, NoLogIsSkipped, Pending
<1>11. EarlierRangesAreRelayed'
    <2>1. \A log \in Log' : logBlock'[log] <= yielded => logBlock'[log] <= lsLast
        <3>1. \A log \in Log' : logBlock'[log] \in Nat
            BY DEF ChainOrdered
        <3>2. yielded <= lsLast
            BY DEF Inv, BlocksAreOrdered
        <3> QED
            BY <1>2, <3>1, <3>2
    <2> QED
        BY <1>3, <1>9, <2>1 DEF Inv, EarlierRangesAreRelayed
<1> QED
    BY <1>3, <1>5, <1>6, <1>7, <1>8, <1>10, <1>11 DEF Inv

LEMMA MineInv == ASSUME Inv, NEW count \in Nat, mine(count) PROVE Inv'
<1> DEFINE n == Len(logBlock)
<1>1. /\ logBlock \in Seq(1 .. MaxBlock) /\ n \in Nat /\ Log = 1 .. n
      /\ head \in 0 .. MaxBlock /\ lsLast \in Nat /\ bnLast \in Nat
      /\ MaxBlock \in Nat /\ confirmations \in Nat
    BY RelayAssumption DEF Inv, TypeOK, Log, Logs!TypeOK
<1>2. /\ head < MaxBlock /\ head' = head + 1 /\ head + 1 \in 1 .. MaxBlock
      /\ logBlock' = logBlock \o [i \in 1 .. count |-> head + 1]
    BY <1>1 DEF mine
<1>3. /\ logBlock' \in Seq(1 .. MaxBlock)
      /\ \A log \in DOMAIN logBlock' : \/ log \in 1 .. n /\ logBlock'[log] = logBlock[log]
                                       \/ log > n /\ logBlock'[log] = head + 1
      /\ \A log \in 1 .. n : log \in DOMAIN logBlock' /\ logBlock'[log] = logBlock[log]
    BY <1>1, <1>2, Extended
<1> HIDE DEF n
<1>4. \A log \in 1 .. n : logBlock[log] \in 1 .. head
    BY <1>1 DEF Inv, ChainOrdered
<1>5. ChainOrdered'
    <2>1. ASSUME NEW log \in DOMAIN logBlock' PROVE logBlock'[log] \in 1 .. (head + 1)
        <3>1. logBlock'[log] \in 1 .. head \/ logBlock'[log] = head + 1
            BY <1>3, <1>4
        <3> QED
            BY <1>1, <3>1
    <2>2. ASSUME NEW log1 \in DOMAIN logBlock', NEW log2 \in DOMAIN logBlock', log1 <= log2
          PROVE  logBlock'[log1] <= logBlock'[log2]
        <3>1. log1 \in Int /\ log2 \in Int
            BY <1>3
        <3>2. CASE log2 > n
            <4>1. logBlock'[log2] = head + 1
                BY <1>1, <1>3, <3>2
            <4> QED
                BY <1>1, <2>1, <4>1
        <3>3. CASE log2 \in 1 .. n
            <4>1. log1 \in 1 .. n
                BY <1>1, <1>3, <2>2, <3>1, <3>3
            <4>2. logBlock[log1] <= logBlock[log2]
                BY <1>1, <2>2, <3>3, <4>1 DEF Inv, ChainOrdered
            <4> QED
                BY <1>3, <3>3, <4>1, <4>2
        <3> QED
            BY <1>3, <3>2, <3>3
    <2> QED
        BY <1>2, <2>1, <2>2 DEF ChainOrdered, Log
<1>6. lsLast <= head
    BY <1>1 DEF Inv, BlocksAreOrdered, Confirmed
<1>7. head + 1 > lsLast
    BY <1>1, <1>6
<1>8. ASSUME NEW log \in DOMAIN logBlock'
      PROVE  logBlock'[log] > lsLast \/ (log \in Log /\ logBlock'[log] = logBlock[log])
    BY <1>1, <1>3, <1>7
<1> QED
    BY <1>1, <1>2, <1>3, <1>5, <1>8, ChainStep DEF mine

LEMMA ReorganiseInv ==
    ASSUME Inv, NEW depth \in 1 .. confirmations, NEW block \in 1 .. MaxBlock,
           NEW count \in Nat, reorganise(depth, block, count)
    PROVE  Inv'
<1> DEFINE n == logsUpTo(head - depth)
           kept == SubSeq(logBlock, 1, n)
<1>1. /\ logBlock \in Seq(1 .. MaxBlock) /\ Len(logBlock) \in Nat /\ Log = 1 .. Len(logBlock)
      /\ head \in 0 .. MaxBlock /\ lsLast \in Nat /\ bnLast \in Nat
      /\ MaxBlock \in Nat /\ confirmations \in Nat
    BY RelayAssumption DEF Inv, TypeOK, Log, Logs!TypeOK
<1>2. /\ head < MaxBlock /\ head' = head + 1 /\ head + 1 \in 0 .. MaxBlock /\ depth <= head
      /\ block \in (head - depth + 1) .. (head + 1)
      /\ logBlock' = kept \o [i \in 1 .. count |-> block]
    BY <1>1 DEF reorganise
<1>3. n \in 0 .. Len(logBlock) /\ \A log \in Log : logBlock[log] <= head - depth <=> log <= n
    BY <1>1, head - depth \in Int, LogsUpTo DEF Inv
<1> HIDE DEF n
<1>4. kept \in Seq(1 .. MaxBlock) /\ Len(kept) = n /\ \A i \in 1 .. n : kept[i] = logBlock[i]
    BY <1>1, <1>3
<1> HIDE DEF kept
<1>5. /\ logBlock' \in Seq(1 .. MaxBlock)
      /\ \A log \in DOMAIN logBlock' : \/ log \in 1 .. n /\ logBlock'[log] = logBlock[log]
                                       \/ log > n /\ logBlock'[log] = block
      /\ \A log \in 1 .. n : log \in DOMAIN logBlock' /\ logBlock'[log] = logBlock[log]
    BY <1>2, <1>4, Extended
<1>6. \A log \in 1 .. n :
         log \in Log /\ logBlock[log] \in 1 .. head /\ logBlock[log] <= head - depth
    BY <1>1, <1>3 DEF Inv, ChainOrdered
<1>7. ChainOrdered'
    <2>1. ASSUME NEW log \in DOMAIN logBlock'
          PROVE  logBlock'[log] \in 1 .. (head + 1) /\ logBlock'[log] <= block
        <3>1. CASE log \in 1 .. n
            <4>1. logBlock'[log] = logBlock[log]
                BY <1>5, <3>1
            <4>2. logBlock'[log] \in 1 .. head /\ logBlock'[log] <= head - depth
                BY <1>6, <3>1, <4>1
            <4> QED
                BY <1>1, <1>2, <4>2
        <3>2. CASE logBlock'[log] = block
            BY <1>1, <1>2, <3>2
        <3> QED
            BY <1>5, <3>1, <3>2
    <2>2. ASSUME NEW log1 \in DOMAIN logBlock', NEW log2 \in DOMAIN logBlock', log1 <= log2
          PROVE  logBlock'[log1] <= logBlock'[log2]
        <3>1. log1 \in Int /\ log2 \in Int
            BY <1>5
        <3>2. CASE log2 > n
            <4>1. logBlock'[log2] = block
                BY <1>3, <1>5, <3>2
            <4> QED
                BY <2>1, <4>1
        <3>3. CASE log2 \in 1 .. n
            <4>1. log1 \in 1 .. n
                BY <1>3, <1>5, <2>2, <3>1, <3>3
            <4>2. logBlock[log1] <= logBlock[log2]
                BY <1>6, <2>2, <3>3, <4>1 DEF Inv, ChainOrdered
            <4> QED
                BY <1>5, <3>3, <4>1, <4>2
        <3> QED
            BY <1>5, <3>2, <3>3
    <2> QED
        BY <1>2, <2>1, <2>2 DEF ChainOrdered, Log
<1>8. lsLast = 0 \/ lsLast + confirmations <= head
    BY <1>1 DEF Inv, BlocksAreOrdered, Confirmed
<1>9. block > lsLast
    BY <1>1, <1>2, <1>8
<1>10. ASSUME NEW log \in DOMAIN logBlock'
       PROVE  logBlock'[log] > lsLast \/ (log \in Log /\ logBlock'[log] = logBlock[log])
    BY <1>5, <1>6, <1>9
<1>11. ASSUME NEW log \in Log, logBlock[log] + confirmations <= head
       PROVE  log \in DOMAIN logBlock' /\ logBlock'[log] = logBlock[log]
    <2>1. logBlock[log] \in Nat /\ logBlock[log] <= head - depth
        BY <1>1, <1>11 DEF Inv, ChainOrdered
    <2>2. log \in 1 .. n
        BY <1>1, <1>3, <2>1
    <2> QED
        BY <1>5, <2>2
<1> QED
    BY <1>1, <1>2, <1>5, <1>7, <1>10, <1>11, ChainStep DEF reorganise

-----------------------------------------------------------------------------
(* The log stream and its block number stream. *)
StreamsAreOrdered ==
    /\ Logs!TypeOK
    /\ lsLast <= bnLast /\ Confirmed(bnLast)
    /\ lsState = Logs!AwaitBlockNumber => bnLast = lsLast
    /\ lsState # Logs!AwaitBlockNumber =>
          lsState = Logs!AwaitLogs(lsLast + 1, bnLast) /\ lsLast < bnLast

(* What the logs of a range, if any, and poll make of the entries. *)
LEMMA PollInv ==
    ASSUME Inv, pc = "poll", NEW es \in Seq(Relays!Entry), NEW last \in Nat, yielded <= last,
           OfRanges(es, yielded, last), Disjoint(es),
           TakenCareOf(es, last), TakenCareOfAt(es, yielded),
           pollRelays(es), lsLast' = last, StreamsAreOrdered',
           UNCHANGED <<chainVars, done, started, database, relayed, failures>>
    PROVE  Inv' /\ yielded' >= yielded
<1>1. /\ entries' \in Seq(Relays!Entry)
      /\ OfRanges(entries', yielded', last) /\ Disjoint(entries')
      /\ TakenCareOf(entries', last) /\ TakenCareOfAt(entries', yielded')
      /\ yielded' \in yielded .. last
      /\ pc' = "write" \/ UNCHANGED <<pc, yielded>>
    BY PollRelays DEF Inv
<1>2. /\ UNCHANGED <<head, logBlock, done, started, database, relayed, failures>>
      /\ Log' = Log
    BY DEF chainVars, Log
<1>3. /\ yielded \in Nat /\ database \in Nat /\ started \in Nat /\ yielded' \in Nat
      /\ yielded <= yielded' /\ yielded' <= last
    BY <1>1 DEF Inv, TypeOK
<1>4. TypeOK'
    BY <1>1, <1>2, <1>3 DEF Inv, TypeOK, Relays!TypeOK, StreamsAreOrdered
<1>5. ChainOrdered'
    BY <1>2 DEF Inv, ChainOrdered
<1>6. BlocksAreOrdered'
    <2>1. started <= database /\ database = yielded
        BY DEF Inv, BlocksAreOrdered
    <2>2. database <= yielded' /\ yielded' <= lsLast' /\ (pc' = "poll" => database = yielded')
        BY <1>1, <1>3, <2>1
    <2> QED
        BY <1>2, <2>1, <2>2 DEF BlocksAreOrdered, StreamsAreOrdered
<1>7. OfRanges(entries, yielded, lsLast)' /\ Disjoint(entries)'
    BY <1>1, <1>2 DEF OfRanges, Disjoint
<1>8. NoLogIsSkipped'
    <2> SUFFICES ASSUME NEW log \in Log, logBlock[log] > started, logBlock[log] <= last,
                        log \notin relayed
                 PROVE  log \in Pending'
        BY <1>2 DEF NoLogIsSkipped
    <2>1. PICK i \in DOMAIN entries' : entries'[i].future = log
        BY <1>1 DEF TakenCareOf
    <2> QED
        BY <2>1 DEF Pending
<1>9. EarlierRangesAreRelayed'
    BY <1>1, <1>2 DEF EarlierRangesAreRelayed, TakenCareOfAt
<1>10. RelaysAreFinal'
    <2>1. \A log \in relayed : log \in Log /\ logBlock[log] + confirmations <= head
        BY DEF Inv, RelaysAreFinal
    <2>2. \A i \in DOMAIN entries' :
             entries'[i].future \in Log /\ logBlock[entries'[i].future] + confirmations <= head
        BY <1>1 DEF OfRanges
    <2> QED
        BY <1>2, <2>1, <2>2 DEF RelaysAreFinal, Pending
<1> QED
    BY <1>2, <1>3, <1>4, <1>5, <1>6, <1>7, <1>8, <1>9, <1>10 DEF Inv

(* The entries there are satisfy what PollInv asks for. *)
LEMMA EntriesTakeCare ==
    ASSUME Inv, pc # "down"
    PROVE  /\ entries \in Seq(Relays!Entry) /\ lsLast \in Nat /\ yielded \in Nat
           /\ yielded <= lsLast
           /\ TakenCareOf(entries, lsLast) /\ TakenCareOfAt(entries, yielded)
<1>1. /\ entries \in Seq(Relays!Entry) /\ lsLast \in Nat /\ yielded \in Nat
      /\ yielded <= lsLast
    BY DEF Inv, TypeOK, Relays!TypeOK, Logs!TypeOK, BlocksAreOrdered
<1>2. TakenCareOf(entries, lsLast)
    BY DEF Inv, NoLogIsSkipped, Pending, TakenCareOf
<1>3. TakenCareOfAt(entries, yielded)
    BY DEF Inv, EarlierRangesAreRelayed, TakenCareOfAt
<1> QED
    BY <1>1, <1>2, <1>3

LEMMA PollWithoutLogsInv == ASSUME Inv, pollWithoutLogs PROVE Inv' /\ yielded' >= yielded
<1>1. /\ pc = "poll" /\ pollRelays(entries)
      /\ UNCHANGED <<chainVars, done, started, database, relayed, failures>>
    BY DEF pollWithoutLogs
<1>2. /\ Logs!TypeOK /\ head \in Nat /\ confirmations \in Nat /\ head' = head
      /\ bnLast \in Nat /\ lsLast \in Nat
      /\ lsLast <= bnLast /\ Confirmed(bnLast)
      /\ lsState = Logs!AwaitBlockNumber => bnLast = lsLast
    BY <1>1, RelayAssumption DEF Inv, TypeOK, BlocksAreOrdered, Logs!TypeOK, chainVars
<1>3. CASE UNCHANGED <<bnLast, lsState, lsLast>> /\ bnState' \in {"AwaitInterval", "AwaitBlockNumber"}
    <2>1. StreamsAreOrdered'
        BY <1>2, <1>3 DEF Inv, BlocksAreOrdered, StreamsAreOrdered, Logs!TypeOK, Confirmed
    <2> QED
        BY <1>1, <1>3, <2>1, EntriesTakeCare, PollInv DEF Inv
<1>4. CASE Logs!pollRequestLogs
    <2>1. /\ lsState = Logs!AwaitBlockNumber /\ bnLast < bnLast'
          /\ bnLast' = IF head > confirmations THEN head - confirmations ELSE 0
          /\ lsState' = Logs!AwaitLogs(lsLast + 1, bnLast')
          /\ bnState' = "AwaitInterval" /\ lsLast' = lsLast
        BY <1>4 DEF Logs!pollRequestLogs, Logs!BlockNumbers!pollNewBlock, Logs!fromBlock,
            Logs!BlockNumbers!last_confirmed_block, Logs!BlockNumbers!saturating_sub
    <2>2. bnLast' \in Nat /\ bnLast' + confirmations <= head /\ lsLast < bnLast'
        BY <1>2, <2>1
    <2>3. StreamsAreOrdered'
        BY <1>2, <2>1, <2>2 DEF StreamsAreOrdered, Logs!TypeOK, Logs!AwaitLogs, Confirmed,
            Logs!AwaitBlockNumber
    <2> QED
        BY <1>1, <2>1, <2>3, EntriesTakeCare, PollInv DEF Inv
<1>5. CASE Logs!pollBlockNumber
    BY <1>3, <1>5 DEF Logs!pollBlockNumber, Logs!BlockNumbers!pollInterval,
        Logs!BlockNumbers!pollNoNewBlock
<1>6. CASE UNCHANGED logStreamVars
    BY <1>2, <1>3, <1>6 DEF logStreamVars, Logs!TypeOK
<1> QED
    BY <1>4, <1>5, <1>6 DEF pollWithoutLogs

LEMMA PollWithLogsInv ==
    ASSUME Inv, pollWithLogs(lsState.from, lsState.to)
    PROVE  Inv' /\ yielded' >= yielded
<1> DEFINE from == lsState.from
           to   == lsState.to
           new  == relayFutures(from, to)
           es   == entries \o new
<1>1. /\ pc = "poll" /\ pollRelays(es)
      /\ lsState = Logs!AwaitLogs(from, to)
      /\ lsLast' = to /\ lsState' = Logs!AwaitBlockNumber /\ bnState' = bnState /\ bnLast' = bnLast
      /\ UNCHANGED <<chainVars, done, started, database, relayed, failures>>
    BY DEF pollWithLogs, Logs!pollLogs
<1>2. /\ Logs!TypeOK /\ head \in Nat /\ confirmations \in Nat /\ head' = head
      /\ bnLast \in Nat /\ lsLast \in Nat /\ started \in Nat
      /\ Confirmed(bnLast)
    BY <1>1, RelayAssumption DEF Inv, TypeOK, BlocksAreOrdered, Logs!TypeOK, chainVars
<1>3. from = lsLast + 1 /\ to = bnLast /\ lsLast < bnLast
    <2>1. lsState # Logs!AwaitBlockNumber
        BY <1>1 DEF Logs!AwaitLogs, Logs!AwaitBlockNumber
    <2>2. lsState = Logs!AwaitLogs(lsLast + 1, bnLast) /\ lsLast < bnLast
        BY <2>1 DEF Inv, BlocksAreOrdered
    <2> QED
        BY <2>2 DEF Logs!AwaitLogs
<1> HIDE DEF from, to
<1>4. /\ new \in Seq(Relays!Entry)
      /\ \A i \in DOMAIN new :
            /\ new[i].future \in Log /\ logBlock[new[i].future] \in from .. to
            /\ new[i].order = to /\ ~new[i].ready
      /\ \A log \in Log : logBlock[log] \in from .. to =>
            \E i \in DOMAIN new : new[i].future = log
    <2>1. from \in Nat /\ to \in Nat /\ from <= to
        BY <1>2, <1>3
    <2> QED
        BY <2>1, RangeFutures DEF Inv
<1>5. /\ entries \in Seq(Relays!Entry) /\ yielded \in Nat /\ yielded <= lsLast
      /\ OfRanges(entries, yielded, lsLast) /\ Disjoint(entries)
      /\ TakenCareOf(entries, lsLast) /\ TakenCareOfAt(entries, yielded)
    BY <1>1, EntriesTakeCare DEF Inv
<1> HIDE DEF new
<1>6. /\ es \in Seq(Relays!Entry)
      /\ \A i \in DOMAIN es : \/ i \in DOMAIN entries /\ es[i] = entries[i]
                              \/ \E j \in DOMAIN new : es[i] = new[j]
      /\ \A i \in DOMAIN entries : i \in DOMAIN es /\ es[i] = entries[i]
      /\ \A j \in DOMAIN new : \E i \in DOMAIN es : es[i] = new[j]
    BY <1>4, <1>5, Joined
<1> HIDE DEF es
<1>7. \A log \in Log : logBlock[log] \in Nat
    BY DEF Inv, ChainOrdered
<1>8. to \in Nat /\ to + confirmations <= head /\ yielded <= to /\ lsLast <= to
    BY <1>2, <1>3, <1>5 DEF Confirmed
<1>9. \A i \in DOMAIN new :
         /\ new[i].future \in Log /\ logBlock[new[i].future] + confirmations <= head
         /\ logBlock[new[i].future] <= to /\ logBlock[new[i].future] > lsLast
    BY <1>2, <1>3, <1>4, <1>7, <1>8
<1>10. \A i \in DOMAIN entries : entries[i].order \in Nat /\ entries[i].order <= lsLast
    <2>1. \A i \in DOMAIN entries : entries[i] \in Relays!Entry
        BY <1>5
    <2> QED
        BY <1>5, <2>1 DEF OfRanges, Relays!Entry
<1>11. OfRanges(es, yielded, to)
    <2> SUFFICES ASSUME NEW i \in DOMAIN es
                 PROVE  /\ es[i].future \in Log /\ logBlock[es[i].future] + confirmations <= head
                        /\ logBlock[es[i].future] <= es[i].order
                        /\ yielded <= es[i].order /\ es[i].order <= to
                        /\ es[i].ready => es[i].future \in relayed
        BY DEF OfRanges
    <2>1. CASE i \in DOMAIN entries /\ es[i] = entries[i]
        BY <1>2, <1>5, <1>8, <1>10, <2>1 DEF OfRanges
    <2>2. CASE \E j \in DOMAIN new : es[i] = new[j]
        <3>1. PICK j \in DOMAIN new : es[i] = new[j]
            BY <2>2
        <3> QED
            BY <1>4, <1>8, <1>9, <3>1
    <2> QED
        BY <1>6, <2>1, <2>2
<1>12. Disjoint(es)
    <2> SUFFICES ASSUME NEW i \in DOMAIN es, NEW j \in DOMAIN es, es[i].order < es[j].order
                 PROVE  es[i].order < logBlock[es[j].future]
        BY DEF Disjoint
    <2>1. CASE i \in DOMAIN entries /\ es[i] = entries[i]
        <3>1. CASE j \in DOMAIN entries /\ es[j] = entries[j]
            BY <1>5, <2>1, <3>1 DEF Disjoint
        <3>2. CASE \E k \in DOMAIN new : es[j] = new[k]
            BY <1>2, <1>7, <1>9, <1>10, <2>1, <3>2
        <3> QED
            BY <1>6, <3>1, <3>2
    <2>2. CASE es[i].order = to
        <3>1. CASE j \in DOMAIN entries /\ es[j] = entries[j]
            BY <1>2, <1>8, <1>10, <2>2, <3>1
        <3>2. CASE \E k \in DOMAIN new : es[j] = new[k]
            BY <1>4, <1>8, <2>2, <3>2
        <3> QED
            BY <1>6, <3>1, <3>2
    <2> QED
        BY <1>4, <1>6, <2>1, <2>2
<1>13. TakenCareOf(es, to)
    <2> SUFFICES ASSUME NEW log \in Log, logBlock[log] > started, logBlock[log] <= to,
                        log \notin relayed
                 PROVE  \E i \in DOMAIN es : es[i].future = log
        BY DEF TakenCareOf
    <2>1. CASE logBlock[log] <= lsLast
        <3>1. PICK i \in DOMAIN entries : entries[i].future = log
            BY <1>5, <2>1 DEF TakenCareOf
        <3> QED
            BY <1>6, <3>1
    <2>2. CASE logBlock[log] > lsLast
        <3>1. logBlock[log] \in from .. to
            BY <1>2, <1>3, <1>7, <1>8, <2>2
        <3>2. PICK j \in DOMAIN new : new[j].future = log
            BY <1>4, <3>1
        <3> QED
            BY <1>6, <3>2
    <2> QED
        BY <1>2, <1>7, <2>1, <2>2
<1>14. TakenCareOfAt(es, yielded)
    BY <1>5, <1>6 DEF TakenCareOfAt
<1>15. StreamsAreOrdered'
    BY <1>1, <1>2, <1>3 DEF StreamsAreOrdered, Logs!TypeOK, Confirmed
<1> QED
    BY <1>1, <1>6, <1>8, <1>11, <1>12, <1>13, <1>14, <1>15, PollInv

-----------------------------------------------------------------------------
LEMMA WriteInv == ASSUME Inv, write PROVE Inv'
<1>1. /\ pc = "write" /\ pc' = "poll" /\ database' = yielded
      /\ UNCHANGED <<head, logBlock, bnState, bnLast, lsState, lsLast>>
      /\ UNCHANGED <<entries, done, yielded, started, relayed, failures>>
      /\ Log' = Log /\ Pending' = Pending
    BY DEF write, chainVars, logStreamVars, Log, Pending
<1>2. TypeOK'
    BY <1>1 DEF Inv, TypeOK, Logs!TypeOK, Relays!TypeOK
<1>3. started \in Nat /\ database \in Nat /\ yielded \in Nat
    BY DEF Inv, TypeOK
<1>4. BlocksAreOrdered'
    BY <1>1, <1>3 DEF Inv, BlocksAreOrdered, Confirmed
<1>5. ChainOrdered' /\ OfRanges(entries, yielded, lsLast)' /\ Disjoint(entries)'
    BY <1>1 DEF Inv, ChainOrdered, OfRanges, Disjoint
<1>6. NoLogIsSkipped' /\ RelaysAreFinal' /\ EarlierRangesAreRelayed'
    BY <1>1 DEF Inv, NoLogIsSkipped, RelaysAreFinal, EarlierRangesAreRelayed
<1> QED
    BY <1>1, <1>2, <1>4, <1>5, <1>6 DEF Inv

LEMMA CompleteRelayInv == ASSUME Inv, NEW log \in Log, completeRelay(log) PROVE Inv'
<1>1. /\ done' = done \cup {log} /\ relayed' = relayed \cup {log}
      /\ UNCHANGED <<head, logBlock, bnState, bnLast, lsState, lsLast>>
      /\ UNCHANGED <<entries, pc, yielded, started, database, failures>>
      /\ Log' = Log /\ Pending' = Pending
      /\ log \in Pending
    BY DEF completeRelay, chainVars, logStreamVars, Log, Pending
<1>2. log \in Nat
    BY DEF Inv, TypeOK, Log
<1>3. TypeOK'
    BY <1>1, <1>2 DEF Inv, TypeOK, Logs!TypeOK, Relays!TypeOK
<1>4. BlocksAreOrdered' /\ ChainOrdered'
    BY <1>1 DEF Inv, BlocksAreOrdered, ChainOrdered, Confirmed
<1>5. OfRanges(entries, yielded, lsLast)' /\ Disjoint(entries)'
    BY <1>1 DEF Inv, OfRanges, Disjoint
<1>6. NoLogIsSkipped' /\ EarlierRangesAreRelayed'
    BY <1>1 DEF Inv, NoLogIsSkipped, EarlierRangesAreRelayed
<1>7. RelaysAreFinal'
    BY <1>1 DEF Inv, RelaysAreFinal
<1> QED
    BY <1>1, <1>3, <1>4, <1>5, <1>6, <1>7 DEF Inv

LEMMA FailInv == ASSUME Inv, fail PROVE Inv'
<1>1. /\ failures' = failures + 1 /\ failures < MaxFailures /\ pc' = "down"
      /\ UNCHANGED <<head, logBlock, bnState, bnLast, lsState, lsLast>>
      /\ UNCHANGED <<entries, done, yielded, started, database, relayed>>
      /\ Log' = Log /\ Pending' = Pending
    BY DEF fail, chainVars, logStreamVars, Log, Pending
<1>2. TypeOK'
    BY <1>1, RelayAssumption DEF Inv, TypeOK, Logs!TypeOK, Relays!TypeOK
<1>3. BlocksAreOrdered' /\ ChainOrdered'
    BY <1>1 DEF Inv, BlocksAreOrdered, ChainOrdered, Confirmed
<1>4. OfRanges(entries, yielded, lsLast)' /\ Disjoint(entries)'
    BY <1>1 DEF Inv, OfRanges, Disjoint
<1>5. NoLogIsSkipped' /\ RelaysAreFinal' /\ EarlierRangesAreRelayed'
    BY <1>1 DEF Inv, NoLogIsSkipped, RelaysAreFinal, EarlierRangesAreRelayed
<1> QED
    BY <1>1, <1>2, <1>3, <1>4, <1>5 DEF Inv

(* A restarted node is behind the last block that was confirmed for it. *)
LEMMA RestartInv == ASSUME Inv, restart PROVE Inv'
<1>1. /\ bnState' = "AwaitInterval" /\ bnLast' = database
      /\ lsState' = Logs!AwaitBlockNumber /\ lsLast' = database
      /\ entries' = <<>> /\ done' = {} /\ pc' = "poll"
      /\ yielded' = database /\ started' = database
      /\ UNCHANGED <<head, logBlock, database, relayed, failures>>
      /\ Log' = Log
    BY DEF restart, chainVars, Log
<1>2. DOMAIN entries' = {} /\ Pending' = {}
    BY <1>1 DEF Pending
<1>3. database \in Nat /\ bnLast \in Nat /\ head \in Nat /\ confirmations \in Nat
      /\ yielded \in Nat /\ lsLast \in Nat
      /\ \A log \in Log : logBlock[log] \in Nat
    BY RelayAssumption DEF Inv, TypeOK, Logs!TypeOK, ChainOrdered
<1>4. TypeOK'
    BY <1>1, <1>3 DEF Inv, TypeOK, Logs!TypeOK, Relays!TypeOK
<1>5. database <= bnLast
    BY <1>3 DEF Inv, BlocksAreOrdered
<1>6. database = 0 \/ database + confirmations <= head
    BY <1>3, <1>5 DEF Inv, BlocksAreOrdered, Confirmed
<1>7. BlocksAreOrdered'
    BY <1>1, <1>3, <1>6 DEF BlocksAreOrdered, Confirmed
<1>8. ChainOrdered' /\ OfRanges(entries, yielded, lsLast)' /\ Disjoint(entries)'
    BY <1>1, <1>2 DEF Inv, ChainOrdered, OfRanges, Disjoint
<1>9. NoLogIsSkipped' /\ EarlierRangesAreRelayed'
    BY <1>1, <1>3 DEF NoLogIsSkipped, EarlierRangesAreRelayed
<1>10. RelaysAreFinal'
    BY <1>1, <1>2 DEF Inv, RelaysAreFinal
<1> QED
    BY <1>1, <1>4, <1>7, <1>8, <1>9, <1>10 DEF Inv

LEMMA NextInv == Inv /\ [Next]_vars => Inv'
<1> SUFFICES ASSUME Inv, [Next]_vars PROVE Inv'
    OBVIOUS
<1>1. ASSUME NEW count \in 0 .. MaxLogs, mine(count) PROVE Inv'
    BY <1>1, MineInv, RelayAssumption
<1>2. ASSUME NEW depth \in 1 .. confirmations, NEW block \in 1 .. MaxBlock,
             NEW count \in 0 .. MaxLogs, reorganise(depth, block, count)
      PROVE  Inv'
    BY <1>2, ReorganiseInv, RelayAssumption
<1>3. CASE poll
    BY <1>3, PollWithoutLogsInv, PollWithLogsInv DEF poll
<1>4. CASE write
    BY <1>4, WriteInv
<1>5. ASSUME NEW log \in Log, completeRelay(log) PROVE Inv'
    BY <1>5, CompleteRelayInv
<1>6. CASE fail
    BY <1>6, FailInv
<1>7. CASE restart
    BY <1>7, RestartInv
<1>8. CASE UNCHANGED vars
    BY <1>8 DEF vars, chainVars, nodeVars, logStreamVars, Inv, TypeOK, Logs!TypeOK,
        Relays!TypeOK, Log, Pending, ChainOrdered, BlocksAreOrdered, Confirmed, OfRanges,
        Disjoint, NoLogIsSkipped, RelaysAreFinal, EarlierRangesAreRelayed
<1> QED
    BY <1>1, <1>2, <1>3, <1>4, <1>5, <1>6, <1>7, <1>8 DEF Next

(***************************************************************************)
(* The inductive invariant holds of every behaviour, whatever the chain    *)
(* does with its unconfirmed blocks and whenever the process ends.         *)
(***************************************************************************)
THEOREM Invariance == Spec => []Inv
    BY InitInv, NextInv, PTL DEF Spec

(***************************************************************************)
(* No log falls between two of the block ranges that log_stream.rs asks    *)
(* for, for any number of confirmations, logs, reorganisations and         *)
(* failures.                                                               *)
(***************************************************************************)
THEOREM NothingIsSkipped == Spec => []NoLogIsSkipped
<1>1. Inv => NoLogIsSkipped
    BY DEF Inv
<1> QED
    BY <1>1, Invariance, PTL

(***************************************************************************)
(* block_number_stream.rs only ever lets a block through that no longer    *)
(* chain takes away: a log that was handed to its relay stays in the       *)
(* chain.                                                                  *)
(***************************************************************************)
THEOREM Finality == Spec => []RelaysAreFinal
<1>1. Inv => RelaysAreFinal
    BY DEF Inv
<1> QED
    BY <1>1, Invariance, PTL

(***************************************************************************)
(* When relay_stream.rs yields a block number all logs of the earlier      *)
(* ranges of this run have been relayed, in whatever order the relays      *)
(* completed.                                                              *)
(***************************************************************************)
THEOREM EarlierRanges == Spec => []EarlierRangesAreRelayed
<1>1. Inv => EarlierRangesAreRelayed
    BY DEF Inv
<1> QED
    BY <1>1, Invariance, PTL

-----------------------------------------------------------------------------
(* What a step of the node does to the block numbers, in the terms of      *)
(* RelayProgress.                                                          *)
LEMMA YieldsAreConfirmed ==
    ASSUME Inv, poll
    PROVE  /\ UNCHANGED <<head, database>>
           /\ yielded \in Nat /\ yielded' \in Nat /\ yielded' >= yielded
           /\ yielded' = yielded \/ yielded' + confirmations <= head
<1>1. Inv' /\ yielded' >= yielded
    BY PollWithoutLogsInv, PollWithLogsInv DEF poll
<1>2. UNCHANGED <<head, database>>
    BY DEF poll, pollWithoutLogs, pollWithLogs, chainVars
<1>3. yielded \in Nat
    BY DEF Inv, TypeOK
<1>4. /\ yielded' \in Nat /\ lsLast' \in Nat /\ bnLast' \in Nat
      /\ yielded' <= lsLast' /\ lsLast' <= bnLast'
      /\ bnLast' = 0 \/ bnLast' + confirmations <= head'
    BY <1>1 DEF Inv, TypeOK, Logs!TypeOK, BlocksAreOrdered, Confirmed
<1>5. head \in Nat /\ confirmations \in Nat
    BY RelayAssumption DEF Inv, TypeOK
<1>6. ASSUME yielded' # yielded PROVE yielded' + confirmations <= head
    <2>1. yielded' > 0
        BY <1>1, <1>3, <1>4, <1>6
    <2>2. bnLast' + confirmations <= head
        BY <1>2, <1>4, <2>1
    <2>3. yielded' \in Nat /\ bnLast' \in Nat /\ yielded' <= bnLast'
        BY <1>4
    <2>4. \A a, b, c, h \in Nat : a <= b /\ b + c <= h => a + c <= h
        OBVIOUS
    <2> QED
        BY <1>5, <2>2, <2>3, <2>4
<1> QED
    BY <1>1, <1>2, <1>3, <1>4, <1>6

LEMMA ProgressStep == Inv /\ [Next]_vars => [Progress!Next]_(Progress!vars)
<1> SUFFICES ASSUME Inv, [Next]_vars PROVE [Progress!Next]_(Progress!vars)
    OBVIOUS
<1>1. /\ head \in Nat /\ confirmations \in Nat /\ yielded \in Nat /\ database \in Nat
      /\ yielded # Progress!None /\ database # Progress!None
    BY RelayAssumption DEF Inv, TypeOK, Progress!None
<1>2. CASE head' = head + 1 /\ UNCHANGED <<yielded, database>>
    BY <1>1, <1>2 DEF Progress!Next, Progress!Chain
<1>3. ASSUME NEW count \in 0 .. MaxLogs, mine(count) PROVE [Progress!Next]_(Progress!vars)
    BY <1>2, <1>3 DEF mine, nodeVars
<1>4. ASSUME NEW depth \in 1 .. confirmations, NEW block \in 1 .. MaxBlock,
             NEW count \in 0 .. MaxLogs, reorganise(depth, block, count)
      PROVE  [Progress!Next]_(Progress!vars)
    BY <1>2, <1>4 DEF reorganise, nodeVars
<1>5. CASE poll
    BY <1>1, <1>5, YieldsAreConfirmed DEF Progress!Next, Progress!Yield, Progress!vars
<1>6. CASE write
    BY <1>1, <1>6 DEF write, chainVars, Progress!Next, Progress!Persist
<1>7. CASE restart
    BY <1>7 DEF restart, chainVars, Progress!Next, Progress!Restart
<1>8. ASSUME NEW log \in Log, completeRelay(log) PROVE UNCHANGED Progress!vars
    BY <1>8 DEF completeRelay, chainVars, Progress!vars
<1>9. CASE fail
    BY <1>9 DEF fail, chainVars, Progress!vars
<1>10. CASE UNCHANGED vars
    BY <1>10 DEF vars, chainVars, nodeVars, Progress!vars
<1> QED
    BY <1>3, <1>4, <1>5, <1>6, <1>7, <1>8, <1>9, <1>10 DEF Next

(***************************************************************************)
(* A relay with its streams, its relays under way, the chain's             *)
(* reorganisations and the restarts of the process implements the promise  *)
(* of RelayProgress about the block number in the database.                *)
(***************************************************************************)
THEOREM Refinement == Spec => ImplementsProgress
<1>1. Init => Progress!Init
    BY DEF Init, Progress!Init
<1>2. Inv /\ [Next]_vars => [Progress!Next]_(Progress!vars)
    BY ProgressStep
<1> QED
    BY <1>1, <1>2, Invariance, PTL DEF Spec, ImplementsProgress, Progress!Spec

LEMMA DatabaseStep ==
    Inv /\ [Next]_vars =>
        [/\ database' >= database
         /\ database' # database => database' + confirmations <= head']_vars
<1> SUFFICES ASSUME Inv, [Next]_vars
             PROVE  /\ database' >= database
                    /\ database' # database => database' + confirmations <= head'
    OBVIOUS
<1>1. /\ head \in Nat /\ confirmations \in Nat /\ yielded \in Nat /\ database \in Nat
      /\ lsLast \in Nat /\ bnLast \in Nat
    BY RelayAssumption DEF Inv, TypeOK, Logs!TypeOK
<1>2. /\ database <= yielded /\ yielded <= lsLast /\ lsLast <= bnLast
      /\ bnLast = 0 \/ bnLast + confirmations <= head
    BY DEF Inv, BlocksAreOrdered, Confirmed
<1>3. \/ UNCHANGED database
      \/ database' = yielded /\ head' = head
    BY DEF Next, mine, reorganise, poll, pollWithoutLogs, pollWithLogs, write, completeRelay,
        fail, restart, chainVars, vars
<1> QED
    BY <1>1, <1>2, <1>3

(***************************************************************************)
(* The block number in the database never goes down, and only a confirmed  *)
(* block gets there.                                                       *)
(***************************************************************************)
THEOREM Monotonicity == Spec => ProgressIsMonotone
    BY DatabaseStep, Invariance, PTL DEF Spec, ProgressIsMonotone
=============================================================================
