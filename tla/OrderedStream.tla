---------------------------- MODULE OrderedStream ----------------------------
(***************************************************************************)
(* OrderedStream (bridge/src/ordered_stream.rs): futures go in with an     *)
(* order; poll yields a completed one when no future of a strictly smaller *)
(* order is still pending.                                                 *)
(*                                                                         *)
(* Completion of a future is external: `done` holds the futures whose own  *)
(* poll would now return Ready.  `ready` of an entry is item_if_ready.     *)
(***************************************************************************)
EXTENDS Integers, Sequences

CONSTANTS Order, Future

VARIABLES
    entries,            \* self.entries
    done                \* futures that have completed

vars == <<entries, done>>

Entry == [order : Order, future : Future, ready : BOOLEAN]

TypeOK ==
    /\ entries \in Seq(Entry)
    /\ done \subseteq Future

Init == entries = <<>> /\ done = {}

-----------------------------------------------------------------------------
newEntry(order, future) == [order |-> order, future |-> future, ready |-> FALSE]

(* The loop of poll: every entry that is not ready is polled. *)
pollAll(es, completed) ==
    [i \in DOMAIN es |-> [es[i] EXCEPT !.ready = @ \/ es[i].future \in completed]]

(* maybe_min_ready: the first of the ready entries with the lowest order. *)
isMinReady(es, i) ==
    /\ es[i].ready
    /\ \A j \in DOMAIN es : es[j].ready =>
          es[i].order < es[j].order \/ (es[i].order = es[j].order /\ i <= j)

(* Takes the completed future although one of a smaller order is pending. *)
MutantMayYield(es, i) == isMinReady(es, i)

mayYield(es, i) ==
    /\ isMinReady(es, i)
    /\ \A j \in DOMAIN es : es[j].ready \/ es[i].order <= es[j].order

(* Vec::swap_remove: the last element takes the place of the removed one. *)
swap_remove(es, i) ==
    [j \in 1 .. (Len(es) - 1) |-> IF j = i THEN es[Len(es)] ELSE es[j]]

(* es is what pollAll returned; at most one index satisfies mayYield. *)
yields(es, i) == i \in DOMAIN es /\ mayYield(es, i)

-----------------------------------------------------------------------------
insert(order, future) ==
    /\ entries' = Append(entries, newEntry(order, future))
    /\ UNCHANGED done

(* poll returns the i-th entry. *)
pollReady(i) ==
    LET es == pollAll(entries, done) IN
    /\ yields(es, i)
    /\ entries' = swap_remove(es, i)
    /\ UNCHANGED done

pollNotReady ==
    LET es == pollAll(entries, done) IN
    /\ \A i \in DOMAIN es : ~yields(es, i)
    /\ entries' = es
    /\ UNCHANGED done

(* External: a future completes. *)
complete(future) ==
    /\ future \notin done
    /\ done' = done \cup {future}
    /\ UNCHANGED entries

Next ==
    \/ \E order \in Order, future \in Future : insert(order, future)
    \/ \E i \in DOMAIN entries : pollReady(i)
    \/ pollNotReady
    \/ \E future \in Future : complete(future)

Spec == Init /\ [][Next]_vars
=============================================================================
