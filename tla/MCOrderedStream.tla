--------------------------- MODULE MCOrderedStream ---------------------------
(***************************************************************************)
(* OrderedStream with the history of what went in and what came out.  Each *)
(* future is inserted once.                                                *)
(***************************************************************************)
EXTENDS OrderedStream, SequencesExt

VARIABLES inserted, yielded

MCInit == Init /\ inserted = <<>> /\ yielded = <<>>

MCNext ==
    \/ \E order \in Order, future \in Future :
          /\ \A i \in DOMAIN inserted : inserted[i].future # future
          /\ insert(order, future)
          /\ inserted' = Append(inserted, [order |-> order, future |-> future])
          /\ UNCHANGED yielded
    \/ \E i \in DOMAIN entries :
          /\ pollReady(i)
          /\ yielded' = Append(yielded, [order  |-> entries[i].order,
                                         future |-> entries[i].future])
          /\ UNCHANGED inserted
    \/ pollNotReady /\ UNCHANGED <<inserted, yielded>>
    \/ \E future \in Future : complete(future) /\ UNCHANGED <<inserted, yielded>>

MCSpec == MCInit /\ [][MCNext]_<<vars, inserted, yielded>>

(***************************************************************************)
(* ordered_stream.rs:52: "items with the same `order` are yielded in the   *)
(* order they were `insert`ed."  What was yielded of each order is a       *)
(* prefix of what was inserted of it.                                      *)
(***************************************************************************)
SameOrderYieldedAsInserted ==
    \A order \in Order :
        LET Same(item) == item.order = order
        IN  IsPrefix(SelectSeq(yielded, Same), SelectSeq(inserted, Same))
=============================================================================
