---------------------------- MODULE RelayProgress ----------------------------
(***************************************************************************)
(* What a relay promises about the block number it keeps in the database:  *)
(* it goes up and never down, it only ever becomes a number that was       *)
(* yielded in the running process, only confirmed blocks are yielded, and  *)
(* a restarted process goes on from what was persisted.  RelayStream shows *)
(* this for one relay in detail, Bridge for the three relays of a node and *)
(* the file they share.                                                    *)
(***************************************************************************)
EXTENDS Integers

CONSTANT confirmations

VARIABLES
    head,               \* the number of the chain's last block
    yielded,            \* the last block number yielded, or read at the start
    database            \* the block number persisted, or None

vars == <<head, yielded, database>>

(* There is no database yet, or not one that can be read. *)
None == -1

Init ==
    /\ head \in Nat
    /\ database \in Nat \cup {None}
    /\ yielded = database

-----------------------------------------------------------------------------
(* The chain grows. *)
Chain ==
    /\ head' > head
    /\ UNCHANGED <<yielded, database>>

(* The deployment writes the first database. *)
Create ==
    /\ database = None
    /\ database' \in Nat
    /\ database' + confirmations <= head
    /\ yielded' = database'
    /\ UNCHANGED head

(* The relay yields a confirmed block that is not behind the last one. *)
Yield ==
    /\ yielded # None
    /\ yielded' >= yielded
    /\ yielded' + confirmations <= head
    /\ UNCHANGED <<head, database>>

(* What was yielded is persisted. *)
Persist ==
    /\ database # None
    /\ database' = yielded
    /\ UNCHANGED <<head, yielded>>

(* The process has ended: only what was persisted is left. *)
Restart ==
    /\ yielded' = database
    /\ UNCHANGED <<head, database>>

Next == Chain \/ Create \/ Yield \/ Persist \/ Restart

Spec == Init /\ [][Next]_vars
=============================================================================
