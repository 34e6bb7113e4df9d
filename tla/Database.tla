------------------------------ MODULE Database ------------------------------
(***************************************************************************)
(* The database file (bridge/src/database.rs): a State written as TOML.    *)
(* Of the text only the length is kept, which the digits of the block      *)
(* numbers decide: a file longer than the state in it has a tail left from *)
(* an earlier, longer text.  A write that the operating system cuts short  *)
(* is not modelled.                                                        *)
(***************************************************************************)
EXTENDS Integers, FiniteSetsExt

CONSTANT Radix              \* of the numbers in the file: 10 in TOML

VARIABLE file               \* [state, size]

State == [main_deployed_at_block                : Nat,
          side_deployed_at_block                : Nat,
          last_main_to_side_sign_at_block       : Nat,
          last_side_to_main_sign_at_block       : Nat,
          last_side_to_main_signatures_at_block : Nat]

(* The state right after the contracts were deployed in these blocks. *)
deployedAt(main, side) ==
    [main_deployed_at_block                |-> main,
     side_deployed_at_block                |-> side,
     last_main_to_side_sign_at_block       |-> main,
     last_side_to_main_sign_at_block       |-> side,
     last_side_to_main_signatures_at_block |-> side]

NoState == deployedAt(0, 0)

Missing == [state |-> NoState, size |-> -1]

Empty == [state |-> NoState, size |-> 0]

TypeOK == file \in [state : State, size : Nat \cup {-1}]

Init == file = Missing

-----------------------------------------------------------------------------
(* One, and one more for each power of the radix that the number reaches. *)
digits(n) == 1 + Cardinality({p \in 1 .. n : \E k \in 1 .. n : p = Radix ^ k})

(* toml::to_string, of which only the numbers vary. *)
serialized(state) ==
    digits(state.main_deployed_at_block)
    + digits(state.side_deployed_at_block)
    + digits(state.last_main_to_side_sign_at_block)
    + digits(state.last_side_to_main_sign_at_block)
    + digits(state.last_side_to_main_signatures_at_block)

(* fs::File::create: a new file, or an old one truncated. *)
create == file' = Empty

(* Opens with truncation. *)
MutantOpen == create

(* OpenOptions with write and create: what is in the file stays. *)
open == file' = IF file = Missing THEN Empty ELSE file

(* State::write: write_all from the start of the file. *)
write(state) ==
    file' = [state |-> state, size |-> Max({serialized(state), file.size})]

(***************************************************************************)
(* from_path finds a file and can parse it.  A tail of one character is    *)
(* the newline of an earlier text; a longer one is a line without a key.   *)
(***************************************************************************)
readable == file.size - serialized(file.state) \in {0, 1}
=============================================================================
