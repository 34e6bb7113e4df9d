------------------------------- MODULE Bridge -------------------------------
(***************************************************************************)
(* A bridge process, parity-bridge (cli/src/main.rs, bridge/src/           *)
(* bridge.rs), beside the deployment that writes its first database.  It   *)
(* reads the database, asks whether both contracts are there, and then     *)
(* polls the three relays in turn; what they yield goes into its state,    *)
(* and the state into the file.                                            *)
(*                                                                         *)
(* A relay is here what RelayProgress promises of it and RelayStream       *)
(* keeps: it has nothing, or yields a confirmed block that is not behind   *)
(* its last one.  An error of a relay, a request that fails or times out,  *)
(* a file that cannot be opened and a crash end the process at any step.   *)
(***************************************************************************)
EXTENDS Deploy

CONSTANT MaxFailures        \* bound: how often the process ends

ASSUME FailuresAssumption == MaxFailures \in Nat

VARIABLES
    at,                 \* where the process is: Off, Relay or another step
    state,              \* Bridge.state
    last,               \* per relay: the block its stream last yielded
    maybe,              \* per relay: what it yielded in this poll, or Nothing
    failures

bridgeVars == <<at, state, last, maybe, failures>>
vars == <<deployVars, bridgeVars>>

Relay == {"main_to_side_sign", "side_to_main_sign", "side_to_main_signatures"}

(* Which field of State a relay's block number is in. *)
field == [main_to_side_sign       |-> "last_main_to_side_sign_at_block",
          side_to_main_sign       |-> "last_side_to_main_sign_at_block",
          side_to_main_signatures |-> "last_side_to_main_signatures_at_block"]

Off == "off"

Polling == Relay \cup {"update", "open", "write"}

Nothing == -1

nothing == [r \in Relay |-> Nothing]

TypeOK ==
    /\ Database!TypeOK
    /\ at \in Polling \cup {Off, "is_main_contract", "is_side_contract"}
    /\ state \in Database!State
    /\ last \in [Relay -> Nat]
    /\ maybe \in [Relay -> Nat \cup {Nothing}]
    /\ failures \in 0 .. MaxFailures

NotRunning ==
    /\ at = Off
    /\ state = Database!NoState
    /\ last = [r \in Relay |-> 0]
    /\ maybe = nothing

Init ==
    /\ DeployInit
    /\ NotRunning
    /\ failures = 0

-----------------------------------------------------------------------------
(* The last confirmed block of the chain a relay reads its logs from: *)
(* MainContract and SideContract have the confirmations of their own. *)
confirmed(r) ==
    IF r = "main_to_side_sign" THEN mHead - mainConfirmations
                               ELSE sHead - sideConfirmations

(* TomlFileDatabase::from_path and read. *)
start ==
    /\ at = Off
    /\ Database!readable
    /\ state' = file.state
    /\ at' = "is_main_contract"
    /\ UNCHANGED <<file, last, maybe, failures>>

end ==
    /\ at' = Off
    /\ state' = Database!NoState
    /\ last' = [r \in Relay |-> 0]
    /\ maybe' = nothing

(* An answer that cannot be decoded, where no contract is, ends the process. *)
is_main_contract ==
    /\ at = "is_main_contract"
    /\ IF mTxBlock > 0
       THEN at' = "is_side_contract" /\ UNCHANGED <<state, last, maybe>>
       ELSE end
    /\ UNCHANGED <<file, failures>>

(* Bridge::new: each stream starts after the block in its field. *)
new == last' = [r \in Relay |-> state[field[r]]]

is_side_contract ==
    /\ at = "is_side_contract"
    /\ IF sTxBlock > 0
       THEN at' = "main_to_side_sign" /\ new /\ UNCHANGED <<state, maybe>>
       ELSE end
    /\ UNCHANGED <<file, failures>>

-----------------------------------------------------------------------------
after(r) ==
    CASE r = "main_to_side_sign"       -> "side_to_main_sign"
      [] r = "side_to_main_sign"       -> "side_to_main_signatures"
      [] r = "side_to_main_signatures" -> "update"

(* try_stream instead of try_maybe_stream: poll returns NotReady. *)
MutantNotReady(r) ==
    /\ at' = "main_to_side_sign"
    /\ maybe' = nothing

notReady(r) ==
    /\ at' = after(r)
    /\ UNCHANGED maybe

(* One of the three calls of try_maybe_stream. *)
pollRelay(r) ==
    /\ at = r
    /\ \/ notReady(r) /\ UNCHANGED last
       \/ \E block \in last[r] .. confirmed(r) :
             /\ last' = [last EXCEPT ![r] = block]
             /\ maybe' = [maybe EXCEPT ![r] = block]
             /\ at' = after(r)
    /\ UNCHANGED <<file, state, failures>>

(* The numbers of the two side relays get mixed up. *)
MutantUpdated ==
    LET take(r, old) == IF maybe[r] = Nothing THEN old ELSE maybe[r] IN
    [state EXCEPT
        !.last_main_to_side_sign_at_block = take("main_to_side_sign", @),
        !.last_side_to_main_sign_at_block = take("side_to_main_signatures", @),
        !.last_side_to_main_signatures_at_block = take("side_to_main_sign", @)]

(* The state after what the three relays have yielded. *)
updated ==
    LET take(r, old) == IF maybe[r] = Nothing THEN old ELSE maybe[r] IN
    [state EXCEPT
        !.last_main_to_side_sign_at_block = take("main_to_side_sign", @),
        !.last_side_to_main_sign_at_block = take("side_to_main_sign", @),
        !.last_side_to_main_signatures_at_block = take("side_to_main_signatures", @)]

(* has_state_changed *)
update ==
    /\ at = "update"
    /\ state' = updated
    /\ at' = IF maybe = nothing THEN "main_to_side_sign" ELSE "open"
    /\ maybe' = nothing
    /\ UNCHANGED <<file, last, failures>>

(* database.write does nothing with a state equal to the last one. *)
openFile ==
    /\ at = "open"
    /\ IF state = file.state
       THEN at' = "main_to_side_sign" /\ UNCHANGED file
       ELSE at' = "write" /\ Database!open
    /\ UNCHANGED <<state, last, maybe, failures>>

writeFile ==
    /\ at = "write"
    /\ Database!write(state)
    /\ at' = "main_to_side_sign"
    /\ UNCHANGED <<state, last, maybe, failures>>

failBridge ==
    /\ at # Off
    /\ failures < MaxFailures
    /\ failures' = failures + 1
    /\ end
    /\ UNCHANGED file

-----------------------------------------------------------------------------
executeBridge ==
    \/ is_main_contract \/ is_side_contract
    \/ \E r \in Relay : pollRelay(r)
    \/ update \/ openFile \/ writeFile

BridgeNext ==
    /\ start \/ executeBridge \/ failBridge
    /\ UNCHANGED <<mVars, sVars, pc>>

DeployNext ==
    /\ execute \/ fail \/ executeAgain \/ chain
    /\ UNCHANGED bridgeVars

Next == DeployNext \/ BridgeNext

(***************************************************************************)
(* The event loops poll what they run, and somebody starts a bridge        *)
(* process that has ended.                                                 *)
(***************************************************************************)
Fairness ==
    /\ WF_vars(execute /\ UNCHANGED bridgeVars)
    /\ WF_vars(executeBridge /\ UNCHANGED <<mVars, sVars, pc>>)
    /\ WF_vars(start /\ UNCHANGED <<mVars, sVars, pc>>)

Spec == Init /\ [][Next]_vars /\ Fairness

-----------------------------------------------------------------------------
(* What the file says of a relay, and how far the running process is. *)
persisted(r) == IF Database!readable THEN file.state[field[r]] ELSE Nothing

progress(r) == IF at \in Polling THEN last[r] ELSE persisted(r)

MainToSideSign == INSTANCE RelayProgress WITH
    confirmations <- mainConfirmations, head <- mHead,
    yielded <- progress("main_to_side_sign"), database <- persisted("main_to_side_sign")

SideToMainSign == INSTANCE RelayProgress WITH
    confirmations <- sideConfirmations, head <- sHead,
    yielded <- progress("side_to_main_sign"), database <- persisted("side_to_main_sign")

SideToMainSignatures == INSTANCE RelayProgress WITH
    confirmations <- sideConfirmations, head <- sHead,
    yielded <- progress("side_to_main_signatures"),
    database <- persisted("side_to_main_signatures")

(***************************************************************************)
(* The three relays that share a state and a file each keep what           *)
(* RelayProgress promises: once written the file can always be read, no    *)
(* relay's number gets into another's field, a number lost with the        *)
(* process is not persisted, and none is persisted that was not yielded,   *)
(* although a process may end between any two steps of a poll or a write   *)
(* and the file is overwritten in place.                                   *)
(***************************************************************************)
RelaysImplementProgress ==
    MainToSideSign!Spec /\ SideToMainSign!Spec /\ SideToMainSignatures!Spec

(***************************************************************************)
(* A block that a relay yields is in the file some time later, whatever    *)
(* the other two relays have or do not have, unless the process ends.      *)
(***************************************************************************)
YieldsArePersisted ==
    \A r \in Relay, block \in 0 .. MaxBlock :
        (at \in Polling /\ last[r] = block)
            ~> (at = Off \/ persisted(r) >= block)

(***************************************************************************)
(* Once the deployment has written the database a bridge process comes up  *)
(* and polls, and does so again after it has ended: neither the file nor   *)
(* the check of the contracts stops it for good.                           *)
(***************************************************************************)
BridgeComesUp == pc = "done" ~> at \in Polling
=============================================================================
