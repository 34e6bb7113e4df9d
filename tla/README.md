# A verification of parity-bridge

parity-bridge moves ether of a `main` Ethereum chain to a `side` chain and back.
This directory holds TLA+ models of its contracts and of the processes of its
authorities, TLC runs over them, and TLAPS proofs. Paths below are relative to
`src/`.

## The system

| part | code | state | operations |
|---|---|---|---|
| libraries | `contracts/bridge.sol` 1-172 | none | signature lists, `ecrecover`, fields of a message |
| MainBridge | `contracts/bridge.sol` 195-319 | balance, `withdraws` | fallback (deposit), `withdraw` |
| SideBridge | `contracts/bridge.sol` 322-578 | ERC20 balances and allowances, `deposits`, `signatures` | `transfer`, `approve`, `transferFrom`, `deposit`, `transferToMainViaRelay`, `submitSignature`, views |
| relay futures | `bridge/src/main_to_side_sign.rs`, `side_to_main_sign.rs`, `side_to_main_signatures.rs` | a state per log | check, sign, send |
| streams | `block_number_stream.rs`, `log_stream.rs`, `ordered_stream.rs`, `relay_stream.rs` | last block checked, requests, entries | `poll`, `insert` |
| process | `bridge.rs`, `database.rs`, `cli/src/main.rs` | last block checked per relay, a TOML file | poll, write, end, start |
| deployment | `send_tx_with_receipt.rs`, `deploy.rs`, `deploy/src/main.rs` | where each future is, receipts | send, wait for confirmations, write the first database |
| configuration, errors, macros, tests, tools | `config.rs`, `error.rs`, ... | none | not modelled |

A user deposits by sending ether to MainBridge, which logs `Deposit`. Each
authority's process sees the log once it is confirmed and calls
`SideBridge.deposit`; the call that completes the quorum mints tokens. To go
back, a user calls `transferToMainViaRelay`, which burns the tokens and logs
`Withdraw`; each authority signs the message made of that log and submits the
signature to SideBridge; the authority that completes the quorum is named by
`CollectedSignatures`, and its process fetches the signatures and calls
`MainBridge.withdraw`.

What is hard:

* Concurrency. Authorities act in any order, some may be faulty, and anyone may
  call `withdraw`. A process looks at a contract, decides, and sends a
  transaction that is mined later, when the answer may be stale.
* Failure. Any error of a request ends a process. It starts again from the
  database, which is written only after a relay completes, so work is done twice.
* Ordering. Relays complete in any order, but a block number may be persisted only
  when everything before it has been relayed.
* Numbers. Solidity 0.4 words wrap around; block ranges, confirmations and caps
  have boundaries.
* Waiting. Relays, the quorum and the deployment must go on when they can.

`PROJECT.json` lists each of these at its line, under `hazards`.

## Modules

| module | models | uses |
|---|---|---|
| `Helpers` | words, messages, ideal signatures, `hasEnoughValidSignatures` | |
| `MainBridge`, `SideBridge` | the contracts | `Helpers` |
| `BridgeProtocol` | both contracts, users, honest and Byzantine authorities | instances of both |
| `MainToSideSign`, `SideToMainSign`, `SideToMainSignatures` | the relay futures | |
| `BridgeNodes` | processes running the futures, transactions under way, crashes, databases | extends `BridgeProtocol`, instances of the futures |
| `OrderedStream`, `BlockNumberStream`, `LogStream` | the streams | |
| `RelayProgress` | abstract: what a relay promises about the number it persists | |
| `RelayStream` | a relay of one kind of log, its database, reorganisations, crashes | instances of the streams and of `RelayProgress` |
| `Encoding` | byte layouts of messages and signatures, in Rust and in Solidity | extends `MainBridge` |
| `Database` | the TOML file, overwritten in place | |
| `SendTransaction`, `Deploy` | the deployment | `BlockNumberStream`, `Database` |
| `Bridge` | the process: start, checks of the contracts, one poll of three relays, the write | extends `Deploy`, instances of `RelayProgress` |
| `HelpersProofs`, `EncodingProofs`, `MainBridgeProofs`, `SideBridgeProofs`, `RelayStreamProofs`, `BridgeProofs` | theorems | the modules they name |
| `BridgeProtocolProofs` | theorems | instances of `MainBridgeProofs` and `SideBridgeProofs` |
| `BridgeNodesProofs` | theorems | extends `BridgeProtocolProofs` |
| `MC...` | constants for TLC | |

Conventions. A `require` is a guard: a transaction that reverts changes nothing.
A hash is represented by what is hashed and a signature by who signed what, so
two hashes or signatures are equal only if their contents are. Event logs are
bags: how often each event was emitted. `tx` is the transaction of the last call;
the next call may share it, as calls made by a contract do. One turn of a loop in
a `poll` is an action; a request that is answered is one action at the moment of
the answer. Operators named `Mutant...` are faulty forms of the operators that
follow them; `PROJECT.json` pairs each property with one that breaks it.

### From code to model

* `MainBridge`: `balance` is `this.balance`; `fallback` and `withdraw` are the two
  functions with their guards in order. Either transfer fails, and `withdraw` with
  it, when the account does not accept ether (`Payable`) or there is too little of
  it. A caller passes any list of existing signatures and garbage
  (`SignatureLists`). Ether forced in without a call (by `selfdestruct` or mining)
  is not modelled; it would exceed the cap without breaking the rest.
* `SideBridge`: one action per function. `deposits[key]` and `signatures[m]` keep
  the order in which authorities called, which decides who relays.
* `BridgeProtocol` says only when an honest authority may act: for an event in
  the other chain's log. It is the abstract specification of the processes. Its users
  deposit, `transfer` and burn; `approve` and `transferFrom` are explored in `SideBridge`
  and left out here. They move tokens between accounts as `transfer` does, and the
  protocol's properties are about sums.
* `BridgeNodes`: a future has the states of its Rust `enum`, and a check of a
  contract, the decision and the sending are separate steps. `pool` holds what was
  sent; a transaction is mined later, in any order, and does nothing if it would
  revert, or the node that took it drops it. A crash loses an authority's futures. A
  log is in the database once its future completed: here each log has a block range of
  its own. In a range with several logs the first completed future records all of them
  (`relay_stream.rs` 80-97), which is `RelayStream`'s subject.
* `RelayStream`: the chain grows, `LogStream` turns confirmed blocks into
  contiguous ranges, each log becomes an `OrderedStream` entry whose order is the
  last block of its range, and a yielded block number is written to the database.
  A process that fails loses everything but the database. A longer chain may
  replace as many blocks as there are confirmations, logs included. That the
  block number behaves as `RelayProgress` says is a refinement.
* `Deploy`: two `SendTransaction` futures one after the other, on chains that can
  replace blocks that are not confirmed, each with its own
  `required_confirmations`; then the file is created and, as another step, written.
  A run that failed can be followed by another (`executeAgain`), which deploys both
  contracts again, on chains as they are then. A run after one that succeeded, which
  would replace the database of bridge processes, is the operator's mistake and left out.
* `Database`: of the text of a `State` its length is kept, as the number of digits
  of its block numbers. `open` does not truncate, `write` overwrites from the
  start, so a shorter text would leave a tail that cannot be parsed.
* `Bridge`: `start` reads the file, two requests ask for the contracts, and then
  each of the three `try_maybe_stream` calls, the update of the state, the opening
  and the writing of the file are steps between which the process may end. A relay
  is what `RelayProgress` allows: this is the assumption under which `Bridge` is
  checked, and what `RelayStream` is checked to guarantee.
* `Encoding`: a byte is the value it belongs to and its place in it, so that a field
  read from the wrong offset differs. `getRecipient` and its like read a word at an
  offset that includes the length word, as `mload` does.

## Runs

All passing runs are exhaustive within their bounds. Deadlock is not checked: the
bounds end every run, and users and chains may stop.

| run | shows |
|---|---|
| `main_bridge` | payouts are signed for by a quorum of different authorities, happen once per side transaction; ether leaves only that way, by exactly the value signed; deposits respect the caps; Rust and Solidity agree on the bytes signed |
| `side_quorum` | a deposit is minted, and `CollectedSignatures` emitted, exactly once, by the call that completes the quorum; what was collected is what MainBridge accepts |
| `side_token` | the total is the sum of the balances through wrap-around and transfers to oneself |
| `protocol` | with fewer Byzantine authorities than `requiredSignatures`: tokens are minted only for deposits, ether is paid only for burns, and MainBridge's ether covers all tokens and withdrawals under way; a withdrawal whose signatures are collected can be completed by anyone, whatever the Byzantine authority did or does not do |
| `nodes_protocol` | the processes implement `BridgeProtocol` (refinement), and a `withdraw` an authority sent is accepted unless the burn has been paid |
| `nodes_liveness` | deposits and burns whose logs are alone in their block ranges are minted and paid although a process crashes between any two steps, unless dropped transactions leave too few authorities |
| `relay` | no log falls between two ranges; a yielded block has all earlier ranges relayed; the database only grows and never past confirmed blocks; a log is relayed or the database has moved past it; no reorganisation takes away a log that is being relayed; the relay implements `RelayProgress` |
| `deploy` | the database names blocks that no reorganisation of unconfirmed blocks can replace, also when earlier runs of the deployment failed; a confirmed deployment is noticed; the three relays of a process implement `RelayProgress` through one state and one file; what one yields is persisted although the others have nothing; a process comes up and comes up again |
| `burn_shut_out`, `deposit_minted`, `ordered_same_order`, `persisted_relayed` | the disagreements below |

Bounds, and why they are enough for what the runs look for:

* `main_bridge`: three authorities, two required, so a list of two can be short of
  a quorum by a repetition, a stranger or garbage; words modulo 8 with a gas cost
  of 2 and prices up to 5, so the cost wraps around and exceeds the value; two side
  transactions, so a payout can be repeated or attributed to another; limits that
  two deposits reach; four signatures, so two messages can have a quorum.
* `side_quorum`: more authorities than required, so late calls happen.
  `side_token`: small words and accounts that wrap around.
* `protocol`: two honest authorities and one Byzantine, two required; two gas prices,
  so two messages differ in one field; `MaxSigned` signatures.
* `nodes_protocol`: one honest and one Byzantine authority, both required, one
  crash. With one deposit and one burn the futures' steps interleave with mining,
  crashing and the Byzantine calls; more logs only add independent futures.
  `nodes_liveness`: two honest authorities, both required, one crash of either.
  Both: one dropped transaction of any kind.
* `relay`: four blocks with up to three logs in all, one confirmation, and up to two
  runs of the process, so that ranges of several blocks, overlapping relays, a restart in
  between and reorganisations of the last block occur. The chain starts shorter than
  the confirmations: a subtraction that wrapped around there would have the stream wait
  for ever, and the mutant of `LogsAreNotForgotten` is just that.
* `deploy`: one confirmation on main and two on side, five blocks each, so a
  transaction can be replaced, mined again and confirmed, and relays yield more than
  once. Numbers in the file are binary, so that they gain digits within the bounds.
  The process ends once, after any step.

Symmetry is used only in runs that check no liveness, over accounts and
transaction hashes that nothing tells apart: the contracts ask whether an account
is among `authorities`, never at which place.

### Fairness

`RelayStream`, `BridgeNodes` and `Bridge` (with `Deploy`) assume that a step of a process that
stays possible is taken: the event loop polls its future whenever a request or a
timer wakes it. They assume that an operator starts a process again when it has
ended, since an error ends it by design (`cli/src/main.rs` returns). They assume
that a relay completes while its process runs (`RelayStream`) and that a
transaction handed to an Ethereum node is mined or dropped (`BridgeNodes`). The
futures complete when a transaction is sent, so that nobody sends a dropped one
again: the liveness properties promise a mint or a payout as long as enough
authorities are left whose transactions were not dropped. There is a second way to lose
a log, a crash after a range with several logs was recorded at the first of them
(`persisted_relayed`); the properties are about logs that are alone in their ranges.
Users, other callers, crashes and reorganisations are under no fairness.

### Where code and documentation disagree

* `burn_shut_out`: `transferToMainViaRelay` promises that the transfer completes
  (`contracts/bridge.sol` 508-509), but MainBridge marks the side transaction's
  hash as used: of two withdrawals made in one transaction one is never paid.
* `deposit_minted`: depositors "get the same amount of ERC20 tokens" (`README.md`
  47-48), but two deposits of equal value by one contract in one transaction are
  one key in SideBridge.
* `ordered_same_order`: `ordered_stream.rs` 52 promises insertion order among
  equal orders; the code yields in order of completion.
* `persisted_relayed`: `relay_stream.rs` 94-96 says that a yielded block has all its
  relays completed. One completed relay of its range is enough, so a crash can
  lose the others.

## Proofs

TLAPS checks the following for every value of the constants that satisfies the
assumptions below: any number of authorities, accounts, messages, blocks, logs and
failures, any quorum and any word size. Every safety property of the passing runs, and
every refinement among them, is stated by a theorem. `SideBridgeProofs` also has a
`TypeCorrect`, which the others use and no run checks: wrapping words stay words by
definition.

| module | theorem | property |
|---|---|---|
| `MainBridgeProofs` | `TypeCorrect`, `PaidOnce`, `PayoutsSigned`, `Capped`, `ExactWithdraw` | `TypeOK`, `PaidOncePerSideTransaction`, `PayoutsAreSigned`, `BalanceIsCapped`, `WithdrawTakesExactlyValue` |
| `EncodingProofs` | `Agreement` | `EncodingsAgree` |
| `SideBridgeProofs` | `MintedOnce`, `CollectedOnce`, `CollectedEnough`, `SupplyIsSum` | `MintedOncePerQuorum`, `CollectedOncePerQuorum`, `CollectedSignaturesAreEnough`, `TotalSupplyIsSum` |
| `BridgeProtocolProofs` | `Backing`, `Burned`, `Solvency`, `Completion` | `MintsAreBacked`, `PayoutsAreBurned`, `Solvent`, `EveryoneCanComplete` |
| `BridgeNodesProofs` | `NodesImplementProtocol`, `NodesAreSafe`, `Acceptance` | `ImplementsProtocol`, the four of the protocol for the processes, `SentWithdrawIsAccepted` |
| `RelayStreamProofs` | `NothingIsSkipped`, `Finality`, `EarlierRanges`, `Monotonicity`, `Refinement` | `NoLogIsSkipped`, `RelaysAreFinal`, `EarlierRangesAreRelayed`, `ProgressIsMonotone`, `ImplementsProgress` |
| `BridgeProofs` | `FinalDatabase`, `RelaysRefineProgress` | `DatabaseIsFinal`, `RelaysImplementProgress` |

Assumptions. `AddressAssumption`, `HashAssumption` and `WordAssumption`: addresses
and hashes are finite in number, values and gas prices are words.
`ConstructorAssumption`: what the constructors require. `MainAssumption`,
`SideAssumption`, `ParameterAssumption`: parameters are words, there is less ether
than a word can hold, bounds are numbers. `ByzantineAssumption`: fewer Byzantine
authorities than `requiredSignatures`. `SignaturesAssumption`: `MaxSignatures` does not
exclude a list as long as the quorum. `FaultsAssumption`, `RelayAssumption`,
`DeployAssumption`, `FailuresAssumption`: confirmations and bounds are numbers, and
numbers in the file are written to a base of at least two.

Sums (`HelpersProofs`). A sum over a function is the number of its units,
`Total(f) = Cardinality(Units(f))` with a unit a pair of an argument and a number
below its value. So what a sum does when one or two of its values change follows from
cardinalities of finite sets, and needs no induction over a fold.

MainBridge. The inductive invariant adds `HashesAreMarked` to the properties: each
payout in the log has its hash in `withdraws`. Without it `PaidOnce` is not
inductive, since nothing would forbid paying a hash again. `NoWrapAround` is the
arithmetic: if both transfers succeed then `value - cost` did not wrap around,
because the ether there is is less than a word. `EnoughSigners` (`HelpersProofs`)
is the counting: a list accepted by `hasEnoughValidSignatures` gives an injection
of `1 .. requiredSignatures` into the authorities that signed. `WithdrawFacts` puts the
two together for one call: the message presented has a quorum, the event pays for it,
and the balance falls by its value. `ExactWithdraw` states that of every step in which
ether leaves or a hash is marked.

SideBridge. The invariant says that a deposit's list of confirmations has no
repetition and that it was minted once exactly if the list reached the quorum. For
signatures, `CollectionsAreAligned` ties the two arrays of a collection together:
signature i is one of this message by authority i, who is an authority and no
other's equal. `CollectedEnough` follows from it without a further induction.
`SupplyIsSum` is modulo the word size, so that it holds when minting wraps around.

Encoding. `Parts` says where a part of two sequences is; from it `FourParts` and
`Between` find each field in the bytes and in memory, and `Within` the address at
the end of its word. `uintToString` is a recursive function: its value at 116 is found
by giving a function that satisfies its equation, so that the chosen one does too, and
applying the equation three times. For other numbers it would need induction, but no
message has another length.

BridgeProtocol. The invariants of the two contracts come from their proof modules,
by instantiation. To them are added what honest authorities did
(`HonestConfirmations`, `HonestSignatures`: only what the other chain logged) and that
collected signatures exist (`CollectedAreSigned`). A quorum is larger than the set of
Byzantine authorities, so one of it is honest, and `Backing` and `Burned` follow.
`Solvent` is not inductive: minting needs the ether of the deposit to be there still,
however late the quorum is reached. `Covered` therefore adds the deposits not yet
minted to what the ether covers: balance >= tokens + burns not paid + deposits not
minted. That also shows that minting never wraps around. `Completion` needs in addition
that a burn exceeds the cost of its relay, which `transferToMainViaRelay` requires.

BridgeNodes. `NodesInv` adds to the protocol's invariant what processes rely on:
a future exists only for a log, and each transaction in the pool is `Justified` by one,
its arguments included (for `withdraw`: the first `requiredSignatures` of a
collection). Contracts only add to their logs, and a collection only grows at its end
(`Growth`), so a check that is stale when the transaction is mined still justifies it.
Then each step of a process is a step of the protocol or none (`ProtocolStep`), and
the protocol's theorems hold for the processes (`NodesAreSafe`).

RelayStream. `BlocksAreOrdered` puts in order how far the database, the node, the log
stream and the block number stream are, the last of them confirmed. `OfRanges` and
`Disjoint` are about relays under way: each is of a confirmed log of a range that ends
with its order, ready only if it completed, and a range ends before the logs of the
next. Without `Disjoint`, `EarlierRangesAreRelayed` is not inductive: a yielded order
would say nothing about logs of lower blocks in later ranges. What `swap_remove` does
to the places of the entries does not matter to it.

Bridge and Deploy. `MainSettled` and `SideSettled`: a receipt that was accepted names a
block that has its confirmations. `FileIsFinal`: once written, the file names the blocks
the contracts of the run that wrote it are in, with their confirmations, and its text fills it exactly, because
the other numbers only grow and with them their digits; so a process can always read it.
`StateIsCurrent`: the state of a running process is not behind the file, nor what the
relays last yielded behind the state, and where they differ the difference is still to be
stored or written.

Only model-checked:

* liveness, which is outside what the provers do: `LogsAreNotForgotten`,
  `DepositsAreMinted`, `BurnsArePaid`, `DeploymentGoesOn`, `YieldsArePersisted`,
  `BridgeComesUp`;
* the disagreements above, which are counterexamples.

No proof uses `ENABLED`: that a transaction does not revert is `mayWithdraw`, the guard
of `withdraw`. `ENABLED` is left in `BridgeNodes`, where mining asks whether a
transaction takes effect or does nothing.

## Not modelled

* ABI encoding, `web3`, gas, logging, command lines, key handling, test support and
  build glue: libraries or input and output without a state of the bridge's own.
* Configuration (`config.rs`): parsing of TOML into a record, once, at the start. A
  configuration whose `required_signatures` is not the contract's is excluded: no
  property covers it, and with a smaller number `withdraw` would always revert.
* The text of the database beyond its length, and a single `write_all` that the
  operating system cuts short.
* Reorganisations deeper than the confirmations: the code takes a block with enough
  confirmations as final.
* Recipients that reject ether, in liveness: `withdraw` reverts for them each time,
  and the burn stays unpaid although it is signed for. The safety runs have such
  accounts.
* `dump_info` and the views that change nothing.

## Plan

Done: contracts, protocol, streams, processes, deployment; then dropped transactions,
Byzantine authorities that withhold, reorganisations under a relay, the database file,
`Bridge` with its three relays, and the encodings; then a theorem for each safety
property and each refinement. Next, as proofs:

1. What the liveness properties rest on and can be stated as safety: that a future of an
   honest authority is never stuck, that no log is lost between a crash and the restart.
2. Shorter proofs of the steps of `RelayStream` and `BridgeProtocol`, with their common
   lemmas in `HelpersProofs`.
