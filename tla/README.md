# A verification of payment_communities

TLA+ models of the payment channel simulator in `src/src/payment_communities`
(Python), the TLC runs that check them on small instances, and theorems about
them that TLAPS proves for every value of the constants. `PROJECT.json` lists
the runs, the source lines each definition stands for, the mutations each
property catches, the hazards and the theorems.

## The system

A node keeps payment channels with its peers as Python objects. A channel holds
two balances and the HTLCs in flight; a payment is routed by offering an HTLC on
each hop with the same payment hash, redeemed from the payee back to the payer
with the preimage, or refunded once its locktime has passed. Around it there are
a compact store of revocation secrets, a path search, a TCP daemon, storage, a
watchtower, swaps, and the Bitcoin scripts and transactions that would enforce
all this on chain.

| component | state | operations | interacts with | hard because | correct when |
|---|---|---|---|---|---|
| channel (`domain/channel.py`) | balances, state, `active_htlcs`, `sequence_number`, revocation store | `add_htlc`, `redeem_htlc`, `refund_htlc`, `revoke_prior_state`, `close_cooperatively` | both nodes hold the same object | no method knows what the others were called for; ids, flags, timelock and state are each checked by some methods only | balances are explained by history, capacity conserved, closes final |
| node (`domain/node.py`, driven by `cli/demos/routing.py`) | channels by peer, `known_preimages`, `revocation_secrets` | `open_channel`, `create_invoice`, `route_htlc_payment`, `fulfill_htlc`, `refund_htlc` | the channels, the chain height | several payments share channels; expiry races redemption on two hops | a payment is atomic end to end; a relay never pays for it |
| shachain (`protocols/shachain.py`) | slots index to secret | `add_secret`, `get_secret`, derivation | revocation, storage | order of reveals, wrong reveals, bit boundaries | every revealed secret retrievable in at most 48 slots |
| routing (`network/routing.py`) | the graph; heap and visited set of a search | `add_channel`, `get_capacity`, `find_route` | reads the channels' balances | cumulative fees are known only at the end of a path | a route can be paid; none is missed; it ends |
| daemon (`network/daemon.py`) | `peers`, tasks, `_running`, sockets | `start`, `connect_to_peer`, accept, read loop, `send_to_peer`, `stop` | TCP, other daemons | coroutines interleave at each await; resets; stop at any time | the registry names live connections; all connections end |
| JSON storage and CLI (`storage/engine.py`, `cli/app.py`) | one file, nodes in memory | load, change, save | channels, nodes, Esplora | two processes; crash between broadcast, rename and save | no acknowledged change is lost |
| SQLite storage (`storage/sqlite.py`) | tables of channels, HTLCs, secrets, preimages, hints | save, load, delete, clear | shachain, watchtower | one transaction per item; `clear` has none; writers lock each other out | tables agree with each other; an undisturbed save loads back |
| revocation, watchtower (`protocols/revocation.py`, `watchtower.py`) | secrets; appointments | reveal, remedy; register, scan | the chain, channels | cheating race against the CSV delay; repeated scans | a revoked broadcast is swept, any other is not |
| swaps (`protocols/swap_server.py`, `swaps.py`) | swaps and their status | `loop_in`, `loop_out`, funding, `complete_loop_in`, claim, refund | the chain, Lightning side | on-chain and off-chain halves in any order | both halves or none |
| Esplora client (`network/client.py`) | none of its own | UTXOs, broadcast, poll, fund | the chain | retries, timeouts, unconfirmed broadcasts | a funding is spent once and recorded |
| eltoo (`protocols/eltoo.py`) | update number | update and settlement transactions | the chain | old updates replaced by later ones | the last update settles |
| interpreter (`bitcoin/interpreter.py`) | stacks, condition stack | one step per opcode | contracts, transactions | nesting, limits | the templates accept exactly the right witnesses |
| contracts, transactions, anchors, taproot, ptlc (`bitcoin/*.py`, `protocols/anchors.py`, `protocols/ptlc.py`) | none | scripts, witness stacks, builders, signatures | the interpreter and the chain | order of keys, elements, selectors; sequences and locktimes | what a builder makes is accepted; nobody else gets in |
| sphinx, policies, config, exceptions, utilities | none | formulas and cryptography | all of the above | bytes and curves, not states | by unit tests |

The hazards are listed in `PROJECT.json` at the line where they bite.

## Modules

| module | models | correspondence |
|---|---|---|
| `ChannelOps` | `domain/channel.py`, `domain/core/predicates.py` | a channel is a record with the fields of `Channel`; each method that changes it is an operator from record to record, with the condition under which it does not raise as `Can...` |
| `Channel` | one `Channel` object and any callers | one action per method; a call that raises changes nothing and is no step. `paid`, `dropped` and `breakdowns` are history variables |
| `AtomicPayment` | abstract | what a payment promises its two ends; `PaymentNetwork` and `Swap` implement it |
| `PaymentNetwork` | `domain/node.py` as driven by `cli/demos/routing.py` | one action per method of `Node`; `channels` maps a link to the object both nodes share; `NewBlock` is the chain |
| `Shachain` | `protocols/shachain.py` | an index is the set of its one bits; a secret is its root and the bits flipped and hashed since |
| `Routing` | `network/routing.py` | one action per way through the body of the `while` loop of `find_route`; `Init` enumerates the graphs and their balances |
| `PeerDaemon` | `network/daemon.py` | one step per stretch of a coroutine between two awaits; `peers`, `task`, `alias`, `closed` are the attributes, `inbox` the sockets |
| `JsonStore` | `storage/engine.py` | the state file, the temporary file and the open descriptors as one record; each system call of `save_state` and `load_state` is an operator on it |
| `Cli` | the commands of `cli/app.py` that outlive themselves, with `fund_channel_on_chain` and `broadcast_tx` of `network/client.py` | a session is a process and `pc` where it is between two calls to the file system or the network; `mem` are the channels of its nodes, `fs` the files; `utxos` and `funded` are what the network has accepted |
| `Contracts` | `bitcoin/contracts.py`, `protocols/anchors.py`, `ptlc.py`, `revocation.py` | a script is a sequence of opcodes; a key, a hash and a signature are symbols, and a signature holds the transaction it is of |
| `Interpreter` | `bitcoin/interpreter.py` | `Step` is one pass through the loop of `execute`, on the stacks; the witness programs are chosen as in `verify_transaction_witness` |
| `Transactions` | `bitcoin/transaction.py` and the builders of `anchors.py`, `eltoo.py`, `ptlc.py`, `revocation.py`, `swaps.py` | a transaction is a record of inputs, outputs, locktime and witnesses; one operator per builder, `NoSig` where none is given |
| `Spending` | the last three together | `Init` enumerates the spends of one deposit; then one opcode per step |
| `Ledger` | external: the chain | unspent outputs with their heights; a transaction is accepted if the interpreter accepts each of its inputs and locktimes, relative locks and amounts allow it |
| `Justice` | `protocols/revocation.py`, `protocols/watchtower.py`, and the remedies of `cli/demos/breach.py` and `cli/demos/watchtower.py` | one action per method, Alice's broadcast and claim, Bob's remedy, blocks; what callers put into a remedy is a parameter: its amount (`RemedySat`) and how they write a txid (`TxidText`) |
| `Swap` | `protocols/swap_server.py`, `protocols/swaps.py` | one action per method of `SwapCoordinator`; the Lightning half, both spends on the chain and the blocks are actions of the environment |
| `SqliteStore` | `storage/sqlite.py` | a method is a list of transactions of statements; `Execute` runs one statement, `Crash` and `Locked` end a method anywhere |
| `MC*` | | constants for TLC; `MCChannel` also puts a channel and the store of its revealed secrets side by side |
| `CliProofs`, `SqliteStoreProofs`, `SwapProofs`, `SpendingProofs` | | theorems and their proofs, each about the module it is named after |
| `PaymentNetworkProofs` | | theorems about `Channel` and `PaymentNetwork`, which share lemmas about counting satoshis; the variables of the two are apart |
| `RevocationProofs` | | theorems about `Justice` and `Shachain`: the penalty for a revoked state, and the store of the secrets that revoke it |
| `NetworkProofs` | | theorems about `PeerDaemon` and `Routing`, the parts of `network/` that keep state; the variables of the two are apart |
| `TransactionLemmas` | | lemmas about transactions, the chain and the machine of the interpreter, for `RevocationProofs`, `SwapProofs` and `SpendingProofs` |

Some points where code and model differ in form:

* Amounts and heights are natural numbers. `add_htlc` does not reject an amount
  below zero; no caller passes one, and the models do not either.
* `add_htlc` with an id that is still pending replaces the record. `Channel`
  lets callers do it (`Next`) and, in `FreshNext`, forbids it: what is lost is in
  `dropped`, and only without it is the capacity conserved.
* A commitment number is revoked in a channel without any relation to
  `sequence_number`: `Revoke(n)` takes any number, as the method does.
* `PaymentNetwork` opens each link once. A second `open_channel` replaces the
  object in both nodes: the HTLCs of the first are forgotten, which the code
  does not prevent and the model leaves to its callers.
* `PaymentNetwork` gives every HTLC an id of its own, as the callers do.
* Neither `route_htlc_payment` nor the simulation compares a locktime with the
  height. The simulation offers both hops at one height, so its offers are
  early by construction; in `PaymentNetwork` blocks may pass between them, and the
  guard of `ForwardPayment` keeps of that only that no hop is offered past its locktime.
* The routes and amounts of `PaymentNetwork` are constants: the simulation
  calls `find_path` but sends the plain amount on every hop, without fees.
* In `Cli` a kill ends a process, not the machine: what was written stays
  written, so the missing `fsync` of `save_state` does not show. Text is written when the
  file is closed; over the text of another process it may leave a tail, which
  does not parse. The channels `status` loads are only displayed, so `Load` keeps
  nothing. The transactions of `simulate` are unsigned and never accepted: their
  number is 0. Balances are left out of `Cli`. `overlap` and `acked` are history.
* SHA-256 is injective and not invertible: `Hash` wraps its argument, a derived
  secret determines its root and path.
* `Shachain` leaves `last_index` out: it is written and never read.
* In `Routing` the dict order of neighbours does not matter, as the heap orders
  its entries by cost, alias and path; the model uses that order. `TimelockPolicy`
  is not used by the search, whose locktimes are in `PaymentRoute`.
* In `PeerDaemon` the `drain` of a short message does not suspend. A message of a
  type in `Handled` has one handler, which may finish, raise, or await. A payload
  that does not parse raises from `receive` and ends the loop as a handler's
  exception does. Messages are lost only with their connection (`Reset`). A task
  that is cancelled before its first step never enters its `try`: its socket is
  closed when it is freed, and its entry is not its to delete.
* In `Contracts`, `Transactions` and `Interpreter` a hash, a key, a point and a
  signature are symbols that nobody can forge. A key that is derived from two
  secrets belongs to who knows both. What the code signs by default is
  `SIGHASH_ALL`. `list(CScript)` yields a number for a small constant; a script
  item is the number here too.
* The interpreter looks neither at the version of a transaction, nor whether the
  stack is clean at the end, nor at the dummy element of `OP_CHECKMULTISIG`. So does the model.
* A transaction of the code has version 1, in which the chain does not enforce
  relative locktimes, and no builder makes the delayed claim of the revocable
  output. `Justice` has an external claim of version 2, as the contract intends.
* No method knows what the output of a revoked commitment is worth: its caller
  gives the amount that the remedy pays and that its signature is for, and the
  text of the txid, which `add_input` reads with `lx()` (`Lx`). In `Justice` the amount is any
  of `RemedySat`, whatever the state, and the text is as the network displays it or,
  as the demonstrations write it, in the internal order of the bytes.
* `scan_transaction` is given a confirmed commitment once, in the text it was registered
  under: a package that is registered later misses it, and a second registration replaces
  the first. `missed` are the states scanned without a package that fits the output. With a local balance below the dust limit output 0, which `vout` defaults
  to, is the other party's: the remedy the tower makes is then not accepted.
* In `Swap` an id may be initiated again only until a Lightning HTLC exists for it
  (`Idle`). The code has no such check: it is what the operator has to keep to. The
  coordinator does not look at the output it registers; that the server does so
  before it pays is `IsFunded`. No method completes a loop out or takes a
  refund, and the state `EXPIRED` is never set: the user's claim and the refund
  use the builders directly. The default locktimes 288 and 144 are heights, so the
  operator has to add the current one; `Locktime` is such a height.
* In `SqliteStore` a crash ends a process, not the machine: with `synchronous =
  NORMAL` a power loss may take the last commits with it, which is not modelled.
  A channel is a version: what it holds besides its HTLCs is left out.

Where the code does not do what its documentation says, and a run shows it:

* `daemon_reconnect`: the end of an older connection unregisters a newer one.
* `cli_persist`: a funding drops the channels of earlier commands from the state.
* `breach_demo`: `cli/demos/breach.py` and `cli/demos/watchtower.py` pay and sign
  the remedy for the capacity, 100,000 sat, where the output is worth 80,000
  (`breach.py:73`). Its outputs exceed its input and its signature is for another
  amount, so the chain rejects it. `src/README.md:22` and `:74`, `breach.py:145` and
  `src/tests/test_revocation.py:78` promise 100% of the capacity.
* `breach_demo` again: they write the txid as `GetTxid().hex()`, whose bytes are in
  the opposite order of what `lx()` expects, so the remedy spends no existing output.
  Each of the two faults is enough: `BreachPunished` fails on the same instance
  with the amount mended (`RemedySat = {8}`) or the text (`TxidText = "displayed"`), and
  holds with both.

Where the documentation says more than the code does, and no run shows it:

* `close_cooperatively` (`domain/channel.py:212`) returns "final balances" also
  with HTLCs pending, whose resolution changes them afterwards. `QuiescentCloseFinal`
  says what does hold.
* `network/routing.py:140` promises to "continue search for alternate paths" when
  fees do not fit. A relay that has been visited is not visited again, so an
  alternative through it is not found. `CompleteWithHeadroom` says what is.
* `save_network_state` is documented as atomic and commits each channel and
  preimage by itself, so a load may see a part of it; `clear` uses `executescript`, which
  commits every statement. `RowsMirror` and `SavedLoadsBack` say what holds none the
  less, and `torn` names the exceptions.
* `src/README.md:62-67` draws a payment whose relay earns 26 sat: 25,026 on the first
  hop, 25,000 on the second. `cli/demos/routing.py:134-187` offers the plain amount on
  both; `WealthExplained` is about what the code does, a relay that neither pays nor earns.
* The second-stage transactions (`bitcoin/transaction.py:337`) are documented to let
  the honest party sweep HTLCs in flight. The HTLC script can be spent without them,
  and then nothing delays the spender.
* The anchor commitment pays the balances to scripts that anybody may spend after
  16 blocks.
* The adaptor signature of BIP 340 does not negate an odd nonce or key: it
  verifies when both are even. The adapted signature is not an ECDSA one, so it
  does not satisfy the PTLC script; the Taproot settlement accepts it.
* An eltoo update is documented as floating (`protocols/eltoo.py:76`) and signed with
  `SIGHASH_ALL`, which binds it to one input; the script is a plain 2-of-2 without a lock on
  the number of the update, so that only the caller of `validate_eltoo_override`
  keeps the order.

## Runs

| run | instance | what it shows |
|---|---|---|
| `channel` | 2 ids, 2 secrets, capacity 3, amounts 1 and 2, sequence number up to 5, locktime 1 | however offers, reused ids, redemptions, refunds, revocations and closes interleave: `BalancesExplained`; a close without pending HTLCs is final (`QuiescentCloseFinal`); a settled channel only pays out (`SettledOnlyPaysOut`) |
| `channel`, its secrets | indices of 3 bits, one seed, one wrong root | all reveals in all orders: `AllRetrievable`, `StoreIsMinimal`, `AnswerUnique`, `SlotBound` |
| `network` | Alice-Bob-Dave, capacity 3, a payment each way and a direct one competing, locktimes 5 and 2 after the start, reaction time 1, height up to 7 | `RelaySafe`, `PaymentsAtomic` (refinement of `AtomicPayment`), `ChannelsConserved`, `WealthExplained`, `SecretPerOffer` |
| `routing` | 5 nodes, 3 topologies, capacity 4, all balances, fee 1 plus half | `RouteSound` against an independent definition of an affordable path, `CompleteWithHeadroom`, `Terminates` |
| `daemon` | 2 daemons, 2 connections, 1 message, 1 reset, stops at any time | `EntryHasReader`, `SoleConnectionRegistered`, `EndsClose` |
| `daemon_reconnect` | the same | a violation: the end of an older connection unregisters a newer one |
| `cli` | 2 processes at a time, any number of commands, one after the other; coins of 7 and 4 (Alice), 4 (Bob), 6 (Dave), capacity 4, fee 1, dust limit 2 | `WholeUnlessOverlap`, `StoreAtomic`, `RecordedFunded`, `CoinsConserved`: kills, lost answers and raced coins damage neither the file nor what it says |
| `cli_persist` | the same | a violation: the second funding of two, one after the other, drops the first channel from the state |
| `script` | 7 contracts; every witness of up to 3 elements before the script, 8 combinations of sequence and locktime, and what each builder makes; dust limit 2, expiry 5, delay 16, amount 10 | `OnlyEntitled`: only the parties get in, with the preimage and after the timelocks; `BuiltAccepted`: what the builders make passes |
| `breach` | 4 states with balances 10, 8, 1 (dust) and 5 of 10 for Alice, remedies for 10 or for 8 whatever the state, delay 3, height up to 5 | `PenaltyExact`: the penalty falls on revoked states and no other, and spares only those without a package for their output; `FittingRemedySweeps`: where the tower has one, it sweeps |
| `breach_demo` | 2 states, 8 and 5 of 10; remedies for the capacity, 10, and txids in the internal order of the bytes | a violation: a registered package does not sweep the output of a revoked state |
| `swap` | an id asked for a loop in of 5 or of 3 and for a loop out of 4, another for a loop in of 5; locktimes 3 and 1, Lightning expiries 1 and 3, height up to 3 | `SwapIsAtomic` (refinement of `AtomicPayment`), `FundsReturn` |
| `sqlite` | 2 processes, 1 channel with no, two and one active HTLC in its versions, redeemed in the third | `RowsMirror`, `SavedLoadsBack`: no interleaving, lock or kill leaves tables that contradict each other |

The bounds. Five steps of `sequence_number` are enough for two HTLCs in flight
in opposite directions, both resolved, and a third offered under a used or a
pending id; a redemption and a refund race at the only expiry. Three satoshis
make the balance too small for some offers. In `network` the height lets the
first payment of every order expire completely while others still start, and 5
and 2 with a reaction time of 1 satisfy the same inequality as the code's 144 and
100 with a reaction time of up to 21 blocks. The channel and the store of secrets share one run and no variable: each of
the two runs while the other is as it was in the beginning (`MCNext`), which reaches every state
of each. Three bits give `Shachain` indices
with zero, one, two and three trailing zeros and trees of every shape up to
depth three; the proofs have any number of bits. The topologies of `routing`
have two paths that meet at a relay, two that do not, a cycle, edges used against
their direction, and a missing target; every split of the balances has the fees
fit on one, both or none. Two connections are what it takes for one to shadow the
other, in one direction or in both.

In `cli` two processes are what a race takes; the coins make each branch of the
selection happen: one coin is enough or two are needed, the capacity is lowered,
the change is exactly the dust limit, below it, or nothing. What is funded is bounded by
the coins. The two sessions are symmetric: no constant or property names one, and
the run has no liveness property.

In `script` three elements before the script are what the longest template takes;
the 16 blocks of the delay are those of the anchor script, so that one sequence is
at the limit of both. In `breach` the delay leaves the tower one block to spare, and four
states let two be revoked in the wrong order with one in between. The two amounts
of a remedy make each case of the chain's check happen: one is what the output is worth in the first
or in the second state, more than it is worth in the second, less than in the first, and
neither fits the last two, of which one is dust. In `swap` one id is asked for both types and for two amounts, so that a
script, an output and an amount of the same id can disagree; another id with the same amount makes
a preimage and an output of the wrong swap available. The inequalities between the
locktimes are those of `SwapAssumption`: the outgoing side expires first. In `sqlite` the second
version has more than one row, so that a transaction can be cut between them; two
channels make the state space too large, and the order in which
a save writes them is that of the preimages after the channels.

Deadlock is checked in `channel`, `cli`, `cli_persist` and `sqlite`. It is switched off in `network`
(the height is bounded, and all payments may have ended), `routing` (the search ends), `daemon`
(all daemons may have stopped), `script` (the script returns or raises), `breach` and `swap`
(everything may be spent and the last block mined), and the violation runs that go with them.

Fairness. `Routing` assumes that the loop runs (`WF` of its next-state
relation): it is one function call. `PeerDaemon` assumes what an asyncio event
loop gives: each pending `connect_to_peer`, accepted connection and read loop
that can go on does. Nothing is assumed of users, of the network, or that a
message is ever sent; a handler that awaits comes back, which is the one
assumption on code outside the daemon. `Justice` assumes that the loop
around `scan_transaction` runs and that what it returns is sent, both before the delay is over
(`InTime`, which restrains `NewBlock`): a watchtower that is slower protects nobody.
`Swap` assumes that blocks come, that transactions which were made are sent, that a funder tries to
refund, that a Lightning HTLC fails at its expiry, and that the server completes
and settles in time; nothing is assumed of the user. The other
specifications state safety and no fairness.

## Proofs

A proof module has an inductive invariant for each specification, one lemma per action that the
action preserves it, and theorems that follow from it. The constants are arbitrary
within the assumptions named here; every one of these is evaluated by TLC on the runs.
No module reaches a `RECURSIVE` operator: what the interpreter does to a script, what
amounts add up to and the Merkle root are recursive functions on the numbers up to a length.

* `PaymentNetworkProofs`, amounts. The models add amounts up by counting: a table from names to
  amounts is worth the number of pairs of a name and a satoshi. Changing an entry
  moves the worth by that entry, splitting a table splits it, renaming its entries
  leaves it, and a redemption or a refund takes exactly one HTLC out of what is locked.
* `PaymentNetworkProofs`, one channel: type correctness, `BalancesExplained`, `SettledOnlyPaysOut`,
  `QuiescentCloseFinal`, and `CapacityInvariant` for callers that do not reuse
  pending ids, for any parties, capacity, amounts, locktimes and bounds. The
  inductive invariant (`ChannelInv`) is `ChannelTypeOK /\ FiniteLocks /\ BalancesExplained`: locked
  satoshis are the cardinality of a set, so finiteness of that set is
  part of it. Assumptions: the two parties differ, and the numbers are natural.
* `PaymentNetworkProofs`, the network: `RelaySafe` and the refinement `PaymentsAtomic` for any
  network, any payments and routes of any length. Assumptions: routes visit a node
  once (as `find_route` guarantees), and every upstream locktime is more than twice the
  reaction time after each downstream one. The invariant relates all pairs of
  hops of a payment (`Chain`), so no induction along the route is needed; its heart is
  `InTime`: an offered hop is at most `Grace` past its locktime and a relay at most
  `Grace` late after its own offer was redeemed.
* `PaymentNetworkProofs`, its accounts: type correctness, `ChannelsConserved`, `SecretPerOffer`
  and `WealthExplained`. The invariant `Books` adds to the first one that each
  channel object holds only HTLCs of hops over its link (`Objects`) and its capacity
  (`Balanced`), that the secrets of a side are as many as its offers, under
  numbers up to `sequence_number` (`Secrets`: the number only grows, so the next
  one is new), and, for every node, that its balances and what it offered without
  getting it back are what it funded and redeemed (`Wealth`). With nothing of the node in
  flight the offers are those it pays and those it relays, the redemptions those it
  is paid and those it relays; the two tables of relayed hops are renamings of each
  other, as hop `i` is redeemed exactly when hop `i + 1` is, which is where `Chain` is needed again.
* `RevocationProofs`, the secrets: a derived secret is the generator's
  (`DeriveFromAncestorCorrect`), type correctness, `StoreIsMinimal`, `AnswerUnique`,
  `AllRetrievable` and `SlotBound`, for indices of any positive length. The invariant adds that each
  revealed index is derived by some slot (`Covered`) and each slot holds a
  revealed secret (`SlotsRevealed`); the argument is that `can_derive` is a
  partial order whose ancestors of one index are comparable. `SlotBound` maps each
  slot to its lowest one bit: two slots with the same one would have a common ancestor that
  comes before one of them, so it was revealed, and the slot would not be minimal.
  "Before" is `Earlier`, the order of the numbers read from the highest bit in which they differ.
* `NetworkProofs`, the route search: type correctness, `RouteSound`, `CompleteWithHeadroom`, and the
  action property `Progress`. Assumptions: finitely many nodes, one channel per
  pair, natural amounts. The invariant says that heap entries are simple paths
  from the source over edges with the capacity (`QueueOK`), that each visited node
  was reached over visited nodes in no more hops than any entry of the heap has
  (`Reached`), and, where fees fit everywhere (`Headroom`), that the first unvisited node of any
  path is on the heap with no more hops than on that path (`Frontier`). `Progress` is the
  termination argument: every pass leaves fewer nodes unvisited, or as many and
  a smaller heap. That the loop runs at all is fairness, so `Terminates` itself stays with TLC.
* `NetworkProofs`, the daemons: type correctness, `EntryHasReader` and
  `SoleConnectionRegistered`, for any number of daemons, connections, messages and
  resets. Neither is inductive: an entry is deleted under the alias the connection has noted,
  so the invariant adds that the alias is the other end's (`AliasTrue`), that an entry and
  its connection agree on it (`EntryAlias`), and that a connection without a read loop has noted
  none (`NotBegun`). Assumption: the empty alias is nobody's name.
* `CliProofs`: type correctness, `WholeUnlessOverlap`, `StoreAtomic`, `RecordedFunded` and
  `CoinsConserved`, for any number of sessions, any commands, and finitely many coins with positive values.
  The invariant says who may have a temporary file open (`OnlyWriters`), that what files and sessions
  hold was funded (`FilesBacked`, `SessionsOK`), that only what one session wrote
  is renamed (`FilesSafe`), and that unspent coins and fundings are worth what the
  coins were, less fees and dust (`CoinsWorth`, `Balanced`).
* `SqliteStoreProofs`: type correctness, `RowsMirror` and `SavedLoadsBack`, for any
  processes, channels, preimages and versions with finitely many HTLCs each. The
  program a process still has to run is part of the state, so the invariant says which
  programs occur and how far each has come (`ProgramsOK`, with `Partial` for an open transaction and
  `Clearing` for a clear), that at most one write transaction is open (`OneWriter`), that rows and
  `state_json` agree but where such a program is part of its way (`RowsOK`), that what the last whole save has
  not written yet is still in its program (`Unsaved`, `KeptOK`, `ClearsAlone`), and what a load
  has seen so far (`Learnt`).

* `TransactionLemmas`. The machine of the interpreter exists for every script (`MachinesFacts`: a
  script without one would have a shortest prefix without one), so it can be
  followed opcode by opcode. Followed to the end are the two ways the proofs below need: the remedy's
  witness is accepted by the revocable output (`PenaltyVerifies`), whatever the keys, the delay and the
  transaction, and a refund before the locktime is not accepted by the HTLC script, whoever
  signs it (`EarlyRefundRejected`). The other lemmas say what the builders make, that different
  transactions have different ids, and what confirming one does to the unspent outputs.
* `RevocationProofs`, the penalty: type correctness and `PenaltyExact` of `Justice`, for any number of
  states, any balances, delay and bound on the height, any amounts that callers pay and sign
  remedies for, and either text of a txid. The invariant (`JusticeInv`) says that
  nothing is scanned or swept before a commitment spends the funding output, which only one does
  (`FundingFirst`, `OutputOK`), that what the tower holds and sends is signed for a revoked state, over one of
  those amounts, right or wrong (`PackagesOK`, `UnsentOK`) and at most one answer is on its way (`OneAtATime`), that no delay is
  over while the tower has something to do (`DelayRuns`), and that a to-local output is still to be
  scanned, about to be swept by a package that fits it, or was missed (`ToLocalWatched`). `PenaltyVerifies` is why
  what the tower sends is accepted when the amount and the txid are those of the output; nothing is
  claimed of the others but that they do not take a state which was not revoked. That Alice cannot take the output earlier rests on the
  relative locktime that the chain itself enforces on her claim. Assumptions: the balances lie between 0
  and the capacity, the delay is not 0, and the amounts are natural numbers.
* `SwapProofs`: type correctness and the refinement `SwapIsAtomic`, for any offers, amounts, fee and
  wallets. Assumption (`SwapAssumption`): an offer is its id, type and amount, and of the two halves of a swap
  the outgoing one expires first. The invariant (`SwapInv`) says that once a side has paid, the swap, the output that was
  registered and the lockup are of the same offer (`SwapsOK`, `RegisteredOK`, `LoopInFixed`), that an output
  exists only of a lockup that was funded and not both claimed and refunded (`LockupOK`, `ClaimedOK`,
  `RefundedOK`), that the Lightning half of a loop out follows the chain (`LoopOutFollows`), and
  that the server's half is still in time (`Deadlines`). A refund that confirms has waited
  for the locktime, by `EarlyRefundRejected`; so the step that refunds a loop in cannot follow the one that
  settles it, and each step of the coordinator, the parties or the chain is a step of
  `AtomicPayment` for one order or a stutter for all.
* `SpendingProofs`: type correctness, `OnlyEntitled` and `BuiltAccepted`, for any witness, amounts,
  timelocks and bound on its length. For each template there is a lemma (`MultisigExecutes`, `HtlcExecutes`,
  `PtlcExecutes`, `RevocableExecutes`, `AnchorExecutes`) that follows the opcodes on a stack of any length and
  says exactly for which witnesses the script returns true: what lies deeper than the template
  looks does not matter, and a short stack raises. From the exact condition follow both directions:
  an accepted witness holds what `Entitled` asks for (`VerifiedEntitles`), and what each builder
  makes meets the condition (`BuiltGood`). The invariant of the run (`IInv`) says that `m` is the machine which the
  opcodes before `pc` leave, so that a verdict is that of the whole script.
  Assumption (`SpendingAssumption`): timelocks and the amount are not 0, and the other numbers are natural.

Only model-checked: liveness (`Terminates`, `EndsClose`, `FittingRemedySweeps`,
`FundsReturn`), which is beyond the prover. Every invariant that a passing run checks, and both refinements, are proved too.

## What is not modelled

* Sphinx onion packets: layered encryption of one packet, without state.
* The arithmetic of curves and hashes, addresses and serialisation; the ECDSA-like
  variant of the adaptor signature, which no script of the code accepts.
* `LeaseFeePolicy`, `CapacityPolicy`, `TimelockPolicy`, `RevocationPolicy`: formulas
  that nothing with a state uses. Limits and fee of `SwapServerConfig` and the
  liquidity advertisements: nothing reads them.
* `validate_eltoo_override` and chains of eltoo updates: the script does not
  enforce the order, so there is no promise to check beyond the one transaction.
* Queries, polling and retries of the Esplora client: reads, and a
  decorator that never retries as `broadcast_tx` converts the errors it waits for.
* The commands of the CLI that display or run a demonstration in memory; `clear_state`,
  which no command calls; the encryption of watchtower packages.
* Constants, exceptions, `Result`, configuration and entry points.

## Plan

1. Done: channel, network with its abstract specification, shachain, routing,
   daemon, JSON storage under the CLI; contracts, interpreter, transactions and the
   chain, and on them revocation with the watchtower and swaps; SQLite storage;
   the proofs above.
2. Done: the proofs of `Justice` and `Swap`, with lemmas on what the interpreter makes
   of the revocable output and of the HTLC script.
3. Done: for each template, which witnesses the interpreter accepts, for witnesses of any
   length; on it, who can spend an output and that what the builders make is accepted.
