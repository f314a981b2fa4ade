# TLA+ verification of the Hyli node

The repository is a node of the Hyli L1 and the libraries around it. Validators agree on
*cuts* of the lanes that their mempools disseminate; the blocks built from the cuts are
stored and streamed to others; `NodeState` executes them and settles blob transactions when
the proofs of their blobs arrive; provers and indexers follow the chain. This project models
these parts, model-checks them on small instances with TLC and proves the most important
safety properties for all parameters with TLAPS.

`PROJECT.json` lists the components, the runs, the mutants that show that each property
depends on the code, the source lines behind each definition (`map`), the hazards, the
findings and the theorems.

## The parts and their modules

Paths are relative to `src/`.

| Part | Code | Modules |
|---|---|---|
| Consensus | `src/consensus.rs`, `src/consensus/` | `RoundState` (handlers), `Consensus` (unreliable network), `ConsensusLive` (reliable network) |
| Mempool, block construction | `src/mempool.rs`, `src/mempool/` | `Lanes` (storage), `Mempool` |
| Data availability | `src/data_availability.rs`, `crates/hyle-net/src/tcp/` | `BlockStream` (what a client may rely on), `DataAvailability` (the node) |
| Node state | `crates/hyle-modules/src/node_state.rs`, `node_state/` | `Settlement` (pure part), `OrderedTxMap`, `NodeState` |
| Listeners | `da_listener.rs`, `signed_da_listener.rs` | `DAListener`, `SignedDAListener` |
| Prover | `crates/hyle-modules/src/modules/prover.rs` | `NodeStateFeed`, `AutoProver`, `ProofBatch` |
| Indexers | `src/indexer/`, `contract_state_indexer.rs` | `NodeStateBlocks`, `ContractStateIndexer`, `Indexer`, `IndexerApi` |
| Contracts and SDKs | `crates/contracts/`, `crates/contract-sdk`, `crates/client-sdk` | `ContractSdk`, `Contracts`, `SmtToken`, `Wallets` |
| Stakes and fees | `crates/contracts/staking/` and their copies in the node | `Staking`, `Economy` |
| Network | `crates/hyle-net/src/tcp/p2p_server.rs`, `src/p2p.rs` | `P2P` |
| Genesis, lone node | `src/genesis.rs`, `src/single_node_consensus.rs` | `Genesis`, `SingleNode` |
| Modules of a process | `modules/mod.rs`, `bus.rs`, `websocket.rs` | `Modules`, `Bus`, `WebSocket` |

Compositions: `DAListener` extends `DataAvailability` (a node with `NodeState` behind the bus,
a peer it catches up from, a client and its connection). `Genesis` runs the
`TxExecutor` of `Wallets` over `Contracts` and feeds the result to `Staking`. `Economy` composes wallets,
contracts and two copies of the stakes, that of a validator and that of a node that joins, after
the transactions of `EarlierTxs`. `Consumers` and `MCServices` put parts that share no
state side by side: every behaviour is one of one part, the rest staying in an initial state.
The `MC*` modules give constants their values.

### Correspondence of state and actions

* **Consensus.** A proposal is the sequence of cuts from the genesis to itself; its length is
  its slot, its prefix its parent, equality of sequences is equality of hashes. As in the code
  the view is not part of it. A certificate is what it certifies. `st[n]` is `BFTRoundState`;
  `RoundState` has one operator per handler of the leader, follower, timeout, sync and joining
  roles, from a state and a message to the new state, the messages sent and the commits.
  In `Consensus` a message once sent can be received at any time, any number of times, or
  never; `MayRefuse` lets a verification fail for reasons outside the model. `Restart` is a
  clean stop and start. The bonded set is fixed here.
* **Mempool.** A data proposal is the sequence of batches of its lane up to its own. `Lanes`
  is the storage trait (`put`, `put_no_verification`, `clean_and_update_lane`, ...); `Mempool`
  has an action per message, timer, task result and commit. Links are FIFO per pair and may
  lose what is in flight. Consensus is the sequence of cuts. `Restart` is a clean stop and
  start; after an unclean one the tips on disk are old ones (see the observations), which is
  not modelled.
* **Node state.** A block is handled by the iterations of its loops: `clear_timeouts`, the
  transactions, `settle_txs_until_done`, the purge after a deletion. The outputs of a proof
  are kept as far as settlement looks at them; `coherent` is whether it fits the transaction.
  Heights are relative to the current block, and entries of `Timeouts` that differ only in
  repetition are the same. The order in which a purge meets transactions is left open.
* **Data availability.** A block is its height. `handle_signed_block`, `pop_buffer` and
  `add_processed_block` are one step; the sources are the genesis, the mempool, which builds the
  blocks of the commits it saw in any order, and the catch-up stream, a `BlockStream` of its own.
  The mempool announces after every start from which block on it builds them. A failed
  connection to a new peer ends the node, as in the code. The event queue to `NodeState` is the
  bus. `Served` is the mapping of the node's sockets, tasks and retries to `BlockStream`.
* **Prover and indexers.** A contract's state is the set of transactions that changed it, so
  that the right state is known to the model. The database of the indexer is its tables; a
  failed batch loses what was drained from the buffer, and a row whose foreign keys are missing
  fails its batch, as in the code. `IndexerApi` has the queries as operators on the tables.
* **Contracts.** Each `execute` is an operator from a state and a calldata to a result, which
  for an error may hold a state that was already changed. A Merkle root is the tree.
* **P2P.** Two nodes and one canal; the two tasks of each end of a connection, the names the
  code gives to sockets, the jobs that serialise messages, writes that time out and lose what
  their sender had not written, connections asked for by `ConnectTo`. Clocks agree.
* **Genesis and the lone node.** Genesis runs with `keep_tokens_in_faucet` set and unset, and the
  network may leave it with a quorum of the stakers while the others are still in it. The lone
  node's consensus and mempool are saved one after the other; each may be given up, and the
  process may be killed in between.
* **Websocket.** The server handles one message at a time; what its loop has not read is pending.
* **Bus.** A tokio broadcast channel; the check of the length and the send are two steps.

## Runs

All passing runs are exhaustive for their bounds. `CHECK_DEADLOCK FALSE` is used where the
bounds (slots, heights, blocks, messages) end every behaviour, or a process may end.

| Run | States | What it shows |
|---|---|---|
| `consensus_timeouts` | 50,071 | Three validators, stakes 2:1:1, second slot after one without staking actions, every timer may expire at any time: `CommitsAreAcknowledged`, `ForksExplained`, `LateAckIsOfTheParent` |
| `consensus_join` | 264,028 | Two validators and a node that joins from the genesis, three slots, and either one clean restart or timeouts of the last slot: `Agreement`, `CommitsFollowChain` |
| `consensus_live` | 128,013 | Four validators, one stopped, fees that cannot be charged: `EveryoneAdvances` |
| `consensus_fork` | violation | `Agreement` with timeouts (finding 1) |
| `consensus_stale_confirm` | violation | `AckIsForTheSlot` after a slot without staking actions (finding 3) |
| `node_state_queues` | 510,475 | Three transactions on overlapping contracts, after the fork of height 445 000: `ReportReplays`, `EveryTxResolves` |
| `node_state_tld` | 251,979 | Six transactions that register, delete and update contracts and nuke others, before that fork: `OnlyHeadSettles`, `KnownContracts`, `QueuesCoherent`, `TimeoutsCoherent` |
| `node_state_report` | violation | `ReportReplays` with a native blob (finding 2) |
| `mempool` | 367,959 | Two validators and lanes, two transactions, one loss or stop: `LanesAgree`, `BlocksPartitionLanes`, `OperatorHolds`, `EveryProposalCommitted` |
| `data_availability` | 414,511 | Three blocks, a peer or a client, reconnections, retries, restarts: `NodeStateFollowsStore`, `FollowersNeverSkip`, `CatchupLeavesNoHole`, the refinement `ServesBlockStream`, `CatchupCompletes`, `ListenerKeepsUp` |
| `consumers` | 1,229,332 | `SignedDAListener`, `AutoProver`, `ContractStateIndexer`, `Indexer` and its API: what they publish (`PublishedInOrder`, `EveryBlockPublished`), prove (`ProverInStep`), store (`CsiFollowsChain`, `TablesFollowChain`) and answer (`AnswersSound`) follows the chain |
| `services` | 580,643 | Contracts (`AccountsSafe`), stakes (`StakesAgree`), batches of proofs (`ProgramAgrees`), P2P (`PeersAgree`, `ReceivedInOrder`), genesis (`GenesisSound`, `GenesisCompletes`), lone node (`SingleChain`), shutdown (`ExitsAfterAll`, `OrderlyShutdown`), bus (`NobodyLags`) and websocket (`TopicsDelivered`) |

Every property has a comment that says what it means and which code it is about, and a mutant
of that code which TLC finds to violate it. Some are conjunctions of properties that are stated
one by one before them: `ForksExplained`, `CommitsFollowChain`, `TimeoutsCoherent`, `LanesAgree`,
`FollowersNeverSkip`, `ProverInStep`, `CsiFollowsChain`, `TablesFollowChain`, `AnswersSound`,
`AccountsSafe`, `StakesAgree`, `GenesisSound`, `OrderlyShutdown`. `TypeOK` of the consensus, of
the data availability and of the listeners, `CertificatesBacked`, `BufferAheadOfStore`,
`BufferStrictlyAhead` and `QueriesServedOnce` are proved and in no run.

### Bounds, and why they are enough

The bounds are chosen so that the interesting cases occur: stakes that differ, so that a
quorum is not a number of nodes; one slot committed before the one under test, so that old
certificates exist; both a transaction with a window and one without on a shared contract;
a lane that needs the other's vote and one that does not; a chain longer than what is buffered;
a second connection while blocks of the first are in flight; one more restart than is needed to
lose what was not saved. `BufferSuffices` in `Bus` scales the channel of 100 000 messages and
10 of spare room down to three and one, for two senders. `MaxRetries` stands for the 11
retries of a catch-up block. In `MCServices`, P2P connections break in behaviours with at most
one message, the proof of `ReceivedInOrder` having no such bound, the transactions and blocks of
`Economy` are three together, and a websocket server of both topics and broadcasts gets one message
of a client. `FirstAtZero` loses nothing: P2P timestamps are only compared with each other.
`RestartsOrTimeouts` keeps the restarts and the timeouts of `consensus_join` apart. `Roles` gives
the node of `data_availability` either a peer to catch up from or a client to serve; the proofs
have both at once.

Larger instances were explored once with the same result: consensus with two validators and
three views (38,517 states), three validators, three slots and a restart (336,100), four live
validators (29,213); data availability with a peer and a client together and two blocks
(2,385,798); the prover with four blocks (47,111,818); mempool with a loss and a restart (927,229),
two lanes and three transactions (516,450); P2P without `FirstAtZero` (579,844); websocket with two
messages of clients in every mode (280,025).

### Fairness

* `ConsensusLive`: links deliver, validators that are up act, and a timer that keeps becoming
  due fires (the `tokio` interval of the module). Timers fire only when nothing is left to
  deliver: the network has become reliable and the timeout is longer than a round trip.
* `NodeState`: blocks keep coming and the loops of a block end. A proof is never owed.
* `Mempool`: each event loop goes on, the leader proposes when it can, and the dissemination
  timer fires.
* `DataAvailability`, `DAListener`, `SignedDAListener`: the event loops, the streaming tasks
  and the reconnection loop go on. Losses and stops are bounded, hence stop in the end.
* `Genesis`, `Modules`: module tasks run, P2P connects nodes that are up, and a module that is
  asked to stop ends or is given up after `MODULE_SHUTDOWN_TIMEOUT`.

Nothing is assumed fair that depends on a peer, a user or a proof.

## Proofs

Constants are arbitrary up to the `ASSUME`s of the modules: positive numbers of nodes,
voting power that is a sum over the nodes (`PowerAssumption`), bounds that are naturals, a list
of modules without repetition.

Leaves cite `Zenon` wherever it suffices: the translation of `tlapm` to SMT gets slower with
every obligation it has translated, so that the long modules would take several times as long.

| Module | Theorems | Argument |
|---|---|---|
| `ConsensusProofs` | `TypeCorrect`, `CertificatesAreBacked`, `CommitsHaveQuorums` | Each handler maps well-formed states and messages to such; one lemma per handler. Commits alone are not inductive: `CertificatesBacked` follows every certificate a node or a message holds back to the votes, acknowledgements or timeouts sent by more than 2f, and since messages are never removed it is kept by all steps |
| `ForkProofs` | `ChainIsFollowed`, `LateAcksAreOfTheParent`, `ForksNeedLateAcks`, `NoForkWithoutTimeouts` | `ForkInv`, see below. Its lemmas on timeouts, tickets and prepares are in `ConsensusProofs` |
| `LaneProofs`, `MempoolProofs` | `LanesStayCopies`, `BlocksAreTheCuts`, `OperatorsHoldTheirLanes` | `MempoolInv`, see below. `LaneProofs` has the handlers of one node, `MempoolProofs` the sync replies, the network and the commits |
| `DAListenerProofs` | `StoreAndFollowersSafe`, `NobodySkipsABlock`, `CatchupIsComplete`, `NodeImplementsStream` | `DAInv`: the store is `0..Last`, the events are the last stored blocks, what `NodeState` handled and saved precedes them. `ServeInv`: connections are numbered, only the last is alive, and its one request made the one range streamed to it; with both, every step maps to a step of `BlockStream` or to none. `BuildInv`: what was committed since the announcement is stored, buffered or being built, so that a catch-up that has reached the announced block leaves nothing out |
| `ServicesProofs` | `QueuesStayCoherent`, `ContractsStayKnown` | `IInv` of `NodeState`: types, queues and map agree, every unsettled transaction has known contracts or is about to be purged, and a purge exists only inside a settlement |
| | `NoMessageOverwritten`, `QueriesHaveOneHandler` | `RoomForAll`: what a receiver has not read plus the senders between check and send is less than `CHANNEL_CAP_IF_WAITING` plus the number of senders. `BufferSuffices` is the assumption the comment in `bus.rs` makes silently: at most 11 concurrent senders for a spare room of 10 |
| | `LoneNodeKeepsOneChain` | `SingleInv`: the store, in memory and on disk, describes one of the commits, and the last one unless an unsaved store was lost; the tips of the mempool, in memory and on disk, cover the cut of the store unless the two saves were torn apart |
| | `ProcessExitsAfterItsModules`, `ModulesStopInReverse` | `ModulesInv`: the list of started modules keeps the order of the start and holds whatever runs; while one thing alone has ended the process, exactly one module is stopping, answering or waited for |
| `NetworkProofs` | `MessagesStayInOrder` | `P2PInv`: along the way of a message, from the jobs that serialise it over the wire and the pool to the bus, the numbers ascend per connection, and whatever has left its sender is before all that is still a job |
| | `ListenerSafety` | The buffer is ahead of the next block and what was published is the range before it |
| `WebSocketProofs` | `TopicsReachTheirListeners` | `WsInv`: a registered client has a sender, an open one is registered to its topics as long as it stays, what is pending is in order and after all that was delivered, and what an open client has of a topic is what was handled since |
| | `FirstBlocksAgree` | Of `GenesisSound` the half `GenesisAgrees`: a node builds a block only when it knows all the stakers, so that every block is built from the same list, which no restart, late announcement or order of peers changes |

**The fork argument.** `Agreement` is not inductive and, with timeouts, not true (finding 1);
`ForksNeedLateAcks` says exactly what a fork takes. `ForkInv` holds what the code never
compares but relies on: every `Prepare` of a slot and view comes from the leader of that view
and is unique (`PrepareUnique`); every certificate, vote, acknowledgement, timeout and commit
that a node or message holds has an origin, the `Prepare` of some view of its slot; a node
that moved on from a view, and the ticket it moved on with, are bound to what was prepared before;
everything a node has committed is a prefix of its chain, committed by somebody with
a certificate. Two different commits of a slot have two origins, by uniqueness in different
views. Of the later one the ticket is a timeout certificate with no proposal or with another
one, so its quorum of timeouts meets the quorum of acknowledgements of the earlier one, and
the validator in both is the one the property exhibits.

**The lane argument.** That two copies of a lane agree is not kept by the handlers alone: it
depends on what is buffered, being processed, in flight and prepared. `MempoolInv` compares
everything with one chain per lane, what the operator has at its tip: every stored, buffered,
processed or sent proposal is on that chain and has its length as size, the operator holds all
of it, what it prepares goes on top, and the cuts are ascending points of the chains. A step of
the operator makes the chain longer, so that all the rest stays on it; a commit moves a tip only
along it. Blocks under construction are the intervals between two cuts, hence so are the blocks.

Hypotheses of these theorems, each of which the code needs:

* `MaxRestarts = 0` in `ForkProofs`: `on_new_block` can take a restarted validator back to a slot
  in which it has already proposed, so that `PrepareUnique` fails. `Agreement` and
  `CommitsFollowChain` with restarts are checked by `consensus_join` only, without timeouts.
* `Power[Validators] # 2` where quorums have to meet: a total stake of 2 gives f = 0, and two
  disjoint sets of stake 1 are then both more than 2f.
* `Impatient = {}` in `NoForkWithoutTimeouts`: no timer expires.
* `Len(ModuleOrder) # 1` in `ProcessExitsAfterItsModules`: a process of one module does not wait
  for it when a signal comes.

The inductive invariants were checked by TLC on small instances before they were proved.

Only model-checked:

* all liveness properties, since the prover has neither `ENABLED` nor fairness;
* `TimeoutsCoherent` of `NodeState`, which holds for the transactions and windows of its run and
  not for all (see the observations), `OnlyHeadSettles`, that what changes a contract is a
  transaction that was first in the queues of its contracts and names the one it changes, and
  `ReportReplays`, the last two being statements about folds over the blobs of a transaction;
* `PeersAgree` of `P2P`: which connection survives depends on the names, timestamps and events of
  all connections ever opened between the two nodes; no inductive invariant for any number of
  them was found;
* everything about the prover and the indexers (`ProverInStep`, `CsiFollowsChain`,
  `TablesFollowChain`, `AnswersSound`), the contracts, stakes and batches (`AccountsSafe`,
  `StakesAgree`, `ProgramAgrees`) and the block of `Genesis` (`GenesisSettles`), whose definitions fold over
  sequences, so that statements about them for every input need induction over data.

## Findings

1. `consensus_fork`: a validator that announced in a timeout that it saw no prepare certificate
   still acknowledges a late `Confirm`, and a leader never records the certificate it makes.
   2f + 1 timeouts without certificate then let the next leader propose anew while the first
   proposal commits (`role_timeout.rs:372`, against `network.rs:44`). `ForkNeedsLateAck` shows
   that in the instance this is the only way to a fork.
2. `node_state_report`: the index reported for a blob is looked up with the blob's position
   although native blobs were left out of the list (`node_state.rs:932`).
3. `consensus_stale_confirm`: a `Confirm` that arrives in the next slot is acknowledged when the
   committed proposal had no staking action, because `current_proposal` is still the old one
   (`role_follower.rs:224`), and its certificate is recorded under the new slot. The comment at
   `:235` says that the comparison of hashes covers slot and view. `LateAckIsOfTheParent` shows,
   and `LateAcksAreOfTheParent` proves, that nothing older than the last commit is acknowledged.

## Observations

Met while modelling. The models contain these behaviours unless the text says otherwise; no
document or test decides whether they are intended, or a property excludes them explicitly.

**Consensus**
* The timeout of a node that is not bonded is aggregated, and every receiver refuses the
  certificate (`role_timeout.rs:202` and `:230`).
* A prepare of the current slot that a joining node buffered is not replayed
  (`role_follower.rs:47` and `:646`); `on_commit_while_joining` starts only from slot 1.
* The highest prepare certificate is paired with `current_proposal`, which may be another one
  (`role_timeout.rs:382`); it is compared by slot only (`role_timeout.rs:67`).
* The test of the next view leader is inverted (`role_timeout.rs:183`).
* `compute_voting_power` counts stakers that are not bonded, contrary to its comment.
* After an unclean stop the store, stakes included, is that of the last clean stop or the
  default one. With the default a node accepts no certificate any more. Not modelled.

**Mempool**
* The verdict on a data proposal is cached before it is stored; when storing fails, a proposal
  that is sent again gets a vote for a lane size of 0 (`verify_tx.rs:70`).
* A refusal is cached for ever (`verify_tx.rs:363`): a proof of a contract that is registered
  earlier in the same lane can block the lane.
* Tips are saved at a clean stop only (`module.rs:174`): after another one an operator forks
  its lane, which the others refuse.
* Missing proposals are asked from the operator of the lane only, and a `SyncReply` overwrites
  the local signatures; `clean_and_update_lane` removes only the tip entry, possibly a signed one;
  `verify_tx.rs:409` joins with `&&` two conditions that each suffice.

**Data availability and listeners**
* A `NewPeer` that arrives while no catch-up is needed, or while one runs, is not recorded.
* The store is saved block by block, `NodeState` at a clean stop, and stored blocks are not
  sent again: after another stop `NodeState` refuses every later block (`node_state/module.rs:125`).
* `DAListener` handles block 1 without the genesis when it overtakes block 0, asks from block 1
  when the connection is lost before the first block, and handles a repeated block 0 twice.

**Node state**
* Entries of `Timeouts` are never removed (`timeouts.rs:18`): a transaction that settled and is
  sequenced again can time out early. A window of 0 never expires. A new window does not apply
  to queued transactions.
* `verify_hyle_output` compares the first effect only (`node_state.rs:1217`); a nuked
  transaction with a proof that fits is not failed (`:1137`); transactions dropped with a
  deleted contract are in no list of the block (`:963`).
* A transaction that is first in the queues of its own contracts may, through the effects of its
  proofs, change contracts it has no blob for; it names them, and is not in their queues.
* `QuerySettledHeight` of an unknown contract returns from `run` and so ends the module
  (`node_state/module.rs:103`), and subtracts from height 0 (`:106`). Queries are not modelled.

**Prover** (`prover.rs`)
* A prover restarted from disk executes what it catches up from the default state; when the
  node's height is the last one it handled, the catch-up does not end.
* A transaction that settles on a proof of the previous incarnation leaves the prover without
  the state to go on from, and the next transaction stops it (`StopsOnlyWhenOutrun`).
* A transaction whose hash is sequenced again, in particular in the block in which the first one
  ends, confuses the lookup by hash; failing proofs are not retried.
* In a batch, a transaction whose first blob on the contract succeeds and whose second fails, or
  a handler that returns an error, makes program and prover differ; so do self-transfers and
  zero amounts of `smt-token`. `ProgramAgrees` is claimed for the other batches (`regular`).

**Indexers**
* `sql_updates` run after the insertions and deletions of the whole batch; what was drained for a
  batch that fails is lost, and later batches fail on foreign keys; blocks that are sent again
  after an unclean stop are refused.
* A contract that is deleted and registered again in one batch keeps in `contract_state` the state
  of an update from before, until its next update; `TablesFollowChain` leaves that row out.
* Duplicates and transactions of deleted contracts stay `sequenced`; the contract state indexer
  keeps them for ever. `handle_mempool_status_event` is never called.
* A page of `get_transactions` drops what exceeds `nb_results`; `get_transactions_by_contract`
  with a start block joins on the hash only.

**Contracts and stakes**
* `create_new_pair` stores amounts in the order of the call under the ordered pair
  (`amm/src/lib.rs:150`), so `AmmSolvent` excludes pairs created the other way round.
* `register` of hydentity and `verify_swap` of the AMM change the state before they refuse: the
  caller has to revert, which `TxExecutor` does.
* Validators bond at the commit and again with the block; the second fails with "already bonded"
  after the other actions were applied. `total_bond` is the stake at the time of bonding: a validator and a node that joined differ in it
  when stakes change between the commit and the block that bonds (`StakedBeforeBonding`). Only
  validators charge fees, and the shares lose remainders.
* `distribute` fails on a lane without a fee balance, after it may have charged others; its comment
  says that this should never happen (`fees.rs:57`).

**P2P**
* Every outgoing connection to a peer has the same socket name: a reconnection by the same side
  drops its own new socket, and a late close of the old stream drops the new one; the other side
  or the next ping recovers. A connection lost during its first handshake is not retried. No
  liveness is claimed. Within a connection delivery is FIFO, as `Mempool` assumes; `Consensus`
  assumes less.

**Genesis, lone node, modules, websocket**
* `genesis.bin` is written when the event is sent, not when the block is stored: when all
  stakers stop in between, the genesis is lost. `GenesisCompletes` is checked with fewer stops
  than stakers.
* The `unreachable!` of `single_node_consensus.rs:126` is reached by a stop between the two
  modules' persistence, at every start from then on. A shutdown during the query for a cut is
  swallowed by the query; the module is then given up and not saved.
* A lone node that is killed after its consensus was saved and before its mempool was may propose a
  cut with less data than the one before (`torn` in `SingleChain`).
* A second module that ends, or a signal, while the modules are shut down makes the process
  leave before the last one is saved; a `ShutdownCompleted` lost between the two loops makes it
  hang when no module was recorded as shut. `ExitsAfterAll` and `ShutdownEnds` exclude these.
* A websocket server used for topics and broadcasts ends when a message of a topic meets the
  registration of a client that a broadcast dropped. Its timer for new clients restarts with every message.

## Not modelled

* Proof verifiers, hashes, signatures and serialisation: values with equality.
* REST and admin routes, the TCP server for transactions, configuration and start-up: they keep no
  state of the system. Load generator, uploaders, debuggers and the provers' clients.
* Candidacy of validators in `Consensus`; crashes of consensus nodes (see the hazards).
* The lane manager mode, the in-memory storages used by tests, failures of the disk itself.
* The `folder:` mode of the listeners; the table `proofs`, the statistics and the subscribers of the
  indexer.
* In `NodeState`: the wording of errors, the events of a block other than `verified_blobs`, the
  queries. In `AutoProver`: retries of the proving service and the readiness route.
* Back pressure of a slow websocket client; reuse of client addresses.
* In `P2P`: failing connection attempts, the verification of headers, the heights exchanged.
