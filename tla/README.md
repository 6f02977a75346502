# A formal model of conceal-core

TLA+ modules that model parts of conceal-core, configurations that TLC checks, and theorems that TLAPS proves. Paths
below are relative to the repository. `PROJECT.json` maps every definition to the lines it models and lists the
components, the runs, the mutants, the findings, the hazards and the theorems.

## 1. The system

| Part | State | Operations | Module |
| --- | --- | --- | --- |
| Blockchain (`src/CryptoNoteCore/Blockchain.cpp`) | main chain, alternative chains, index of transactions, spent key images | add a block, switch to an alternative chain and roll the switch back, console rollback | `Blockchain` |
| Checkpoints (`Checkpoints.cpp`) | heights and hashes | check a block, allow an alternative block | `Blockchain` |
| Block cache, restart (`Blockchain.cpp`, `Core.cpp`) | blocks file, cache files, pool file | autosave, orderly restart, crash and load | `BlockchainStorage` |
| Blocks file (`SwappedVector.h`) | two files, their buffers, the items kept in memory | read, push, pop, clear, replace, open and close | `SwappedVector`, `DurableVector` |
| Output indices (`Blockchain.cpp`) | outputs by amount, multisignature outputs and whether they are used | push and pop a transaction, rebuild | `BlockchainOutputs` |
| Deposit index (`DepositIndex.cpp`) | totals by height, compressed | push, pop, look up | `DepositIndex`, `DepositLedger` |
| Explorer indices (`BlockchainIndices.cpp`) | payment ids, timestamps, generated transactions, their file | add, remove, save, load or rebuild | `ExplorerIndices` |
| Upgrade detector (`UpgradeDetector.h`) | height at which voting completed | block pushed, block popped, search at start | `UpgradeDetector` |
| Transaction pool (`TransactionPool.cpp`) | transactions, their key images, expiry | add, take, put back, expire, fill a template, save and load | `TransactionPool`; a set in `Blockchain` |
| Miner (`Miner.cpp`), block template (`Core.cpp`) | template and its number, pausers, threads | set template, pause, start, stop, mine | `Miner` |
| Protocol handler (`src/CryptoNoteProtocol`) | per connection: state, needed and requested blocks; observed height | messages of the synchronisation and of relay | `ProtocolHandler` |
| Node proxy (`src/NodeRpcProxy`), dispatcher (`src/Platform/Linux`) | life cycle, contexts, requests in flight | init, shutdown, requests, pull | `NodeRpcProxy` |
| Wallet synchronizer (`src/Transfers/BlockchainSynchronizer.cpp`) | current and future state, position of each consumer | working thread, notifications, start, stop | `BlockchainSynchronizer` |
| Wallet transfers (`src/Transfers`) | outputs of an account, unlock jobs | blocks, detach, pool updates, own transactions | `TransfersContainer` |
| Preprocessing (`TransfersConsumer.cpp`, `BlockingQueue.h`) | queue, workers | push, take, fail, collect | `TransfersConsumer`, `BlockingQueue` |
| WalletGreen (`src/Wallet`) | history, deposits, unlock jobs, cached balances | handlers on the dispatcher; send, commit, roll back, withdraw, reopen | `WalletGreen` |
| P2P node, currency, legacy wallet, RPC, HTTP, console programs, serialization, cryptography | | | not modelled, see section 5 |

How the modelled parts interact. A block comes from a peer, the miner or an RPC client through `core` to
`Blockchain::addNewBlock`, which locks the pool and then the blockchain until it returns. `pushBlock` takes the
transactions of the block out of the pool; `popBlock` puts them back. A block that does not extend the tail goes to
`handle_alternative_block`; if its chain has more work (or it is a checkpoint) `switch_to_alternative_blockchain` pops
the main chain to the fork, pushes the alternative chain and demotes the old one, and each of these steps can fail into
`rollback_blockchain_switching`. Each push and pop changes the blocks file; the indices in memory are stored only now
and then, and the pool only at an orderly shutdown.

Around the chain: the deposit index, the upgrade detectors, the explorer indices and the pool are told of each block
that is pushed or popped. The miner works on templates filled from the pool. The protocol handler brings blocks and
transactions of peers, all its connections on one thread. A wallet asks a node through the proxy; the synchronizer's
thread brings each consumer to the node's chain, the consumer's threads look for the account's outputs, the container
keeps them, and WalletGreen follows the container on a third thread.

What is hard here, and what the properties are about: a failure in the middle of a switch, in any of its loops, must
leave the old chain, the indices and the pool as they were; a transaction must not be lost or duplicated between the
chain and the pool; the indices must stay exact through any sequence of pushes and pops, because double spends are
detected with them; checkpoints and the unlock window bound how deep a switch goes; a crash leaves a blocks file that is
newer than the cache and the pool file. Around the chain: a notification is handled later than it was sent, and the
state has moved on; a thread sleeps and the wake-up has come before; two connections bring the same blocks; stop or
shutdown comes between any two steps. The hazards are listed at their source lines in `PROJECT.json`.

## 2. The modules

### Blockchain

Blocks and transactions are constants: a tree of blocks (`Path[b]` from the genesis block to `b`), the cumulative
difficulty `Work`, the transactions `TxsOf[b]` and the key images `Images[t]`. A block names its ancestors by hash, so a
check that depends on the block and its ancestry alone has one answer per block. These answers are constants too:
`BadHeader` (refused everywhere), `WeakWork` (fails the proof of work, which `pushBlock` skips in the checkpoint zone),
`MergeMined`, `BadBody` (refused by `pushBlock` only), and the two ways in which `pushBlock` fails without undoing what
it did: `Oversize` and `Throws`.

| Variable | Code |
| --- | --- |
| `blocks` | `m_blocks`, `m_blockIndex` |
| `alternatives` | `m_alternative_chains` |
| `txMap`, `spentKeys` | `m_transactionMap`, `m_spent_keys` |
| `pool` | the transactions of `m_tx_pool` |
| `op`, `altChain`, `disconnected`, `discard`, `pos` | where a switch is, and the locals of `switch_to_alternative_blockchain` |

| Action | Code |
| --- | --- |
| `addToMainChain`, `addAlternative`, `startSwitch` | the three outcomes of `addNewBlock` that change something |
| `disconnect` | the loop of `popBlock` calls |
| `connect`, `connectFails` | the loop of `pushBlock` calls over the new chain |
| `demote`, `demoteFails`, `switched` | the loop of `handle_alternative_block` calls over the old chain, and the return |
| `rollback`, `restore`, `restoreFails`, `restored` | `rollback_blockchain_switching` |
| `add_new_tx`, `removeExpiredTransaction` | `core::add_new_tx`, `tx_memory_pool::removeExpiredTransactions` |
| `rollbackBlockchainTo` | the console command `rollback_chain` |

A switch is one step per block because a crash can come between any two of them; no other thread gets in between, since
both locks are held, and so every other action waits for `op = "idle"`.

Assumed, and not derived from the code: the difficulty computed for an alternative block is the one computed for the
same block on the main chain; checks against the wall clock and unlock times do not change their answer while the model
runs; the set of checkpoints is fixed (the code can add some from DNS).

### BlockchainStorage

Extends `Blockchain` with `cache` (the cache files, with the hash of the last block) and `poolFile`. `addAndSave` is
`addNewBlock` with the autosave every `AutosaveInterval` blocks, `restart` is `core::deinit` followed by `init`, `crash`
is the loss of everything in memory at any step, a step of a switch included, followed by `init`. `loadCache` takes the
cache if it was stored with the last block and rebuilds the indices otherwise. `switchThrows` is `saveTransactions`
throwing out of `popBlock`, which becomes possible when a stale pool file is loaded.

### DepositIndex and DepositLedger

`DepositIndex` models the vector of entries and the block counter, with one action for each of `pushBlock`, `popBlock`
and `popBlocks`. `DepositLedger` is the abstract specification: the sequence of totals, one per block.
`ImplementsLedger` states that a lookup by height in the compressed index gives the total of the ledger.

### BlockchainOutputs

The output indices, in composition with `DepositIndex` (an `INSTANCE` on the variables `depositIndex` and
`depositBlocks`). Here the blocks are not a fixed tree: a block is a list of transactions, and any list of `Candidates`
may be pushed on any chain. `ix` is the record of `m_transactionMap`, `m_spent_keys`, `m_outputs` and
`m_multisignatureOutputs`; in the last two an output's place is its global index, and inputs name outputs by it.

| Action | Code |
| --- | --- |
| `pushBlock` | `pushBlock`: `checkTransactionInputs` and `pushTransaction` for each transaction, then `pushToDepositIndex` |
| `pushBlockFails` | `pushBlock` returning false after any number of transactions, with `popTransactions` |
| `popBlock` | `popBlock`: `popTransactions`, and `m_depositIndex.popBlock` |
| `rollbackBlockchainTo` | the same with `removeLastBlock`, which does not touch the deposit index |
| `rebuildCache` | the indices computed from `m_blocks` alone |

Signatures, and that a sum of amounts is right, are answers `pushBlockFails` may give. Blocks in `Oversize` and
`Throws` are left to `Blockchain`: the entries they leave behind make the indices inexact.

### SwappedVector and DurableVector

`m_blocks` is a vector in two files: the items, and their count and sizes. The model has the bytes of the items file,
what is still in the buffer of each `std::fstream` (`itemsBuf`, `countBuf`; a seek writes the buffer), and the pool of
items in memory with its order of eviction. `crash` loses the buffers between two operations, `crashInPush` and
`crashInRebuild` in the middle of one. It is a crash of the process: what has been handed to the operating system is
not lost.

`DurableVector` is the abstract specification: a vector that a crash takes back by at most one operation. One thing the
code does not give: the count that `pop_back` writes stays in the buffer until the index file is used again. A process
that dies before that finds the popped item again, and the item may be unwritten or half overwritten. The history
variable `intact` counts the items before the first one damaged in this way, and the refinement is of those.

### UpgradeDetector, ExplorerIndices, TransactionPool

Three parts that `Blockchain` tells of each block. Each module has its own small chain, so that the part is driven by
any sequence of pushes and pops that the chain allows.

| Module | Variables and code | Actions and code |
| --- | --- | --- |
| `UpgradeDetector` | `versions` (major and minor version in `m_blocks`), `votingCompleteHeight` (`m_votingCompleteHeight` of each detector) | `pushVersion`, `popVersion` (`blockPushed`, `blockPopped`), `rollbackVersionsTo` (the console rollback, which tells no detector), `initDetectors` (`init`, with its bounded search and its error exits) |
| `ExplorerIndices` | `paymentIdIndex` and `timestampIndex` (bags, as the code has multimaps), `generated`, `lastGenerated`, `indicesFile` | `pushIndexed`, `refuseIndexed`, `popIndexed`, `storeBlockchainIndices`, `startIndexed` (load, or rebuild when the file is of another chain) |
| `TransactionPool` | `pool` (`m_transactions`), `spentKeyImages`, `spentDeposits` (`m_spentOutputs`), `ttlIndex`, `deleted` (`m_recentlyDeletedTransactions`) | `add_tx`, `pushBlockOf`, `refuseBlockOf`, `reorganise` (take and put back), `on_idle` (expiry), `restartPool`, `tick` |

`outvoted` and `left` are history variables. They name the detectors that the console rollback left behind and the
transactions that oversized blocks left in the indices, and the properties exempt these.

### Miner

One step is what a thread does between two shared accesses. `threadsLock` is `m_threads_lock`, `then[a]` the place to
which `request_block_template` returns. A worker copies the template and reads its number in two steps, as
`worker_thread` does. A block of a peer, the timer (`on_idleTemplate`) and a found block go through the same
`request_block_template`; `startMining` and `stopMining` are called by two threads. A start that overlaps a stop sets
the history variable `overlapped`: the code has no protection there, and the properties exempt it.

### ProtocolHandler

One action per handler, with the peers running the handlers of the same class. `conn[p]` is the
`CryptoNoteConnectionContext`; `inbox` and `outbox` are the messages under way, in order. All connections are contexts of
one dispatcher thread, so a handler is one step, except for `processObjects`, which yields after each block: `parsed`
holds the blocks it has still to add. Peers get blocks from elsewhere, switch branches, send whole or lite blocks, and a
connection breaks at any time.

### NodeRpcProxy

The life cycle of the proxy (`init`, `shutdown`), its worker thread, and the dispatcher under it. A step of the worker
is what a context does from one wait to the next. `ready` is the dispatcher's queue of contexts to resume, `remote` the
procedures that other threads leave (`remoteSpawn`), `httpEvent` and `waiters` the lock around the HTTP client.
`called` counts the callbacks of each request. `walletShutdown` is `WalletLegacy::shutdown`, which waits for its own
requests before the proxy goes.

### BlockingQueue and TransfersConsumer

The queue has a set of waiting threads for each condition variable; `notify_one` wakes any one of them, and `wakeup`
is a spurious wakeup. `TransfersConsumer` has the pushing thread, the workers and the caller of `onNewBlocks`. A worker
may fail, which sets `stopProcessing`. `batch_error` shows what becomes of the pushing thread.

### BlockchainSynchronizer

The working thread with `m_currentState` and `m_futureState`, one step per call of the node or of a consumer; the
node, which changes its chain and its pool meanwhile and notifies later (`notices`); the client, which starts, stops
and hands over transactions. `blocks[c]` is the `SynchronizationState` of a consumer. A request can fail and a consumer
can throw, at any step. The node moves only to a chain with more `Work`, as `Blockchain` does when no checkpoint and no
console interferes. An answer starts at the last block that the node has in common with the history it was sent, which
is the history of the shortest consumer.

### TransfersContainer and WalletGreen

`TransfersContainer` has the outputs of one account: `container` is the record of the transactions with their heights,
the unconfirmed, available and spent transfers, and the unlock jobs. Its actions are those of the consumer and the
subscription: `onNewBlocks`, `onBlockchainDetach`, `onPoolUpdated`, `addUnconfirmed`, `removeUnconfirmed` and
`initTransactionPool`. `reported` is what the observers were last told.

`WalletGreen` extends it with a second thread. `synchronize` changes the container and leaves a procedure in
`remoteSpawningProcedures`; `dispatch` runs the first one later, on the container as it is by then. `userStep` is the
user: send, make, commit and roll back a transaction, withdraw a deposit, and save, shut down and load. An operation is
as many steps as it has waits. `m_readyEvent` keeps procedures out of the operations that take it. A cached balance is
the set of outputs it counts.

## 3. What TLC checks

| Run | Shows |
| --- | --- |
| `switch_fork` | six branches compete, and two transactions spend the same key image: no block is both main and alternative, the rollback of a switch can restore (no block of this run fails half way through `pushBlock`), there is no switch inside a switch, a switch ends on the whole new or the whole old chain, loses no work and no confirmed transaction, and ends; beside it the vector, which implements `DurableVector` with a rebuild or a crash at any step |
| `switch_deep` | with `rollback_chain` at any idle moment, a checkpoint, the unlock window, and blocks that fail half way through `pushBlock`: no double spend, no transaction in both the chain and the pool, no checkpointed block disconnected, no completed switch deeper than the unlock window |
| `storage` | after a crash at any step, the loaded or rebuilt indices are exact, and a node whose peers go on sending the heaviest chain ends on it |
| `chain_observers` | the parts that follow the chain: the deposit index implements the ledger; the detectors know the first height at which a vote succeeded, and `init` accepts the chain; the explorer indices and the indices of the pool are exact, and templates are valid; the wallet's container is what a scan of the chain gives, and unlocked deposits are reported; the history and the balances of WalletGreen settle to the container |
| `threads` | the miner comes to work on the tip, and `stop` returns; the chain of the synchronizer's shortest consumer begins that of every other one, a thread that waits has nothing left to do, every transaction handed over is taken, and the thread comes to rest |
| `network` | a connection that synchronises has exactly one request under way, the assertions of `start_sync` hold, and the node ends on a chain with as much work as any peer's; a connection on which `request_missing_objects` failed has none, and its peer does not count (see `final_condition`) |
| `clients` | each request of `NodeRpcProxy` is called back once, `shutdown` returns, the view of the node catches up; `onNewBlocks` hands over a batch in order; the output indices are those that `rebuildCache` computes, a deposit is withdrawn once and after its term |

Side by side. `chain_observers`, `threads`, `clients` and `switch_fork` hold several components that share no state. A
variable chosen in `Init` says which one moves in a behaviour, so that the state spaces add and do not multiply, and
every component is checked by itself. Liveness is claimed of the component that moves.

Bounds of the chain. `MCBlockchain` holds four trees of blocks, drawn in its comments, chosen so that every action
happens: switches that succeed, that are refused, that fail at the first and at a later block, because of a double
spend, a wrong reward or a missing transaction, and that fail when the old chain is demoted. They have up to 18 blocks,
forks at several depths and branches of at most five blocks, so that each loop is entered, repeated and left early.
Two difficulties make a short chain heavier than a longer one. `UnlockWindow` (10 in the code) is 3 where its boundary
matters, `AutosaveInterval` (720 in the code) is 2.

Bounds of the indices. Deposit index: four blocks, deposits in -2..2, interests in 0..1 and a small integer width, so
that the overflow assertions, blocks without deposit and withdrawals all happen. Output indices: five transactions,
chains of up to six blocks, enough to deposit, wait for a term of two blocks, withdraw, and do it again in another order
on another branch. Detectors: a fixed and a voted target, a voting window of three with a threshold of 60 percent, ten
blocks, enough for a vote, an upgrade and its removal. Explorer: four blocks with equal timestamps and payment ids
among them. Pool: four transactions, of which some conflict, one needs another and one has a TTL, and two blocks.
Vector: items of one and two bytes, four bytes in all and a pool of two, so that items are evicted, read again, and
overwritten. The rebuild of the run turns an item into a shorter one. One that makes an item longer would overwrite the
next; the hazards list it. A replacement is one byte in this run, so that a crash cannot cut it in two; with two items
of two bytes in `MCItems` it can, at the price of a much longer run.

Bounds of the threads and connections. Miner: one worker, one new block, two starts or stops. Synchronizer: two
consumers, so that one can fail and leave the other ahead; three chains of the node, of which the heaviest is shorter
than another one; answers of two blocks, two changes of the node, one error, one start, one task. Protocol handler: two
peers, of which one sends whole blocks, requests of two objects, chain entries of four ids, and one new block, relay and
break. The peers start on the same chain, one ahead of the other, or on different branches; the longest chain has five
blocks, more than one chain entry, and a branch of three blocks has the most work. Proxy: three requests, one of which
is made from a callback, one start, one failure; with a second start the run, done once, has 122559 states and holds.
Consumer: two workers and a queue of four, as the code has it for two cores. Wallet: four outputs, one a deposit of term
three, four transactions, four blocks, reorganisations of one block, two procedures waiting, two events (detaches, pool
updates, operations of the user). With three events the run takes longer than is practical to repeat; it was done once,
717086 states, and holds.

Deadlock is checked in the runs of the chain, of the vector and of the network: something can always come. In
`chain_observers`, `threads` and `clients` it is not, because counters bound the environment and a component that has
come to rest stops.

### Fairness

| Specification | Fair | Why |
| --- | --- | --- |
| `FairSpec` | the steps of a switch, weakly | the thread that holds both locks goes on |
| `StorageSyncSpec`, `OperatorSyncSpec` | besides, the blocks of the heaviest chain and their transactions, strongly | a peer that has them sends them again as long as this node asks; strong, because a block can be refused while one of its transactions has just expired. Nothing is assumed of other blocks |
| `MinerFairness` | every thread that can run, the timer; strongly, that making a template succeeds | the operating system schedules threads; a template does not fail for ever |
| `SyncFairness` | the working thread, delivery of notifications, the node reaching the height of the network | the same; changes and errors are not fair and are bounded |
| `ProtocolFairness` | handlers, peers' answers, the timer, closing of a connection that is shut down, a new handshake | the dispatcher resumes every context that can run; `timedSync` is a loop; `NodeServer` reconnects |
| `ProxyFairness` | the worker, a thread in `shutdown`, the node; strongly, remote procedures | an HTTP request ends by an answer or an error; epoll reports the remote event in turn with the others |
| `ConsumerFairness` | the pushing thread, the workers, the caller | scheduling; nobody has to fail |

Nothing that a user, an operator, a crash or a failure does is fair.

### Where the code and what it says differ

Each of these is a run that TLC ends with a counterexample.

| Run | Difference |
| --- | --- |
| `rollback_sync` | `rollbackBlockchainTo` says "Synchronization will resume". It leaves `m_alternative_chains` alone: a known branch that forks off at the new tail cannot be adopted until the node restarts. |
| `oversize_leak` | `core::add_new_tx` says that its locks keep a transaction of the blockchain out of the pool. A block refused for its size leaves its transactions in `m_transactionMap`, and they go back to the pool. |
| `rollback_deposits` | `DepositIndex::pushBlock` asserts `amount + lastAmount >= 0`. `removeLastBlock` does not pop the deposit index as `popBlock` does: after `rollback_chain` over a withdrawal, the same withdrawal is subtracted again. |
| `final_condition` | `request_missing_objects` reports "request_missing_blocks final condition failed!" as an error. A peer that goes over to a shorter chain of more work between its chain entry and its blocks gets there. The two callers ignore the `false`, and the connection stays in `state_synchronizing` with no request under way until it is closed. |
| `batch_error` | The unit test of a failing node expects `onNewBlocks` to return. When a worker fails while the pushing thread waits for space in the queue, nobody takes from the queue or closes it, and `onNewBlocks` never returns. |

### What the models showed besides

Behaviours of the code that a property exempts or that a bound keeps out. Each is named here so that nobody takes the
property for more than it says.

- `TransfersContainer`: a deposit whose unlock height passes while an unconfirmed transaction spends it has no unlock
  job. When that transaction is removed, a job for a height in the past comes back, and nobody is told that the deposit
  is unlocked. `UnlockReported` exempts it (`unheard`).
- `WalletGreen::save` writes the file while procedures wait, and `shutdown` runs them with no effect: the wallet that is
  opened again lacks them. `withdrawDeposit` and `createDeposit` do not take `m_readyEvent`, so a relay that fails can
  mark a transaction as failed whose confirmation was handled meanwhile. Inputs that a detach takes away between
  preparing and adding a transaction are not marked as spent. A behaviour ends there (`missed`).
- A reorganisation below an unlock job that has run leaves an output counted as unlocked until another event
  (`relocked`).
- `TransfersContainer::getTransfer` does not set `state` when it does not find the output, and `withdrawDeposit` reads
  it: the model takes either value. After a reorganisation a deposit that is confirmed again keeps its old height
  in `m_deposits`. A reorganisation deeper than the term of a deposit is kept out (`MaxReorg`).
- `BlockchainSynchronizer`: with three consumers, when the one in the middle fails during a reorganisation, the first is
  on the new branch and the last on the old one until the next round. The one in the middle was detached to where they
  agree, so the next answer still suits all of them. `ConsumersAgree` is about the shortest consumer for this reason.
- `Miner`: a start that overlaps a stop can leave threads that nobody joins (`overlapped`).
- `UpgradeDetector`: `rollback_chain` below the height of a completed vote leaves the detector with that height until
  the node restarts (`outvoted`).
- `TransfersContainer`: an operation that throws half way (a transaction added twice, a key input that spends what is
  not available) leaves the container as it is at that point. `ContainerIsScan` and `UnlockReported` exempt what follows
  (`damaged`), and nothing more happens to the container then.
- `Blockchain`: a block that `pushBlock` leaves half way, because it is too big or throws, keeps its entries in the
  indices. `switch_deep` has such blocks and states in which the rollback of a switch then fails; `RollbackCanRestore`
  and `SwitchAllOrNothing` are of `switch_fork`, which has none.
- `NodeRpcProxy`: `remoteSpawn` appends a procedure and then writes the event that wakes the worker. The model has one
  step for both. A worker woken in between by an earlier event could stop and close the event before it is written.
- `BlockchainStorage`: a pool file older than the blocks brings back confirmed transactions, and `saveTransactions`
  can then throw out of a switch. `SyncResumesAfterCrash` exempts it.
- `pushBlock` looks for the merge mining tag only if it already has the block, so never (`MergeMined`).

## 4. What TLAPS proves

All theorems hold for every tree of blocks and every value of the other constants that satisfy the named assumptions of
the modules they are about: any number of blocks, transactions, consumers and voting heights, and any bound on what the
environment does. The theorems on the chain are about `OperatorSpec`, which allows what `Spec` allows and the console
rollback besides; the two about crashes are of `StorageSpec`, which allows crashes and restarts.

`UpgradeAssumption` asks more of a currency than the detector checks: the heights of the versions ascend, so that only
the highest can be left to a vote, and `UpgradeWindow` is positive, as `CurrencyBuilder::upgradeWindow` demands.

| Theorem | States |
| --- | --- |
| `BlockchainProofs!TypeCorrect` | the types |
| `BlockchainProofs!NeverDoubleSpent` | no key image is spent twice on the main chain, blocks that leave entries behind included |
| `BlockchainProofs!PoolAlwaysDisjoint` | chain and pool share no transaction, at every step of a switch |
| `BlockchainProofs!IndicesAlwaysExact` | with no block in `Oversize` or `Throws`, the indices are exact |
| `BlockchainProofs!RollbackNeverPanics` | with no such block, the rollback of a switch never fails |
| `BlockchainProofs!SwitchIsAllOrNothing` | with no such block, a switch ends on the whole new or the whole old chain |
| `BlockchainProofs!SwitchNeverLosesWork` | with no such block, a switch without a checkpoint loses no work |
| `BlockchainProofs!SwitchLosesNoTransaction` | with no such block, what was confirmed stays confirmed |
| `BlockchainAlternativeProofs!CheckpointsNeverUndone` | no switch disconnects a block that a checkpoint names |
| `BlockchainAlternativeProofs!ReorganizationIsShallow` | outside the checkpoint zone, a switch that completes replaces only blocks within the unlock window |
| `BlockchainAlternativeProofs!SwitchesDoNotNest` | while the old chain is demoted, no second switch starts |
| `BlockchainAlternativeProofs!AlternativesApart` | with no block in `MergeMined` or `WeakWork`, no block is both main and alternative when `addNewBlock` returns |
| `BlockchainProofs!IndicesExactAfterCrash` | with no block in `Oversize` or `Throws`, the indices are exact after crashes and restarts |
| `BlockchainProofs!NeverDoubleSpentAfterCrash` | no key image is spent twice, crashes and stale pool files included |
| `TransactionPoolProofs!PoolIndicesAlwaysExact` | key images, spent deposits and expiry index of the pool are those of its transactions |
| `TransactionPoolProofs!TemplateAlwaysValid` | whatever order fees leave open, the transactions of a template do not conflict, spend no key image of the chain, find their key inputs on it, and fit the block |
| `ChainObserverProofs!VotingCompleteAlwaysExact` | a detector knows the first height at which its vote succeeded |
| `ChainObserverProofs!AlwaysCanRestart` | `init` accepts the chain this node has built |
| `BlockchainSynchronizerProofs!ConsumersAlwaysAgree` | the chain of the shortest consumer begins every other one |
| `BlockchainSynchronizerProofs!WaitingIsSynced` | a thread that waits has missed nothing |
| `NodeRpcProxyProofs!AlwaysAnsweredOnce` | no request is called back twice, and when the proxy is shut down every request has been |
| `ProtocolHandlerProofs!SyncAlwaysDriven` | a connection that synchronises has exactly one request, answer or processing under way, and none once `request_missing_objects` has failed on it |
| `ProtocolHandlerProofs!HandlersAlwaysRight` | the assertions of `start_sync` hold, nothing being left over from an earlier round, and `request_missing_objects` never fails for blocks needed or requested |
| `SwappedVectorProofs!VectorImplementsDurable` | the vector in two files implements `DurableVector`, with its buffers, its pool and crashes in the middle of an operation |
| `ChainObserverProofs!IndexAlwaysSorted` | the entries are sorted and below the block count |
| `ChainObserverProofs!TipLookupAlways` | the lookup past the tip gives the running totals |
| `ChainObserverProofs!IndexImplementsLedger` | the compressed index implements the ledger |

The chain. `NoDoubleSpend` is not inductive: `pushBlock` compares with `m_spent_keys`, not with the chain. `ChainInv`
adds that the chain is the path to its tail, and that the indices hold at least what the chain holds (at least, so that
the blocks that leave entries are covered) and exactly that when no block leaves entries. `PushKeeps`, `CutKeeps` and
`FailKeeps` prove once what a push, a removal of blocks and a failed push do to it, and the actions cite them.
`SwitchInv` adds the types of the locals and their bounds: the fork is not above the tail, and the loops do not read
past the end of their sequences. `PoolApart`, that the pool holds nothing of the chain, is kept by every step but is no
part of `ChainInv`: a crash breaks it, and the rest does not depend on it.

Crashes. `StorageInv` adds to `Inv` what a stored cache says of the path to its block (`CacheOf`). The path to a block
never changes, so a cache stays good however far the chain moves, and `loadCache` takes it only when the last block is
its own. A crash in the middle of a switch leaves the chain on a path, which is all that the rebuild needs.

The switch. The blocks a rollback pushes must be accepted a second time. `ResumeInv` says why: each of them was accepted
once (`Vetted`), its path is on one side of the fork, and each transaction of the old chain is in the pool or on the
chain, because `popBlock` puts it there and the other chain either confirms it or gives it back. There are blocks `old`
and `new`, the tails of the two chains, such that the chain is always on the path to one of them and `disconnected` is
what is missing of the other (`Between`). That each transaction is kept needs that no block is in `Oversize` or
`Throws`, and so do the four theorems: `switch_deep` has states in which the rollback fails.

The alternatives. `OldChain` is the set of blocks of the chain a switch started from, which no step of the switch
changes. `PlaceInv` says that every alternative block has passed `check_block` and that no checkpoint is both an
alternative and in `OldChain`: an alternative chain that goes past the height of a checkpoint goes through it, and so
leaves the main chain above it. It also says that the first block demoted was allowed below the new tail, which bounds
the depth. A demoted block starts no switch because the chain it is on has less work than the new one. `AltInv` says that
the alternatives and `OldChain` share only the blocks demoted so far. These theorems need no premise on `Oversize` and
`Throws`.

The pool. `PoolInv` says that each index is computed from the transactions, that no two of those that passed the input
checks spend one deposit, that no transaction is in two blocks, and that none is in a block and in the pool. The last
two make a reorganisation put back only what the pool does not have.

The upgrade detectors. `UpgradeInv` says that the version of each block is the one that the detectors would give it
now (`VersionsAgree`). A vote decides only on later blocks, so a push keeps this, and a pop forgets exactly the votes
that the popped block completed. The first block of a voted version is then at a known distance above the vote, within
the seven windows in which `init` searches.

The synchronizer. `updateConsumers` stops at the first consumer that fails. `BranchInv` says that two consumers are on
one branch or that one between them, in their order, begins both. `AnswerInv` says that the answer in hand is part of a
chain that the node has had, from a block that all consumers have. For the wake-ups it says, with `DueInv`, that the
consumers have what the node has, or that a round is due: a state is asked for, a notification is on its way, or an
error ended the last round. `HeldInv`, that no consumer is on a chain with more work than the node's, makes a finished
round of blocks end on the node's chain.

The template. A transaction in the pool remembers the block up to which its inputs were looked up (`maxUsedBlock`), and
`ready` looks again only when that block has left the chain. `TemplateInv` adds to `PoolInv` that the remembered chain
holds everything the transaction refers to. It is kept by every step because the entry is compared with the chain, not
with its height. That the template fits needs `SizeAssumption`, which the currency's constants satisfy: the median that
limits the transactions without a fee is no larger than the largest block.

The vector. `VecInv` says which bytes are safe. The index file gives the count of now, or, with a count in its buffer, of
before the last operation. Every undamaged item is in the items file once its buffer is flushed, and so is every item that
a crash would bring back (`undo`). The item in the buffer lies behind both, so it makes no difference to them whether the
crash loses it. `SumGrows` and `WriteFacts`, what the offsets of `open` are and which bytes a write changes, are proved
by taking a least counterexample, as are the other facts on sequences that would need induction. `ReplaceAssumption` is
the condition under which `replace` is right, that a rebuilt item is no longer than the one it overwrites.

The proxy. `ProxyInv` says that a context is in at most one queue, and that its state says in which. The rest is about the
order of shutdown. `m_mutex` keeps out every request that comes after `shutdown`, so none is behind the procedure of
`shutdown` in the remote queue (`StopOrder`). When that procedure sets `m_stop`, all requests have been spawned in the
group for which the worker waits, and the main context is resumed only once the group is empty (`MainQueued`).

The protocol. `ProtocolInv` looks at each connection by itself: its context, its two queues and the blocks it has still
to add. In the states in which the handlers ask for nothing, nothing is under way; in `state_synchronizing` exactly one
thing is, since only an answer leads out of it, unless `request_missing_objects` has failed. That it can fail is what
`final_condition` shows; the two theorems make no assumption on work and heights, and say what is left when it does: a
connection with nothing under way, nothing needed and nothing requested. `OnRequest` says that blocks are in
`m_requested_objects` only while a request for them or its answer is under way, so that a connection that comes to rest
has none left over.

Only model-checked:

- liveness, which is out of the prover's reach, and with it every property that needs fairness;
- what folds and recursive operators compute, which needs induction over data: `ContainerIsScan` and `UnlockReported`
  (the scan of a chain), `RebuildAgrees` and `WithdrawnOnceAfterTerm` (the loops over the outputs and inputs of a
  transaction), `ExplorerIndicesExact` (the bags that a rebuild computes), and `HistorySettles` and `BalancesSettle`,
  which are about the same scans. The recursive functions `TreePath` and `TreeWork` are in `MCBlockchain` only, and the
  theorems assume of `Path` and `Work` what `PathAssumption` and `WorkAssumption` state.

## 5. Not modelled

The modules model the parts that keep state and change it in several steps or on several threads. That is a small share
of the repository's lines. Most of the rest is of four kinds, in which a state machine has nothing to say: cryptography
and hashing; parsing, serialization and the building of transactions; request handlers and user interfaces that
translate to calls of the parts above; and external code kept in the tree.

| Part | Why |
| --- | --- |
| Cryptography, mnemonics | number theory and hashing; signatures and key images are taken as sound |
| Transaction format and validation | pure functions on bytes; their answers are constant sets in `Blockchain` |
| Currency: rewards, interest, difficulty | 64-bit products that do not fit the integers of TLC; scaled-down constants would be another formula |
| Serialization, logging, HTTP | input and output |
| P2P node and peer lists | choice of peers by addresses, clocks and chance; what a connection does after its handshake is in `ProtocolHandler` |
| RPC servers, PaymentGate, console programs, explorer | no state between two requests; `rollback_chain` is an action of `Blockchain` |
| WalletLegacy | the older client of the same synchronizer and containers; of it only the wait for its requests is in `NodeRpcProxy` |
| InProcessNode | the life cycle of `NodeRpcProxy` without a network |
| ObserverManager, BlockIndex | a list under a mutex; the sequence of blocks by itself |
| SwappedMap, InvestmentIndex, MessageQueue | nothing in the daemon uses the first two, and nothing adds a queue to the third |

Parts of modelled components that are left out: checkpoints that come by DNS; the orphan index, and the indices of the
pool that only answer queries; in the cache files, the output and deposit indices and the backup file; consumers added
to and removed from the synchronizer, and histories long enough for `getShortHistory` to skip blocks; messages that do
not parse and invalid blocks in `ProtocolHandler`; outputs with equal keys in the container; in WalletGreen, more than
one address, operations of the user at the same time, the choice of inputs, fusion, partial saves and the file format;
interruption and timers of the dispatcher, and the dispatchers of other systems.
