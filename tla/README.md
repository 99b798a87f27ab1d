# Badem: a verification project

TLA+ models of the node in `src/badem`, model-checked with TLC on small
instances and, where it matters most, proved with TLAPS for every instance.

## 1. The system

Badem is a block-lattice currency: every account has a chain of its own, a
transfer is a send block in one chain and a receive block in another, and
representatives vote, with the weight of the accounts that chose them, when two
blocks claim the same place in a chain.  There is no block that orders
everything; the ledger is a set of chains that refer to each other.

| part | state | operations | what makes it hard |
|---|---|---|---|
| ledger (`ledger.cpp`) | the tables of the store | `process`, `rollback` | five block types, eight tables kept in step by hand; a rollback recurses through the accounts that received the money |
| block store (`blockstore.cpp`) | LMDB tables; `vote_cache`, `unchecked_cache` | getters, putters, `flush`, upgrades | caches are swapped out before their contents are committed; readers keep old snapshots |
| block processor (`node.cpp`) | queues `blocks` and `forced` | `add`, `force`, `process_blocks`, `queue_unchecked` | one write transaction for a batch; blocks that wait for a predecessor or source |
| gap cache, block arrival | bounded sets of recent hashes | `add`, `vote`, `purge_old`, `recent` | limits, age |
| elections (`node.cpp`) | `roots`, votes, status, `confirmed` | `start`, `vote`, `confirm_if_quorum`, `announce_votes` | several threads vote in one election; the winner is forced while the ledger holds the loser |
| online representatives, peers | reps with time-outs, peers with attempts | `vote`, `recalculate_stake`, `insert`, `contacted`, `purge_list` | running sums, bounds per address |
| bootstrap client and server | attempts, pulls, sockets with tickets | `run`, `populate_connections`, `request_pull`, `requeue_pull`, bulk and frontier requests | time-outs race with answers, retries, stopping |
| wallet (`wallet.cpp`) | keys, ids of sends, action queue | `send_action`, `receive_action`, `change_action`, `do_wallet_actions` | repeated calls with one id, work precomputed for a root that moves |
| work pool (`work.cpp`), distributed work | `pending`, `ticket`, `done` | `generate`, `cancel`, `stop`, `loop` | threads race for one solution; cancellation |
| alarm | queue of operations by time | `add`, `run` | stop against pending operations |
| network, message parser | peers, messages | message handlers, `republish`, `confirm_req` | lost and repeated messages |
| rpc, statistics, configuration, user interface, executables | | | formatting around operations of the other parts |

How they interact: a block arrives by message, bootstrap, wallet or rpc and is
queued in the block processor, which processes it in the ledger under a write
transaction.  A block that lacks its predecessor or source waits in the
unchecked table; a new block that arrived recently gets an election; a rival
starts one between the two.  Votes go through the vote processor to the store's
vote cache and to the election; when the leader of an election is not the
ledger's block, it is forced through the block processor, which rolls the
ledger's block back.  A confirmed send to an account of the wallet queues a
wallet action, which builds the receive, asks for work and feeds the processor
again.  Bootstrap compares ledgers with peers, feeds the processor with what it
pulls and sends peers what they lack.

## 2. Modules

| module | models | extends |
|---|---|---|
| `LedgerBlocks` | the blocks there are, as constants, and what their contents determine | |
| `BlockSets` | validity of a block with respect to a set, soundness of a set, what a block stands on | `LedgerBlocks` |
| `BlockLattice` | the abstract ledger: a set that grows by valid blocks and shrinks by uncovered ones | `BlockSets` |
| `Ledger` | `ledger::process` and `ledger::rollback` over the tables | `LedgerBlocks` |
| `LedgerProperties` | the properties of `Ledger` | `Ledger`, `BlockSets` |
| `LedgerRefinement` | that `Ledger` implements `BlockLattice` | `LedgerProperties`; instance of `BlockLattice` |
| `LedgerChanges` | the two normal forms of a change of the tables that the proofs use | `LedgerProperties` |
| `MCBlocks` | how blocks are written down for TLC | |
| `MCLedger` | blocks for TLC | `LedgerRefinement`, `MCBlocks` |
| `LedgerReadProofs` | proofs: sound sets of blocks, what the ledger reads | `LedgerChanges` |
| `LedgerStepsProofs` | proofs: what each handler of `process` and `rollback` does to the tables | `LedgerReadProofs` |
| `LedgerTotalsProofs` | proofs: sums, weights, checksum, counts | `LedgerReadProofs` |
| `LedgerProofs` | the theorems about the ledger and the lattice | `LedgerRefinement` and the last two |
| `StoreCaches`, `MCStoreCaches` | `vote_cache` and `unchecked_cache` with their tables, transactions, `flush`, restarts | |
| `BlockProcessor`, `MCBlockProcessor` | the block processor, gap cache, block arrival, unchecked blocks, composed with the ledger | `BlockSets`; instance of `Ledger` |
| `Election`, `MCElection` | one election, the threads that vote in it, online representatives | |
| `ElectionProofs` | proofs about it | `Election` |
| `WorkPool` | the work pool: list, ticket, threads, `cancel`, `stop` | |
| `ThreadsProofs` | proofs about the work pool and the store's caches | `WorkPool`, `StoreCaches` |
| `Alarm` | the alarm's queue and thread | |
| `DistributedWork`, `MCDistributedWork` | work from peers, pool and retries, composed of the two | `WorkPool`; instance of `Alarm` |
| `Bootstrap` | initiator, attempts, connections, pulls and retries, callers, stop | |
| `BootstrapProofs` | proofs about it | `Bootstrap` |
| `Sync`, `MCSync` | what frontier requests, pulls and pushes move between ledgers; the servers | |
| `Wallet`, `MCWallet` | wallet actions, ids, cached work, search, lock, restart, composed with chains and elections | |
| `WalletProofs` | proofs about it | `Wallet` |

Definitions that a module's header names as "with a mistake" are variants of the
code with one plausible bug.  Nothing uses them in the specification; each was
put in the place of the right definition to see that a property then fails.

### Ledger

Blocks are immutable and named by their hash, so they are constants: hash `h`
is the block `Content[h]`.  What a block's contents determine by induction along
its references (the account that owns it, the balance after it, the amount it
moves, the block that chose its representative) are constants too, tied to
`Content` by named assumptions that TLC evaluates on each instance.  Signatures
are the name of the signer; work is left out, the ledger does not look at it.

The variables are the tables: `blocks` (the five block tables), `successor` (the
32 bytes stored behind every block), `accounts`, `frontiers`, `pending`,
`representation`, `blocks_info`, `checksum`; and `rollbacks`, the stack of
`ledger::rollback` calls.  `ledger::process` is one action per block type,
because one write transaction covers it: `StateResult`, `SendResult` and so on
are the ladders of checks, `ProcessState`, `ProcessSend` and so on what an
accepted block writes.  A rejected block changes nothing.  `ledger::rollback` is
a loop that visits heads and may call itself for another account, so each visit
is an action (`RollbackSend`, `RollbackReceive`, `RollbackOpen`,
`RollbackChange`, `RollbackState`), the nested call is `RollbackCascade` and the
return is `RollbackReturn`.  Two remarks on faithfulness: the genesis block is
never rolled back (`RollbackStart` excludes it; nothing in the node asks for
it), and `RollbackState` moves the weights in the step that ends the visit
although the code moves them before it waits for the pending entry: nested calls
add to the weights and read none.

Amounts wrap at the genesis amount plus one (`Wrap`), which in the code is
2^128, so an instance with a genesis amount of 3 is a ledger of two-bit amounts.
`BlockInfoMax` (32 in the code) is 2, so that index entries occur in chains of
two blocks and more.

### StoreCaches

The variables are the two tables, the two caches, who holds the write
transaction, and per thread the snapshot its transaction sees.  `vote_max` and
`vote_generate` read the cache first and the table, as the caller's transaction
sees it, second.  `flush` is two steps, because other threads run between
them: inside the write transaction it takes the contents of the caches under the
mutex (`FlushSwap`), and its puts show when it commits (`FlushCommit`).
`unchecked_put` is one step: all its callers hold the one write transaction.  A
restart loses caches and transactions.  History variables record the highest
number, the numbers issued and the blocks that wait; the numbers outlive a
restart.  `lost` are the numbers that the store forgot: those not committed when
the node went down, and those that a call did not see because it found the cache
empty and its transaction is older than the flush.  Blocks not committed when
the node goes down no longer count as waiting; peers send them again.  Sequence
numbers stop at `MaxSequence`; the 64-bit overflow is not modelled.

### BlockProcessor

The thread of `process_blocks` goes through the states "check", "asleep",
"batch", "one", "after" and "stopped".  A batch is one write transaction; each
block of it is `Take` or `TakeForced` and then `One` (`process_receive_one` with
everything it does: the ledger's verdict, unchecked blocks put aside or queued
again, gap cache, elections of forks).  The rollback for a forced block is the
ledger's own actions, step by step (`RollbackStep`).  Pushes take the processor's
mutex only, so they happen between any two steps; rpc's own transaction excludes
batches.  Whoever waits on the condition variable is asleep until `Notify`.  The
tables are those of `Ledger`, by `INSTANCE`, so the composition uses the checked
and proved definitions.  Unchecked blocks are one set: `StoreCaches` shows that
this is what the holder of the write transaction sees.

### Election

An election has no mutex.  `active_transactions::vote` finds it under the lock on
`roots` and uses it after the lock is released, in the network thread (messages,
one after the other) or in a background thread (`broadcast_winner`, which applies
the local representative's vote and then sends peers a second one).  Each access
to the election is a step of the thread: `Find`, `Check`, `Record`, `Count`,
`Tally`, `Switch`, `Quorum`, `ConfirmOnce`, `Confirm`, `Observe`.  `Tally` keeps
the quirk of `ledger::tally`: its result maps totals to blocks, so that of two
blocks with equal totals one is left.  Times are left open: any newer vote may
come too soon after the last one, any representative may have become old.
Weights are constant.  Accesses to the hash tables are atomic; what concurrent
insertions do to `std::unordered_map` is undefined and not modelled.

### WorkPool, Alarm, DistributedWork

In `WorkPool` what a thread does from lock to unlock is a step: `Take` the
front of the list with the ticket, `Finish` or `Discard` depending on the ticket,
and `Answer`, the callback, which runs without the lock.  The list is kept as the
place of each request.  A callback of `distributed_work` throws on a
cancellation, in the middle of `cancel`; `Cancelled` are the requests before the
first of them.  `Alarm` keeps the time left to each operation.
`DistributedWork` has the peers: `start_work` asks those that could be looked
up, an answer is valid work or not, and it may come after `stop`, as the sockets
are not closed.  A peer may also take the connection and never say anything
(`PeerSilent`): no timer ends the connect, the write or the read.  The last
failure hands the job to the pool or, without threads and device, to the alarm.

### Bootstrap

`at` is where the initiator's thread is in `run_bootstrap`, `run`,
`request_frontier`, `request_pull` and `request_push`.  The thread's wait on the
attempt's condition is two steps, "falling" and "asleep", because
`populate_connections` notifies without the mutex and such a notification is
lost in between.  Objects live as long as somebody refers to them (`Alive`):
weak pointers to the frontier connection expire.  A pull is in the queue, on
its way to a background thread (`handed`), with a client, or in the
destructor of one (`leaving`), and every socket may end at any point.  The pull
of a resolved fork expects its end block from the start, so the code takes it
for complete however it ends, an error included, unless the peer sends that
block; then it is queued again.  Callers with an endpoint stop the attempt, wait
and start their own.

### Sync

A ledger is a set of blocks and takes a block when what it depends on is there
(`Settle`, which stands for `BlockProcessor` and `Ledger`, and runs with the step
that receives a block: nobody reads the ledger while blocks are pulled, and `run`
flushes the processor before it pushes).  `SendFrontier` and
`ReceiveFrontier` are the merge of two sorted walks, each over a table that
changes meanwhile; every pull goes to any peer, and ends anywhere; the push walks
the targets from head to end.  When the connection of the frontier request is
lost (`gone`) the last try of a pull is dropped and nothing is pushed.  The cost
of pushing and the limit on it are kept.  A frontier request that fails ends in
one way, whichever error or exception it was.

### Wallet

One thread takes actions by priority (`Begin`), builds a block on the head, hands
it to the processor (`ProcessActive`) and waits (`Flush`).  `SendAction` stores
the id before the block is processed, `Known` compares a repeated one with the
ledger.  `made` is history: which id the last call that built a block had.  Blocks
are named by their contents, so after a crash a call without an id can build a
block that was lost once more, and it is that call's block from then on.  Calls
may bring their own work, as rpc allows.  Elections are reduced
to the blocks in them, with a confirmation that may come at any time and is
processed in the background.  `NodeStop` and `WalletsStop` are the two halves of
a stop; `Restart` also stands for a crash at any moment, keeps the tables and
loses the rest.

## 3. Runs

| run | question | bounds |
|---|---|---|
| `ledger_mixed` | do the tables match the blocks, each on its own and as the inductive invariant, and is the lattice implemented, with state blocks, legacy blocks and legacy chains that state blocks continue? | 56 blocks, 3 accounts: forks of an open, a send and a receive, a transfer that returns to its sender, sends to oneself, a send of nothing, a send to the burn account, a foreign signature, an overspend, legacy blocks on state blocks |
| `ledger_fork` | violation: `forked_block` asserts that a fork has a rival | as `ledger_mixed` |
| `store_caches` | is a sequence number reused only if a crash lost it or a transaction older than a flush hid it, and is every block put aside found exactly once? | 1 representative, 2 threads, numbers to 3, 3 votes generated, 1 block, 2 hashes |
| `processor` | does the order in which blocks come matter, does nothing valid wait, does a forced block find its root free, and does the gap cache hold gaps only? | 6 blocks, batches of 2, gap cache of 1; 4 pushes, or 2 pushes, 1 forced block and 1 rpc call |
| `processor_flush` | does `flush` return, and only after what was queued is committed? | 2 pushes, 1 forced block and 2 flushes, or 1 of each and an rpc call |
| `election` | does the latest vote of each representative decide in one thread, do votes of other nodes stay in order in two, is an election confirmed once, and does it end then? | 3 representatives in one thread, 2 votes of each heavy one on each block; or 2, one local, with 1 background thread |
| `election_leader` | violation: the block with the quorum is said to be confirmed | 2 representatives, 1 vote each |
| `work` | is every request for work answered, and once, unless a peer stays silent or the alarm goes? | 1 job with 2 peers, 2 rpc requests, one for the root of the job; 2 threads or none, with and without a device |
| `bootstrap` | is no pull lost or doubled, are retries bounded, do callers get their attempt, and does the thread end? | 2 connections, 1 pull and that of a fork, 1 caller, retry limit 2, attempts without bound |
| `sync` | does an attempt pull and push all it should, and does the node catch up? | 6 blocks with a fork, 3 accounts, every ledger of the node and of one peer, a second peer with the genesis block, 2 pulls at a time, 1 failure, 1 block from elsewhere |
| `wallet` | does the wallet never fork an account, send one of the blocks made with an id, tell callers of stored blocks only, keep its work fresh, and receive what a search finds? | 2 accounts of the wallet and one outside, 1 id; calls, sends, controls and restarts as `MCWallet` combines them |
| `wallet_search` | violation: the test says that a search leads to both sends of one account | 2 sends from outside, 1 search |

`Budget` and `Setting` are sets of bounds: the initial state chooses one, so one
run covers several combinations without their product.

Other bounds.  Two threads are enough for a stale snapshot, and one
representative because accounts do not interact in the vote cache.  In the
processor, four pushes are enough for a transfer that waits for its predecessor
and its source at once, or for a block that comes twice; a gap cache of one
entry reaches its limit at the second gap.  In an election the two heavy
representatives tie, the light one breaks the tie and is ignored when both are
online, and no representative reaches `OnlineMinimum` alone.  `AnnouncementMin`
is 2 (4 in the code), announcements are counted up to it, and the broadcasts that
wait up to `MaxBroadcasts`.  A background thread that has used the last number
stays where it is; the other threads go on.  The ticket of the pool stops
cancellations at `MaxTicket`, answers go on.  The pause before a retry doubles up
to `BackoffMax`.  A retry limit of 2 (16 in the code) has a retry, a last try over
the frontier connection and the end; two connections are enough for one that is
lost while the other is in use.  In `Sync` the accounts of the receivers lie
before and after that of the sender, so that the walks meet in every order; a
cost limit of 4 is exceeded by one pull (cost 5) and not by a few blocks to push.
In the wallet the accounts start with 3 of 7 and sends are of 1 and 2, one of
them below `ReceiveMinimum`; two sends can exceed the balance.

Deadlock is checked for the ledger and the caches.  The other systems may stop:
calls from outside are bounded, threads end when the node stops, a broadcast
stops at the last number, ledgers agree.  Their configurations switch the check
off.

The blocks of the ledger are few but closed under what matters: every verdict of
every ladder is given to some block, every rollback visitor runs, cascades go
through three accounts and come back to the account they started from, and
index entries are written, deleted and left behind.  All orders of processing
and of rolling back any block are explored.

Fairness, and why the code justifies it:

- ledger: `WF_vars(Rollback)` only.  A rollback is one call of a function in one
  thread, which runs until it returns; nothing obliges the node to process
  another block.  `RollbackReturns`.
- block processor: `WF_vars(Processor)` and `WF_vars(FlushCheck)`, threads that are
  not asleep run; nothing obliges anybody to push.  `FlushReturns` rests on the
  notification in the processor's idle turn.
- election: weak fairness of the announcement, which the alarm repeats as long as
  the node runs; votes need never come.  `ConfirmedEnds`.
- work: threads run, time passes, look-ups end (the resolver has its own
  time-out), and a peer answers, fails or stays silent: nothing is assumed of
  connections.  Strong fairness for peers (asked again and again they answer in
  the end) is needed only where there is neither a pool thread nor a device.
  `WorkArrives` names the two ways in which a job ends without an answer.
- bootstrap: the thread runs, socket operations end (each has a time-out), and a
  caller that wakes again and again finds the attempt gone once: attempts of
  others must not come before it for ever.  Pulls and connections need no
  fairness, as stop does not wait for them.  `CallerServed`, `ThreadEnds`.
- sync: an attempt goes on until it ends, and `ongoing_bootstrap` starts another,
  with the peer that was asked longest ago (`peer_container::bootstrap_peer`), so
  each peer is chosen again and again.
  `CatchesUp`.
- wallet: the threads of wallet and processor run, background calls are made,
  and an election that stays open is confirmed in the end (strong, as a
  restart may end it).  `HeadsReceived`.

## 4. What is proved

Every theorem holds for every value of the constants that satisfies the named
assumptions; TLC evaluates the assumptions on each instance it checks.

### Ledger

Assumptions: those of `LedgerBlocks` (the shape of blocks, that references point
to blocks made earlier, the definitions of owner, balance, amount and
representative block) and `BlockInfoMax >= 2`.  Nothing bounds the number of
accounts, of blocks or the amounts; the blocks are finitely many.

1. `LedgerReadProofs`: a sound set of blocks stays sound when a valid block is
   added (`AddSound`) and when a block that nothing stands on is removed
   (`RemoveSound`); a sound set has no forks (`SoundUnforked`).  What the ledger
   reads is right under the invariant: `ledger::account`, the amount, balance and
   representative visitors return the constants that the contents determine, and
   the ladders of checks accept exactly the valid blocks.  A recursive function
   is shown to equal a given one by exhibiting that the given one satisfies the
   recursion, and by the least or greatest hash on which two solutions could
   differ.  That there is such a hash is the hypothesis `WellOrdered` of these
   lemmas; `HashOrder` proves it once and for all.
2. `LedgerStepsProofs`: a block added in the normal form `AddsBlock`, or removed
   in the normal form `RemovesBlock`, preserves `LedgerInv`; every handler of
   `process` adds that way and every visitor of `rollback` removes that way; and
   each moves weights, checksum, count and index as `Tallies`, `CountsUp` and
   `CountsDown` say, though the five block types do so in different calls and
   orders.
3. `LedgerTotalsProofs`: sums over finite sets (`Total`) by the smallest set on
   which a claim could fail, and what one block more or less does to the sums,
   the weights, the checksum, the lengths of chains and the index.
4. `LedgerProofs`: every action is one of the two normal forms or leaves the
   tables alone, whence

   - `LedgerInvariant` (`LedgerInv`), `LedgerTypes`, `LedgerPending`
     (`PendingIsUnreceived`), `LedgerAccounts` (`AccountsAreChains`);
   - `LedgerAcceptsTheValid`: process accepts exactly the valid blocks;
   - `LedgerImplementsLattice`, and of the lattice `LatticeSound` and
     `LatticeUnforked`;
   - `LedgerConservation` (`Conservation`), `LedgerWeights`
     (`WeightsAreBalances`), `LedgerChecksum` (`ChecksumIsHeads`) and
     `LedgerIndex` (`IndexIsComplete`);
   - `LedgerCallsNest` (`CallsNest`) and the action property
     `LedgerOnlyDependents` (`OnlyDependentsRemoved`): a cascading rollback
     visits nothing but what stands on its target.

The inductive invariant `LedgerInv` is needed whole: to see that a pending entry
is right one must know that no block is received twice (`Sound`), that the
frontier names the head (`FrontiersAreLegacyHeads`, or a legacy block could
stand on a state block), that the index is right (or `ledger::account` and the
balance visitor mislead a rollback) and that a nested rollback works on the
account of its target (`CallsOnChain`).

The sums need more, `SumsInv`: `LedgerInv`, `Funds`, `ChecksumIsHeads` and
`IndexIsComplete`.  Amounts wrap, so neither the weights nor the money are
conserved by arithmetic alone.  `Funds` adds that no stored block overflowed
(`Exact`: a receive's balance is the sum, not the sum modulo 2^128), which
follows, when a block is added, from `Conservation` before the step: the amount
received was under way, so the new balance is at most the genesis amount.  In
the same way a weight, which is a sum of balances, stays below the genesis
amount, and the modular additions of `representation_add` give the sum itself.
For a rollback the argument runs backwards: the block that goes was exact.
`CallsNest` needs only `LedgerInv`.

### Elections

`ElectionProofs`, from `ElectionAssumption`.  `ElectionConfirmsOnce`
(`ConfirmedOnce`) holds for any number of threads: the flag is exchanged in one
step, and `Once` says that the thread that got it is the only one that will
confirm.  `ElectionOthersInOrder` (`OthersInOrder`) holds for any number of
threads, too, for every representative that is not this node's: background
threads bring local votes only, so between the comparison and the record of
another's vote no second one of it gets in.  `ElectionLatestVotes`
(`LatestVotesDecide`) holds while no background thread votes, which is a
condition of the property: a local vote may otherwise be overtaken (section 5).
The inductive invariant `ElectionInv` has the types, `Once` and, for one thread,
`OneByOne`: `rep_votes` and `last_votes` agree except for the vote in the
thread's hands, and the winner is decided by them except while the thread counts.

### Bootstrap

`BootstrapProofs`, from `BootstrapAssumption` (a limit of at least 2, a
connection to use): `BootstrapInvariant`, whence `BootstrapRetries`
(`RetriesBounded`) and `BootstrapAccounts` (`PullsAccounted`).  The inductive
invariant `AttemptInv` says where a pull can be (`Placed`: in the queue, once,
with a background thread, or with a client), how often it has been requested
there (`Counted`), and who holds the frontier connection (`FrontierHeld`).  The
last is needed because the last try of a pull goes over the frontier
connection, which is a weak pointer: the pull would be lost if that were no
connection.  `Tries` counts the requests of a pull, and for that of a resolved
fork one more, since it is queued with one attempt already.  "No pull is lost"
means that none is forgotten: one that was given up after its tries is in
`dropped`, and one of a fork that ended by an error is complete, as in the code.

### Work pool and caches

`ThreadsProofs`, from `WorkPoolAssumption`: the invariant `PoolInvariant`,
whence `PoolAnswersOnce` (`AnsweredOnce`) and `PoolLosesNone` (`NoneLost`),
for any number of threads, requests and roots.  The step that matters is
`Finish`: the thread pops the front of the list without looking at it, so one
must know that a thread with the current ticket searches for the front
(`SearchesCurrent`).  That is kept because every removal of the front, by
`Finish` or by `Cancel`, moves the ticket on, and new requests go to the back.
The ticket does not wrap in the model (in the code after 2^32 answers during
one search).

From `NamesDiffer` and `BoundsAreNumbers`: the invariant `CachesInvariant` of
the store's caches, whence `CachesKnow` (`KnownIsHighest`), `CachesRise`
(`SequencesRise`) and `CachesFind` (`UncheckedFoundOnce`) for any number of
threads, representatives and blocks.  The strengthening says who may hold what
flush has taken (`FlushInv`: only a flush in progress), that no number issued,
in the table, in a snapshot or taken by flush is above the highest (`AllBelow`),
and that a transaction that sees every flush has the committed table as its
snapshot.  With `KnownIsHighest` the next number is then above all issued ones
or among the lost.

### Wallet

`WalletProofs`, from `WalletAssumption` and `AccountsAreNoBlocks` (a link that
names an account is never a link to a block; hashes and accounts are both 256
bits in the code): the invariant `WalletInvariant`, whence `WalletExtends`
(`BlocksExtend`), `WalletStores` (`ToldIsStored`) and `WalletSendsOnce`
(`SentOnce`), for any number of accounts, ids, amounts, calls, sends from
outside and restarts.  The strengthening `ThreadOK` says that the processor has
at most the block the wallet's thread waits for, that this block fits as long as
it is not processed, since only sends from outside come between (`FitsKept`),
and that a thread that waits while the processor runs will find its block in the
ledger.  For `SentOnce` it adds `MadeOK`: of the blocks that calls with an id
made last, none but the one the table names for that id is in the ledger, the
processor or the thread's hands.  `SentOnce` is about those blocks only, and
must be: call one id with two amounts, lose both blocks in crashes, and let a
call without an id build the first of them again; the table names the second, so
the id sends once more.  The first block then belongs to the call without an id.

### Only model-checked

- All liveness properties: fairness is out of the prover's reach.
- `WorkIsFresh`, whose invariant would have to follow every request for work
  through the queue of actions.
- The block processor (`OrderDoesNotMatter`, `GapCacheIsGaps`, `NoValidBlockWaits`,
  `ForcedHasNoRival`): it uses the ledger as an instance, in the middle of a
  batch, so a proof would have to carry `LedgerInv` through every step of the
  processor and add what each queue, the unchecked table and the arrival record
  may hold at each of its places.  That has not been done.
- Sync (`AttemptPulls`, `AttemptPushes`): a ledger there is the fixed point of
  `Settle`, again an induction over data.
- Distributed work: the theorems on the pool are about the pool with any callers
  (`PoolSpec`).  The run checks the same two properties where the callers are
  peers, alarm and rpc (`DistributedWork`), and its liveness.

## 5. Findings

- `ledger_fork`: a state block on the head of another account gets `fork` though
  no stored block has its root; `ledger::forked_block`, called on that verdict,
  asserts that one exists.
- `election_leader`: the winner changes only when the votes reach
  `online_weight_minimum`; the quorum may be half of that.  In between the
  election confirms the block it started with, whatever the votes say.

- `wallet_search`: `search_pending` confirms the head of the sending account, not
  the send it found.  An earlier send of that account without an election of
  its own is found by every search and never received; the test
  `search_pending_same` expects both.

Seen while modelling and not checked by a run:

- A state block of an unopened account whose previous block is stored gets
  `gap_previous`, which `common.hpp` describes as "Block marked as previous is
  unknown"; the constructor of the store resets the checksum to zero each time a
  database is opened.
- `flush` empties the cache before its writes are committed, so `vote_generate` in
  a transaction that began before the commit gives a number a second time
  (`blockstore.cpp:1219`; `blockstore.hpp:118`: "Populate vote with the next
  sequence number").
- `force` puts winners in front of those not yet taken.  If an election changes its
  winner twice before the processor takes the first, the older one is processed
  last and stays (`node.cpp:1218`; `node.cpp:1294`: "Replace our block with the
  winner and roll back any dependent blocks").
- Between the comparison with `last_votes` and the record in `election::vote`
  another thread may record a newer vote of the same representative, which the
  older one then overwrites.  Only a local representative has votes in two
  threads, when a peer sends back its last one during the next broadcast
  (`OthersInOrder` without its exception fails with one background thread and
  numbers to 4).
- A work peer that accepts the connection and stays silent holds its job back for
  ever, though the pool could do the work (`node.cpp:2247`); so does the
  destructor of the alarm during a job's pause.
- `request_push` keeps its client while it waits for its promise, and a failed
  write only logs: the attempt stays until it is stopped again (`PushHangs`).
- The winner can still change after the confirmation, so the history of confirmed
  elections may name another block than `process_confirmed` got.  A block that was
  rolled back is ignored when it arrives again while its hash is in the arrival
  record.
- A pull between `request_pull` and its background thread is not counted in
  `pulling`, so "Completed pulls" may be logged with one outstanding; a failed
  frontier request also drops the pull of a resolved fork; `bootstrap` with an
  endpoint does not look at `stopped` again after it waited.
- `received_frontier` sets its promise outside a try block when the peer is too
  slow, though `stop` may have set it.
- The push cost limit keeps out the same accounts every time; a frontier pull of
  a forked account never reaches its end and is retried to the limit, while the
  pull for a resolved fork counts as complete when its connection fails.
- `receive_action` and `change_action` assert that the key can be fetched after
  `valid_password`, though `wallet_lock` may come between.  Callers of
  `send_sync` wait for ever if the wallets stop first.  Calls that bring their own
  work leave it in the cache, where it is no longer good for the head.

## 6. Not modelled

- Of modelled parts: `gap_cache::vote`; `confirm_req` and republishing;
  `recalculate_stake` and changing weights in elections; `bulk_pull_blocks_server`,
  the listener and the queue of requests of a bootstrap server connection;
  several elections at once, except in `Wallet`.
- Keys, seeds, encryption, import and export of `wallet_store`, block and message
  encodings, numbers: cryptography and encodings, which are left to
  libraries or are pure functions on long bit strings.
- Peers: lookups by time and address; no modelled property depends on the choice.
- Network: sockets and message parsing around calls that the models take as
  inputs, in any order, repeated or lost.
- Store upgrades: one-time conversions between eleven formats.
- The rest of rpc, user interface, statistics, configuration, executables, OpenCL
  and port mapping: formatting, or device and socket input and output.
- Data races (undefined behaviour) on hash tables in elections; a block that a crash
  loses and that a peer sends back in the wallet.
