--------------------------- MODULE BlockProcessor ---------------------------
(***************************************************************************)
(* rai::block_processor over the ledger, with the blocks that wait for     *)
(* others (unchecked), the gap cache, the record of recent arrivals and    *)
(* the set of roots that have an election.                                 *)
(*                                                                         *)
(* One thread takes blocks from two stacks, in batches, each batch in one  *)
(* write transaction.  Other threads push blocks (from messages, bootstrap *)
(* and the wallet), elections force the winner over the ledger's block,    *)
(* rpc processes a block in a transaction of its own, and the wallet calls *)
(* flush to wait until everything before it is processed.  There is one    *)
(* condition variable: whoever waits on it is "asleep" until it is         *)
(* notified.                                                               *)
(*                                                                         *)
(* StoreCaches shows that unchecked blocks are one set for whoever holds   *)
(* the write transaction.  Time only shows in which arrivals are old,      *)
(* which is left open.  Nothing calls gap_cache::purge_old.                *)
(*                                                                         *)
(* FlushCheckIdle, QueueUncheckedDropped, GapAddUnbounded, GapKeyPrevious, *)
(* IdleSilent, TakeUncounted and TakeUnforced are the definitions that     *)
(* follow them with a mistake in them.  Nothing uses them.                 *)
(***************************************************************************)
EXTENDS BlockSets, Integers, SequencesExt

CONSTANTS
    BlockInfoMax,  \* see Ledger
    BatchMax,      \* blocks in a batch (16384 in the code)
    GapMax,        \* gap_cache::max (256)
    ArrivalMin,    \* block_arrival::arrival_size_min (8192)
    Budget         \* bounds: how many blocks come from messages and bootstrap ("add"), from
                   \* elections ("force") and from the rpc process, and how many calls of flush

VARIABLES blocks, successor, accounts, frontiers, pending, representation, blocks_info,
          checksum, rollbacks   \* the tables, see Ledger

TheLedger == INSTANCE Ledger

ledger == <<blocks, successor, accounts, frontiers, pending, representation, blocks_info,
            checksum, rollbacks>>

VARIABLES
    queue,      \* block_processor::blocks, front first
    forced,     \* block_processor::forced, front first
    state,      \* of the thread: "check", "asleep", "batch", "one", "after" or "stopped"
    current,    \* the block in its hands in state "one", else 0
    force,      \* whether that one is forced
    count,      \* blocks processed in this batch
    stopped,
    flusher,    \* of a caller of flush: "none", "check" or "asleep"
    unchecked,  \* pairs of a hash and a block that waits for it
    gap_cache,  \* blocks with a gap, oldest first
    arrival,    \* hashes that arrived, oldest first
    roots,      \* active_transactions: roots with an election
    voting,     \* the root of an election that a vote has got hold of, else 0
    rpc         \* the rpc call in progress: its stage and its block

stacks == <<queue, forced>>
control == <<state, current, force, count, stopped, flusher>>
aside == <<unchecked, gap_cache, arrival, roots, voting, rpc>>

(* What happened so far. *)
VARIABLES
    left,       \* how much of the budget is left
    received,   \* all blocks pushed or processed so far
    rolled,     \* whether anything was rolled back
    promised,   \* blocks pushed before flush was called, not yet committed
    handled     \* blocks processed in this batch

history == <<left, received, rolled, promised, handled>>
vars == <<ledger, stacks, control, aside, history>>

NoRpc == [stage |-> "none", block |-> 0]

HaveBlocks == queue # <<>> \/ forced # <<>>

Active == state \in {"batch", "one", "after"}

Call(way) == left[way] > 0 /\ left' = [left EXCEPT ![way] = @ - 1]

(* block h comes from outside. *)
Comes(h, way) ==
    /\ Call(way)
    /\ received' = received \cup {h}

(* condition.notify_all *)
Notify ==
    /\ state' = IF state = "asleep" THEN "check" ELSE state
    /\ flusher' = IF flusher = "asleep" THEN "check" ELSE flusher

-----------------------------------------------------------------------------
(* Who pushes blocks *)

(* block_processor::add, from bootstrap: new blocks go in front. *)
Add(h) ==
    /\ Comes(h, "add")
    /\ queue' = <<h>> \o queue
    /\ Notify
    /\ UNCHANGED <<ledger, forced, current, force, count, stopped, aside, rolled, promised,
                   handled>>

(* node::process_active, for blocks from messages and from the wallet: a   *)
(* block that arrived before is ignored.                                   *)
ProcessActive(h) ==
    /\ h \notin Range(arrival)
    /\ Comes(h, "add")
    /\ arrival' = Append(arrival, h)
    /\ queue' = <<h>> \o queue
    /\ Notify
    /\ UNCHANGED <<ledger, forced, current, force, count, stopped, unchecked, gap_cache, roots, voting, rpc,
                   rolled, promised, handled>>

PushForced(h) ==
    /\ forced' = <<h>> \o forced
    /\ Notify

(* active_transactions::vote finds the election of its root and releases   *)
(* the lock: the election may end while it votes.                          *)
VoteBegin(r) ==
    /\ voting = 0
    /\ r \in roots
    /\ Call("force")
    /\ voting' = r
    /\ UNCHANGED <<ledger, stacks, control, unchecked, gap_cache, arrival, roots, rpc,
                   received, rolled, promised, handled>>

(* The election has a new winner, a block that the votes brought:          *)
(* confirm_if_quorum.                                                      *)
Force(h) ==
    /\ voting # 0
    /\ Root(h) = voting
    /\ voting' = 0
    /\ received' = received \cup {h}
    /\ PushForced(h)
    /\ UNCHANGED <<ledger, queue, current, force, count, stopped, unchecked, gap_cache,
                   arrival, roots, rpc, left, rolled, promised, handled>>

(* active_transactions::announce_votes or erase takes an election away. *)
ElectionEnds(r) ==
    /\ roots' = roots \ {r}
    /\ UNCHANGED <<ledger, stacks, control, unchecked, gap_cache, arrival, voting, rpc,
                   history>>

-----------------------------------------------------------------------------
(* process_receive_one *)

GapAddUnbounded(h) == Append(Remove(gap_cache, h), h)

(* gap_cache::add: the entry is new or becomes the youngest; a new entry   *)
(* may push out the oldest.                                                *)
GapAdd(h) ==
    LET added == Append(Remove(gap_cache, h), h)
    IN  IF Len(added) > GapMax THEN Tail(added) ELSE added

(* block_arrival::recent first drops old entries while there are more than *)
(* ArrivalMin.                                                             *)
Recents ==
    {SubSeq(arrival, k + 1, Len(arrival)) :
        k \in {n \in 0 .. Len(arrival) : n > 0 => Len(arrival) - n >= ArrivalMin}}

QueueUncheckedDropped(h) ==
    /\ unchecked' = {w \in unchecked : w[1] # h}
    /\ gap_cache' = Remove(gap_cache, h)
    /\ UNCHANGED queue

(* The blocks that waited for h are pushed, in the order the tables give   *)
(* them.                                                                   *)
QueueUnchecked(h) ==
    /\ \E order \in SetToSeqs({u[2] : u \in {w \in unchecked : w[1] = h}}) :
           queue' = order \o queue
    /\ unchecked' = {w \in unchecked : w[1] # h}
    /\ gap_cache' = Remove(gap_cache, h)

LedgerProcess(h) ==
    \/ TheLedger!ProcessState(h) \/ TheLedger!ProcessChange(h) \/ TheLedger!ProcessSend(h)
    \/ TheLedger!ProcessReceive(h) \/ TheLedger!ProcessOpen(h)

Gap == {"gap_previous", "gap_source"}

GapKeyPrevious(h, verdict) == Previous(h)

(* The block that a block with a gap waits for; the source of a state      *)
(* block with that verdict is its link.                                    *)
GapKey(h, verdict) == IF verdict = "gap_previous" THEN Previous(h) ELSE Link(h)

(* ledger::successor: the stored block with this root, if any. *)
SuccessorOf(r) ==
    IF r \in Account THEN accounts[r].open_block
    ELSE IF r \in Hash THEN successor[r] ELSE 0

(* node::process_fork starts an election between the ledger's block and h. *)
RootsAfterFork(h) == IF SuccessorOf(Root(h)) # 0 THEN roots \cup {Root(h)} ELSE roots

ProcessReceiveOne(h) ==
    LET verdict == TheLedger!Result(h)
    IN  \/ /\ verdict = "progress"
           /\ LedgerProcess(h)
           /\ arrival' \in Recents
           /\ roots' = IF h \in Range(arrival') THEN roots \cup {Root(h)} ELSE roots
           /\ QueueUnchecked(h)
        \/ /\ verdict = "old"
           /\ QueueUnchecked(h)
           /\ UNCHANGED <<ledger, arrival, roots>>
        \/ /\ verdict \in Gap
           /\ unchecked' = unchecked \cup {<<GapKey(h, verdict), h>>}
           /\ gap_cache' = GapAdd(h)
           /\ UNCHANGED <<ledger, queue, arrival, roots>>
        \/ /\ verdict = "fork"
           /\ arrival' \in Recents
           /\ roots' = IF h \in Range(arrival') THEN roots ELSE RootsAfterFork(h)
           /\ UNCHANGED <<ledger, queue, unchecked, gap_cache>>
        \/ /\ verdict \notin Gap \cup {"progress", "old", "fork"}
           /\ UNCHANGED <<ledger, queue, unchecked, gap_cache, arrival, roots>>

(* rpc_handler::process notes the arrival, new or not, ... *)
RpcArrive(h) ==
    /\ rpc = NoRpc
    /\ Comes(h, "rpc")
    /\ arrival' = IF h \in Range(arrival) THEN arrival ELSE Append(arrival, h)
    /\ rpc' = [stage |-> "arrived", block |-> h]
    /\ UNCHANGED <<ledger, stacks, control, unchecked, gap_cache, roots, voting, rolled,
                   promised, handled>>

(* ... processes the block in a write transaction of its own, so not while *)
(* a batch is open, ...                                                    *)
RpcProcess ==
    /\ rpc.stage = "arrived"
    /\ state \notin {"batch", "one"}
    /\ ProcessReceiveOne(rpc.block)
    /\ IF queue' # queue THEN Notify ELSE UNCHANGED <<state, flusher>>
    /\ \/ rpc' = NoRpc
       \/ TheLedger!Result(rpc.block) = "fork" /\ rpc' = [rpc EXCEPT !.stage = "fork"]
    /\ UNCHANGED <<forced, current, force, count, stopped, voting, history>>

(* ... and may be asked to force a fork, which ends its election. *)
RpcForce ==
    /\ rpc.stage = "fork"
    /\ roots' = roots \ {Root(rpc.block)}
    /\ PushForced(rpc.block)
    /\ rpc' = NoRpc
    /\ UNCHANGED <<ledger, queue, current, force, count, stopped, unchecked, gap_cache, arrival,
                   voting, left, received, rolled, promised, handled>>

-----------------------------------------------------------------------------
(* The thread of process_blocks *)

BatchBegin ==
    /\ state = "check"
    /\ ~stopped
    /\ HaveBlocks
    /\ state' = "batch"
    /\ count' = 0
    /\ UNCHANGED <<ledger, stacks, current, force, stopped, flusher, aside, history>>

IdleSilent ==
    /\ state = "check"
    /\ ~stopped
    /\ ~HaveBlocks
    /\ state' = "asleep"
    /\ UNCHANGED <<ledger, stacks, current, force, count, stopped, flusher, aside, history>>

(* Nothing to do: wake those who wait for that, and wait. *)
Idle ==
    /\ state = "check"
    /\ ~stopped
    /\ ~HaveBlocks
    /\ state' = "asleep"
    /\ flusher' = IF flusher = "asleep" THEN "check" ELSE flusher
    /\ UNCHANGED <<ledger, stacks, current, force, count, stopped, aside, history>>

Exit ==
    /\ state = "check"
    /\ stopped
    /\ state' = "stopped"
    /\ UNCHANGED <<ledger, stacks, current, force, count, stopped, flusher, aside, history>>

TakeUncounted ==
    /\ state = "batch"
    /\ forced = <<>>
    /\ queue # <<>>
    /\ state' = "one"
    /\ current' = Head(queue)
    /\ force' = FALSE
    /\ queue' = Tail(queue)
    /\ UNCHANGED <<ledger, forced, count, stopped, flusher, aside, history>>

Take ==
    /\ state = "batch"
    /\ count < BatchMax
    /\ forced = <<>>
    /\ queue # <<>>
    /\ state' = "one"
    /\ current' = Head(queue)
    /\ force' = FALSE
    /\ queue' = Tail(queue)
    /\ UNCHANGED <<ledger, forced, count, stopped, flusher, aside, history>>

TakeUnforced ==
    /\ state = "batch"
    /\ count < BatchMax
    /\ forced # <<>>
    /\ state' = "one"
    /\ current' = Head(forced)
    /\ force' = TRUE
    /\ forced' = Tail(forced)
    /\ UNCHANGED <<ledger, queue, count, stopped, flusher, aside, history>>

(* A forced block replaces the ledger's block with the same root. *)
TakeForced ==
    /\ state = "batch"
    /\ count < BatchMax
    /\ forced # <<>>
    /\ state' = "one"
    /\ current' = Head(forced)
    /\ force' = TRUE
    /\ forced' = Tail(forced)
    /\ LET rival == SuccessorOf(Root(current'))
       IN  IF rival # 0 /\ rival # current'
           THEN TheLedger!RollbackStart(rival) /\ rolled' = TRUE
           ELSE UNCHANGED <<ledger, rolled>>
    /\ UNCHANGED <<queue, count, stopped, flusher, aside, left, received, promised,
                   handled>>

(* ledger::rollback runs until it returns. *)
RollbackStep ==
    /\ state = "one"
    /\ TheLedger!Rollback
    /\ UNCHANGED <<stacks, control, aside, history>>

One ==
    /\ state = "one"
    /\ rollbacks = <<>>
    /\ ProcessReceiveOne(current)
    /\ flusher' = IF queue' # queue /\ flusher = "asleep" THEN "check" ELSE flusher
    /\ state' = "batch"
    /\ count' = count + 1
    /\ handled' = handled \cup {current}
    /\ current' = 0
    /\ force' = FALSE
    /\ UNCHANGED <<forced, stopped, voting, rpc, left, received, rolled, promised>>

(* The transaction commits; active is still set. *)
BatchCommit ==
    /\ state = "batch"
    /\ ~HaveBlocks \/ count = BatchMax
    /\ state' = "after"
    /\ promised' = promised \ handled
    /\ handled' = {}
    /\ UNCHANGED <<ledger, stacks, current, force, count, stopped, flusher, aside, left, received,
                   rolled>>

BatchEnd ==
    /\ state = "after"
    /\ state' = "check"
    /\ UNCHANGED <<ledger, stacks, current, force, count, stopped, flusher, aside, history>>

Stop ==
    /\ ~stopped
    /\ stopped' = TRUE
    /\ Notify
    /\ UNCHANGED <<ledger, stacks, current, force, count, aside, history>>

-----------------------------------------------------------------------------
(* block_processor::flush *)

FlushCall ==
    /\ flusher = "none"
    /\ Call("flush")
    /\ flusher' = "check"
    /\ promised' = Range(queue) \cup ({current} \ {0}) \cup handled
    /\ UNCHANGED <<ledger, stacks, state, current, force, count, stopped, aside, received,
                   rolled, handled>>

FlushCheckIdle ==
    /\ flusher = "check"
    /\ flusher' = IF stopped \/ queue = <<>> THEN "none" ELSE "asleep"
    /\ promised' = IF flusher' = "none" THEN {} ELSE promised
    /\ UNCHANGED <<ledger, stacks, state, current, force, count, stopped, aside, left, received,
                   rolled, handled>>

FlushCheck ==
    /\ flusher = "check"
    /\ flusher' = IF stopped \/ (queue = <<>> /\ ~Active) THEN "none" ELSE "asleep"
    /\ promised' = IF flusher' = "none" THEN {} ELSE promised
    /\ UNCHANGED <<ledger, stacks, state, current, force, count, stopped, aside, left, received,
                   rolled, handled>>

-----------------------------------------------------------------------------

Init ==
    /\ TheLedger!Init
    /\ queue = <<>>
    /\ forced = <<>>
    /\ state = "check"
    /\ current = 0
    /\ force = FALSE
    /\ count = 0
    /\ stopped = FALSE
    /\ flusher = "none"
    /\ unchecked = {}
    /\ gap_cache = <<>>
    /\ arrival = <<>>
    /\ roots = {}
    /\ voting = 0
    /\ rpc = NoRpc
    /\ left \in Budget
    /\ received = {}
    /\ rolled = FALSE
    /\ promised = {}
    /\ handled = {}

Processor ==
    \/ BatchBegin \/ Idle \/ Exit \/ Take \/ TakeForced \/ RollbackStep \/ One
    \/ BatchCommit \/ BatchEnd

Next ==
    \/ \E h \in Hash \ {Genesis} : Add(h) \/ ProcessActive(h) \/ Force(h) \/ RpcArrive(h)
    \/ RpcProcess
    \/ RpcForce
    \/ \E r \in roots : VoteBegin(r) \/ ElectionEnds(r)
    \/ Processor
    \/ FlushCall
    \/ FlushCheck
    \/ Stop

(* The threads of the processor and of the caller of flush run. *)
Spec == Init /\ [][Next]_vars /\ WF_vars(Processor) /\ WF_vars(FlushCheck)

-----------------------------------------------------------------------------

TypeOK ==
    /\ queue \in Seq(Hash)
    /\ forced \in Seq(Hash)
    /\ state \in {"check", "asleep", "batch", "one", "after", "stopped"}
    /\ current \in Hash \cup {0}
    /\ current # 0 <=> state = "one"
    /\ force \in BOOLEAN
    /\ count \in 0 .. BatchMax
    /\ stopped \in BOOLEAN
    /\ flusher \in {"none", "check", "asleep"}
    /\ unchecked \subseteq Number \X Hash
    /\ gap_cache \in Seq(Hash)
    /\ arrival \in Seq(Hash)
    /\ roots \subseteq Number
    /\ voting \in Number
    /\ rpc \in [stage : {"none", "arrived", "fork"}, block : Hash \cup {0}]
    /\ rollbacks # <<>> => force

(* No block that the ledger would accept is left waiting for another: the  *)
(* key under which unchecked_put files a block is one that is processed    *)
(* before the block becomes valid, in every order of arrivals, forced      *)
(* blocks, rollbacks and rpc calls.                                        *)
NoValidBlockWaits == \A w \in unchecked : ~Valid(blocks, w[2])

Quiet == ~HaveBlocks /\ ~Active /\ rpc.stage # "arrived"

(* Blocks may come in any order: when there is nothing left to do, every   *)
(* block received is in the ledger, unless it is not valid there, as if    *)
(* they had come in the order of their references.  A rollback forgets     *)
(* what it removes, so this is about a ledger where none happened.         *)
OrderDoesNotMatter == Quiet /\ ~rolled => \A h \in received : ~Valid(blocks, h)

(* The gap cache stays within its limit, holds no block twice, and none    *)
(* that the ledger has (a vote on such a block would start a bootstrap).   *)
GapCacheIsGaps ==
    /\ Len(gap_cache) <= GapMax
    /\ IsInjective(gap_cache)
    /\ Range(gap_cache) \cap blocks = {}

(* When a forced block is about to be processed nothing stored competes    *)
(* with it: the rollback took the rival and all that stood on it.          *)
ForcedHasNoRival ==
    state = "one" /\ force /\ rollbacks = <<>> =>
        \A h \in blocks : Root(h) = Root(current) => h = current

(* flush returns, unless the processor is stopped, only when every block   *)
(* that was queued or in progress when it was called has been processed    *)
(* and its batch committed (send_action and bootstrap rely on it).         *)
FlushMeansCommitted ==
    [][flusher = "check" /\ flusher' = "none" /\ ~stopped => promised = {}]_vars

(* A caller of flush is not left asleep: someone notifies it when the      *)
(* queue is empty and the batch is over, or when the processor stops.      *)
FlushReturns == flusher # "none" ~> flusher = "none"

=============================================================================
