-------------------------- MODULE DistributedWork ---------------------------
(***************************************************************************)
(* How a node gets proof of work: distributed_work asks all work peers at  *)
(* once and takes the first valid answer.  When all have failed the node's *)
(* own pool searches (WorkPool), or, without threads, the peers are asked  *)
(* again after a pause (Alarm).  Rpc calls use the pool directly and may   *)
(* cancel all requests for a root.                                         *)
(*                                                                         *)
(* A peer's address and its answer are reduced to whether the answer is    *)
(* valid work, something else or an error, or never comes.                 *)
(*                                                                         *)
(* FailureAgain and RemovedBefore are the definitions that follow them     *)
(* with a mistake in them.  Nothing uses them.                             *)
(***************************************************************************)
EXTENDS WorkPool

CONSTANTS
    Null,        \* see Alarm
    Peer,        \* node_config::work_peers
    BackoffMax   \* the longest pause, 300 seconds in the code

(* Calls of node::work_generate; its callbacks cannot take a cancellation. *)
Job == Throwing

(* Calls of work_pool::generate by rpc. *)
Direct == Request \ Throwing

VARIABLES operations, posted, thread, timer   \* see Alarm

TheAlarm == INSTANCE Alarm

VARIABLES
    local,       \* whether the pool has threads (node_config::work_threads)
    device,      \* whether it has an OpenCL device
    stage,       \* job -> "idle", "resolve", "work" or "pause"
    outstanding, \* job -> the peers asked that have not answered
    connections, \* job -> the peers from whom something is still to come
    completed,   \* job -> the flag of the distributed_work at hand
    backoff      \* job -> the pause before the next attempt

alarm == <<operations, posted, thread, timer>>
distributed == <<local, device, stage, outstanding, connections, completed, backoff>>
vars == <<pool, alarm, distributed>>

Min2(m, n) == IF m < n THEN m ELSE n

-----------------------------------------------------------------------------

(* work_pool::generate *)
PoolGenerate(r) == Generate(r) \/ (device /\ GenerateDevice(r))

(* The pool takes over, or the alarm starts another attempt. *)
TakeOver(j) ==
    /\ completed' = [completed EXCEPT ![j] = TRUE]
    /\ \/ /\ local \/ device
          /\ PoolGenerate(j)
          /\ stage' = [stage EXCEPT ![j] = "work"]
          /\ UNCHANGED <<alarm, backoff>>
       \/ /\ ~local /\ ~device
          /\ TheAlarm!AlarmAdd(j, backoff[j])
          /\ stage' = [stage EXCEPT ![j] = "pause"]
          /\ backoff' = [backoff EXCEPT ![j] = Min2(2 * @, BackoffMax)]
          /\ UNCHANGED pool

FailureAgain(j, last) ==
    IF last THEN TakeOver(j) ELSE UNCHANGED <<pool, alarm, stage, completed, backoff>>

(* distributed_work::handle_failure *)
HandleFailure(j, last) ==
    IF last /\ ~completed[j]
    THEN TakeOver(j)
    ELSE UNCHANGED <<pool, alarm, stage, completed, backoff>>

(* node::work_generate *)
WorkGenerate(j) ==
    /\ ~done
    /\ stage[j] = "idle"
    /\ stage' = [stage EXCEPT ![j] = "resolve"]
    /\ UNCHANGED <<pool, alarm, local, device, outstanding, connections, completed, backoff>>

(* start looks the peers up one after the other; start_work asks those     *)
(* that were found, ...                                                    *)
StartWork(j) ==
    /\ stage[j] = "resolve"
    /\ \E found \in SUBSET Peer \ {{}} :
        /\ outstanding' = [outstanding EXCEPT ![j] = found]
        /\ connections' = [connections EXCEPT ![j] = found]
    /\ stage' = [stage EXCEPT ![j] = "work"]
    /\ UNCHANGED <<pool, alarm, local, device, completed, backoff>>

(* ... if any. *)
StartAlone(j) ==
    /\ stage[j] = "resolve"
    /\ TakeOver(j)
    /\ UNCHANGED <<local, device, outstanding, connections>>

(* success with valid work: set_once, and stop, which forgets the other    *)
(* peers but cannot take back what they send.                              *)
PeerSucceeds(j, p) ==
    /\ p \in connections[j]
    /\ connections' = [connections EXCEPT ![j] = @ \ {p}]
    /\ outstanding' = [outstanding EXCEPT ![j] = {}]
    /\ completed' = [completed EXCEPT ![j] = TRUE]
    /\ calls' = IF completed[j] THEN calls ELSE [calls EXCEPT ![j] = @ + 1]
    /\ UNCHANGED <<place, pushed, ticket, done, worker, asked, alarm, local, device, stage,
                   backoff>>

RemovedBefore(j, p) == outstanding[j] = {}

(* distributed_work::remove *)
Removed(j, p) == outstanding[j] \ {p} = {}

(* failure, and success with anything but valid work *)
PeerFails(j, p) ==
    /\ p \in connections[j]
    /\ connections' = [connections EXCEPT ![j] = @ \ {p}]
    /\ outstanding' = [outstanding EXCEPT ![j] = @ \ {p}]
    /\ HandleFailure(j, Removed(j, p))
    /\ UNCHANGED <<local, device>>

(* A peer that takes the connection and stays silent for ever: no timer    *)
(* ends async_connect, async_write or async_read.                          *)
PeerSilent(j, p) ==
    /\ p \in connections[j]
    /\ connections' = [connections EXCEPT ![j] = @ \ {p}]
    /\ UNCHANGED <<pool, alarm, local, device, stage, outstanding, completed, backoff>>

(* The alarm's operation makes a new distributed_work with the next pause. *)
Retry(j) ==
    /\ j \in posted
    /\ posted' = posted \ {j}
    /\ stage' = [stage EXCEPT ![j] = "resolve"]
    /\ completed' = [completed EXCEPT ![j] = FALSE]
    /\ UNCHANGED <<pool, operations, thread, timer, local, device, outstanding, connections,
                   backoff>>

-----------------------------------------------------------------------------
(* rpc_handler::work_generate without peers, and work_cancel *)

RpcGenerate(r) ==
    /\ ~done
    /\ PoolGenerate(r)
    /\ UNCHANGED <<alarm, distributed>>

RpcCancel(root) == Cancel(root) /\ UNCHANGED <<alarm, distributed>>

-----------------------------------------------------------------------------

PoolWork(t) == Work(t) /\ UNCHANGED <<alarm, distributed>>
AlarmStep == TheAlarm!AlarmRun /\ UNCHANGED <<pool, distributed>>
Tick == TheAlarm!Tick /\ UNCHANGED <<pool, distributed>>

(* The node is gone: nobody asks for more, and the alarm ends first. *)
AlarmDestroy == TheAlarm!AlarmDestroy /\ UNCHANGED <<pool, distributed>>

(* work_pool::~work_pool, when no job may ask it any more; the requests on *)
(* the list are still worked on.                                           *)
PoolStop ==
    /\ \A j \in Job : stage[j] = "idle" \/ calls[j] > 0 \/ place[j] > 0
    /\ Stop
    /\ UNCHANGED <<alarm, distributed>>

Init ==
    /\ local \in BOOLEAN
    /\ device \in BOOLEAN
    /\ PoolInit(IF local THEN WorkThread ELSE {})
    /\ TheAlarm!AlarmInit
    /\ stage = [j \in Job |-> "idle"]
    /\ outstanding = [j \in Job |-> {}]
    /\ connections = [j \in Job |-> {}]
    /\ completed = [j \in Job |-> FALSE]
    /\ backoff = [j \in Job |-> 1]

Next ==
    \/ \E j \in Job : WorkGenerate(j) \/ StartWork(j) \/ StartAlone(j) \/ Retry(j)
    \/ \E j \in Job, p \in Peer : PeerSucceeds(j, p) \/ PeerFails(j, p) \/ PeerSilent(j, p)
    \/ \E r \in Direct : RpcGenerate(r)
    \/ \E root \in Root : RpcCancel(root)
    \/ \E t \in WorkThread : PoolWork(t)
    \/ AlarmStep
    \/ Tick
    \/ AlarmDestroy
    \/ PoolStop

(* The threads run and time passes; a search and a look-up end.  What      *)
(* comes from a peer comes in the end, a silent one is silent from some    *)
(* moment on, and peers that are looked up and asked again and again are   *)
(* found and give valid work in the end.                                   *)
Fairness ==
    /\ \A t \in WorkThread : WF_vars(PoolWork(t))
    /\ WF_vars(AlarmStep)
    /\ WF_vars(Tick)
    /\ \A j \in Job :
        /\ SF_vars(StartWork(j))
        /\ WF_vars(Retry(j))
        /\ WF_vars(\E p \in Peer : PeerSucceeds(j, p) \/ PeerFails(j, p) \/ PeerSilent(j, p))
        /\ SF_vars(\E p \in Peer : PeerSucceeds(j, p))

Spec == Init /\ [][Next]_vars /\ Fairness

-----------------------------------------------------------------------------

(* All peers of the job that are still outstanding are silent ones. *)
Silent(j) == outstanding[j] # {} /\ outstanding[j] \cap connections[j] = {}

(* The pause of the job was not over when the alarm's thread ended. *)
Dropped(j) == thread = "ended" /\ j \in DOMAIN operations

(* Who asks gets an answer in the end: some way to the work stays open     *)
(* when peers fail, answer late or with something wrong, a search is       *)
(* cancelled or the pool stops.  Two things end a job without an answer: a *)
(* peer that says nothing, unless another one gives the work, since only   *)
(* the last failure asks the pool or the alarm; and the destructor of the  *)
(* alarm, for a job in its pause.  A pool without threads leaves what its  *)
(* device cannot do undone, and all that rpc asks of it.                   *)
WorkArrives ==
    /\ \A j \in Job :
        stage[j] # "idle" /\ (device => local) ~> calls[j] > 0 \/ Silent(j) \/ Dropped(j)
    /\ \A r \in Direct : r \in asked /\ local ~> calls[r] > 0

=============================================================================
