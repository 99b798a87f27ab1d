------------------------------ MODULE WorkPool ------------------------------
(***************************************************************************)
(* rai::work_pool: threads that search proof of work for the first of the  *)
(* pending requests, all for the same one.  The thread that finds a        *)
(* solution takes the request off the list and moves the ticket on, which  *)
(* tells the others to stop.  What a thread does from lock to unlock is    *)
(* one step.                                                               *)
(*                                                                         *)
(* The list is given by the place of each request in it.  A search ends    *)
(* because of luck or of the ticket; no solution is computed here.         *)
(*                                                                         *)
(* CancelQuiet is the definition that follows it with a mistake in it.     *)
(* Nothing uses it.                                                        *)
(***************************************************************************)
EXTENDS Naturals

CONSTANTS
    Request,    \* calls of generate
    Root,       \* what work is for
    RootOf,     \* request -> root
    Throwing,   \* requests whose callback cannot take a cancellation
    NoRequest,  \* what a thread works on when it works on nothing
    WorkThread, \* the threads that a pool may have
    MaxTicket   \* bound on the ticket; an int, so 2^32 in the code

ASSUME WorkPoolAssumption ==
    /\ RootOf \in [Request -> Root]
    /\ Throwing \subseteq Request
    /\ NoRequest \notin Request
    /\ MaxTicket \in Nat

VARIABLES
    place,      \* request -> its place in pending, 0 when it is not there
    pushed,     \* the last place given
    ticket,
    done,
    worker,     \* thread -> what it does, with which request and ticket
    asked,      \* the requests made so far
    calls       \* request -> how often its callback was called

pool == <<place, pushed, ticket, done, worker, asked, calls>>

Pending == {r \in Request : place[r] > 0}

Front(r) == r \in Pending /\ \A s \in Pending : place[r] <= place[s]

Stage(t, stage) == worker[t].stage = stage
Without(stage) == [stage |-> stage, request |-> NoRequest, ticket |-> 0]
To(t, stage) == worker' = [worker EXCEPT ![t] = Without(stage)]

(* producer_condition.notify_all *)
Notify ==
    worker' = [t \in WorkThread |-> IF Stage(t, "asleep") THEN Without("loop") ELSE worker[t]]

-----------------------------------------------------------------------------

(* work_pool::generate *)
Generate(r) ==
    /\ r \notin asked
    /\ asked' = asked \cup {r}
    /\ pushed' = pushed + 1
    /\ place' = [place EXCEPT ![r] = pushed + 1]
    /\ Notify
    /\ UNCHANGED <<ticket, done, calls>>

(* The same when an OpenCL device gives the answer. *)
GenerateDevice(r) ==
    /\ r \notin asked
    /\ asked' = asked \cup {r}
    /\ calls' = [calls EXCEPT ![r] = @ + 1]
    /\ UNCHANGED <<place, pushed, ticket, done, worker>>

(* The requests that cancel takes off the list: those for the root, up to  *)
(* the first whose callback throws.  The exception leaves the rest, that   *)
(* one included, on the list.                                              *)
Cancelled(root) ==
    {r \in Pending : RootOf[r] = root /\
        \A s \in Pending \cap Throwing : RootOf[s] = root => place[r] < place[s]}

CancelQuiet(root) ==
    /\ \E r \in Pending : RootOf[r] = root
    /\ place' = [r \in Request |-> IF r \in Cancelled(root) THEN 0 ELSE place[r]]
    /\ calls' = [r \in Request |-> IF r \in Cancelled(root) THEN calls[r] + 1 ELSE calls[r]]
    /\ UNCHANGED <<pushed, ticket, done, worker, asked>>

(* work_pool::cancel *)
Cancel(root) ==
    /\ \E r \in Pending : RootOf[r] = root
    /\ IF \E r \in Pending : Front(r) /\ RootOf[r] = root
       THEN ticket < MaxTicket /\ ticket' = ticket + 1
       ELSE UNCHANGED ticket
    /\ place' = [r \in Request |-> IF r \in Cancelled(root) THEN 0 ELSE place[r]]
    /\ calls' = [r \in Request |-> IF r \in Cancelled(root) THEN calls[r] + 1 ELSE calls[r]]
    /\ UNCHANGED <<pushed, done, worker, asked>>

(* work_pool::stop *)
Stop ==
    /\ ~done
    /\ done' = TRUE
    /\ Notify
    /\ UNCHANGED <<place, pushed, ticket, asked, calls>>

-----------------------------------------------------------------------------
(* work_pool::loop, in thread t *)

Take(t) ==
    /\ Stage(t, "loop")
    /\ \E r \in Pending :
        /\ Front(r)
        /\ worker' = [worker EXCEPT ![t] =
               [stage |-> "search", request |-> r, ticket |-> ticket]]
    /\ UNCHANGED <<place, pushed, ticket, done, asked, calls>>

Wait(t) ==
    /\ Stage(t, "loop")
    /\ Pending = {}
    /\ ~done
    /\ To(t, "asleep")
    /\ UNCHANGED <<place, pushed, ticket, done, asked, calls>>

Exit(t) ==
    /\ Stage(t, "loop")
    /\ Pending = {}
    /\ done
    /\ To(t, "gone")
    /\ UNCHANGED <<place, pushed, ticket, done, asked, calls>>

(* The thread found a solution before anyone else moved the ticket on: the *)
(* front of the list is its request.                                       *)
Finish(t) ==
    /\ Stage(t, "search")
    /\ worker[t].ticket = ticket
    /\ ticket' = ticket + 1
    /\ \E r \in Pending :
        /\ Front(r)
        /\ place' = [place EXCEPT ![r] = 0]
    /\ worker' = [worker EXCEPT ![t].stage = "answer"]
    /\ UNCHANGED <<pushed, done, asked, calls>>

(* The ticket moved on. *)
Discard(t) ==
    /\ Stage(t, "search")
    /\ worker[t].ticket # ticket
    /\ To(t, "loop")
    /\ UNCHANGED <<place, pushed, ticket, done, asked, calls>>

(* The callback of the request that the thread took runs without the lock. *)
Answer(t) ==
    /\ Stage(t, "answer")
    /\ calls' = [calls EXCEPT ![worker[t].request] = @ + 1]
    /\ To(t, "loop")
    /\ UNCHANGED <<place, pushed, ticket, done, asked>>

Work(t) == Take(t) \/ Wait(t) \/ Exit(t) \/ Finish(t) \/ Discard(t) \/ Answer(t)

-----------------------------------------------------------------------------

(* work_pool::work_pool: the pool has some of the threads. *)
PoolInit(threads) ==
    /\ place = [r \in Request |-> 0]
    /\ pushed = 0
    /\ ticket = 0
    /\ done = FALSE
    /\ worker = [t \in WorkThread |-> Without(IF t \in threads THEN "loop" ELSE "gone")]
    /\ asked = {}
    /\ calls = [r \in Request |-> 0]

PoolNext ==
    \/ \E r \in Request : Generate(r) \/ GenerateDevice(r)
    \/ \E root \in Root : Cancel(root)
    \/ Stop
    \/ \E t \in WorkThread : Work(t)

PoolSpec == (\E threads \in SUBSET WorkThread : PoolInit(threads)) /\ [][PoolNext]_pool

-----------------------------------------------------------------------------

(* Whatever the threads and cancellations do at the same time, the         *)
(* callback of a request is called at most once: no work arrives after a   *)
(* cancellation, and no two threads answer the same request.  With         *)
(* DistributedWork: nor do a peer and the pool, or two peers               *)
(* (work_generate_blocking would set its promise twice).                   *)
AnsweredOnce == \A r \in Request : calls[r] <= 1

(* A request is never lost: it is on the list, its work is about to be     *)
(* handed out, or its callback was called.  The thread that pops the front *)
(* of the list pops the request it answers.                                *)
NoneLost ==
    \A r \in asked :
        \/ place[r] > 0
        \/ \E t \in WorkThread : Stage(t, "answer") /\ worker[t].request = r
        \/ calls[r] > 0

=============================================================================
