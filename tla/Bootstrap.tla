----------------------------- MODULE Bootstrap ------------------------------
(***************************************************************************)
(* rai::bootstrap_initiator and the rai::bootstrap_attempt it runs: one    *)
(* thread asks a peer for its frontiers, pulls what is missing over many   *)
(* connections and pushes what the peer lacks, while callbacks of the io   *)
(* service connect, deliver, fail and end, the alarm makes connections,    *)
(* and others stop the attempt to start one of their own.                  *)
(*                                                                         *)
(* Here a pull ends complete or not; Sync has what is pulled.  Which       *)
(* connections are slow, fail or time out is left open.  A step is what    *)
(* happens under the attempt's mutex.                                      *)
(*                                                                         *)
(* TryAgainForgets, HandPullKeeps, WokenNone and StopQuietly are the       *)
(* definitions that follow them with a mistake in them.  Nothing uses      *)
(* them.                                                                   *)
(***************************************************************************)
EXTENDS Naturals, FiniteSets, Sequences, Functions

CONSTANTS
    Conn,       \* bootstrap_client objects; the name of one that is gone is used again
    NoConn,
    Pull,       \* what can be pulled
    Fork,       \* the pulls that a resolved fork asks for
    RetryLimit, \* bootstrap_frontier_retry_limit, 16 in the code
    MaxLeaving, \* bound: bulk_pull_clients in the middle of their destructor
    Caller      \* threads that call bootstrap with an endpoint, once each

ASSUME BootstrapAssumption ==
    /\ Conn # {} /\ NoConn \notin Conn
    /\ Fork \subseteq Pull
    /\ RetryLimit \in Nat \ {0, 1}
    /\ MaxLeaving \in Nat \ {0}

(* The attempt *)
VARIABLES
    stopped,    \* bootstrap_attempt::stopped
    connecting, \* connections on the way
    idle,       \* connections to use, front first
    request,    \* connection_frontier_request, a weak pointer
    asking,     \* whether the frontier_req_client exists
    pushing,    \* whether the bulk_push_client has a callback to come
    promise,    \* their promises: "none", "ok" or "failed" (broken included)
    pulls,      \* the pulls to do, front first
    handed,     \* pull -> the connection it was handed to a background thread with
    client,     \* pull -> the connection of its bulk_pull_client
    leaving,    \* how many bulk_pull_clients are gone and still counted in pulling
    attempts,   \* pull -> pull_info::attempts
    populating  \* whether the alarm will call populate_connections

(* The initiator and those who call it *)
VARIABLES
    at,         \* where the initiator's thread is
    sleep,      \* its wait for the attempt's condition: "no", "falling" (it has decided to and
                \* still holds the mutex) or "asleep"
    current,    \* whether the initiator has an attempt
    closed,     \* bootstrap_initiator::stopped
    caller      \* caller -> "new", "wait", "woken" or "served"

(* What happened to the pulls of this attempt *)
VARIABLES
    open,       \* those asked for that are neither complete nor given up
    requests,   \* pull -> how often it was requested
    dropped     \* those given up

connections == <<connecting, idle, populating>>
clients == <<request, asking, pushing, promise>>
work == <<pulls, handed, client, leaving, attempts, open, requests, dropped>>
attempt == <<stopped, connections, clients, work>>
initiator == <<current, closed, caller>>
vars == <<attempt, at, sleep, initiator>>

-----------------------------------------------------------------------------
(* Whether the attempt's mutex is free *)
Free == sleep # "falling"

(* condition.notify_all of the attempt *)
Notify == sleep' = IF sleep = "asleep" THEN "no" ELSE sleep

(* The connections that are referred to: run keeps the one it waits for. *)
Alive ==
    UNION {connecting, Range(idle), (Range(handed) \cup Range(client)) \ {NoConn},
           IF asking \/ pushing \/ at \in {"future", "pushing"} THEN {request} ELSE {}}

Pulling == Cardinality({p \in Pull : client[p] # NoConn}) + leaving

StillPulling == ~stopped /\ (pulls # <<>> \/ Pulling > 0)

(* promise.set_value where there is no value yet; otherwise it throws. *)
SetPromise(kinds, value) ==
    promise' = [k \in DOMAIN promise |->
                    IF k \in kinds /\ promise[k] = "none" THEN value ELSE promise[k]]

-----------------------------------------------------------------------------
(* Connections *)

(* populate_connections tries some peers, or without any ends the attempt. *)
(* For that it does not take the mutex.  It calls itself until stopped.    *)
PopulateConnections ==
    \/ /\ Free
       /\ \E new \in SUBSET (Conn \ Alive) :
            /\ connecting' = connecting \cup new
            /\ request' = IF request \in new THEN NoConn ELSE request
       /\ populating' = ~stopped
       /\ UNCHANGED <<stopped, sleep>>
    \/ /\ Alive = {}
       /\ stopped' = TRUE
       /\ populating' = FALSE
       /\ Notify
       /\ UNCHANGED <<connecting, request>>

PopulateAlarm ==
    /\ populating
    /\ PopulateConnections
    /\ UNCHANGED <<idle, asking, pushing, promise, work, at, initiator>>

PoolConnection(c) == idle' = <<c>> \o idle /\ Notify

(* bootstrap_client::run *)
Connected(c) ==
    /\ Free
    /\ c \in connecting
    /\ connecting' = connecting \ {c}
    /\ \/ PoolConnection(c)
       \/ UNCHANGED <<idle, sleep>>
    /\ UNCHANGED <<populating, stopped, clients, work, at, initiator>>

-----------------------------------------------------------------------------
(* The frontier_req_client *)

(* A frontier asks for a pull; add_pull. *)
ReceivedFrontier(p) ==
    /\ asking
    /\ Free
    /\ p \notin open \cup Fork
    /\ pulls' = Append(pulls, p)
    /\ attempts' = [attempts EXCEPT ![p] = 0]
    /\ requests' = [requests EXCEPT ![p] = 0]
    /\ open' = open \cup {p}
    /\ dropped' = dropped \ {p}
    /\ Notify
    /\ UNCHANGED <<handed, client, leaving, connections, stopped, clients, at, initiator>>

(* The last frontier *)
FrontiersEnd ==
    /\ asking
    /\ Free
    /\ asking' = FALSE
    /\ SetPromise({"frontier"}, "ok")
    /\ PoolConnection(request)
    /\ UNCHANGED <<connecting, populating, request, pushing, stopped, work, at, initiator>>

(* Too slow, where what set_value throws is not caught; or an error, and   *)
(* the promise goes with the client.                                       *)
FrontiersFail ==
    /\ asking
    /\ asking' = FALSE
    /\ SetPromise({"frontier"}, "failed")
    /\ UNCHANGED <<connections, request, pushing, stopped, work, at, sleep, initiator>>

-----------------------------------------------------------------------------
(* The bulk_pull_clients *)

TryAgainForgets(p) ==
    /\ attempts[p] + 1 < RetryLimit
    /\ pulls' = <<p>> \o pulls
    /\ Notify
    /\ UNCHANGED <<attempts, handed, dropped>>

(* requeue_pull: another try, ... *)
TryAgain(p) ==
    /\ attempts[p] + 1 < RetryLimit
    /\ attempts' = [attempts EXCEPT ![p] = @ + 1]
    /\ pulls' = <<p>> \o pulls
    /\ Notify
    /\ UNCHANGED <<handed, dropped>>

(* ... a last one over the frontier connection if it exists, or none *)
TryLast(p) ==
    /\ attempts[p] + 1 >= RetryLimit
    /\ attempts' = [attempts EXCEPT ![p] = RetryLimit + 1]
    /\ IF attempts[p] + 1 = RetryLimit /\ request \in Alive
       THEN handed' = [handed EXCEPT ![p] = request] /\ UNCHANGED dropped
       ELSE dropped' = dropped \cup {p} /\ UNCHANGED handed
    /\ UNCHANGED <<pulls, sleep>>

(* The background thread makes the client and sends the request. *)
Background(p) ==
    /\ handed[p] # NoConn
    /\ Free
    /\ client' = [client EXCEPT ![p] = handed[p]]
    /\ handed' = [handed EXCEPT ![p] = NoConn]
    /\ requests' = [requests EXCEPT ![p] = @ + 1]
    /\ Notify
    /\ UNCHANGED <<pulls, leaving, attempts, open, dropped, connections, stopped, clients, at,
                   initiator>>

(* The last block or an error, and the destructor's requeue.  A fork's     *)
(* pull expects its end from the start: it counts as complete however it   *)
(* ends, unless the peer sends that end, and then it never is.             *)
PullEnds(p) ==
    /\ client[p] # NoConn
    /\ leaving < MaxLeaving
    /\ Free
    /\ \/ /\ p \in Fork => requests[p] = 1
          /\ PoolConnection(client[p]) \/ UNCHANGED <<idle, sleep>>
          /\ open' = open \ {p}
          /\ UNCHANGED <<pulls, handed, attempts, dropped>>
       \/ /\ TryAgain(p) \/ TryLast(p)
          /\ open' = open \ dropped'
          /\ UNCHANGED idle
    /\ client' = [client EXCEPT ![p] = NoConn]
    /\ leaving' = leaving + 1
    /\ UNCHANGED <<requests, connecting, populating, stopped, clients, at, initiator>>

(* The rest of the destructor *)
PullLeaves ==
    /\ leaving > 0
    /\ Free
    /\ leaving' = leaving - 1
    /\ Notify
    /\ UNCHANGED <<pulls, handed, client, attempts, open, requests, dropped, connections, stopped,
                   clients, at, initiator>>

(* node::process_fork, when the election is confirmed; once an attempt *)
ForkResolved(p) ==
    /\ current
    /\ Free
    /\ p \in Fork \ open
    /\ attempts[p] = 0
    /\ TryAgain(p)
    /\ open' = open \cup {p}
    /\ UNCHANGED <<client, leaving, requests, connections, stopped, clients, at, initiator>>

-----------------------------------------------------------------------------
(* bootstrap_attempt::run, in the initiator's thread *)

(* bootstrap_attempt::connection: wait ... *)
Waits(waiting) ==
    /\ ~stopped
    /\ idle = <<>>
    /\ sleep' = "falling"
    /\ at' = waiting
    /\ UNCHANGED attempt

(* ... or go on with connection c, which is none when the attempt stops. *)
Gets(c) ==
    \/ /\ idle # <<>>
       /\ c = idle[Len(idle)]
       /\ idle' = SubSeq(idle, 1, Len(idle) - 1)
       /\ UNCHANGED <<sleep, stopped, connecting, populating>>
    \/ /\ stopped
       /\ idle = <<>>
       /\ c = NoConn
       /\ UNCHANGED <<sleep, stopped, connections>>

Fall ==
    /\ sleep = "falling"
    /\ sleep' = "asleep"
    /\ UNCHANGED <<attempt, at, initiator>>

(* request_frontier *)
AskFrontiers(c) ==
    /\ request' = c
    /\ IF c = NoConn
       THEN at' = "frontier" /\ UNCHANGED <<asking, promise>>
       ELSE at' = "future" /\ asking' = TRUE /\ promise' = [promise EXCEPT !.frontier = "none"]
    /\ UNCHANGED <<pushing, work>>

RequestFrontier ==
    /\ at \in {"frontier", "fconn"}
    /\ at = "frontier" => ~stopped
    /\ Waits("fconn") \/ \E c \in Conn \cup {NoConn} : Gets(c) /\ AskFrontiers(c)

Shuffle ==
    \E f \in Bijection(DOMAIN pulls, DOMAIN pulls) : pulls' = [i \in DOMAIN pulls |-> pulls[f[i]]]

(* The rest of request_frontier, and of the loop around it *)
FrontiersOver ==
    /\ \/ /\ at = "future"
          /\ promise.frontier = "failed"
          /\ pulls' = <<>>
          /\ open' = open \ Range(pulls)
          /\ at' = "frontier"
       \/ /\ \/ at = "future" /\ promise.frontier = "ok"
             \/ at = "frontier" /\ stopped
          /\ Shuffle
          /\ at' = "pulls"
          /\ UNCHANGED open
    /\ UNCHANGED <<handed, client, leaving, attempts, requests, dropped, stopped, connections,
                   clients, sleep>>

HandPullKeeps(c) ==
    /\ at' = "inner"
    /\ handed' = IF c = NoConn THEN handed ELSE [handed EXCEPT ![Head(pulls)] = c]
    /\ UNCHANGED <<pulls, client, leaving, attempts, open, requests, dropped, clients>>

(* request_pull *)
HandPull(c) ==
    /\ at' = "inner"
    /\ IF c = NoConn
       THEN UNCHANGED <<pulls, handed>>
       ELSE pulls' = Tail(pulls) /\ handed' = [handed EXCEPT ![Head(pulls)] = c]
    /\ UNCHANGED <<client, leaving, attempts, open, requests, dropped, clients>>

(* The inner loop.  While the block processor is full it waits 15 seconds. *)
PullLoop ==
    \/ /\ \/ at = "inner" /\ StillPulling /\ pulls # <<>>
          \/ at = "pconn"
       /\ Waits("pconn") \/ \E c \in Conn \cup {NoConn} : Gets(c) /\ HandPull(c)
    \/ /\ at = "inner"
       /\ StillPulling
       /\ pulls = <<>>
       /\ sleep' = "falling"
       /\ UNCHANGED <<attempt, at>>
    \/ /\ at = "inner"
       /\ ~StillPulling
       /\ at' = "flush"
       /\ UNCHANGED <<attempt, sleep>>

Flushed ==
    /\ at = "flush"
    /\ at' = "pulls"
    /\ UNCHANGED <<attempt, sleep>>

(* The end of run *)
RunEnds ==
    /\ stopped' = TRUE
    /\ idle' = <<>>
    /\ at' = "over"
    /\ UNCHANGED <<connecting, populating, sleep, work>>

(* The outer loop, and request_push *)
Pulls ==
    /\ at = "pulls"
    /\ \/ /\ StillPulling
          /\ at' = "inner"
          /\ UNCHANGED <<attempt, sleep>>
       \/ /\ ~StillPulling
          /\ request \in Alive
          /\ pushing' = TRUE
          /\ promise' = [promise EXCEPT !.push = "none"]
          /\ at' = "pushing"
          /\ UNCHANGED <<stopped, connections, request, asking, work, sleep>>
       \/ /\ ~StillPulling
          /\ request \notin Alive
          /\ RunEnds
          /\ UNCHANGED clients

(* The bulk_push_client is done, or a write fails and that is all. *)
PushEnds ==
    /\ pushing
    /\ pushing' = FALSE
    /\ SetPromise({"push"}, "ok") \/ UNCHANGED promise
    /\ UNCHANGED <<request, asking, stopped, connections, work, at, sleep, initiator>>

Pushed ==
    /\ at = "pushing"
    /\ promise.push # "none"
    /\ RunEnds
    /\ UNCHANGED clients

-----------------------------------------------------------------------------
(* The initiator *)

WokenNone == caller

(* notify_all of the initiator's condition *)
Woken == [x \in Caller |-> IF caller[x] = "wait" THEN "woken" ELSE caller[x]]

(* run_bootstrap *)
Start ==
    /\ at = "idle"
    /\ current
    /\ ~closed
    /\ PopulateConnections
    /\ at' = "frontier"
    /\ UNCHANGED <<idle, asking, pushing, promise, work>>

(* attempt = nullptr.  Callbacks may keep the attempt; it is followed no   *)
(* longer, as nothing of it reaches the next one.                          *)
Over ==
    /\ at = "over"
    /\ at' = "idle"
    /\ current' = FALSE
    /\ caller' = Woken
    /\ stopped' = FALSE
    /\ connecting' = {}
    /\ populating' = FALSE
    /\ request' = NoConn
    /\ asking' = FALSE
    /\ pushing' = FALSE
    /\ promise' = [frontier |-> "none", push |-> "none"]
    /\ pulls' = <<>>
    /\ handed' = [p \in Pull |-> NoConn]
    /\ client' = [p \in Pull |-> NoConn]
    /\ leaving' = 0
    /\ attempts' = [p \in Pull |-> 0]
    /\ open' = {}
    /\ requests' = [p \in Pull |-> 0]
    /\ dropped' = {}
    /\ idle' = <<>>
    /\ UNCHANGED <<sleep, closed>>

Exit ==
    /\ at = "idle"
    /\ closed
    /\ at' = "ended"
    /\ UNCHANGED <<attempt, sleep>>

Run ==
    \/ Fall
    \/ Over
    \/ /\ sleep = "no"
       /\ RequestFrontier \/ FrontiersOver \/ PullLoop \/ Flushed \/ Pulls \/ Pushed \/ Start \/ Exit
       /\ UNCHANGED initiator

NewAttempt(given) ==
    /\ current' = TRUE
    /\ connecting' = given
    /\ UNCHANGED <<stopped, idle, populating, clients, work>>

StopQuietly ==
    /\ Free
    /\ stopped' = TRUE
    /\ SetPromise({k \in {"frontier"} : asking} \cup {k \in {"push"} : at = "pushing"}, "failed")
    /\ UNCHANGED <<sleep, connections, request, asking, pushing, work>>

(* bootstrap_attempt::stop.  The sockets it closes make callbacks fail,    *)
(* which they may do anyway.                                               *)
AttemptStop ==
    /\ Free
    /\ stopped' = TRUE
    /\ Notify
    /\ SetPromise({k \in {"frontier"} : asking} \cup {k \in {"push"} : at = "pushing"}, "failed")
    /\ UNCHANGED <<connections, request, asking, pushing, work>>

(* bootstrap () *)
Bootstrap ==
    /\ ~closed
    /\ ~current
    /\ NewAttempt({})
    /\ UNCHANGED <<at, sleep, closed, caller>>

(* bootstrap (endpoint): the call, and the loop around its wait *)
BootstrapTo(x) ==
    /\ \/ caller[x] = "new" /\ ~closed
       \/ caller[x] = "woken"
    /\ \/ /\ current
          /\ AttemptStop
          /\ caller' = [caller EXCEPT ![x] = "wait"]
          /\ UNCHANGED current
       \/ /\ ~current
          /\ NewAttempt({CHOOSE c \in Conn : TRUE})
          /\ caller' = [Woken EXCEPT ![x] = "served"]
          /\ UNCHANGED sleep
    /\ UNCHANGED <<at, closed>>

(* bootstrap_initiator::stop *)
Stop ==
    /\ closed' = TRUE
    /\ IF current THEN AttemptStop ELSE UNCHANGED <<attempt, sleep>>
    /\ caller' = Woken
    /\ UNCHANGED <<at, current>>

-----------------------------------------------------------------------------
Init ==
    /\ stopped = FALSE
    /\ connecting = {}
    /\ idle = <<>>
    /\ populating = FALSE
    /\ request = NoConn
    /\ asking = FALSE
    /\ pushing = FALSE
    /\ promise = [frontier |-> "none", push |-> "none"]
    /\ pulls = <<>>
    /\ handed = [p \in Pull |-> NoConn]
    /\ client = [p \in Pull |-> NoConn]
    /\ leaving = 0
    /\ attempts = [p \in Pull |-> 0]
    /\ open = {}
    /\ requests = [p \in Pull |-> 0]
    /\ dropped = {}
    /\ at = "idle"
    /\ sleep = "no"
    /\ current = FALSE
    /\ closed = FALSE
    /\ caller = [x \in Caller |-> "new"]

Next ==
    \/ Run
    \/ PopulateAlarm
    \/ \E c \in Conn : Connected(c)
    \/ FrontiersEnd \/ FrontiersFail
    \/ \E p \in Pull : ReceivedFrontier(p) \/ Background(p) \/ PullEnds(p) \/ ForkResolved(p)
    \/ PullLeaves
    \/ PushEnds
    \/ Bootstrap
    \/ \E x \in Caller : BootstrapTo(x)
    \/ Stop

(* Threads run; every operation on a socket ends, by its timeout if need   *)
(* be; attempts of others do not come between a waiting caller and its own *)
(* for ever.                                                               *)
Fairness ==
    /\ WF_vars(Run)
    /\ WF_vars(FrontiersEnd \/ FrontiersFail)
    /\ WF_vars(PushEnds)
    /\ \A x \in Caller :
        /\ SF_vars(caller[x] = "woken" /\ BootstrapTo(x))
        /\ SF_vars(caller[x] = "woken" /\ ~current /\ BootstrapTo(x))

Spec == Init /\ [][Next]_vars /\ Fairness

-----------------------------------------------------------------------------
Places(p) ==
    Cardinality({i \in DOMAIN pulls : pulls[i] = p})
        + Cardinality({i \in 1 .. 2 : <<handed, client>>[i][p] # NoConn})

(* A pull that is neither complete nor given up is in one place: in the    *)
(* queue, on its way to a background thread, or with one client.  No other *)
(* pull is anywhere.  None is lost, and no two clients ask for the same,   *)
(* whatever connections end in between.  What counts as complete is what   *)
(* the code takes for it: a fork's pull may end so by an error.            *)
PullsAccounted == \A p \in Pull : Places(p) = IF p \in open THEN 1 ELSE 0

(* process_fork hands a fork's pull to requeue_pull, which counts that. *)
Tries(p) == requests[p] + (IF p \in Fork THEN 1 ELSE 0)

(* A pull is given up after RetryLimit tries, or one more over the         *)
(* frontier connection, and it is not requested again.  The resolved fork  *)
(* is the first try of its pull, which is requested once less.             *)
RetriesBounded ==
    \A p \in Pull :
        /\ Tries(p) <= RetryLimit + 1
        /\ p \in dropped => Tries(p) >= RetryLimit

(* The push failed and its promise stays empty: run has the client. *)
PushHangs == at = "pushing" /\ ~pushing /\ promise.push = "none"

(* A caller of bootstrap with an endpoint gets its attempt, unless the     *)
(* initiator is stopped; the attempt before that was stopped for it stays  *)
(* only in a push that has failed.                                         *)
CallerServed ==
    \A x \in Caller : caller[x] = "wait" ~> (caller[x] = "served" \/ closed \/ PushHangs)

(* After stop the initiator's thread ends, so that its destructor returns, *)
(* with the same exception.                                                *)
ThreadEnds == closed ~> (at = "ended" \/ PushHangs)

=============================================================================
