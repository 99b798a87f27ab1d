--------------------------- MODULE ThreadsProofs ----------------------------
(***************************************************************************)
(* The two objects that the threads of a node share, each under its own    *)
(* lock.  rai::work_pool answers every request once, for any number of     *)
(* threads and requests and any cancellations.  The caches of              *)
(* rai::block_store lose nothing that the tables do not have yet, for any  *)
(* transactions and any flush between them.                                *)
(***************************************************************************)
EXTENDS WorkPool, StoreCaches, TLAPS

-----------------------------------------------------------------------------
(* The work pool *)

PoolTypeOK ==
    /\ place \in [Request -> Nat]
    /\ pushed \in Nat
    /\ ticket \in Nat
    /\ done \in BOOLEAN
    /\ worker \in [WorkThread -> [stage : {"loop", "asleep", "search", "answer", "gone"},
                              request : Request \cup {NoRequest}, ticket : Nat]]
    /\ asked \subseteq Request
    /\ calls \in [Request -> Nat]

(* The list is in the order of the calls. *)
PlacesDiffer ==
    /\ \A r \in Request : place[r] <= pushed
    /\ \A r, s \in Pending : place[r] = place[s] => r = s

(* A request is in one place at a time. *)
RequestsLive ==
    \A r \in Request :
        /\ r \notin asked => place[r] = 0 /\ calls[r] = 0
        /\ calls[r] <= 1
        /\ calls[r] = 1 => place[r] = 0

(* A thread whose ticket is current works for the front of the list. *)
SearchesCurrent ==
    \A t \in WorkThread : Stage(t, "search") =>
        /\ worker[t].request \in Request
        /\ worker[t].ticket <= ticket
        /\ worker[t].ticket = ticket => Front(worker[t].request)

(* A request popped by a thread belongs to that thread alone. *)
AnswersOwned ==
    /\ \A t \in WorkThread : Stage(t, "answer") =>
        /\ worker[t].request \in asked
        /\ place[worker[t].request] = 0
        /\ calls[worker[t].request] = 0
    /\ \A t, u \in WorkThread :
        Stage(t, "answer") /\ Stage(u, "answer") /\ worker[t].request = worker[u].request
            => t = u

PoolInv ==
    /\ PoolTypeOK
    /\ PlacesDiffer
    /\ RequestsLive
    /\ SearchesCurrent
    /\ AnswersOwned
    /\ NoneLost

-----------------------------------------------------------------------------

LEMMA PoolInitInv == ASSUME NEW threads \in SUBSET WorkThread, PoolInit(threads) PROVE PoolInv
<1> USE WorkPoolAssumption DEF PoolInit, Pending, Without
<1>1. PoolTypeOK
  BY Zenon DEF PoolTypeOK
<1>2. \A t \in WorkThread : ~Stage(t, "search") /\ ~Stage(t, "answer")
  BY Zenon DEF Stage
<1> QED
  BY <1>1, <1>2 DEF PoolInv, PlacesDiffer, RequestsLive, SearchesCurrent, AnswersOwned, NoneLost

(* generate puts its request behind all others. *)
LEMMA GenerateInv == ASSUME PoolInv, NEW r \in Request, Generate(r) PROVE PoolInv'
<1> USE WorkPoolAssumption DEF PoolInv
<1>1. PoolTypeOK'
  BY DEF PoolTypeOK, Generate, Notify, Without
<1>2. /\ place[r] = 0
      /\ \A s \in Request : place'[s] = IF s = r THEN pushed + 1 ELSE place[s]
  BY Zenon DEF PoolTypeOK, RequestsLive, Generate
<1>3. PlacesDiffer'
  BY <1>1, <1>2 DEF PoolTypeOK, PlacesDiffer, Pending, Generate
<1>4. RequestsLive'
  BY <1>2 DEF PoolTypeOK, RequestsLive, Generate
<1>5. ASSUME NEW s \in Request, Front(s) PROVE Front(s)'
  BY <1>1, <1>2, <1>5 DEF PoolTypeOK, PlacesDiffer, Pending, Front, Generate
<1>6. \A t \in WorkThread :
        /\ (Stage(t, "search")' <=> Stage(t, "search"))
        /\ (Stage(t, "answer")' <=> Stage(t, "answer"))
        /\ Stage(t, "search") \/ Stage(t, "answer") => worker'[t] = worker[t]
  BY Zenon DEF PoolTypeOK, Generate, Notify, Stage, Without
<1>7. SearchesCurrent'
  BY Zenon, <1>5, <1>6 DEF SearchesCurrent, Generate
<1>8. AnswersOwned'
  BY <1>2, <1>6 DEF PoolTypeOK, AnswersOwned, Generate
<1>9. NoneLost'
  BY <1>1, <1>2, <1>6 DEF PoolTypeOK, NoneLost, Generate
<1> QED
  BY Zenon, <1>1, <1>3, <1>4, <1>7, <1>8, <1>9

LEMMA GenerateDeviceInv == ASSUME PoolInv, NEW r \in Request, GenerateDevice(r) PROVE PoolInv'
<1> USE WorkPoolAssumption DEF PoolInv, GenerateDevice
<1>1. PoolTypeOK'
  BY DEF PoolTypeOK
<1>2. PlacesDiffer'
  BY Zenon DEF PlacesDiffer, Pending
<1>3. RequestsLive'
  BY DEF PoolTypeOK, RequestsLive
<1>4. SearchesCurrent'
  BY Zenon DEF SearchesCurrent, Stage, Front, Pending
<1>5. AnswersOwned'
  BY Zenon DEF PoolTypeOK, AnswersOwned, Stage
<1>6. NoneLost'
  BY DEF PoolTypeOK, NoneLost, Stage
<1> QED
  BY Zenon, <1>1, <1>2, <1>3, <1>4, <1>5, <1>6

(* A cancellation of the front makes all tickets old; any other leaves the *)
(* front where it is.                                                      *)
LEMMA CancelInv == ASSUME PoolInv, NEW root \in Root, Cancel(root) PROVE PoolInv'
<1> USE WorkPoolAssumption DEF PoolInv
<1>1. PoolTypeOK'
  BY DEF PoolTypeOK, Cancel
<1>2. \A s \in Request :
        \/ s \in Cancelled(root) /\ place[s] > 0 /\ place'[s] = 0 /\ calls'[s] = calls[s] + 1
        \/ s \notin Cancelled(root) /\ place'[s] = place[s] /\ calls'[s] = calls[s]
  BY Zenon DEF PoolTypeOK, Cancel, Cancelled, Pending
<1>3. PlacesDiffer'
  BY <1>1, <1>2 DEF PoolTypeOK, PlacesDiffer, Pending, Cancel
<1>4. RequestsLive'
  BY <1>1, <1>2 DEF PoolTypeOK, RequestsLive, Cancel
<1>5. ticket <= ticket'
  BY DEF PoolTypeOK, Cancel
<1>6. ASSUME NEW s \in Request, Front(s), ticket' = ticket PROVE Front(s)'
  <2>1. RootOf[s] # root
    BY <1>6 DEF PoolTypeOK, Cancel, Front
  <2>2. s \in Pending'
    BY Zenon, <1>2, <1>6, <2>1 DEF PoolTypeOK, Front, Pending, Cancelled
  <2>3. \A u \in Pending' : u \in Pending /\ place'[u] = place[u]
    BY <1>1, <1>2 DEF PoolTypeOK, Pending
  <2> QED
    BY Zenon, <1>6, <2>2, <2>3 DEF Front
<1>7. SearchesCurrent'
  BY <1>5, <1>6 DEF PoolTypeOK, SearchesCurrent, Stage, Cancel
<1>8. AnswersOwned'
  BY <1>2 DEF PoolTypeOK, AnswersOwned, Stage, Cancel
<1>9. NoneLost'
  BY <1>1, <1>2 DEF PoolTypeOK, NoneLost, Stage, Cancel
<1> QED
  BY Zenon, <1>1, <1>3, <1>4, <1>7, <1>8, <1>9

LEMMA StopInv == ASSUME PoolInv, Stop PROVE PoolInv'
<1> USE WorkPoolAssumption DEF PoolInv
<1>1. PoolTypeOK'
  BY Zenon DEF PoolTypeOK, Stop, Notify, Without
<1>2. \A t \in WorkThread :
        /\ (Stage(t, "search")' <=> Stage(t, "search"))
        /\ (Stage(t, "answer")' <=> Stage(t, "answer"))
        /\ Stage(t, "search") \/ Stage(t, "answer") => worker'[t] = worker[t]
  BY Zenon DEF PoolTypeOK, Stop, Notify, Stage, Without
<1>3. UNCHANGED <<place, pushed, ticket, asked, calls>>
  BY Zenon DEF Stop
<1>4. PlacesDiffer' /\ RequestsLive'
  BY Zenon, <1>3 DEF PlacesDiffer, RequestsLive, Pending
<1>5. SearchesCurrent'
  BY Zenon, <1>2, <1>3 DEF SearchesCurrent, Front, Pending
<1>6. AnswersOwned'
  BY <1>2, <1>3 DEF AnswersOwned
<1>7. NoneLost'
  BY Zenon, <1>2, <1>3 DEF PoolTypeOK, NoneLost
<1> QED
  BY Zenon, <1>1, <1>4, <1>5, <1>6, <1>7

(* A thread takes the front of the list and the ticket of the moment. *)
LEMMA TakeInv == ASSUME PoolInv, NEW t \in WorkThread, Take(t) PROVE PoolInv'
<1> USE WorkPoolAssumption DEF PoolInv
<1>1. PICK r \in Pending : Front(r) /\ worker' = [worker EXCEPT ![t] =
          [stage |-> "search", request |-> r, ticket |-> ticket]]
  BY Zenon DEF Take
<1>2. UNCHANGED <<place, pushed, ticket, done, asked, calls>>
  BY Zenon DEF Take
<1>3. PoolTypeOK'
  BY Zenon, <1>1, <1>2 DEF PoolTypeOK, Pending
<1>4. PlacesDiffer' /\ RequestsLive'
  BY Zenon, <1>2 DEF PlacesDiffer, RequestsLive, Pending
<1>5. \A u \in WorkThread : u # t => worker'[u] = worker[u]
  BY Zenon, <1>1 DEF PoolTypeOK
<1>6. ~Stage(t, "answer") /\ ~Stage(t, "answer")'
  BY Zenon, <1>1 DEF PoolTypeOK, Take, Stage
<1>7. SearchesCurrent'
  <2>1. worker'[t].request = r /\ worker'[t].ticket = ticket
    BY Zenon, <1>1 DEF PoolTypeOK
  <2> QED
    BY <1>1, <1>2, <1>5, <2>1 DEF PoolTypeOK, SearchesCurrent, Stage, Front, Pending
<1>8. AnswersOwned'
  BY <1>2, <1>5, <1>6 DEF AnswersOwned, Stage
<1>9. NoneLost'
  BY <1>2, <1>5, <1>6 DEF PoolTypeOK, NoneLost, Stage
<1> QED
  BY Zenon, <1>3, <1>4, <1>7, <1>8, <1>9

(* A thread that gives up, sleeps or exits held nothing. *)
LEMMA LeaveInv ==
    ASSUME PoolInv, NEW t \in WorkThread, Wait(t) \/ Exit(t) \/ Discard(t)
    PROVE  PoolInv'
<1> USE WorkPoolAssumption DEF PoolInv
<1>1. PICK stage \in {"loop", "asleep", "gone"} : worker' = [worker EXCEPT ![t] = Without(stage)]
  BY Zenon DEF Wait, Exit, Discard, To
<1>2. UNCHANGED <<place, pushed, ticket, done, asked, calls>>
  BY Zenon DEF Wait, Exit, Discard
<1>3. PoolTypeOK'
  BY Zenon, <1>1, <1>2 DEF PoolTypeOK, Without
<1>4. PlacesDiffer' /\ RequestsLive'
  BY Zenon, <1>2 DEF PlacesDiffer, RequestsLive, Pending
<1>5. \A u \in WorkThread : u # t => worker'[u] = worker[u]
  BY Zenon, <1>1 DEF PoolTypeOK
<1>6. ~Stage(t, "answer") /\ ~Stage(t, "answer")' /\ ~Stage(t, "search")'
  BY Zenon, <1>1 DEF PoolTypeOK, Wait, Exit, Discard, Stage, Without
<1>7. SearchesCurrent'
  BY Zenon, <1>2, <1>5, <1>6 DEF SearchesCurrent, Stage, Front, Pending
<1>8. AnswersOwned'
  BY <1>2, <1>5, <1>6 DEF AnswersOwned, Stage
<1>9. NoneLost'
  BY <1>2, <1>5, <1>6 DEF PoolTypeOK, NoneLost, Stage
<1> QED
  BY Zenon, <1>3, <1>4, <1>7, <1>8, <1>9

(* The front that is popped is the thread's request, and all other         *)
(* searches become old.                                                    *)
LEMMA FinishInv == ASSUME PoolInv, NEW t \in WorkThread, Finish(t) PROVE PoolInv'
<1> USE WorkPoolAssumption DEF PoolInv
<1> DEFINE r == worker[t].request
<1>1. r \in Request /\ Front(r)
  BY Zenon DEF Finish, SearchesCurrent
<1>2. place' = [place EXCEPT ![r] = 0]
  <2>1. PICK f \in Pending : Front(f) /\ place' = [place EXCEPT ![f] = 0]
    BY Zenon DEF Finish
  <2>2. place[f] = place[r] /\ r \in Pending
    BY <1>1, <2>1 DEF PoolTypeOK, Front, Pending
  <2> QED
    BY Zenon, <2>1, <2>2 DEF PlacesDiffer
<1>3. /\ ticket' = ticket + 1
      /\ worker' = [worker EXCEPT ![t].stage = "answer"]
      /\ UNCHANGED <<pushed, done, asked, calls>>
  BY Zenon DEF Finish
<1>4. PoolTypeOK'
  BY <1>1, <1>2, <1>3 DEF PoolTypeOK
<1>5. PlacesDiffer' /\ RequestsLive'
  BY <1>1, <1>2, <1>3 DEF PoolTypeOK, PlacesDiffer, RequestsLive, Pending
<1>6. /\ \A u \in WorkThread : u # t => worker'[u] = worker[u]
      /\ worker'[t].request = r
      /\ Stage(t, "answer")' /\ ~Stage(t, "search")' /\ ~Stage(t, "answer")
  BY <1>3 DEF PoolTypeOK, Finish, Stage
<1>7. SearchesCurrent'
  BY <1>3, <1>6 DEF PoolTypeOK, SearchesCurrent, Stage
<1>8. r \in asked /\ place[r] > 0 /\ calls[r] = 0
  <2>1. place[r] > 0
    BY Zenon, <1>1 DEF Front, Pending
  <2> QED
    BY <1>1, <2>1 DEF PoolTypeOK, RequestsLive
<1>9. AnswersOwned'
  BY <1>1, <1>2, <1>3, <1>6, <1>8 DEF PoolTypeOK, AnswersOwned, Stage
<1>10. NoneLost'
  BY <1>1, <1>2, <1>3, <1>6 DEF PoolTypeOK, NoneLost, Stage
<1> QED
  BY Zenon, <1>4, <1>5, <1>7, <1>9, <1>10

LEMMA AnswerInv == ASSUME PoolInv, NEW t \in WorkThread, Answer(t) PROVE PoolInv'
<1> USE WorkPoolAssumption DEF PoolInv
<1> DEFINE r == worker[t].request
<1>1. r \in asked /\ r \in Request /\ place[r] = 0 /\ calls[r] = 0
  BY Zenon DEF PoolTypeOK, Answer, AnswersOwned
<1>2. /\ calls' = [calls EXCEPT ![r] = calls[r] + 1]
      /\ worker' = [worker EXCEPT ![t] = Without("loop")]
      /\ UNCHANGED <<place, pushed, ticket, done, asked>>
  BY Zenon DEF Answer, To
<1>3. PoolTypeOK'
  BY <1>1, <1>2 DEF PoolTypeOK, Without
<1>4. PlacesDiffer' /\ RequestsLive'
  BY <1>1, <1>2 DEF PoolTypeOK, PlacesDiffer, RequestsLive, Pending
<1>5. /\ \A u \in WorkThread : u # t => worker'[u] = worker[u]
      /\ ~Stage(t, "answer")' /\ ~Stage(t, "search")' /\ Stage(t, "answer")
  BY <1>2 DEF PoolTypeOK, Answer, Stage, Without
<1>6. SearchesCurrent'
  BY <1>2, <1>5 DEF SearchesCurrent, Stage, Front, Pending
<1>7. AnswersOwned'
  BY <1>1, <1>2, <1>5 DEF PoolTypeOK, AnswersOwned, Stage
<1>8. NoneLost'
  BY <1>1, <1>2, <1>5 DEF PoolTypeOK, NoneLost, Stage
<1> QED
  BY Zenon, <1>3, <1>4, <1>6, <1>7, <1>8

-----------------------------------------------------------------------------

(* A request is in one of four places, and only the thread with the        *)
(* current ticket may pop it: PoolInv, the inductive invariant.            *)
THEOREM PoolInvariant == PoolSpec => []PoolInv
<1>1. (\E threads \in SUBSET WorkThread : PoolInit(threads)) => PoolInv
  BY Zenon, PoolInitInv
<1>2. PoolInv /\ [PoolNext]_pool => PoolInv'
  <2> SUFFICES ASSUME PoolInv, [PoolNext]_pool PROVE PoolInv'
    BY Zenon
  <2>1. CASE UNCHANGED pool
    BY <2>1 DEF pool, PoolInv, PoolTypeOK, PlacesDiffer, RequestsLive, SearchesCurrent,
                AnswersOwned, NoneLost, Stage, Front, Pending
  <2>2. CASE \E r \in Request : Generate(r) \/ GenerateDevice(r)
    BY Zenon, <2>2, GenerateInv, GenerateDeviceInv
  <2>3. CASE \E root \in Root : Cancel(root)
    BY Zenon, <2>3, CancelInv
  <2>4. CASE Stop
    BY Zenon, <2>4, StopInv
  <2>5. CASE \E t \in WorkThread : Work(t)
    BY Zenon, <2>5, TakeInv, LeaveInv, FinishInv, AnswerInv DEF Work
  <2> QED
    BY Zenon, <2>1, <2>2, <2>3, <2>4, <2>5 DEF PoolNext
<1> QED
  BY <1>1, <1>2, PTL DEF PoolSpec

(* work_pool calls no callback twice, whatever the number of threads.      *)
THEOREM PoolAnswersOnce == PoolSpec => []AnsweredOnce
<1>1. PoolInv => AnsweredOnce
  BY Zenon DEF PoolInv, RequestsLive, AnsweredOnce
<1> QED
  BY <1>1, PoolInvariant, PTL

(* work_pool loses no request: pop_front takes the one that is answered.   *)
THEOREM PoolLosesNone == PoolSpec => []NoneLost
<1>1. PoolInv => NoneLost
  BY Zenon DEF PoolInv
<1> QED
  BY <1>1, PoolInvariant, PTL

-----------------------------------------------------------------------------
(* The store's caches *)

(* What holds of transactions and of a flush in progress: only a flush     *)
(* holds anything outside caches and tables, and a fresh transaction sees  *)
(* the committed votes.                                                    *)
FlushInv ==
    /\ writer # Flush => sequence_cache_l = None /\ unchecked_cache_l = {}
    /\ writer = Flush => fresh = {}
    /\ \A t \in fresh : snapshot[t] = vote

(* No number was generated, and no table is seen, that is above the        *)
(* highest.                                                                *)
AllBelow ==
    \A r \in Rep :
        /\ \A i \in 1 .. Len(issued[r]) : issued[r][i] <= highest[r]
        /\ vote[r] <= highest[r]
        /\ sequence_cache_l[r] <= highest[r]
        /\ \A t \in Thread : snapshot[t][r] <= highest[r]

(* The inductive invariant.                                                *)
CachesInv ==
    /\ TypeOK
    /\ FlushInv
    /\ AllBelow
    /\ KnownIsHighest
    /\ SequencesRise
    /\ UncheckedFoundOnce

(* None is a table.                                                        *)
LEMMA NoneType == None \in [Rep -> Nat]
  BY Zenon DEF None

(* Every step keeps the types.                                             *)
LEMMA TypeStep == ASSUME TypeOK, [Next]_vars PROVE TypeOK'
<1> USE NamesDiffer, NoneType DEF TypeOK, Pairs
<1>1. ASSUME NEW t \in Thread, NEW write \in BOOLEAN, Begin(t, write) PROVE TypeOK'
  BY Zenon, <1>1 DEF Begin, tables, caches, taken
<1>2. ASSUME NEW t \in Thread, Commit(t) PROVE TypeOK'
  BY Zenon, <1>2 DEF Commit, caches, taken
<1>3. ASSUME NEW t \in Thread, NEW r \in Rep, VoteGenerate(t, r) PROVE TypeOK'
  <2>1. vote_current(t, r) \in Nat
    BY DEF vote_current, vote_get
  <2>2. issued[r] \in Seq(Nat)
    BY Zenon
  <2>3. Append(issued[r], vote_current(t, r) + 1) \in Seq(Nat)
    BY <2>1, <2>2
  <2>4. issued' \in [Rep -> Seq(Nat)]
    BY Zenon, <1>3, <2>3 DEF VoteGenerate
  <2>5. lost' \in [Rep -> SUBSET Nat]
    BY <1>3 DEF VoteGenerate, Know, Lost, Known, vote_get
  <2> QED
    BY <1>3, <2>1, <2>4, <2>5 DEF VoteGenerate, Know, Larger, tables, transactions, taken
<1>4. ASSUME NEW t \in Thread, NEW r \in Rep, NEW n \in 1 .. MaxSequence, VoteMax(t, r, n)
      PROVE  TypeOK'
  <2>1. vote_current(t, r) \in Nat
    BY DEF vote_current, vote_get
  <2>2. lost' \in [Rep -> SUBSET Nat]
    BY <1>4 DEF VoteMax, Know, Lost, Known, vote_get
  <2> QED
    BY <1>4, <2>1, <2>2, BoundsAreNumbers DEF VoteMax, Know, Larger, tables, transactions, taken
<1>5. ASSUME NEW t \in Thread, NEW h \in Hash, NEW b \in Block, UncheckedPut(t, h, b)
      PROVE  TypeOK'
  BY <1>5 DEF UncheckedPut, tables, transactions, taken
<1>6. ASSUME NEW t \in Thread, NEW h \in Hash, QueueUnchecked(t, h) PROVE TypeOK'
  BY Zenon, <1>6 DEF QueueUnchecked, unchecked_del, tables, taken
<1>7. ASSUME NEW t \in Thread, UncheckedClear(t) PROVE TypeOK'
  BY Zenon, <1>7 DEF UncheckedClear, tables, caches, taken
<1>8. CASE FlushSwap
  BY Zenon, <1>8 DEF FlushSwap, tables
<1>9. CASE FlushCommit
  BY Zenon, <1>9 DEF FlushCommit, caches, history
<1>10. CASE Restart
  <2>1. lost' \in [Rep -> SUBSET Nat]
    BY <1>10 DEF Restart, Lost, Known
  <2> QED
    BY Zenon, <1>10, <2>1 DEF Restart, tables
<1>11. CASE UNCHANGED vars
  BY Zenon, <1>11 DEF vars, tables, caches, transactions, taken, history
<1>12. CASE \E t \in Thread : (\E write \in BOOLEAN : Begin(t, write)) \/ Commit(t) \/ UncheckedClear(t)
  <2>1. PICK t \in Thread : (\E write \in BOOLEAN : Begin(t, write)) \/ Commit(t) \/ UncheckedClear(t)
    BY Zenon, <1>12
  <2>2. CASE \E write \in BOOLEAN : Begin(t, write)
    BY Zenon, <1>1, <2>2
  <2> QED
    BY Zenon, <1>2, <1>7, <2>1, <2>2
<1>13. CASE \E t \in Thread, r \in Rep :
             VoteGenerate(t, r) \/ \E n \in 1 .. MaxSequence : VoteMax(t, r, n)
  BY Zenon, <1>3, <1>4, <1>13
<1>14. CASE \E t \in Thread, h \in Hash :
             (\E b \in Block : UncheckedPut(t, h, b)) \/ QueueUnchecked(t, h)
  BY Zenon, <1>5, <1>6, <1>14
<1> QED
  BY Zenon, <1>8, <1>9, <1>10, <1>11, <1>12, <1>13, <1>14 DEF Next

(* Only a flush takes from the caches, and only its commit changes the     *)
(* votes that fresh transactions see.                                      *)
LEMMA FlushStep == ASSUME TypeOK, FlushInv, [Next]_vars PROVE FlushInv'
<1> USE NamesDiffer DEF TypeOK, FlushInv
<1>1. ASSUME NEW t \in Thread, NEW write \in BOOLEAN, Begin(t, write) PROVE FlushInv'
  BY <1>1 DEF Begin, tables, caches, taken
<1>2. ASSUME NEW t \in Thread, Commit(t) PROVE FlushInv'
  BY Zenon, <1>2 DEF Commit, caches, taken
<1>3. ASSUME NEW t \in Thread, NEW r \in Rep, NEW n, NEW m, Know(t, r, n, m) PROVE FlushInv'
  BY Zenon, <1>3 DEF Know, tables, transactions, taken
<1>4. ASSUME NEW t \in Thread, NEW h \in Hash, NEW b \in Block, UncheckedPut(t, h, b)
      PROVE  FlushInv'
  BY Zenon, <1>4 DEF UncheckedPut, tables, transactions, taken
<1>5. ASSUME NEW t \in Thread, NEW h \in Hash, QueueUnchecked(t, h) PROVE FlushInv'
  BY Zenon, <1>5 DEF QueueUnchecked, unchecked_del, tables, taken
<1>6. ASSUME NEW t \in Thread, UncheckedClear(t) PROVE FlushInv'
  BY Zenon, <1>6 DEF UncheckedClear, tables, caches, taken
<1>7. CASE FlushSwap
  BY Zenon, <1>7 DEF FlushSwap, tables
<1>8. CASE FlushCommit
  BY Zenon, <1>8 DEF FlushCommit, caches, history
<1>9. CASE Restart
  BY Zenon, <1>9 DEF Restart, tables
<1>10. CASE UNCHANGED vars
  BY Zenon, <1>10 DEF vars, tables, caches, transactions, taken, history
<1> QED
  BY <1>1, <1>2, <1>3, <1>4, <1>5, <1>6, <1>7, <1>8, <1>9, <1>10
     DEF Next, VoteGenerate, VoteMax

(* The numbers that a call does not find are numbers that the store has    *)
(* forgotten, by the end of the call at the latest.                        *)
LEMMA CurrentOrLost ==
    ASSUME TypeOK, FlushInv, AllBelow, KnownIsHighest,
           NEW t \in Thread, NEW r \in Rep, t \in open,
           lost' = IF t \in fresh \/ vote_cache[r] # 0 THEN lost
                   ELSE [lost EXCEPT ![r] = Lost(r, vote_get(t, r))]
    PROVE  /\ vote_current(t, r) \in Nat /\ vote_current(t, r) <= highest[r]
           /\ vote_current(t, r) + 1 .. highest[r] \subseteq lost'[r]
           /\ \A q \in Rep : lost[q] \subseteq lost'[q]
<1>1. Known(r) \in Nat /\ highest[r] \in Nat /\ snapshot[t][r] \in Nat /\ vote_cache[r] \in Nat
  BY DEF TypeOK, Known
<1>2. Known(r) <= highest[r] /\ Known(r) + 1 .. highest[r] \subseteq lost[r]
  BY Zenon DEF KnownIsHighest
<1>3. CASE vote_cache[r] # 0
  <2>1. vote_current(t, r) = Known(r) /\ lost' = lost
    BY Zenon, <1>3 DEF vote_current, Known
  <2> QED
    BY Zenon, <1>1, <1>2, <2>1
<1>4. CASE vote_cache[r] = 0 /\ t \in fresh
  <2>1. writer # Flush /\ snapshot[t] = vote
    BY Zenon, <1>4 DEF FlushInv
  <2>2. sequence_cache_l[r] = 0
    BY Zenon, <2>1 DEF FlushInv, None
  <2>3. vote_current(t, r) = Known(r) /\ lost' = lost
    BY Zenon, <1>4, <2>1, <2>2 DEF vote_current, vote_get, Known
  <2> QED
    BY Zenon, <1>1, <1>2, <2>3
<1>5. CASE vote_cache[r] = 0 /\ t \notin fresh
  <2>1. vote_current(t, r) = snapshot[t][r] /\ lost' = [lost EXCEPT ![r] = Lost(r, snapshot[t][r])]
    BY Zenon, <1>5 DEF vote_current, vote_get
  <2>2. /\ lost'[r] = lost[r] \cup (snapshot[t][r] + 1 .. Known(r))
        /\ \A q \in Rep \ {r} : lost'[q] = lost[q]
    BY Zenon, <2>1 DEF TypeOK, Lost
  <2>3. snapshot[t][r] <= highest[r]
    BY Zenon DEF AllBelow
  <2>4. snapshot[t][r] + 1 .. highest[r] \subseteq lost'[r]
    BY <1>1, <1>2, <2>2
  <2> QED
    BY Zenon, <1>1, <2>1, <2>2, <2>3, <2>4
<1> QED
  BY Zenon, <1>3, <1>4, <1>5

(* The votes are left alone by every step that leaves these variables      *)
(* alone.                                                                  *)
LEMMA VotesSame ==
    ASSUME AllBelow, KnownIsHighest, SequencesRise,
           \A t \in Thread, r \in Rep : snapshot'[t][r] <= highest[r],
           UNCHANGED <<vote, vote_cache, sequence_cache_l, highest, issued, lost>>
    PROVE  AllBelow' /\ KnownIsHighest' /\ SequencesRise'
  BY Zenon DEF AllBelow, KnownIsHighest, Known, SequencesRise

(* A call goes on from the number it read or was given, whichever is       *)
(* higher, and the store knows the highest from then on, or has lost it.   *)
LEMMA KnowStep ==
    ASSUME TypeOK, FlushInv, AllBelow, KnownIsHighest,
           NEW t \in Thread, NEW r \in Rep, t \in open, NEW n \in Nat \ {0},
           Know(t, r, Larger(vote_current(t, r), n), n)
    PROVE  /\ KnownIsHighest'
           /\ highest[r] <= highest'[r] /\ n <= highest'[r]
           /\ \A q \in Rep \ {r} : highest'[q] = highest[q]
           /\ highest'[r] \in Nat
           /\ UNCHANGED <<vote, sequence_cache_l, snapshot>>
<1>1. /\ vote_cache' = [vote_cache EXCEPT ![r] = Larger(vote_current(t, r), n)]
      /\ highest' = [highest EXCEPT ![r] = Larger(highest[r], n)]
      /\ lost' = IF t \in fresh \/ vote_cache[r] # 0 THEN lost
                 ELSE [lost EXCEPT ![r] = Lost(r, vote_get(t, r))]
      /\ UNCHANGED <<vote, sequence_cache_l, snapshot>>
  BY Zenon DEF Know, tables, transactions, taken
<1>2. /\ vote_current(t, r) \in Nat /\ vote_current(t, r) <= highest[r]
      /\ vote_current(t, r) + 1 .. highest[r] \subseteq lost'[r]
      /\ \A q \in Rep : lost[q] \subseteq lost'[q]
  BY Zenon, <1>1, CurrentOrLost
<1>3. highest[r] \in Nat
  BY Zenon DEF TypeOK
<1>4. \A q \in Rep \ {r} : highest'[q] = highest[q] /\ vote_cache'[q] = vote_cache[q]
  BY Zenon, <1>1 DEF TypeOK
<1>5. highest'[r] = Larger(highest[r], n) /\ vote_cache'[r] = Larger(vote_current(t, r), n)
  BY Zenon, <1>1 DEF TypeOK
<1>6. /\ highest'[r] \in Nat /\ highest[r] <= highest'[r] /\ n <= highest'[r]
      /\ vote_cache'[r] \in Nat \ {0} /\ vote_cache'[r] <= highest'[r]
      /\ vote_cache'[r] + 1 .. highest'[r] \subseteq vote_current(t, r) + 1 .. highest[r]
  BY <1>2, <1>3, <1>5 DEF Larger
<1>7. Known(r)' = vote_cache'[r]
  BY <1>6 DEF Known
<1>8. Known(r)' <= highest'[r] /\ Known(r)' + 1 .. highest'[r] \subseteq lost'[r]
  BY Zenon, <1>2, <1>6, <1>7
<1>9. ASSUME NEW q \in Rep \ {r}
      PROVE  Known(q)' <= highest'[q] /\ Known(q)' + 1 .. highest'[q] \subseteq lost'[q]
  <2>1. Known(q)' = Known(q) /\ highest'[q] = highest[q]
    BY Zenon, <1>1, <1>4 DEF Known
  <2>2. Known(q) <= highest[q] /\ Known(q) + 1 .. highest[q] \subseteq lost[q]
    BY Zenon DEF KnownIsHighest
  <2> QED
    BY Zenon, <1>2, <2>1, <2>2
<1>10. KnownIsHighest'
  BY Zenon, <1>8, <1>9 DEF KnownIsHighest
<1> QED
  BY Zenon, <1>1, <1>4, <1>6, <1>10

(* What does not grow stays below what does.                               *)
LEMMA BelowStep ==
    ASSUME TypeOK, AllBelow, NEW r \in Rep,
           highest[r] <= highest'[r], highest'[r] \in Nat,
           \A q \in Rep \ {r} : highest'[q] = highest[q],
           UNCHANGED <<vote, sequence_cache_l, snapshot>>
    PROVE  /\ \A i \in 1 .. Len(issued[r]) : issued[r][i] <= highest'[r]
           /\ \A q \in Rep : /\ vote'[q] <= highest'[q]
                             /\ sequence_cache_l'[q] <= highest'[q]
                             /\ \A t \in Thread : snapshot'[t][q] <= highest'[q]
<1>1. /\ highest[r] \in Nat /\ vote[r] \in Nat /\ sequence_cache_l[r] \in Nat
      /\ \A t \in Thread : snapshot[t][r] \in Nat
      /\ issued[r] \in Seq(Nat)
  BY Zenon DEF TypeOK
<1>2. /\ vote[r] <= highest[r] /\ sequence_cache_l[r] <= highest[r]
      /\ \A t \in Thread : snapshot[t][r] <= highest[r]
      /\ \A i \in 1 .. Len(issued[r]) : issued[r][i] <= highest[r]
  BY Zenon DEF AllBelow
<1>3. \A i \in 1 .. Len(issued[r]) : issued[r][i] \in Nat
  BY <1>1
<1>4. \A m \in Nat : m <= highest[r] => m <= highest'[r]
  BY <1>1
<1>5. /\ vote[r] <= highest'[r] /\ sequence_cache_l[r] <= highest'[r]
      /\ \A t \in Thread : snapshot[t][r] <= highest'[r]
      /\ \A i \in 1 .. Len(issued[r]) : issued[r][i] <= highest'[r]
  BY Zenon, <1>1, <1>2, <1>3, <1>4
<1>6. \A q \in Rep \ {r} : /\ vote[q] <= highest'[q] /\ sequence_cache_l[q] <= highest'[q]
                           /\ \A t \in Thread : snapshot[t][q] <= highest'[q]
  BY Zenon DEF AllBelow
<1> QED
  BY Zenon, <1>5, <1>6

(* The number is the next one.                                             *)
LEMMA GenerateStep ==
    ASSUME TypeOK, FlushInv, AllBelow, KnownIsHighest, SequencesRise,
           NEW t \in Thread, NEW r \in Rep, VoteGenerate(t, r)
    PROVE  AllBelow' /\ KnownIsHighest' /\ SequencesRise'
<1> DEFINE n == vote_current(t, r) + 1
<1>1. /\ Know(t, r, n, n)
      /\ issued' = [issued EXCEPT ![r] = Append(issued[r], n)]
      /\ t \in open
  BY Zenon DEF VoteGenerate
<1>2. lost' = IF t \in fresh \/ vote_cache[r] # 0 THEN lost
              ELSE [lost EXCEPT ![r] = Lost(r, vote_get(t, r))]
  BY Zenon, <1>1 DEF Know
<1>3. /\ vote_current(t, r) \in Nat /\ vote_current(t, r) <= highest[r]
      /\ vote_current(t, r) + 1 .. highest[r] \subseteq lost'[r]
      /\ \A q \in Rep : lost[q] \subseteq lost'[q]
  BY Zenon, <1>1, <1>2, CurrentOrLost
<1>4. n \in Nat \ {0} /\ Larger(vote_current(t, r), n) = n
  BY <1>3 DEF Larger
<1>5. issued[r] \in Seq(Nat) /\ highest[r] \in Nat
  BY Zenon DEF TypeOK
<1>6. n <= highest[r] => n \in lost'[r]
  BY <1>3, <1>5
<1> HIDE DEF n
<1>7. /\ KnownIsHighest'
      /\ highest[r] <= highest'[r] /\ n <= highest'[r]
      /\ \A q \in Rep \ {r} : highest'[q] = highest[q]
      /\ highest'[r] \in Nat
      /\ UNCHANGED <<vote, sequence_cache_l, snapshot>>
  BY Zenon, <1>1, <1>4, KnowStep
<1>8. /\ Len(issued'[r]) = Len(issued[r]) + 1
      /\ \A i \in 1 .. Len(issued[r]) : issued'[r][i] = issued[r][i]
      /\ issued'[r][Len(issued[r]) + 1] = n
  <2>1. issued'[r] = Append(issued[r], n)
    BY Zenon, <1>1 DEF TypeOK
  <2> QED
    BY <2>1, <1>4, <1>5
<1>9. Len(issued[r]) \in Nat /\ \A i \in 1 .. Len(issued[r]) : issued[r][i] \in Nat
  BY <1>5
<1>10. \A q \in Rep \ {r} : issued'[q] = issued[q]
  BY Zenon, <1>1 DEF TypeOK
<1>11. \A i \in 1 .. Len(issued'[r]) : i \in 1 .. Len(issued[r]) \/ i = Len(issued[r]) + 1
  BY <1>8, <1>9
<1>12. AllBelow'
  <2>1. /\ \A i \in 1 .. Len(issued[r]) : issued[r][i] <= highest'[r]
        /\ \A q \in Rep : /\ vote'[q] <= highest'[q]
                          /\ sequence_cache_l'[q] <= highest'[q]
                          /\ \A u \in Thread : snapshot'[u][q] <= highest'[q]
    BY Zenon, <1>7, BelowStep
  <2>2. \A i \in 1 .. Len(issued'[r]) : issued'[r][i] <= highest'[r]
    BY Zenon, <1>7, <1>8, <1>11, <2>1
  <2>3. \A q \in Rep \ {r} : \A i \in 1 .. Len(issued'[q]) : issued'[q][i] <= highest'[q]
    BY Zenon, <1>7, <1>10 DEF AllBelow
  <2> QED
    BY Zenon, <2>1, <2>2, <2>3 DEF AllBelow
<1>13. SequencesRise'
  <2>1. ASSUME NEW q \in Rep \ {r}, NEW i \in 1 .. Len(issued'[q]), NEW j \in 1 .. Len(issued'[q]), i < j
        PROVE  issued'[q][i] < issued'[q][j] \/ issued'[q][j] \in lost'[q]
    BY Zenon, <1>3, <1>10, <2>1 DEF SequencesRise
  <2>2. ASSUME NEW i \in 1 .. Len(issued'[r]), NEW j \in 1 .. Len(issued'[r]), i < j
        PROVE  issued'[r][i] < issued'[r][j] \/ issued'[r][j] \in lost'[r]
    <3>1. i \in 1 .. Len(issued[r])
      BY <1>8, <1>9, <2>2
    <3>2. CASE j \in 1 .. Len(issued[r])
      BY Zenon, <1>3, <1>8, <2>2, <3>1, <3>2 DEF SequencesRise
    <3>3. CASE j = Len(issued[r]) + 1
      <4>1. issued[r][i] <= highest[r] /\ issued[r][i] \in Nat
        BY Zenon, <1>9, <3>1 DEF AllBelow
      <4>2. issued[r][i] < n \/ n <= highest[r]
        BY <1>4, <1>5, <4>1
      <4> QED
        BY Zenon, <1>6, <1>8, <3>1, <3>3, <4>2
    <3> QED
      BY Zenon, <1>11, <3>2, <3>3
  <2> QED
    BY Zenon, <2>1, <2>2 DEF SequencesRise
<1> QED
  BY Zenon, <1>7, <1>12, <1>13

(* The higher of the two numbers is kept.                                  *)
LEMMA MaxStep ==
    ASSUME TypeOK, FlushInv, AllBelow, KnownIsHighest, SequencesRise,
           NEW t \in Thread, NEW r \in Rep, NEW n \in 1 .. MaxSequence, VoteMax(t, r, n)
    PROVE  AllBelow' /\ KnownIsHighest' /\ SequencesRise'
<1>1. /\ Know(t, r, Larger(vote_current(t, r), n), n)
      /\ issued' = issued
      /\ t \in open
  BY Zenon DEF VoteMax
<1>2. n \in Nat \ {0}
  BY BoundsAreNumbers
<1>3. /\ KnownIsHighest'
      /\ highest[r] <= highest'[r]
      /\ \A q \in Rep \ {r} : highest'[q] = highest[q]
      /\ highest'[r] \in Nat
      /\ UNCHANGED <<vote, sequence_cache_l, snapshot>>
  BY Zenon, <1>1, <1>2, KnowStep
<1>4. AllBelow'
  <2>1. /\ \A i \in 1 .. Len(issued[r]) : issued[r][i] <= highest'[r]
        /\ \A q \in Rep : /\ vote'[q] <= highest'[q]
                          /\ sequence_cache_l'[q] <= highest'[q]
                          /\ \A u \in Thread : snapshot'[u][q] <= highest'[q]
    BY Zenon, <1>3, BelowStep
  <2> QED
    BY Zenon, <1>1, <1>3, <2>1 DEF AllBelow
<1>5. \A q \in Rep : lost[q] \subseteq lost'[q]
  <2>1. lost' = IF t \in fresh \/ vote_cache[r] # 0 THEN lost
                ELSE [lost EXCEPT ![r] = Lost(r, vote_get(t, r))]
    BY Zenon, <1>1 DEF Know
  <2> QED
    BY Zenon, <1>1, <2>1, CurrentOrLost
<1>6. SequencesRise'
  BY Zenon, <1>1, <1>5 DEF SequencesRise
<1> QED
  BY Zenon, <1>3, <1>4, <1>6

(* Every step keeps what the node knows of votes.                          *)
LEMMA VotesStep ==
    ASSUME TypeOK, FlushInv, AllBelow, KnownIsHighest, SequencesRise, [Next]_vars
    PROVE  AllBelow' /\ KnownIsHighest' /\ SequencesRise'
<1> DEFINE Goal == AllBelow' /\ KnownIsHighest' /\ SequencesRise'
<1>0. \A r \in Rep : highest[r] \in Nat /\ None[r] <= highest[r]
  BY DEF TypeOK, None
<1>a. \A t \in Thread, r \in Rep : snapshot[t][r] <= highest[r]
  BY Zenon DEF AllBelow
<1>1. ASSUME NEW t \in Thread, NEW write \in BOOLEAN, Begin(t, write) PROVE Goal
  <2>1. snapshot' = [snapshot EXCEPT ![t] = vote]
    BY Zenon, <1>1 DEF Begin
  <2>2. \A u \in Thread, r \in Rep : snapshot'[u][r] <= highest[r]
    BY Zenon, <2>1 DEF AllBelow, TypeOK
  <2> QED
    BY Zenon, <1>1, <2>2, VotesSame DEF Begin, tables, caches, taken
<1>2. ASSUME NEW t \in Thread, Commit(t) PROVE Goal
  <2>1. snapshot' = [snapshot EXCEPT ![t] = None]
    BY Zenon, <1>2 DEF Commit
  <2>2. \A u \in Thread, r \in Rep : snapshot'[u][r] <= highest[r]
    BY Zenon, <1>0, <2>1 DEF AllBelow, TypeOK
  <2> QED
    BY Zenon, <1>2, <2>2, VotesSame DEF Commit, caches, taken
<1>3. ASSUME NEW t \in Thread, NEW h \in Hash, NEW b \in Block, UncheckedPut(t, h, b)
      PROVE  Goal
  BY Zenon, <1>3, <1>a, VotesSame DEF UncheckedPut, tables, transactions, taken
<1>4. ASSUME NEW t \in Thread, NEW h \in Hash, QueueUnchecked(t, h) PROVE Goal
  BY Zenon, <1>4, <1>a, VotesSame DEF QueueUnchecked, unchecked_del, tables, taken
<1>5. ASSUME NEW t \in Thread, UncheckedClear(t) PROVE Goal
  BY Zenon, <1>5, <1>a, VotesSame DEF UncheckedClear, tables, caches, taken
<1>6. CASE FlushSwap
  <2>1. /\ UNCHANGED <<vote, highest, issued, lost, snapshot>>
        /\ vote_cache' = None /\ sequence_cache_l' = vote_cache
        /\ sequence_cache_l = None
    BY Zenon, <1>6, NamesDiffer DEF FlushSwap, FlushInv, tables
  <2>2. \A r \in Rep : Known(r)' = Known(r)
    BY Zenon, <2>1 DEF Known, None
  <2>3. \A r \in Rep : vote_cache[r] <= highest[r]
    <3> SUFFICES ASSUME NEW r \in Rep PROVE vote_cache[r] <= highest[r]
      BY Zenon
    <3>1. Known(r) <= highest[r] /\ highest[r] \in Nat
      BY Zenon, <1>0 DEF KnownIsHighest
    <3> QED
      BY <3>1 DEF Known
  <2> QED
    BY Zenon, <2>1, <2>2, <2>3 DEF AllBelow, KnownIsHighest, SequencesRise
<1>7. CASE FlushCommit
  <2>1. /\ UNCHANGED <<vote_cache, highest, issued, lost, snapshot>>
        /\ vote' = [r \in Rep |-> IF sequence_cache_l[r] # 0 THEN sequence_cache_l[r] ELSE vote[r]]
        /\ sequence_cache_l' = None
    BY Zenon, <1>7 DEF FlushCommit, caches, history
  <2>2. \A r \in Rep : Known(r)' = Known(r)
    BY Zenon, <2>1 DEF Known, None
  <2>3. \A r \in Rep : vote'[r] <= highest[r]
    BY Zenon, <2>1 DEF AllBelow
  <2> QED
    BY Zenon, <1>0, <2>1, <2>2, <2>3 DEF AllBelow, KnownIsHighest, SequencesRise
<1>8. CASE Restart
  <2>1. /\ UNCHANGED <<vote, highest, issued>>
        /\ vote_cache' = None /\ sequence_cache_l' = None
        /\ snapshot' = [t \in Thread |-> None]
        /\ lost' = [r \in Rep |-> lost[r] \cup (vote[r] + 1 .. Known(r))]
    BY Zenon, <1>8 DEF Restart, tables, Lost
  <2>2. AllBelow'
    BY Zenon, <1>0, <2>1 DEF AllBelow
  <2>3. \A r \in Rep : lost[r] \subseteq lost'[r]
    BY Zenon, <2>1
  <2>4. SequencesRise'
    BY Zenon, <2>1, <2>3 DEF SequencesRise
  <2>5. ASSUME NEW r \in Rep
        PROVE  Known(r)' <= highest'[r] /\ Known(r)' + 1 .. highest'[r] \subseteq lost'[r]
    <3>1. Known(r)' = vote[r] /\ highest'[r] = highest[r]
      BY Zenon, <2>1 DEF Known, None
    <3>2. vote[r] \in Nat /\ highest[r] \in Nat /\ Known(r) \in Nat
      BY DEF TypeOK, Known
    <3>3. vote[r] <= highest[r] /\ Known(r) + 1 .. highest[r] \subseteq lost[r]
      BY Zenon DEF AllBelow, KnownIsHighest
    <3>4. lost'[r] = lost[r] \cup (vote[r] + 1 .. Known(r))
      BY Zenon, <2>1
    <3>5. vote[r] + 1 .. highest[r] \subseteq lost'[r]
      BY <3>2, <3>3, <3>4
    <3> QED
      BY Zenon, <3>1, <3>3, <3>5
  <2> QED
    BY Zenon, <2>2, <2>4, <2>5 DEF KnownIsHighest
<1>9. CASE UNCHANGED vars
  BY Zenon, <1>9, <1>a, VotesSame DEF vars, tables, caches, transactions, taken, history
<1> QED
  BY Zenon, <1>1, <1>2, <1>3, <1>4, <1>5, <1>6, <1>7, <1>8, <1>9, GenerateStep, MaxStep DEF Next

(* Every step keeps the unchecked blocks in one place each.                *)
LEMMA UncheckedStep ==
    ASSUME TypeOK, FlushInv, UncheckedFoundOnce, [Next]_vars
    PROVE  UncheckedFoundOnce'
<1> USE NamesDiffer DEF UncheckedFoundOnce, Visible
<1>1. ASSUME NEW t \in Thread, NEW write \in BOOLEAN, Begin(t, write)
      PROVE  UncheckedFoundOnce'
  BY Zenon, <1>1 DEF Begin, tables, caches, taken
<1>2. ASSUME NEW t \in Thread, Commit(t) PROVE UncheckedFoundOnce'
  BY Zenon, <1>2 DEF Commit, caches, taken, TypeOK
<1>3. ASSUME NEW t \in Thread, NEW r \in Rep, NEW n, NEW m, Know(t, r, n, m)
      PROVE  UncheckedFoundOnce'
  BY Zenon, <1>3 DEF Know, tables, transactions, taken
<1>4. ASSUME NEW t \in Thread, NEW h \in Hash, NEW b \in Block, UncheckedPut(t, h, b)
      PROVE  UncheckedFoundOnce'
  <2>1. writer \in Thread /\ writer # Flush
    BY Zenon, <1>4 DEF UncheckedPut
  <2>2. unchecked_cache_l = {}
    BY Zenon, <2>1 DEF FlushInv
  <2> QED
    BY <1>4, <2>1, <2>2 DEF UncheckedPut, tables, transactions, taken, unchecked_get
<1>5. ASSUME NEW t \in Thread, NEW h \in Hash, QueueUnchecked(t, h)
      PROVE  UncheckedFoundOnce'
  <2>1. writer \in Thread /\ writer # Flush
    BY Zenon, <1>5 DEF QueueUnchecked
  <2>2. unchecked_cache_l = {}
    BY Zenon, <2>1 DEF FlushInv
  <2> QED
    BY Zenon, <1>5, <2>1, <2>2 DEF QueueUnchecked, unchecked_del, tables, taken, unchecked_get
<1>6. ASSUME NEW t \in Thread, UncheckedClear(t) PROVE UncheckedFoundOnce'
  <2>1. writer \in Thread /\ writer # Flush
    BY Zenon, <1>6 DEF UncheckedClear
  <2>2. unchecked_cache_l = {}
    BY Zenon, <2>1 DEF FlushInv
  <2> QED
    BY Zenon, <1>6, <2>1, <2>2 DEF UncheckedClear, tables, caches, taken
<1>7. CASE FlushSwap
  BY Zenon, <1>7 DEF FlushSwap, FlushInv, tables
<1>8. CASE FlushCommit
  BY Zenon, <1>8 DEF FlushCommit, caches, history
<1>9. CASE Restart
  BY Zenon, <1>9 DEF Restart, tables
<1>10. CASE UNCHANGED vars
  BY Zenon, <1>10 DEF vars, tables, caches, transactions, taken, history
<1> QED
  BY Zenon, <1>1, <1>2, <1>3, <1>4, <1>5, <1>6, <1>7, <1>8, <1>9, <1>10
     DEF Next, VoteGenerate, VoteMax

-----------------------------------------------------------------------------

(* The inductive invariant holds of every run of the store.                *)
THEOREM CachesInvariant == Spec => []CachesInv
<1>1. Init => CachesInv
  <2> SUFFICES ASSUME Init PROVE CachesInv
    BY Zenon
  <2>1. issued \in [Rep -> Seq(Nat)]
    BY DEF Init
  <2>2. TypeOK
    BY Zenon, <2>1, NoneType DEF Init, TypeOK
  <2>3. FlushInv /\ UncheckedFoundOnce
    BY Zenon, NamesDiffer DEF Init, FlushInv, UncheckedFoundOnce, Visible
  <2>4. AllBelow /\ SequencesRise
    BY DEF Init, AllBelow, SequencesRise, None
  <2>5. KnownIsHighest
    BY DEF Init, KnownIsHighest, Known, None
  <2> QED
    BY Zenon, <2>2, <2>3, <2>4, <2>5 DEF CachesInv
<1>2. CachesInv /\ [Next]_vars => CachesInv'
  BY Zenon, TypeStep, FlushStep, VotesStep, UncheckedStep DEF CachesInv
<1> QED
  BY <1>1, <1>2, PTL DEF Spec

(* However threads, transactions, flushes and crashes interleave, the      *)
(* store knows the highest number of every account, unless a crash came    *)
(* before the commit of flush or a call read the table in a transaction    *)
(* older than a flush: then it has lost the numbers in between, and no     *)
(* others.                                                                 *)
THEOREM CachesKnow == Spec => []KnownIsHighest
<1>1. CachesInv => KnownIsHighest
  BY Zenon DEF CachesInv
<1> QED
  BY <1>1, CachesInvariant, PTL

(* Across restarts too, vote_generate gives a number that is not above all *)
(* earlier ones only if the store has lost that number in one of these     *)
(* ways.                                                                   *)
THEOREM CachesRise == Spec => []SequencesRise
<1>1. CachesInv => SequencesRise
  BY Zenon DEF CachesInv
<1> QED
  BY <1>1, CachesInvariant, PTL

(* No unchecked block is lost or found twice, whatever flush does.         *)
THEOREM CachesFind == Spec => []UncheckedFoundOnce
<1>1. CachesInv => UncheckedFoundOnce
  BY Zenon DEF CachesInv
<1> QED
  BY <1>1, CachesInvariant, PTL

=============================================================================
