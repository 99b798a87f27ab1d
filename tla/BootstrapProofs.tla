-------------------------- MODULE BootstrapProofs ---------------------------
(***************************************************************************)
(* No pull of an attempt is lost, doubled or asked for too often, for any  *)
(* number of connections, pulls and callers.                               *)
(***************************************************************************)
EXTENDS Bootstrap, TLAPS, FiniteSetTheorems

(* The inductive invariant *)

AttemptTypes ==
    /\ connecting \subseteq Conn
    /\ idle \in Seq(Conn)
    /\ pulls \in Seq(Pull)
    /\ handed \in [Pull -> Conn \cup {NoConn}]
    /\ client \in [Pull -> Conn \cup {NoConn}]
    /\ attempts \in [Pull -> Nat]
    /\ requests \in [Pull -> Nat]
    /\ open \subseteq Pull
    /\ DOMAIN promise = {"frontier", "push"}

(* While someone holds the frontier connection there is one; and run asks  *)
(* for another only when nobody does.                                      *)
FrontierHeld ==
    /\ request \in Conn \cup {NoConn}
    /\ asking \/ pushing \/ at \in {"future", "pushing"} => request \in Conn
    /\ asking => at \notin {"idle", "fconn"}
    /\ asking /\ (at = "frontier" \/ promise.frontier # "none") => stopped
    /\ pushing => at \in {"pushing", "over"}

(* A pull is in at most one place, once, and in one when it is open. *)
Placed ==
    /\ IsInjective(pulls)
    /\ \A p \in Pull :
        /\ p \in open <=> p \in Range(pulls) \/ handed[p] # NoConn \/ client[p] # NoConn
        /\ p \in Range(pulls) => handed[p] = NoConn /\ client[p] = NoConn
        /\ handed[p] # NoConn => client[p] = NoConn
    /\ at = "pconn" => pulls # <<>>

(* The last attempt was given up, or goes over the frontier connection. *)
IsLast(p) == attempts[p] = RetryLimit + 1

(* How often a pull was tried, by where it is. *)
CountedFor(p) ==
    /\ p \in Fork /\ attempts[p] = 0 => requests[p] = 0
    /\ p \in Range(pulls) => Tries(p) = attempts[p] /\ attempts[p] < RetryLimit
    /\ handed[p] # NoConn =>
        \/ Tries(p) = attempts[p] /\ attempts[p] < RetryLimit
        \/ IsLast(p) /\ Tries(p) = RetryLimit
    /\ client[p] # NoConn =>
        \/ Tries(p) = attempts[p] + 1 /\ attempts[p] < RetryLimit
        \/ IsLast(p) /\ Tries(p) = RetryLimit + 1
    /\ Tries(p) <= RetryLimit + 1
    /\ p \in dropped => p \notin open /\ Tries(p) >= RetryLimit

Counted == \A p \in Pull : CountedFor(p)

AttemptInv == AttemptTypes /\ FrontierHeld /\ Placed /\ Counted

-----------------------------------------------------------------------------
(* Queues *)

LEMMA PushFront ==
    ASSUME NEW S, NEW s \in Seq(S), NEW x \in S
    PROVE  /\ <<x>> \o s \in Seq(S)
           /\ Range(<<x>> \o s) = {x} \cup Range(s)
           /\ IsInjective(s) /\ x \notin Range(s) => IsInjective(<<x>> \o s)
           /\ <<x>> \o s # <<>>
<1> DEFINE q == <<x>> \o s
<1>1. q \in Seq(S) /\ Len(q) = Len(s) + 1 /\ q[1] = x /\ \A i \in 1 .. Len(s) : q[i + 1] = s[i]
  OBVIOUS
<1> HIDE DEF q
<1>2. \A i \in 1 .. Len(q) : i = 1 \/ (i - 1 \in 1 .. Len(s) /\ q[i] = s[i - 1])
  BY <1>1
<1>3. Range(q) = {x} \cup Range(s)
  <2>1. DOMAIN q = 1 .. Len(q) /\ DOMAIN s = 1 .. Len(s) /\ Len(s) \in Nat
    BY <1>1
  <2>2. \A i \in DOMAIN q : q[i] = x \/ \E j \in DOMAIN s : q[i] = s[j]
    BY Zenon, <1>1, <1>2, <2>1
  <2>3. x \in Range(q)
    BY <1>1, <2>1 DEF Range
  <2>4. \A i \in 1 .. Len(s) : i + 1 \in DOMAIN q /\ q[i + 1] = s[i]
    BY <1>1, <2>1
  <2>5. Range(q) \subseteq {x} \cup Range(s)
    BY Zenon, <2>2 DEF Range
  <2>6. Range(s) \subseteq Range(q)
    BY Zenon, <2>1, <2>4 DEF Range
  <2> QED
    BY Zenon, <2>3, <2>5, <2>6
<1>4. IsInjective(s) /\ x \notin Range(s) => IsInjective(q)
  BY <1>1, <1>2 DEF IsInjective, Range
<1> QED
  BY <1>1, <1>3, <1>4 DEF q

LEMMA PushBack ==
    ASSUME NEW S, NEW s \in Seq(S), NEW x \in S
    PROVE  /\ Append(s, x) \in Seq(S)
           /\ Range(Append(s, x)) = Range(s) \cup {x}
           /\ IsInjective(s) /\ x \notin Range(s) => IsInjective(Append(s, x))
           /\ Append(s, x) # <<>>
<1> DEFINE q == Append(s, x)
<1>1. q \in Seq(S) /\ Len(q) = Len(s) + 1 /\ q[Len(s) + 1] = x /\ \A i \in 1 .. Len(s) : q[i] = s[i]
  OBVIOUS
<1> HIDE DEF q
<1>2. DOMAIN q = 1 .. Len(s) + 1 /\ DOMAIN s = 1 .. Len(s) /\ Len(s) \in Nat
  BY <1>1
<1>3. \A i \in DOMAIN q : i \in DOMAIN s \/ i = Len(s) + 1
  BY <1>2
<1>4. DOMAIN s \subseteq DOMAIN q /\ Len(s) + 1 \in DOMAIN q
  BY <1>2
<1>5. Range(q) = Range(s) \cup {x}
  BY Zenon, <1>1, <1>2, <1>3, <1>4 DEF Range
<1>6. IsInjective(s) /\ x \notin Range(s) => IsInjective(q)
  BY Zenon, <1>1, <1>2, <1>3 DEF IsInjective, Range
<1> QED
  BY <1>1, <1>5, <1>6 DEF q

LEMMA PopFront ==
    ASSUME NEW S, NEW s \in Seq(S), s # <<>>
    PROVE  /\ Head(s) \in S /\ Head(s) \in Range(s) /\ Tail(s) \in Seq(S)
           /\ IsInjective(s) => IsInjective(Tail(s)) /\ Range(Tail(s)) = Range(s) \ {Head(s)}
<1> DEFINE q == Tail(s)
<1>1. /\ Head(s) = s[1] /\ Len(s) \in Nat \ {0} /\ q \in Seq(S) /\ Len(q) = Len(s) - 1
      /\ \A i \in 1 .. Len(q) : q[i] = s[i + 1]
  OBVIOUS
<1> HIDE DEF q
<1>2. DOMAIN q = 1 .. Len(s) - 1 /\ DOMAIN s = 1 .. Len(s)
  BY <1>1
<1>3. 1 \in DOMAIN s /\ Head(s) \in S /\ Head(s) \in Range(s)
  BY <1>1, <1>2 DEF Range
<1>4. ASSUME IsInjective(s) PROVE IsInjective(q)
  BY <1>1, <1>2, <1>4 DEF IsInjective
<1>5. ASSUME IsInjective(s) PROVE Range(q) = Range(s) \ {Head(s)}
  <2>1. \A i \in DOMAIN q : i + 1 \in DOMAIN s /\ i + 1 # 1 /\ q[i] = s[i + 1]
    BY <1>1, <1>2
  <2>2. \A i \in DOMAIN s : i = 1 \/ (i - 1 \in DOMAIN q /\ q[i - 1] = s[i])
    BY <1>1, <1>2
  <2>3. Range(q) \subseteq Range(s) \ {Head(s)}
    BY <1>1, <1>3, <1>5, <2>1 DEF IsInjective, Range
  <2>4. Range(s) \ {Head(s)} \subseteq Range(q)
    BY <1>1, <2>2 DEF Range
  <2> QED
    BY Zenon, <2>3, <2>4
<1> QED
  BY Zenon, <1>1, <1>3, <1>4, <1>5 DEF q

LEMMA PopBack ==
    ASSUME NEW S, NEW s \in Seq(S), s # <<>>
    PROVE  s[Len(s)] \in S /\ SubSeq(s, 1, Len(s) - 1) \in Seq(S)
  OBVIOUS

LEMMA Shuffled ==
    ASSUME NEW S, NEW s \in Seq(S), NEW f \in Bijection(DOMAIN s, DOMAIN s)
    PROVE  LET q == [i \in DOMAIN s |-> s[f[i]]]
           IN  q \in Seq(S) /\ Range(q) = Range(s) /\ (IsInjective(s) => IsInjective(q))
<1> DEFINE D == DOMAIN s
           q == [i \in D |-> s[f[i]]]
<1>1. D = 1 .. Len(s) /\ Len(s) \in Nat
  OBVIOUS
<1>2. f \in [D -> D] /\ \A w \in D : \E v \in D : f[v] = w
  BY Zenon DEF Bijection, Surjection
<1>3. IsInjective(f)
  BY Zenon DEF Bijection, Injection
<1>4. \A i \in D : s[i] \in S
  OBVIOUS
<1>5. q \in Seq(S)
  BY <1>1, <1>2, <1>4
<1> HIDE DEF D
<1>6. DOMAIN q = D /\ \A i \in D : f[i] \in D /\ q[i] = s[f[i]]
  BY Zenon, <1>2
<1> HIDE DEF q
<1>7. Range(q) = Range(s)
  BY <1>2, <1>6 DEF Range, D
<1>8. IsInjective(s) => IsInjective(q)
  BY <1>2, <1>3, <1>6 DEF IsInjective, D
<1> QED
  BY Zenon, <1>5, <1>7, <1>8 DEF q, D

-----------------------------------------------------------------------------
(* What steps leave alone *)

LEMMA AliveConn == ASSUME AttemptInv PROVE Alive \subseteq Conn
<1>1. Range(idle) \subseteq Conn
  BY DEF AttemptInv, AttemptTypes, Range
<1>2. (Range(handed) \cup Range(client)) \ {NoConn} \subseteq Conn
  BY Zenon DEF AttemptInv, AttemptTypes, Range
<1> QED
  BY Zenon, <1>1, <1>2 DEF AttemptInv, AttemptTypes, FrontierHeld, Alive

LEMMA WorkStays ==
    ASSUME AttemptInv, UNCHANGED work, at' = "pconn" => at = "pconn" \/ pulls # <<>>
    PROVE  Placed' /\ Counted'
<1>1. UNCHANGED <<pulls, handed, client, attempts, open, requests, dropped>>
  BY Zenon DEF work
<1>2. Placed'
  BY Zenon, <1>1 DEF AttemptInv, Placed
<1>3. Counted'
  BY Zenon, <1>1 DEF AttemptInv, Counted, CountedFor, Tries, IsLast
<1> QED
  BY Zenon, <1>2, <1>3

LEMMA FrontierStays ==
    ASSUME AttemptInv, UNCHANGED clients, at' = at, stopped => stopped'
    PROVE  FrontierHeld'
  BY Zenon DEF AttemptInv, FrontierHeld, clients

LEMMA TypesStay ==
    ASSUME AttemptInv, UNCHANGED <<connecting, idle, clients, work>>
    PROVE  AttemptTypes'
  BY Zenon DEF AttemptInv, AttemptTypes, clients, work

LEMMA PromiseTypes ==
    ASSUME AttemptInv, NEW kinds, NEW value, SetPromise(kinds, value)
    PROVE  /\ DOMAIN promise' = {"frontier", "push"}
           /\ \A k \in {"frontier", "push"} : promise'[k] = IF k \in kinds /\ promise[k] = "none" THEN value ELSE promise[k]
  BY Zenon DEF AttemptInv, AttemptTypes, SetPromise

LEMMA PopulateKeeps ==
    ASSUME AttemptInv, PopulateConnections, UNCHANGED <<idle, promise, work>>
    PROVE  /\ AttemptTypes'
           /\ stopped => stopped'
           /\ request' \in Conn \cup {NoConn}
           /\ asking \/ pushing \/ at \in {"future", "pushing"} => request' = request
<1>1. CASE connecting' = connecting /\ request' = request /\ stopped'
  BY Zenon, <1>1 DEF AttemptInv, AttemptTypes, FrontierHeld, work
<1>2. CASE stopped' = stopped /\ \E new \in SUBSET (Conn \ Alive) :
             /\ connecting' = connecting \cup new
             /\ request' = IF request \in new THEN NoConn ELSE request
  <2>1. PICK new \in SUBSET (Conn \ Alive) :
            /\ connecting' = connecting \cup new
            /\ request' = IF request \in new THEN NoConn ELSE request
    BY Zenon, <1>2
  <2>2. AttemptTypes'
    BY Zenon, <2>1 DEF AttemptInv, AttemptTypes, work
  <2>3. asking \/ pushing \/ at \in {"future", "pushing"} => request \in Alive
    BY Zenon DEF Alive
  <2> QED
    BY Zenon, <1>2, <2>1, <2>2, <2>3 DEF AttemptInv, FrontierHeld
<1> QED
  BY Zenon, <1>1, <1>2 DEF PopulateConnections

LEMMA PoolTypes ==
    ASSUME AttemptInv, NEW c \in Conn, PoolConnection(c)
    PROVE  idle' \in Seq(Conn)
<1>1. idle \in Seq(Conn)
  BY Zenon DEF AttemptInv, AttemptTypes
<1> QED
  BY Zenon, <1>1, PushFront DEF PoolConnection

-----------------------------------------------------------------------------
(* The steps of the io service and the alarm *)

LEMMA AlarmInv == ASSUME AttemptInv, PopulateAlarm PROVE AttemptInv'
<1>1. /\ PopulateConnections /\ UNCHANGED <<idle, promise, work>>
      /\ UNCHANGED <<asking, pushing, promise, at>>
  BY Zenon DEF PopulateAlarm
<1>2. AttemptTypes'
  BY Zenon, <1>1, PopulateKeeps
<1>3. FrontierHeld'
  BY Zenon, <1>1, PopulateKeeps DEF AttemptInv, FrontierHeld
<1>4. Placed' /\ Counted'
  BY Zenon, <1>1, WorkStays
<1> QED
  BY Zenon, <1>2, <1>3, <1>4 DEF AttemptInv

LEMMA ConnectedInv == ASSUME AttemptInv, NEW c \in Conn, Connected(c) PROVE AttemptInv'
<1>1. idle' \in Seq(Conn)
  BY Zenon, PoolTypes DEF Connected, AttemptInv, AttemptTypes
<1>2. AttemptTypes'
  BY Zenon, <1>1 DEF Connected, AttemptInv, AttemptTypes, clients, work
<1>3. FrontierHeld'
  BY Zenon, FrontierStays DEF Connected
<1>4. Placed' /\ Counted'
  BY Zenon, WorkStays DEF Connected
<1> QED
  BY Zenon, <1>2, <1>3, <1>4 DEF AttemptInv

LEMMA FrontiersEndInv == ASSUME AttemptInv, FrontiersEnd PROVE AttemptInv'
<1>1. request \in Conn
  BY Zenon DEF FrontiersEnd, AttemptInv, FrontierHeld
<1>2. idle' \in Seq(Conn)
  BY Zenon, <1>1, PoolTypes DEF FrontiersEnd
<1>3. DOMAIN promise' = {"frontier", "push"}
  BY Zenon, PromiseTypes DEF FrontiersEnd
<1>4. AttemptTypes'
  BY Zenon, <1>2, <1>3 DEF FrontiersEnd, AttemptInv, AttemptTypes, work
<1>5. FrontierHeld'
  BY Zenon DEF FrontiersEnd, AttemptInv, FrontierHeld
<1>6. Placed' /\ Counted'
  BY Zenon, WorkStays DEF FrontiersEnd
<1> QED
  BY Zenon, <1>4, <1>5, <1>6 DEF AttemptInv

LEMMA FrontiersFailInv == ASSUME AttemptInv, FrontiersFail PROVE AttemptInv'
<1>1. DOMAIN promise' = {"frontier", "push"}
  BY Zenon, PromiseTypes DEF FrontiersFail
<1>2. AttemptTypes'
  BY Zenon, <1>1 DEF FrontiersFail, AttemptInv, AttemptTypes, work, connections
<1>3. FrontierHeld'
  BY Zenon DEF FrontiersFail, AttemptInv, FrontierHeld
<1>4. Placed' /\ Counted'
  BY Zenon, WorkStays DEF FrontiersFail
<1> QED
  BY Zenon, <1>2, <1>3, <1>4 DEF AttemptInv

LEMMA PushEndsInv == ASSUME AttemptInv, PushEnds PROVE AttemptInv'
<1>1. DOMAIN promise' = {"frontier", "push"} /\ promise'.frontier = promise.frontier
  BY PromiseTypes DEF PushEnds, AttemptInv, AttemptTypes
<1>2. AttemptTypes'
  BY Zenon, <1>1 DEF PushEnds, AttemptInv, AttemptTypes, work, connections
<1>3. FrontierHeld'
  BY Zenon, <1>1 DEF PushEnds, AttemptInv, FrontierHeld
<1>4. Placed' /\ Counted'
  BY Zenon, WorkStays DEF PushEnds
<1> QED
  BY Zenon, <1>2, <1>3, <1>4 DEF AttemptInv

-----------------------------------------------------------------------------
(* The steps of the pulls *)

LEMMA ReceivedInv == ASSUME AttemptInv, NEW p \in Pull, ReceivedFrontier(p) PROVE AttemptInv'
<1>1. p \notin Fork /\ p \notin Range(pulls) /\ handed[p] = NoConn /\ client[p] = NoConn
  BY Zenon DEF ReceivedFrontier, AttemptInv, Placed
<1>2. pulls' \in Seq(Pull) /\ Range(pulls') = Range(pulls) \cup {p} /\ IsInjective(pulls') /\ pulls' # <<>>
  <2>1. pulls' = Append(pulls, p)
    BY Zenon DEF ReceivedFrontier
  <2>2. pulls \in Seq(Pull) /\ IsInjective(pulls)
    BY Zenon DEF AttemptInv, AttemptTypes, Placed
  <2> QED
    BY <1>1, <2>1, <2>2, PushBack
<1>3. AttemptTypes'
  BY Zenon, <1>2 DEF ReceivedFrontier, AttemptInv, AttemptTypes, connections, clients
<1>4. FrontierHeld'
  BY Zenon, FrontierStays DEF ReceivedFrontier
<1>5. Placed'
  BY Zenon, <1>1, <1>2 DEF ReceivedFrontier, AttemptInv, Placed
<1>6. CountedFor(p)'
  BY <1>1, <1>2, BootstrapAssumption DEF ReceivedFrontier, AttemptInv, AttemptTypes, CountedFor, Tries
<1>7. ASSUME NEW q \in Pull, q # p PROVE CountedFor(q)'
  BY Zenon, <1>2, <1>7 DEF ReceivedFrontier, AttemptInv, AttemptTypes, Counted, CountedFor, Tries, IsLast
<1> QED
  BY Zenon, <1>3, <1>4, <1>5, <1>6, <1>7 DEF AttemptInv, Counted

LEMMA BackgroundInv == ASSUME AttemptInv, NEW p \in Pull, Background(p) PROVE AttemptInv'
<1>1. p \notin Range(pulls) /\ handed[p] \in Conn /\ client[p] = NoConn
  BY Zenon DEF Background, AttemptInv, AttemptTypes, Placed
<1>2. AttemptTypes'
  BY <1>1 DEF Background, AttemptInv, AttemptTypes, connections, clients
<1>3. FrontierHeld'
  BY Zenon, FrontierStays DEF Background
<1>4. Placed'
  BY Zenon, <1>1, BootstrapAssumption DEF Background, AttemptInv, AttemptTypes, Placed
<1>5. CountedFor(p)'
  <2>1. CountedFor(p) /\ attempts[p] \in Nat /\ requests[p] \in Nat
    BY Zenon DEF AttemptInv, AttemptTypes, Counted
  <2>2. /\ UNCHANGED <<pulls, open, dropped>> /\ attempts'[p] = attempts[p]
        /\ requests'[p] = requests[p] + 1 /\ handed'[p] = NoConn /\ client'[p] # NoConn
    BY Zenon, <1>1, BootstrapAssumption DEF Background, AttemptInv, AttemptTypes
  <2>3. handed[p] # NoConn
    BY Zenon DEF Background
  <2>4. p \in open
    BY Zenon, <2>3 DEF AttemptInv, Placed
  <2> QED
    BY <1>1, <2>1, <2>2, <2>3, <2>4, BootstrapAssumption DEF CountedFor, IsLast, Tries
<1>6. ASSUME NEW q \in Pull, q # p PROVE CountedFor(q)'
  BY Zenon, <1>6 DEF Background, AttemptInv, AttemptTypes, Counted, CountedFor, Tries, IsLast
<1> QED
  BY Zenon, <1>2, <1>3, <1>4, <1>5, <1>6 DEF AttemptInv, Counted

(* A pull that goes back to the queue, behind none. *)
LEMMA TryAgainInv ==
    ASSUME AttemptInv, NEW p \in Pull, TryAgain(p), p \notin Range(pulls), handed[p] = NoConn,
           open' = open \cup {p}, client' = [client EXCEPT ![p] = NoConn],
           Tries(p) = attempts[p] + 1, p \notin dropped,
           UNCHANGED <<requests, connecting, idle, stopped, clients, at>>
    PROVE  AttemptInv'
<1>1. pulls' \in Seq(Pull) /\ Range(pulls') = {p} \cup Range(pulls) /\ IsInjective(pulls') /\ pulls' # <<>>
  <2>1. pulls' = <<p>> \o pulls
    BY Zenon DEF TryAgain
  <2>2. pulls \in Seq(Pull) /\ IsInjective(pulls)
    BY Zenon DEF AttemptInv, AttemptTypes, Placed
  <2> QED
    BY Zenon, <2>1, <2>2, PushFront
<1>2. AttemptTypes'
  BY <1>1 DEF TryAgain, AttemptInv, AttemptTypes, clients
<1>3. FrontierHeld'
  BY Zenon, FrontierStays
<1>4. Placed'
  BY Zenon, <1>1 DEF TryAgain, AttemptInv, AttemptTypes, Placed
<1>5. CountedFor(p)'
  BY <1>1, BootstrapAssumption DEF TryAgain, AttemptInv, AttemptTypes, Counted, CountedFor, Tries
<1>6. ASSUME NEW q \in Pull, q # p PROVE CountedFor(q)'
  BY Zenon, <1>1, <1>6 DEF TryAgain, AttemptInv, AttemptTypes, Counted, CountedFor, Tries, IsLast
<1> QED
  BY Zenon, <1>2, <1>3, <1>4, <1>5, <1>6 DEF AttemptInv, Counted

LEMMA ForkInv == ASSUME AttemptInv, NEW p \in Pull, ForkResolved(p) PROVE AttemptInv'
<1>1. p \in Fork /\ p \notin Range(pulls) /\ handed[p] = NoConn /\ client[p] = NoConn
  BY Zenon DEF ForkResolved, AttemptInv, Placed
<1>2. Tries(p) = attempts[p] + 1 /\ p \notin dropped
  BY <1>1, BootstrapAssumption
     DEF ForkResolved, AttemptInv, AttemptTypes, Counted, CountedFor, Tries
<1>3. client' = [client EXCEPT ![p] = NoConn]
  BY Zenon, <1>1 DEF ForkResolved, AttemptInv, AttemptTypes
<1> QED
  BY Zenon, <1>1, <1>2, <1>3, TryAgainInv DEF ForkResolved, connections

LEMMA PullEndsInv == ASSUME AttemptInv, NEW p \in Pull, PullEnds(p) PROVE AttemptInv'
<1>1. /\ p \in open /\ p \notin Range(pulls) /\ handed[p] = NoConn /\ client[p] \in Conn
      /\ p \notin dropped
  BY Zenon DEF PullEnds, AttemptInv, AttemptTypes, Placed, Counted, CountedFor, Tries
<1>2. /\ client' = [client EXCEPT ![p] = NoConn]
      /\ UNCHANGED <<requests, connecting, stopped, clients, at>>
  BY Zenon DEF PullEnds
<1>3. FrontierHeld'
  BY Zenon, <1>2, FrontierStays
<1>4. CASE open' = open \ {p} /\ UNCHANGED <<pulls, handed, attempts, dropped>> /\ idle' \in Seq(Conn)
  <2>1. AttemptTypes'
    BY Zenon, <1>2, <1>4 DEF AttemptInv, AttemptTypes, clients
  <2>2. Placed'
    BY Zenon, <1>1, <1>2, <1>4 DEF AttemptInv, AttemptTypes, Placed
  <2>3. Counted'
    BY <1>1, <1>2, <1>4 DEF AttemptInv, AttemptTypes, Counted, CountedFor, Tries, IsLast
  <2> QED
    BY Zenon, <1>3, <2>1, <2>2, <2>3 DEF AttemptInv
<1>5. \A q \in Pull : q \in dropped => q \notin open
  BY Zenon DEF AttemptInv, Counted, CountedFor, Tries
<1>6. CASE TryAgain(p) /\ open' = open \ dropped' /\ UNCHANGED idle
  <2>1. open' = open \cup {p}
    BY Zenon, <1>1, <1>5, <1>6 DEF AttemptInv, AttemptTypes, TryAgain
  <2>2. Tries(p) = attempts[p] + 1
    <3>1. CountedFor(p) /\ attempts[p] \in Nat /\ attempts[p] + 1 < RetryLimit /\ client[p] # NoConn
      BY Zenon, <1>1, <1>6, BootstrapAssumption DEF AttemptInv, AttemptTypes, Counted, TryAgain
    <3> QED
      BY <1>6, <3>1, BootstrapAssumption DEF CountedFor, IsLast, Tries
  <2> QED
    BY Zenon, <1>1, <1>2, <1>6, <2>1, <2>2, TryAgainInv
<1>7. CASE TryLast(p) /\ open' = open \ dropped' /\ UNCHANGED idle
  <2>1. /\ UNCHANGED pulls
        /\ attempts' = [attempts EXCEPT ![p] = RetryLimit + 1]
    BY Zenon, <1>7 DEF TryLast
  <2>2. \/ attempts[p] + 1 = RetryLimit /\ Tries(p) = RetryLimit
        \/ attempts[p] = RetryLimit + 1 /\ Tries(p) = RetryLimit + 1
    BY <1>1, <1>7, BootstrapAssumption DEF AttemptInv, AttemptTypes, Counted, CountedFor, Tries,
       IsLast, TryLast
  <2>3. CASE /\ attempts[p] + 1 = RetryLimit /\ request \in Alive
             /\ handed' = [handed EXCEPT ![p] = request] /\ UNCHANGED dropped
    <3>1. request \in Conn
      BY Zenon, <2>3, AliveConn
    <3>2. open' = open
      BY Zenon, <1>5, <1>7, <2>3 DEF AttemptInv, AttemptTypes
    <3>3. AttemptTypes'
      BY <1>2, <1>7, <2>1, <2>3, <3>1, <3>2, BootstrapAssumption DEF AttemptInv, AttemptTypes,
         clients
    <3>4. Placed'
      BY Zenon, <1>1, <1>2, <2>1, <2>3, <3>1, <3>2, BootstrapAssumption DEF AttemptInv,
         AttemptTypes, Placed
    <3>5. CountedFor(p)'
      BY <1>1, <1>2, <1>7, <2>1, <2>2, <2>3, <3>2, BootstrapAssumption DEF AttemptInv,
         AttemptTypes, CountedFor, Tries, IsLast
    <3>6. ASSUME NEW q \in Pull, q # p PROVE CountedFor(q)'
      BY Zenon, <1>2, <2>1, <2>3, <3>2, <3>6 DEF AttemptInv, AttemptTypes, Counted, CountedFor, Tries,
         IsLast
    <3> QED
      BY Zenon, <1>3, <3>3, <3>4, <3>5, <3>6 DEF AttemptInv, Counted
  <2>4. CASE dropped' = dropped \cup {p} /\ UNCHANGED handed
    <3>1. open' = open \ {p}
      BY Zenon, <1>5, <1>7, <2>4 DEF AttemptInv, AttemptTypes
    <3>2. AttemptTypes'
      BY <1>2, <1>7, <2>1, <2>4, <3>1, BootstrapAssumption DEF AttemptInv, AttemptTypes, clients
    <3>3. Placed'
      BY Zenon, <1>1, <1>2, <2>1, <2>4, <3>1 DEF AttemptInv, AttemptTypes, Placed
    <3>4. CountedFor(p)'
      BY <1>1, <1>2, <1>7, <2>1, <2>2, <2>4, <3>1, BootstrapAssumption DEF AttemptInv,
         AttemptTypes, CountedFor, Tries
    <3>5. ASSUME NEW q \in Pull, q # p PROVE CountedFor(q)'
      BY Zenon, <1>2, <2>1, <2>4, <3>1, <3>5 DEF AttemptInv, AttemptTypes, Counted, CountedFor, Tries,
         IsLast
    <3> QED
      BY Zenon, <1>3, <3>2, <3>3, <3>4, <3>5 DEF AttemptInv, Counted
  <2> QED
    BY Zenon, <1>7, <2>3, <2>4 DEF TryLast
<1> QED
  BY Zenon, <1>1, <1>4, <1>6, <1>7, PoolTypes DEF PullEnds, AttemptInv, AttemptTypes

LEMMA PullLeavesInv == ASSUME AttemptInv, PullLeaves PROVE AttemptInv'
<1>1. UNCHANGED <<pulls, handed, client, attempts, open, requests, dropped, connecting, idle, clients>>
      /\ UNCHANGED <<stopped, at>>
  BY Zenon DEF PullLeaves, connections
<1>2. AttemptTypes'
  BY Zenon, <1>1 DEF AttemptInv, AttemptTypes, clients
<1>3. FrontierHeld'
  BY Zenon, <1>1, FrontierStays
<1>4. Placed'
  BY Zenon, <1>1 DEF AttemptInv, Placed
<1>5. Counted'
  BY <1>1 DEF AttemptInv, Counted, CountedFor, Tries, IsLast
<1> QED
  BY Zenon, <1>2, <1>3, <1>4, <1>5 DEF AttemptInv

-----------------------------------------------------------------------------
(* The steps of run *)

(* connection () gives a connection, or none. *)
LEMMA GetsTypes ==
    ASSUME AttemptInv, NEW c \in Conn \cup {NoConn}, Gets(c)
    PROVE  /\ idle' \in Seq(Conn) /\ UNCHANGED <<stopped, connecting>>
           /\ c = NoConn => stopped
<1>1. idle \in Seq(Conn)
  BY Zenon DEF AttemptInv, AttemptTypes
<1>2. idle # <<>> => idle[Len(idle)] \in Conn /\ SubSeq(idle, 1, Len(idle) - 1) \in Seq(Conn)
  BY Zenon, <1>1, PopBack
<1> QED
  BY Zenon, <1>1, <1>2, BootstrapAssumption DEF Gets, connections

LEMMA RequestFrontierInv == ASSUME AttemptInv, RequestFrontier PROVE AttemptInv'
<1>1. CASE Waits("fconn")
  <2>1. UNCHANGED <<stopped, connecting, idle, clients, work>> /\ at' = "fconn"
    BY Zenon, <1>1 DEF Waits, attempt, connections
  <2>2. ~asking /\ ~pushing
    BY Zenon, <1>1 DEF Waits, RequestFrontier, AttemptInv, FrontierHeld
  <2>3. FrontierHeld'
    BY Zenon, <2>1, <2>2 DEF AttemptInv, FrontierHeld, clients
  <2>4. AttemptTypes'
    BY Zenon, <2>1, TypesStay
  <2>5. Placed' /\ Counted'
    BY Zenon, <2>1, WorkStays
  <2> QED
    BY Zenon, <2>3, <2>4, <2>5 DEF AttemptInv
<1>2. ASSUME NEW c \in Conn \cup {NoConn}, Gets(c), AskFrontiers(c) PROVE AttemptInv'
  <2>1. idle' \in Seq(Conn) /\ UNCHANGED <<stopped, connecting>> /\ (c = NoConn => stopped)
    BY Zenon, <1>2, GetsTypes
  <2>2. /\ UNCHANGED <<pushing, work>> /\ request' = c
        /\ DOMAIN promise' = {"frontier", "push"}
        /\ c = NoConn => at' = "frontier" /\ UNCHANGED <<asking, promise>>
        /\ c # NoConn => at' = "future" /\ promise'.frontier = "none"
    BY Zenon, <1>2 DEF AskFrontiers, AttemptInv, AttemptTypes
  <2>3. ~asking /\ ~pushing
    BY Zenon DEF RequestFrontier, AttemptInv, FrontierHeld
  <2>4. AttemptTypes'
    BY Zenon, <2>1, <2>2 DEF AttemptInv, AttemptTypes, work
  <2>5. FrontierHeld'
    <3>1. CASE c = NoConn
      BY <2>1, <2>2, <2>3, <3>1, BootstrapAssumption DEF FrontierHeld
    <3>2. CASE c # NoConn
      <4>1. c \in Conn /\ request' = c /\ at' = "future" /\ promise'.frontier = "none" /\ ~pushing'
        BY Zenon, <1>2, <2>2, <2>3, <3>2
      <4> QED
        BY Zenon, <4>1 DEF FrontierHeld
    <3> QED
      BY Zenon, <3>1, <3>2
  <2>6. Placed' /\ Counted'
    BY Zenon, <2>2, WorkStays
  <2> QED
    BY Zenon, <2>4, <2>5, <2>6 DEF AttemptInv
<1> QED
  BY Zenon, <1>1, <1>2 DEF RequestFrontier

(* A failed request forgets the pulls, one that ends or is given up        *)
(* shuffles them.                                                          *)
LEMMA FrontiersOverInv == ASSUME AttemptInv, FrontiersOver PROVE AttemptInv'
<1>1. /\ UNCHANGED <<handed, client, attempts, requests, dropped, stopped, connecting, idle, clients>>
      /\ at' \in {"frontier", "pulls"}
  BY Zenon DEF FrontiersOver, connections
<1>2. FrontierHeld'
  <2>1. ~pushing /\ (at' = "frontier" => promise.frontier = "failed")
    BY Zenon DEF FrontiersOver, AttemptInv, FrontierHeld
  <2>2. UNCHANGED <<request, asking, pushing, promise, stopped>>
    BY Zenon, <1>1 DEF clients
  <2> QED
    BY <1>1, <2>1, <2>2 DEF AttemptInv, FrontierHeld
<1>3. CASE pulls' = <<>> /\ open' = open \ Range(pulls)
  <2>1. Range(pulls') = {} /\ IsInjective(pulls') /\ pulls' \in Seq(Pull)
    BY <1>3 DEF Range, IsInjective
  <2>2. AttemptTypes'
    BY Zenon, <1>1, <1>3, <2>1 DEF AttemptInv, AttemptTypes, clients
  <2>3. Placed'
    BY Zenon, <1>1, <1>3, <2>1 DEF AttemptInv, Placed
  <2>4. Counted'
    BY Zenon, <1>1, <1>3, <2>1 DEF AttemptInv, Counted, CountedFor, Tries, IsLast
  <2> QED
    BY Zenon, <1>2, <2>2, <2>3, <2>4 DEF AttemptInv
<1>4. CASE Shuffle /\ UNCHANGED open
  <2>1. pulls' \in Seq(Pull) /\ Range(pulls') = Range(pulls) /\ IsInjective(pulls')
    <3>1. PICK f \in Bijection(DOMAIN pulls, DOMAIN pulls) :
              pulls' = [i \in DOMAIN pulls |-> pulls[f[i]]]
      BY Zenon, <1>4 DEF Shuffle
    <3>2. pulls \in Seq(Pull) /\ IsInjective(pulls)
      BY Zenon DEF AttemptInv, AttemptTypes, Placed
    <3> QED
      BY Zenon, <3>1, <3>2, Shuffled
  <2>2. AttemptTypes'
    BY Zenon, <1>1, <1>4, <2>1 DEF AttemptInv, AttemptTypes, clients
  <2>3. Placed'
    BY Zenon, <1>1, <1>4, <2>1 DEF AttemptInv, Placed
  <2>4. Counted'
    BY <1>1, <1>4, <2>1 DEF AttemptInv, Counted, CountedFor, Tries, IsLast
  <2> QED
    BY Zenon, <1>2, <2>2, <2>3, <2>4 DEF AttemptInv
<1> QED
  BY Zenon, <1>3, <1>4 DEF FrontiersOver

(* request_pull takes the first of the queue, where there is one. *)
LEMMA HandPullInv ==
    ASSUME AttemptInv, pulls # <<>>, at \in {"inner", "pconn"},
           NEW c \in Conn \cup {NoConn}, Gets(c), HandPull(c)
    PROVE  AttemptInv'
<1>1. idle' \in Seq(Conn) /\ UNCHANGED <<stopped, connecting>>
  BY Zenon, GetsTypes
<1>2. at' = "inner" /\ UNCHANGED <<client, attempts, open, requests, dropped, clients>>
  BY Zenon DEF HandPull
<1>3. FrontierHeld'
  BY Zenon, <1>1, <1>2 DEF AttemptInv, FrontierHeld, clients
<1>4. CASE c = NoConn
  <2>1. UNCHANGED <<pulls, handed>>
    BY Zenon, <1>4 DEF HandPull
  <2>2. AttemptTypes'
    BY Zenon, <1>1, <1>2, <2>1 DEF AttemptInv, AttemptTypes, clients
  <2>3. Placed'
    BY Zenon, <1>2, <2>1 DEF AttemptInv, Placed
  <2>4. Counted'
    BY <1>2, <2>1 DEF AttemptInv, Counted, CountedFor, Tries, IsLast
  <2> QED
    BY Zenon, <1>3, <2>2, <2>3, <2>4 DEF AttemptInv
<1>5. CASE c # NoConn
  <2>1. PICK p \in Pull :
            /\ pulls' = Tail(pulls) /\ handed' = [handed EXCEPT ![p] = c]
            /\ p \in Range(pulls) /\ pulls' \in Seq(Pull)
            /\ IsInjective(pulls') /\ Range(pulls') = Range(pulls) \ {p}
    <3>1. pulls' = Tail(pulls) /\ handed' = [handed EXCEPT ![Head(pulls)] = c]
      BY Zenon, <1>5 DEF HandPull
    <3>2. pulls \in Seq(Pull) /\ IsInjective(pulls)
      BY Zenon DEF AttemptInv, AttemptTypes, Placed
    <3>3. /\ Head(pulls) \in Pull /\ Head(pulls) \in Range(pulls) /\ Tail(pulls) \in Seq(Pull)
          /\ IsInjective(Tail(pulls)) /\ Range(Tail(pulls)) = Range(pulls) \ {Head(pulls)}
      BY Zenon, <3>2, PopFront
    <3> QED
      BY Zenon, <3>1, <3>3
  <2>2. handed[p] = NoConn /\ client[p] = NoConn /\ p \in open
    BY Zenon, <2>1 DEF AttemptInv, Placed
  <2>3. AttemptTypes'
    BY Zenon, <1>1, <1>2, <2>1, <2>2 DEF AttemptInv, AttemptTypes, clients
  <2>4. Placed'
    BY Zenon, <1>2, <1>5, <2>1, <2>2 DEF AttemptInv, AttemptTypes, Placed
  <2>5. CountedFor(p)'
    BY Zenon, <1>2, <2>1, <2>2 DEF AttemptInv, AttemptTypes, Counted, CountedFor, Tries, IsLast
  <2>6. ASSUME NEW q \in Pull, q # p PROVE CountedFor(q)'
    BY Zenon, <1>2, <2>1, <2>2, <2>6 DEF AttemptInv, AttemptTypes, Counted, CountedFor, Tries, IsLast
  <2> QED
    BY Zenon, <1>3, <2>3, <2>4, <2>5, <2>6 DEF AttemptInv, Counted
<1> QED
  BY Zenon, <1>4, <1>5

LEMMA PullLoopInv == ASSUME AttemptInv, PullLoop PROVE AttemptInv'
<1>1. CASE /\ (at = "inner" /\ pulls # <<>>) \/ at = "pconn"
           /\ Waits("pconn") \/ \E c \in Conn \cup {NoConn} : Gets(c) /\ HandPull(c)
  <2>1. pulls # <<>> /\ at \in {"inner", "pconn"}
    BY Zenon, <1>1 DEF AttemptInv, Placed
  <2>2. ASSUME Waits("pconn") PROVE AttemptInv'
    <3>1. UNCHANGED <<stopped, connecting, idle, clients, work>> /\ at' = "pconn"
      BY Zenon, <2>2 DEF Waits, attempt, connections
    <3>2. FrontierHeld'
      BY Zenon, <2>1, <3>1 DEF AttemptInv, FrontierHeld, clients
    <3> QED
      BY Zenon, <2>1, <3>1, <3>2, TypesStay, WorkStays DEF AttemptInv
  <2>3. ASSUME NEW c \in Conn \cup {NoConn}, Gets(c), HandPull(c) PROVE AttemptInv'
    BY Zenon, <2>1, <2>3, HandPullInv
  <2> QED
    BY Zenon, <1>1, <2>2, <2>3
<1>2. CASE UNCHANGED attempt /\ at = "inner" /\ at' \in {"inner", "flush"}
  <2>1. UNCHANGED <<stopped, connecting, idle, clients, work>>
    BY Zenon, <1>2 DEF attempt, connections
  <2>2. FrontierHeld'
    BY Zenon, <1>2, <2>1 DEF AttemptInv, FrontierHeld, clients
  <2> QED
    BY Zenon, <1>2, <2>1, <2>2, TypesStay, WorkStays DEF AttemptInv
<1> QED
  BY Zenon, <1>1, <1>2 DEF PullLoop

LEMMA RunEndsInv == ASSUME AttemptInv, RunEnds, UNCHANGED clients PROVE AttemptInv'
<1>1. stopped' /\ idle' \in Seq(Conn) /\ at' = "over" /\ UNCHANGED <<connecting, work>>
  BY DEF RunEnds
<1>2. AttemptTypes'
  BY Zenon, <1>1 DEF AttemptInv, AttemptTypes, work, clients
<1>3. FrontierHeld'
  BY Zenon, <1>1 DEF AttemptInv, FrontierHeld, clients
<1> QED
  BY Zenon, <1>1, <1>2, <1>3, WorkStays DEF AttemptInv

(* The push goes over the frontier connection while that exists. *)
LEMMA PullsInv == ASSUME AttemptInv, Pulls PROVE AttemptInv'
<1>1. CASE UNCHANGED attempt /\ at' = "inner"
  <2>1. UNCHANGED <<stopped, connecting, idle, clients, work>>
    BY Zenon, <1>1 DEF attempt, connections
  <2>2. FrontierHeld'
    BY Zenon, <1>1, <2>1 DEF AttemptInv, FrontierHeld, clients, Pulls
  <2> QED
    BY Zenon, <1>1, <2>1, <2>2, TypesStay, WorkStays DEF AttemptInv
<1>2. CASE /\ request \in Alive /\ at' = "pushing"
           /\ promise' = [promise EXCEPT !.push = "none"]
           /\ UNCHANGED <<stopped, connections, request, asking, work>>
  <2>1. request \in Conn
    BY Zenon, <1>2, AliveConn
  <2>2. DOMAIN promise' = {"frontier", "push"} /\ promise'.frontier = promise.frontier
    BY Zenon, <1>2 DEF AttemptInv, AttemptTypes
  <2>3. AttemptTypes'
    BY Zenon, <1>2, <2>2 DEF AttemptInv, AttemptTypes, work, connections
  <2>4. FrontierHeld'
    BY Zenon, <1>2, <2>1, <2>2 DEF AttemptInv, FrontierHeld
  <2> QED
    BY Zenon, <1>2, <2>3, <2>4, WorkStays DEF AttemptInv
<1> QED
  BY Zenon, <1>1, <1>2, RunEndsInv DEF Pulls

LEMMA StartInv == ASSUME AttemptInv, Start PROVE AttemptInv'
<1>1. PopulateConnections /\ UNCHANGED <<idle, promise, work, asking, pushing>> /\ at' = "frontier"
  BY Zenon DEF Start
<1>2. ~asking /\ ~pushing
  BY Zenon DEF Start, AttemptInv, FrontierHeld
<1>3. AttemptTypes' /\ request' \in Conn \cup {NoConn}
  BY Zenon, <1>1, PopulateKeeps
<1>4. FrontierHeld'
  BY Zenon, <1>1, <1>2, <1>3 DEF FrontierHeld
<1>5. Placed' /\ Counted'
  BY Zenon, <1>1, WorkStays
<1> QED
  BY Zenon, <1>3, <1>4, <1>5 DEF AttemptInv

(* A new attempt starts with nothing. *)
Fresh ==
    /\ connecting = {} /\ idle = <<>> /\ request = NoConn /\ asking = FALSE /\ pushing = FALSE
    /\ promise = [frontier |-> "none", push |-> "none"]
    /\ pulls = <<>> /\ handed = [p \in Pull |-> NoConn] /\ client = [p \in Pull |-> NoConn]
    /\ attempts = [p \in Pull |-> 0] /\ requests = [p \in Pull |-> 0]
    /\ open = {} /\ dropped = {} /\ at = "idle"

LEMMA FreshInv == Fresh => AttemptInv
<1> SUFFICES ASSUME Fresh PROVE AttemptInv
  BY Zenon
<1>1. AttemptTypes
  BY DEF Fresh, AttemptTypes
<1>2. FrontierHeld
  BY Zenon DEF Fresh, FrontierHeld
<1>3. Range(pulls) = {} /\ IsInjective(pulls)
  BY DEF Fresh, Range, IsInjective
<1>4. Placed
  BY Zenon, <1>3 DEF Fresh, Placed
<1>5. Counted
  BY <1>3, BootstrapAssumption DEF Fresh, Counted, CountedFor, Tries
<1> QED
  BY Zenon, <1>1, <1>2, <1>4, <1>5 DEF AttemptInv

LEMMA OverInv == Over => AttemptInv'
<1>1. Over => Fresh'
  BY Zenon DEF Over, Fresh
<1> QED
  BY <1>1, FreshInv, PTL

-----------------------------------------------------------------------------
(* The initiator's steps, and those of its callers *)

LEMMA RunInv == ASSUME AttemptInv, Run PROVE AttemptInv'
<1>1. CASE Fall
  <2>1. UNCHANGED <<stopped, connecting, idle, clients, work, at>>
    BY Zenon, <1>1 DEF Fall, attempt, connections
  <2> QED
    BY Zenon, <2>1, TypesStay, FrontierStays, WorkStays DEF AttemptInv
<1>2. CASE (Flushed \/ Exit) /\ UNCHANGED initiator
  <2>1. UNCHANGED <<stopped, connecting, idle, clients, work>>
    BY Zenon, <1>2 DEF Flushed, Exit, attempt, connections
  <2>2. at \in {"flush", "idle"} /\ at' \in {"pulls", "ended"}
    BY Zenon, <1>2 DEF Flushed, Exit
  <2>3. FrontierHeld'
    BY Zenon, <2>1, <2>2 DEF AttemptInv, FrontierHeld, clients
  <2> QED
    BY Zenon, <2>1, <2>2, <2>3, TypesStay, WorkStays DEF AttemptInv
<1>3. CASE Pushed
  BY Zenon, <1>3, RunEndsInv DEF Pushed
<1> QED
  BY Zenon, <1>1, <1>2, <1>3, OverInv, RequestFrontierInv, FrontiersOverInv, PullLoopInv,
     PullsInv, StartInv
     DEF Run

LEMMA NewAttemptInv ==
    ASSUME AttemptInv, NEW given \in SUBSET Conn, NewAttempt(given), UNCHANGED at
    PROVE  AttemptInv'
<1>1. connecting' \subseteq Conn /\ UNCHANGED <<stopped, idle, clients, work>>
  BY Zenon DEF NewAttempt
<1>2. AttemptTypes'
  BY Zenon, <1>1 DEF AttemptInv, AttemptTypes, clients, work
<1> QED
  BY Zenon, <1>1, <1>2, FrontierStays, WorkStays DEF AttemptInv

(* What was asked for when the attempt is stopped is no longer waited for. *)
LEMMA AttemptStopInv == ASSUME AttemptInv, AttemptStop, UNCHANGED at PROVE AttemptInv'
<1>1. DOMAIN promise' = {"frontier", "push"}
  BY Zenon, PromiseTypes DEF AttemptStop
<1>2. stopped' /\ UNCHANGED <<connecting, idle, request, asking, pushing, work>>
  BY Zenon DEF AttemptStop, connections
<1>3. AttemptTypes'
  BY Zenon, <1>1, <1>2 DEF AttemptInv, AttemptTypes, work
<1>4. FrontierHeld'
  BY Zenon, <1>2 DEF AttemptInv, FrontierHeld
<1> QED
  BY Zenon, <1>2, <1>3, <1>4, WorkStays DEF AttemptInv

LEMMA CallsInv ==
    ASSUME AttemptInv, Bootstrap \/ Stop \/ \E x \in Caller : BootstrapTo(x)
    PROVE  AttemptInv'
<1>1. CASE Bootstrap
  BY Zenon, <1>1, NewAttemptInv DEF Bootstrap
<1>2. CASE Stop
  <2>1. CASE UNCHANGED attempt
    <3>1. UNCHANGED <<stopped, connecting, idle, clients, work, at>>
      BY Zenon, <1>2, <2>1 DEF Stop, attempt, connections
    <3> QED
      BY Zenon, <3>1, TypesStay, FrontierStays, WorkStays DEF AttemptInv
  <2> QED
    BY Zenon, <1>2, <2>1, AttemptStopInv DEF Stop
<1>3. ASSUME NEW x \in Caller, BootstrapTo(x) PROVE AttemptInv'
  <2>1. {CHOOSE c \in Conn : TRUE} \subseteq Conn
    BY Zenon, BootstrapAssumption
  <2> QED
    BY Zenon, <1>3, <2>1, NewAttemptInv, AttemptStopInv DEF BootstrapTo
<1> QED
  BY Zenon, <1>1, <1>2, <1>3

(* The invariant of an attempt, over all its steps. *)
THEOREM BootstrapInvariant == Spec => []AttemptInv
<1>1. Init => AttemptInv
  BY Zenon, FreshInv DEF Init, Fresh
<1>2. AttemptInv /\ [Next]_vars => AttemptInv'
  <2> SUFFICES ASSUME AttemptInv, [Next]_vars PROVE AttemptInv'
    BY Zenon
  <2>1. CASE UNCHANGED vars
    <3>1. UNCHANGED <<stopped, connecting, idle, clients, work, at>>
      BY Zenon, <2>1 DEF vars, attempt, connections
    <3> QED
      BY Zenon, <3>1, TypesStay, FrontierStays, WorkStays DEF AttemptInv
  <2>2. CASE Next
    BY Zenon, <2>2, RunInv, AlarmInv, ConnectedInv, FrontiersEndInv, FrontiersFailInv,
       ReceivedInv,
       BackgroundInv, PullEndsInv, ForkInv, PullLeavesInv, PushEndsInv, CallsInv
       DEF Next
  <2> QED
    BY Zenon, <2>1, <2>2
<1> QED
  BY <1>1, <1>2, PTL DEF Spec

-----------------------------------------------------------------------------

(* Pulls are tried at most RetryLimit + 1 times, and given up after        *)
(* RetryLimit tries or more, whatever connections fail or end              *)
(* (requeue_pull); the resolved fork counts as a try of its pull.          *)
THEOREM BootstrapRetries == Spec => []RetriesBounded
<1>1. AttemptInv => RetriesBounded
  <2> SUFFICES ASSUME AttemptInv, NEW p \in Pull
               PROVE  Tries(p) <= RetryLimit + 1 /\ (p \in dropped => Tries(p) >= RetryLimit)
    BY Zenon DEF RetriesBounded
  <2>1. CountedFor(p) /\ attempts[p] \in Nat /\ requests[p] \in Nat
    BY Zenon DEF AttemptInv, AttemptTypes, Counted
  <2> QED
    BY <2>1, BootstrapAssumption DEF CountedFor
<1> QED
  BY <1>1, BootstrapInvariant, PTL

(* A pull that is open is in one place, and no other is anywhere: none is  *)
(* lost between the queue, the background threads and the clients, and no  *)
(* two clients ask for the same.                                           *)
THEOREM BootstrapAccounts == Spec => []PullsAccounted
<1>1. AttemptInv => PullsAccounted
  <2> SUFFICES ASSUME AttemptInv, NEW p \in Pull
               PROVE  Places(p) = IF p \in open THEN 1 ELSE 0
    BY Zenon DEF PullsAccounted
  <2> DEFINE Q == {i \in DOMAIN pulls : pulls[i] = p}
             H == {i \in 1 .. 2 : <<handed, client>>[i][p] # NoConn}
  <2>1. Cardinality(Q) = IF p \in Range(pulls) THEN 1 ELSE 0
    <3>1. CASE p \in Range(pulls)
      <4>1. PICK i \in DOMAIN pulls : pulls[i] = p
        BY Zenon, <3>1 DEF Range
      <4>2. Q = {i}
        BY Zenon, <4>1 DEF AttemptInv, Placed, IsInjective
      <4> QED
        BY Zenon, <3>1, <4>2, FS_Singleton
    <3>2. CASE p \notin Range(pulls)
      <4>1. Q = {}
        BY Zenon, <3>2 DEF Range
      <4> QED
        BY Zenon, <3>2, <4>1, FS_EmptySet
    <3> QED
      BY Zenon, <3>1, <3>2
  <2>2. Cardinality(H) = IF handed[p] # NoConn \/ client[p] # NoConn THEN 1 ELSE 0
    <3>1. H = {i \in {1} : handed[p] # NoConn} \cup {i \in {2} : client[p] # NoConn}
      OBVIOUS
    <3>2. handed[p] # NoConn => client[p] = NoConn
      BY Zenon DEF AttemptInv, Placed
    <3>3. H = {1} \/ H = {2} \/ H = {}
      BY Zenon, <3>1, <3>2
    <3>4. H = {} <=> handed[p] = NoConn /\ client[p] = NoConn
      BY Zenon, <3>1
    <3> HIDE DEF H
    <3> QED
      BY Zenon, <3>3, <3>4, FS_Singleton, FS_EmptySet
  <2>3. Places(p) = Cardinality(Q) + Cardinality(H)
    BY Zenon DEF Places
  <2> HIDE DEF Q, H
  <2> QED
    BY <2>1, <2>2, <2>3 DEF AttemptInv, Placed
<1> QED
  BY <1>1, BootstrapInvariant, PTL

=============================================================================
