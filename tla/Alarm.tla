------------------------------- MODULE Alarm --------------------------------
(***************************************************************************)
(* rai::alarm: a thread that posts operations to the io service when their *)
(* time has come.  Time is kept as the time left to each operation; those  *)
(* that are due come in any order.  An operation without a function, from  *)
(* the destructor, ends the thread.                                        *)
(***************************************************************************)
EXTENDS Naturals

CONSTANT Null   \* the operation of the destructor

VARIABLES
    operations, \* function -> the time left, for those that wait; none is
                \* added again before it is posted
    posted,     \* functions handed to the io service, not yet run
    thread,     \* "check", "asleep", "timed" or "ended"
    timer       \* the time left to the thread's sleep when it is timed

alarm == <<operations, posted, thread, timer>>

Waiting == DOMAIN operations
Top(f) == f \in Waiting /\ \A g \in Waiting : operations[f] <= operations[g]
Less(n) == IF n = 0 THEN 0 ELSE n - 1

(* alarm::add notifies the thread: the new operation may come first. *)
AlarmAdd(f, time) ==
    /\ operations' = [g \in Waiting \cup {f} |-> IF g = f THEN time ELSE operations[g]]
    /\ thread' = IF thread = "ended" THEN thread ELSE "check"
    /\ timer' = 0
    /\ UNCHANGED posted

(* alarm::~alarm *)
AlarmDestroy ==
    /\ Null \notin Waiting
    /\ AlarmAdd(Null, 0)

Tick ==
    /\ \E f \in Waiting : operations[f] > 0
    /\ operations' = [f \in Waiting |-> Less(operations[f])]
    /\ timer' = Less(timer)
    /\ UNCHANGED <<posted, thread>>

(* alarm::run *)
Post(f) ==
    /\ thread = "check"
    /\ Top(f)
    /\ f # Null
    /\ operations[f] = 0
    /\ posted' = posted \cup {f}
    /\ operations' = [g \in Waiting \ {f} |-> operations[g]]
    /\ UNCHANGED <<thread, timer>>

SleepUntil(f) ==
    /\ thread = "check"
    /\ Top(f)
    /\ f # Null
    /\ operations[f] > 0
    /\ thread' = "timed"
    /\ timer' = operations[f]
    /\ UNCHANGED <<operations, posted>>

Sleep ==
    /\ thread = "check"
    /\ Waiting = {}
    /\ thread' = "asleep"
    /\ UNCHANGED <<operations, posted, timer>>

Wake ==
    /\ thread = "timed"
    /\ timer = 0
    /\ thread' = "check"
    /\ UNCHANGED <<operations, posted, timer>>

End ==
    /\ thread = "check"
    /\ Top(Null)
    /\ thread' = "ended"
    /\ UNCHANGED <<operations, posted, timer>>

AlarmRun == (\E f \in Waiting : Post(f) \/ SleepUntil(f)) \/ Sleep \/ Wake \/ End

AlarmInit ==
    /\ operations = [f \in {} |-> 0]
    /\ posted = {}
    /\ thread = "check"
    /\ timer = 0

=============================================================================
