----------------------------- MODULE StoreCaches -----------------------------
(***************************************************************************)
(* The two tables of the block store that have a cache in front of them:   *)
(* the highest vote known of every account, whose sequence number the next *)
(* vote of a representative continues, and the unchecked blocks, which     *)
(* wait for a block they refer to.  Calls change the caches; a flush,      *)
(* every few seconds, moves the caches to the tables.                      *)
(*                                                                         *)
(* A transaction of the environment sees the tables as they were when it   *)
(* began, and there is one write transaction at a time.  flush runs inside *)
(* one: it empties the caches first and its writes show when it commits.   *)
(* Several threads hold transactions and call vote_max (a vote arrived)    *)
(* and vote_generate (we vote); the block processor, inside a write        *)
(* transaction, puts blocks aside and takes them back.                     *)
(*                                                                         *)
(* Operators named ...NoCheck or ...New are the code with one mistake.     *)
(***************************************************************************)
EXTENDS Integers, Sequences

CONSTANTS
    Rep,            \* accounts that vote
    Thread,         \* threads that open transactions
    Hash,           \* hashes that blocks wait for
    Block,          \* blocks that wait
    MaxSequence,    \* bound on sequence numbers (2^64 - 1 in the code)
    MaxGenerated,   \* bound on the votes generated for an account
    Nobody, Flush   \* holders of the write transaction that are no threads

ASSUME NamesDiffer == Nobody \notin Thread /\ Flush \notin Thread /\ Nobody # Flush

ASSUME BoundsAreNumbers == MaxSequence \in Nat /\ MaxGenerated \in Nat

VARIABLES
    vote,             \* table: account -> highest sequence number (0: no entry)
    unchecked,        \* table: pairs of a hash and a block that waits for it
    vote_cache,       \* account -> sequence number (0: no entry)
    unchecked_cache,  \* pairs not in the table yet
    writer,           \* who holds the write transaction
    open,             \* the threads that have a transaction open
    snapshot,         \* thread -> the vote table as its transaction sees it
    unchecked_write,  \* the unchecked table as the write transaction sees it
    sequence_cache_l, \* the votes that flush has taken from the cache
    unchecked_cache_l \* the blocks that flush has taken from the cache

tables == <<vote, unchecked>>
caches == <<vote_cache, unchecked_cache>>
transactions == <<writer, open, snapshot, unchecked_write>>
taken == <<sequence_cache_l, unchecked_cache_l>>

(* What the node knows and the program does not record. *)
VARIABLES
    highest,  \* account -> highest number generated or seen, before restarts too
    issued,   \* account -> numbers generated, in order, before restarts too
    lost,     \* account -> numbers up to one that the store knew and forgot
    waiting,  \* pairs put aside and neither taken back nor cleared
    fresh     \* threads whose transaction sees every flush there was

history == <<highest, issued, lost, waiting, fresh>>
vars == <<tables, caches, transactions, taken, history>>

None == [r \in Rep |-> 0]

Init ==
    /\ vote = None
    /\ unchecked = {}
    /\ vote_cache = None
    /\ unchecked_cache = {}
    /\ writer = Nobody
    /\ open = {}
    /\ snapshot = [t \in Thread |-> None]
    /\ unchecked_write = {}
    /\ sequence_cache_l = None
    /\ unchecked_cache_l = {}
    /\ highest = None
    /\ issued = [r \in Rep |-> <<>>]
    /\ lost = [r \in Rep |-> {}]
    /\ waiting = {}
    /\ fresh = {}

-----------------------------------------------------------------------------
(* Transactions *)

(* mdb_txn_begin: a snapshot; a writer waits until there is no other. *)
Begin(t, write) ==
    /\ t \notin open
    /\ write => writer = Nobody
    /\ open' = open \cup {t}
    /\ snapshot' = [snapshot EXCEPT ![t] = vote]
    /\ writer' = IF write THEN t ELSE writer
    /\ unchecked_write' = IF write THEN unchecked ELSE unchecked_write
    /\ fresh' = IF writer = Flush THEN fresh ELSE fresh \cup {t}
    /\ UNCHANGED <<tables, caches, taken, highest, issued, lost, waiting>>

(* mdb_txn_commit, from the destructor. *)
Commit(t) ==
    /\ t \in open
    /\ open' = open \ {t}
    /\ fresh' = fresh \ {t}
    /\ snapshot' = [snapshot EXCEPT ![t] = None]
    /\ unchecked' = IF writer = t THEN unchecked_write ELSE unchecked
    /\ unchecked_write' = IF writer = t THEN {} ELSE unchecked_write
    /\ writer' = IF writer = t THEN Nobody ELSE writer
    /\ UNCHANGED <<vote, caches, taken, highest, issued, lost, waiting>>

-----------------------------------------------------------------------------
(* Votes *)

vote_get(t, r) == snapshot[t][r]

vote_current(t, r) == IF vote_cache[r] # 0 THEN vote_cache[r] ELSE vote_get(t, r)

Larger(m, n) == IF m > n THEN m ELSE n

(* The highest number of r in the cache, in the hands of flush or in the   *)
(* table: the store's memory.                                              *)
Known(r) ==
    IF vote_cache[r] # 0 THEN vote_cache[r]
    ELSE IF sequence_cache_l[r] # 0 THEN sequence_cache_l[r]
    ELSE vote[r]

(* What the store has forgotten once it goes on from the number n.         *)
Lost(r, n) == lost[r] \cup (n + 1 .. Known(r))

(* What a call puts in the cache is what the node knows from then on; only *)
(* one whose transaction is older than a flush may go on from less than    *)
(* the store knew.                                                         *)
Know(t, r, sequence, seen) ==
    /\ vote_cache' = [vote_cache EXCEPT ![r] = sequence]
    /\ highest' = [highest EXCEPT ![r] = Larger(highest[r], seen)]
    /\ lost' = IF t \in fresh \/ vote_cache[r] # 0 THEN lost
               ELSE [lost EXCEPT ![r] = Lost(r, vote_get(t, r))]
    /\ UNCHANGED <<tables, unchecked_cache, transactions, taken, waiting, fresh>>

VoteGenerate(t, r) ==
    /\ t \in open
    /\ Len(issued[r]) < MaxGenerated /\ vote_current(t, r) < MaxSequence
    /\ LET sequence == vote_current(t, r) + 1
       IN  /\ Know(t, r, sequence, sequence)
           /\ issued' = [issued EXCEPT ![r] = Append(issued[r], sequence)]

VoteMaxNoCheck(t, r, sequence) ==
    /\ t \in open
    /\ Know(t, r, sequence, sequence)
    /\ UNCHANGED issued

VoteMax(t, r, sequence) ==
    /\ t \in open
    /\ Know(t, r, Larger(vote_current(t, r), sequence), sequence)
    /\ UNCHANGED issued

-----------------------------------------------------------------------------
(* Unchecked blocks *)

unchecked_get(h) == {w \in unchecked_cache \cup unchecked_write : w[1] = h}

unchecked_del(table, h) == table \ unchecked_get(h)

UncheckedPutNoCheck(t, h, b) ==
    /\ writer = t
    /\ unchecked_cache' = unchecked_cache \cup {<<h, b>>}
    /\ waiting' = waiting \cup {<<h, b>>}
    /\ UNCHANGED <<tables, vote_cache, transactions, taken, highest, issued, lost, fresh>>

(* A block is put in the cache unless the cache or the table has it. *)
UncheckedPut(t, h, b) ==
    /\ writer = t
    /\ unchecked_cache' = IF <<h, b>> \in unchecked_get(h) THEN unchecked_cache
                          ELSE unchecked_cache \cup {<<h, b>>}
    /\ waiting' = waiting \cup {<<h, b>>}
    /\ UNCHANGED <<tables, vote_cache, transactions, taken, highest, issued, lost, fresh>>

(* block_processor::queue_unchecked takes back every block that waits for  *)
(* h; unchecked_del deletes it from the cache and from the table.          *)
QueueUnchecked(t, h) ==
    /\ writer = t
    /\ unchecked_cache' = unchecked_del(unchecked_cache, h)
    /\ unchecked_write' = unchecked_del(unchecked_write, h)
    /\ waiting' = waiting \ unchecked_get(h)
    /\ UNCHANGED <<tables, vote_cache, writer, open, snapshot, taken, highest, issued, lost, fresh>>

(* unchecked_clear drops the table, not the cache. *)
UncheckedClear(t) ==
    /\ writer = t
    /\ unchecked_write' = {}
    /\ waiting' = waiting \ unchecked_write
    /\ UNCHANGED <<tables, caches, writer, open, snapshot, taken, highest, issued, lost, fresh>>

-----------------------------------------------------------------------------
(* flush *)

(* The write transaction begins and, under cache_mutex, the caches are     *)
(* swapped out: transactions open now, and until flush commits, do not see *)
(* what was in them.                                                       *)
FlushSwap ==
    /\ writer = Nobody
    /\ writer' = Flush
    /\ sequence_cache_l' = vote_cache
    /\ unchecked_cache_l' = unchecked_cache
    /\ vote_cache' = None
    /\ unchecked_cache' = {}
    /\ fresh' = {}
    /\ UNCHANGED <<tables, open, snapshot, unchecked_write, highest, issued, lost, waiting>>

FlushCommitNew ==
    /\ writer = Flush
    /\ writer' = Nobody
    /\ vote' = [r \in Rep |-> IF vote[r] = 0 THEN sequence_cache_l[r] ELSE vote[r]]
    /\ unchecked' = unchecked \cup unchecked_cache_l
    /\ sequence_cache_l' = None
    /\ unchecked_cache_l' = {}
    /\ UNCHANGED <<caches, open, snapshot, unchecked_write, history>>

(* The puts, which overwrite, and the commit that makes them visible. *)
FlushCommit ==
    /\ writer = Flush
    /\ writer' = Nobody
    /\ vote' = [r \in Rep |-> IF sequence_cache_l[r] # 0 THEN sequence_cache_l[r] ELSE vote[r]]
    /\ unchecked' = unchecked \cup unchecked_cache_l
    /\ sequence_cache_l' = None
    /\ unchecked_cache_l' = {}
    /\ UNCHANGED <<caches, open, snapshot, unchecked_write, history>>

(* The node stops anywhere and starts again: the committed tables remain.  *)
Restart ==
    /\ vote_cache' = None
    /\ unchecked_cache' = {}
    /\ writer' = Nobody
    /\ open' = {}
    /\ snapshot' = [t \in Thread |-> None]
    /\ unchecked_write' = {}
    /\ sequence_cache_l' = None
    /\ unchecked_cache_l' = {}
    /\ lost' = [r \in Rep |-> Lost(r, vote[r])]
    /\ waiting' = unchecked
    /\ fresh' = {}
    /\ UNCHANGED <<tables, highest, issued>>

-----------------------------------------------------------------------------

Next ==
    \/ \E t \in Thread :
        \/ \E write \in BOOLEAN : Begin(t, write)
        \/ Commit(t)
        \/ \E r \in Rep :
            \/ VoteGenerate(t, r)
            \/ \E sequence \in 1 .. MaxSequence : VoteMax(t, r, sequence)
        \/ \E h \in Hash :
            \/ \E b \in Block : UncheckedPut(t, h, b)
            \/ QueueUnchecked(t, h)
        \/ UncheckedClear(t)
    \/ FlushSwap
    \/ FlushCommit
    \/ Restart

Spec == Init /\ [][Next]_vars

-----------------------------------------------------------------------------

Pairs == Hash \X Block

TypeOK ==
    /\ vote \in [Rep -> Nat]
    /\ unchecked \subseteq Pairs
    /\ vote_cache \in [Rep -> Nat]
    /\ unchecked_cache \subseteq Pairs
    /\ writer \in open \cup {Nobody, Flush}
    /\ open \subseteq Thread
    /\ snapshot \in [Thread -> [Rep -> Nat]]
    /\ unchecked_write \subseteq Pairs
    /\ sequence_cache_l \in [Rep -> Nat]
    /\ unchecked_cache_l \subseteq Pairs
    /\ highest \in [Rep -> Nat]
    /\ issued \in [Rep -> Seq(Nat)]
    /\ lost \in [Rep -> SUBSET Nat]
    /\ waiting \subseteq Pairs
    /\ fresh \subseteq open

(* The cache, then what flush holds, then the table, say the highest       *)
(* number that was ever generated or seen, unless the store forgot it: in  *)
(* a crash before flush committed it, or in a call of vote_max or          *)
(* vote_generate that found the cache empty and read the table in a        *)
(* transaction older than the flush.                                       *)
KnownIsHighest ==
    \A r \in Rep : Known(r) <= highest[r] /\ Known(r) + 1 .. highest[r] \subseteq lost[r]

(* vote_generate goes above all numbers it gave before, in earlier runs of *)
(* the node too, unless the number is one that the store forgot in one of  *)
(* these two ways: what a flush has committed is not used again after a    *)
(* restart, and threads that vote between flushes never share a number.    *)
SequencesRise ==
    \A r \in Rep : \A i, j \in 1 .. Len(issued[r]) :
        i < j => issued[r][i] < issued[r][j] \/ issued[r][j] \in lost[r]

Visible == IF writer \in Thread THEN unchecked_write ELSE unchecked

(* A block that was put aside is in exactly one of the cache, the table    *)
(* and the hands of flush, until it is taken back: whoever holds the write *)
(* transaction finds it, once (unchecked_put looks in both places, flush   *)
(* moves blocks between them).                                             *)
UncheckedFoundOnce ==
    /\ waiting = unchecked_cache \cup unchecked_cache_l \cup Visible
    /\ unchecked_cache \cap (unchecked_cache_l \cup Visible) = {}
    /\ unchecked_cache_l \cap Visible = {}

=============================================================================
