------------------------------- MODULE Wallet -------------------------------
(***************************************************************************)
(* A wallet and the node around it: calls that are queued by priority and  *)
(* done by one thread, each building a block on the head of an account,    *)
(* handing it to the block processor and waiting for it (flush); the table *)
(* of send ids that makes a repeated send harmless; the search for pending *)
(* sends and the elections that lead from a confirmed send to its receive; *)
(* locking, stopping, crashing and starting again.                         *)
(*                                                                         *)
(* A block is what is hashed: two blocks are the same block if they are    *)
(* equal.  Its height stands for its previous block, as no account of the  *)
(* wallet is used elsewhere; representatives are left out.  What the block *)
(* processor and the elections do is in BlockProcessor and Election.  A    *)
(* block that a crash loses does not come back from peers.                 *)
(*                                                                         *)
(* InsertLast, KnownTrusts, KnownNever, FlushEarly and SearchedOpen are    *)
(* the definitions that follow them with a mistake in them.  Nothing uses  *)
(* them.                                                                   *)
(***************************************************************************)
EXTENDS Integers, FiniteSets, Sequences, Functions

CONSTANTS
    Account,        \* accounts whose keys are or come into the wallet
    Funded,         \* the one of them that has a block at first
    Outside,        \* an account of someone else
    Id,             \* ids of sends
    NoId, NoBlock,
    Amount,         \* amounts sent
    ReceiveMinimum, \* node_config::receive_minimum
    Supply,         \* genesis_amount
    Encrypted,      \* whether the password is not the empty one
    Budget          \* bounds: how many calls of send, change and receive ("call"), such calls
                    \* that bring their own work, sends from outside, calls of lock, unlock and
                    \* search ("control") and restarts come

ASSUME WalletAssumption ==
    /\ Funded \in Account
    /\ Outside \notin Account
    /\ Amount \subseteq Nat \ {0}
    /\ {ReceiveMinimum, Supply} \subseteq Nat
    /\ Budget \subseteq [{"call", "own", "outside", "control", "restart"} -> Nat]

VARIABLES
    chain,      \* account -> its blocks in the ledger
    keys,       \* wallet_store: accounts in the wallet
    ids,        \* send_action_ids: id -> block
    work,       \* cached work: account -> height of the block it is for, -1 if none
    \* lost when the node goes down
    up,         \* "on", "halting" (processor and elections stopped) or "off"
    locked,     \* no valid password
    actions,    \* wallets::actions, in the order of priority
    thread,     \* of do_wallet_actions: what it does and the block it made
    queue,      \* blocks with the block processor
    voting,     \* blocks in an election that is not confirmed
    lingering,  \* blocks in an election that is, not yet erased
    confirmed,  \* background calls of process_confirmed
    searching,  \* a background call of search_pending
    \* what happened so far
    made,       \* pairs of an id and a block, for blocks that a call with that id made last
    told,       \* blocks that callers were given
    given,      \* accounts that a call brought work for
    found,      \* pending sends a search found, and whether they will be confirmed
    restarted,  \* whether the node went down
    left        \* how much of the budget is left

tables == <<chain, keys, ids, work>>
elections == <<voting, lingering, confirmed>>
history == <<made, told, given, found, restarted, left>>
vars == <<tables, up, locked, actions, thread, queue, elections, searching, history>>

-----------------------------------------------------------------------------
(* The ledger *)

Blocks == UNION {Range(chain[a]) : a \in DOMAIN chain}

(* ledger::latest *)
Latest(a) == chain[a][Len(chain[a])]

Balance(a) == IF chain[a] = <<>> THEN 0 ELSE Latest(a).balance

SentBy(b) == chain[b.account][b.height - 1].balance - b.balance

Pending ==
    {b \in Blocks : b.height > 1 /\ SentBy(b) > 0 /\ \A r \in Blocks : r.link # b}

NextBlock(a, link, balance) ==
    [account |-> a, height |-> Len(chain[a]) + 1, link |-> link, balance |-> balance]

(* The block goes on top of its account's chain, and what it receives is   *)
(* there to be received.                                                   *)
Fits(b) ==
    /\ b.height = Len(chain[b.account]) + 1
    /\ b.balance > Balance(b.account) => b.link \in Pending

(* active_transactions::start: nothing changes if the root has an election. *)
(* Only sends to the wallet's accounts matter here, see ProcessConfirmed.  *)
Started(bs) == voting \cup ({b \in bs : b.link \in Account} \ lingering)

-----------------------------------------------------------------------------
(* The queue of wallet actions *)

High == Supply + 1      \* high_priority
Generate == Supply + 2  \* generate_priority

InsertLast(a) == actions' = Append(actions, a)

Inserted(s, n, a) == SubSeq(s, 1, n) \o <<a>> \o SubSeq(s, n + 1, Len(s))

(* queue_wallet_action: behind those of the same priority. *)
Insert(a) ==
    \E n \in 0 .. Len(actions) :
        /\ \A i \in 1 .. Len(actions) : i <= n <=> actions[i].priority >= a.priority
        /\ actions' = Inserted(actions, n, a)

Uses(kind) == left[kind] > 0 /\ left' = [left EXCEPT ![kind] = @ - 1]

Called(own) == Uses(IF own THEN "own" ELSE "call") /\ up # "off"

(* The rpc stores the work that a call brings, if it is good for the head; *)
(* the work of the next block is not asked for then.                       *)
Brings(a, own) ==
    /\ own => a \in keys
    /\ work' = IF own THEN [work EXCEPT ![a] = Len(chain[a])] ELSE work
    /\ given' = IF own THEN given \cup {a} ELSE given

(* send_async; the rpc looks at the account and the balance before that. *)
SendAsync(a, link, amount, id, own) ==
    /\ Called(own)
    /\ own => chain[a] # <<>>
    /\ Brings(a, own)
    /\ IF own /\ Balance(a) < amount
       THEN UNCHANGED actions
       ELSE Insert([kind |-> "send", priority |-> High, account |-> a, link |-> link,
                    amount |-> amount, id |-> id, generate |-> ~own])
    /\ UNCHANGED <<chain, keys, ids, up, locked, thread, queue, elections, searching, made, told,
                   found, restarted>>

(* change_async; the rpc calls it with work that is no good, too. *)
ChangeAsync(a, own) ==
    /\ Called(own)
    /\ \/ /\ own => chain[a] # <<>>
          /\ Brings(a, own)
       \/ /\ own
          /\ given' = given \cup {a}
          /\ UNCHANGED work
    /\ Insert([kind |-> "change", priority |-> High, account |-> a, generate |-> ~own])
    /\ UNCHANGED <<chain, keys, ids, up, locked, thread, queue, elections, searching, made, told,
                   found, restarted>>

(* receive_async *)
ReceiveCall(b, amount, own) ==
    Insert([kind |-> "receive", priority |-> amount, account |-> b.link, send |-> b,
            generate |-> ~own])

(* The rpc receive, for a pending send to an account in the wallet. *)
RpcReceive(b, own) ==
    /\ Called(own)
    /\ b.link \in keys
    /\ Brings(b.link, own)
    /\ ReceiveCall(b, Supply, own)
    /\ UNCHANGED <<chain, keys, ids, up, locked, thread, queue, elections, searching, made, told,
                   found, restarted>>

WorkEnsure(a, height) ==
    Insert([kind |-> "work", priority |-> Generate, account |-> a, height |-> height])

(* insert_adhoc *)
InsertAdhoc(a) ==
    /\ up # "off"
    /\ a \notin keys
    /\ ~locked
    /\ keys' = keys \cup {a}
    /\ WorkEnsure(a, Len(chain[a]))
    /\ UNCHANGED <<chain, ids, work, up, locked, thread, queue, elections, searching, history>>

-----------------------------------------------------------------------------
(* The thread of do_wallet_actions.  An action reads and writes in one     *)
(* transaction, ...                                                        *)

Idle == [stage |-> "idle", block |-> NoBlock, generate |-> FALSE]

Builds(act, id, b) ==
    /\ thread' = [stage |-> "made", block |-> b, generate |-> act.generate]
    /\ made' = {m \in made : m[2] # b} \cup (IF id = NoId THEN {} ELSE {<<id, b>>})

KnownTrusts(act) == act.id # NoId /\ ids[act.id] # NoBlock

KnownNever(act) == FALSE

(* The id is in the table and its block in the ledger. *)
Known(act) == act.id # NoId /\ ids[act.id] \in Blocks

(* send_action: a send whose id is known and whose block the ledger has    *)
(* gives that block; else a new one is made and its id noted.              *)
SendAction(act) ==
    LET balance == Balance(act.account)
        able == ~locked /\ act.account \in keys /\ balance > 0 /\ balance >= act.amount
        b == NextBlock(act.account, act.link, balance - act.amount)
    IN  \/ /\ Known(act)
           /\ told' = told \cup {ids[act.id]}
           /\ UNCHANGED <<ids, made, thread>>
        \/ /\ ~Known(act) /\ able
           /\ Builds(act, act.id, b)
           /\ ids' = IF act.id = NoId THEN ids ELSE [ids EXCEPT ![act.id] = b]
           /\ UNCHANGED told
        \/ /\ ~Known(act) /\ ~able
           /\ UNCHANGED <<ids, made, told, thread>>

(* change_action *)
ChangeAction(act) ==
    \/ /\ ~locked /\ act.account \in keys /\ chain[act.account] # <<>>
       /\ Builds(act, NoId, NextBlock(act.account, NoBlock, Balance(act.account)))
    \/ /\ locked \/ act.account \notin keys \/ chain[act.account] = <<>>
       /\ UNCHANGED <<thread, made>>

(* receive_action: the priority is the amount it is asked to compare.      *)
ReceiveAction(act) ==
    LET able == act.priority >= ReceiveMinimum /\ act.send \in Pending /\ ~locked
        balance == Balance(act.account) + SentBy(act.send)
    IN  \/ /\ able
           /\ Builds(act, NoId, NextBlock(act.account, act.send, balance))
        \/ /\ ~able
           /\ UNCHANGED <<thread, made>>

(* work_cache_blocking and work_update *)
WorkCache(act) ==
    work' = IF act.account \in keys /\ act.height = Len(chain[act.account])
            THEN [work EXCEPT ![act.account] = act.height] ELSE work

Begin ==
    /\ thread = Idle
    /\ up # "off"
    /\ actions # <<>>
    /\ actions' = Tail(actions)
    /\ LET act == Head(actions)
       IN  \/ act.kind = "send" /\ SendAction(act) /\ UNCHANGED work
           \/ act.kind = "change" /\ ChangeAction(act) /\ UNCHANGED <<ids, work, told>>
           \/ act.kind = "receive" /\ ReceiveAction(act) /\ UNCHANGED <<ids, work, told>>
           \/ act.kind = "work" /\ WorkCache(act) /\ UNCHANGED <<ids, thread, made, told>>
    /\ UNCHANGED <<chain, keys, up, locked, queue, elections, searching, given, found, restarted,
                   left>>

(* ... gets work for its block, unless the cached work is good, and hands  *)
(* it to the processor, if that still runs, ...                            *)
ProcessActive ==
    /\ thread.stage = "made"
    /\ thread' = [thread EXCEPT !.stage = "flush"]
    /\ queue' = IF up = "on" THEN queue \cup {thread.block} ELSE queue
    /\ UNCHANGED <<tables, up, locked, actions, elections, searching, history>>

FlushEarly ==
    /\ thread.stage = "flush"
    /\ thread' = Idle
    /\ told' = IF up = "on" THEN told \cup {thread.block} ELSE told
    /\ IF thread.generate THEN WorkEnsure(thread.block.account, thread.block.height)
       ELSE UNCHANGED actions
    /\ UNCHANGED <<tables, up, locked, queue, elections, searching, made, given, found, restarted,
                   left>>

(* ... and waits until the processor has nothing left or has stopped, asks *)
(* for the work of the next block and answers its caller.                  *)
Flush ==
    /\ thread.stage = "flush"
    /\ queue = {}
    /\ thread' = Idle
    /\ told' = IF up = "on" THEN told \cup {thread.block} ELSE told
    /\ IF thread.generate THEN WorkEnsure(thread.block.account, thread.block.height)
       ELSE UNCHANGED actions
    /\ UNCHANGED <<tables, up, locked, queue, elections, searching, made, given, found, restarted,
                   left>>

-----------------------------------------------------------------------------
(* The node *)

StillFound(blocks) == {f \in found : \A r \in blocks : r.link # f.send}

(* The block processor takes a block of the wallet: one that fits is       *)
(* stored, and gets an election as a block that arrived just now.          *)
ProcessBlock(b) ==
    /\ up = "on"
    /\ queue' = queue \ {b}
    /\ chain' = IF Fits(b) THEN [chain EXCEPT ![b.account] = Append(@, b)] ELSE chain
    /\ voting' = IF Fits(b) THEN Started({b}) ELSE voting
    /\ found' = StillFound({b})
    /\ UNCHANGED <<keys, ids, work, up, locked, actions, thread, lingering, confirmed,
                   searching, made, told, given, restarted, left>>

(* Someone sends to an account; the block comes live or by bootstrap. *)
OutsideSends(a, amount) ==
    /\ up = "on"
    /\ Uses("outside")
    /\ Balance(Outside) >= amount
    /\ LET b == NextBlock(Outside, a, Balance(Outside) - amount)
       IN  /\ chain' = [chain EXCEPT ![Outside] = Append(@, b)]
           /\ voting' \in {voting, Started({b})}
    /\ UNCHANGED <<keys, ids, work, up, locked, actions, thread, queue, lingering, confirmed,
                   searching, made, told, given, found, restarted>>

(* The votes confirm a block: confirm_once. *)
ConfirmOnce(b) ==
    /\ voting' = voting \ {b}
    /\ lingering' = lingering \cup {b}
    /\ confirmed' = confirmed \cup {b}
    /\ UNCHANGED <<tables, up, locked, actions, thread, queue, searching, history>>

(* process_confirmed, with scan_receivable: a pending send to an account   *)
(* in the wallet is received.                                              *)
ProcessConfirmed(b) ==
    /\ confirmed' = confirmed \ {b}
    /\ IF b.link \in keys /\ b \in Pending THEN ReceiveCall(b, SentBy(b), FALSE)
       ELSE UNCHANGED actions
    /\ UNCHANGED <<tables, up, locked, thread, queue, voting, lingering, searching, history>>

(* announce_votes erases a confirmed election after a while. *)
AnnounceVotes(b) ==
    /\ lingering' = lingering \ {b}
    /\ UNCHANGED <<tables, up, locked, actions, thread, queue, voting, confirmed, searching,
                   history>>

-----------------------------------------------------------------------------
(* search_pending and the password *)

Receivable == {b \in Pending : b.link \in keys /\ SentBy(b) >= ReceiveMinimum}

SearchedOpen(b) == chain[b.account][1]

(* The block that is to be confirmed for a pending send: the head of the   *)
(* account that sent it.                                                   *)
Searched(b) == Latest(b.account)

Search ==
    /\ voting' = Started({Searched(b) : b \in Receivable})
    /\ found' = found \cup
           {[send |-> b, head |-> b = Latest(b.account) /\ b \notin lingering \ confirmed] :
               b \in Receivable}

(* search_pending, called by rpc; a locked wallet is not searched. *)
RpcSearch ==
    /\ up = "on"
    /\ Uses("control")
    /\ ~locked
    /\ Search
    /\ UNCHANGED <<tables, up, locked, actions, thread, queue, lingering, confirmed, searching,
                   made, told, given, restarted>>

(* ... and in the background. *)
BackgroundSearch ==
    /\ up = "on"
    /\ searching
    /\ searching' = FALSE
    /\ IF locked THEN UNCHANGED <<voting, found>> ELSE Search
    /\ UNCHANGED <<tables, up, locked, actions, thread, queue, lingering, confirmed, made, told,
                   given, restarted, left>>

(* The rpc wallet_lock. *)
WalletLock ==
    /\ up = "on"
    /\ Uses("control")
    /\ locked' = TRUE
    /\ found' = {}
    /\ UNCHANGED <<tables, up, actions, thread, queue, elections, searching, made, told, given,
                   restarted>>

(* enter_password, with the right one. *)
EnterPassword ==
    /\ up = "on"
    /\ Uses("control")
    /\ locked' = FALSE
    /\ searching' = TRUE
    /\ UNCHANGED <<tables, up, actions, thread, queue, elections, made, told, given, found,
                   restarted>>

-----------------------------------------------------------------------------
(* Stopping and starting *)

(* node::stop first stops the block processor, which drops its queue, and  *)
(* the elections.                                                          *)
NodeStop ==
    /\ up = "on"
    /\ up' = "halting"
    /\ queue' = {}
    /\ voting' = {}
    /\ lingering' = {}
    /\ found' = {}
    /\ UNCHANGED <<tables, locked, actions, thread, confirmed, searching, made, told, given,
                   restarted, left>>

(* wallets::stop waits for the action in progress and drops the others. *)
WalletsStop ==
    /\ up = "halting"
    /\ thread = Idle
    /\ up' = "off"
    /\ actions' = <<>>
    /\ UNCHANGED <<tables, locked, thread, queue, elections, searching, history>>

(* The node goes down, after it was stopped or not, and is started again:  *)
(* enter_initial_password tries the empty password.                        *)
Restart ==
    /\ Uses("restart")
    /\ up' = "on"
    /\ locked' = Encrypted
    /\ searching' = ~Encrypted
    /\ actions' = <<>>
    /\ thread' = Idle
    /\ queue' = {}
    /\ voting' = {}
    /\ lingering' = {}
    /\ confirmed' = {}
    /\ found' = {}
    /\ restarted' = TRUE
    /\ UNCHANGED <<tables, made, told, given>>

First(a, balance) == <<[account |-> a, height |-> 1, link |-> NoBlock, balance |-> balance]>>

Init ==
    /\ chain = [a \in Account \cup {Outside} |->
                   IF a = Funded THEN First(a, Supply \div 2)
                   ELSE IF a = Outside THEN First(a, Supply - Supply \div 2) ELSE <<>>]
    /\ keys = {Funded}
    /\ ids = [i \in Id |-> NoBlock]
    /\ work = [a \in Account |-> -1]
    /\ up = "on"
    /\ locked = Encrypted
    /\ actions = <<>>
    /\ thread = Idle
    /\ queue = {}
    /\ voting = {}
    /\ lingering = {}
    /\ confirmed = {}
    /\ searching = ~Encrypted
    /\ made = {}
    /\ told = {}
    /\ given = {}
    /\ found = {}
    /\ restarted = FALSE
    /\ left \in Budget

Next ==
    \/ \E a, link \in Account, amount \in Amount, id \in Id \cup {NoId}, own \in BOOLEAN :
           a # link /\ SendAsync(a, link, amount, id, own)
    \/ \E a \in Account, own \in BOOLEAN : ChangeAsync(a, own)
    \/ \E a \in Account : InsertAdhoc(a)
    \/ \E b \in Pending, own \in BOOLEAN : RpcReceive(b, own)
    \/ Begin \/ ProcessActive \/ Flush
    \/ \E b \in queue : ProcessBlock(b)
    \/ \E a \in Account, amount \in Amount : OutsideSends(a, amount)
    \/ \E b \in voting : ConfirmOnce(b)
    \/ \E b \in confirmed : ProcessConfirmed(b)
    \/ \E b \in lingering : AnnounceVotes(b)
    \/ RpcSearch \/ BackgroundSearch \/ WalletLock \/ EnterPassword
    \/ NodeStop \/ WalletsStop \/ Restart

(* The wallet's thread, the processor and the background calls run when    *)
(* they can; the representatives are there to confirm what is voted on.    *)
Fairness ==
    /\ WF_vars(Begin \/ ProcessActive \/ Flush)
    /\ WF_vars(\E b \in queue : ProcessBlock(b))
    /\ SF_vars(\E b \in voting : ConfirmOnce(b))
    /\ WF_vars(\E b \in confirmed : ProcessConfirmed(b))
    /\ WF_vars(BackgroundSearch)

Spec == Init /\ [][Next]_vars /\ Fairness

-----------------------------------------------------------------------------

(* The wallet does not fork its own accounts: a block it hands to the      *)
(* processor goes on top of the chain as it then is, and receives what is  *)
(* still pending, whatever calls, confirmations and searches are queued at *)
(* once.  One thread that waits for each block (flush) is what this needs. *)
BlocksExtend == \A b \in queue : Fits(b)

(* A send with an id happens once, however often it is called again, with  *)
(* whatever amounts, before or after the node stopped or crashed at any    *)
(* point: the id is stored before its block is processed, and checked      *)
(* against the ledger.  A block counts for the call that made it last: the *)
(* table has one block for an id, so after two lost blocks of one id a     *)
(* call without the id that makes the first one again has sent on its own  *)
(* account, and the id may send once more.                                 *)
SentOnce == \A m, n \in made : m[1] = n[1] /\ {m[2], n[2]} \subseteq Blocks => m = n

(* A block given to a caller while the processor runs is in the ledger,    *)
(* and stays there when the node goes down (send_action waits for flush).  *)
ToldIsStored == told \subseteq Blocks

(* Between its actions the wallet's cached work is that for the head of    *)
(* the account: generate_priority puts its generation before any other     *)
(* action.  A stop or a crash may lose it, and after a call that brought   *)
(* its own work the wallet keeps that.                                     *)
WorkIsFresh ==
    /\ up = "on"
    /\ ~restarted
    /\ thread = Idle
    /\ actions # <<>> => Head(actions).kind # "work"
    => \A a \in Account \ given : work[a] \in {-1, Len(chain[a])}

(* A pending send that a search finds at the head of its account is        *)
(* received, through election, confirmation and the queue, unless the      *)
(* wallet is locked or the node goes down first.  This needs an election   *)
(* that is new, is open or has its confirmation still to be processed.     *)
HeadsReceived == (\E f \in found : f.head) ~> (\A f \in found : ~f.head)

-----------------------------------------------------------------------------

(* The test search_pending_same has two sends of one account wait, and     *)
(* after search_pending both are received: what a search finds is          *)
(* received, unless the wallet is locked or the node goes down first.      *)
SearchReceives == found # {} ~> found = {}

=============================================================================
