-------------------------------- MODULE Sync --------------------------------
(***************************************************************************)
(* What a bootstrap attempt exchanges: the peer's frontiers, merged with   *)
(* the node's own accounts; the pulls this asks for, account by account,   *)
(* from any peer; and the push of what the peer lacks.  Both sides read    *)
(* their ledgers piece by piece while these change.                        *)
(*                                                                         *)
(* A ledger is a set of blocks.  What is received goes to the ledger when  *)
(* what it depends on is there, and waits as unchecked until then, as      *)
(* BlockProcessor has it; no block is rolled back.  The processor's turn   *)
(* is part of the step that receives a block: nobody reads the ledger      *)
(* while blocks are pulled, and run flushes the processor before it goes   *)
(* on.  Bootstrap has the threads, the connections and the retries.        *)
(*                                                                         *)
(* AfterSkips, OnlyOursBetween and PullOverTrusts are the definitions that *)
(* follow them with a mistake in them.  Nothing uses them.                 *)
(***************************************************************************)
EXTENDS Naturals, FiniteSets, SequencesExt

CONSTANTS
    Block,       \* numbers from 1; 0 is no block
    AccountOf,   \* block -> account, a number from 1; 0 is no account
    Previous,    \* block -> block or 0
    Source,      \* block -> block or 0
    Genesis,
    Self,        \* the node that bootstraps
    Peer,
    Poor,        \* bound: peers that have only the genesis block at first
    RetryLimit,  \* bootstrap_frontier_retry_limit, 16 in the code
    CostLimit,   \* bulk_push_cost_limit, 200 in the code
    Connections, \* bound: pulls at a time, node_config::bootstrap_connections
    MaxFailures, \* bound: connections that fail
    MaxLive      \* bound: blocks that come by other ways

ASSUME SyncAssumption ==
    /\ Block \subseteq Nat \ {0}
    /\ \A b \in Block : {Previous[b], Source[b]} \subseteq Block \cup {0}
    /\ Genesis \in Block
    /\ Self \notin Peer
    /\ Poor \subseteq Peer

VARIABLES
    ledger,    \* node -> blocks
    unchecked, \* node -> blocks
    phase,     \* "idle", "frontier", "pull" or "push"
    peer,      \* the peer that was asked for its frontiers
    gone,      \* whether connection_frontier_request has expired
    theirs,    \* frontier_req_server: current and info.head
    frontier,  \* the pair on its way, or <<>>
    own,       \* frontier_req_client: current and info.head
    push,      \* bulk_push_targets, the cost, and whether the cost kept something out
    target,    \* bulk_push_client::current_target
    pulls,     \* account -> what to pull, or NoPull
    failures,
    live

client == <<own, push, target, pulls>>

(* What all had when the attempt began, and what it knows it left out *)
VARIABLES start, missed

vars == <<ledger, unchecked, phase, peer, gone, theirs, frontier, client, failures, live, start,
          missed>>

Node == Peer \cup {Self}
Account == {AccountOf[b] : b \in Block}
NoPull == [state |-> "none"]

-----------------------------------------------------------------------------
(* Ledgers *)

Needs(b) == {Previous[b], Source[b]} \ {0}
Rivals(b) == {c \in Block \ {b} : AccountOf[c] = AccountOf[b] /\ Previous[c] = Previous[b]}

(* What of a set of blocks a ledger takes, one after the other *)
Settle[L \in SUBSET Block, U \in SUBSET Block] ==
    LET ready == {b \in U : Needs(b) \subseteq L} IN
    IF ready = {} THEN [ledger |-> L, unchecked |-> U]
    ELSE LET b == CHOOSE b \in ready : TRUE IN
         Settle[IF Rivals(b) \cap L = {} THEN L \cup {b} ELSE L, U \ {b}]

(* block_processor.add and process_active, and what the processor does *)
Receive(n, b) ==
    LET all == Settle[ledger[n], unchecked[n] \cup ({b} \ ledger[n])] IN
    /\ ledger' = [ledger EXCEPT ![n] = all.ledger]
    /\ unchecked' = [unchecked EXCEPT ![n] = all.unchecked]

Latest(L, a) == CHOOSE b \in L : AccountOf[b] = a /\ b \notin {Previous[c] : c \in L}

AfterSkips(L, a) ==
    LET later == {c \in {AccountOf[b] : b \in L} : c > a + 1} IN
    IF later = {} THEN [account |-> 0, head |-> 0]
    ELSE [account |-> Min(later), head |-> Latest(L, Min(later))]

(* The first account after a, with its head; latest_begin *)
After(L, a) ==
    LET later == {c \in {AccountOf[b] : b \in L} : c > a} IN
    IF later = {} THEN [account |-> 0, head |-> 0]
    ELSE [account |-> Min(later), head |-> Latest(L, Min(later))]

NoAccount == [account |-> 0, head |-> 0]

-----------------------------------------------------------------------------
(* The frontiers *)

(* The attempt asks a peer: frontier_req_client and frontier_req_server.   *)
Ask(p) ==
    /\ phase' = "frontier"
    /\ peer' = p
    /\ gone' = FALSE
    /\ theirs' = After(ledger[p], 0)
    /\ own' = After(ledger[Self], 0)
    /\ frontier' = <<>>
    /\ push' = [push EXCEPT !.cost = 0]

Start(p) ==
    /\ phase = "idle"
    /\ Ask(p)
    /\ start' = [n \in Node |-> ledger[n]]
    /\ missed' = {}
    /\ UNCHANGED <<ledger, unchecked, target, pulls, failures, live>>

(* frontier_req_server::send_next; the pair was read one write earlier. *)
SendFrontier ==
    /\ phase = "frontier"
    /\ frontier = <<>>
    /\ frontier' = <<theirs>>
    /\ theirs' = IF theirs.account = 0 THEN theirs ELSE After(ledger[peer], theirs.account)
    /\ UNCHANGED <<ledger, unchecked, phase, peer, gone, client, failures, live, start, missed>>

(* frontier_req_client::unsynced *)
Unsynced(state, head, end) ==
    IF state.cost < CostLimit
    THEN [state EXCEPT !.targets = Append(@, <<head, end>>), !.cost = @ + IF end = 0 THEN 2 ELSE 1]
    ELSE [state EXCEPT !.skipped = TRUE]

OnlyOursBetween(account) ==
    LET ours == {own.account} \cup {AccountOf[b] : b \in ledger[Self]} IN
    SetToSortSeq({a \in ours : a >= own.account /\ own.account # 0 /\ a < account}, <)

(* The accounts of ours from own on that come before one of theirs; all    *)
(* when theirs are over.  The head of the first was read earlier.          *)
OnlyOurs(account) ==
    LET ours == {own.account} \cup {AccountOf[b] : b \in ledger[Self]} IN
    SetToSortSeq({a \in ours : a >= own.account /\ own.account # 0 /\ (account = 0 \/ a < account)}, <)

SkipOurs(account) ==
    FoldLeft(LAMBDA state, a :
                 Unsynced(state, IF a = own.account THEN own.head ELSE Latest(ledger[Self], a), 0),
             push, OnlyOurs(account))

(* frontier_req_client::received_frontier, for a pair, ... *)
AddPull(account, head, end) ==
    pulls' = [pulls EXCEPT ![account] = [state |-> "queued", head |-> head, end |-> end, tries |-> 0]]

ReceiveFrontier ==
    /\ phase = "frontier"
    /\ frontier # <<>>
    /\ frontier[1].account # 0
    /\ LET account == frontier[1].account
           latest == frontier[1].head
           skipped == SkipOurs(account)
           ours == IF OnlyOurs(account) = <<>> THEN own
                   ELSE After(ledger[Self], Last(OnlyOurs(account))) IN
       \/ /\ ours.account = account
          /\ own' = After(ledger[Self], account)
          /\ \/ /\ latest = ours.head
                /\ push' = skipped
                /\ UNCHANGED pulls
             \/ /\ latest # ours.head
                /\ latest \in ledger[Self]
                /\ push' = Unsynced(skipped, ours.head, latest)
                /\ UNCHANGED pulls
             \/ /\ latest \notin ledger[Self]
                /\ AddPull(account, latest, ours.head)
                /\ push' = [skipped EXCEPT !.cost = @ + 5]
       \/ /\ ours.account # account
          /\ own' = ours
          /\ push' = skipped
          /\ AddPull(account, latest, 0)
    /\ frontier' = <<>>
    /\ UNCHANGED <<ledger, unchecked, phase, peer, gone, theirs, target, failures, live, start,
                   missed>>

(* ... and for the pair that ends them *)
FrontiersEnd ==
    /\ phase = "frontier"
    /\ frontier # <<>>
    /\ frontier[1].account = 0
    /\ push' = SkipOurs(0)
    /\ own' = NoAccount
    /\ frontier' = <<>>
    /\ phase' = "pull"
    /\ UNCHANGED <<ledger, unchecked, peer, gone, theirs, target, pulls, failures, live, start,
                   missed>>

(* The request fails, and another peer is asked. *)
FrontiersFail(p) ==
    /\ phase = "frontier"
    /\ failures < MaxFailures
    /\ failures' = failures + 1
    /\ pulls' = [a \in Account |-> NoPull]
    /\ Ask(p)
    /\ UNCHANGED <<ledger, unchecked, target, live, start, missed>>

-----------------------------------------------------------------------------
(* The pulls *)

(* bulk_pull_client::request and bulk_pull_server::set_current_end.  The   *)
(* last try goes to the peer that has sent the frontier.                   *)
RequestPull(a, p) ==
    /\ phase = "pull"
    /\ pulls[a].state = "queued"
    /\ Cardinality({c \in Account : pulls[c].state = "active"}) < Connections
    /\ pulls[a].tries = RetryLimit => p = peer
    /\ LET L == ledger[p]
           end == IF pulls[a].end \in L THEN pulls[a].end ELSE 0
           known == \E b \in L : AccountOf[b] = a
           current == IF known /\ (end # 0 => AccountOf[end] = a) THEN Latest(L, a) ELSE end IN
       pulls' = [pulls EXCEPT ![a] =
                    [state |-> "active", head |-> @.head, end |-> @.end, tries |-> @.tries,
                     expected |-> @.head, from |-> p, current |-> current, last |-> end]]
    /\ UNCHANGED <<ledger, unchecked, phase, peer, gone, theirs, frontier, own, push, target,
                   failures, live, start, missed>>

(* bulk_pull_server::send_next, and bulk_pull_client::received_block *)
PullBlock(a) ==
    /\ pulls[a].state = "active"
    /\ pulls[a].current # pulls[a].last
    /\ LET b == pulls[a].current IN
       /\ pulls' = [pulls EXCEPT
                        ![a].current = IF Previous[b] # 0 THEN Previous[b] ELSE pulls[a].last,
                        ![a].expected = IF b = @ THEN Previous[b] ELSE @]
       /\ Receive(Self, b)
    /\ UNCHANGED <<phase, peer, gone, theirs, frontier, own, push, target, failures, live, start,
                   missed>>

PullOverTrusts(a) == pulls' = [pulls EXCEPT ![a] = NoPull] /\ UNCHANGED missed

(* The bulk_pull_client ends; its destructor, and requeue_pull: another    *)
(* try, the last one only over the frontier connection if it exists.       *)
PullOver(a) ==
    LET pull == pulls[a]
        again == pull.tries + 1 < RetryLimit \/ (pull.tries + 1 = RetryLimit /\ ~gone) IN
    IF pull.expected = pull.end
    THEN pulls' = [pulls EXCEPT ![a] = NoPull] /\ UNCHANGED missed
    ELSE IF again
    THEN /\ pulls' = [pulls EXCEPT ![a] = [state |-> "queued", head |-> pull.expected,
                                           end |-> pull.end, tries |-> pull.tries + 1]]
         /\ UNCHANGED missed
    ELSE pulls' = [pulls EXCEPT ![a] = NoPull] /\ missed' = missed \cup {"pull"}

(* All is sent, or the connection fails; one that was slow or has not sent *)
(* what was expected is not used again.                                    *)
PullEnds(a) ==
    LET pull == pulls[a] IN
    /\ pull.state = "active"
    /\ \/ pull.current = pull.last /\ UNCHANGED failures
       \/ failures < MaxFailures /\ failures' = failures + 1
    /\ LET lost == failures' # failures \/ pull.expected # pull.end IN
       gone' \in {gone, gone \/ (pull.from = peer /\ lost)}
    /\ PullOver(a)
    /\ UNCHANGED <<ledger, unchecked, phase, peer, theirs, frontier, own, push, target, live,
                   start>>

-----------------------------------------------------------------------------
(* The push *)

(* The attempt is over, and what it knew is gone with it. *)
Finish ==
    /\ phase' = "idle"
    /\ push' = [targets |-> <<>>, cost |-> 0, skipped |-> FALSE]
    /\ target' = <<0, 0>>
    /\ own' = NoAccount
    /\ theirs' = NoAccount
    /\ gone' = FALSE
    /\ UNCHANGED <<ledger, unchecked, peer, frontier, pulls, live, start>>

(* request_push, once there is nothing left to pull; without the frontier  *)
(* connection there is no push.                                            *)
RequestPush ==
    /\ phase = "pull"
    /\ \A a \in Account : pulls[a] = NoPull
    /\ IF gone
       THEN missed' = missed \cup {"push"} /\ Finish
       ELSE /\ phase' = "push"
            /\ UNCHANGED <<ledger, unchecked, peer, gone, theirs, frontier, client, live, start,
                           missed>>
    /\ UNCHANGED failures

Exhausted == target[1] = 0 \/ target[1] = target[2]

(* bulk_push_client::push and bulk_push_server::received_block *)
PushBlock ==
    /\ phase = "push"
    /\ LET now == IF Exhausted THEN Last(push.targets) ELSE target IN
       /\ Exhausted => push.targets # <<>>
       /\ push' = IF Exhausted THEN [push EXCEPT !.targets = Front(@)] ELSE push
       /\ target' = <<Previous[now[1]], now[2]>>
       /\ Receive(peer, now[1])
    /\ UNCHANGED <<phase, peer, gone, theirs, frontier, own, pulls, failures, live, start, missed>>

PushEnds ==
    /\ phase = "push"
    /\ Exhausted
    /\ push.targets = <<>>
    /\ missed' = missed \cup {m \in {"push"} : push.skipped}
    /\ Finish
    /\ UNCHANGED failures

PushFails ==
    /\ phase = "push"
    /\ failures < MaxFailures
    /\ failures' = failures + 1
    /\ missed' = missed \cup {"push"}
    /\ Finish

-----------------------------------------------------------------------------
(* A block comes with the traffic of the network. *)
LiveBlock(n, b) ==
    /\ live < MaxLive
    /\ b \notin ledger[n]
    /\ live' = live + 1
    /\ Receive(n, b)
    /\ UNCHANGED <<phase, peer, gone, theirs, frontier, client, failures, start, missed>>

Ledgers ==
    {L \in SUBSET Block :
        /\ Genesis \in L
        /\ \A b \in L : Needs(b) \subseteq L /\ Rivals(b) \cap L = {}}

Init ==
    /\ ledger \in {f \in [Node -> Ledgers] : \A p \in Poor : f[p] = {Genesis}}
    /\ unchecked = [n \in Node |-> {}]
    /\ phase = "idle"
    /\ peer = CHOOSE p \in Peer : TRUE
    /\ gone = FALSE
    /\ theirs = NoAccount
    /\ frontier = <<>>
    /\ own = NoAccount
    /\ push = [targets |-> <<>>, cost |-> 0, skipped |-> FALSE]
    /\ target = <<0, 0>>
    /\ pulls = [a \in Account |-> NoPull]
    /\ failures = 0
    /\ live = 0
    /\ start = ledger
    /\ missed = {"pull", "push"}

Step ==
    \/ SendFrontier \/ ReceiveFrontier \/ FrontiersEnd
    \/ \E a \in Account : PullBlock(a) \/ PullEnds(a)
    \/ \E a \in Account, p \in Peer : RequestPull(a, p)
    \/ RequestPush \/ PushBlock \/ PushEnds

Next ==
    \/ Step
    \/ \E p \in Peer : Start(p) \/ FrontiersFail(p)
    \/ PushFails
    \/ \E n \in Node, b \in Block : LiveBlock(n, b)

(* Connections work until they fail, and ongoing_bootstrap starts again,   *)
(* each time with the peer that was asked longest ago (bootstrap_peer).    *)
Fairness == WF_vars(Step) /\ \A p \in Peer : SF_vars(Start(p))

Spec == Init /\ [][Next]_vars /\ Fairness

-----------------------------------------------------------------------------
Unforked ==
    \A n, m \in Node : \A b \in ledger[n] : Rivals(b) \cap (ledger[m] \cup unchecked[m]) = {}

(* An attempt that gave up no pull has brought all that the peer had when  *)
(* it began, whichever peers sent the blocks, after whatever failures, and *)
(* whatever was added on both sides meanwhile; unless there is a fork.     *)
AttemptPulls ==
    phase = "idle" /\ "pull" \notin missed /\ Unforked => start[peer] \subseteq ledger[Self]

(* An attempt whose push did not fail, and was not cut by its cost limit,  *)
(* has given the peer all that the node had when it began.                 *)
AttemptPushes ==
    phase = "idle" /\ missed = {} /\ Unforked => start[Self] \subseteq ledger[peer]

(* Attempts one after the other bring the node all that its peers have,    *)
(* for good, unless they differ in a fork.                                 *)
CatchesUp == <>[](~Unforked \/ \A p \in Peer : ledger[p] \subseteq ledger[Self])

=============================================================================
