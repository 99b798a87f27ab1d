------------------------------ MODULE Election ------------------------------
(***************************************************************************)
(* One election of rai::active_transactions, from the block it starts with *)
(* to its removal: votes, the winner, confirmation and announcements.      *)
(*                                                                         *)
(* No mutex protects an election.  The network thread applies the votes    *)
(* that messages bring, one message after the other; background threads    *)
(* broadcast the winner, vote for it with the local representative and     *)
(* apply that vote too.  Each access to the election is a step.            *)
(*                                                                         *)
(* Forcing a new winner into the ledger is BlockProcessor's part, handing  *)
(* out sequence numbers StoreCaches'.  The weights of representatives do   *)
(* not change during an election.  Cool-down times and the age of online   *)
(* representatives only show in what is old, which is left open.           *)
(*                                                                         *)
(* CheckAny, CountFirst, ConfirmOnceRead and EndsExactly are the           *)
(* definitions that follow them with a mistake in them.  Nothing uses      *)
(* them.                                                                   *)
(***************************************************************************)
EXTENDS Integers, Sequences, FiniteSets, FiniteSetsExt

CONSTANTS
    Rep,              \* representatives
    Weight,           \* representative -> weight
    Block,            \* the blocks with the root of the election
    First,            \* the one in the ledger when it starts
    Network,          \* the thread that reads messages
    Background,       \* threads for background work
    Setting,          \* bounds: which votes the network may bring, which representative is of
                      \* this node's wallets (one or none), which background threads there are
    OnlineMinimum,    \* node_config::online_weight_minimum
    AnnouncementMin,  \* active_transactions::announcement_min, 4 in the code
    MaxSequence,      \* bound on the sequence numbers of votes
    MaxBroadcasts     \* bound on the broadcasts that wait for a thread

Vote == [account : Rep, sequence : 1 .. MaxSequence, block : Block]

ASSUME ElectionAssumption ==
    /\ Weight \in [Rep -> Nat]
    /\ Setting \in Seq([votes : SUBSET Vote, local : SUBSET Rep, background : SUBSET Background])
    /\ Block \subseteq Nat \ {0}
    /\ First \in Block
    /\ Network \notin Background
    /\ OnlineMinimum \in Nat
    /\ AnnouncementMin \in Nat \ {0}
    /\ MaxSequence \in Nat

Thread == {Network} \cup Background

VARIABLES
    setting,        \* the one that is explored
    rep_votes,      \* representative -> the block it votes for, 0 if none
    last_votes,     \* representative -> sequence and block of its last vote
    winner,         \* election_status::winner
    confirmed,
    active,         \* whether the election is in roots
    announcements,
    root_exists,    \* whether the ledger has the root
    online,         \* online_reps::reps
    broadcasts,     \* calls of broadcast_winner that wait for a thread
    thread,         \* thread -> what it is doing
    sequence,       \* representative -> the last number that vote_generate gave
    sent,           \* votes of local representatives that peers may send back
    confirmations,  \* blocks handed to process_confirmed, in order
    history         \* the winner recorded in active_transactions::confirmed, 0 if none

election == <<rep_votes, last_votes, winner, confirmed>>
life == <<active, announcements, root_exists, history>>
local == <<broadcasts, sequence, sent>>
vars == <<setting, election, life, online, local, thread, confirmations>>

NoVote == [sequence |-> 0, block |-> 0]
Idle == [stage |-> "idle"]

Stage(t, stage) == thread[t].stage = stage
To(t, stage) == thread' = [thread EXCEPT ![t].stage = stage]

(* vote_processor::vote returns. *)
Return(t) ==
    IF t = Network THEN thread' = [thread EXCEPT ![t] = Idle] ELSE To(t, "republish")

-----------------------------------------------------------------------------
(* The tally *)

(* The votes on each candidate; First is one even if nobody votes for it. *)
Candidates == ({rep_votes[r] : r \in Rep} \ {0}) \cup {First}

WeightOf(reps) == MapThenSumSet(LAMBDA r : Weight[r], reps)

Total(b) == WeightOf({r \in Rep : rep_votes[r] = b})

(* rai::ledger::tally maps totals to blocks: of the blocks with the same   *)
(* total only one is left.                                                 *)
Totals == {Total(b) : b \in Candidates}
Leaders == {b \in Candidates : Total(b) = Max(Totals)}
RunnerUp == IF Cardinality(Totals) = 1 THEN 0 ELSE Max(Totals \ {Max(Totals)})

OnlineStake == Max({WeightOf(online), OnlineMinimum})

Delta == (OnlineStake \div 100) * 50

(* vote_info::operator< *)
Newer(vote, last) ==
    \/ last.sequence < vote.sequence
    \/ last.sequence = vote.sequence /\ last.block < vote.block

-----------------------------------------------------------------------------
(* Where votes come from *)

(* A confirm_ack message. *)
ConfirmAck(vote) ==
    /\ Stage(Network, "idle")
    /\ vote \in Setting[setting].votes
    /\ vote.account \in Setting[setting].local => vote \in sent
    /\ thread' = [thread EXCEPT ![Network] = [stage |-> "find", vote |-> vote]]
    /\ UNCHANGED <<setting, election, life, online, local, confirmations>>

(* broadcast_winner generates a vote for the leader, if this node has a    *)
(* representative, and applies it, ...                                     *)
BroadcastWinner(t) ==
    /\ t \in Setting[setting].background
    /\ Stage(t, "idle")
    /\ broadcasts > 0
    /\ broadcasts' = broadcasts - 1
    /\ \E b \in Leaders, r \in Setting[setting].local :
        /\ sequence[r] < MaxSequence
        /\ sequence' = [sequence EXCEPT ![r] = @ + 1]
        /\ thread' = [thread EXCEPT ![t] =
               [stage |-> "find",
                vote |-> [account |-> r, sequence |-> sequence[r] + 1, block |-> b]]]
    /\ UNCHANGED <<setting, election, life, online, sent, confirmations>>

(* ... then republish_block sends peers another vote, not applied here. *)
Republish(t) ==
    LET r == thread[t].vote.account
    IN  /\ Stage(t, "republish")
        /\ sequence[r] < MaxSequence
        /\ sequence' = [sequence EXCEPT ![r] = @ + 1]
        /\ sent' = sent \cup {[thread[t].vote EXCEPT !.sequence = sequence[r] + 1]}
        /\ thread' = [thread EXCEPT ![t] = Idle]
        /\ UNCHANGED <<setting, election, life, online, broadcasts, confirmations>>

-----------------------------------------------------------------------------
(* active_transactions::vote and election::vote, in thread t *)

Find(t) ==
    /\ Stage(t, "find")
    /\ To(t, IF active THEN "check" ELSE "observe")
    /\ UNCHANGED <<setting, election, life, online, local, confirmations>>

CheckAny(t) ==
    /\ Stage(t, "check")
    /\ To(t, "record")
    /\ UNCHANGED <<setting, election, life, online, local, confirmations>>

(* A vote that is not newer is a replay, one that comes too soon after the *)
(* last is ignored, and so is a representative of little weight.  Whether  *)
(* the observers see a replay depends on the highest number in the store.  *)
Check(t) ==
    LET vote == thread[t].vote
        heavy == Weight[vote.account] > OnlineStake \div 1000
        last == last_votes[vote.account]
    IN  /\ Stage(t, "check")
        /\ \/ heavy /\ Newer(vote, last) /\ To(t, "record")
           \/ heavy /\ Newer(vote, last) /\ last # NoVote /\ To(t, "observe")
           \/ heavy /\ ~Newer(vote, last) /\ (To(t, "observe") \/ Return(t))
           \/ ~heavy /\ To(t, "observe")
        /\ UNCHANGED <<setting, election, life, online, local, confirmations>>

(* The vote is republished to peers, too. *)
Record(t) ==
    LET vote == thread[t].vote
    IN  /\ Stage(t, "record")
        /\ last_votes' = [last_votes EXCEPT ![vote.account] =
               [sequence |-> vote.sequence, block |-> vote.block]]
        /\ To(t, "count")
        /\ UNCHANGED <<setting, rep_votes, winner, confirmed, life, online, local, confirmations>>

CountFirst(t) ==
    LET vote == thread[t].vote
    IN  /\ Stage(t, "count")
        /\ rep_votes' = [rep_votes EXCEPT ![vote.account] = IF @ = 0 THEN vote.block ELSE @]
        /\ To(t, "tally")
        /\ UNCHANGED <<setting, last_votes, winner, confirmed, life, online, local, confirmations>>

(* rai::votes::vote *)
Count(t) ==
    LET vote == thread[t].vote
    IN  /\ Stage(t, "count")
        /\ rep_votes' = [rep_votes EXCEPT ![vote.account] = vote.block]
        /\ To(t, "tally")
        /\ UNCHANGED <<setting, last_votes, winner, confirmed, life, online, local, confirmations>>

(* confirm_if_quorum: the tally is a local copy, ... *)
Tally(t) ==
    /\ Stage(t, "tally")
    /\ \E b \in Leaders :
        thread' = [thread EXCEPT ![t] =
            [stage |-> "switch", vote |-> thread[t].vote, leader |-> b,
             first |-> Max(Totals), second |-> RunnerUp,
             sum |-> SumSet(Totals)]]
    /\ UNCHANGED <<setting, election, life, online, local, confirmations>>

(* ... a new leader is forced if enough votes are in, ... *)
Switch(t) ==
    /\ Stage(t, "switch")
    /\ winner' = IF thread[t].sum >= OnlineMinimum THEN thread[t].leader ELSE winner
    /\ To(t, "quorum")
    /\ UNCHANGED <<setting, rep_votes, last_votes, confirmed, life, online, local, confirmations>>

(* ... and the winner is confirmed if the leader is ahead. *)
Quorum(t) ==
    /\ Stage(t, "quorum")
    /\ To(t, IF thread[t].first > thread[t].second + Delta THEN "exchange" ELSE "observe")
    /\ UNCHANGED <<setting, election, life, online, local, confirmations>>

ConfirmOnceRead(t) ==
    /\ Stage(t, "exchange")
    /\ To(t, "confirm")
    /\ confirmed' = TRUE
    /\ UNCHANGED <<setting, rep_votes, last_votes, winner, life, online, local, confirmations>>

ConfirmOnce(t) ==
    /\ Stage(t, "exchange")
    /\ To(t, IF confirmed THEN "observe" ELSE "confirm")
    /\ confirmed' = TRUE
    /\ UNCHANGED <<setting, rep_votes, last_votes, winner, life, online, local, confirmations>>

(* process_confirmed gets the winner of this moment. *)
Confirm(t) ==
    /\ Stage(t, "confirm")
    /\ confirmations' = Append(confirmations, winner)
    /\ To(t, "observe")
    /\ UNCHANGED <<setting, election, life, online, local>>

(* online_reps::vote, an observer of votes, drops what is old. *)
Observe(t) ==
    /\ Stage(t, "observe")
    /\ \E old \in SUBSET online : online' = (online \ old) \cup {thread[t].vote.account}
    /\ Return(t)
    /\ UNCHANGED <<setting, election, life, local, confirmations>>

VoteStep(t) ==
    \/ Find(t) \/ Check(t) \/ Record(t) \/ Count(t) \/ Tally(t) \/ Switch(t) \/ Quorum(t)
    \/ ConfirmOnce(t) \/ Confirm(t) \/ Observe(t)

-----------------------------------------------------------------------------
(* active_transactions::announce_votes and erase *)

EndsExactly == ~root_exists \/ (confirmed /\ announcements = AnnouncementMin - 1)

Ends == ~root_exists \/ (confirmed /\ announcements >= AnnouncementMin - 1)

AnnounceEnd ==
    /\ active
    /\ Ends
    /\ active' = FALSE
    /\ history' = IF confirmed THEN winner ELSE 0
    /\ UNCHANGED <<setting, election, announcements, root_exists, online, local, thread,
                   confirmations>>

(* The count of announcements is only compared with AnnouncementMin - 1. *)
AnnounceAgain ==
    /\ active
    /\ ~Ends
    /\ broadcasts' = Min({broadcasts + 1, MaxBroadcasts})
    /\ announcements' = Min({announcements + 1, AnnouncementMin})
    /\ UNCHANGED <<setting, election, active, root_exists, history, online, sequence, sent, thread,
                   confirmations>>

(* rpc process with force *)
Erase ==
    /\ active
    /\ active' = FALSE
    /\ UNCHANGED <<setting, election, announcements, root_exists, history, online, local, thread,
                   confirmations>>

(* A rollback takes the root, the block below the candidates. *)
RootRolledBack ==
    /\ root_exists
    /\ root_exists' = FALSE
    /\ UNCHANGED <<setting, election, active, announcements, history, online, local, thread,
                   confirmations>>

-----------------------------------------------------------------------------

Init ==
    /\ setting \in DOMAIN Setting
    /\ rep_votes = [r \in Rep |-> 0]
    /\ last_votes = [r \in Rep |-> NoVote]
    /\ winner = First
    /\ confirmed = FALSE
    /\ active = TRUE
    /\ announcements = 0
    /\ root_exists = TRUE
    /\ online \in SUBSET {vote.account : vote \in Setting[setting].votes}
    /\ broadcasts = 0
    /\ thread = [t \in Thread |-> Idle]
    /\ sequence = [r \in Setting[setting].local |-> 0]
    /\ sent = {}
    /\ confirmations = <<>>
    /\ history = 0

Next ==
    \/ \E vote \in Vote : ConfirmAck(vote)
    \/ \E t \in Thread : BroadcastWinner(t) \/ Republish(t) \/ VoteStep(t)
    \/ AnnounceEnd
    \/ AnnounceAgain
    \/ Erase
    \/ RootRolledBack

(* The alarm calls announce_votes again and again. *)
Spec == Init /\ [][Next]_vars /\ WF_vars(AnnounceEnd \/ AnnounceAgain)

-----------------------------------------------------------------------------

(* An election confirms one block, once, whatever its threads do at the    *)
(* same time: process_confirmed and the confirmation action run once.      *)
ConfirmedOnce == Len(confirmations) <= 1

TotalByLast(b) == WeightOf({r \in Rep : last_votes[r].block = b})

(* While one thread votes, the winner is a leader by the latest vote of    *)
(* each representative, in whatever order votes were delivered, repeated   *)
(* or held back, as soon as enough weight has voted.                       *)
LatestVotesDecide ==
    LET candidates == ({last_votes[r].block : r \in Rep} \ {0}) \cup {First}
        totals == {TotalByLast(b) : b \in candidates}
    IN  /\ Setting[setting].background = {}
        /\ \A t \in Thread : Stage(t, "idle")
        /\ SumSet(totals) >= OnlineMinimum
        => TotalByLast(winner) = Max(totals)

(* Threads that vote for this node's representative at the same time may   *)
(* overtake each other between the check and the record, but only with     *)
(* votes of that representative: a vote of any other is never replaced by  *)
(* an older one, and what is counted for it is what was last recorded      *)
(* (election::vote and votes::vote run without a lock).                    *)
OthersInOrder ==
    [][\A r \in Rep \ Setting[setting].local :
        /\ last_votes'[r] # last_votes[r] => Newer(last_votes'[r], last_votes[r])
        /\ rep_votes'[r] # rep_votes[r] => rep_votes'[r] = last_votes[r].block]_vars

(* A confirmed election leaves the active ones, when the confirmation      *)
(* comes after many announcements, too.                                    *)
ConfirmedEnds == confirmed ~> ~active

-----------------------------------------------------------------------------

(* "Confirm this block if quorum is met": the block that is confirmed is   *)
(* the one whose votes are ahead by the quorum.                            *)
ConfirmsLeader ==
    [][\A t \in Thread :
        Stage(t, "confirm") /\ confirmations' # confirmations =>
            confirmations'[Len(confirmations')] = thread[t].leader]_vars

=============================================================================
