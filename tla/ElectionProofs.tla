--------------------------- MODULE ElectionProofs ---------------------------
(***************************************************************************)
(* An election confirms once, and applies the votes of other nodes'        *)
(* representatives in the order of their numbers, for any number of        *)
(* threads; votes that come one after the other decide who wins, for any   *)
(* representatives, weights and blocks.                                    *)
(***************************************************************************)
EXTENDS Election, TLAPS

-----------------------------------------------------------------------------
(* What a thread may be doing *)

Voting(d) ==
    \E stage \in {"find", "check", "record", "count", "tally", "observe", "republish"}, vote \in Vote :
        d = [stage |-> stage, vote |-> vote]

Tallied(d) ==
    \E stage \in {"switch", "quorum", "exchange", "confirm", "observe", "republish"}, vote \in Vote,
       leader \in Block : \E first, second, sum :
           d = [stage |-> stage, vote |-> vote, leader |-> leader,
                first |-> first, second |-> second, sum |-> sum]

Work(d) == d = Idle \/ Voting(d) \/ Tallied(d)

Threads == thread = [t \in Thread |-> thread[t]] /\ \A t \in Thread : Work(thread[t])

Types ==
    /\ setting \in DOMAIN Setting
    /\ rep_votes \in [Rep -> Block \cup {0}]
    /\ last_votes \in [Rep -> [sequence : Nat, block : Block \cup {0}]]
    /\ winner \in Block
    /\ confirmed \in BOOLEAN
    /\ sequence \in [Setting[setting].local -> Nat]
    /\ confirmations \in Seq(Block)
    /\ Threads

(* A confirmation is on its way, or done, only if confirmed has been       *)
(* exchanged, and there is one at most.                                    *)
Once ==
    /\ ~confirmed => confirmations = <<>> /\ \A t \in Thread : ~Stage(t, "confirm")
    /\ \A t, u \in Thread : Stage(t, "confirm") /\ Stage(u, "confirm") => t = u
    /\ \A t \in Thread : Stage(t, "confirm") => confirmations = <<>>
    /\ Len(confirmations) <= 1

Decided == SumSet(Totals) >= OnlineMinimum => winner \in Leaders

(* With no background threads, what each step of the network thread leaves *)
(* for the next one still holds then.                                      *)
OneByOne ==
    LET doing == thread[Network]
    IN  /\ \A t \in Background : Stage(t, "idle")
        /\ Stage(Network, "record") => Newer(doing.vote, last_votes[doing.vote.account])
        /\ Stage(Network, "count") => last_votes[doing.vote.account].block = doing.vote.block
        /\ \A r \in Rep : \/ rep_votes[r] = last_votes[r].block
                          \/ Stage(Network, "count") /\ r = doing.vote.account
        /\ Stage(Network, "switch") => doing.leader \in Leaders /\ doing.sum = SumSet(Totals)
        /\ Stage(Network, "tally") \/ Stage(Network, "switch") \/ Decided

ElectionInv == Types /\ Once /\ (Setting[setting].background = {} => OneByOne)

-----------------------------------------------------------------------------
(* A step of a thread *)

VotingStages == {"find", "check", "record", "count", "tally", "observe", "republish"}
TalliedStages == {"switch", "quorum", "exchange", "confirm", "observe", "republish"}

LEMMA StageFacts ==
    ASSUME NEW d, Work(d)
    PROVE  /\ d.stage = "idle" <=> d = Idle
           /\ d.stage \in {"find", "check", "record", "count", "tally"} => Voting(d)
           /\ d.stage \in {"switch", "quorum", "exchange", "confirm"} => Tallied(d)
           /\ d # Idle => d.vote \in Vote
           /\ Tallied(d) => d.leader \in Block
<1>1. CASE d = Idle
  BY Zenon, <1>1 DEF Idle, Tallied
<1>2. CASE Voting(d)
  <2>1. PICK stage \in VotingStages, vote \in Vote : d = [stage |-> stage, vote |-> vote]
    BY Zenon, <1>2 DEF Voting, VotingStages
  <2>2. d.stage = stage /\ d.vote = vote
    BY Zenon, <2>1
  <2> QED
    BY Zenon, <1>2, <2>1, <2>2 DEF VotingStages, Idle, Tallied
<1>3. CASE Tallied(d)
  <2>1. PICK stage \in TalliedStages, vote \in Vote, leader \in Block : \E first, second, sum :
           d = [stage |-> stage, vote |-> vote, leader |-> leader,
                first |-> first, second |-> second, sum |-> sum]
    BY Zenon, <1>3 DEF Tallied, TalliedStages
  <2>2. d.stage = stage /\ d.vote = vote /\ d.leader = leader
    BY <2>1
  <2> QED
    BY <1>3, <2>1, <2>2 DEF TalliedStages, Idle
<1> QED
  BY Zenon, <1>1, <1>2, <1>3 DEF Work

(* Only the thread that takes a step changes ... *)
Alone(t) ==
    /\ Threads'
    /\ \A u \in Thread \ {t} : thread'[u] = thread[u]

LEMMA BecomesIs ==
    ASSUME Threads, NEW t \in Thread, NEW d, Work(d), thread' = [thread EXCEPT ![t] = d]
    PROVE  Alone(t) /\ thread'[t] = d
<1>1. thread' = [u \in Thread |-> IF u = t THEN d ELSE thread[u]]
  BY Zenon DEF Threads
<1>2. thread'[t] = d /\ \A u \in Thread \ {t} : thread'[u] = thread[u]
  BY Zenon, <1>1
<1>3. thread' = [u \in Thread |-> thread'[u]]
  BY Zenon, <1>1
<1>4. \A u \in Thread : Work(thread'[u])
  BY Zenon, <1>2 DEF Threads
<1>5. Threads'
  BY Zenon, <1>3, <1>4 DEF Threads, Work, Voting, Tallied, Idle, Thread, Vote
<1> QED
  BY Zenon, <1>2, <1>5 DEF Alone

(* ... and keeps its vote and its tally when only its stage changes. *)
Keeps(t, stage) ==
    /\ Alone(t)
    /\ thread'[t].stage = stage
    /\ thread'[t].vote = thread[t].vote
    /\ thread[t].stage \in {"switch", "quorum"} => /\ thread'[t].leader = thread[t].leader
                                                  /\ thread'[t].sum = thread[t].sum

LEMMA ToKeeps ==
    ASSUME Threads, NEW t \in Thread, NEW stage, To(t, stage),
           \/ Voting(thread[t]) /\ stage \in VotingStages
           \/ Tallied(thread[t]) /\ stage \in TalliedStages
    PROVE  Keeps(t, stage)
<1> DEFINE d == [thread[t] EXCEPT !.stage = stage]
<1>1. thread' = [thread EXCEPT ![t] = d]
  BY Zenon DEF To, Threads
<1>2. CASE Voting(thread[t]) /\ stage \in VotingStages
  <2>1. PICK was \in VotingStages, vote \in Vote : thread[t] = [stage |-> was, vote |-> vote]
    BY Zenon, <1>2 DEF Voting, VotingStages
  <2>2. d = [stage |-> stage, vote |-> vote]
    BY <2>1
  <2>3. Voting(d)
    BY Zenon, <1>2, <2>2 DEF Voting, VotingStages
  <2>4. d.stage = stage /\ d.vote = thread[t].vote /\ thread[t].stage = was
    BY <2>1, <2>2
  <2> HIDE DEF d
  <2> QED
    BY Zenon, <1>1, <2>1, <2>3, <2>4, BecomesIs DEF Work, Keeps, VotingStages
<1>3. CASE Tallied(thread[t]) /\ stage \in TalliedStages
  <2>1. PICK was \in TalliedStages, vote \in Vote, leader \in Block : \E first, second, sum :
           thread[t] = [stage |-> was, vote |-> vote, leader |-> leader,
                        first |-> first, second |-> second, sum |-> sum]
    BY Zenon, <1>3 DEF Tallied, TalliedStages
  <2>2. PICK first, second, sum :
           thread[t] = [stage |-> was, vote |-> vote, leader |-> leader,
                        first |-> first, second |-> second, sum |-> sum]
    BY Zenon, <2>1
  <2>3. d = [stage |-> stage, vote |-> vote, leader |-> leader,
             first |-> first, second |-> second, sum |-> sum]
    BY <2>2
  <2>4. /\ d.stage = stage /\ d.vote = thread[t].vote /\ d.leader = thread[t].leader
        /\ d.sum = thread[t].sum
    BY Zenon, <2>2, <2>3
  <2> HIDE DEF d
  <2>5. Tallied(d)
    BY Zenon, <1>3, <2>3 DEF Tallied, TalliedStages
  <2> QED
    BY Zenon, <1>1, <2>4, <2>5, BecomesIs DEF Work, Keeps
<1> QED
  BY Zenon, <1>2, <1>3

LEMMA QuietOnce ==
    ASSUME Types, Once, NEW t \in Thread, Alone(t), thread'[t].stage # "confirm",
           UNCHANGED <<confirmed, confirmations>>
    PROVE  Once'
<1>1. \A u \in Thread : Stage(u, "confirm")' => Stage(u, "confirm")
  BY Zenon DEF Alone, Stage
<1> QED
  BY Zenon, <1>1 DEF Once, Stage, Thread

LEMMA QuietTypes ==
    ASSUME Types, NEW t \in Thread, Alone(t),
           UNCHANGED <<setting, election, sequence, confirmations>>
    PROVE  Types'
  BY Zenon DEF Types, Alone, election

LEMMA TotalsSame ==
    ASSUME UNCHANGED rep_votes
    PROVE  UNCHANGED <<Totals, Leaders>>
<1>1. Candidates' = Candidates /\ \A b : Total(b)' = Total(b)
  BY Zenon DEF Candidates, Total
<1>2. Totals' = Totals
  BY Zenon, <1>1 DEF Totals
<1> QED
  BY Zenon, <1>1, <1>2 DEF Leaders

LEMMA LeadersAreBlocks == ASSUME Types PROVE Leaders \subseteq Block
  BY Zenon, ElectionAssumption DEF Types, Leaders, Candidates

LEMMA NetworkAlone ==
    ASSUME OneByOne, Types, NEW t \in Thread, ~Stage(t, "idle")
    PROVE  t = Network
  BY Zenon DEF OneByOne, Thread

LEMMA QuietOneByOne ==
    ASSUME Types, OneByOne, Alone(Network), UNCHANGED <<rep_votes, last_votes, winner>>,
           ~Stage(Network, "count"), thread'[Network].stage \notin {"count", "tally"},
           thread'[Network].stage = "record" =>
               Newer(thread'[Network].vote, last_votes[thread'[Network].vote.account]),
           IF thread'[Network].stage = "switch"
           THEN thread'[Network].leader \in Leaders /\ thread'[Network].sum = SumSet(Totals)
           ELSE ~Stage(Network, "tally") /\ ~Stage(Network, "switch")
    PROVE  OneByOne'
<1>1. UNCHANGED <<Totals, Leaders>>
  BY Zenon, TotalsSame
<1>2. \A t \in Background : thread'[t] = thread[t]
  BY Zenon, ElectionAssumption DEF Alone, Thread
<1>3. ~Stage(Network, "switch")' => Decided'
  BY Zenon, <1>1 DEF OneByOne, Decided, Stage
<1> QED
  BY Zenon, <1>1, <1>2, <1>3 DEF OneByOne, Stage

LEMMA NetworkIsThread == Network \in Thread
  BY Zenon DEF Thread

LEMMA ConfirmAckInv == ASSUME ElectionInv, NEW vote \in Vote, ConfirmAck(vote) PROVE ElectionInv'
<1> DEFINE d == [stage |-> "find", vote |-> vote]
<1>1. Types /\ Once /\ Threads
  BY Zenon DEF ElectionInv, Types
<1>2. thread' = [thread EXCEPT ![Network] = d] /\ Stage(Network, "idle")
      /\ UNCHANGED <<setting, election, sequence, confirmations>>
  BY Zenon DEF ConfirmAck, local
<1>3. Work(d) /\ d.stage = "find"
  BY Zenon DEF Work, Voting
<1> HIDE DEF d
<1>4. Alone(Network) /\ thread'[Network] = d
  BY Zenon, <1>1, <1>2, <1>3, BecomesIs, NetworkIsThread
<1>5. Types' /\ Once'
  BY Zenon, <1>1, <1>2, <1>3, <1>4, QuietTypes, QuietOnce, NetworkIsThread DEF election
<1>6. ASSUME OneByOne PROVE OneByOne'
  BY Zenon, <1>1, <1>2, <1>3, <1>4, <1>6, QuietOneByOne DEF election, Stage
<1> QED
  BY Zenon, <1>2, <1>5, <1>6 DEF ElectionInv

LEMMA RepublishInv == ASSUME ElectionInv, NEW t \in Thread, Republish(t) PROVE ElectionInv'
<1>1. Types /\ Once /\ Threads
  BY Zenon DEF ElectionInv, Types
<1>2. thread' = [thread EXCEPT ![t] = Idle] /\ Stage(t, "republish")
      /\ UNCHANGED <<setting, election, confirmations>>
  BY Zenon DEF Republish
<1>3. Work(Idle) /\ Idle.stage = "idle"
  BY Zenon DEF Work, Idle
<1>4. Alone(t) /\ thread'[t] = Idle
  BY Zenon, <1>1, <1>2, <1>3, BecomesIs
<1>5. Types'
  <2>1. sequence' \in [Setting[setting].local -> Nat]
    <3> DEFINE r == thread[t].vote.account
               L == Setting[setting].local
    <3>1. sequence' = [sequence EXCEPT ![r] = @ + 1] /\ sequence \in [L -> Nat]
      BY Zenon, <1>1 DEF Types, Republish
    <3> HIDE DEF r, L
    <3>2. sequence' = [x \in L |-> IF x = r THEN sequence[r] + 1 ELSE sequence[x]]
      BY Zenon, <3>1
    <3>3. \A x \in L : sequence[x] \in Nat /\ sequence[x] + 1 \in Nat
      BY <3>1
    <3>4. sequence' \in [L -> Nat]
      BY Zenon, <3>2, <3>3
    <3> QED
      BY Zenon, <3>4 DEF L
  <2> QED
    BY Zenon, <1>1, <1>2, <1>4, <2>1 DEF Types, Alone, election
<1>6. Once'
  BY Zenon, <1>1, <1>2, <1>3, <1>4, QuietOnce DEF election
<1>7. ASSUME OneByOne PROVE OneByOne'
  <2>1. t = Network
    BY Zenon, <1>1, <1>2, <1>7, NetworkAlone DEF Stage
  <2> QED
    BY Zenon, <1>1, <1>2, <1>3, <1>4, <1>7, <2>1, QuietOneByOne DEF election, Stage
<1> QED
  BY Zenon, <1>2, <1>5, <1>6, <1>7 DEF ElectionInv

LEMMA BroadcastWinnerInv == ASSUME ElectionInv, NEW t \in Thread, BroadcastWinner(t) PROVE ElectionInv'
<1>1. Types /\ Once /\ Threads
  BY Zenon DEF ElectionInv, Types
<1>2. PICK b \in Leaders, r \in Setting[setting].local :
        /\ sequence[r] < MaxSequence
        /\ sequence' = [sequence EXCEPT ![r] = @ + 1]
        /\ thread' = [thread EXCEPT ![t] =
               [stage |-> "find",
                vote |-> [account |-> r, sequence |-> sequence[r] + 1, block |-> b]]]
  BY Zenon DEF BroadcastWinner
<1>3. UNCHANGED <<setting, election, confirmations>> /\ t \in Setting[setting].background
  BY Zenon DEF BroadcastWinner
<1>4. r \in Rep /\ b \in Block /\ sequence[r] \in Nat /\ sequence[r] + 1 \in 1 .. MaxSequence
  <2> DEFINE S == [votes : SUBSET Vote, local : SUBSET Rep, background : SUBSET Background]
  <2>1. Setting[setting] \in S
    <3>1. Setting \in Seq(S) /\ setting \in DOMAIN Setting
      BY Zenon, <1>1, ElectionAssumption DEF Types
    <3> HIDE DEF S
    <3> QED
      BY <3>1
  <2>2. sequence[r] \in Nat
    BY Zenon, <1>1, <1>2 DEF Types
  <2> QED
    BY <1>1, <1>2, <2>1, <2>2, LeadersAreBlocks, ElectionAssumption
<1> DEFINE vote == [account |-> r, sequence |-> sequence[r] + 1, block |-> b]
           d == [stage |-> "find", vote |-> vote]
<1>5. vote \in Vote
  BY Zenon, <1>4 DEF Vote
<1> HIDE DEF vote
<1>6. Work(d) /\ d.stage = "find"
  BY Zenon, <1>5 DEF Work, Voting
<1>7. thread' = [thread EXCEPT ![t] = d]
  BY Zenon, <1>2 DEF vote
<1> HIDE DEF d
<1>8. Alone(t) /\ thread'[t] = d
  BY Zenon, <1>1, <1>6, <1>7, BecomesIs
<1>9. sequence' \in [Setting[setting].local -> Nat]
  BY <1>1, <1>2, <1>4 DEF Types
<1>10. Types'
  BY Zenon, <1>1, <1>3, <1>8, <1>9 DEF Types, Alone, election
<1>11. Once'
  BY Zenon, <1>1, <1>3, <1>6, <1>8, QuietOnce DEF election
<1> QED
  BY Zenon, <1>3, <1>10, <1>11 DEF ElectionInv

(* The steps that only change what thread t is doing. *)
LEMMA QuietInv ==
    ASSUME ElectionInv, NEW t \in Thread, Alone(t), thread'[t].stage # "confirm", ~Stage(t, "idle"),
           UNCHANGED <<setting, election, sequence, confirmations>>,
           t = Network /\ OneByOne =>
               /\ ~Stage(t, "count") /\ thread'[t].stage \notin {"count", "tally"}
               /\ thread'[t].stage = "record" =>
                      Newer(thread'[t].vote, last_votes[thread'[t].vote.account])
               /\ IF thread'[t].stage = "switch"
                  THEN thread'[t].leader \in Leaders /\ thread'[t].sum = SumSet(Totals)
                  ELSE ~Stage(t, "tally") /\ ~Stage(t, "switch")
    PROVE  ElectionInv'
<1>1. Types /\ Once
  BY Zenon DEF ElectionInv
<1>2. Types' /\ Once'
  BY Zenon, <1>1, QuietTypes, QuietOnce DEF election
<1>3. ASSUME OneByOne PROVE OneByOne'
  <2>1. t = Network
    BY Zenon, <1>1, <1>3, NetworkAlone
  <2> QED
    BY Zenon, <1>1, <1>3, <2>1, QuietOneByOne DEF election
<1> QED
  BY Zenon, <1>2, <1>3 DEF ElectionInv

(* vote_processor::vote returns. *)
LEMMA ReturnIs ==
    ASSUME Threads, NEW t \in Thread, thread[t] # Idle, Return(t)
    PROVE  /\ Alone(t)
           /\ thread'[t].stage \in {"idle", "republish"}
           /\ thread'[t] = Idle \/ thread'[t].vote = thread[t].vote
<1>1. CASE t = Network
  <2>1. Work(Idle) /\ Idle.stage = "idle" /\ thread' = [thread EXCEPT ![t] = Idle]
    BY Zenon, <1>1 DEF Work, Idle, Return
  <2> QED
    BY Zenon, <2>1, BecomesIs
<1>2. CASE t # Network
  <2>1. To(t, "republish") /\ (Voting(thread[t]) \/ Tallied(thread[t]))
    BY Zenon, <1>2 DEF Return, Threads, Work
  <2>2. Keeps(t, "republish")
    BY Zenon, <2>1, ToKeeps DEF VotingStages, TalliedStages
  <2> QED
    BY Zenon, <2>2 DEF Keeps
<1> QED
  BY Zenon, <1>1, <1>2

LEMMA FindInv == ASSUME ElectionInv, NEW t \in Thread, Find(t) PROVE ElectionInv'
<1>1. Threads /\ Stage(t, "find") /\ UNCHANGED <<setting, election, sequence, confirmations>>
  BY Zenon DEF ElectionInv, Types, Find, local
<1>2. PICK stage \in {"check", "observe"} : To(t, stage)
  BY Zenon DEF Find
<1>3. Voting(thread[t])
  BY Zenon, <1>1, StageFacts DEF Threads, Stage
<1>4. Keeps(t, stage)
  BY Zenon, <1>1, <1>2, <1>3, ToKeeps DEF VotingStages
<1> QED
  BY Zenon, <1>1, <1>4, QuietInv DEF Keeps, Stage

LEMMA CheckInv == ASSUME ElectionInv, NEW t \in Thread, Check(t) PROVE ElectionInv'
<1>1. Threads /\ Stage(t, "check") /\ UNCHANGED <<setting, election, sequence, confirmations>>
  BY Zenon DEF ElectionInv, Types, Check, local
<1>2. Voting(thread[t]) /\ thread[t] # Idle
  BY Zenon, <1>1, StageFacts DEF Threads, Stage
<1>3. \/ To(t, "record") /\ Newer(thread[t].vote, last_votes[thread[t].vote.account])
      \/ To(t, "observe")
      \/ Return(t)
  BY DEF Check
<1>4. CASE To(t, "record") /\ Newer(thread[t].vote, last_votes[thread[t].vote.account])
  <2>1. Keeps(t, "record")
    BY Zenon, <1>1, <1>2, <1>4, ToKeeps DEF VotingStages
  <2> QED
    BY Zenon, <1>1, <1>4, <2>1, QuietInv DEF Keeps, Stage
<1>5. CASE To(t, "observe")
  <2>1. Keeps(t, "observe")
    BY Zenon, <1>1, <1>2, <1>5, ToKeeps DEF VotingStages
  <2> QED
    BY Zenon, <1>1, <2>1, QuietInv DEF Keeps, Stage
<1>6. CASE Return(t)
  <2>1. Alone(t) /\ thread'[t].stage \in {"idle", "republish"}
    BY Zenon, <1>1, <1>2, <1>6, ReturnIs
  <2> QED
    BY Zenon, <1>1, <2>1, QuietInv DEF Stage
<1> QED
  BY Zenon, <1>3, <1>4, <1>5, <1>6

LEMMA TallyInv == ASSUME ElectionInv, NEW t \in Thread, Tally(t) PROVE ElectionInv'
<1>1. Types /\ Threads /\ Stage(t, "tally") /\ UNCHANGED <<setting, election, sequence, confirmations>>
  BY Zenon DEF ElectionInv, Types, Tally, local
<1>2. PICK b \in Leaders :
        thread' = [thread EXCEPT ![t] =
            [stage |-> "switch", vote |-> thread[t].vote, leader |-> b,
             first |-> Max(Totals), second |-> RunnerUp,
             sum |-> SumSet(Totals)]]
  BY Zenon DEF Tally
<1> DEFINE d == [stage |-> "switch", vote |-> thread[t].vote, leader |-> b,
                 first |-> Max(Totals), second |-> RunnerUp, sum |-> SumSet(Totals)]
<1>3. thread[t].vote \in Vote /\ b \in Block
  BY Zenon, <1>1, StageFacts, LeadersAreBlocks DEF Threads, Stage
<1>4. Work(d)
  BY Zenon, <1>3 DEF Work, Tallied
<1>5. d.stage = "switch" /\ d.leader \in Leaders /\ d.sum = SumSet(Totals)
  BY Zenon
<1> HIDE DEF d
<1>6. Alone(t) /\ thread'[t] = d
  BY Zenon, <1>1, <1>2, <1>4, BecomesIs DEF d
<1> QED
  BY Zenon, <1>1, <1>5, <1>6, QuietInv DEF Stage

LEMMA QuorumInv == ASSUME ElectionInv, NEW t \in Thread, Quorum(t) PROVE ElectionInv'
<1>1. Threads /\ Stage(t, "quorum") /\ UNCHANGED <<setting, election, sequence, confirmations>>
  BY Zenon DEF ElectionInv, Types, Quorum, local
<1>2. PICK stage \in {"exchange", "observe"} : To(t, stage)
  BY Zenon DEF Quorum
<1>3. Tallied(thread[t])
  BY Zenon, <1>1, StageFacts DEF Threads, Stage
<1>4. Keeps(t, stage)
  BY Zenon, <1>1, <1>2, <1>3, ToKeeps DEF TalliedStages
<1> QED
  BY Zenon, <1>1, <1>4, QuietInv DEF Keeps, Stage

LEMMA ObserveInv == ASSUME ElectionInv, NEW t \in Thread, Observe(t) PROVE ElectionInv'
<1>1. Threads /\ Stage(t, "observe") /\ UNCHANGED <<setting, election, sequence, confirmations>>
      /\ Return(t)
  BY Zenon DEF ElectionInv, Types, Observe, local
<1>2. thread[t] # Idle
  BY Zenon, <1>1, StageFacts DEF Threads, Stage
<1>3. Alone(t) /\ thread'[t].stage \in {"idle", "republish"}
  BY Zenon, <1>1, <1>2, ReturnIs
<1> QED
  BY Zenon, <1>1, <1>3, QuietInv DEF Stage

LEMMA RecordInv == ASSUME ElectionInv, NEW t \in Thread, Record(t) PROVE ElectionInv'
<1> DEFINE vote == thread[t].vote
           last == [sequence |-> vote.sequence, block |-> vote.block]
<1>1. /\ Types /\ Threads /\ Once /\ Stage(t, "record") /\ To(t, "count")
      /\ UNCHANGED <<setting, rep_votes, winner, confirmed, sequence, confirmations>>
      /\ last_votes' = [last_votes EXCEPT ![vote.account] = last]
  BY Zenon DEF ElectionInv, Types, Record, local
<1>2. Voting(thread[t]) /\ vote \in Vote
  BY Zenon, <1>1, StageFacts DEF Threads, Stage
<1>3. Keeps(t, "count")
  BY Zenon, <1>1, <1>2, ToKeeps DEF VotingStages
<1>4. vote.account \in Rep /\ last \in [sequence : Nat, block : Block \cup {0}]
  BY <1>2 DEF Vote
<1>5. last.block = vote.block /\ thread'[t].vote = vote
  BY Zenon, <1>3 DEF Keeps
<1> HIDE DEF vote, last
<1>6. last_votes \in [Rep -> [sequence : Nat, block : Block \cup {0}]]
  BY Zenon, <1>1 DEF Types
<1>7. Types'
  <2>1. last_votes' \in [Rep -> [sequence : Nat, block : Block \cup {0}]]
    BY Zenon, <1>1, <1>4, <1>6
  <2> QED
    BY Zenon, <1>1, <1>3, <2>1 DEF Types, Keeps, Alone
<1>8. Once'
  BY Zenon, <1>1, <1>3, QuietOnce DEF Keeps
<1>9. ASSUME OneByOne PROVE OneByOne'
  <2>1. t = Network
    BY Zenon, <1>1, <1>9, NetworkAlone DEF Stage
  <2>2. UNCHANGED <<Totals, Leaders>>
    BY Zenon, <1>1, TotalsSame
  <2>3. \A u \in Background : thread'[u] = thread[u]
    BY Zenon, <1>3, <2>1, ElectionAssumption DEF Keeps, Alone, Thread
  <2>4. Decided'
    BY Zenon, <1>1, <1>9, <2>1, <2>2 DEF OneByOne, Decided, Stage
  <2>5. /\ last_votes'[vote.account] = last
        /\ \A r \in Rep \ {vote.account} : last_votes'[r] = last_votes[r]
    BY Zenon, <1>1, <1>4, <1>6
  <2>6. \A r \in Rep : rep_votes[r] = last_votes[r].block
    BY Zenon, <1>1, <1>9, <2>1 DEF OneByOne, Stage
  <2>7. thread'[Network].stage = "count" /\ thread'[Network].vote = vote
    BY Zenon, <1>3, <1>5, <2>1 DEF Keeps
  <2> QED
    BY <1>1, <1>4, <1>5, <1>9, <2>3, <2>4, <2>5, <2>6, <2>7 DEF OneByOne, Stage
<1> QED
  BY Zenon, <1>1, <1>7, <1>8, <1>9 DEF ElectionInv

LEMMA CountInv == ASSUME ElectionInv, NEW t \in Thread, Count(t) PROVE ElectionInv'
<1> DEFINE vote == thread[t].vote
<1>1. /\ Types /\ Threads /\ Once /\ Stage(t, "count") /\ To(t, "tally")
      /\ UNCHANGED <<setting, last_votes, winner, confirmed, sequence, confirmations>>
      /\ rep_votes' = [rep_votes EXCEPT ![vote.account] = vote.block]
  BY Zenon DEF ElectionInv, Types, Count, local
<1>2. Voting(thread[t]) /\ vote \in Vote
  BY Zenon, <1>1, StageFacts DEF Threads, Stage
<1>3. Keeps(t, "tally")
  BY Zenon, <1>1, <1>2, ToKeeps DEF VotingStages
<1>4. vote.account \in Rep /\ vote.block \in Block
  BY Zenon, <1>2 DEF Vote
<1> HIDE DEF vote
<1>5. Types'
  <2>1. rep_votes' \in [Rep -> Block \cup {0}]
    BY Zenon, <1>1, <1>4 DEF Types
  <2> QED
    BY Zenon, <1>1, <1>3, <2>1 DEF Types, Keeps, Alone
<1>6. Once'
  BY Zenon, <1>1, <1>3, QuietOnce DEF Keeps
<1>7. ASSUME OneByOne PROVE OneByOne'
  <2>1. t = Network
    BY Zenon, <1>1, <1>7, NetworkAlone DEF Stage
  <2>2. \A u \in Background : thread'[u] = thread[u]
    BY Zenon, <1>3, <2>1, ElectionAssumption DEF Keeps, Alone, Thread
  <2>3. /\ rep_votes'[vote.account] = vote.block
        /\ \A r \in Rep \ {vote.account} : rep_votes'[r] = rep_votes[r]
    BY Zenon, <1>1, <1>4 DEF Types
  <2>4. /\ last_votes[vote.account].block = vote.block
        /\ \A r \in Rep \ {vote.account} : rep_votes[r] = last_votes[r].block
    BY Zenon, <1>1, <1>7, <2>1 DEF OneByOne, Stage, vote
  <2>5. thread'[Network].stage = "tally"
    BY Zenon, <1>3, <2>1 DEF Keeps
  <2> QED
    BY Zenon, <1>1, <1>7, <2>2, <2>3, <2>4, <2>5 DEF OneByOne, Stage
<1> QED
  BY Zenon, <1>1, <1>5, <1>6, <1>7 DEF ElectionInv

LEMMA SwitchInv == ASSUME ElectionInv, NEW t \in Thread, Switch(t) PROVE ElectionInv'
<1>1. /\ Types /\ Threads /\ Once /\ Stage(t, "switch") /\ To(t, "quorum")
      /\ UNCHANGED <<setting, rep_votes, last_votes, confirmed, sequence, confirmations>>
      /\ winner' = IF thread[t].sum >= OnlineMinimum THEN thread[t].leader ELSE winner
  BY Zenon DEF ElectionInv, Types, Switch, local
<1>2. Tallied(thread[t]) /\ thread[t].leader \in Block
  BY Zenon, <1>1, StageFacts DEF Threads, Stage
<1>3. Keeps(t, "quorum")
  BY Zenon, <1>1, <1>2, ToKeeps DEF TalliedStages
<1>4. Types'
  <2>1. winner' \in Block
    BY Zenon, <1>1, <1>2 DEF Types
  <2> QED
    BY Zenon, <1>1, <1>3, <2>1 DEF Types, Keeps, Alone
<1>5. Once'
  BY Zenon, <1>1, <1>3, QuietOnce DEF Keeps
<1>6. ASSUME OneByOne PROVE OneByOne'
  <2>1. t = Network
    BY Zenon, <1>1, <1>6, NetworkAlone DEF Stage
  <2>2. UNCHANGED <<Totals, Leaders>>
    BY Zenon, <1>1, TotalsSame
  <2>3. \A u \in Background : thread'[u] = thread[u]
    BY Zenon, <1>3, <2>1, ElectionAssumption DEF Keeps, Alone, Thread
  <2>4. thread[t].leader \in Leaders /\ thread[t].sum = SumSet(Totals)
    BY Zenon, <1>1, <1>6, <2>1 DEF OneByOne
  <2>5. Decided'
    BY Zenon, <1>1, <2>2, <2>4 DEF Decided
  <2>6. \A r \in Rep : rep_votes[r] = last_votes[r].block
    BY Zenon, <1>1, <1>6, <2>1 DEF OneByOne, Stage
  <2>7. thread'[Network].stage = "quorum"
    BY Zenon, <1>3, <2>1 DEF Keeps
  <2> QED
    BY Zenon, <1>1, <1>6, <2>3, <2>5, <2>6, <2>7 DEF OneByOne, Stage
<1> QED
  BY Zenon, <1>1, <1>4, <1>5, <1>6 DEF ElectionInv

LEMMA ConfirmOnceInv == ASSUME ElectionInv, NEW t \in Thread, ConfirmOnce(t) PROVE ElectionInv'
<1>1. /\ Types /\ Threads /\ Once /\ Stage(t, "exchange") /\ confirmed' = TRUE
      /\ UNCHANGED <<setting, rep_votes, last_votes, winner, sequence, confirmations>>
  BY Zenon DEF ElectionInv, Types, ConfirmOnce, local
<1>2. PICK stage \in {"observe", "confirm"} : To(t, stage) /\ (stage = "confirm" => ~confirmed)
  BY Zenon DEF ConfirmOnce
<1>3. Tallied(thread[t])
  BY Zenon, <1>1, StageFacts DEF Threads, Stage
<1>4. Keeps(t, stage)
  BY Zenon, <1>1, <1>2, <1>3, ToKeeps DEF TalliedStages
<1>5. Types'
  BY Zenon, <1>1, <1>4 DEF Types, Keeps, Alone
<1>6. Once'
  <2>1. /\ \A u \in Thread \ {t} : Stage(u, "confirm")' <=> Stage(u, "confirm")
        /\ Stage(t, "confirm")' <=> stage = "confirm"
    BY Zenon, <1>4 DEF Keeps, Alone, Stage
  <2>2. CASE stage = "confirm"
    <3>1. confirmations = <<>> /\ \A u \in Thread : ~Stage(u, "confirm")
      BY Zenon, <1>1, <1>2, <2>2 DEF Once
    <3>2. \A u \in Thread : Stage(u, "confirm")' => u = t
      BY Zenon, <2>1, <3>1
    <3> QED
      BY Zenon, <1>1, <3>1, <3>2 DEF Once, Stage, Thread
  <2>3. CASE stage = "observe"
    <3>1. \A u \in Thread : Stage(u, "confirm")' => Stage(u, "confirm")
      BY Zenon, <2>1, <2>3
    <3> QED
      BY Zenon, <1>1, <3>1 DEF Once, Stage, Thread
  <2> QED
    BY Zenon, <2>2, <2>3
<1>7. ASSUME OneByOne PROVE OneByOne'
  <2>1. t = Network
    BY Zenon, <1>1, <1>7, NetworkAlone DEF Stage
  <2> QED
    BY Zenon, <1>1, <1>4, <1>7, <2>1, QuietOneByOne DEF Keeps, Stage
<1> QED
  BY Zenon, <1>1, <1>5, <1>6, <1>7 DEF ElectionInv

LEMMA ConfirmInv == ASSUME ElectionInv, NEW t \in Thread, Confirm(t) PROVE ElectionInv'
<1>1. /\ Types /\ Threads /\ Once /\ Stage(t, "confirm") /\ To(t, "observe")
      /\ UNCHANGED <<setting, rep_votes, last_votes, winner, confirmed, sequence>>
      /\ confirmations' = Append(confirmations, winner)
  BY Zenon DEF ElectionInv, Types, Confirm, local, election
<1>2. Tallied(thread[t])
  BY Zenon, <1>1, StageFacts DEF Threads, Stage
<1>3. Keeps(t, "observe")
  BY Zenon, <1>1, <1>2, ToKeeps DEF TalliedStages
<1>4. Types'
  <2>1. confirmations' \in Seq(Block)
    BY <1>1 DEF Types
  <2> QED
    BY Zenon, <1>1, <1>3, <2>1 DEF Types, Keeps, Alone
<1>5. Once'
  <2>1. confirmed /\ confirmations = <<>>
    BY Zenon, <1>1 DEF Once, Types
  <2>2. \A u \in Thread : ~Stage(u, "confirm")'
    BY Zenon, <1>1, <1>3 DEF Once, Keeps, Alone, Stage
  <2>3. Len(confirmations') <= 1
    BY <1>1, <2>1
  <2> QED
    BY Zenon, <1>1, <2>1, <2>2, <2>3 DEF Once, Stage, Thread
<1>6. ASSUME OneByOne PROVE OneByOne'
  <2>1. t = Network
    BY Zenon, <1>1, <1>6, NetworkAlone DEF Stage
  <2> QED
    BY Zenon, <1>1, <1>3, <1>6, <2>1, QuietOneByOne DEF Keeps, Stage
<1> QED
  BY Zenon, <1>1, <1>4, <1>5, <1>6 DEF ElectionInv

(* Announcing, ending and erasing leave votes and threads alone. *)
LEMMA LifeInv ==
    ASSUME ElectionInv, UNCHANGED <<setting, election, sequence, thread, confirmations>>
    PROVE  ElectionInv'
<1>1. UNCHANGED <<Totals, Leaders>>
  BY Zenon, TotalsSame DEF election
<1>2. Threads'
  BY Zenon DEF ElectionInv, Types, Threads
<1>3. Types' /\ Once'
  BY Zenon, <1>2 DEF ElectionInv, Types, Once, Stage, election
<1>4. OneByOne => OneByOne'
  BY Zenon, <1>1 DEF OneByOne, Decided, Stage, election
<1> QED
  BY Zenon, <1>3, <1>4 DEF ElectionInv

LEMMA NoWeight == WeightOf({}) = 0
<1> DEFINE F(k) == [s \in SUBSET {} |->
                       IF s = {} THEN 0
                       ELSE Weight[CHOOSE x \in s : TRUE] + k[s \ {CHOOSE x \in s : TRUE}]]
           it == CHOOSE k : k = F(k)
<1>1. WeightOf({}) = it[{}]
  BY Zenon DEF WeightOf, MapThenSumSet, MapThenFoldSet
<1>2. \E k : k = F(k)
  <2> DEFINE k == [s \in SUBSET {} |-> 0]
  <2>1. k = F(k)
    BY Zenon
  <2> QED
    BY Zenon, <2>1
<1> HIDE DEF F
<1>3. it = F(it)
  BY Zenon, <1>2
<1> HIDE DEF it
<1>4. F(it)[{}] = 0
  BY Zenon DEF F
<1> QED
  BY Zenon, <1>1, <1>3, <1>4

LEMMA InitElection == Init => ElectionInv
<1> SUFFICES ASSUME Init PROVE ElectionInv
  BY Zenon
<1>1. \A t \in Thread : thread[t] = Idle /\ Stage(t, "idle")
  BY Zenon DEF Init, Idle, Stage
<1>2. Threads
  BY Zenon, <1>1 DEF Threads, Init, Work
<1>3. Types
  <2>1. last_votes \in [Rep -> [sequence : Nat, block : Block \cup {0}]]
    BY Zenon DEF Init, NoVote
  <2>2. sequence \in [Setting[setting].local -> Nat] /\ confirmations \in Seq(Block)
    BY DEF Init
  <2> QED
    BY Zenon, <1>2, <2>1, <2>2, ElectionAssumption DEF Types, Init
<1>4. Once
  <2>1. \A t \in Thread : ~Stage(t, "confirm")
    BY Zenon, <1>1 DEF Stage
  <2> QED
    BY <2>1 DEF Once, Init
<1>5. First \in Leaders
  <2>1. Candidates = {First} /\ First # 0
    BY Zenon, ElectionAssumption DEF Candidates, Init
  <2>2. Total(First) = 0
    <3>1. {r \in Rep : rep_votes[r] = First} = {}
      BY Zenon, <2>1 DEF Init
    <3> QED
      BY Zenon, <3>1, NoWeight DEF Total
  <2>3. Totals = {0}
    BY Zenon, <2>1, <2>2 DEF Totals
  <2>4. Max({0}) = 0
    BY DEF Max
  <2> QED
    BY Zenon, <2>1, <2>2, <2>3, <2>4 DEF Leaders
<1>6. OneByOne
  <2>1. \A r \in Rep : rep_votes[r] = last_votes[r].block
    BY Zenon DEF Init, NoVote
  <2>2. Decided
    BY Zenon, <1>5 DEF Decided, Init
  <2>3. \A t \in Thread : thread[t].stage = "idle"
    BY Zenon, <1>1 DEF Stage
  <2> QED
    BY Zenon, <2>1, <2>2, <2>3, NetworkIsThread DEF OneByOne, Stage, Thread
<1> QED
  BY Zenon, <1>3, <1>4, <1>6 DEF ElectionInv

LEMMA NextElection == ElectionInv /\ [Next]_vars => ElectionInv'
<1> SUFFICES ASSUME ElectionInv, [Next]_vars PROVE ElectionInv'
  BY Zenon
<1>1. ASSUME NEW vote \in Vote, ConfirmAck(vote) PROVE ElectionInv'
  BY Zenon, <1>1, ConfirmAckInv
<1>2. ASSUME NEW t \in Thread, BroadcastWinner(t) \/ Republish(t) \/ VoteStep(t) PROVE ElectionInv'
  BY Zenon, <1>2, BroadcastWinnerInv, RepublishInv, FindInv, CheckInv, RecordInv, CountInv,
     TallyInv,
     SwitchInv, QuorumInv, ConfirmOnceInv, ConfirmInv, ObserveInv DEF VoteStep
<1>3. CASE AnnounceEnd \/ AnnounceAgain \/ Erase \/ RootRolledBack \/ UNCHANGED vars
  <2>1. UNCHANGED <<setting, election, sequence, thread, confirmations>>
    BY Zenon, <1>3 DEF AnnounceEnd, AnnounceAgain, Erase, RootRolledBack, vars, local
  <2> QED
    BY Zenon, <2>1, LifeInv
<1> QED
  BY Zenon, <1>1, <1>2, <1>3 DEF Next

LEMMA ElectionInvariant == Spec => []ElectionInv
  BY InitElection, NextElection, PTL DEF Spec

-----------------------------------------------------------------------------

(* process_confirmed runs once at most for an election, because            *)
(* confirm_once exchanges the flag in one step: no matter how many threads *)
(* find the quorum at the same time, and what winner is meanwhile.         *)
THEOREM ElectionConfirmsOnce == Spec => []ConfirmedOnce
<1>1. ElectionInv => ConfirmedOnce
  BY Zenon DEF ElectionInv, Once, ConfirmedOnce
<1> QED
  BY <1>1, ElectionInvariant, PTL

(* When only the network thread applies votes, election::vote and          *)
(* confirm_if_quorum leave as winner a block that leads by the last vote   *)
(* of each representative, whatever the representatives and their weights. *)
THEOREM ElectionLatestVotes == Spec => []LatestVotesDecide
<1>1. ElectionInv => LatestVotesDecide
  <2> SUFFICES ASSUME ElectionInv, Setting[setting].background = {}, \A t \in Thread : Stage(t, "idle")
               PROVE  LatestVotesDecide
    BY Zenon DEF LatestVotesDecide
  <2>1. \A r \in Rep : rep_votes[r] = last_votes[r].block
    BY Zenon, NetworkIsThread DEF ElectionInv, OneByOne, Stage
  <2>2. Decided
    BY Zenon, NetworkIsThread DEF ElectionInv, OneByOne, Stage
  <2>3. {last_votes[r].block : r \in Rep} = {rep_votes[r] : r \in Rep}
    BY Zenon, <2>1
  <2>4. \A b : TotalByLast(b) = Total(b)
    <3> SUFFICES ASSUME NEW b PROVE TotalByLast(b) = Total(b)
      BY Zenon
    <3>1. {r \in Rep : last_votes[r].block = b} = {r \in Rep : rep_votes[r] = b}
      BY Zenon, <2>1
    <3> QED
      BY Zenon, <3>1 DEF TotalByLast, Total
  <2>5. {TotalByLast(b) : b \in ({last_votes[r].block : r \in Rep} \ {0}) \cup {First}} = Totals
    BY Zenon, <2>3, <2>4 DEF Totals, Candidates
  <2>6. SumSet(Totals) >= OnlineMinimum => TotalByLast(winner) = Max(Totals)
    BY Zenon, <2>2, <2>4 DEF Decided, Leaders
  <2> QED
    BY Zenon, <2>5, <2>6 DEF LatestVotesDecide
<1> QED
  BY <1>1, ElectionInvariant, PTL

-----------------------------------------------------------------------------
(* Two threads in one election *)

(* Background threads vote for this node's representatives only, so that   *)
(* what the network thread has checked or recorded of another still holds  *)
(* at its next step.                                                       *)
Others ==
    LET vote == thread[Network].vote
    IN  /\ \A t \in Background : thread[t] # Idle => thread[t].vote.account \in Setting[setting].local
        /\ vote.account \notin Setting[setting].local =>
               /\ Stage(Network, "record") => Newer(vote, last_votes[vote.account])
               /\ Stage(Network, "count") => last_votes[vote.account].block = vote.block

(* A step of a thread that has a vote keeps the vote or drops it; it comes *)
(* to record from a check, to count from a record.                         *)
Steps(t) ==
    /\ thread[t] # Idle /\ Alone(t) /\ setting' = setting
    /\ thread'[t] = Idle \/ thread'[t].vote = thread[t].vote
    /\ thread'[t].stage = "record" =>
           Newer(thread[t].vote, last_votes[thread[t].vote.account]) /\ UNCHANGED last_votes
    /\ thread'[t].stage = "count" => Record(t)
    /\ Record(t) \/ UNCHANGED last_votes

LEMMA VoteSteps == ASSUME Types, NEW t \in Thread, VoteStep(t) PROVE Steps(t)
<1>1. Threads /\ setting' = setting
  BY Zenon DEF Types, VoteStep, Find, Check, Record, Count, Tally, Switch, Quorum, ConfirmOnce,
     Confirm, Observe
<1>2. ASSUME NEW stage, Keeps(t, stage), thread[t] # Idle, stage \notin {"record", "count"},
             UNCHANGED last_votes
      PROVE  Steps(t)
  BY Zenon, <1>1, <1>2 DEF Keeps, Steps
<1>3. ASSUME Return(t), thread[t] # Idle, UNCHANGED last_votes PROVE Steps(t)
  BY Zenon, <1>1, <1>3, ReturnIs DEF Steps
<1>4. CASE Find(t)
  <2>1. PICK stage \in {"check", "observe"} : To(t, stage)
    BY Zenon, <1>4 DEF Find
  <2>2. Voting(thread[t]) /\ thread[t] # Idle
    BY Zenon, <1>1, <1>4, StageFacts DEF Find, Threads, Stage
  <2>3. Keeps(t, stage)
    BY Zenon, <1>1, <2>1, <2>2, ToKeeps DEF VotingStages
  <2> QED
    BY Zenon, <1>2, <1>4, <2>2, <2>3 DEF Find, election
<1>5. CASE Check(t)
  <2>1. /\ UNCHANGED last_votes
        /\ \/ To(t, "record") /\ Newer(thread[t].vote, last_votes[thread[t].vote.account])
           \/ To(t, "observe")
           \/ Return(t)
    BY <1>5 DEF Check, election
  <2>2. Voting(thread[t]) /\ thread[t] # Idle
    BY Zenon, <1>1, <1>5, StageFacts DEF Check, Threads, Stage
  <2>3. CASE To(t, "record") /\ Newer(thread[t].vote, last_votes[thread[t].vote.account])
    <3>1. Keeps(t, "record")
      BY Zenon, <1>1, <2>2, <2>3, ToKeeps DEF VotingStages
    <3> QED
      BY Zenon, <1>1, <2>1, <2>2, <2>3, <3>1 DEF Keeps, Steps
  <2>4. CASE To(t, "observe")
    <3>1. Keeps(t, "observe")
      BY Zenon, <1>1, <2>2, <2>4, ToKeeps DEF VotingStages
    <3> QED
      BY Zenon, <1>2, <2>1, <2>2, <3>1
  <2> QED
    BY Zenon, <1>3, <2>1, <2>2, <2>3, <2>4
<1>6. CASE Record(t)
  <2>1. Voting(thread[t]) /\ thread[t] # Idle /\ To(t, "count")
    BY Zenon, <1>1, <1>6, StageFacts DEF Record, Threads, Stage
  <2>2. Keeps(t, "count")
    BY Zenon, <1>1, <2>1, ToKeeps DEF VotingStages
  <2> QED
    BY Zenon, <1>1, <1>6, <2>1, <2>2 DEF Keeps, Steps
<1>7. CASE Count(t)
  <2>1. Voting(thread[t]) /\ thread[t] # Idle /\ To(t, "tally") /\ UNCHANGED last_votes
    BY Zenon, <1>1, <1>7, StageFacts DEF Count, Threads, Stage
  <2>2. Keeps(t, "tally")
    BY Zenon, <1>1, <2>1, ToKeeps DEF VotingStages
  <2> QED
    BY Zenon, <1>2, <2>1, <2>2
<1>8. CASE Tally(t)
  <2>1. PICK b \in Leaders :
          thread' = [thread EXCEPT ![t] =
              [stage |-> "switch", vote |-> thread[t].vote, leader |-> b,
               first |-> Max(Totals), second |-> RunnerUp, sum |-> SumSet(Totals)]]
    BY Zenon, <1>8 DEF Tally
  <2> DEFINE d == [stage |-> "switch", vote |-> thread[t].vote, leader |-> b,
                   first |-> Max(Totals), second |-> RunnerUp, sum |-> SumSet(Totals)]
  <2>2. thread[t].vote \in Vote /\ b \in Block /\ thread[t] # Idle
    BY Zenon, <1>1, <1>8, StageFacts, LeadersAreBlocks DEF Threads, Stage, Tally
  <2>3. Work(d)
    BY Zenon, <2>2 DEF Work, Tallied
  <2>4. d.stage = "switch" /\ d.vote = thread[t].vote
    BY Zenon
  <2> HIDE DEF d
  <2>5. Alone(t) /\ thread'[t] = d
    BY Zenon, <1>1, <2>1, <2>3, BecomesIs DEF d
  <2> QED
    BY Zenon, <1>1, <1>8, <2>2, <2>4, <2>5 DEF Steps, Tally, election
<1>9. CASE Switch(t) \/ Quorum(t) \/ ConfirmOnce(t) \/ Confirm(t)
  <2>1. PICK stage \in {"quorum", "exchange", "confirm", "observe"} : To(t, stage)
    BY Zenon, <1>9 DEF Switch, Quorum, ConfirmOnce, Confirm
  <2>2. Tallied(thread[t]) /\ thread[t] # Idle /\ UNCHANGED last_votes
    BY Zenon, <1>1, <1>9, StageFacts
       DEF Switch, Quorum, ConfirmOnce, Confirm, Threads, Stage, election
  <2>3. Keeps(t, stage)
    BY Zenon, <1>1, <2>1, <2>2, ToKeeps DEF TalliedStages
  <2> QED
    BY Zenon, <1>2, <2>1, <2>2, <2>3
<1>10. CASE Observe(t)
  <2>1. thread[t] # Idle /\ Return(t) /\ UNCHANGED last_votes
    BY Zenon, <1>1, <1>10, StageFacts DEF Observe, Threads, Stage, election
  <2> QED
    BY Zenon, <1>3, <2>1
<1> QED
  BY Zenon, <1>4, <1>5, <1>6, <1>7, <1>8, <1>9, <1>10 DEF VoteStep

LEMMA RecordIs ==
    ASSUME Types, NEW t \in Thread, Record(t), thread[t] # Idle
    PROVE  /\ last_votes'[thread[t].vote.account] =
                  [sequence |-> thread[t].vote.sequence, block |-> thread[t].vote.block]
           /\ \A r \in Rep : r # thread[t].vote.account => last_votes'[r] = last_votes[r]
<1>1. thread[t].vote.account \in Rep
  <2>1. thread[t].vote \in Vote
    BY Zenon, StageFacts DEF Types, Threads
  <2> QED
    BY <2>1 DEF Vote
<1>2. last_votes' = [last_votes EXCEPT ![thread[t].vote.account] =
          [sequence |-> thread[t].vote.sequence, block |-> thread[t].vote.block]]
  BY Zenon DEF Record
<1> QED
  BY Zenon, <1>1, <1>2 DEF Types

LEMMA OthersStep ==
    ASSUME ElectionInv, Others, [Next]_vars
    PROVE  Others'
<1> DEFINE Own == Setting[setting].local
<1>1. Types /\ Threads
  BY Zenon DEF ElectionInv, Types
<1>2. \A t \in Background : t \in Thread /\ t # Network
  BY Zenon, ElectionAssumption DEF Thread
<1>3. ASSUME NEW vote \in Vote, ConfirmAck(vote) PROVE Others'
  <2> DEFINE d == [stage |-> "find", vote |-> vote]
  <2>1. thread' = [thread EXCEPT ![Network] = d] /\ setting' = setting
    BY Zenon, <1>3 DEF ConfirmAck
  <2>2. Work(d) /\ d.stage = "find"
    BY Zenon DEF Work, Voting
  <2> HIDE DEF d
  <2>3. Alone(Network) /\ thread'[Network].stage = "find"
    BY Zenon, <1>1, <2>1, <2>2, BecomesIs, NetworkIsThread
  <2> QED
    BY Zenon, <1>2, <2>1, <2>3 DEF Others, Alone, Stage
<1>4. ASSUME NEW t \in Thread, BroadcastWinner(t) PROVE Others'
  <2>1. PICK b \in Leaders, r \in Own :
          thread' = [thread EXCEPT ![t] =
              [stage |-> "find",
               vote |-> [account |-> r, sequence |-> sequence[r] + 1, block |-> b]]]
    BY Zenon, <1>4 DEF BroadcastWinner
  <2>2. setting' = setting /\ last_votes' = last_votes
    BY Zenon, <1>4 DEF BroadcastWinner, election
  <2>3. /\ thread'[t].vote.account = r /\ thread'[t].stage = "find"
        /\ \A u \in Thread \ {t} : thread'[u] = thread[u]
    BY Zenon, <1>1, <2>1 DEF Threads
  <2> QED
    BY Zenon, <1>2, <2>2, <2>3, NetworkIsThread DEF Others, Stage
<1>5. ASSUME NEW t \in Thread, Republish(t) PROVE Others'
  <2>1. /\ thread' = [thread EXCEPT ![t] = Idle] /\ Idle.stage = "idle"
        /\ setting' = setting /\ last_votes' = last_votes
    BY Zenon, <1>5 DEF Republish, election, Idle
  <2>2. thread'[t] = Idle /\ \A u \in Thread \ {t} : thread'[u] = thread[u]
    BY Zenon, <1>1, <2>1 DEF Threads
  <2> QED
    BY Zenon, <1>2, <2>1, <2>2, NetworkIsThread DEF Others, Stage
<1>6. ASSUME NEW t \in Thread, VoteStep(t) PROVE Others'
  <2>1. Steps(t)
    BY Zenon, <1>1, <1>6, VoteSteps
  <2>2. ASSUME NEW u \in Background, thread'[u] # Idle
        PROVE  thread'[u].vote.account \in Setting[setting'].local
    BY Zenon, <1>2, <2>1, <2>2 DEF Steps, Alone, Others
  <2>3. CASE t = Network
    <3> DEFINE vote == thread[Network].vote
    <3>0. Steps(Network)
      BY Zenon, <2>1, <2>3
    <3>1. ASSUME Stage(Network, "record")'
          PROVE  Newer(thread'[Network].vote, last_votes'[thread'[Network].vote.account])
      <4>1. thread'[Network] # Idle
        BY <3>1 DEF Stage, Idle
      <4> QED
        BY Zenon, <3>0, <3>1, <4>1 DEF Steps, Stage
    <3>2. ASSUME Stage(Network, "count")'
          PROVE  last_votes'[thread'[Network].vote.account].block = thread'[Network].vote.block
      <4>1. thread'[Network] # Idle
        BY <3>2 DEF Stage, Idle
      <4>2. Record(Network) /\ thread'[Network].vote = vote /\ thread[Network] # Idle
        BY Zenon, <3>0, <3>2, <4>1 DEF Steps, Stage
      <4>3. last_votes'[vote.account] = [sequence |-> vote.sequence, block |-> vote.block]
        BY Zenon, <1>1, <4>2, RecordIs, NetworkIsThread
      <4>4. last_votes'[vote.account].block = vote.block
        BY <4>3
      <4> QED
        BY Zenon, <4>2, <4>4
    <3> QED
      BY Zenon, <2>2, <3>1, <3>2 DEF Others
  <2>4. CASE t # Network
    <3>1. thread'[Network] = thread[Network] /\ setting' = setting /\ t \in Background
      BY Zenon, <2>1, <2>4, NetworkIsThread DEF Steps, Alone, Thread
    <3>2. thread[t].vote.account \in Own
      BY Zenon, <2>1, <3>1 DEF Others, Steps
    <3>3. \A r \in Rep \ Own : last_votes'[r] = last_votes[r]
      BY Zenon, <1>1, <2>1, <3>2, RecordIs DEF Steps
    <3>4. ASSUME Stage(Network, "record") \/ Stage(Network, "count")
          PROVE  thread[Network].vote.account \in Rep
      <4>1. thread[Network].vote \in Vote
        BY Zenon, <1>1, <3>4, StageFacts, NetworkIsThread DEF Threads, Stage, Idle
      <4> QED
        BY <4>1 DEF Vote
    <3> QED
      BY Zenon, <2>2, <3>1, <3>3, <3>4 DEF Others, Stage
  <2> QED
    BY Zenon, <2>3, <2>4
<1>7. CASE AnnounceEnd \/ AnnounceAgain \/ Erase \/ RootRolledBack \/ UNCHANGED vars
  <2>1. UNCHANGED <<setting, last_votes, thread>>
    BY Zenon, <1>7 DEF AnnounceEnd, AnnounceAgain, Erase, RootRolledBack, vars, election
  <2> QED
    BY Zenon, <2>1 DEF Others, Stage
<1> QED
  BY Zenon, <1>3, <1>4, <1>5, <1>6, <1>7 DEF Next

(* With any number of threads in one election, election::vote never puts a *)
(* vote of another node's representative in the place of a newer one, and  *)
(* votes::vote counts what was last recorded.                              *)
THEOREM ElectionOthersInOrder == Spec => OthersInOrder
<1> DEFINE Step == \A r \in Rep \ Setting[setting].local :
                      /\ last_votes'[r] # last_votes[r] => Newer(last_votes'[r], last_votes[r])
                      /\ rep_votes'[r] # rep_votes[r] => rep_votes'[r] = last_votes[r].block
<1>1. Init => Others
  <2> SUFFICES ASSUME Init PROVE Others
    BY Zenon
  <2>1. \A t \in Thread : thread[t] = Idle
    BY Zenon DEF Init
  <2>2. thread[Network].stage = "idle"
    BY <2>1, NetworkIsThread DEF Idle
  <2>3. ~Stage(Network, "record") /\ ~Stage(Network, "count")
    BY <2>2 DEF Stage
  <2> QED
    BY Zenon, <2>1, <2>3 DEF Others, Thread
<1>2. ASSUME ElectionInv, Others, NEW t \in Thread, Record(t) PROVE Step
  <2>1. Types /\ Threads /\ UNCHANGED rep_votes
    BY Zenon, <1>2 DEF ElectionInv, Types, Record
  <2>2. thread[t] # Idle
    BY <1>2 DEF Record, Stage, Idle
  <2> DEFINE vote == thread[t].vote
             last == [sequence |-> vote.sequence, block |-> vote.block]
  <2>3. /\ last_votes'[vote.account] = last
        /\ \A r \in Rep : r # vote.account => last_votes'[r] = last_votes[r]
    BY Zenon, <1>2, <2>1, <2>2, RecordIs
  <2>4. ASSUME vote.account \notin Setting[setting].local PROVE Newer(last, last_votes[vote.account])
    <3>1. t = Network
      BY Zenon, <1>2, <2>2, <2>4 DEF Others, Thread
    <3>2. Newer(vote, last_votes[vote.account])
      BY Zenon, <1>2, <2>4, <3>1 DEF Others, Record
    <3> QED
      BY Zenon, <3>2 DEF Newer
  <2> HIDE DEF vote, last
  <2> QED
    BY Zenon, <2>1, <2>3, <2>4
<1>3. ASSUME ElectionInv, Others, NEW t \in Thread, Count(t) PROVE Step
  <2>1. Types /\ Threads /\ UNCHANGED last_votes
    BY Zenon, <1>3 DEF ElectionInv, Types, Count
  <2>2. thread[t] # Idle
    BY <1>3 DEF Count, Stage, Idle
  <2> DEFINE vote == thread[t].vote
  <2>3. \A r \in Rep : rep_votes'[r] # rep_votes[r] => r = vote.account /\ rep_votes'[r] = vote.block
    BY Zenon, <1>3, <2>1 DEF Types, Count
  <2>4. ASSUME vote.account \notin Setting[setting].local
        PROVE  last_votes[vote.account].block = vote.block
    <3>1. t = Network
      BY Zenon, <1>3, <2>2, <2>4 DEF Others, Thread
    <3> QED
      BY Zenon, <1>3, <2>4, <3>1 DEF Others, Count
  <2> HIDE DEF vote
  <2> QED
    BY Zenon, <2>1, <2>3, <2>4
<1>4. ElectionInv /\ Others /\ [Next]_vars => Step
  <2> SUFFICES ASSUME ElectionInv, Others, [Next]_vars PROVE Step
    BY Zenon
  <2>1. (\E t \in Thread : Record(t) \/ Count(t)) \/ UNCHANGED <<last_votes, rep_votes>>
    BY Zenon DEF Next, vars, election, ConfirmAck, BroadcastWinner, Republish, VoteStep, Find,
       Check, Tally, Switch, Quorum, ConfirmOnce, Confirm, Observe, AnnounceEnd, AnnounceAgain,
       Erase, RootRolledBack
  <2> QED
    BY Zenon, <1>2, <1>3, <2>1
<1>5. ElectionInv /\ Others /\ [Next]_vars => Others'
  BY Zenon, OthersStep
<1> QED
  BY <1>1, <1>4, <1>5, ElectionInvariant, PTL DEF Spec, OthersInOrder

=============================================================================
