---------------------------- MODULE LedgerProofs ----------------------------
(***************************************************************************)
(* LedgerInv is an invariant of the ledger, SumsInv with it; the ledger    *)
(* implements BlockLattice; process accepts exactly the valid blocks; and  *)
(* a rollback removes nothing but what stands on its target.               *)
(***************************************************************************)
EXTENDS LedgerRefinement, LedgerStepsProofs, LedgerTotalsProofs

(* All that processing a block does. *)
LEMMA ProcessTallies ==
    ASSUME LedgerInv, Process
    PROVE  \E h \in Hash : /\ h \notin blocks /\ Valid(blocks, h) /\ AddsBlock(h)
                           /\ Tallies(Owner[h]) /\ CountsUp(h) /\ rollbacks = <<>>
<1>1. PICK h \in Hash : \/ ProcessState(h) \/ ProcessChange(h) \/ ProcessSend(h)
                        \/ ProcessReceive(h) \/ ProcessOpen(h)
  BY Zenon DEF Process
<1>2. h \notin blocks /\ Valid(blocks, h) /\ AddsBlock(h)
  BY Zenon, <1>1, ProcessStateAdds, ProcessChangeAdds, HashOrder, ProcessSendAdds,
     ProcessReceiveAdds, ProcessOpenAdds
<1>3. Tallies(Owner[h]) /\ CountsUp(h)
  BY Zenon, <1>1, ProcessStateTallies, ProcessChangeTallies, HashOrder, ProcessSendTallies,
     ProcessReceiveTallies,
     ProcessOpenTallies
<1>4. rollbacks = <<>>
  BY Zenon, <1>1 DEF ProcessState, ProcessChange, ProcessSend, ProcessReceive, ProcessOpen,
     Accepted
<1> QED
  BY Zenon, <1>2, <1>3, <1>4

(* The steps that only move the call stack. *)

LEMMA TablesUnchanged ==
    ASSUME LedgerInv, UNCHANGED tables, rollbacks' \in Seq(Call), CallsOnChain'
    PROVE  LedgerInv'
<1>1. TypeOK'
  BY Zenon DEF tables, LedgerInv, TypeOK
<1>2. Sound(blocks)'
  BY Zenon DEF tables, LedgerInv, Sound, ChainsLinked, ReceivedOnce, Balanced
<1>3. AccountsAreChains' /\ SuccessorsMatch'
  BY ZenonT(40) DEF tables, LedgerInv, AccountsAreChains, Chain, SuccessorsMatch
<1>4. PendingIsUnreceived'
  BY Zenon DEF tables, LedgerInv, PendingIsUnreceived, Received
<1>5. FrontiersAreLegacyHeads' /\ IndexIsRight'
  BY Zenon DEF tables, LedgerInv, FrontiersAreLegacyHeads, IndexIsRight
<1> QED
  BY Zenon, <1>1, <1>2, <1>3, <1>4, <1>5 DEF LedgerInv

LEMMA RollbackStartInv == ASSUME LedgerInv, NEW h \in Hash, RollbackStart(h) PROVE LedgerInv'
<1>1. h \in blocks \ {Genesis} /\ AccountOf(h) = Owner[h] /\ Owner[h] \in Account
  BY Zenon, AccountOfIs, HashOrder DEF RollbackStart, LedgerInv, Sound, ChainsLinked
<1>2. rollbacks' = <<[target |-> h, account |-> Owner[h]]>>
  BY Zenon, <1>1 DEF RollbackStart
<1>3. [target |-> h, account |-> Owner[h]] \in Call
  BY Zenon, <1>1 DEF Call
<1>4. rollbacks' \in Seq(Call) /\ CallsOnChain'
  BY <1>1, <1>2, <1>3 DEF CallsOnChain
<1> QED
  BY Zenon, <1>4, TablesUnchanged DEF RollbackStart

LEMMA Prefix ==
    ASSUME NEW S, NEW s \in Seq(S), NEW n \in Nat, n <= Len(s)
    PROVE  /\ SubSeq(s, 1, n) \in Seq(S) /\ Len(SubSeq(s, 1, n)) = n
           /\ \A i \in 1 .. n : SubSeq(s, 1, n)[i] = s[i]
  OBVIOUS

LEMMA RollbackReturnInv == ASSUME LedgerInv, RollbackReturn PROVE LedgerInv'
<1>1. rollbacks \in Seq(Call) /\ rollbacks # <<>> /\ CallsOnChain
  BY Zenon DEF RollbackReturn, LedgerInv, TypeOK
<1>2. rollbacks' = SubSeq(rollbacks, 1, Len(rollbacks) - 1)
  BY Zenon DEF RollbackReturn
<1>3. rollbacks' \in Seq(Call) /\ Len(rollbacks') = Len(rollbacks) - 1
      /\ \A i \in 1 .. Len(rollbacks) - 1 : rollbacks'[i] = rollbacks[i]
  <2> DEFINE n == Len(rollbacks) - 1
  <2>1. n \in Nat /\ n <= Len(rollbacks)
    BY <1>1
  <2> HIDE DEF n
  <2>2. /\ SubSeq(rollbacks, 1, n) \in Seq(Call) /\ Len(SubSeq(rollbacks, 1, n)) = n
        /\ \A i \in 1 .. n : SubSeq(rollbacks, 1, n)[i] = rollbacks[i]
    BY <1>1, <2>1, Prefix, Zenon
  <2> QED
    BY <1>2, <2>2, Zenon DEF n
<1>4. CallsOnChain'
  BY <1>1, <1>3 DEF CallsOnChain
<1> QED
  BY Zenon, <1>3, <1>4, TablesUnchanged DEF RollbackReturn

LEMMA RollbackCascadeInv == ASSUME LedgerInv, NEW h \in Hash, RollbackCascade(h) PROVE LedgerInv'
<1> DEFINE b == Link(h)
           t == accounts[b].head
<1>1. h \in blocks \ {Genesis}
  BY Zenon, VisitingFacts, HashOrder DEF RollbackCascade
<1>2. IsSend(h)
  <2>1. BalanceOf(Previous(h)) = BalanceBefore(h)
    BY Zenon, VisitIs, HashOrder DEF LedgerInv
  <2> QED
    BY Zenon, <2>1 DEF RollbackCascade, UndoesSend, IsSend
<1>3. PICK x \in blocks : Source(x) = h
  <2>1. PendingExists(b, h) <=> h \in blocks /\ IsSend(h) /\ ~Received(h) /\ Link(h) = b
    BY Zenon, PendingFacts
  <2> QED
    BY Zenon, <1>1, <1>2, <2>1 DEF RollbackCascade, Received
<1>4. x # Genesis /\ Owner[x] = b
  <2>1. h \notin Account /\ h # 0
    BY Zenon, BlockFields
  <2>2. x # Genesis
    BY Zenon, <1>3, <2>1, GenesisBlock
  <2> QED
    BY Zenon, <1>3, <2>1, <2>2 DEF LedgerInv, Sound, ReceivedOnce
<1>5. b \in Account /\ t # 0
  BY Zenon DEF RollbackCascade, Opened
<1>6. t \in blocks /\ t \in Hash /\ Owner[t] = b /\ \A y \in blocks : Previous(y) # t
  BY Zenon, <1>5, HeadFacts
<1>7. t # Genesis
  <2> SUFFICES ASSUME t = Genesis PROVE FALSE
    BY Zenon
  <2>1. Sound(blocks) /\ Genesis \in blocks /\ \A y \in blocks : Previous(y) # Genesis
    BY Zenon, <1>6 DEF LedgerInv, Sound
  <2>2. Previous(Genesis) = 0 /\ Owner[x] = Owner[Genesis]
    BY Zenon, <1>4, <1>6, GenesisBlock
  <2>3. x = Genesis
    BY Zenon, <1>3, <2>1, <2>2, FirstAlone, HashOrder
  <2> QED
    BY Zenon, <1>4, <2>3
<1>8. rollbacks' = Append(rollbacks, [target |-> t, account |-> b])
  BY Zenon, <1>6, AccountOfIs, HashOrder DEF RollbackCascade
<1>9. [target |-> t, account |-> b] \in Call
  BY Zenon, <1>5, <1>6 DEF Call
<1>10. rollbacks \in Seq(Call) /\ CallsOnChain
  BY Zenon DEF LedgerInv, TypeOK
<1>11. rollbacks' \in Seq(Call) /\ Len(rollbacks') = Len(rollbacks) + 1 /\ Len(rollbacks) \in Nat
       /\ (\A i \in 1 .. Len(rollbacks) : rollbacks'[i] = rollbacks[i])
       /\ rollbacks'[Len(rollbacks) + 1] = [target |-> t, account |-> b]
  <2> HIDE DEF t, b
  <2> QED
    BY <1>8, <1>9, <1>10
<1>12. CallsOnChain'
  <2> SUFFICES ASSUME NEW i \in 1 .. Len(rollbacks')
               PROVE  rollbacks'[i].target # Genesis /\ rollbacks'[i].account = Owner[rollbacks'[i].target]
    BY Zenon DEF CallsOnChain
  <2>1. CASE i = Len(rollbacks) + 1
    BY <1>6, <1>7, <1>11, <2>1
  <2>2. CASE i # Len(rollbacks) + 1
    <3>1. i \in 1 .. Len(rollbacks)
      BY <1>11, <2>2
    <3> QED
      BY Zenon, <1>10, <1>11, <3>1 DEF CallsOnChain
  <2> QED
    BY Zenon, <2>1, <2>2
<1> QED
  BY Zenon, <1>11, <1>12, TablesUnchanged DEF RollbackCascade

-----------------------------------------------------------------------------
(* The inductive invariant. *)

LEMMA InitInv == Init => LedgerInv
<1> SUFFICES ASSUME Init PROVE LedgerInv
  BY Zenon
<1>1. TypeOK
  BY BlocksAssumption, GenesisBlock
  DEF Init, TypeOK, NoAccount, NoBlockInfo, AccountInfo, BlockInfo
<1>2. Sound(blocks)
  BY Zenon, GenesisSound DEF Init
<1>3. AccountsAreChains
  BY Zenon, GenesisBlock, NotZero DEF Init, AccountsAreChains, Chain
<1>4. SuccessorsMatch
  BY Zenon, GenesisBlock, NotZero DEF Init, SuccessorsMatch
<1>5. PendingIsUnreceived
  BY Zenon, GenesisBlock DEF Init, PendingIsUnreceived
<1>6. FrontiersAreLegacyHeads
  BY Zenon, GenesisBlock DEF Init, FrontiersAreLegacyHeads, Legacy
<1>7. IndexIsRight
  BY Zenon DEF Init, IndexIsRight, NoBlockInfo
<1>8. CallsOnChain
  BY DEF Init, CallsOnChain
<1> QED
  BY Zenon, <1>1, <1>2, <1>3, <1>4, <1>5, <1>6, <1>7, <1>8 DEF LedgerInv

LEMMA NextInv == LedgerInv /\ [Next]_vars => LedgerInv'
<1> SUFFICES ASSUME LedgerInv, [Next]_vars PROVE LedgerInv'
  BY Zenon
<1>1. CASE Process
  BY Zenon, <1>1, ProcessAdds, HashOrder, AddsBlockInv
<1>2. ASSUME NEW h \in Hash, RollbackStart(h) PROVE LedgerInv'
  BY Zenon, <1>2, RollbackStartInv
<1>3. ASSUME NEW h \in Hash, RollbackCascade(h) PROVE LedgerInv'
  BY Zenon, <1>3, RollbackCascadeInv
<1>4. ASSUME NEW h \in Hash,
             \/ RollbackSend(h) \/ RollbackReceive(h) \/ RollbackOpen(h)
             \/ RollbackChange(h) \/ RollbackState(h)
      PROVE  LedgerInv'
  BY Zenon, <1>4, RollbackRemoves, RemovesBlockInv, HashOrder
<1>5. CASE RollbackReturn
  BY Zenon, <1>5, RollbackReturnInv
<1>6. CASE UNCHANGED vars
  BY Zenon, <1>6, TablesUnchanged DEF vars, LedgerInv, TypeOK, CallsOnChain
<1> QED
  BY Zenon, <1>1, <1>2, <1>3, <1>4, <1>5, <1>6 DEF Next, Rollback

(* Whatever blocks arrive and are voted away, at every step of a cascading *)
(* rollback too, the tables are what the stored blocks say.                *)
THEOREM LedgerInvariant == Spec => []LedgerInv
  BY InitInv, NextInv, PTL DEF Spec

(* The tables keep their types: no lookup of process or rollback misses.   *)
THEOREM LedgerTypes == Spec => []TypeOK
<1>1. LedgerInv => TypeOK
  BY Zenon DEF LedgerInv
<1> QED
  BY <1>1, LedgerInvariant, PTL

(* The pending table is the set of the sends nobody has received.          *)
THEOREM LedgerPending == Spec => []PendingIsUnreceived
<1>1. LedgerInv => PendingIsUnreceived
  BY Zenon DEF LedgerInv
<1> QED
  BY <1>1, LedgerInvariant, PTL

(* account_info describes the chain of its account.                        *)
THEOREM LedgerAccounts == Spec => []AccountsAreChains
<1>1. LedgerInv => AccountsAreChains
  BY Zenon DEF LedgerInv
<1> QED
  BY <1>1, LedgerInvariant, PTL

-----------------------------------------------------------------------------
(* The set of stored blocks is the one that BlockLattice promises. *)

LEMMA LatticeIs ==
    /\ Lattice!Hash = Hash
    /\ \A S, h : Lattice!Valid(S, h) <=> Valid(S, h)
    /\ \A h : Lattice!Parents(h) = Parents(h)
<1>1. Lattice!Hash = Hash
  BY Zenon DEF Hash, Lattice!Hash
<1>2. ASSUME NEW S, NEW h PROVE Lattice!Valid(S, h) <=> Valid(S, h)
  <2>1. Lattice!Valid(S, h) => Valid(S, h)
    BY Zenon
    DEF Valid, ExtendsChain, ReceivesSend, Balanced, IsSend, BalanceBefore, Source, Type,
        Previous, Link, Balance, Signer, Legacy,
        Lattice!Valid, Lattice!ExtendsChain, Lattice!ReceivesSend, Lattice!Balanced,
        Lattice!IsSend, Lattice!BalanceBefore, Lattice!Source, Lattice!Type,
        Lattice!Previous, Lattice!Link, Lattice!Balance, Lattice!Signer, Lattice!Legacy
  <2>2. Valid(S, h) => Lattice!Valid(S, h)
    BY Zenon
    DEF Valid, ExtendsChain, ReceivesSend, Balanced, IsSend, BalanceBefore, Source, Type,
        Previous, Link, Balance, Signer, Legacy,
        Lattice!Valid, Lattice!ExtendsChain, Lattice!ReceivesSend, Lattice!Balanced,
        Lattice!IsSend, Lattice!BalanceBefore, Lattice!Source, Lattice!Type,
        Lattice!Previous, Lattice!Link, Lattice!Balance, Lattice!Signer, Lattice!Legacy
  <2> QED
    BY Zenon, <2>1, <2>2
<1>3. \A h : Lattice!Parents(h) = Parents(h)
  <2>1. \A x : Lattice!Previous(x) = Previous(x) /\ Lattice!Source(x) = Source(x)
    BY Zenon
    DEF IsSend, BalanceBefore, Source, Type, Previous, Link, Balance,
        Lattice!IsSend, Lattice!BalanceBefore, Lattice!Source, Lattice!Type, Lattice!Previous,
        Lattice!Link, Lattice!Balance
  <2> QED
    BY Zenon, <1>1, <2>1 DEF Parents, Lattice!Parents
<1> QED
  BY Zenon, <1>1, <1>2, <1>3

(* In the set of blocks that BlockLattice describes, every block that      *)
(* process adds and every block that a rollback takes away leaves chains   *)
(* that are linked, sends that are received once and balances that add up. *)
THEOREM LatticeSound == Lattice!Spec => []Sound(blocks)
<1>1. Lattice!Init => Sound(blocks)
  BY Zenon, GenesisSound DEF Lattice!Init
<1>2. Sound(blocks) /\ [Lattice!Next]_blocks => Sound(blocks)'
  <2>1. ASSUME Sound(blocks), NEW h \in Hash, Lattice!Add(h) PROVE Sound(blocks')
    BY Zenon, <2>1, LatticeIs, AddSound DEF Lattice!Add
  <2>2. ASSUME Sound(blocks), NEW h \in Hash, Lattice!Remove(h) PROVE Sound(blocks')
    BY Zenon, <2>2, LatticeIs, RemoveSound DEF Lattice!Remove
  <2>3. Sound(blocks) /\ [Lattice!Next]_blocks => Sound(blocks')
    BY Zenon, <2>1, <2>2, LatticeIs DEF Lattice!Next
  <2>4. Sound(blocks') => Sound(blocks)'
    BY Zenon DEF Sound, ChainsLinked, ReceivedOnce, Balanced
  <2> QED
    BY Zenon, <2>3, <2>4
<1> QED
  BY <1>1, <1>2, PTL DEF Lattice!Spec

(* An account never has two first blocks, nor a block two successors, in   *)
(* what BlockLattice describes.                                            *)
THEOREM LatticeUnforked == Lattice!Spec => []Unforked(blocks)
<1>1. Sound(blocks) => Unforked(blocks)
  BY Zenon, SoundUnforked
<1> QED
  BY <1>1, LatticeSound, PTL

(* process and rollback implement BlockLattice.                            *)
THEOREM LedgerImplementsLattice == Spec => ImplementsLattice
<1>1. Init => Lattice!Init
  BY Zenon DEF Init, Lattice!Init
<1>2. ASSUME LedgerInv, NEW h \in Hash, h \notin blocks, Valid(blocks, h), AddsBlock(h)
      PROVE  Lattice!Next
  <2>1. Lattice!Valid(blocks, h) /\ h \in Lattice!Hash
    BY Zenon, <1>2, LatticeIs
  <2> QED
    BY Zenon, <1>2, <2>1 DEF AddsBlock, Lattice!Next, Lattice!Add
<1>3. ASSUME LedgerInv, NEW h \in Hash, h \in blocks \ {Genesis}, accounts[Owner[h]].head = h,
             ~Received(h), RemovesBlock(h)
      PROVE  Lattice!Next
  <2>1. \A x \in blocks : Previous(x) # h /\ Source(x) # h
    <3>1. Owner[h] \in Account /\ h # 0
      BY Zenon, <1>3, BlockFields DEF LedgerInv, Sound, ChainsLinked
    <3> QED
      BY <1>3, <3>1, HeadFacts DEF Received
  <2>2. \A x \in blocks : h \notin Lattice!Parents(x)
    BY Zenon, <2>1, LatticeIs DEF Parents
  <2>3. h \in Lattice!Hash
    BY Zenon, <1>3, LatticeIs
  <2> QED
    BY ZenonT(40), <1>3, <2>2, <2>3 DEF RemovesBlock, Lattice!Next, Lattice!Remove
<1>4. LedgerInv /\ [Next]_vars => [Lattice!Next]_blocks
  <2> SUFFICES ASSUME LedgerInv, [Next]_vars PROVE [Lattice!Next]_blocks
    BY Zenon
  <2>1. CASE Process
    BY Zenon, <1>2, <2>1, ProcessAdds, HashOrder
  <2>2. ASSUME NEW h \in Hash,
               \/ RollbackSend(h) \/ RollbackReceive(h) \/ RollbackOpen(h)
               \/ RollbackChange(h) \/ RollbackState(h)
        PROVE  Lattice!Next
    BY Zenon, <1>3, <2>2, RollbackRemoves, HashOrder
  <2>3. ASSUME NEW h \in Hash, RollbackStart(h) \/ RollbackCascade(h) PROVE UNCHANGED blocks
    BY Zenon, <2>3 DEF RollbackStart, RollbackCascade, tables
  <2>4. CASE RollbackReturn
    BY Zenon, <2>4 DEF RollbackReturn, tables
  <2>5. CASE UNCHANGED vars
    BY Zenon, <2>5 DEF vars, tables
  <2> QED
    BY Zenon, <2>1, <2>2, <2>3, <2>4, <2>5 DEF Next, Rollback
<1> QED
  BY <1>1, <1>4, LedgerInvariant, PTL DEF Spec, ImplementsLattice, Lattice!Spec

(* The ladders of checks of process accept exactly the blocks that are     *)
(* valid with respect to the stored ones, in every reachable state.        *)
THEOREM LedgerAcceptsTheValid == Spec => []AcceptsTheValid
<1>1. LedgerInv => AcceptsTheValid
  BY Zenon, ProgressIsValid, ValidIsProgress DEF AcceptsTheValid
<1> QED
  BY <1>1, LedgerInvariant, PTL

-----------------------------------------------------------------------------
(* The inductive invariant of the sums and counts.  The arithmetic of      *)
(* weights is modular: that they are the balances rests on Conservation,   *)
(* which bounds every sum of balances by the genesis amount, and that on   *)
(* Exact, which says that no addition to a stored balance overflowed.      *)
SumsInv == LedgerInv /\ Funds /\ ChecksumIsHeads /\ IndexIsComplete

LEMMA InitSums == Init => SumsInv
<1> SUFFICES ASSUME Init PROVE SumsInv
  BY Zenon
<1>1. LedgerInv /\ Funds /\ OpenedFact
  BY Zenon, InitInv, InitFunds, OpenedFacts
<1>2. OpenedAccounts = {GenesisAccount} /\ accounts[GenesisAccount].head = Genesis
  BY Zenon, <1>1, BlocksAssumption, NotZero DEF OpenedFact, Init, NoAccount
<1>3. ChecksumIsHeads
  BY Zenon, <1>2 DEF ChecksumIsHeads, Init
<1>4. \A a \in Account : Chain(a) = IF a = GenesisAccount THEN {Genesis} ELSE {}
  BY Zenon, GenesisBlock DEF Chain, Init
<1>5. Cardinality({Genesis}) = 1 /\ Cardinality({}) = 0
  BY Zenon, FS_Singleton, FS_EmptySet
<1>6. \A a \in Account : accounts[a].block_count = Cardinality(Chain(a))
  BY Zenon, <1>4, <1>5 DEF Init, NoAccount
<1>7. {x \in Chain(Owner[Genesis]) : x <= Genesis} = {Genesis}
  <2>1. Owner[Genesis] \in Account /\ Owner[Genesis] = GenesisAccount /\ Genesis \in Nat
    BY Zenon, GenesisBlock, BlockFields
  <2> QED
    BY <1>4, <2>1
<1>8. 1 % BlockInfoMax # 0
  BY BlockInfoMaxAssumption
<1>9. IndexIsComplete
  BY Zenon, <1>5, <1>6, <1>7, <1>8 DEF IndexIsComplete, Init
<1> QED
  BY Zenon, <1>1, <1>3, <1>9 DEF SumsInv

LEMMA SumsUnchanged ==
    ASSUME SumsInv, LedgerInv', UNCHANGED tables
    PROVE  SumsInv'
<1>1. UNCHANGED <<blocks, accounts, pending, representation, blocks_info, checksum>>
  BY Zenon DEF tables
<1>2. /\ UNCHANGED <<Balances, Amounts, OpenedAccounts>>
      /\ \A r : Voters(r)' = Voters(r)
      /\ \A a : Chain(a)' = Chain(a)
  BY Zenon, <1>1 DEF Balances, Amounts, OpenedAccounts, Voters, Chain
<1>3. Funds'
  BY Zenon, <1>1, <1>2 DEF SumsInv, Funds, Conservation, WeightsAreBalances
<1>4. ChecksumIsHeads'
  BY Zenon, <1>1, <1>2 DEF SumsInv, ChecksumIsHeads
<1>5. IndexIsComplete'
  BY Zenon, <1>1, <1>2 DEF SumsInv, IndexIsComplete
<1> QED
  BY Zenon, <1>3, <1>4, <1>5 DEF SumsInv

LEMMA NextSums == SumsInv /\ [Next]_vars => SumsInv'
<1> SUFFICES ASSUME SumsInv, [Next]_vars PROVE SumsInv'
  BY Zenon
<1>1. LedgerInv /\ LedgerInv' /\ Funds /\ ChecksumIsHeads /\ IndexIsComplete
  BY Zenon, NextInv DEF SumsInv
<1>2. CASE Process
  <2>1. PICK h \in Hash : /\ h \notin blocks /\ Valid(blocks, h) /\ AddsBlock(h)
                          /\ Tallies(Owner[h]) /\ CountsUp(h)
    BY Zenon, <1>1, <1>2, ProcessTallies
  <2>2. Owner[h] \in Account /\ MovesAccount(Owner[h])
    BY Zenon, <1>1, <2>1, AddMoves
  <2>3. Funds'
    BY Zenon, <1>1, <2>1, AddFunds
  <2>4. ChecksumIsHeads'
    BY Zenon, <1>1, <2>1, <2>2, ChecksumMoves
  <2>5. IndexIsComplete'
    BY Zenon, <1>1, <2>1, AddIndex
  <2> QED
    BY Zenon, <1>1, <2>3, <2>4, <2>5 DEF SumsInv
<1>3. ASSUME NEW h \in Hash,
             \/ RollbackSend(h) \/ RollbackReceive(h) \/ RollbackOpen(h)
             \/ RollbackChange(h) \/ RollbackState(h)
      PROVE  SumsInv'
  <2>1. h \in blocks \ {Genesis} /\ accounts[Owner[h]].head = h /\ ~Received(h) /\ RemovesBlock(h)
    BY Zenon, <1>1, <1>3, RollbackRemoves, HashOrder
  <2>2. Tallies(Owner[h]) /\ CountsDown(h)
    BY Zenon, <1>1, <1>3, RollbackTallies, HashOrder
  <2>3. Owner[h] \in Account /\ MovesAccount(Owner[h])
    BY Zenon, <1>1, <2>1, RemoveMoves
  <2>4. Funds'
    BY Zenon, <1>1, <2>1, <2>2, RemoveFunds
  <2>5. ChecksumIsHeads'
    BY Zenon, <1>1, <2>2, <2>3, ChecksumMoves
  <2>6. IndexIsComplete'
    BY Zenon, <1>1, <2>1, <2>2, RemoveIndex
  <2> QED
    BY Zenon, <1>1, <2>4, <2>5, <2>6 DEF SumsInv
<1>4. CASE UNCHANGED tables
  BY Zenon, <1>1, <1>4, SumsUnchanged
<1>5. CASE UNCHANGED vars
  BY Zenon, <1>4, <1>5 DEF vars
<1> QED
  BY Zenon, <1>2, <1>3, <1>4, <1>5 DEF Next, Rollback, RollbackStart, RollbackCascade,
     RollbackReturn

LEMMA SumsInvariant == Spec => []SumsInv
  BY InitSums, NextSums, PTL DEF Spec

(* process and rollback neither create nor lose money: balances and        *)
(* pending amounts add up to the genesis amount, at every step of a        *)
(* cascading rollback too.                                                 *)
THEOREM LedgerConservation == Spec => []Conservation
<1>1. SumsInv => Conservation
  BY Zenon DEF SumsInv, Funds
<1> QED
  BY <1>1, SumsInvariant, PTL

(* representation_add, which only ever adds differences, modulo 2^128,     *)
(* leaves each representative the sum of the balances that chose it.       *)
THEOREM LedgerWeights == Spec => []WeightsAreBalances
<1>1. SumsInv => WeightsAreBalances
  BY Zenon DEF SumsInv, Funds
<1> QED
  BY <1>1, SumsInvariant, PTL

(* change_latest leaves as checksum the xor of the heads of all accounts.  *)
THEOREM LedgerChecksum == Spec => []ChecksumIsHeads
<1>1. SumsInv => ChecksumIsHeads
  BY Zenon DEF SumsInv
<1> QED
  BY <1>1, SumsInvariant, PTL

(* block_count is the length of the chain, and change_latest and the       *)
(* rollback visitor never leave a block out of the index that belongs in   *)
(* it, for every BlockInfoMax above 1.                                     *)
THEOREM LedgerIndex == Spec => []IndexIsComplete
<1>1. SumsInv => IndexIsComplete
  BY Zenon DEF SumsInv
<1> QED
  BY <1>1, SumsInvariant, PTL

-----------------------------------------------------------------------------
(* What a rollback visits. *)

LEMMA ChainAncestors ==
    ASSUME LedgerInv, NEW a \in Account, NEW x \in Chain(a)
    PROVE  /\ accounts[a].head \in Hash /\ x \in Hash
           /\ x \in Ancestors[accounts[a].head]
<1> DEFINE t == accounts[a].head
<1>1. x \in blocks /\ Owner[x] = a
  BY Zenon DEF Chain
<1>2. t # 0
  BY Zenon, <1>1, HeadFacts
<1>3. /\ t \in blocks /\ Owner[t] = a
      /\ \A y \in blocks : Owner[y] = a /\ (\A z \in blocks : Previous(z) # y) => y = t
  BY Zenon, <1>2, HeadFacts
<1>4. Sound(blocks) /\ blocks \subseteq Hash
  BY Zenon DEF LedgerInv, TypeOK
<1> HIDE DEF t
<1>5. x \in Ancestors[t]
  BY Zenon, <1>1, <1>3, <1>4, HeadAbove, HashOrder
<1> QED
  BY Zenon, <1>1, <1>3, <1>4, <1>5 DEF t

(* A rollback visits only blocks that stand on what it was asked to remove. *)
LEMMA VisitedAbove ==
    ASSUME LedgerInv, CallsNest, NEW h, NEW type, Visiting(h, type)
    PROVE  rollbacks[1].target \in Ancestors[h]
<1> DEFINE n == Len(rollbacks)
           t == rollbacks[n].target
           a == rollbacks[n].account
<1>1. n \in Nat /\ n >= 1 /\ n \in 1 .. n
  <2>1. rollbacks \in Seq(Call) /\ rollbacks # <<>>
    BY Zenon DEF LedgerInv, TypeOK, Visiting
  <2> QED
    BY <2>1
<1>2. t \in blocks /\ h = accounts[a].head
  BY Zenon DEF Visiting, Innermost
<1>3. a = Owner[t]
  BY Zenon, <1>1 DEF LedgerInv, CallsOnChain
<1>4. a \in Account /\ t \in Hash /\ t \in Chain(a)
  BY Zenon, <1>2, <1>3 DEF LedgerInv, TypeOK, Sound, ChainsLinked, Chain
<1>5. t \in Ancestors[h] /\ h \in Hash
  BY Zenon, <1>2, <1>4, ChainAncestors
<1>6. rollbacks[1].target \in Ancestors[t]
  <2>1. CASE n = 1
    BY Zenon, <1>4, <2>1, AncestorsFacts, HashOrder
  <2>2. CASE n # 1
    <3>1. n \in 2 .. n
      <4> HIDE DEF n
      <4> QED
        BY <1>1, <2>2
    <3> QED
      BY Zenon, <1>2, <3>1 DEF CallsNest
  <2> QED
    BY Zenon, <2>1, <2>2
<1> QED
  BY Zenon, <1>5, <1>6, AncestorsFacts, HashOrder

LEMMA CascadeNests ==
    ASSUME LedgerInv, LedgerInv', CallsNest, NEW h \in Hash, RollbackCascade(h)
    PROVE  CallsNest'
<1> DEFINE b == Link(h)
           t == accounts[b].head
           n == Len(rollbacks)
<1>1. PICK type : Visiting(h, type)
  BY Zenon DEF RollbackCascade
<1>2. h \in blocks \ {Genesis}
  BY Zenon, <1>1, VisitingFacts, HashOrder
<1>3. IsSend(h)
  <2>1. BalanceOf(Previous(h)) = BalanceBefore(h)
    BY Zenon, VisitIs, HashOrder DEF LedgerInv
  <2> QED
    BY Zenon, <2>1 DEF RollbackCascade, UndoesSend, IsSend
<1>4. PICK x \in blocks : Source(x) = h
  <2>1. PendingExists(b, h) <=> h \in blocks /\ IsSend(h) /\ ~Received(h) /\ Link(h) = b
    BY Zenon, PendingFacts
  <2> QED
    BY Zenon, <1>2, <1>3, <2>1 DEF RollbackCascade, Received
<1>5. x \in Hash /\ Owner[x] = b /\ x \in Chain(b)
  <2>1. h \notin Account /\ h # 0
    BY Zenon, BlockFields
  <2>2. x # Genesis
    BY Zenon, <1>4, <2>1, GenesisBlock
  <2> QED
    BY Zenon, <1>4, <2>1, <2>2 DEF LedgerInv, TypeOK, Sound, ReceivedOnce, Chain
<1>6. b \in Account
  BY Zenon DEF RollbackCascade, Opened
<1>7. x \in Ancestors[t] /\ t \in Hash
  BY Zenon, <1>5, <1>6, ChainAncestors
<1>8. h \in Ancestors[x]
  BY Zenon, <1>4, <1>5, AncestorsFacts, HashOrder DEF Parents
<1>9. rollbacks[1].target \in Ancestors[h]
  BY Zenon, <1>1, VisitedAbove
<1>10. rollbacks[1].target \in Ancestors[t]
  <2>1. h \in Ancestors[t]
    BY Zenon, <1>7, <1>8, AncestorsFacts, HashOrder
  <2> QED
    BY Zenon, <1>7, <1>9, <2>1, AncestorsFacts, HashOrder
<1>11. PICK c : rollbacks' = Append(rollbacks, c) /\ c.target = t
  <2>1. rollbacks' = Append(rollbacks, [target |-> t, account |-> AccountOf(t)])
    BY Zenon DEF RollbackCascade
  <2>2. [target |-> t, account |-> AccountOf(t)].target = t
    BY Zenon
  <2> QED
    BY Zenon, <2>1, <2>2
<1>12. rollbacks \in Seq(Call) /\ rollbacks' \in Seq(Call) /\ n \in Nat /\ n >= 1
  <2>1. rollbacks \in Seq(Call) /\ rollbacks' \in Seq(Call) /\ rollbacks # <<>>
    BY Zenon, <1>1 DEF LedgerInv, TypeOK, Visiting
  <2> QED
    BY <2>1
<1>13. /\ Len(rollbacks') = n + 1
       /\ \A i \in 1 .. n : rollbacks'[i] = rollbacks[i]
       /\ rollbacks'[n + 1] = c
  <2> HIDE DEF t
  <2> QED
    BY <1>11, <1>12
<1>14. ASSUME NEW i \in 2 .. Len(rollbacks'), rollbacks'[i].target \in blocks'
       PROVE  rollbacks'[1].target \in Ancestors[rollbacks'[i].target]
  <2>1. rollbacks'[1] = rollbacks[1]
    BY <1>12, <1>13
  <2>2. CASE i = n + 1
    BY Zenon, <1>10, <1>11, <1>13, <2>1, <2>2
  <2>3. CASE i # n + 1
    <3>1. i \in 2 .. n /\ i \in 1 .. n
      BY <1>12, <1>13, <2>3
    <3>2. blocks' = blocks
      BY Zenon DEF RollbackCascade, tables
    <3> QED
      BY Zenon, <1>13, <1>14, <2>1, <3>1, <3>2 DEF CallsNest
  <2> QED
    BY Zenon, <2>2, <2>3
<1> QED
  BY Zenon, <1>14 DEF CallsNest, LedgerInv

LEMMA NextNests == LedgerInv /\ CallsNest /\ [Next]_vars => CallsNest'
<1> SUFFICES ASSUME LedgerInv, CallsNest, [Next]_vars PROVE CallsNest'
  BY Zenon
<1>1. LedgerInv' /\ CallsOnChain'
  BY Zenon, NextInv DEF LedgerInv
<1>2. ASSUME rollbacks' = rollbacks, blocks' \subseteq blocks PROVE CallsNest'
  BY Zenon, <1>1, <1>2 DEF CallsNest
<1>3. CASE Process
  <2>1. rollbacks = <<>> /\ rollbacks' = rollbacks
    <3>1. PICK h \in Hash : AddsBlock(h) /\ rollbacks = <<>>
      BY Zenon, <1>3, ProcessTallies
    <3> QED
      BY Zenon, <3>1 DEF AddsBlock
  <2>2. Len(rollbacks') = 0
    BY Zenon, <2>1
  <2> QED
    BY <1>1, <2>2 DEF CallsNest
<1>4. ASSUME NEW h \in Hash, RollbackStart(h) PROVE CallsNest'
  <2>1. Len(rollbacks') = 1
    BY Zenon, <1>4 DEF RollbackStart
  <2> QED
    BY <1>1, <2>1 DEF CallsNest
<1>5. ASSUME NEW h \in Hash, RollbackCascade(h) PROVE CallsNest'
  BY Zenon, <1>1, <1>5, CascadeNests
<1>6. ASSUME NEW h \in Hash,
             \/ RollbackSend(h) \/ RollbackReceive(h) \/ RollbackOpen(h)
             \/ RollbackChange(h) \/ RollbackState(h)
      PROVE  CallsNest'
  <2>1. RemovesBlock(h)
    BY Zenon, <1>6, RollbackRemoves, HashOrder
  <2> QED
    BY Zenon, <1>2, <2>1 DEF RemovesBlock
<1>7. CASE RollbackReturn
  <2> DEFINE n == Len(rollbacks) - 1
  <2>1. rollbacks \in Seq(Call) /\ n \in Nat /\ n <= Len(rollbacks) /\ rollbacks' = SubSeq(rollbacks, 1, n)
    <3>1. rollbacks \in Seq(Call) /\ rollbacks # <<>>
      BY Zenon, <1>7 DEF RollbackReturn, LedgerInv, TypeOK
    <3>2. rollbacks' = SubSeq(rollbacks, 1, n)
      BY <1>7 DEF RollbackReturn
    <3> QED
      BY <3>1, <3>2
  <2>2. blocks' = blocks /\ n + 1 = Len(rollbacks)
    BY <1>7, <2>1 DEF RollbackReturn, tables
  <2> HIDE DEF n
  <2>3. Len(rollbacks') = n /\ \A i \in 1 .. n : rollbacks'[i] = rollbacks[i]
    BY Zenon, <2>1, Prefix
  <2>4. ASSUME NEW i \in 2 .. Len(rollbacks'), rollbacks'[i].target \in blocks'
        PROVE  rollbacks'[1].target \in Ancestors[rollbacks'[i].target]
    <3>1. i \in 2 .. Len(rollbacks) /\ i \in 1 .. n /\ 1 \in 1 .. n
      BY <2>1, <2>3
    <3> QED
      BY Zenon, <2>2, <2>3, <2>4, <3>1 DEF CallsNest
  <2> QED
    BY Zenon, <1>1, <2>4 DEF CallsNest
<1>8. CASE UNCHANGED vars
  BY Zenon, <1>2, <1>8 DEF vars, tables
<1> QED
  BY Zenon, <1>3, <1>4, <1>5, <1>6, <1>7, <1>8 DEF Next, Rollback

LEMMA InitNests == Init => CallsNest
  BY DEF Init, CallsNest, CallsOnChain

(* The recursion of ledger::rollback is well founded: the target of an     *)
(* inner call, found by account in pending and latest, stands on the       *)
(* target of the outermost one.                                            *)
THEOREM LedgerCallsNest == Spec => []CallsNest
<1>1. Init => LedgerInv /\ CallsNest
  BY Zenon, InitInv, InitNests
<1>2. LedgerInv /\ CallsNest /\ [Next]_vars => (LedgerInv /\ CallsNest)'
  BY Zenon, NextInv, NextNests
<1> QED
  BY <1>1, <1>2, PTL DEF Spec

LEMMA StepRemoves ==
    ASSUME LedgerInv, CallsNest, [Next]_vars
    PROVE  [\A h \in blocks \ blocks' : rollbacks[1].target \in Ancestors[h]]_vars
<1> SUFFICES ASSUME Next, NEW x \in blocks \ blocks' PROVE rollbacks[1].target \in Ancestors[x]
  BY Zenon
<1>1. ~Process
  BY Zenon, ProcessAdds, HashOrder DEF AddsBlock
<1>2. blocks' # blocks
  BY Zenon
<1>3. PICK h \in Hash : \/ RollbackSend(h) \/ RollbackReceive(h) \/ RollbackOpen(h)
                        \/ RollbackChange(h) \/ RollbackState(h)
  BY Zenon, <1>1, <1>2 DEF Next, Rollback, RollbackStart, RollbackCascade, RollbackReturn, tables
<1>4. RemovesBlock(h)
  BY Zenon, <1>3, RollbackRemoves, HashOrder
<1>5. x = h
  BY Zenon, <1>4 DEF RemovesBlock
<1>6. \E type : Visiting(h, type)
  BY Zenon, <1>3 DEF RollbackSend, RollbackReceive, RollbackOpen, RollbackChange, RollbackState
<1> QED
  BY Zenon, <1>5, <1>6, VisitedAbove

(* ledger::rollback removes no block that does not stand on the block it   *)
(* was asked to remove, however far it cascades through other accounts.    *)
THEOREM LedgerOnlyDependents == Spec => OnlyDependentsRemoved
<1>1. LedgerInv /\ CallsNest /\ [Next]_vars =>
          [\A h \in blocks \ blocks' : rollbacks[1].target \in Ancestors[h]]_vars
  BY Zenon, StepRemoves
<1> QED
  BY <1>1, LedgerInvariant, LedgerCallsNest, PTL DEF Spec, OnlyDependentsRemoved

=============================================================================
