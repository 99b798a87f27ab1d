------------------------- MODULE LedgerReadProofs --------------------------
(***************************************************************************)
(* What the proofs about the ledger rest on.  About sets of blocks: the    *)
(* genesis block is sound, a valid block keeps a sound set sound, a block  *)
(* that nothing stands on leaves one sound, and in a sound set no two      *)
(* blocks have the same root.  About reading the ledger: by walking the    *)
(* stored blocks, the account, the amount, the balance and the             *)
(* representative that the contents of the blocks determine; from the      *)
(* tables, whether a block is valid, and where it goes.                    *)
(*                                                                         *)
(* A recursive function is shown to be a given function in two steps: the  *)
(* given one satisfies the recursion, so the one that TLA+ chooses does    *)
(* too; and two functions that satisfy it agree, by a least or a greatest  *)
(* argument at which they would not, because the walk moves one way along  *)
(* the hashes.                                                             *)
(***************************************************************************)
EXTENDS LedgerChanges, TLAPS

LEMMA GreatestHash ==
    ASSUME WellOrdered, NEW S \in SUBSET Hash, S # {}
    PROVE  \E n \in S : \A m \in S : m <= n
<1> DEFINE T == {t \in Hash : \E h \in S : t = NumBlocks + 1 - h}
<1>1. PICK h \in S : TRUE
  BY Zenon
<1>2. \A g \in S : g \in Nat /\ NumBlocks + 1 - g \in T
  BY BlocksAssumption DEF Hash
<1>3. T \in SUBSET Hash /\ T # {}
  BY Zenon, <1>1, <1>2
<1>4. PICK t \in T : \A u \in T : t <= u
  <2> HIDE DEF T
  <2> QED
    BY Zenon, <1>3 DEF WellOrdered
<1>5. PICK n \in S : t = NumBlocks + 1 - n
  BY Zenon, <1>4
<1>6. ASSUME NEW m \in S PROVE m <= n
  <2>1. NumBlocks + 1 - n <= NumBlocks + 1 - m
    BY Zenon, <1>2, <1>4, <1>5
  <2> QED
    BY <1>2, <2>1, BlocksAssumption
<1> QED
  BY Zenon, <1>6

-----------------------------------------------------------------------------
(* The blocks. *)

(* What the assumptions say of a block and its references. *)
LEMMA BlockFields ==
    ASSUME NEW h \in Hash
    PROVE  /\ h \in Nat /\ h # 0 /\ h \notin Account
           /\ Type(h) \in BlockType
           /\ Content[h].account \in Account \cup {0}
           /\ Previous(h) \in Hash \cup {0} /\ Previous(h) # h /\ Previous(h) < h
           /\ Previous(h) \notin Account
           /\ Link(h) \in Number /\ Link(h) # h
           /\ Balance(h) \in 0 .. GenesisAmount
           /\ Representative(h) \in Account \cup {0}
           /\ Owner[h] \in Account \cup {0}
           /\ Source(h) \in {Link(h), 0} /\ Source(h) # h
<1>1. Content[h] \in Block
  BY Zenon, BlocksAssumption
<1>2. h \in Nat /\ h # 0 /\ h \notin Account
  BY BlocksAssumption DEF Hash
<1>3. Previous(h) # h /\ Previous(h) < h /\ Link(h) # h
  BY <1>2, ReferenceAssumption DEF Hash
<1>4. Previous(h) \in Hash \cup {0} /\ Previous(h) \notin Account
  BY <1>1, BlocksAssumption DEF Previous, Block, Hash
<1>5. Source(h) \in {Link(h), 0} /\ Source(h) # h
  BY Zenon, <1>2, <1>3 DEF Source
<1> QED
  BY Zenon, <1>1, <1>2, <1>3, <1>4, <1>5, OwnerAssumption
  DEF Type, Link, Balance, Representative, Block

LEMMA NotZero == 0 \notin Account /\ 0 \notin Hash
  BY BlocksAssumption DEF Hash

LEMMA GenesisBlock ==
    /\ Genesis \in Hash /\ Previous(Genesis) = 0 /\ Owner[Genesis] = GenesisAccount
    /\ Source(Genesis) = GenesisAccount /\ GenesisAccount \in Account
    /\ RepBlockAt[Genesis] = Genesis /\ BalanceAt[Genesis] = GenesisAmount
    /\ Type(Genesis) = "open" /\ ~IsSend(Genesis)
<1>1. Genesis \in Hash /\ GenesisAccount \in Account /\ GenesisAccount \notin Hash
  BY BlocksAssumption DEF Hash
<1>2. AmountOfLink(GenesisAccount) = GenesisAmount
  BY Zenon, <1>1 DEF AmountOfLink
<1> QED
  BY Zenon, <1>1, <1>2, GenesisAssumption, ReferenceAssumption, OwnerAssumption,
     RepBlockAssumption,
     BalanceAssumption
  DEF Source, IsSend

-----------------------------------------------------------------------------
(* Sound sets of blocks. *)

LEMMA GenesisSound == Sound({Genesis})
  BY Zenon, GenesisBlock, NotZero DEF Sound, ChainsLinked, ReceivedOnce

LEMMA AddSound ==
    ASSUME NEW S, Sound(S), NEW h \in Hash \ S, Valid(S, h)
    PROVE  Sound(S \cup {h})
<1> DEFINE T == S \cup {h}
<1>1. Owner[h] \in Account
  BY Zenon, BlockFields DEF Valid
<1>2. \A x \in S : ~(Owner[x] = Owner[h] /\ Previous(x) = Previous(h))
  BY Zenon DEF Valid, ExtendsChain
<1>3. ChainsLinked(T)
  BY Zenon, <1>1, <1>2 DEF Sound, ChainsLinked, Valid, ExtendsChain
<1>4. \A x \in S : Source(h) # 0 => Source(x) # Source(h)
  BY Zenon DEF Valid, ReceivesSend
<1>5. ReceivedOnce(T)
  BY Zenon, <1>4 DEF Sound, ReceivedOnce, Valid, ReceivesSend
<1> QED
  BY Zenon, <1>3, <1>5 DEF Sound, Valid

LEMMA RemoveSound ==
    ASSUME NEW S, Sound(S), NEW h \in S \ {Genesis}, \A x \in S : h \notin Parents(x)
    PROVE  Sound(S \ {h})
<1>1. \A x \in S : Previous(x) # h /\ Source(x) # h
  BY Zenon DEF Parents, Sound
<1>2. ChainsLinked(S \ {h})
  BY Zenon, <1>1 DEF Sound, ChainsLinked
<1>3. ReceivedOnce(S \ {h})
  BY Zenon, <1>1 DEF Sound, ReceivedOnce
<1> QED
  BY Zenon, <1>2, <1>3 DEF Sound

LEMMA SoundUnforked == ASSUME NEW S, Sound(S) PROVE Unforked(S)
<1> SUFFICES ASSUME NEW x \in S, NEW y \in S, Root(x) = Root(y) PROVE x = y
  BY Zenon DEF Unforked
<1>1. x \in Hash /\ y \in Hash
  BY Zenon DEF Sound
<1>2. ASSUME NEW h \in S, Previous(h) = 0 PROVE Root(h) = Owner[h] /\ Root(h) \in Account
  BY Zenon, <1>2, ReferenceAssumption, OwnerAssumption, BlockFields
  DEF Root, Sound, ChainsLinked, BlockType
<1>3. ASSUME NEW h \in S, Previous(h) # 0 PROVE Root(h) = Previous(h) /\ Root(h) \notin Account
  BY Zenon, <1>3, BlockFields DEF Root, Sound
<1>4. Previous(x) = Previous(y)
  BY Zenon, <1>2, <1>3
<1>5. Owner[x] = Owner[y]
  BY Zenon, <1>2, <1>3, <1>4 DEF Sound, ChainsLinked
<1> QED
  BY Zenon, <1>4, <1>5 DEF Sound, ChainsLinked

(* Where a chain ends with its first block, that block is all of it. *)
LEMMA FirstAlone ==
    ASSUME WellOrdered, NEW S, Sound(S), NEW f \in S, Previous(f) = 0, \A x \in S : Previous(x) # f,
           NEW h \in S, Owner[h] = Owner[f]
    PROVE  h = f
<1> DEFINE Others == {x \in S \ {f} : Owner[x] = Owner[f]}
<1> SUFFICES ASSUME Others # {} PROVE FALSE
  BY Zenon
<1>1. Others \in SUBSET Hash
  BY Zenon DEF Sound
<1>2. PICK x \in Others : \A m \in Others : x <= m
  <2> HIDE DEF Others
  <2> QED
    BY Zenon, <1>1 DEF WellOrdered
<1>3. x \in Hash /\ Previous(x) < x /\ Previous(x) \in Hash \cup {0}
  BY Zenon, <1>1, <1>2, BlockFields
<1>4. CASE Previous(x) = 0
  BY Zenon, <1>2, <1>4 DEF Sound, ChainsLinked
<1>5. CASE Previous(x) # 0
  <2>1. Previous(x) \in Others
    BY Zenon, <1>2, <1>5 DEF Sound, ChainsLinked
  <2> QED
    BY <1>2, <1>3, <2>1 DEF Hash
<1> QED
  BY Zenon, <1>4, <1>5

(* By a least counterexample: the walk goes down. *)
LEMMA RepresentativeOfIs ==
    ASSUME WellOrdered PROVE \A h \in Hash : RepresentativeOf[h] = RepBlockAt[h]
<1> DEFINE F(f) == [h \in Hash |-> IF Type(h) \in {"open", "change", "state"} THEN h
                                   ELSE f[Previous(h)]]
<1>1. RepBlockAt = F(RepBlockAt)
  BY Zenon, RepBlockAssumption
<1>2. RepresentativeOf = CHOOSE f : f = F(f)
  BY Zenon DEF RepresentativeOf
<1> HIDE DEF F
<1>3. RepresentativeOf = F(RepresentativeOf)
  BY Zenon, <1>1, <1>2
<1> DEFINE Wrong == {h \in Hash : RepresentativeOf[h] # RepBlockAt[h]}
<1>4. SUFFICES ASSUME Wrong # {} PROVE FALSE
  BY Zenon
<1>5. PICK h \in Wrong : \A m \in Wrong : h <= m
  BY Zenon, <1>4 DEF WellOrdered
<1>6. CASE Type(h) \in {"open", "change", "state"}
  BY Zenon, <1>3, <1>5, <1>6, RepBlockAssumption DEF F
<1>7. CASE Type(h) \notin {"open", "change", "state"}
  <2>1. Type(h) \in {"send", "receive"}
    BY Zenon, <1>7, BlockFields DEF BlockType
  <2>2. Previous(h) \in Hash /\ Previous(h) < h
    BY Zenon, <2>1, BlockFields, ReferenceAssumption
  <2>3. RepresentativeOf[Previous(h)] = RepBlockAt[Previous(h)]
    BY <1>5, <2>2 DEF Hash
  <2> QED
    BY Zenon, <1>3, <1>5, <1>7, <2>2, <2>3, RepBlockAssumption DEF F
<1> QED
  BY Zenon, <1>6, <1>7

(* By a greatest counterexample: the walk goes up to the head. *)
LEMMA AccountOfIs == ASSUME WellOrdered, LedgerInv PROVE \A h \in blocks : AccountOf(h) = Owner[h]
<1> USE NotZero
<1> DEFINE F(f) == [x \in Hash |->
                        IF Type(x) = "state" THEN Content[x].account
                        ELSE IF blocks_info[x].account # 0 THEN blocks_info[x].account
                        ELSE IF successor[x] = 0 THEN frontiers[x]
                        ELSE f[successor[x]]]
           G == [x \in Hash |->
                        IF Type(x) = "state" THEN Content[x].account
                        ELSE IF blocks_info[x].account # 0 THEN blocks_info[x].account
                        ELSE IF x \in blocks THEN Owner[x] ELSE 0]
<1>1. \A x \in blocks : x \in Hash /\ G[x] = Owner[x]
  BY OwnerAssumption DEF LedgerInv, TypeOK, IndexIsRight
<1>2. ASSUME NEW x \in Hash, successor[x] = 0, Type(x) # "state"
      PROVE  frontiers[x] = IF x \in blocks THEN Owner[x] ELSE 0
  <2>1. CASE x \notin blocks
    BY Zenon, <2>1 DEF LedgerInv, FrontiersAreLegacyHeads
  <2>2. CASE x \in blocks
    <3>1. \A y \in blocks : Previous(y) # x
      BY Zenon, <1>2 DEF LedgerInv, SuccessorsMatch
    <3>2. Owner[x] \in Account /\ x \in Chain(Owner[x])
      BY Zenon, <2>2 DEF LedgerInv, Sound, ChainsLinked, Chain
    <3>3. accounts[Owner[x]].head = x
      BY Zenon, <3>1, <3>2 DEF LedgerInv, AccountsAreChains
    <3>4. Type(x) \in Legacy
      BY Zenon, <1>2, BlockFields DEF BlockType, Legacy
    <3> QED
      BY Zenon, <2>2, <3>3, <3>4 DEF LedgerInv, FrontiersAreLegacyHeads
  <2> QED
    BY Zenon, <2>1, <2>2
<1>3. ASSUME NEW x \in Hash, successor[x] # 0
      PROVE  successor[x] \in blocks /\ x \in blocks /\ Owner[successor[x]] = Owner[x]
                /\ successor[x] \in Hash /\ x < successor[x]
  <2>1. successor[x] \in blocks /\ x \in blocks /\ Previous(successor[x]) = x /\ successor[x] \in Hash
    BY Zenon, <1>3 DEF LedgerInv, SuccessorsMatch, TypeOK
  <2>2. x # 0 /\ x < successor[x]
    BY Zenon, <2>1, BlockFields
  <2>3. Owner[successor[x]] = Owner[x]
    BY Zenon, <2>1, <2>2 DEF LedgerInv, Sound, ChainsLinked
  <2> QED
    BY Zenon, <2>1, <2>2, <2>3
<1>4. G = F(G)
  <2>1. ASSUME NEW x \in Hash PROVE G[x] = F(G)[x]
    <3>1. CASE Type(x) = "state" \/ blocks_info[x].account # 0
      BY <3>1
    <3>2. CASE Type(x) # "state" /\ successor[x] = 0
      BY <1>2, <3>1, <3>2
    <3>3. CASE Type(x) # "state" /\ successor[x] # 0
      BY <1>1, <1>3, <3>1, <3>3
    <3> QED
      BY Zenon, <3>1, <3>2, <3>3
  <2> QED
    BY <2>1
<1>5. AccountAbove = CHOOSE f : f = F(f)
  BY Zenon DEF AccountAbove
<1> HIDE DEF F, G
<1>6. AccountAbove = F(AccountAbove)
  BY Zenon, <1>4, <1>5
<1> DEFINE Wrong == {x \in Hash : AccountAbove[x] # G[x]}
<1>7. Wrong = {}
  <2>1. SUFFICES ASSUME Wrong # {} PROVE FALSE
    BY Zenon
  <2>2. PICK x \in Wrong : \A m \in Wrong : m <= x
    BY Zenon, <2>1, GreatestHash
  <2>3. successor[x] # 0 => AccountAbove[successor[x]] = G[successor[x]]
    BY <1>3, <2>2 DEF Hash
  <2> QED
    BY Zenon, <1>4, <1>6, <2>2, <2>3 DEF F
<1>8. ASSUME NEW h \in blocks PROVE AccountOf(h) = Owner[h]
  <2>1. h \in Hash
    BY Zenon, <1>1
  <2>2. CASE Type(h) = "state"
    BY Zenon, <2>1, <2>2, OwnerAssumption DEF AccountOf
  <2>3. CASE Type(h) # "state" /\ successor[h] = 0
    BY Zenon, <1>2, <2>1, <2>3 DEF AccountOf
  <2>4. CASE Type(h) # "state" /\ successor[h] # 0
    BY Zenon, <1>1, <1>3, <1>7, <2>1, <2>4 DEF AccountOf
  <2> QED
    BY Zenon, <2>2, <2>3, <2>4
<1> QED
  BY Zenon, <1>8

LEMMA WrapRange == ASSUME NEW n \in Int PROVE Wrap(n) \in 0 .. GenesisAmount
  BY BlocksAssumption DEF Wrap

LEMMA WrapSmall == ASSUME NEW n \in 0 .. GenesisAmount PROVE Wrap(n) = n
  BY BlocksAssumption DEF Wrap

(* The visitors go down, to the block below and to the send received. *)
LEMMA VisitIs ==
    ASSUME WellOrdered, IndexIsRight
    PROVE  /\ \A h \in Hash : AmountOf(h) = AmountAt[h] /\ BalanceOf(h) = BalanceAt[h]
           /\ \A h \in Hash : BalanceOf(Previous(h)) = BalanceBefore(h)
<1> DEFINE Q == {"amount", "balance"} \X Number
           F(f) == [q \in Q |->
    LET h == q[2]
        before == f[<<"balance", Previous(h)>>]
        received == f[<<"amount", Link(h)>>]
    IN  IF h \notin Hash THEN IF h = GenesisAccount THEN GenesisAmount ELSE 0
        ELSE IF q[1] = "amount"
        THEN CASE Type(h) \in {"send", "state"} ->
                    IF Balance(h) < before THEN before - Balance(h) ELSE Balance(h) - before
               [] Type(h) \in {"receive", "open"} -> received
               [] Type(h) = "change" -> 0
        ELSE CASE Type(h) \in {"send", "state"} -> Balance(h)
               [] Type(h) = "open" -> received
               [] Type(h) \in {"receive", "change"} /\ blocks_info[h].account # 0 ->
                    blocks_info[h].balance
               [] Type(h) = "receive" /\ blocks_info[h].account = 0 -> Wrap(before + received)
               [] Type(h) = "change" /\ blocks_info[h].account = 0 -> before]
           G == [q \in Q |-> IF q[2] \notin Hash THEN IF q[2] = GenesisAccount THEN GenesisAmount ELSE 0
                             ELSE IF q[1] = "amount" THEN AmountAt[q[2]] ELSE BalanceAt[q[2]]]
<1>0. 0 \in Number /\ 0 \notin Hash /\ GenesisAccount # 0
  BY BlocksAssumption DEF Number, Hash
<1>1. ASSUME NEW h \in Hash
      PROVE  /\ h \in Number /\ Previous(h) \in Number /\ Link(h) \in Number
             /\ G[<<"balance", Previous(h)>>] = BalanceBefore(h)
             /\ G[<<"amount", Link(h)>>] = AmountOfLink(Link(h))
             /\ G[<<"amount", h>>] = AmountAt[h] /\ G[<<"balance", h>>] = BalanceAt[h]
  <2>1. h \in Number /\ Previous(h) \in Number /\ Link(h) \in Number /\ Previous(h) \in Hash \cup {0}
    BY Zenon, BlockFields DEF Number
  <2>2. G[<<"balance", Previous(h)>>] = BalanceBefore(h)
    BY Zenon, <1>0, <2>1 DEF BalanceBefore
  <2>3. G[<<"amount", Link(h)>>] = AmountOfLink(Link(h))
    BY Zenon, <2>1 DEF AmountOfLink
  <2> QED
    BY Zenon, <2>1, <2>2, <2>3
<1>2. ASSUME NEW h \in Hash, NEW f, f[<<"balance", Previous(h)>>] = BalanceBefore(h),
             f[<<"amount", Link(h)>>] = AmountOfLink(Link(h))
      PROVE  F(f)[<<"amount", h>>] = AmountAt[h] /\ F(f)[<<"balance", h>>] = BalanceAt[h]
  <2>1. h \in Number /\ Type(h) \in BlockType
    BY Zenon, <1>1, BlockFields
  <2>2. F(f)[<<"amount", h>>] = AmountAt[h]
    BY Zenon, <1>2, <2>1, AmountAssumption DEF BlockType
  <2>3. F(f)[<<"balance", h>>] = BalanceAt[h]
    <3>1. CASE Type(h) \in {"send", "state", "open"}
      BY Zenon, <1>2, <2>1, <3>1, BalanceAssumption
    <3>2. CASE Type(h) \in {"receive", "change"} /\ blocks_info[h].account # 0
      <4>1. blocks_info[h].balance = BalanceAt[h]
        <5>1. blocks_info[h] = [account |-> Owner[h], balance |-> BalanceAt[h]]
          BY <3>2, Zenon DEF IndexIsRight
        <5> QED
          BY <5>1
      <4>3. F(f)[<<"balance", h>>] = blocks_info[h].balance
        <5>1. CASE Type(h) = "receive"
          BY Zenon, <2>1, <3>2, <5>1
        <5>2. CASE Type(h) = "change"
          BY Zenon, <2>1, <3>2, <5>2
        <5> QED
          BY Zenon, <3>2, <5>1, <5>2
      <4> QED
        BY Zenon, <4>1, <4>3
    <3>3. CASE Type(h) = "receive" /\ blocks_info[h].account = 0
      <4>1. BalanceAt[h] = Wrap(BalanceBefore(h) + AmountOfLink(Link(h)))
        BY Zenon, <3>3, BalanceAssumption
      <4> QED
        BY Zenon, <1>2, <2>1, <3>3, <4>1
    <3>4. CASE Type(h) = "change" /\ blocks_info[h].account = 0
      <4>1. BalanceAt[h] = BalanceBefore(h)
        BY Zenon, <3>4, BalanceAssumption
      <4> QED
        BY Zenon, <1>2, <2>1, <3>4, <4>1
    <3> QED
      BY Zenon, <2>1, <3>1, <3>2, <3>3, <3>4 DEF BlockType
  <2> QED
    BY Zenon, <2>2, <2>3
<1>3. ASSUME NEW f, NEW k \in {"amount", "balance"}, NEW n \in Number, n \notin Hash
      PROVE  F(f)[<<k, n>>] = IF n = GenesisAccount THEN GenesisAmount ELSE 0
  BY Zenon, <1>3
<1>4. ASSUME NEW k \in {"amount", "balance"}, NEW n \in Number
      PROVE  G[<<k, n>>] = F(G)[<<k, n>>]
  <2>1. CASE n \in Hash
    <3> HIDE DEF F, G
    <3>1. F(G)[<<"amount", n>>] = AmountAt[n] /\ F(G)[<<"balance", n>>] = BalanceAt[n]
      BY Zenon, <1>1, <1>2, <2>1
    <3> QED
      BY Zenon, <1>1, <2>1, <3>1
  <2>2. CASE n \notin Hash
    <3> HIDE DEF F
    <3> QED
      BY <1>3, <2>2
  <2> QED
    BY Zenon, <2>1, <2>2
<1>5. G = F(G)
  <2>1. \A q \in Q : G[q] = F(G)[q]
    <3> HIDE DEF F, G
    <3> QED
      BY <1>4
  <2> HIDE DEF Q
  <2> QED
    BY Zenon, <2>1
<1>6. Visit = CHOOSE f : f = F(f)
  BY Zenon DEF Visit
<1> HIDE DEF F
<1>7. Visit = F(Visit)
  BY Zenon, <1>5, <1>6
<1> HIDE DEF G
<1> DEFINE Wrong == {h \in Hash : ~(AmountOf(h) = AmountAt[h] /\ BalanceOf(h) = BalanceAt[h])}
<1>8. ASSUME NEW h \in Hash, \A m \in Wrong : h <= m
      PROVE  BalanceOf(Previous(h)) = BalanceBefore(h) /\ AmountOf(Link(h)) = AmountOfLink(Link(h))
  <2>1. ASSUME NEW n \in Hash, n < h PROVE AmountOf(n) = AmountAt[n] /\ BalanceOf(n) = BalanceAt[n]
    BY <1>8, <2>1 DEF Hash
  <2>2. BalanceOf(Previous(h)) = BalanceBefore(h)
    BY <1>0, <1>3, <1>7, <2>1, BlockFields DEF BalanceOf, BalanceBefore
  <2>3. AmountOf(Link(h)) = AmountOfLink(Link(h))
    <3>1. CASE Link(h) \in Hash
      BY Zenon, <2>1, <3>1, ReferenceAssumption DEF AmountOfLink
    <3>2. CASE Link(h) \notin Hash
      <4>1. F(Visit)[<<"amount", Link(h)>>] = AmountOfLink(Link(h))
        BY Zenon, <1>1, <1>3, <3>2 DEF AmountOfLink
      <4> QED
        BY Zenon, <1>7, <4>1 DEF AmountOf
    <3> QED
      BY Zenon, <3>1, <3>2
  <2> QED
    BY Zenon, <2>2, <2>3
<1>9. Wrong = {}
  <2> SUFFICES ASSUME Wrong # {} PROVE FALSE
    BY Zenon
  <2>1. PICK h \in Wrong : \A m \in Wrong : h <= m
    BY Zenon DEF WellOrdered
  <2> QED
    BY ZenonT(40), <1>2, <1>7, <1>8, <2>1 DEF AmountOf, BalanceOf
<1>10. ASSUME NEW h \in Hash PROVE BalanceOf(Previous(h)) = BalanceBefore(h)
  BY Zenon, <1>8, <1>9
<1> QED
  BY Zenon, <1>9, <1>10

-----------------------------------------------------------------------------
(* Reading the tables. *)

LEMMA HeadFacts ==
    ASSUME LedgerInv, NEW a \in Account
    PROVE  /\ accounts[a].head = 0 => accounts[a] = NoAccount /\ \A x \in blocks : Owner[x] # a
           /\ accounts[a].head # 0 =>
                /\ accounts[a].head \in blocks /\ accounts[a].head \in Hash
                /\ Owner[accounts[a].head] = a
                /\ \A x \in blocks : Previous(x) # accounts[a].head
                /\ \A h \in blocks :
                      Owner[h] = a /\ (\A x \in blocks : Previous(x) # h) => h = accounts[a].head
                /\ accounts[a].open_block \in blocks
                /\ Owner[accounts[a].open_block] = a
                /\ Previous(accounts[a].open_block) = 0
                /\ accounts[a].balance = BalanceAt[accounts[a].head]
                /\ accounts[a].rep_block = RepBlockAt[accounts[a].head]
<1>1. blocks \subseteq Hash /\ 0 \notin Hash
  BY Zenon, NotZero DEF LedgerInv, TypeOK
<1>2. CASE Chain(a) = {}
  BY <1>2 DEF LedgerInv, AccountsAreChains, NoAccount, Chain
<1>3. CASE Chain(a) # {}
  BY <1>1, <1>3 DEF LedgerInv, AccountsAreChains, Chain
<1> QED
  BY Zenon, <1>2, <1>3

LEMMA FrontierFacts ==
    ASSUME LedgerInv, NEW h \in Hash, frontiers[h] # 0
    PROVE  /\ h \in blocks /\ Type(h) \in Legacy /\ frontiers[h] = Owner[h]
           /\ Owner[h] \in Account /\ accounts[Owner[h]].head = h
  BY Zenon DEF LedgerInv, FrontiersAreLegacyHeads, Sound, ChainsLinked

LEMMA PendingFacts ==
    ASSUME LedgerInv, NEW a, NEW h
    PROVE  /\ PendingExists(a, h) <=>
                  h \in blocks /\ IsSend(h) /\ ~Received(h) /\ Link(h) = a
           /\ PendingExists(a, h) => PendingGet(a, h) = Entry(h)
           /\ PendingAt(a, h) = IF PendingExists(a, h) THEN {Entry(h)} ELSE {}
<1>1. pending = {Entry(x) : x \in {y \in blocks : IsSend(y) /\ ~Received(y)}}
  BY Zenon DEF LedgerInv, PendingIsUnreceived, Entry
<1>2. \A p \in pending : p.hash = h /\ p.account = a => p = Entry(h) /\ Link(h) = a /\ h \in blocks /\ IsSend(h) /\ ~Received(h)
  BY <1>1 DEF Entry
<1>3. h \in blocks /\ IsSend(h) /\ ~Received(h) =>
          Entry(h) \in pending /\ Entry(h).hash = h /\ Entry(h).account = Link(h)
  BY Zenon, <1>1 DEF Entry
<1> HIDE DEF Entry
<1>4. PendingAt(a, h) = {p \in pending : p.account = a /\ p.hash = h}
  BY Zenon DEF PendingAt
<1>5. PendingExists(a, h) <=> h \in blocks /\ IsSend(h) /\ ~Received(h) /\ Link(h) = a
  BY Zenon, <1>2, <1>3, <1>4 DEF PendingExists
<1>6. PendingExists(a, h) => PendingGet(a, h) = Entry(h)
  BY Zenon, <1>2, <1>3, <1>5 DEF PendingGet
<1>7. PendingAt(a, h) = IF PendingExists(a, h) THEN {Entry(h)} ELSE {}
  BY Zenon, <1>2, <1>3, <1>4, <1>5 DEF PendingExists
<1> QED
  BY Zenon, <1>5, <1>6, <1>7

-----------------------------------------------------------------------------
(* A verdict of progress is given to valid blocks only. *)

LEMMA ReceivableFacts ==
    ASSUME LedgerInv, NEW h \in Hash, Source(h) # 0, PendingExists(Owner[h], Source(h))
    PROVE  ReceivesSend(blocks, h)
  BY Zenon, PendingFacts DEF ReceivesSend, Received

LEMMA LegacyPosition ==
    ASSUME LedgerInv, NEW h \in Hash, Type(h) \in {"send", "receive", "change"},
           Previous(h) \in blocks, frontiers[Previous(h)] # 0
    PROVE  /\ ExtendsChain(blocks, h) /\ Owner[h] = frontiers[Previous(h)]
           /\ Owner[h] \in Account /\ accounts[Owner[h]].head = Previous(h)
<1>1. Previous(h) # 0 /\ Previous(h) \in Hash
  BY Zenon, ReferenceAssumption, BlockFields
<1>2. Owner[h] = Owner[Previous(h)]
  BY Zenon, OwnerAssumption
<1>3. Owner[h] = frontiers[Previous(h)] /\ Owner[h] \in Account /\ accounts[Owner[h]].head = Previous(h)
      /\ Type(Previous(h)) \in Legacy
  BY Zenon, <1>1, <1>2, FrontierFacts
<1>4. \A x \in blocks : Previous(x) # Previous(h)
  BY <1>1, <1>3, HeadFacts
<1> QED
  BY Zenon, <1>1, <1>2, <1>3, <1>4 DEF ExtendsChain

LEMMA FirstPosition ==
    ASSUME LedgerInv, NEW h \in Hash, Owner[h] \in Account, ~Opened(Owner[h]),
           Previous(h) = 0, Source(h) # 0
    PROVE  ExtendsChain(blocks, h)
  BY Zenon, HeadFacts DEF ExtendsChain, Opened

LEMMA ChangeProgress ==
    ASSUME LedgerInv, NEW h \in Hash, Type(h) = "change", Result(h) = "progress"
    PROVE  h \notin blocks /\ Valid(blocks, h)
<1>1. h \notin blocks /\ Previous(h) \in blocks /\ frontiers[Previous(h)] # 0
      /\ Signer(h) = frontiers[Previous(h)]
  BY Zenon DEF Result, ChangeResult
<1>2. Source(h) = 0 /\ Balanced(h)
  BY Zenon DEF Source, Balanced
<1> QED
  BY Zenon, <1>1, <1>2, LegacyPosition DEF Valid

LEMMA SendProgress ==
    ASSUME LedgerInv, NEW h \in Hash, Type(h) = "send", Result(h) = "progress"
    PROVE  h \notin blocks /\ Valid(blocks, h)
<1>1. h \notin blocks /\ Previous(h) \in blocks /\ frontiers[Previous(h)] # 0
      /\ Signer(h) = frontiers[Previous(h)]
      /\ ~(accounts[frontiers[Previous(h)]].balance < Balance(h))
  BY Zenon DEF Result, SendResult
<1>2. Owner[h] = frontiers[Previous(h)] /\ Owner[h] \in Account /\ accounts[Owner[h]].head = Previous(h)
      /\ ExtendsChain(blocks, h)
  BY Zenon, <1>1, LegacyPosition
<1>3. Previous(h) # 0 /\ Previous(h) \in Hash
  BY Zenon, ReferenceAssumption, BlockFields
<1>4. accounts[Owner[h]].balance = BalanceBefore(h) /\ BalanceBefore(h) \in Nat /\ Balance(h) \in Nat
  BY <1>2, <1>3, HeadFacts, BalanceAssumption, BlocksAssumption, BlockFields DEF BalanceBefore
<1>5. Source(h) = 0 /\ Balanced(h)
  BY <1>1, <1>2, <1>4 DEF Source, Balanced
<1> QED
  BY Zenon, <1>1, <1>2, <1>5, NotZero DEF Valid

LEMMA ReceiveProgress ==
    ASSUME LedgerInv, NEW h \in Hash, Type(h) = "receive", Result(h) = "progress"
    PROVE  h \notin blocks /\ Valid(blocks, h)
<1>1. h \notin blocks /\ Previous(h) \in blocks /\ frontiers[Previous(h)] # 0
      /\ Signer(h) = frontiers[Previous(h)] /\ PendingExists(frontiers[Previous(h)], Link(h))
  BY Zenon DEF Result, ReceiveResult
<1>2. Owner[h] = frontiers[Previous(h)] /\ Owner[h] \in Account /\ ExtendsChain(blocks, h)
  BY Zenon, <1>1, LegacyPosition
<1>3. Source(h) = Link(h) /\ Source(h) # 0 /\ Balanced(h)
  BY Zenon, ReferenceAssumption DEF Source, Balanced
<1> QED
  BY Zenon, <1>1, <1>2, <1>3, ReceivableFacts, NotZero DEF Valid

LEMMA OpenProgress ==
    ASSUME LedgerInv, NEW h \in Hash, Type(h) = "open", Result(h) = "progress"
    PROVE  h \notin blocks /\ Valid(blocks, h)
<1>1. h \notin blocks /\ Signer(h) = Content[h].account /\ ~Opened(Content[h].account)
      /\ Content[h].account # 0 /\ PendingExists(Content[h].account, Link(h))
  BY Zenon DEF Result, OpenResult
<1>2. Owner[h] = Content[h].account /\ Owner[h] \in Account
  BY Zenon, <1>1, OwnerAssumption
<1>3. Source(h) = Link(h) /\ Source(h) # 0 /\ Previous(h) = 0 /\ Balanced(h)
  BY Zenon, ReferenceAssumption DEF Source, Balanced
<1> QED
  BY Zenon, <1>1, <1>2, <1>3, ReceivableFacts, FirstPosition, NotZero DEF Valid

LEMMA StatePosition ==
    ASSUME LedgerInv, NEW h \in Hash, Type(h) = "state", Result(h) = "progress"
    PROVE  /\ h \notin blocks /\ Owner[h] = Content[h].account /\ Owner[h] \in Account
           /\ Signer(h) = Owner[h]
           /\ accounts[Owner[h]].head = Previous(h)
           /\ accounts[Owner[h]].balance = BalanceBefore(h)
           /\ IsSend(h) <=> Opened(Owner[h]) /\ Balance(h) < accounts[Owner[h]].balance
           /\ ExtendsChain(blocks, h)
<1> DEFINE a == Content[h].account
<1>1. h \notin blocks /\ Signer(h) = a /\ a # 0
  BY Zenon DEF Result, StateResult
<1>2. Owner[h] = a /\ a \in Account
  BY Zenon, <1>1, OwnerAssumption
<1>3. Balance(h) \in Nat /\ Previous(h) \in Hash \cup {0}
  BY BlockFields, BlocksAssumption
<1>4. CASE Opened(a)
  <2>1. Previous(h) # 0 /\ Previous(h) = accounts[a].head
    BY Zenon, <1>1, <1>4 DEF Result, StateResult
  <2>2. accounts[a].balance = BalanceBefore(h) /\ Previous(h) \in blocks /\ Owner[Previous(h)] = a
        /\ \A x \in blocks : Previous(x) # Previous(h)
    BY <1>2, <2>1, HeadFacts DEF BalanceBefore
  <2>3. Type(h) \notin Legacy
    BY Zenon DEF Legacy
  <2>4. ExtendsChain(blocks, h)
    BY Zenon, <1>2, <2>1, <2>2, <2>3 DEF ExtendsChain
  <2>5. IsSend(h) <=> Opened(a) /\ Balance(h) < accounts[a].balance
    BY Zenon, <1>4, <2>2 DEF IsSend
  <2> QED
    BY Zenon, <1>1, <1>2, <2>1, <2>2, <2>4, <2>5
<1>5. CASE ~Opened(a)
  <2>1. Previous(h) = 0 /\ Link(h) # 0
    BY Zenon, <1>1, <1>5 DEF Result, StateResult
  <2>2. accounts[a] = NoAccount /\ accounts[a].head = 0 /\ accounts[a].balance = 0
    BY <1>2, <1>5, HeadFacts DEF Opened, NoAccount
  <2>3. BalanceBefore(h) = 0 /\ ~IsSend(h) /\ Source(h) = Link(h)
    BY <1>3, <2>1 DEF BalanceBefore, IsSend, Source
  <2>4. ExtendsChain(blocks, h)
    BY Zenon, <1>2, <1>5, <2>1, <2>3, FirstPosition
  <2> QED
    BY Zenon, <1>1, <1>2, <1>5, <2>1, <2>2, <2>3, <2>4
<1> QED
  BY Zenon, <1>4, <1>5

LEMMA StateProgress ==
    ASSUME LedgerInv, NEW h \in Hash, Type(h) = "state", Result(h) = "progress"
    PROVE  h \notin blocks /\ Valid(blocks, h)
<1> DEFINE a == Owner[h]
<1>1. /\ h \notin blocks /\ a = Content[h].account /\ a \in Account /\ Signer(h) = a
      /\ accounts[a].head = Previous(h) /\ accounts[a].balance = BalanceBefore(h)
      /\ IsSend(h) <=> Opened(a) /\ Balance(h) < accounts[a].balance
      /\ ExtendsChain(blocks, h)
  BY Zenon, StatePosition
<1>2. BalanceBefore(h) \in Nat /\ Balance(h) \in Nat
  BY BlockFields, BalanceAssumption, BlocksAssumption DEF BalanceBefore
<1>3. CASE IsSend(h)
  <2>1. Source(h) = 0 /\ Balanced(h)
    BY Zenon, <1>3 DEF Source, Balanced
  <2> QED
    BY Zenon, <1>1, <2>1, NotZero DEF Valid
<1>4. CASE ~IsSend(h) /\ Link(h) = 0
  <2>1. Balance(h) - BalanceBefore(h) = 0
    BY Zenon, <1>1, <1>4 DEF Result, StateResult
  <2>2. Source(h) = 0 /\ Balanced(h)
    BY <1>2, <1>4, <2>1 DEF Source, Balanced
  <2> QED
    BY Zenon, <1>1, <2>2, NotZero DEF Valid
<1>5. CASE ~IsSend(h) /\ Link(h) # 0
  <2>1. PendingExists(a, Link(h)) /\ Balance(h) - BalanceBefore(h) = PendingGet(a, Link(h)).amount
    BY <1>1, <1>5 DEF Result, StateResult
  <2>2. Source(h) = Link(h)
    BY Zenon, <1>5 DEF Source
  <2>3. Link(h) \in blocks /\ PendingGet(a, Link(h)).amount = AmountAt[Link(h)]
    BY <2>1, PendingFacts DEF Entry
  <2>4. AmountAt[Link(h)] \in Nat
    BY <2>3, AmountAssumption, BlocksAssumption DEF LedgerInv, TypeOK
  <2>5. Balanced(h)
    BY <1>2, <1>5, <2>1, <2>2, <2>3, <2>4 DEF Balanced
  <2> QED
    BY Zenon, <1>1, <1>5, <2>1, <2>2, <2>5, ReceivableFacts, NotZero DEF Valid
<1> QED
  BY Zenon, <1>3, <1>4, <1>5

(* process accepts valid blocks only. *)
LEMMA ProgressIsValid ==
    ASSUME LedgerInv, NEW h \in Hash, Result(h) = "progress"
    PROVE  h \notin blocks /\ Valid(blocks, h)
  BY Zenon, BlockFields, ChangeProgress, SendProgress, ReceiveProgress, OpenProgress,
     StateProgress
  DEF BlockType

-----------------------------------------------------------------------------
(* Conversely to ProgressIsValid, process turns no valid block away. *)

LEMMA ValidAbove ==
    ASSUME LedgerInv, NEW h \in Hash, Valid(blocks, h), Previous(h) # 0
    PROVE  /\ Previous(h) \in blocks /\ Owner[h] \in Account /\ Opened(Owner[h])
           /\ accounts[Owner[h]].head = Previous(h)
           /\ accounts[Owner[h]].balance = BalanceBefore(h)
           /\ Type(h) \in Legacy => Type(Previous(h)) \in Legacy /\ frontiers[Previous(h)] = Owner[h]
<1>1. /\ Owner[h] \in Account /\ Previous(h) \in blocks /\ Owner[Previous(h)] = Owner[h]
      /\ \A x \in blocks : Previous(x) # Previous(h)
      /\ Type(h) \in Legacy => Type(Previous(h)) \in Legacy
  BY Zenon, BlockFields DEF Valid, ExtendsChain
<1>2. accounts[Owner[h]].head = Previous(h)
  BY ZenonT(40), <1>1, HeadFacts
<1>3. accounts[Owner[h]].balance = BalanceBefore(h) /\ Opened(Owner[h])
  BY <1>1, <1>2, HeadFacts DEF BalanceBefore, Opened
<1>4. Type(h) \in Legacy => frontiers[Previous(h)] = Owner[h]
  BY Zenon, <1>1, <1>2 DEF LedgerInv, TypeOK, FrontiersAreLegacyHeads
<1> QED
  BY Zenon, <1>1, <1>2, <1>3, <1>4

LEMMA ValidFirst ==
    ASSUME LedgerInv, NEW h \in Hash, Valid(blocks, h), Previous(h) = 0
    PROVE  Owner[h] \in Account /\ ~Opened(Owner[h]) /\ accounts[Owner[h]].balance = 0 /\ Source(h) # 0
<1>1. Owner[h] \in Account /\ Source(h) # 0 /\ \A x \in blocks : Owner[x] # Owner[h]
  BY Zenon, BlockFields DEF Valid, ExtendsChain
<1>2. accounts[Owner[h]] = NoAccount
  BY <1>1 DEF LedgerInv, AccountsAreChains, Chain
<1> QED
  BY <1>1, <1>2 DEF Opened, NoAccount

LEMMA ValidSource ==
    ASSUME LedgerInv, NEW h \in Hash, Valid(blocks, h), Source(h) # 0
    PROVE  /\ Source(h) = Link(h) /\ Link(h) \in blocks
           /\ PendingExists(Owner[h], Link(h))
           /\ PendingGet(Owner[h], Link(h)).amount = AmountAt[Link(h)]
<1>1. Source(h) = Link(h)
  BY Zenon, BlockFields
<1> QED
  BY <1>1, PendingFacts DEF Valid, ReceivesSend, Received, Entry

LEMMA ValidIsProgress ==
    ASSUME LedgerInv, NEW h \in Hash \ blocks, Valid(blocks, h)
    PROVE  Result(h) = "progress"
<1> DEFINE a == Owner[h]
<1>1. a # 0 /\ Signer(h) = a
  BY Zenon DEF Valid
<1>2. CASE Type(h) \in {"send", "receive", "change"}
  <2>1. /\ Previous(h) \in blocks /\ Type(Previous(h)) \in Legacy /\ frontiers[Previous(h)] = a
        /\ accounts[a].balance = BalanceBefore(h) /\ accounts[a].head = Previous(h)
    BY Zenon, <1>2, ValidAbove, ReferenceAssumption DEF Legacy
  <2>2. CASE Type(h) = "change"
    BY Zenon, <1>1, <2>1, <2>2 DEF Result, ChangeResult, ValidPredecessor
  <2>3. CASE Type(h) = "send"
    <3>1. ~(accounts[a].balance < Balance(h))
      BY <2>1, <2>3, BlockFields, BalanceAssumption, BlocksAssumption
      DEF Valid, Balanced, BalanceBefore
    <3> QED
      BY Zenon, <1>1, <2>1, <2>3, <3>1 DEF Result, SendResult, ValidPredecessor
  <2>4. CASE Type(h) = "receive"
    <3>1. Source(h) # 0
      BY Zenon, <2>4, ReferenceAssumption DEF Source
    <3>2. Link(h) \in blocks /\ PendingExists(a, Link(h))
      BY Zenon, <3>1, ValidSource
    <3> QED
      BY Zenon, <1>1, <2>1, <2>4, <3>2 DEF Result, ReceiveResult, ValidPredecessor
  <2> QED
    BY Zenon, <1>2, <2>2, <2>3, <2>4
<1>3. CASE Type(h) = "open"
  <2>1. a = Content[h].account /\ Previous(h) = 0
    BY Zenon, <1>3, OwnerAssumption, ReferenceAssumption
  <2>2. ~Opened(a) /\ Source(h) # 0
    BY Zenon, <2>1, ValidFirst
  <2>3. Link(h) \in blocks /\ PendingExists(a, Link(h))
    BY Zenon, <2>2, ValidSource
  <2> QED
    BY Zenon, <1>1, <1>3, <2>1, <2>2, <2>3 DEF Result, OpenResult
<1>4. CASE Type(h) = "state"
  <2>1. a = Content[h].account
    BY Zenon, <1>4, OwnerAssumption
  <2>2. BalanceBefore(h) \in Nat /\ Balance(h) \in Nat
    BY BlockFields, BalanceAssumption, BlocksAssumption DEF BalanceBefore
  <2>3. IF Previous(h) = 0 THEN ~Opened(a) /\ Source(h) # 0
        ELSE Opened(a) /\ Previous(h) \in blocks /\ accounts[a].head = Previous(h)
    BY Zenon, ValidFirst, ValidAbove
  <2>4. accounts[a].balance = BalanceBefore(h)
    BY Zenon, ValidFirst, ValidAbove DEF BalanceBefore
  <2>5. Source(h) = IF IsSend(h) THEN 0 ELSE Link(h)
    BY Zenon, <1>4 DEF Source
  <2>6. IsSend(h) <=> Opened(a) /\ Balance(h) < accounts[a].balance
    BY <1>4, <2>2, <2>3, <2>4 DEF IsSend, BalanceBefore
  <2>7. CASE IsSend(h)
    BY Zenon, <1>1, <1>4, <2>1, <2>3, <2>5, <2>6, <2>7 DEF Result, StateResult
  <2>8. CASE ~IsSend(h) /\ Link(h) = 0
    <3>1. Balance(h) - accounts[a].balance = 0
      BY <1>4, <2>2, <2>4, <2>5, <2>8 DEF Valid, Balanced
    <3> QED
      BY Zenon, <1>1, <1>4, <2>1, <2>3, <2>5, <2>6, <2>8, <3>1 DEF Result, StateResult
  <2>9. CASE ~IsSend(h) /\ Link(h) # 0
    <3>1. /\ Link(h) \in blocks /\ PendingExists(a, Link(h))
          /\ PendingGet(a, Link(h)).amount = AmountAt[Link(h)]
      BY Zenon, <2>5, <2>9, ValidSource
    <3>2. AmountAt[Link(h)] \in Nat
      BY <3>1, AmountAssumption, BlocksAssumption DEF LedgerInv, TypeOK
    <3>3. Balance(h) - accounts[a].balance = AmountAt[Link(h)]
      BY <1>4, <2>2, <2>4, <2>5, <2>9, <3>2 DEF Valid, Balanced
    <3> QED
      BY Zenon, <1>1, <1>4, <2>1, <2>3, <2>5, <2>6, <2>9, <3>1, <3>3 DEF Result, StateResult
  <2> QED
    BY Zenon, <2>7, <2>8, <2>9
<1> QED
  BY Zenon, <1>2, <1>3, <1>4, BlockFields DEF BlockType

-----------------------------------------------------------------------------
(* Taking an entry out of pending and putting one back. *)

LEMMA PendingDelIs ==
    ASSUME LedgerInv, NEW s
    PROVE  /\ PendingDel(Link(s), s) = {p \in pending : p.hash # s}
           /\ s \notin blocks \/ ~IsSend(s) \/ Received(s) => {p \in pending : p.hash # s} = pending
<1>1. \A p \in pending : p.hash = s => p.account = Link(s) /\ s \in blocks /\ IsSend(s) /\ ~Received(s)
  BY DEF LedgerInv, PendingIsUnreceived
<1> QED
  BY Zenon, <1>1 DEF PendingDel, PendingAt

LEMMA PendingPutIs ==
    ASSUME LedgerInv, NEW s
    PROVE  PendingPut(Link(s), s, Owner[s], AmountAt[s]) = {p \in pending : p.hash # s} \cup {Entry(s)}
  BY Zenon, PendingDelIs DEF PendingPut, Entry

-----------------------------------------------------------------------------
(* The block that a rollback visits. *)

LEMMA VisitingFacts ==
    ASSUME WellOrdered, LedgerInv, NEW h, NEW type, Visiting(h, type)
    PROVE  /\ h \in blocks \ {Genesis} /\ h \in Hash /\ Type(h) = type
           /\ Owner[h] \in Account /\ accounts[Owner[h]].head = h /\ Opened(Owner[h])
           /\ accounts[Owner[h]].balance = BalanceAt[h]
           /\ accounts[Owner[h]].rep_block = RepBlockAt[h]
           /\ accounts[Owner[h]].block_count \in Int
<1> DEFINE t == Innermost.target
           a == Innermost.account
<1>1. t # Genesis /\ a = Owner[t] /\ t \in blocks
  <2>1. Len(rollbacks) \in 1 .. Len(rollbacks)
    BY DEF Visiting, LedgerInv, TypeOK
  <2> QED
    BY Zenon, <2>1 DEF Visiting, Innermost, LedgerInv, CallsOnChain
<1>2. a \in Account
  BY Zenon, <1>1 DEF LedgerInv, Sound, ChainsLinked
<1>3. accounts[a].head # 0
  BY <1>1, <1>2, HeadFacts
<1>4. h = accounts[a].head /\ Type(h) = type
  BY Zenon DEF Visiting
<1>5. h \in blocks /\ h \in Hash /\ Owner[h] = a /\ (\A x \in blocks : Previous(x) # h)
      /\ accounts[a].balance = BalanceAt[h] /\ accounts[a].rep_block = RepBlockAt[h]
  BY <1>2, <1>3, <1>4, HeadFacts
<1>6. h # Genesis
  <2> SUFFICES ASSUME h = Genesis PROVE FALSE
    BY Zenon
  <2>1. Previous(h) = 0
    BY Zenon, GenesisBlock
  <2> QED
    BY Zenon, <1>1, <1>5, <2>1, FirstAlone DEF LedgerInv
<1>7. accounts[a].block_count \in Int
  BY Zenon, <1>2 DEF LedgerInv, TypeOK, AccountInfo
<1> QED
  BY Zenon, <1>2, <1>3, <1>4, <1>5, <1>6, <1>7 DEF Opened

LEMMA NotReceived ==
    ASSUME LedgerInv, NEW h \in blocks, ~IsSend(h)
    PROVE  ~Received(h)
<1>1. h # 0 /\ h \notin Account
  BY Zenon, BlockFields DEF LedgerInv, TypeOK
<1> QED
  BY <1>1, GenesisBlock DEF Received, LedgerInv, Sound, ReceivedOnce

(* What the receive that is taken back leaves pending again. *)
LEMMA SourceFacts ==
    ASSUME WellOrdered, LedgerInv, NEW h \in blocks \ {Genesis}, Source(h) # 0
    PROVE  /\ Source(h) \in blocks /\ Source(h) \in Hash /\ Link(Source(h)) = Owner[h]
           /\ AccountOf(Source(h)) = Owner[Source(h)]
           /\ AmountAt[Source(h)] \in 0 .. GenesisAmount
           /\ ~IsSend(h) =>
                  PendingPut(Owner[h], Source(h), Owner[Source(h)], AmountAt[Source(h)]) =
                      {p \in pending : p.hash # h} \cup {Entry(Source(h))}
<1>1. Source(h) \in blocks /\ Source(h) \in Hash /\ Link(Source(h)) = Owner[h]
  BY Zenon DEF LedgerInv, TypeOK, Sound, ReceivedOnce
<1>2. Received(Source(h))
  BY Zenon DEF Received
<1>3. ~IsSend(h) => {p \in pending : p.hash # h} = pending
  BY Zenon, PendingDelIs
<1>4. {p \in pending : p.hash # Source(h)} = pending
  BY Zenon, <1>2, PendingDelIs
<1> QED
  BY Zenon, <1>1, <1>3, <1>4, PendingPutIs, AccountOfIs, AmountAssumption

-----------------------------------------------------------------------------
(* The head under a legacy block, and the weights. *)

(* The head below a legacy block that is accepted. *)
LEMMA LegacyBelow ==
    ASSUME LedgerInv, NEW h \in Hash, Type(h) \in {"send", "receive", "change"}, Result(h) = "progress"
    PROVE  /\ frontiers[Previous(h)] = Owner[h] /\ Owner[h] \in Account
           /\ accounts[Owner[h]].head = Previous(h)
           /\ Previous(h) \in Hash
           /\ accounts[Owner[h]].balance = BalanceBefore(h)
           /\ accounts[Owner[h]].balance \in 0 .. GenesisAmount
           /\ accounts[Owner[h]].rep_block = RepBlockAt[Previous(h)]
           /\ accounts[Owner[h]].block_count + 1 \in Int
           /\ FrontierMove(Previous(h), h, Owner[h]) = FrontiersOver(h)
<1> DEFINE a == frontiers[Previous(h)]
<1>1. Previous(h) \in blocks /\ a # 0
  BY Zenon DEF Result, SendResult, ReceiveResult, ChangeResult
<1>2. a = Owner[h] /\ a \in Account /\ accounts[a].head = Previous(h)
  BY Zenon, <1>1, LegacyPosition
<1>3. Previous(h) \in Hash /\ Previous(h) # 0 /\ Previous(h) # h
  BY Zenon, <1>1, BlockFields, NotZero DEF LedgerInv, TypeOK
<1>4. accounts[a].balance = BalanceBefore(h) /\ accounts[a].rep_block = RepBlockAt[Previous(h)]
      /\ BalanceBefore(h) \in 0 .. GenesisAmount
  BY <1>2, <1>3, HeadFacts, BalanceAssumption DEF BalanceBefore
<1>5. accounts[a] \in AccountInfo
  BY Zenon, <1>2 DEF LedgerInv, TypeOK
<1>6. frontiers \in [Hash -> Account \cup {0}]
  BY Zenon DEF LedgerInv, TypeOK
<1>7. FrontierMove(Previous(h), h, a) = FrontiersOver(h)
  BY Zenon, <1>2, <1>3, <1>6 DEF FrontierMove, FrontiersOver
<1> QED
  BY <1>2, <1>3, <1>4, <1>5, <1>7 DEF AccountInfo

LEMMA RepresentationAddType ==
    ASSUME NEW table \in Weights, NEW h, NEW amount \in Int
    PROVE  RepresentationAdd(table, h, amount) \in Weights
<1>1. \A k \in Account \cup {0} : Wrap(table[k] + amount) \in 0 .. GenesisAmount
  <2>1. \A k \in Account \cup {0} : table[k] + amount \in Int
    BY BlocksAssumption DEF Weights
  <2> QED
    BY Zenon, <2>1, WrapRange
<1> QED
  BY Zenon, <1>1 DEF RepresentationAdd, Weights

-----------------------------------------------------------------------------
(* What a block stands on.  The ancestors of a block are the least set     *)
(* that holds it and is closed under Parents.                              *)
Closed(T) == \A x \in T : Parents(x) \subseteq T

Below(h) == {y \in Hash : \A T \in SUBSET Hash : h \in T /\ Closed(T) => y \in T}

LEMMA BelowFacts ==
    ASSUME NEW h \in Hash
    PROVE  /\ h \in Below(h) /\ Parents(h) \subseteq Below(h)
           /\ \A y \in Below(h) : y \in Hash /\ Below(y) \subseteq Below(h)
           /\ Closed(Below(h))
<1>1. Parents(h) \subseteq Hash
  BY Zenon DEF Parents
<1> QED
  BY Zenon, <1>1 DEF Below, Closed, Parents

LEMMA BelowIs ==
    ASSUME NEW h \in Hash
    PROVE  Below(h) = {h} \cup UNION {Below(x) : x \in Parents(h)}
<1> DEFINE T == {h} \cup UNION {Below(x) : x \in Parents(h)}
<1>1. Parents(h) \subseteq Hash
  BY Zenon DEF Parents
<1>2. T \subseteq Below(h)
  BY <1>1, BelowFacts
<1>3. T \in SUBSET Hash /\ h \in T
  BY <1>1, BelowFacts
<1>4. Closed(T)
  <2>1. \A x \in Parents(h) : x \in Below(x) /\ Closed(Below(x))
    BY Zenon, <1>1, BelowFacts
  <2> QED
    BY <2>1 DEF Closed
<1>5. Below(h) \subseteq T
  BY <1>3, <1>4 DEF Below
<1> QED
  BY Zenon, <1>2, <1>5

LEMMA AncestorsAre ==
    ASSUME WellOrdered PROVE \A h \in Hash : Ancestors[h] = Below(h)
<1> DEFINE F(f) == [h \in Hash |-> {h} \cup UNION {f[x] : x \in Parents(h)}]
           G == [h \in Hash |-> Below(h)]
<1>1. G = F(G)
  <2>1. \A h \in Hash : Parents(h) \subseteq Hash
    BY Zenon DEF Parents
  <2>2. ASSUME NEW h \in Hash PROVE {Below(x) : x \in Parents(h)} = {G[x] : x \in Parents(h)}
    BY Zenon, <2>1
  <2>3. ASSUME NEW h \in Hash PROVE G[h] = {h} \cup UNION {G[x] : x \in Parents(h)}
    BY <2>2, BelowIs
  <2> QED
    BY Zenon, <2>3
<1>2. Ancestors = CHOOSE f : f = F(f)
  BY Zenon DEF Ancestors
<1> HIDE DEF F
<1>3. Ancestors = F(Ancestors)
  BY Zenon, <1>1, <1>2
<1> DEFINE Wrong == {h \in Hash : Ancestors[h] # G[h]}
<1>4. SUFFICES ASSUME Wrong # {} PROVE FALSE
  BY Zenon
<1>5. PICK h \in Wrong : \A m \in Wrong : h <= m
  BY Zenon, <1>4 DEF WellOrdered
<1>6. ASSUME NEW x \in Parents(h) PROVE Ancestors[x] = G[x]
  <2>1. x \in Hash /\ x < h
    BY <1>5, BlockFields, ReferenceAssumption DEF Parents
  <2> QED
    BY <1>5, <2>1 DEF Hash
<1>7. {Ancestors[x] : x \in Parents(h)} = {G[x] : x \in Parents(h)}
  BY Zenon, <1>6
<1>8. Ancestors[h] = {h} \cup UNION {Ancestors[x] : x \in Parents(h)}
      /\ G[h] = {h} \cup UNION {G[x] : x \in Parents(h)}
  BY <1>1, <1>3, <1>5 DEF F
<1> QED
  BY ONLY Zenon, <1>5, <1>7, <1>8

LEMMA AncestorsFacts ==
    ASSUME WellOrdered, NEW h \in Hash
    PROVE  /\ h \in Ancestors[h]
           /\ Parents(h) \subseteq Ancestors[h]
           /\ \A y \in Ancestors[h] : y \in Hash /\ \A z \in Ancestors[y] : z \in Ancestors[h]
  BY AncestorsAre, BelowFacts

(* The head of a chain is the last made of its blocks and stands on all of *)
(* them.                                                                   *)
LEMMA HeadAbove ==
    ASSUME WellOrdered, NEW S, Sound(S), NEW t \in S,
           \A y \in S : Owner[y] = Owner[t] /\ (\A x \in S : Previous(x) # y) => y = t
    PROVE  \A x \in S : Owner[x] = Owner[t] => x <= t /\ x \in Ancestors[t]
<1> DEFINE C == {x \in S : Owner[x] = Owner[t]}
           Wrong == {x \in C : x \notin Ancestors[t]}
<1>1. S \subseteq Hash
  BY Zenon DEF Sound
<1>2. ASSUME NEW x \in C, x # t
      PROVE  \E y \in C : Previous(y) = x /\ y > x /\ x \in Parents(y)
  <2>1. PICK y \in S : Previous(y) = x
    BY Zenon, <1>2
  <2>2. x \in Hash /\ y \in Hash /\ x # 0
    BY Zenon, <1>1, <2>1, NotZero
  <2> QED
    BY <2>1, <2>2, BlockFields DEF Sound, ChainsLinked, Parents
<1>3. PICK m \in C : \A x \in C : x <= m
  <2>1. C \in SUBSET Hash /\ C # {}
    BY Zenon, <1>1
  <2> QED
    BY <2>1, GreatestHash, Zenon
<1>4. m = t
  <2> SUFFICES ASSUME m # t PROVE FALSE
    BY Zenon
  <2>1. PICK y \in C : y > m
    BY Zenon, <1>2
  <2>2. y <= m /\ y \in Nat /\ m \in Nat
    BY Zenon, <1>1, <1>3, BlockFields
  <2> QED
    BY ONLY <2>1, <2>2
<1>5. Wrong = {}
  <2> SUFFICES ASSUME Wrong # {} PROVE FALSE
    BY Zenon
  <2>1. PICK x \in Wrong : \A n \in Wrong : n <= x
    <3>1. Wrong \in SUBSET Hash /\ Wrong # {}
      BY Zenon, <1>1
    <3> QED
      BY <3>1, GreatestHash, Zenon
  <2>2. x # t
    BY Zenon, <1>1, <2>1, AncestorsFacts
  <2>3. PICK y \in C : Previous(y) = x /\ y > x /\ x \in Parents(y)
    BY Zenon, <1>2, <2>1, <2>2
  <2>4. x \in Nat /\ y \in Nat /\ y \in Hash
    BY Zenon, <1>1, <2>1, <2>3, BlockFields
  <2>5. y \in Ancestors[t]
    BY <2>1, <2>3, <2>4
  <2> QED
    BY Zenon, <1>1, <2>1, <2>3, <2>4, <2>5, AncestorsFacts
<1> QED
  BY Zenon, <1>3, <1>4, <1>5

=============================================================================
