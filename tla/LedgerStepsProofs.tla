------------------------- MODULE LedgerStepsProofs --------------------------
(***************************************************************************)
(* Adding a valid block, and removing one that nothing stands on, preserve *)
(* LedgerInv; and that is what the handlers of ledger::process and of the  *)
(* rollback visitor do, for each of the five types of blocks.  The one     *)
(* counts the block in the account, the weights, the checksum and the      *)
(* index; the other takes back what counting the block had done.           *)
(***************************************************************************)
EXTENDS LedgerReadProofs

-----------------------------------------------------------------------------
(* Adding a block, and removing one, preserve the invariant. *)

LEMMA AddsBlockInv ==
    ASSUME LedgerInv, NEW h \in Hash \ blocks, Valid(blocks, h), AddsBlock(h)
    PROVE  LedgerInv'
<1> DEFINE a == Owner[h]
<1>1. PICK count \in Int :
          accounts' = [accounts EXCEPT ![a] =
              [head |-> h, rep_block |-> RepBlockAt[h],
               open_block |-> IF Opened(a) THEN accounts[a].open_block ELSE h,
               balance |-> BalanceAt[h], block_count |-> count]]
  BY Zenon DEF AddsBlock
<1>2. a \in Account /\ blocks \subseteq Hash /\ 0 \notin Hash
  BY Zenon, BlockFields, NotZero DEF Valid, LedgerInv, TypeOK
<1>3. blocks' = blocks \cup {h} /\ \A x \in blocks : Previous(x) # h
  <2>1. \A x \in blocks : Previous(x) # 0 => Previous(x) \in blocks
    BY Zenon DEF LedgerInv, Sound, ChainsLinked
  <2> QED
    BY Zenon, <1>2, <2>1 DEF AddsBlock
<1>4. Sound(blocks')
  BY Zenon, <1>3, AddSound DEF LedgerInv
<1>5. Opened(a) => accounts[a].open_block \in blocks /\ Owner[accounts[a].open_block] = a
                   /\ Previous(accounts[a].open_block) = 0 /\ accounts[a].head = Previous(h)
                   /\ accounts[a].head \in blocks
  <2> SUFFICES ASSUME Opened(a)
               PROVE  accounts[a].open_block \in blocks /\ Owner[accounts[a].open_block] = a
                      /\ Previous(accounts[a].open_block) = 0 /\ accounts[a].head = Previous(h)
                      /\ accounts[a].head \in blocks
    BY Zenon
  <2>1. accounts[a].head # 0
    BY Zenon DEF Opened
  <2>2. Previous(h) # 0
    BY Zenon, <1>2, <2>1, HeadFacts DEF Valid, ExtendsChain
  <2>3. Previous(h) \in blocks /\ Owner[Previous(h)] = a /\ \A x \in blocks : Previous(x) # Previous(h)
    BY Zenon, <2>2 DEF Valid, ExtendsChain
  <2> QED
    BY <1>2, <2>1, <2>3, HeadFacts
<1>6. ~Opened(a) => Previous(h) = 0 /\ \A x \in blocks : Owner[x] # a
  BY <1>2, HeadFacts DEF Opened, Valid, ExtendsChain
<1>7. TypeOK'
  <2>1. accounts' \in [Account -> AccountInfo]
    <3>1. RepBlockAt[h] \in Hash /\ BalanceAt[h] \in Int
      BY RepBlockAssumption, BalanceAssumption, BlocksAssumption
    <3>2. (IF Opened(a) THEN accounts[a].open_block ELSE h) \in Hash \cup {0}
      BY Zenon, <1>2, <1>5
    <3>3. accounts \in [Account -> AccountInfo]
      BY Zenon DEF LedgerInv, TypeOK
    <3> QED
      BY Zenon, <1>1, <3>1, <3>2, <3>3 DEF AccountInfo
  <2>2. successor' \in [Hash -> Hash \cup {0}]
    BY Zenon DEF AddsBlock, WithBlock, LedgerInv, TypeOK
  <2>3. frontiers' \in [Hash -> Account \cup {0}]
    BY Zenon, <1>2 DEF AddsBlock, LedgerInv, TypeOK
  <2>4. Entry(h) \in PendingEntry
    BY BlockFields, AmountAssumption, BlocksAssumption DEF Entry, PendingEntry
  <2>5. pending' \subseteq PendingEntry
    BY Zenon, <2>4 DEF AddsBlock, LedgerInv, TypeOK
  <2>6. blocks_info' \in [Hash -> BlockInfo]
    <3>1. [account |-> a, balance |-> BalanceAt[h]] \in BlockInfo
      BY <1>2, BalanceAssumption, BlocksAssumption DEF BlockInfo
    <3>2. blocks_info \in [Hash -> BlockInfo]
      BY Zenon DEF LedgerInv, TypeOK
    <3> QED
      BY Zenon, <3>1, <3>2 DEF AddsBlock
  <2> QED
    BY Zenon, <1>2, <1>3, <2>1, <2>2, <2>3, <2>5, <2>6 DEF TypeOK, AddsBlock, LedgerInv
<1>8. AccountsAreChains'
  <2> SUFFICES ASSUME NEW b \in Account,
                      NEW chain, chain = {x \in blocks' : Owner[x] = b},
                      NEW info, info = accounts'[b]
               PROVE  IF chain = {} THEN info = NoAccount
                      ELSE /\ info.head \in chain
                           /\ \A y \in chain : y = info.head <=> \A x \in blocks' : Previous(x) # y
                           /\ info.open_block \in chain
                           /\ Previous(info.open_block) = 0
                           /\ info.balance = BalanceAt[info.head]
                           /\ info.rep_block = RepBlockAt[info.head]
    BY Zenon DEF AccountsAreChains, Chain
  <2>0. accounts \in [Account -> AccountInfo]
    BY Zenon DEF LedgerInv, TypeOK
  <2>1. CASE b = a
    <3>1. info = [head |-> h, rep_block |-> RepBlockAt[h],
                  open_block |-> IF Opened(a) THEN accounts[a].open_block ELSE h,
                  balance |-> BalanceAt[h], block_count |-> count]
      BY Zenon, <1>1, <1>2, <2>0, <2>1
    <3>2. h \in chain
      BY Zenon, <1>3, <2>1
    <3>3. ASSUME NEW y \in chain PROVE y = h <=> \A x \in blocks' : Previous(x) # y
      <4>1. CASE y = h
        BY Zenon, <1>3, <4>1, BlockFields
      <4>2. CASE y # h
        <5>1. y \in blocks /\ Owner[y] = a /\ Opened(a)
          BY Zenon, <1>3, <1>6, <2>1, <4>2
        <5>2. CASE y = Previous(h)
          BY Zenon, <1>3, <4>2, <5>2
        <5>3. CASE y # Previous(h)
          BY <1>2, <1>3, <1>5, <4>2, <5>1, <5>3, HeadFacts DEF Opened
        <5> QED
          BY Zenon, <5>2, <5>3
      <4> QED
        BY Zenon, <4>1, <4>2
    <3>4. info.open_block \in chain /\ Previous(info.open_block) = 0
      BY <1>3, <1>5, <1>6, <2>1, <3>1, <3>2
    <3> QED
      BY <3>1, <3>2, <3>3, <3>4
  <2>2. CASE b # a
    <3>1. info = accounts[b]
      BY Zenon, <1>1, <2>0, <2>2
    <3>2. chain = Chain(b)
      BY Zenon, <1>3, <2>2 DEF Chain
    <3>3. \A y \in chain : Previous(h) # y
      BY Zenon, <1>2, <2>2, <3>2 DEF Valid, ExtendsChain, Chain
    <3>4. \A y \in chain : (\A x \in blocks' : Previous(x) # y) <=> (\A x \in blocks : Previous(x) # y)
      BY Zenon, <1>3, <3>3
    <3>5. IF chain = {} THEN info = NoAccount
          ELSE /\ info.head \in chain
               /\ \A y \in chain : y = info.head <=> \A x \in blocks : Previous(x) # y
               /\ info.open_block \in chain
               /\ Previous(info.open_block) = 0
               /\ info.balance = BalanceAt[info.head]
               /\ info.rep_block = RepBlockAt[info.head]
      BY <3>1, <3>2 DEF LedgerInv, AccountsAreChains
    <3> QED
      BY Zenon, <3>4, <3>5
  <2> QED
    BY Zenon, <2>1, <2>2
<1>9. SuccessorsMatch'
  <2>1. successor' = [x \in Hash |-> IF x = h THEN 0 ELSE IF x = Previous(h) THEN h ELSE successor[x]]
    BY Zenon DEF AddsBlock, WithBlock
  <2>2. Previous(h) # h /\ Previous(h) # 0 => Previous(h) \in blocks
    BY Zenon DEF Valid, ExtendsChain
  <2> QED
    BY <1>2, <1>3, <2>1, <2>2, BlockFields DEF SuccessorsMatch, LedgerInv
<1>10. PendingIsUnreceived'
  <2>1. pending = {Entry(x) : x \in {y \in blocks : IsSend(y) /\ ~Received(y)}}
    BY Zenon DEF LedgerInv, PendingIsUnreceived, Entry
  <2>2. \A y : Received(y)' <=> Received(y) \/ Source(h) = y
    BY Zenon, <1>3 DEF Received
  <2>3. ~Received(h) /\ Source(h) # h
    BY <1>2, GenesisBlock, BlockFields, NotZero DEF Received, LedgerInv, Sound, ReceivedOnce
  <2>4. \A y : Entry(y).hash = y
    BY Zenon DEF Entry
  <2> DEFINE new == {Entry(x) : x \in {y \in blocks' : IsSend(y) /\ ~Received(y)'}}
  <2>5. pending' = new
    <3> HIDE DEF Entry
    <3>1. ASSUME NEW p \in pending' PROVE p \in new
      BY Zenon, <1>3, <2>1, <2>2, <2>3, <2>4, <3>1 DEF AddsBlock
    <3>2. ASSUME NEW p \in new PROVE p \in pending'
      BY Zenon, <1>3, <2>1, <2>2, <2>4, <3>2 DEF AddsBlock
    <3> QED
      BY Zenon, <3>1, <3>2
  <2> QED
    BY Zenon, <2>5 DEF PendingIsUnreceived, Entry, IsSend, BalanceBefore
<1>11. FrontiersAreLegacyHeads'
  <2> SUFFICES ASSUME NEW y \in Hash
               PROVE  frontiers'[y] = IF y \in blocks' /\ Type(y) \in Legacy /\ accounts'[Owner[y]].head = y
                                      THEN Owner[y] ELSE 0
    BY Zenon DEF FrontiersAreLegacyHeads
  <2>0. accounts \in [Account -> AccountInfo]
    BY Zenon DEF LedgerInv, TypeOK
  <2>1. accounts'[a].head = h /\ \A b \in Account \ {a} : accounts'[b] = accounts[b]
    BY Zenon, <1>1, <1>2, <2>0
  <2>2. frontiers'[y] = IF y = h THEN IF Type(h) \in Legacy THEN a ELSE 0
                        ELSE IF y = Previous(h) THEN 0 ELSE frontiers[y]
    BY Zenon DEF AddsBlock
  <2>3. CASE y = h
    BY Zenon, <1>3, <2>1, <2>2, <2>3
  <2>4. CASE y # h /\ y \in blocks /\ Owner[y] = a
    <3>1. Opened(a) /\ accounts[a].head = Previous(h)
      BY Zenon, <1>5, <1>6, <2>4
    <3>2. y # Previous(h) => frontiers[y] = 0
      BY Zenon, <2>4, <3>1 DEF LedgerInv, FrontiersAreLegacyHeads
    <3> QED
      BY Zenon, <2>1, <2>2, <2>4, <3>2
  <2>5. CASE y # h /\ y \in blocks /\ Owner[y] # a
    <3>1. y # Previous(h) /\ Owner[y] \in Account
      BY Zenon, <1>2, <2>5, NotZero DEF Valid, ExtendsChain, LedgerInv, Sound, ChainsLinked
    <3> QED
      BY <1>3, <2>1, <2>2, <2>5, <3>1 DEF LedgerInv, FrontiersAreLegacyHeads
  <2>6. CASE y # h /\ y \notin blocks
    BY Zenon, <1>3, <2>2, <2>6 DEF LedgerInv, FrontiersAreLegacyHeads
  <2> QED
    BY Zenon, <2>3, <2>4, <2>5, <2>6
<1>12. IndexIsRight'
  <2>1. \A y \in Hash : blocks_info'[y] \in {blocks_info[y], [account |-> Owner[y], balance |-> BalanceAt[y]]}
    BY DEF AddsBlock, LedgerInv, TypeOK
  <2> QED
    BY Zenon, <2>1 DEF LedgerInv, IndexIsRight
<1>13. CallsOnChain'
  BY Zenon DEF AddsBlock, LedgerInv, CallsOnChain
<1> QED
  <2>1. Sound(blocks)'
    BY Zenon, <1>4 DEF Sound, ChainsLinked, ReceivedOnce, Balanced
  <2> QED
    BY Zenon, <1>7, <1>8, <1>9, <1>10, <1>11, <1>12, <1>13, <2>1 DEF LedgerInv

LEMMA RemovesBlockInv ==
    ASSUME WellOrdered, LedgerInv, NEW h \in blocks \ {Genesis}, accounts[Owner[h]].head = h, ~Received(h),
           RemovesBlock(h)
    PROVE  LedgerInv'
<1> DEFINE a == Owner[h]
           p == Previous(h)
<1>1. PICK count \in Int :
          accounts' = [accounts EXCEPT ![a] =
              IF p = 0 THEN NoAccount
              ELSE [head |-> p, rep_block |-> RepBlockAt[p], open_block |-> accounts[a].open_block,
                    balance |-> BalanceAt[p], block_count |-> count]]
  BY Zenon DEF RemovesBlock
<1>2. a \in Account /\ blocks \subseteq Hash /\ h \in Hash /\ 0 \notin Hash /\ h # 0 /\ p # h
  BY Zenon, BlockFields, NotZero DEF LedgerInv, TypeOK, Sound, ChainsLinked
<1>3. p # 0 => p \in blocks /\ Owner[p] = a
  BY Zenon DEF LedgerInv, Sound, ChainsLinked
<1>4. \A x \in blocks : Previous(x) # h /\ Source(x) # h
  BY <1>2, HeadFacts DEF Received
<1>5. blocks' = blocks \ {h}
  BY Zenon DEF RemovesBlock
<1>6. Sound(blocks')
  <2>1. \A x \in blocks : h \notin Parents(x)
    BY Zenon, <1>4 DEF Parents
  <2> QED
    BY Zenon, <1>5, <2>1, RemoveSound DEF LedgerInv
<1>7. \A x \in blocks : Owner[x] = a /\ Previous(x) = p => x = h
  BY Zenon DEF LedgerInv, Sound, ChainsLinked
<1>8. p # 0 => \A x \in blocks' : Previous(x) # p
  BY Zenon, <1>2, <1>3, <1>5, <1>7 DEF LedgerInv, Sound, ChainsLinked
<1>9. accounts[a].open_block \in blocks /\ Owner[accounts[a].open_block] = a
      /\ Previous(accounts[a].open_block) = 0
  BY Zenon, <1>2, HeadFacts
<1>10. p = 0 => \A x \in blocks' : Owner[x] # a
  BY Zenon, <1>4, <1>5, FirstAlone DEF LedgerInv
<1>11. TypeOK'
  <2>1. accounts' \in [Account -> AccountInfo]
    <3>1. accounts \in [Account -> AccountInfo] /\ NoAccount \in AccountInfo
      BY DEF LedgerInv, TypeOK, NoAccount, AccountInfo
    <3>2. p # 0 => p \in Hash /\ RepBlockAt[p] \in Hash /\ BalanceAt[p] \in Int
      BY <1>2, <1>3, RepBlockAssumption, BalanceAssumption, BlocksAssumption
    <3>3. accounts[a].open_block \in Hash
      BY Zenon, <1>2, <1>9
    <3> QED
      BY Zenon, <1>1, <3>1, <3>2, <3>3 DEF AccountInfo
  <2>2. successor' \in [Hash -> Hash \cup {0}]
    BY Zenon DEF RemovesBlock, LedgerInv, TypeOK
  <2>3. frontiers' \in [Hash -> Account \cup {0}]
    BY Zenon, <1>2 DEF RemovesBlock, LedgerInv, TypeOK
  <2>4. Source(h) # 0 => Source(h) \in Hash
    BY Zenon, <1>2 DEF LedgerInv, Sound, ReceivedOnce
  <2>5. Source(h) # 0 => Entry(Source(h)) \in PendingEntry
    BY <2>4, BlockFields, AmountAssumption, BlocksAssumption DEF Entry, PendingEntry
  <2>6. pending' \subseteq PendingEntry
    BY Zenon, <2>5 DEF RemovesBlock, LedgerInv, TypeOK
  <2> QED
    BY Zenon, <1>2, <1>5, <2>1, <2>2, <2>3, <2>6 DEF TypeOK, RemovesBlock, LedgerInv
<1>12. AccountsAreChains'
  <2> SUFFICES ASSUME NEW b \in Account,
                      NEW chain, chain = {x \in blocks' : Owner[x] = b},
                      NEW info, info = accounts'[b]
               PROVE  IF chain = {} THEN info = NoAccount
                      ELSE /\ info.head \in chain
                           /\ \A y \in chain : y = info.head <=> \A x \in blocks' : Previous(x) # y
                           /\ info.open_block \in chain
                           /\ Previous(info.open_block) = 0
                           /\ info.balance = BalanceAt[info.head]
                           /\ info.rep_block = RepBlockAt[info.head]
    BY ZenonT(40) DEF AccountsAreChains, Chain
  <2>0. accounts \in [Account -> AccountInfo]
    BY Zenon DEF LedgerInv, TypeOK
  <2>1. CASE b = a /\ p = 0
    BY Zenon, <1>1, <1>2, <1>10, <2>0, <2>1
  <2>2. CASE b = a /\ p # 0
    <3>1. info = [head |-> p, rep_block |-> RepBlockAt[p], open_block |-> accounts[a].open_block,
                  balance |-> BalanceAt[p], block_count |-> count]
      BY Zenon, <1>1, <1>2, <2>0, <2>2
    <3>2. p \in chain
      BY Zenon, <1>2, <1>3, <1>5, <2>2
    <3>3. ASSUME NEW y \in chain PROVE y = p <=> \A x \in blocks' : Previous(x) # y
      <4>1. CASE y = p
        BY Zenon, <1>8, <2>2, <4>1
      <4>2. CASE y # p
        <5>1. PICK x \in blocks : Previous(x) = y
          BY <1>2, <1>5, <2>2, HeadFacts
        <5> QED
          BY Zenon, <1>5, <4>2, <5>1
      <4> QED
        BY Zenon, <4>1, <4>2
    <3>4. accounts[a].open_block \in chain
      BY Zenon, <1>5, <1>9, <2>2
    <3> QED
      BY <1>9, <3>1, <3>2, <3>3, <3>4
  <2>3. CASE b # a
    <3>1. info = accounts[b]
      BY Zenon, <1>1, <2>0, <2>3
    <3>2. chain = Chain(b)
      BY Zenon, <1>5, <2>3 DEF Chain
    <3>3. \A y \in chain : (\A x \in blocks' : Previous(x) # y) <=> (\A x \in blocks : Previous(x) # y)
      <4>1. \A y \in chain : p # y
        BY Zenon, <1>2, <1>3, <1>5, <2>3
      <4> QED
        BY Zenon, <1>5, <4>1
    <3>4. IF chain = {} THEN info = NoAccount
          ELSE /\ info.head \in chain
               /\ \A y \in chain : y = info.head <=> \A x \in blocks : Previous(x) # y
               /\ info.open_block \in chain
               /\ Previous(info.open_block) = 0
               /\ info.balance = BalanceAt[info.head]
               /\ info.rep_block = RepBlockAt[info.head]
      BY <3>1, <3>2 DEF LedgerInv, AccountsAreChains
    <3> QED
      BY Zenon, <3>3, <3>4
  <2> QED
    BY Zenon, <2>1, <2>2, <2>3
<1>13. SuccessorsMatch'
  <2>1. successor' = [x \in Hash |-> IF x = h \/ x = p THEN 0 ELSE successor[x]]
    BY Zenon DEF RemovesBlock
  <2> QED
    BY Zenon, <1>2, <1>4, <1>5, <1>8, <2>1 DEF SuccessorsMatch, LedgerInv
<1>14. PendingIsUnreceived'
  <2>1. pending = {Entry(x) : x \in {y \in blocks : IsSend(y) /\ ~Received(y)}}
    BY Zenon DEF LedgerInv, PendingIsUnreceived, Entry
  <2>2. \A y : y # 0 => (Received(y)' <=> Received(y) /\ Source(h) # y)
    BY Zenon, <1>5 DEF Received, LedgerInv, Sound, ReceivedOnce
  <2>3. Source(h) # 0 => Source(h) \in blocks /\ IsSend(Source(h)) /\ Source(h) # h
    BY Zenon, <1>2, BlockFields DEF LedgerInv, Sound, ReceivedOnce
  <2>4. \A y : Entry(y).hash = y
    BY Zenon DEF Entry
  <2> DEFINE new == {Entry(x) : x \in {y \in blocks' : IsSend(y) /\ ~Received(y)'}}
  <2>5. pending' = new
    <3> HIDE DEF Entry
    <3>1. ASSUME NEW q \in pending' PROVE q \in new
      BY <1>2, <1>5, <2>1, <2>2, <2>3, <2>4, <3>1 DEF RemovesBlock
    <3>2. ASSUME NEW q \in new PROVE q \in pending'
      BY <1>2, <1>5, <2>1, <2>2, <2>3, <2>4, <3>2 DEF RemovesBlock
    <3> QED
      BY Zenon, <3>1, <3>2
  <2> QED
    BY Zenon, <2>5 DEF PendingIsUnreceived, Entry, IsSend, BalanceBefore
<1>15. FrontiersAreLegacyHeads'
  <2> SUFFICES ASSUME NEW y \in Hash
               PROVE  frontiers'[y] = IF y \in blocks' /\ Type(y) \in Legacy /\ accounts'[Owner[y]].head = y
                                      THEN Owner[y] ELSE 0
    BY Zenon DEF FrontiersAreLegacyHeads
  <2>0. accounts \in [Account -> AccountInfo]
    BY Zenon DEF LedgerInv, TypeOK
  <2>1. accounts'[a].head = p /\ \A b \in Account \ {a} : accounts'[b] = accounts[b]
    BY Zenon, <1>1, <1>2, <2>0 DEF NoAccount
  <2>2. frontiers'[y] = IF y = h THEN 0
                        ELSE IF y = p THEN IF Type(y) \in Legacy THEN a ELSE 0
                        ELSE frontiers[y]
    BY Zenon DEF RemovesBlock
  <2>3. CASE y = h \/ y = p
    BY Zenon, <1>2, <1>3, <1>5, <2>1, <2>2, <2>3
  <2>4. CASE y # h /\ y # p /\ y \in blocks /\ Owner[y] = a
    <3>1. frontiers[y] = 0
      BY Zenon, <2>4 DEF LedgerInv, FrontiersAreLegacyHeads
    <3> QED
      BY Zenon, <2>1, <2>2, <2>4, <3>1
  <2>5. CASE y # h /\ y # p /\ y \in blocks /\ Owner[y] # a
    <3>1. Owner[y] \in Account
      BY Zenon, <2>5 DEF LedgerInv, Sound, ChainsLinked
    <3> QED
      BY <1>5, <2>1, <2>2, <2>5, <3>1 DEF LedgerInv, FrontiersAreLegacyHeads
  <2>6. CASE y # h /\ y # p /\ y \notin blocks
    BY Zenon, <1>5, <2>2, <2>6 DEF LedgerInv, FrontiersAreLegacyHeads
  <2> QED
    BY Zenon, <2>3, <2>4, <2>5, <2>6
<1>16. IndexIsRight'
  BY Zenon DEF RemovesBlock, LedgerInv, IndexIsRight
<1>17. CallsOnChain'
  BY Zenon DEF RemovesBlock, LedgerInv, CallsOnChain
<1> QED
  <2>1. Sound(blocks)'
    BY Zenon, <1>6 DEF Sound, ChainsLinked, ReceivedOnce, Balanced
  <2> QED
    BY Zenon, <1>11, <1>12, <1>13, <1>14, <1>15, <1>16, <1>17, <2>1 DEF LedgerInv

-----------------------------------------------------------------------------
(* What the helpers of process and rollback write. *)

LEMMA ChangeLatestChecksum ==
    ASSUME LedgerInv, NEW a \in Account, NEW h \in Hash \cup {0}, NEW r, NEW b, NEW n,
           ChangeLatest(a, h, r, b, n)
    PROVE  checksum' \subseteq Hash
<1>1. checksum \subseteq Hash /\ (Opened(a) => accounts[a].head \in Hash)
  BY Zenon, HeadFacts DEF LedgerInv, TypeOK, Opened
<1> QED
  BY Zenon, <1>1 DEF ChangeLatest, Toggle

-----------------------------------------------------------------------------
(* Processing. *)

LEMMA LegacyAdds ==
    ASSUME LedgerInv, NEW h \in Hash \ blocks, Valid(blocks, h), Type(h) \in Legacy,
           NEW count \in Int,
           BlockPut(h),
           ChangeLatest(Owner[h], h, RepBlockAt[h], BalanceAt[h], count),
           blocks_info' = BlockInfoPut(Owner[h], h, BalanceAt[h], count),
           frontiers' = FrontiersOver(h),
           pending' = {p \in pending : p.hash # Source(h)}
                          \cup (IF IsSend(h) THEN {Entry(h)} ELSE {}),
           representation' \in Weights,
           UNCHANGED rollbacks
    PROVE  AddsBlock(h)
<1>1. Owner[h] \in Account /\ h # 0
  BY Zenon, BlockFields DEF Valid
<1>2. checksum' \subseteq Hash
  BY Zenon, <1>1, ChangeLatestChecksum
<1>3. accounts' = [accounts EXCEPT ![Owner[h]] =
                   [head |-> h, rep_block |-> RepBlockAt[h],
                    open_block |-> IF Opened(Owner[h]) THEN accounts[Owner[h]].open_block ELSE h,
                    balance |-> BalanceAt[h], block_count |-> count]]
  BY Zenon, <1>1 DEF ChangeLatest
<1>4. blocks_info' \in {blocks_info, [blocks_info EXCEPT ![h] = [account |-> Owner[h], balance |-> BalanceAt[h]]]}
  BY Zenon DEF BlockInfoPut
<1> QED
  BY Zenon, <1>2, <1>3, <1>4 DEF AddsBlock, BlockPut, Weights, FrontiersOver

LEMMA ProcessChangeAdds ==
    ASSUME WellOrdered, LedgerInv, NEW h \in Hash, ProcessChange(h)
    PROVE  h \notin blocks /\ Valid(blocks, h) /\ AddsBlock(h)
<1> DEFINE a == Owner[h]
<1>1. Type(h) = "change" /\ Result(h) = "progress"
  BY Zenon DEF ProcessChange, Accepted
<1>2. h \notin blocks /\ Valid(blocks, h)
  BY Zenon, <1>1, ChangeProgress
<1>3. /\ frontiers[Previous(h)] = a /\ Previous(h) \in Hash
      /\ accounts[a].balance = BalanceBefore(h) /\ accounts[a].block_count + 1 \in Int
      /\ FrontierMove(Previous(h), h, a) = FrontiersOver(h)
  BY Zenon, <1>1, LegacyBelow
<1>4. RepBlockAt[h] = h /\ BalanceAt[h] = BalanceBefore(h)
  BY Zenon, <1>1, RepBlockAssumption, BalanceAssumption
<1>5. pending' = {p \in pending : p.hash # Source(h)} \cup (IF IsSend(h) THEN {Entry(h)} ELSE {})
  <2>1. Source(h) = 0 /\ ~IsSend(h)
    BY Zenon, <1>1 DEF Source, IsSend
  <2>2. 0 \notin blocks
    BY Zenon, NotZero DEF LedgerInv, TypeOK
  <2> QED
    BY Zenon, <2>1, <2>2, PendingDelIs DEF ProcessChange
<1>6. representation' \in Weights
  <2>1. BalanceOf(Previous(h)) \in Int /\ -BalanceOf(Previous(h)) \in Int
    BY <1>3, VisitIs, BalanceAssumption, BlocksAssumption DEF LedgerInv
  <2>2. representation \in Weights
    BY Zenon DEF LedgerInv, TypeOK, Weights
  <2> QED
    BY Zenon, <1>3, <2>1, <2>2, RepresentationAddType DEF ProcessChange
<1>7. Type(h) \in Legacy
  BY Zenon, <1>1 DEF Legacy
<1>8. /\ BlockPut(h) /\ ChangeLatest(a, h, h, accounts[a].balance, accounts[a].block_count + 1)
      /\ blocks_info' = BlockInfoPut(a, h, accounts[a].balance, accounts[a].block_count + 1)
      /\ frontiers' = FrontierMove(Previous(h), h, a)
      /\ UNCHANGED rollbacks
  BY Zenon, <1>3 DEF ProcessChange
<1> QED
  BY Zenon, <1>2, <1>3, <1>4, <1>5, <1>6, <1>7, <1>8, LegacyAdds

LEMMA ProcessSendAdds ==
    ASSUME LedgerInv, NEW h \in Hash, ProcessSend(h)
    PROVE  h \notin blocks /\ Valid(blocks, h) /\ AddsBlock(h)
<1> DEFINE a == Owner[h]
<1>1. Type(h) = "send" /\ Result(h) = "progress"
  BY Zenon DEF ProcessSend, Accepted
<1>2. h \notin blocks /\ Valid(blocks, h)
  BY Zenon, <1>1, SendProgress
<1>3. /\ frontiers[Previous(h)] = a /\ Previous(h) \in Hash
      /\ accounts[a].balance = BalanceBefore(h) /\ accounts[a].block_count + 1 \in Int
      /\ accounts[a].rep_block = RepBlockAt[Previous(h)]
      /\ accounts[a].balance \in 0 .. GenesisAmount
      /\ FrontierMove(Previous(h), h, a) = FrontiersOver(h)
  BY Zenon, <1>1, LegacyBelow
<1>4. RepBlockAt[h] = RepBlockAt[Previous(h)] /\ BalanceAt[h] = Balance(h)
  BY Zenon, <1>1, RepBlockAssumption, BalanceAssumption
<1>5. accounts[a].balance - Balance(h) = AmountAt[h] /\ AmountAt[h] \in Int /\ -AmountAt[h] \in Int
  <2>1. Balance(h) <= BalanceBefore(h)
    BY Zenon, <1>1, <1>2 DEF Valid, Balanced
  <2>2. Balance(h) \in Int /\ BalanceBefore(h) \in Int
    BY <1>3, BlockFields, BlocksAssumption
  <2>3. AmountAt[h] = IF Balance(h) < BalanceBefore(h) THEN BalanceBefore(h) - Balance(h)
                      ELSE Balance(h) - BalanceBefore(h)
    BY Zenon, <1>1, AmountAssumption
  <2> QED
    BY <1>3, <2>1, <2>2, <2>3
<1>6. pending' = {p \in pending : p.hash # Source(h)} \cup (IF IsSend(h) THEN {Entry(h)} ELSE {})
  <2>1. Source(h) = 0 /\ IsSend(h)
    BY Zenon, <1>1 DEF Source, IsSend
  <2>2. 0 \notin blocks
    BY Zenon, NotZero DEF LedgerInv, TypeOK
  <2>3. pending' = PendingPut(Link(h), h, a, AmountAt[h])
    BY Zenon, <1>3, <1>5 DEF ProcessSend
  <2> QED
    BY Zenon, <1>2, <2>1, <2>2, <2>3, PendingDelIs, PendingPutIs
<1>7. representation' \in Weights
  <2>1. representation \in Weights
    BY Zenon DEF LedgerInv, TypeOK, Weights
  <2> QED
    BY Zenon, <1>3, <1>5, <2>1, RepresentationAddType DEF ProcessSend
<1>8. Type(h) \in Legacy
  BY Zenon, <1>1 DEF Legacy
<1>9. /\ BlockPut(h)
      /\ ChangeLatest(a, h, accounts[a].rep_block, Balance(h), accounts[a].block_count + 1)
      /\ blocks_info' = BlockInfoPut(a, h, Balance(h), accounts[a].block_count + 1)
      /\ frontiers' = FrontierMove(Previous(h), h, a)
      /\ UNCHANGED rollbacks
  BY Zenon, <1>3 DEF ProcessSend
<1> QED
  BY Zenon, <1>2, <1>3, <1>4, <1>6, <1>7, <1>8, <1>9, LegacyAdds

LEMMA ProcessReceiveAdds ==
    ASSUME LedgerInv, NEW h \in Hash, ProcessReceive(h)
    PROVE  h \notin blocks /\ Valid(blocks, h) /\ AddsBlock(h)
<1> DEFINE a == Owner[h]
           s == Link(h)
<1>1. Type(h) = "receive" /\ Result(h) = "progress"
  BY Zenon DEF ProcessReceive, Accepted
<1>2. h \notin blocks /\ Valid(blocks, h)
  BY Zenon, <1>1, ReceiveProgress
<1>3. /\ frontiers[Previous(h)] = a /\ Previous(h) \in Hash
      /\ accounts[a].balance = BalanceBefore(h) /\ accounts[a].block_count + 1 \in Int
      /\ accounts[a].rep_block = RepBlockAt[Previous(h)]
      /\ FrontierMove(Previous(h), h, a) = FrontiersOver(h)
  BY Zenon, <1>1, LegacyBelow
<1>4. PendingExists(a, s)
  BY Zenon, <1>1, <1>3 DEF Result, ReceiveResult
<1>5. s \in Hash /\ Link(s) = a /\ PendingGet(a, s).amount = AmountAt[s] /\ AmountAt[s] \in Int
  BY <1>4, PendingFacts, AmountAssumption, BlocksAssumption DEF LedgerInv, TypeOK, Entry
<1>6. RepBlockAt[h] = RepBlockAt[Previous(h)] /\ BalanceAt[h] = Wrap(accounts[a].balance + AmountAt[s])
  BY Zenon, <1>1, <1>3, <1>5, RepBlockAssumption, BalanceAssumption DEF AmountOfLink
<1>7. pending' = {p \in pending : p.hash # Source(h)} \cup (IF IsSend(h) THEN {Entry(h)} ELSE {})
  <2>1. Source(h) = s /\ ~IsSend(h)
    BY Zenon, <1>1 DEF Source, IsSend
  <2>2. pending' = PendingDel(Link(s), s)
    BY Zenon, <1>3, <1>5 DEF ProcessReceive
  <2> QED
    BY Zenon, <2>1, <2>2, PendingDelIs
<1>8. representation' \in Weights
  <2>1. representation \in Weights
    BY Zenon DEF LedgerInv, TypeOK, Weights
  <2> QED
    BY Zenon, <1>3, <1>5, <2>1, RepresentationAddType DEF ProcessReceive
<1>9. Type(h) \in Legacy
  BY Zenon, <1>1 DEF Legacy
<1>10. /\ BlockPut(h)
       /\ ChangeLatest(a, h, accounts[a].rep_block, BalanceAt[h], accounts[a].block_count + 1)
       /\ blocks_info' = BlockInfoPut(a, h, BalanceAt[h], accounts[a].block_count + 1)
       /\ frontiers' = FrontierMove(Previous(h), h, a)
       /\ UNCHANGED rollbacks
  BY ZenonT(40), <1>3, <1>5, <1>6 DEF ProcessReceive
<1> QED
  BY Zenon, <1>2, <1>3, <1>6, <1>7, <1>8, <1>9, <1>10, LegacyAdds

LEMMA ProcessOpenAdds ==
    ASSUME LedgerInv, NEW h \in Hash, ProcessOpen(h)
    PROVE  h \notin blocks /\ Valid(blocks, h) /\ AddsBlock(h)
<1> DEFINE a == Owner[h]
           s == Link(h)
<1>1. Type(h) = "open" /\ Result(h) = "progress"
  BY Zenon DEF ProcessOpen, Accepted
<1>2. h \notin blocks /\ Valid(blocks, h)
  BY Zenon, <1>1, OpenProgress
<1>3. a = Content[h].account /\ a \in Account /\ Previous(h) = 0
  BY Zenon, <1>1, <1>2, OwnerAssumption, ReferenceAssumption, BlockFields DEF Valid
<1>4. PendingExists(a, s)
  BY Zenon, <1>1, <1>3 DEF Result, OpenResult
<1>5. s \in Hash /\ Link(s) = a /\ PendingGet(a, s).amount = AmountAt[s] /\ AmountAt[s] \in Int
  BY <1>4, PendingFacts, AmountAssumption, BlocksAssumption DEF LedgerInv, TypeOK, Entry
<1>6. RepBlockAt[h] = h /\ BalanceAt[h] = AmountAt[s]
  BY Zenon, <1>1, <1>5, RepBlockAssumption, BalanceAssumption DEF AmountOfLink
<1>7. pending' = {p \in pending : p.hash # Source(h)} \cup (IF IsSend(h) THEN {Entry(h)} ELSE {})
  <2>1. Source(h) = s /\ ~IsSend(h)
    BY Zenon, <1>1 DEF Source, IsSend
  <2>2. pending' = PendingDel(Link(s), s)
    BY Zenon, <1>3, <1>5 DEF ProcessOpen
  <2> QED
    BY Zenon, <2>1, <2>2, PendingDelIs
<1>8. representation' \in Weights
  <2>1. representation \in Weights
    BY Zenon DEF LedgerInv, TypeOK, Weights
  <2> QED
    BY Zenon, <1>3, <1>5, <2>1, RepresentationAddType DEF ProcessOpen
<1>9. frontiers' = FrontiersOver(h)
  <2>1. frontiers \in [Hash -> Account \cup {0}] /\ frontiers' = [frontiers EXCEPT ![h] = a]
    BY Zenon, <1>3 DEF LedgerInv, TypeOK, ProcessOpen
  <2> QED
    BY Zenon, <1>3, <2>1, NotZero DEF FrontiersOver
<1>10. accounts[a].block_count + 1 \in Int
  BY <1>3 DEF LedgerInv, TypeOK, AccountInfo
<1>11. Type(h) \in Legacy
  BY Zenon, <1>1 DEF Legacy
<1>12. /\ BlockPut(h) /\ ChangeLatest(a, h, h, BalanceAt[h], accounts[a].block_count + 1)
       /\ blocks_info' = BlockInfoPut(a, h, BalanceAt[h], accounts[a].block_count + 1)
       /\ UNCHANGED rollbacks
  BY Zenon, <1>3, <1>5, <1>6 DEF ProcessOpen
<1> QED
  BY Zenon, <1>2, <1>6, <1>7, <1>8, <1>9, <1>10, <1>11, <1>12, LegacyAdds

LEMMA ProcessStateAdds ==
    ASSUME LedgerInv, NEW h \in Hash, ProcessState(h)
    PROVE  h \notin blocks /\ Valid(blocks, h) /\ AddsBlock(h)
<1> DEFINE a == Owner[h]
<1>1. Type(h) = "state" /\ Result(h) = "progress"
  BY Zenon DEF ProcessState, Accepted
<1>2. h \notin blocks /\ Valid(blocks, h)
  BY Zenon, <1>1, StateProgress
<1>3. /\ a = Content[h].account /\ a \in Account
      /\ accounts[a].head = Previous(h) /\ accounts[a].balance = BalanceBefore(h)
      /\ IsSend(h) <=> Opened(a) /\ Balance(h) < accounts[a].balance
  BY Zenon, <1>1, StatePosition
<1>4. RepBlockAt[h] = h /\ BalanceAt[h] = Balance(h) /\ Balance(h) \in Int /\ h # 0
  BY <1>1, RepBlockAssumption, BalanceAssumption, BlockFields, BlocksAssumption
<1>5. accounts[a] \in AccountInfo
  BY Zenon, <1>3 DEF LedgerInv, TypeOK
<1>6. pending' = {p \in pending : p.hash # Source(h)} \cup (IF IsSend(h) THEN {Entry(h)} ELSE {})
  <2>1. 0 \notin blocks
    BY Zenon, NotZero DEF LedgerInv, TypeOK
  <2>2. CASE IsSend(h)
    <3>1. Source(h) = 0
      BY Zenon, <1>1, <2>2 DEF Source
    <3>2. accounts[a].balance - Balance(h) = AmountAt[h]
      BY Zenon, <1>1, <1>3, <2>2, AmountAssumption
    <3>3. pending' = PendingPut(Link(h), h, a, AmountAt[h])
      BY Zenon, <1>3, <2>2, <3>2 DEF ProcessState
    <3> QED
      BY Zenon, <1>2, <2>1, <2>2, <3>1, <3>3, PendingDelIs, PendingPutIs
  <2>3. CASE ~IsSend(h) /\ Link(h) = 0
    BY Zenon, <1>1, <1>3, <2>1, <2>3, PendingDelIs DEF ProcessState, Source
  <2>4. CASE ~IsSend(h) /\ Link(h) # 0
    <3>1. Source(h) = Link(h) /\ Link(Source(h)) = a
      BY Zenon, <1>1, <1>2, <2>4 DEF Source, Valid, ReceivesSend
    <3>2. pending' = PendingDel(a, Link(h))
      BY Zenon, <1>3, <2>4 DEF ProcessState
    <3> QED
      BY Zenon, <2>4, <3>1, <3>2, PendingDelIs
  <2> QED
    BY Zenon, <2>2, <2>3, <2>4
<1>7. representation' \in Weights
  <2>1. representation \in Weights
    BY Zenon DEF LedgerInv, TypeOK, Weights
  <2>2. -accounts[a].balance \in Int
    BY <1>5 DEF AccountInfo
  <2>3. WeightWithout(a) \in Weights
    BY Zenon, <2>1, <2>2, RepresentationAddType DEF WeightWithout
  <2> QED
    BY Zenon, <1>3, <1>4, <2>3, RepresentationAddType DEF ProcessState
<1>8. frontiers' = [x \in Hash |-> IF x = h THEN IF Type(h) \in Legacy THEN a ELSE 0
                                   ELSE IF x = Previous(h) THEN 0 ELSE frontiers[x]]
  <2>1. Type(h) \notin Legacy
    BY Zenon, <1>1 DEF Legacy
  <2>2. frontiers[h] = 0
    BY Zenon, <1>2 DEF LedgerInv, FrontiersAreLegacyHeads
  <2> QED
    BY Zenon, <1>3, <2>1, <2>2 DEF ProcessState, FrontierDel
<1>9. ChangeLatest(a, h, h, Balance(h), accounts[a].block_count + 1)
  BY Zenon, <1>3 DEF ProcessState
<1>10. checksum' \subseteq Hash
  BY Zenon, <1>3, <1>9, ChangeLatestChecksum
<1>11. accounts' = [accounts EXCEPT ![a] =
                   [head |-> h, rep_block |-> RepBlockAt[h],
                    open_block |-> IF Opened(a) THEN accounts[a].open_block ELSE h,
                    balance |-> BalanceAt[h], block_count |-> accounts[a].block_count + 1]]
  BY Zenon, <1>4, <1>9 DEF ChangeLatest
<1>12. accounts[a].block_count + 1 \in Int
  BY <1>5 DEF AccountInfo
<1>13. BlockPut(h) /\ UNCHANGED <<blocks_info, rollbacks>>
  BY Zenon DEF ProcessState
<1> QED
  BY Zenon, <1>2, <1>6, <1>7, <1>8, <1>10, <1>11, <1>12, <1>13 DEF AddsBlock, BlockPut, Weights

LEMMA ProcessAdds ==
    ASSUME WellOrdered, LedgerInv, Process
    PROVE  \E h \in Hash : h \notin blocks /\ Valid(blocks, h) /\ AddsBlock(h)
  BY Zenon, ProcessStateAdds, ProcessChangeAdds, ProcessSendAdds, ProcessReceiveAdds,
     ProcessOpenAdds
  DEF Process

-----------------------------------------------------------------------------
(* Rolling back. *)

LEMMA BlockDelIs ==
    ASSUME LedgerInv, NEW h \in blocks, accounts[Owner[h]].head = h, BlockDel(h)
    PROVE  /\ blocks' = blocks \ {h}
           /\ successor' = [x \in Hash |-> IF x = h \/ x = Previous(h) THEN 0 ELSE successor[x]]
<1> DEFINE p == Previous(h)
<1>1. h \in Hash /\ successor \in [Hash -> Hash \cup {0}] /\ 0 \notin Hash
  BY Zenon, NotZero DEF LedgerInv, TypeOK
<1>2. CASE p = 0
  BY Zenon, <1>1, <1>2 DEF BlockDel
<1>3. CASE p # 0
  <2>1. p \in blocks /\ p \in Hash
    BY Zenon, <1>3 DEF LedgerInv, TypeOK, Sound, ChainsLinked
  <2>2. ASSUME NEW x \in Hash, x = Previous(p) PROVE successor[x] = p
    <3>1. successor[x] # 0 /\ successor[x] \in blocks /\ Previous(successor[x]) = x
      BY Zenon, <2>1, <2>2 DEF LedgerInv, SuccessorsMatch
    <3>2. Owner[successor[x]] = Owner[x] /\ Owner[p] = Owner[x]
      BY Zenon, <1>1, <2>1, <2>2, <3>1 DEF LedgerInv, Sound, ChainsLinked
    <3> QED
      BY Zenon, <2>1, <2>2, <3>1, <3>2 DEF LedgerInv, Sound, ChainsLinked
  <2>3. successor' = [WithBlock(successor, p) EXCEPT ![h] = 0]
    BY Zenon, <1>3 DEF BlockDel
  <2> QED
    BY Zenon, <1>1, <2>1, <2>2, <2>3 DEF BlockDel, WithBlock
<1> QED
  BY Zenon, <1>2, <1>3

LEMMA LegacyRemoves ==
    ASSUME LedgerInv, NEW h \in blocks \ {Genesis}, accounts[Owner[h]].head = h,
           Type(h) \in {"send", "receive", "change"},
           NEW count \in Int,
           ChangeLatest(Owner[h], Previous(h), RepBlockAt[Previous(h)], BalanceAt[Previous(h)], count - 1),
           BlockDel(h),
           frontiers' = FrontierMove(h, Previous(h), Owner[h]),
           blocks_info' = BlockInfoUndo(Owner[h], h, BalanceAt[Previous(h)], count),
           pending' = {p \in pending : p.hash # h}
                          \cup (IF Source(h) # 0 THEN {Entry(Source(h))} ELSE {}),
           representation' \in Weights,
           UNCHANGED rollbacks
    PROVE  RemovesBlock(h)
<1> DEFINE a == Owner[h]
           p == Previous(h)
<1>1. h \in Hash /\ a \in Account /\ p # 0 /\ p # h
  BY Zenon, ReferenceAssumption, BlockFields DEF LedgerInv, TypeOK, Sound, ChainsLinked
<1>2. p \in Hash /\ Owner[p] = a /\ Type(p) \in Legacy
  BY Zenon, <1>1 DEF LedgerInv, TypeOK, Sound, ChainsLinked, Legacy
<1>3. Opened(a)
  BY Zenon, <1>1, NotZero DEF Opened
<1>4. accounts' = [accounts EXCEPT ![a] =
                   IF p = 0 THEN NoAccount
                   ELSE [head |-> p, rep_block |-> RepBlockAt[p], open_block |-> accounts[a].open_block,
                         balance |-> BalanceAt[p], block_count |-> count - 1]]
  BY Zenon, <1>1, <1>3 DEF ChangeLatest
<1>5. checksum' \subseteq Hash
  BY Zenon, <1>1, <1>2, ChangeLatestChecksum
<1>6. frontiers' = [x \in Hash |->
                      IF x = h THEN 0
                      ELSE IF x = p THEN IF Type(x) \in Legacy THEN a ELSE 0
                      ELSE frontiers[x]]
  <2>1. frontiers \in [Hash -> Account \cup {0}]
    BY Zenon DEF LedgerInv, TypeOK
  <2> QED
    BY ZenonT(40), <1>1, <1>2, <2>1 DEF FrontierMove
<1>7. /\ blocks_info' \in [Hash -> BlockInfo]
      /\ \A x \in Hash :
             \/ blocks_info'[x] = blocks_info[x]
             \/ blocks_info'[x].account = 0
             \/ blocks_info'[x] = [account |-> Owner[x], balance |-> BalanceAt[x]]
  <2>1. blocks_info \in [Hash -> BlockInfo]
    BY Zenon DEF LedgerInv, TypeOK
  <2> DEFINE e == [account |-> a, balance |-> BalanceAt[p]]
             put == BlockInfoPut(a, p, BalanceAt[p], count - 1)
  <2>2. e \in BlockInfo /\ NoBlockInfo \in BlockInfo /\ NoBlockInfo.account = 0
    BY <1>1, <1>2, BalanceAssumption, BlocksAssumption DEF BlockInfo, NoBlockInfo
  <2>3. e = [account |-> Owner[p], balance |-> BalanceAt[p]]
    BY Zenon, <1>2
  <2> HIDE DEF e
  <2>4. put \in {blocks_info, [blocks_info EXCEPT ![p] = e]}
    BY Zenon DEF BlockInfoPut, e
  <2>5. put \in [Hash -> BlockInfo] /\ \A x \in Hash : put[x] = blocks_info[x] \/ (x = p /\ put[x] = e)
    <3> HIDE DEF put
    <3> QED
      BY Zenon, <2>1, <2>2, <2>4
  <2>6. blocks_info' = [put EXCEPT ![h] = IF count % BlockInfoMax = 0 THEN NoBlockInfo ELSE @]
    BY Zenon DEF BlockInfoUndo
  <2> HIDE DEF put
  <2>7. blocks_info' \in [Hash -> BlockInfo] /\ \A x \in Hash : blocks_info'[x] \in {put[x], NoBlockInfo}
    BY Zenon, <1>1, <2>2, <2>5, <2>6
  <2> QED
    BY Zenon, <2>2, <2>3, <2>5, <2>7
<1>8. count - 1 \in Int
  OBVIOUS
<1> QED
  BY ZenonT(40), <1>4, <1>5, <1>6, <1>7, <1>8, BlockDelIs DEF RemovesBlock, Weights

LEMMA RollbackSendRemoves ==
    ASSUME WellOrdered, LedgerInv, NEW h \in Hash, RollbackSend(h)
    PROVE  h \in blocks \ {Genesis} /\ accounts[Owner[h]].head = h /\ ~Received(h) /\ RemovesBlock(h)
<1> DEFINE a == Owner[h]
           p == Previous(h)
<1>1. /\ h \in blocks \ {Genesis} /\ Type(h) = "send" /\ accounts[a].head = h
      /\ accounts[a].rep_block = RepBlockAt[h] /\ accounts[a].block_count \in Int
  BY Zenon, VisitingFacts DEF RollbackSend
<1>2. PendingExists(Link(h), h)
  BY Zenon DEF RollbackSend
<1>3. ~Received(h) /\ PendingGet(Link(h), h).source = a /\ PendingGet(Link(h), h).amount = AmountAt[h]
  BY <1>2, PendingFacts DEF Entry
<1>4. RepBlockAt[h] = RepBlockAt[p] /\ p # 0 /\ Source(h) = 0
  BY Zenon, <1>1, RepBlockAssumption, ReferenceAssumption DEF Source
<1>5. BalanceOf(p) = BalanceAt[p]
  BY Zenon, <1>4, VisitIs DEF LedgerInv, BalanceBefore
<1>6. representation' \in Weights
  <2>1. AmountAt[h] \in Int /\ representation \in Weights
    BY AmountAssumption, BlocksAssumption DEF LedgerInv, TypeOK, Weights
  <2> QED
    BY Zenon, <1>3, <2>1, RepresentationAddType DEF RollbackSend
<1>7. pending' = {q \in pending : q.hash # h} \cup (IF Source(h) # 0 THEN {Entry(Source(h))} ELSE {})
  BY Zenon, <1>4, PendingDelIs DEF RollbackSend
<1>8. /\ ChangeLatest(a, p, RepBlockAt[p], BalanceAt[p], accounts[a].block_count - 1)
      /\ BlockDel(h) /\ frontiers' = FrontierMove(h, p, a)
      /\ blocks_info' = BlockInfoUndo(a, h, BalanceAt[p], accounts[a].block_count)
      /\ UNCHANGED rollbacks
  BY Zenon, <1>1, <1>3, <1>4, <1>5 DEF RollbackSend
<1> QED
  BY Zenon, <1>1, <1>3, <1>6, <1>7, <1>8, LegacyRemoves

LEMMA RollbackReceiveRemoves ==
    ASSUME WellOrdered, LedgerInv, NEW h \in Hash, RollbackReceive(h)
    PROVE  h \in blocks \ {Genesis} /\ accounts[Owner[h]].head = h /\ ~Received(h) /\ RemovesBlock(h)
<1> DEFINE a == Owner[h]
           p == Previous(h)
<1>1. /\ h \in blocks \ {Genesis} /\ Type(h) = "receive" /\ accounts[a].head = h
      /\ accounts[a].block_count \in Int
  BY Zenon, VisitingFacts DEF RollbackReceive
<1>2. ~IsSend(h) /\ Source(h) = Link(h) /\ p \in Hash /\ Source(h) # 0
  BY Zenon, <1>1, ReferenceAssumption, BlockFields DEF IsSend, Source
<1>3. ~Received(h)
  BY Zenon, <1>1, <1>2, NotReceived
<1>4. /\ Link(h) \in Hash /\ AccountOf(Link(h)) = Owner[Link(h)]
      /\ AmountOf(Link(h)) = AmountAt[Link(h)] /\ -AmountAt[Link(h)] \in Int
      /\ AccountOf(h) = a
  BY <1>1, <1>2, SourceFacts, AccountOfIs, VisitIs, BlocksAssumption DEF LedgerInv
<1>5. BalanceOf(p) = BalanceAt[p] /\ RepresentativeOf[p] = RepBlockAt[p]
  BY Zenon, <1>2, VisitIs, RepresentativeOfIs DEF LedgerInv
<1>6. representation' \in Weights
  <2>1. representation \in Weights
    BY Zenon DEF LedgerInv, TypeOK, Weights
  <2> QED
    BY Zenon, <1>4, <2>1, RepresentationAddType DEF RollbackReceive
<1>7. pending' = {q \in pending : q.hash # h} \cup (IF Source(h) # 0 THEN {Entry(Source(h))} ELSE {})
  <2>1. pending' = PendingPut(a, Source(h), Owner[Source(h)], AmountAt[Source(h)])
    BY ZenonT(40), <1>2, <1>4 DEF RollbackReceive
  <2> QED
    BY Zenon, <1>1, <1>2, <2>1, SourceFacts
<1>8. /\ ChangeLatest(a, p, RepBlockAt[p], BalanceAt[p], accounts[a].block_count - 1)
      /\ BlockDel(h) /\ frontiers' = FrontierMove(h, p, a)
      /\ blocks_info' = BlockInfoUndo(a, h, BalanceAt[p], accounts[a].block_count)
      /\ UNCHANGED rollbacks
  BY Zenon, <1>4, <1>5 DEF RollbackReceive
<1> QED
  BY Zenon, <1>1, <1>3, <1>6, <1>7, <1>8, LegacyRemoves

LEMMA RollbackChangeRemoves ==
    ASSUME WellOrdered, LedgerInv, NEW h \in Hash, RollbackChange(h)
    PROVE  h \in blocks \ {Genesis} /\ accounts[Owner[h]].head = h /\ ~Received(h) /\ RemovesBlock(h)
<1> DEFINE a == Owner[h]
           p == Previous(h)
<1>1. /\ h \in blocks \ {Genesis} /\ Type(h) = "change" /\ accounts[a].head = h
      /\ accounts[a].balance = BalanceAt[h] /\ accounts[a].block_count \in Int
  BY Zenon, VisitingFacts DEF RollbackChange
<1>2. ~IsSend(h) /\ Source(h) = 0 /\ p \in Hash /\ p # 0
  BY Zenon, <1>1, ReferenceAssumption, BlockFields DEF IsSend, Source
<1>3. ~Received(h)
  BY Zenon, <1>1, <1>2, NotReceived
<1>4. BalanceOf(p) = BalanceAt[p] /\ RepresentativeOf[p] = RepBlockAt[p] /\ AccountOf(p) = a
      /\ BalanceAt[p] \in Int /\ -BalanceAt[p] \in Int
  BY <1>1, <1>2, VisitIs, RepresentativeOfIs, AccountOfIs, BalanceAssumption, BlocksAssumption
  DEF LedgerInv, Sound, ChainsLinked
<1>5. BalanceAt[h] = BalanceAt[p]
  BY Zenon, <1>1, <1>2, BalanceAssumption DEF BalanceBefore
<1>6. representation' \in Weights
  <2>1. representation \in Weights
    BY Zenon DEF LedgerInv, TypeOK, Weights
  <2> QED
    BY Zenon, <1>4, <2>1, RepresentationAddType DEF RollbackChange
<1>7. pending' = {q \in pending : q.hash # h} \cup (IF Source(h) # 0 THEN {Entry(Source(h))} ELSE {})
  BY Zenon, <1>2, PendingDelIs DEF RollbackChange
<1>8. /\ ChangeLatest(a, p, RepBlockAt[p], BalanceAt[p], accounts[a].block_count - 1)
      /\ BlockDel(h) /\ frontiers' = FrontierMove(h, p, a)
      /\ blocks_info' = BlockInfoUndo(a, h, BalanceAt[p], accounts[a].block_count)
      /\ UNCHANGED rollbacks
  BY Zenon, <1>1, <1>4, <1>5 DEF RollbackChange
<1> QED
  BY ZenonT(40), <1>1, <1>3, <1>6, <1>7, <1>8, LegacyRemoves

LEMMA RollbackOpenRemoves ==
    ASSUME WellOrdered, LedgerInv, NEW h \in Hash, RollbackOpen(h)
    PROVE  h \in blocks \ {Genesis} /\ accounts[Owner[h]].head = h /\ ~Received(h) /\ RemovesBlock(h)
<1> DEFINE a == Owner[h]
<1>1. h \in blocks \ {Genesis} /\ Type(h) = "open" /\ accounts[a].head = h /\ a \in Account
  BY Zenon, VisitingFacts DEF RollbackOpen
<1>2. ~IsSend(h) /\ Source(h) = Link(h) /\ Previous(h) = 0 /\ Source(h) # 0
  BY Zenon, <1>1, ReferenceAssumption DEF IsSend, Source
<1>3. ~Received(h)
  BY Zenon, <1>1, <1>2, NotReceived
<1>4. /\ Link(h) \in Hash /\ AccountOf(Link(h)) = Owner[Link(h)]
      /\ AmountOf(Link(h)) = AmountAt[Link(h)] /\ -AmountAt[Link(h)] \in Int
      /\ AccountOf(h) = a
  <2>1. Source(h) = Link(h) /\ Source(h) # 0
    BY Zenon, <1>2
  <2>2. AccountOf(h) = a
    BY Zenon, <1>1, AccountOfIs
  <2>3. /\ Link(h) \in Hash /\ AccountOf(Link(h)) = Owner[Link(h)]
        /\ AmountAt[Link(h)] \in 0 .. GenesisAmount
    BY Zenon, <1>1, <2>1, SourceFacts
  <2>4. AmountOf(Link(h)) = AmountAt[Link(h)]
    BY Zenon, <2>3, VisitIs DEF LedgerInv
  <2>5. -AmountAt[Link(h)] \in Int
    BY <2>3, BlocksAssumption
  <2> QED
    BY Zenon, <2>2, <2>3, <2>4, <2>5
<1>5. representation' \in Weights
  <2>1. representation \in Weights
    BY Zenon DEF LedgerInv, TypeOK, Weights
  <2> QED
    BY Zenon, <1>4, <2>1, RepresentationAddType DEF RollbackOpen
<1>6. pending' = {q \in pending : q.hash # h} \cup (IF Source(h) # 0 THEN {Entry(Source(h))} ELSE {})
  <2>1. pending' = PendingPut(a, Source(h), Owner[Source(h)], AmountAt[Source(h)])
    BY Zenon, <1>2, <1>4 DEF RollbackOpen
  <2> QED
    BY Zenon, <1>1, <1>2, <2>1, SourceFacts
<1>7. ChangeLatest(a, 0, 0, 0, 0)
  BY Zenon, <1>4 DEF RollbackOpen
<1>8. checksum' \subseteq Hash
  BY Zenon, <1>1, <1>7, ChangeLatestChecksum
<1>9. accounts' = [accounts EXCEPT ![a] = NoAccount]
  BY Zenon, <1>7 DEF ChangeLatest
<1>10. frontiers' = [x \in Hash |->
                       IF x = h THEN 0
                       ELSE IF x = Previous(h) THEN IF Type(x) \in Legacy THEN a ELSE 0
                       ELSE frontiers[x]]
  <2>1. frontiers \in [Hash -> Account \cup {0}] /\ frontiers' = [frontiers EXCEPT ![h] = 0]
    BY Zenon DEF LedgerInv, TypeOK, RollbackOpen
  <2> QED
    BY Zenon, <1>2, <2>1, NotZero
<1>11. BlockDel(h) /\ UNCHANGED <<blocks_info, rollbacks>>
  BY Zenon DEF RollbackOpen
<1>12. blocks_info \in [Hash -> BlockInfo]
  BY Zenon DEF LedgerInv, TypeOK
<1>13. 0 \in Int
  OBVIOUS
<1> QED
  BY Zenon, <1>1, <1>2, <1>3, <1>5, <1>6, <1>8, <1>9, <1>10, <1>11, <1>12, <1>13, BlockDelIs
  DEF RemovesBlock, Weights

LEMMA RollbackStateRemoves ==
    ASSUME WellOrdered, LedgerInv, NEW h \in Hash, RollbackState(h)
    PROVE  h \in blocks \ {Genesis} /\ accounts[Owner[h]].head = h /\ ~Received(h) /\ RemovesBlock(h)
<1> DEFINE a == Owner[h]
           p == Previous(h)
           rep == IF p = 0 THEN 0 ELSE RepresentativeOf[p]
<1>1. /\ h \in blocks \ {Genesis} /\ Type(h) = "state" /\ accounts[a].head = h /\ a \in Account
      /\ Opened(a) /\ accounts[a].block_count \in Int
  BY Zenon, VisitingFacts DEF RollbackState
<1>2. Content[h].account = a
  BY Zenon, <1>1, OwnerAssumption
<1>3. BalanceOf(p) = BalanceBefore(h)
  BY Zenon, VisitIs DEF LedgerInv
<1>4. UndoesSend(h) <=> IsSend(h)
  BY Zenon, <1>1, <1>3 DEF UndoesSend, IsSend
<1>5. ~Received(h)
  <2>1. CASE IsSend(h)
    BY ZenonT(40), <1>4, <2>1, PendingFacts DEF RollbackState
  <2>2. CASE ~IsSend(h)
    BY Zenon, <1>1, <2>2, NotReceived
  <2> QED
    BY Zenon, <2>1, <2>2
<1>6. p # 0 => p \in Hash /\ p # h /\ Owner[p] = a /\ BalanceBefore(h) = BalanceAt[p]
               /\ rep = RepBlockAt[p] /\ rep # 0
  BY <1>1, RepresentativeOfIs, RepBlockAssumption, BlockFields, NotZero
  DEF LedgerInv, TypeOK, Sound, ChainsLinked, BalanceBefore
<1>7. BalanceBefore(h) \in 0 .. GenesisAmount /\ BalanceBefore(h) \in Int /\ -Balance(h) \in Int
      /\ Balance(h) \in 0 .. GenesisAmount
  BY BlockFields, BalanceAssumption, BlocksAssumption DEF BalanceBefore
<1>8. representation' \in Weights
  <2> DEFINE moved == RepresentationAdd(representation, h, -Balance(h))
  <2>1. representation \in Weights
    BY Zenon DEF LedgerInv, TypeOK, Weights
  <2>2. moved \in Weights
    BY Zenon, <1>7, <2>1, RepresentationAddType
  <2>3. representation' = IF rep = 0 THEN moved ELSE RepresentationAdd(moved, rep, BalanceBefore(h))
    BY Zenon, <1>3 DEF RollbackState
  <2> HIDE DEF moved, rep
  <2> QED
    BY Zenon, <1>7, <2>2, <2>3, RepresentationAddType
<1>9. pending' = {q \in pending : q.hash # h} \cup (IF Source(h) # 0 THEN {Entry(Source(h))} ELSE {})
  <2>1. CASE IsSend(h)
    <3>1. Source(h) = 0
      BY Zenon, <1>1, <2>1 DEF Source
    <3> QED
      BY ZenonT(40), <1>4, <2>1, <3>1, PendingDelIs DEF RollbackState
  <2>2. CASE ~IsSend(h) /\ Link(h) = 0
    <3>1. Source(h) = 0
      BY Zenon, <1>1, <2>2 DEF Source
    <3> QED
      BY Zenon, <1>4, <2>2, <3>1, PendingDelIs DEF RollbackState
  <2>3. CASE ~IsSend(h) /\ Link(h) # 0
    <3>1. Source(h) = Link(h)
      BY Zenon, <1>1, <2>3 DEF Source
    <3>2. AccountOf(Link(h)) = Owner[Link(h)] /\ AmountAt[Link(h)] \in 0 .. GenesisAmount
      BY Zenon, <1>1, <2>3, <3>1, SourceFacts
    <3>3. Balance(h) = BalanceBefore(h) + AmountAt[Link(h)]
      BY Zenon, <1>1, <2>3, <3>1 DEF LedgerInv, Sound, Balanced
    <3>4. Balance(h) - BalanceBefore(h) = AmountAt[Link(h)]
      BY <1>7, <3>2, <3>3, BlocksAssumption
    <3>5. Wrap(Balance(h) - BalanceBefore(h)) = AmountAt[Link(h)]
      BY Zenon, <3>2, <3>4, WrapSmall
    <3>6. pending' = PendingPut(a, Source(h), Owner[Source(h)], AmountAt[Source(h)])
      BY Zenon, <1>2, <1>3, <1>4, <2>3, <3>1, <3>2, <3>5 DEF RollbackState
    <3> QED
      BY Zenon, <1>1, <2>3, <3>1, <3>6, SourceFacts
  <2> QED
    BY Zenon, <2>1, <2>2, <2>3
<1>10. ChangeLatest(a, p, rep, BalanceBefore(h), accounts[a].block_count - 1)
  BY Zenon, <1>2, <1>3 DEF RollbackState
<1>11. checksum' \subseteq Hash
  BY Zenon, <1>1, <1>10, BlockFields, ChangeLatestChecksum
<1>12. accounts' = [accounts EXCEPT ![a] =
                   IF p = 0 THEN NoAccount
                   ELSE [head |-> p, rep_block |-> RepBlockAt[p], open_block |-> accounts[a].open_block,
                         balance |-> BalanceAt[p], block_count |-> accounts[a].block_count - 1]]
  <2> HIDE DEF rep
  <2> QED
    BY Zenon, <1>1, <1>6, <1>10 DEF ChangeLatest
<1>13. frontiers' = [x \in Hash |->
                       IF x = h THEN 0
                       ELSE IF x = p THEN IF Type(x) \in Legacy THEN a ELSE 0
                       ELSE frontiers[x]]
  <2>1. frontiers \in [Hash -> Account \cup {0}]
    BY Zenon DEF LedgerInv, TypeOK
  <2>2. frontiers[h] = 0
    BY Zenon, <1>1 DEF LedgerInv, FrontiersAreLegacyHeads, Legacy
  <2>3. p # 0 => frontiers[p] = 0
    <3>1. p # 0 => accounts[Owner[p]].head # p
      BY Zenon, <1>1, <1>6
    <3> QED
      BY Zenon, <1>6, <3>1 DEF LedgerInv, FrontiersAreLegacyHeads
  <2>4. frontiers' = IF p # 0 /\ Type(p) \in Legacy THEN [frontiers EXCEPT ![p] = a] ELSE frontiers
    BY Zenon, <1>2 DEF RollbackState
  <2> QED
    BY Zenon, <1>6, <2>1, <2>2, <2>3, <2>4, NotZero
<1>14. /\ blocks_info' \in [Hash -> BlockInfo]
       /\ \A x \in Hash :
              \/ blocks_info'[x] = blocks_info[x]
              \/ blocks_info'[x].account = 0
              \/ blocks_info'[x] = [account |-> Owner[x], balance |-> BalanceAt[x]]
  <2>1. blocks_info \in [Hash -> BlockInfo]
    BY Zenon DEF LedgerInv, TypeOK
  <2> DEFINE e == [account |-> a, balance |-> BalanceBefore(h)]
  <2>2. e \in BlockInfo
    BY Zenon, <1>1, <1>7 DEF BlockInfo
  <2>3. p # 0 => e = [account |-> Owner[p], balance |-> BalanceAt[p]]
    BY Zenon, <1>6
  <2>4. blocks_info' = blocks_info \/ (p # 0 /\ blocks_info' = [blocks_info EXCEPT ![p] = e])
    BY ZenonT(40), <1>2, <1>3 DEF RollbackState, BlockInfoPut
  <2> HIDE DEF e
  <2> QED
    BY Zenon, <1>6, <2>1, <2>2, <2>3, <2>4
<1>15. BlockDel(h) /\ UNCHANGED rollbacks
  BY Zenon DEF RollbackState
<1>16. accounts[a].block_count - 1 \in Int
  <2>1. \A n \in Int : n - 1 \in Int
    OBVIOUS
  <2> QED
    BY Zenon, <1>1, <2>1
<1> QED
  BY Zenon, <1>1, <1>5, <1>8, <1>9, <1>11, <1>12, <1>13, <1>14, <1>15, <1>16, BlockDelIs
  DEF RemovesBlock, Weights

LEMMA RollbackRemoves ==
    ASSUME WellOrdered, LedgerInv, NEW h \in Hash,
           \/ RollbackSend(h) \/ RollbackReceive(h) \/ RollbackOpen(h)
           \/ RollbackChange(h) \/ RollbackState(h)
    PROVE  h \in blocks \ {Genesis} /\ accounts[Owner[h]].head = h /\ ~Received(h) /\ RemovesBlock(h)
  BY Zenon, RollbackSendRemoves, RollbackReceiveRemoves, RollbackOpenRemoves,
     RollbackChangeRemoves,
     RollbackStateRemoves

-----------------------------------------------------------------------------
(* The arithmetic of rai::uint128_t. *)

LEMMA Times ==
    ASSUME NEW m \in Nat, NEW d \in Int
    PROVE  (d >= 1 => m * d >= m) /\ (d <= -1 => m * d <= -m)
  OBVIOUS

LEMMA WrapQuotient ==
    ASSUME NEW n \in Int
    PROVE  \E q \in Int : n = (GenesisAmount + 1) * q + Wrap(n) /\ Wrap(n) \in 0 .. GenesisAmount
<1>1. GenesisAmount \in Nat \ {0}
  BY Zenon, BlocksAssumption
<1>2. /\ n = (GenesisAmount + 1) * (n \div (GenesisAmount + 1)) + Wrap(n)
      /\ n \div (GenesisAmount + 1) \in Int
      /\ Wrap(n) \in 0 .. GenesisAmount
  BY <1>1 DEF Wrap
<1> QED
  BY Zenon, <1>2

LEMMA WrapUnique ==
    ASSUME NEW q \in Int, NEW r \in 0 .. GenesisAmount, NEW p \in Int, NEW s \in 0 .. GenesisAmount,
           (GenesisAmount + 1) * q + r = (GenesisAmount + 1) * p + s
    PROVE  r = s
<1> DEFINE d == q - p
<1>1. (GenesisAmount + 1) * d = s - r
  BY BlocksAssumption
<1>2. d \in Int /\ GenesisAmount + 1 \in Nat
  BY BlocksAssumption
<1>3. /\ d >= 1 => (GenesisAmount + 1) * d >= GenesisAmount + 1
      /\ d <= -1 => (GenesisAmount + 1) * d <= -(GenesisAmount + 1)
  BY Zenon, <1>2, Times
<1>4. d = 0
  BY <1>1, <1>2, <1>3, BlocksAssumption
<1> QED
  BY <1>1, <1>4, BlocksAssumption

LEMMA WrapMultiple ==
    ASSUME NEW n \in Int, NEW k \in Int
    PROVE  Wrap(n + (GenesisAmount + 1) * k) = Wrap(n)
<1> DEFINE x == n + (GenesisAmount + 1) * k
<1>1. x \in Int
  BY BlocksAssumption
<1>2. PICK p \in Int : x = (GenesisAmount + 1) * p + Wrap(x) /\ Wrap(x) \in 0 .. GenesisAmount
  BY Zenon, <1>1, WrapQuotient
<1>3. PICK q \in Int : n = (GenesisAmount + 1) * q + Wrap(n) /\ Wrap(n) \in 0 .. GenesisAmount
  BY Zenon, WrapQuotient
<1>4. q + k \in Int /\ (GenesisAmount + 1) * (q + k) = (GenesisAmount + 1) * q + (GenesisAmount + 1) * k
  BY BlocksAssumption
<1>5. (GenesisAmount + 1) * p + Wrap(x) = (GenesisAmount + 1) * (q + k) + Wrap(n)
  <2> DEFINE mq == (GenesisAmount + 1) * q
             mk == (GenesisAmount + 1) * k
  <2>1. mq \in Int /\ mk \in Int /\ Wrap(n) \in Int
    BY <1>3, BlocksAssumption
  <2>2. /\ x = n + mk /\ n = mq + Wrap(n) /\ (GenesisAmount + 1) * (q + k) = mq + mk
        /\ (GenesisAmount + 1) * p + Wrap(x) = x
    BY Zenon, <1>2, <1>3, <1>4
  <2> HIDE DEF mq, mk, x
  <2> QED
    BY <2>1, <2>2
<1> HIDE DEF x
<1>6. Wrap(x) = Wrap(n)
  BY Zenon, <1>2, <1>3, <1>4, <1>5, WrapUnique
<1> QED
  BY Zenon, <1>6 DEF x

(* An addend may be wrapped before it is added or subtracted. *)
LEMMA WrapAdd ==
    ASSUME NEW n \in Int, NEW m \in Int
    PROVE  Wrap(Wrap(n) + m) = Wrap(n + m) /\ Wrap(m - Wrap(n)) = Wrap(m - n)
<1>1. PICK q \in Int : n = (GenesisAmount + 1) * q + Wrap(n) /\ Wrap(n) \in 0 .. GenesisAmount
  BY Zenon, WrapQuotient
<1>2. /\ Wrap(n) + m = (n + m) + (GenesisAmount + 1) * (-q)
      /\ m - Wrap(n) = (m - n) + (GenesisAmount + 1) * q
  BY <1>1, BlocksAssumption
<1>3. -q \in Int /\ n + m \in Int /\ m - n \in Int
  BY <1>1
<1> QED
  BY <1>1, <1>2, <1>3, WrapMultiple

-----------------------------------------------------------------------------
(* What the helpers of process and rollback count. *)

LEMMA RepresentationAddIs ==
    ASSUME NEW table \in Weights, NEW h, NEW amount \in Int, NEW r \in Account \cup {0}
    PROVE  /\ RepresentationAdd(table, h, amount)[r] =
                  Wrap(table[r] + (IF Representative(h) = r THEN amount ELSE 0))
           /\ table[r] \in 0 .. GenesisAmount /\ table[r] \in Int
<1>1. table[r] \in 0 .. GenesisAmount /\ table[r] \in Int
  BY BlocksAssumption DEF Weights
<1>2. CASE Representative(h) = r
  BY <1>2 DEF RepresentationAdd, Weights
<1>3. CASE Representative(h) # r
  <2>1. RepresentationAdd(table, h, amount)[r] = table[r]
    BY Zenon, <1>3 DEF RepresentationAdd, Weights
  <2>2. Wrap(table[r]) = table[r] /\ table[r] + 0 = table[r]
    BY <1>1, WrapSmall
  <2> QED
    BY Zenon, <1>1, <1>3, <2>1, <2>2
<1> QED
  BY Zenon, <1>1, <1>2, <1>3

LEMMA LatestIs ==
    ASSUME LedgerInv, NEW a \in Account, NEW h, NEW rep_block, NEW balance, NEW count,
           ChangeLatest(a, h, rep_block, balance, count)
    PROVE  /\ accounts'[a].head = h
           /\ h # 0 => /\ accounts'[a].rep_block = rep_block
                       /\ accounts'[a].balance = balance
                       /\ accounts'[a].block_count = count
           /\ h = 0 => accounts'[a] = NoAccount
           /\ representation \in Weights
<1>1. accounts \in [Account -> AccountInfo] /\ representation \in Weights
  BY Zenon DEF LedgerInv, TypeOK, Weights
<1>2. accounts'[a] = IF h = 0 THEN NoAccount
                     ELSE [head |-> h, rep_block |-> rep_block,
                           open_block |-> IF Opened(a) THEN accounts[a].open_block ELSE h,
                           balance |-> balance, block_count |-> count]
  BY Zenon, <1>1 DEF ChangeLatest
<1> QED
  BY <1>1, <1>2 DEF NoAccount

(* The part of Tallies that change_latest settles. *)
LEMMA TalliesFrom ==
    ASSUME LedgerInv, NEW a \in Account, NEW h, NEW rep_block, NEW balance, NEW count,
           ChangeLatest(a, h, rep_block, balance, count),
           \A r \in Account \cup {0} :
               representation'[r] =
                   Wrap(representation[r] - ShareOf(accounts[a], r) + ShareOf(accounts'[a], r))
    PROVE  Tallies(a)
<1>1. accounts'[a].head = h
  BY LatestIs, Zenon
<1> QED
  BY <1>1, Zenon DEF Tallies, ChangeLatest

LEMMA WeightsType ==
    LedgerInv => representation \in Weights
BY Zenon DEF LedgerInv, TypeOK, Weights

LEMMA RepresentationAddTwice ==
    ASSUME NEW table \in Weights, NEW x, NEW c \in Int, NEW y, NEW d \in Int, NEW r \in Account \cup {0}
    PROVE  RepresentationAdd(RepresentationAdd(table, x, c), y, d)[r] =
               Wrap(table[r] + (IF Representative(x) = r THEN c ELSE 0)
                             + (IF Representative(y) = r THEN d ELSE 0))
<1> DEFINE m == RepresentationAdd(table, x, c)
           u == IF Representative(x) = r THEN c ELSE 0
           v == IF Representative(y) = r THEN d ELSE 0
<1>1. m \in Weights /\ m[r] = Wrap(table[r] + u) /\ table[r] \in Int
  BY RepresentationAddIs, RepresentationAddType
<1> HIDE DEF m
<1>2. RepresentationAdd(m, y, d)[r] = Wrap(m[r] + v)
  BY <1>1, RepresentationAddIs
<1>3. u \in Int /\ v \in Int /\ table[r] + u \in Int
  BY <1>1
<1> HIDE DEF u, v
<1>4. RepresentationAdd(m, y, d)[r] = Wrap(table[r] + u + v)
  <2> DEFINE n == table[r] + u
  <2>1. n \in Int /\ RepresentationAdd(m, y, d)[r] = Wrap(Wrap(n) + v)
    BY Zenon, <1>1, <1>2, <1>3
  <2> HIDE DEF n
  <2>2. RepresentationAdd(m, y, d)[r] = Wrap(n + v)
    BY Zenon, <1>3, <2>1, WrapAdd
  <2> QED
    BY Zenon, <2>2 DEF n
<1> QED
  BY Zenon, <1>4 DEF m, u, v

-----------------------------------------------------------------------------
(* What processing a block counts. *)

WeightsUp(h, rep_block, balance) ==
    \A r \in Account \cup {0} :
        representation'[r] =
            Wrap(representation[r] - ShareOf(accounts[Owner[h]], r)
                 + (IF Representative(rep_block) = r THEN balance ELSE 0))

LEMMA TalliesUp ==
    ASSUME LedgerInv, NEW h \in Hash, Owner[h] \in Account, NEW rep_block, NEW balance, NEW count,
           ChangeLatest(Owner[h], h, rep_block, balance, count),
           WeightsUp(h, rep_block, balance)
    PROVE  Tallies(Owner[h]) /\ accounts'[Owner[h]].block_count = count
<1> DEFINE a == Owner[h]
<1>1. h # 0
  BY Zenon, NotZero
<1>2. /\ accounts'[a].head = h /\ accounts'[a].rep_block = rep_block
      /\ accounts'[a].balance = balance /\ accounts'[a].block_count = count
  BY <1>1, LatestIs
<1>3. ASSUME NEW r \in Account \cup {0}
      PROVE  ShareOf(accounts'[a], r) = IF Representative(rep_block) = r THEN balance ELSE 0
  BY Zenon, <1>1, <1>2 DEF ShareOf
<1>4. ASSUME NEW r \in Account \cup {0}
      PROVE  representation'[r] =
                 Wrap(representation[r] - ShareOf(accounts[a], r) + ShareOf(accounts'[a], r))
  BY Zenon, <1>3 DEF WeightsUp
<1> QED
  BY Zenon, <1>2, <1>4, TalliesFrom

LEMMA ProcessSendTallies ==
    ASSUME LedgerInv, NEW h \in Hash, ProcessSend(h)
    PROVE  Tallies(Owner[h]) /\ CountsUp(h)
<1> DEFINE a == Owner[h]
           b == accounts[a].balance
           c == Balance(h)
           R == accounts[a].rep_block
<1>1. Type(h) = "send" /\ Result(h) = "progress"
  BY Zenon DEF ProcessSend, Accepted
<1>2. /\ frontiers[Previous(h)] = a /\ a \in Account /\ accounts[a].head = Previous(h)
      /\ Previous(h) \in Hash /\ b \in 0 .. GenesisAmount
  BY Zenon, <1>1, LegacyBelow
<1>3. /\ representation' = RepresentationAdd(representation, R, -(b - c))
      /\ ChangeLatest(a, h, R, c, accounts[a].block_count + 1)
      /\ blocks_info' = BlockInfoPut(a, h, c, accounts[a].block_count + 1)
  BY Zenon, <1>2 DEF ProcessSend
<1>4. BalanceAt[h] = c /\ Type(h) \in Legacy /\ c \in Int /\ b \in Int /\ Previous(h) # 0
  <2>1. BalanceAt[h] = c /\ Type(h) \in Legacy
    BY Zenon, <1>1, BalanceAssumption DEF Legacy
  <2>2. c \in Int /\ b \in Int
    BY <1>2, BlockFields, BlocksAssumption
  <2> QED
    BY Zenon, <1>2, <2>1, <2>2, NotZero
<1>5. WeightsUp(h, R, c)
  <2> SUFFICES ASSUME NEW r \in Account \cup {0}
               PROVE  representation'[r] = Wrap(representation[r] - ShareOf(accounts[a], r)
                                                + (IF Representative(R) = r THEN c ELSE 0))
    BY Zenon DEF WeightsUp
  <2> DEFINE d == -(b - c)
  <2>1. d \in Int
    BY <1>4
  <2>2. /\ representation'[r] = Wrap(representation[r] + (IF Representative(R) = r THEN d ELSE 0))
        /\ representation[r] \in Int
    <3> HIDE DEF d
    <3> QED
      BY Zenon, <1>3, <2>1, WeightsType, RepresentationAddIs DEF d
  <2>3. ShareOf(accounts[a], r) = IF Representative(R) = r THEN b ELSE 0
    BY Zenon, <1>2, <1>4 DEF ShareOf
  <2> HIDE DEF b, c, R
  <2> QED
    BY <1>4, <2>2, <2>3
<1>6. Tallies(a) /\ accounts'[a].block_count = accounts[a].block_count + 1
  <2> HIDE DEF c, R
  <2> QED
    BY Zenon, <1>2, <1>3, <1>5, TalliesUp
<1> QED
  BY Zenon, <1>3, <1>4, <1>6 DEF CountsUp

LEMMA ProcessReceiveTallies ==
    ASSUME LedgerInv, NEW h \in Hash, ProcessReceive(h)
    PROVE  Tallies(Owner[h]) /\ CountsUp(h)
<1> DEFINE a == Owner[h]
           b == accounts[a].balance
           c == AmountAt[Link(h)]
           R == accounts[a].rep_block
<1>1. Type(h) = "receive" /\ Result(h) = "progress"
  BY Zenon DEF ProcessReceive, Accepted
<1>2. /\ frontiers[Previous(h)] = a /\ a \in Account /\ accounts[a].head = Previous(h)
      /\ Previous(h) \in Hash /\ b \in 0 .. GenesisAmount /\ b = BalanceBefore(h)
  BY Zenon, <1>1, LegacyBelow
<1>3. Link(h) \in Hash /\ PendingGet(a, Link(h)).amount = c /\ c \in Int
  <2>1. PendingExists(a, Link(h))
    BY Zenon, <1>1, <1>2 DEF Result, ReceiveResult
  <2> QED
    BY <2>1, PendingFacts, AmountAssumption, BlocksAssumption DEF LedgerInv, TypeOK, Entry
<1>4. /\ representation' = RepresentationAdd(representation, R, c)
      /\ ChangeLatest(a, h, R, Wrap(b + c), accounts[a].block_count + 1)
      /\ blocks_info' = BlockInfoPut(a, h, Wrap(b + c), accounts[a].block_count + 1)
  BY Zenon, <1>2, <1>3 DEF ProcessReceive
<1>5. BalanceAt[h] = Wrap(b + c) /\ Type(h) \in Legacy /\ b \in Int /\ Previous(h) # 0
  <2>1. BalanceAt[h] = Wrap(b + c) /\ Type(h) \in Legacy
    BY Zenon, <1>1, <1>2, <1>3, BalanceAssumption DEF Legacy, AmountOfLink
  <2>2. b \in Int
    BY <1>2, BlocksAssumption
  <2> QED
    BY Zenon, <1>2, <2>1, <2>2, NotZero
<1>6. WeightsUp(h, R, Wrap(b + c))
  <2> SUFFICES ASSUME NEW r \in Account \cup {0}
               PROVE  representation'[r] = Wrap(representation[r] - ShareOf(accounts[a], r)
                                                + (IF Representative(R) = r THEN Wrap(b + c) ELSE 0))
    BY Zenon DEF WeightsUp
  <2> DEFINE w == representation[r]
  <2>1. representation'[r] = Wrap(w + (IF Representative(R) = r THEN c ELSE 0)) /\ w \in Int
    BY Zenon, <1>3, <1>4, WeightsType, RepresentationAddIs
  <2>2. ShareOf(accounts[a], r) = IF Representative(R) = r THEN b ELSE 0
    BY Zenon, <1>2, <1>5 DEF ShareOf
  <2> HIDE DEF b, c, w, R
  <2>3. Wrap(Wrap(b + c) + (w - b)) = Wrap(b + c + (w - b)) /\ Wrap(b + c) \in Int
    <3>1. b + c \in Int /\ w - b \in Int
      BY <1>3, <1>5, <2>1
    <3> QED
      BY <3>1, WrapAdd, WrapRange, BlocksAssumption
  <2>4. b + c + (w - b) = w + c /\ Wrap(b + c) + (w - b) = w - b + Wrap(b + c) /\ w - 0 + 0 = w + 0
    BY <1>3, <1>5, <2>1, <2>3
  <2> QED
    BY Zenon, <2>1, <2>2, <2>3, <2>4 DEF w
<1>7. Tallies(a) /\ accounts'[a].block_count = accounts[a].block_count + 1
  <2> HIDE DEF c, R
  <2> QED
    BY Zenon, <1>2, <1>4, <1>6, TalliesUp
<1> QED
  BY Zenon, <1>4, <1>5, <1>7 DEF CountsUp

LEMMA ProcessOpenTallies ==
    ASSUME LedgerInv, NEW h \in Hash, ProcessOpen(h)
    PROVE  Tallies(Owner[h]) /\ CountsUp(h)
<1> DEFINE a == Owner[h]
           c == AmountAt[Link(h)]
<1>1. Type(h) = "open" /\ Result(h) = "progress" /\ Valid(blocks, h)
  BY Zenon, OpenProgress DEF ProcessOpen, Accepted
<1>2. a = Content[h].account /\ a \in Account /\ accounts[a].head = 0
  <2>1. a = Content[h].account /\ a \in Account
    BY Zenon, <1>1, OwnerAssumption, BlockFields DEF Valid
  <2> QED
    BY Zenon, <1>1, <2>1 DEF Result, OpenResult, Opened
<1>3. Link(h) \in Hash /\ PendingGet(a, Link(h)).amount = c /\ c \in Int
  <2>1. PendingExists(a, Link(h))
    BY Zenon, <1>1, <1>2 DEF Result, OpenResult
  <2> QED
    BY <2>1, PendingFacts, AmountAssumption, BlocksAssumption DEF LedgerInv, TypeOK, Entry
<1>4. /\ representation' = RepresentationAdd(representation, h, c)
      /\ ChangeLatest(a, h, h, c, accounts[a].block_count + 1)
      /\ blocks_info' = BlockInfoPut(a, h, c, accounts[a].block_count + 1)
  BY Zenon, <1>2, <1>3 DEF ProcessOpen
<1>5. BalanceAt[h] = c /\ Type(h) \in Legacy
  BY Zenon, <1>1, <1>3, BalanceAssumption DEF Legacy, AmountOfLink
<1>6. WeightsUp(h, h, c)
  <2> SUFFICES ASSUME NEW r \in Account \cup {0}
               PROVE  representation'[r] = Wrap(representation[r] - ShareOf(accounts[a], r)
                                                + (IF Representative(h) = r THEN c ELSE 0))
    BY Zenon DEF WeightsUp
  <2>1. representation'[r] = Wrap(representation[r] + (IF Representative(h) = r THEN c ELSE 0))
        /\ representation[r] \in Int
    BY Zenon, <1>3, <1>4, WeightsType, RepresentationAddIs
  <2>2. ShareOf(accounts[a], r) = 0
    BY Zenon, <1>2 DEF ShareOf
  <2> HIDE DEF c
  <2> QED
    BY <1>3, <2>1, <2>2
<1>7. Tallies(a) /\ accounts'[a].block_count = accounts[a].block_count + 1
  <2> HIDE DEF c
  <2> QED
    BY Zenon, <1>2, <1>4, <1>6, TalliesUp
<1> QED
  BY Zenon, <1>4, <1>5, <1>7 DEF CountsUp

LEMMA ProcessChangeTallies ==
    ASSUME WellOrdered, LedgerInv, NEW h \in Hash, ProcessChange(h)
    PROVE  Tallies(Owner[h]) /\ CountsUp(h)
<1> DEFINE a == Owner[h]
           b == accounts[a].balance
           e == -b
           R == accounts[a].rep_block
<1>1. Type(h) = "change" /\ Result(h) = "progress"
  BY Zenon DEF ProcessChange, Accepted
<1>2. /\ frontiers[Previous(h)] = a /\ a \in Account /\ accounts[a].head = Previous(h)
      /\ Previous(h) \in Hash /\ b \in 0 .. GenesisAmount /\ b = BalanceBefore(h)
  BY Zenon, <1>1, LegacyBelow
<1>3. BalanceOf(Previous(h)) = b /\ b \in Int /\ e \in Int
  BY <1>2, VisitIs, BlocksAssumption DEF LedgerInv
<1>4. /\ representation' = RepresentationAdd(RepresentationAdd(representation, h, b), R, e)
      /\ ChangeLatest(a, h, h, b, accounts[a].block_count + 1)
      /\ blocks_info' = BlockInfoPut(a, h, b, accounts[a].block_count + 1)
  BY Zenon, <1>2, <1>3 DEF ProcessChange
<1>5. BalanceAt[h] = b /\ Type(h) \in Legacy /\ Previous(h) # 0
  BY Zenon, <1>1, <1>2, BalanceAssumption, NotZero DEF Legacy
<1>6. WeightsUp(h, h, b)
  <2> SUFFICES ASSUME NEW r \in Account \cup {0}
               PROVE  representation'[r] = Wrap(representation[r] - ShareOf(accounts[a], r)
                                                + (IF Representative(h) = r THEN b ELSE 0))
    BY Zenon DEF WeightsUp
  <2>1. representation \in Weights /\ representation[r] \in Int
    BY BlocksAssumption, WeightsType DEF Weights
  <2>2. ShareOf(accounts[a], r) = IF Representative(R) = r THEN b ELSE 0
    BY Zenon, <1>2, <1>5 DEF ShareOf
  <2> HIDE DEF e, b, R
  <2>3. representation'[r] = Wrap(representation[r] + (IF Representative(h) = r THEN b ELSE 0)
                                                    + (IF Representative(R) = r THEN e ELSE 0))
    <3>1. RepresentationAdd(RepresentationAdd(representation, h, b), R, e)[r] =
              Wrap(representation[r] + (IF Representative(h) = r THEN b ELSE 0)
                                     + (IF Representative(R) = r THEN e ELSE 0))
      BY <1>3, <2>1, RepresentationAddTwice
    <3> QED
      BY Zenon, <1>4, <3>1
  <2>4. e = -b
    BY Zenon DEF e
  <2> QED
    BY <1>3, <2>1, <2>2, <2>3, <2>4
<1>7. Tallies(a) /\ accounts'[a].block_count = accounts[a].block_count + 1
  <2> HIDE DEF b
  <2> QED
    BY Zenon, <1>2, <1>4, <1>6, TalliesUp
<1> QED
  BY Zenon, <1>4, <1>5, <1>7 DEF CountsUp

LEMMA ProcessStateTallies ==
    ASSUME LedgerInv, NEW h \in Hash, ProcessState(h)
    PROVE  Tallies(Owner[h]) /\ CountsUp(h)
<1> DEFINE a == Owner[h]
           b == accounts[a].balance
           c == Balance(h)
           e == -b
           R == accounts[a].rep_block
<1>1. Type(h) = "state" /\ Result(h) = "progress"
  BY Zenon DEF ProcessState, Accepted
<1>2. a = Content[h].account /\ a \in Account /\ b = BalanceBefore(h)
  BY Zenon, <1>1, StatePosition
<1>3. b \in Int /\ e \in Int /\ c \in Int /\ Type(h) \notin Legacy
  BY <1>1, <1>2, BalanceAssumption, BlockFields, BlocksAssumption DEF BalanceBefore, Legacy
<1>4. /\ representation' = RepresentationAdd(WeightWithout(a), h, c)
      /\ ChangeLatest(a, h, h, c, accounts[a].block_count + 1)
      /\ blocks_info' = blocks_info
  BY Zenon, <1>2 DEF ProcessState
<1>5. R = 0 <=> accounts[a].head = 0
  BY <1>2, HeadFacts, RepBlockAssumption, NotZero DEF NoAccount
<1>6. WeightsUp(h, h, c)
  <2> SUFFICES ASSUME NEW r \in Account \cup {0}
               PROVE  representation'[r] = Wrap(representation[r] - ShareOf(accounts[a], r)
                                                + (IF Representative(h) = r THEN c ELSE 0))
    BY Zenon DEF WeightsUp
  <2>1. representation \in Weights /\ representation[r] \in Int
    BY BlocksAssumption, WeightsType DEF Weights
  <2>2. CASE R = 0
    <3>1. WeightWithout(a) = representation /\ ShareOf(accounts[a], r) = 0
      BY Zenon, <1>5, <2>2 DEF WeightWithout, ShareOf
    <3> HIDE DEF c
    <3>2. representation'[r] = Wrap(representation[r] + (IF Representative(h) = r THEN c ELSE 0))
      <4>1. RepresentationAdd(representation, h, c)[r] =
                Wrap(representation[r] + (IF Representative(h) = r THEN c ELSE 0))
        BY <1>3, <2>1, RepresentationAddIs
      <4> QED
        BY Zenon, <1>4, <3>1, <4>1
    <3> QED
      BY <2>1, <3>1, <3>2
  <2>3. CASE R # 0
    <3>1. WeightWithout(a) = RepresentationAdd(representation, R, e)
      BY Zenon, <2>3 DEF WeightWithout
    <3>2. ShareOf(accounts[a], r) = IF Representative(R) = r THEN b ELSE 0
      BY Zenon, <1>5, <2>3 DEF ShareOf
    <3> HIDE DEF e, b, c, R
    <3>3. representation'[r] = Wrap(representation[r] + (IF Representative(R) = r THEN e ELSE 0)
                                                      + (IF Representative(h) = r THEN c ELSE 0))
      <4>1. RepresentationAdd(RepresentationAdd(representation, R, e), h, c)[r] =
                Wrap(representation[r] + (IF Representative(R) = r THEN e ELSE 0)
                                       + (IF Representative(h) = r THEN c ELSE 0))
        BY <1>3, <2>1, RepresentationAddTwice
      <4> QED
        BY Zenon, <1>4, <3>1, <4>1
    <3>4. e = -b
      BY Zenon DEF e
    <3> QED
      BY <1>3, <2>1, <3>2, <3>3, <3>4
  <2> QED
    BY Zenon, <2>2, <2>3
<1>7. Tallies(a) /\ accounts'[a].block_count = accounts[a].block_count + 1
  <2> HIDE DEF c
  <2> QED
    BY Zenon, <1>2, <1>4, <1>6, TalliesUp
<1> QED
  BY Zenon, <1>3, <1>4, <1>7 DEF CountsUp

-----------------------------------------------------------------------------
(* What rolling a block back counts. *)

(* What all the visits of a rollback have in common. *)
WeightsBack(h, rep_block, balance) ==
    \A r \in Account \cup {0} :
        representation'[r] =
            Wrap(representation[r]
                 - (IF Representative(RepBlockAt[h]) = r THEN BalanceAt[h] ELSE 0)
                 + (IF Previous(h) # 0 /\ Representative(rep_block) = r THEN balance ELSE 0))

LEMMA TalliesBack ==
    ASSUME LedgerInv, NEW h \in blocks \ {Genesis}, Owner[h] \in Account, accounts[Owner[h]].head = h,
           accounts[Owner[h]].balance = BalanceAt[h], accounts[Owner[h]].rep_block = RepBlockAt[h],
           NEW rep_block, NEW balance, NEW count,
           ChangeLatest(Owner[h], Previous(h), rep_block, balance, count),
           WeightsBack(h, rep_block, balance)
    PROVE  /\ Tallies(Owner[h])
           /\ accounts'[Owner[h]].block_count = IF Previous(h) = 0 THEN 0 ELSE count
<1> DEFINE a == Owner[h]
<1>1. h # 0
  BY Zenon, NotZero DEF LedgerInv, TypeOK
<1>2. /\ accounts'[a].head = Previous(h)
      /\ Previous(h) # 0 => /\ accounts'[a].rep_block = rep_block
                            /\ accounts'[a].balance = balance
                            /\ accounts'[a].block_count = count
      /\ Previous(h) = 0 => accounts'[a] = NoAccount
  BY LatestIs
<1>3. ASSUME NEW r \in Account \cup {0}
      PROVE  /\ ShareOf(accounts[a], r) = IF Representative(RepBlockAt[h]) = r THEN BalanceAt[h] ELSE 0
             /\ ShareOf(accounts'[a], r) =
                    IF Previous(h) # 0 /\ Representative(rep_block) = r THEN balance ELSE 0
  BY Zenon, <1>1, <1>2 DEF ShareOf
<1>4. ASSUME NEW r \in Account \cup {0}
      PROVE  representation'[r] =
                 Wrap(representation[r] - ShareOf(accounts[a], r) + ShareOf(accounts'[a], r))
  BY Zenon, <1>3 DEF WeightsBack
<1>5. Tallies(a)
  BY Zenon, <1>4, TalliesFrom
<1> QED
  BY <1>2, <1>5 DEF NoAccount

LEMMA PutKeeps ==
    ASSUME LedgerInv, NEW a \in Account, NEW h \in Hash \cup {0}, NEW balance, NEW count, NEW x \in Hash,
           blocks_info[x].account # 0
    PROVE  /\ BlockInfoPut(a, h, balance, count)[x].account # 0
           /\ DOMAIN BlockInfoPut(a, h, balance, count) = Hash
<1>1. DOMAIN blocks_info = Hash /\ a # 0
  BY Zenon, NotZero DEF LedgerInv, TypeOK
<1> DEFINE e == [account |-> a, balance |-> balance]
<1>2. e.account # 0
  BY Zenon, <1>1
<1>3. BlockInfoPut(a, h, balance, count) \in {blocks_info, [blocks_info EXCEPT ![h] = e]}
  BY Zenon DEF BlockInfoPut
<1> HIDE DEF e
<1> QED
  BY Zenon, <1>1, <1>2, <1>3

LEMMA UndoKeeps ==
    ASSUME LedgerInv, NEW a \in Account, NEW h \in Hash, NEW balance, NEW count, NEW x \in Hash \ {h},
           blocks_info[x].account # 0
    PROVE  BlockInfoUndo(a, h, balance, count)[x].account # 0
<1> DEFINE put == BlockInfoPut(a, Previous(h), balance, count - 1)
<1>1. put[x].account # 0 /\ DOMAIN put = Hash
  BY PutKeeps, BlockFields
<1>2. BlockInfoUndo(a, h, balance, count) =
          [put EXCEPT ![h] = IF count % BlockInfoMax = 0 THEN NoBlockInfo ELSE @]
  BY Zenon DEF BlockInfoUndo
<1> HIDE DEF put
<1> QED
  BY Zenon, <1>1, <1>2

LEMMA LegacyTalliesBack ==
    ASSUME LedgerInv, NEW h \in blocks \ {Genesis}, Owner[h] \in Account, accounts[Owner[h]].head = h,
           accounts[Owner[h]].balance = BalanceAt[h], accounts[Owner[h]].rep_block = RepBlockAt[h],
           ChangeLatest(Owner[h], Previous(h), RepBlockAt[Previous(h)], BalanceAt[Previous(h)],
                        accounts[Owner[h]].block_count - 1),
           blocks_info' = BlockInfoUndo(Owner[h], h, BalanceAt[Previous(h)], accounts[Owner[h]].block_count),
           WeightsBack(h, RepBlockAt[Previous(h)], BalanceAt[Previous(h)])
    PROVE  Tallies(Owner[h]) /\ CountsDown(h)
<1>1. h \in Hash
  BY Zenon DEF LedgerInv, TypeOK
<1>2. /\ Tallies(Owner[h])
      /\ accounts'[Owner[h]].block_count =
             IF Previous(h) = 0 THEN 0 ELSE accounts[Owner[h]].block_count - 1
  BY TalliesBack
<1> QED
  BY Zenon, <1>1, <1>2, UndoKeeps DEF CountsDown

LEMMA RollbackSendTallies ==
    ASSUME WellOrdered, LedgerInv, NEW h \in Hash, RollbackSend(h)
    PROVE  Tallies(Owner[h]) /\ CountsDown(h)
<1> DEFINE a == Owner[h]
           p == Previous(h)
           b == BalanceAt[h]
           c == BalanceAt[p]
<1>1. /\ h \in blocks \ {Genesis} /\ Type(h) = "send" /\ accounts[a].head = h /\ a \in Account
      /\ accounts[a].rep_block = RepBlockAt[h] /\ accounts[a].balance = b
  BY Zenon, VisitingFacts DEF RollbackSend
<1>2. PendingGet(Link(h), h).source = a /\ PendingGet(Link(h), h).amount = AmountAt[h]
  <2>1. PendingExists(Link(h), h)
    BY Zenon DEF RollbackSend
  <2>2. PendingGet(Link(h), h) = Entry(h)
    BY Zenon, <2>1, PendingFacts
  <2> QED
    BY <2>2 DEF Entry
<1>3. RepBlockAt[h] = RepBlockAt[p] /\ p \in Hash /\ p # 0
  BY ZenonT(30), <1>1, RepBlockAssumption, ReferenceAssumption, BlockFields
<1>4. BalanceOf(p) = c /\ RepresentativeOf[h] = RepBlockAt[h]
  BY Zenon, <1>3, VisitIs, RepresentativeOfIs DEF LedgerInv
<1>5. b \in Int /\ c \in Int /\ AmountAt[h] = c - b /\ AmountAt[h] \in Int
  <2>1. b \in Int /\ c \in Int /\ b = Balance(h) /\ BalanceBefore(h) = c
    BY <1>1, <1>3, BalanceAssumption, BlocksAssumption DEF BalanceBefore
  <2>2. Balance(h) <= BalanceBefore(h)
    BY Zenon, <1>1 DEF LedgerInv, Sound, Balanced
  <2>3. AmountAt[h] = IF Balance(h) < BalanceBefore(h) THEN BalanceBefore(h) - Balance(h)
                      ELSE Balance(h) - BalanceBefore(h)
    BY <1>1, AmountAssumption
  <2> QED
    BY <2>1, <2>2, <2>3
<1>6. /\ representation' = RepresentationAdd(representation, RepBlockAt[h], AmountAt[h])
      /\ ChangeLatest(a, p, RepBlockAt[p], c, accounts[a].block_count - 1)
      /\ blocks_info' = BlockInfoUndo(a, h, c, accounts[a].block_count)
  BY Zenon, <1>1, <1>2, <1>3, <1>4 DEF RollbackSend
<1>7. WeightsBack(h, RepBlockAt[p], c)
  <2> SUFFICES ASSUME NEW r \in Account \cup {0}
               PROVE  representation'[r] =
                          Wrap(representation[r] - (IF Representative(RepBlockAt[h]) = r THEN b ELSE 0)
                               + (IF p # 0 /\ Representative(RepBlockAt[p]) = r THEN c ELSE 0))
    BY Zenon DEF WeightsBack
  <2>1. representation \in Weights
    BY Zenon DEF LedgerInv, TypeOK, Weights
  <2>2. /\ representation'[r] =
               Wrap(representation[r] + (IF Representative(RepBlockAt[h]) = r THEN AmountAt[h] ELSE 0))
        /\ representation[r] \in Int
    BY Zenon, <1>5, <1>6, <2>1, RepresentationAddIs
  <2> HIDE DEF b, c
  <2> QED
    BY <1>3, <1>5, <2>2
<1> QED
  BY Zenon, <1>1, <1>6, <1>7, LegacyTalliesBack

LEMMA RollbackReceiveTallies ==
    ASSUME WellOrdered, LedgerInv, NEW h \in Hash, RollbackReceive(h)
    PROVE  Tallies(Owner[h]) /\ CountsDown(h)
<1> DEFINE a == Owner[h]
           p == Previous(h)
           b == BalanceAt[h]
           c == BalanceAt[p]
           d == AmountAt[Link(h)]
<1>1. /\ h \in blocks \ {Genesis} /\ Type(h) = "receive" /\ accounts[a].head = h /\ a \in Account
      /\ accounts[a].rep_block = RepBlockAt[h] /\ accounts[a].balance = b
  BY Zenon, VisitingFacts DEF RollbackReceive
<1>2. Source(h) = Link(h) /\ p \in Hash /\ p # 0 /\ Source(h) # 0 /\ RepBlockAt[h] = RepBlockAt[p]
  BY Zenon, <1>1, ReferenceAssumption, RepBlockAssumption, BlockFields DEF Source
<1>3. Link(h) \in Hash /\ AmountOf(Link(h)) = d /\ AccountOf(h) = a
  BY Zenon, <1>1, <1>2, SourceFacts, AccountOfIs, VisitIs DEF LedgerInv
<1>4. BalanceOf(p) = c /\ RepresentativeOf[p] = RepBlockAt[p] /\ RepresentativeOf[h] = RepBlockAt[h]
  BY Zenon, <1>2, VisitIs, RepresentativeOfIs DEF LedgerInv
<1>5. b = Wrap(c + d) /\ b \in Int /\ c \in Int /\ d \in Int /\ -d \in Int
  BY <1>1, <1>2, <1>3, BalanceAssumption, AmountAssumption, BlocksAssumption
  DEF BalanceBefore, AmountOfLink
<1>6. /\ representation' = RepresentationAdd(representation, RepBlockAt[h], -d)
      /\ ChangeLatest(a, p, RepBlockAt[p], c, accounts[a].block_count - 1)
      /\ blocks_info' = BlockInfoUndo(a, h, c, accounts[a].block_count)
  BY Zenon, <1>3, <1>4 DEF RollbackReceive
<1>7. WeightsBack(h, RepBlockAt[p], c)
  <2> SUFFICES ASSUME NEW r \in Account \cup {0}
               PROVE  representation'[r] =
                          Wrap(representation[r] - (IF Representative(RepBlockAt[h]) = r THEN b ELSE 0)
                               + (IF p # 0 /\ Representative(RepBlockAt[p]) = r THEN c ELSE 0))
    BY Zenon DEF WeightsBack
  <2> DEFINE w == representation[r]
  <2>1. representation \in Weights
    BY Zenon DEF LedgerInv, TypeOK, Weights
  <2>2. /\ representation'[r] = Wrap(w + (IF Representative(RepBlockAt[h]) = r THEN -d ELSE 0))
        /\ w \in Int
    <3> DEFINE e == -d
    <3>1. e \in Int /\ representation' = RepresentationAdd(representation, RepBlockAt[h], e)
      BY Zenon, <1>5, <1>6
    <3> HIDE DEF e
    <3>2. /\ representation'[r] = Wrap(w + (IF Representative(RepBlockAt[h]) = r THEN e ELSE 0))
          /\ w \in Int
      BY <2>1, <3>1, RepresentationAddIs
    <3> QED
      BY Zenon, <3>2 DEF e
  <2> HIDE DEF b, c, d, w
  <2>3. Wrap((w + c) - Wrap(c + d)) = Wrap((w + c) - (c + d))
    <3>1. w + c \in Int /\ c + d \in Int
      BY <1>5, <2>2
    <3> QED
      BY Zenon, <3>1, WrapAdd
  <2>4. (w + c) - b = w - b + c /\ (w + c) - (c + d) = w + -d /\ w - 0 + 0 = w + 0
    BY <1>5, <2>2
  <2> QED
    BY Zenon, <1>2, <1>5, <2>2, <2>3, <2>4 DEF w
<1> QED
  BY Zenon, <1>1, <1>6, <1>7, LegacyTalliesBack

LEMMA RollbackChangeTallies ==
    ASSUME WellOrdered, LedgerInv, NEW h \in Hash, RollbackChange(h)
    PROVE  Tallies(Owner[h]) /\ CountsDown(h)
<1> DEFINE a == Owner[h]
           p == Previous(h)
           c == BalanceAt[p]
           e == -c
<1>1. /\ h \in blocks \ {Genesis} /\ Type(h) = "change" /\ accounts[a].head = h /\ a \in Account
      /\ accounts[a].rep_block = RepBlockAt[h] /\ accounts[a].balance = BalanceAt[h]
  BY Zenon, VisitingFacts DEF RollbackChange
<1>2. p \in Hash /\ p # 0 /\ RepBlockAt[h] = h /\ BalanceAt[h] = c
  BY Zenon, <1>1, ReferenceAssumption, RepBlockAssumption, BalanceAssumption, BlockFields
     DEF BalanceBefore
<1>3. BalanceOf(p) = c /\ RepresentativeOf[p] = RepBlockAt[p] /\ AccountOf(p) = a
  BY Zenon, <1>1, <1>2, VisitIs, RepresentativeOfIs, AccountOfIs DEF LedgerInv, Sound,
     ChainsLinked
<1>4. c \in Int /\ e \in Int
  BY <1>2, BalanceAssumption, BlocksAssumption
<1>5. /\ representation' = RepresentationAdd(RepresentationAdd(representation, RepBlockAt[p], c), h, e)
      /\ ChangeLatest(a, p, RepBlockAt[p], c, accounts[a].block_count - 1)
      /\ blocks_info' = BlockInfoUndo(a, h, c, accounts[a].block_count)
  BY Zenon, <1>1, <1>2, <1>3 DEF RollbackChange
<1>6. WeightsBack(h, RepBlockAt[p], c)
  <2> SUFFICES ASSUME NEW r \in Account \cup {0}
               PROVE  representation'[r] =
                          Wrap(representation[r] - (IF Representative(h) = r THEN c ELSE 0)
                               + (IF p # 0 /\ Representative(RepBlockAt[p]) = r THEN c ELSE 0))
    BY Zenon, <1>2 DEF WeightsBack
  <2>1. representation \in Weights /\ representation[r] \in Int
    BY BlocksAssumption DEF LedgerInv, TypeOK, Weights
  <2> HIDE DEF e
  <2>2. representation'[r] = Wrap(representation[r] + (IF Representative(RepBlockAt[p]) = r THEN c ELSE 0)
                                                    + (IF Representative(h) = r THEN e ELSE 0))
    <3>1. RepresentationAdd(RepresentationAdd(representation, RepBlockAt[p], c), h, e)[r] =
              Wrap(representation[r] + (IF Representative(RepBlockAt[p]) = r THEN c ELSE 0)
                                     + (IF Representative(h) = r THEN e ELSE 0))
      BY <1>4, <2>1, RepresentationAddTwice
    <3> QED
      BY Zenon, <1>5, <3>1
  <2> HIDE DEF c
  <2>3. e = -c
    BY Zenon DEF e
  <2> QED
    BY <1>2, <1>4, <2>1, <2>2, <2>3
<1> QED
  BY Zenon, <1>1, <1>5, <1>6, LegacyTalliesBack

LEMMA RollbackOpenTallies ==
    ASSUME WellOrdered, LedgerInv, NEW h \in Hash, RollbackOpen(h)
    PROVE  Tallies(Owner[h]) /\ CountsDown(h)
<1> DEFINE a == Owner[h]
           b == BalanceAt[h]
           e == -b
<1>1. /\ h \in blocks \ {Genesis} /\ Type(h) = "open" /\ accounts[a].head = h /\ a \in Account
      /\ accounts[a].rep_block = RepBlockAt[h] /\ accounts[a].balance = b
  BY Zenon, VisitingFacts DEF RollbackOpen
<1>2. Source(h) = Link(h) /\ Previous(h) = 0 /\ Source(h) # 0 /\ RepBlockAt[h] = h
  BY Zenon, <1>1, ReferenceAssumption, RepBlockAssumption DEF Source
<1>3. Link(h) \in Hash /\ AmountOf(Link(h)) = AmountAt[Link(h)] /\ AccountOf(h) = a
  BY Zenon, <1>1, <1>2, SourceFacts, AccountOfIs, VisitIs DEF LedgerInv
<1>4. AmountAt[Link(h)] = b /\ b \in Int /\ e \in Int /\ RepresentativeOf[h] = h
  BY <1>1, <1>2, <1>3, BalanceAssumption, BlocksAssumption, RepresentativeOfIs DEF AmountOfLink
<1>5. /\ representation' = RepresentationAdd(representation, h, e)
      /\ ChangeLatest(a, Previous(h), 0, 0, 0)
      /\ blocks_info' = blocks_info
  BY Zenon, <1>2, <1>3, <1>4 DEF RollbackOpen
<1>6. WeightsBack(h, 0, 0)
  <2> SUFFICES ASSUME NEW r \in Account \cup {0}
               PROVE  representation'[r] =
                          Wrap(representation[r] - (IF Representative(h) = r THEN b ELSE 0) + 0)
    BY Zenon, <1>2 DEF WeightsBack
  <2>1. representation \in Weights
    BY Zenon DEF LedgerInv, TypeOK, Weights
  <2> HIDE DEF e
  <2>2. /\ representation'[r] = Wrap(representation[r] + (IF Representative(h) = r THEN e ELSE 0))
        /\ representation[r] \in Int
    BY ZenonT(30), <1>4, <1>5, <2>1, RepresentationAddIs
  <2> HIDE DEF b
  <2>3. e = -b
    BY Zenon DEF e
  <2> QED
    BY <1>4, <2>2, <2>3
<1>7. Tallies(a) /\ accounts'[a].block_count = IF Previous(h) = 0 THEN 0 ELSE 0
  BY ZenonT(30), <1>1, <1>5, <1>6, TalliesBack
<1> QED
  BY Zenon, <1>2, <1>5, <1>7 DEF CountsDown

LEMMA RollbackStateTallies ==
    ASSUME WellOrdered, LedgerInv, NEW h \in Hash, RollbackState(h)
    PROVE  Tallies(Owner[h]) /\ CountsDown(h)
<1> DEFINE a == Owner[h]
           p == Previous(h)
           b == BalanceAt[h]
           c == BalanceBefore(h)
           e == -b
           rep == IF p = 0 THEN 0 ELSE RepresentativeOf[p]
<1>1. /\ h \in blocks \ {Genesis} /\ Type(h) = "state" /\ accounts[a].head = h /\ a \in Account
      /\ accounts[a].rep_block = RepBlockAt[h] /\ accounts[a].balance = b
  BY Zenon, VisitingFacts DEF RollbackState
<1>2. Content[h].account = a /\ RepBlockAt[h] = h /\ b = Balance(h)
  BY Zenon, <1>1, OwnerAssumption, RepBlockAssumption, BalanceAssumption
<1>3. BalanceOf(p) = c
  BY Zenon, VisitIs DEF LedgerInv
<1>4. rep = 0 <=> p = 0
  BY Zenon, RepresentativeOfIs, RepBlockAssumption, BlockFields, NotZero
<1>5. b \in Int /\ c \in Int /\ e \in Int
  BY BalanceAssumption, BlockFields, BlocksAssumption DEF BalanceBefore
<1>6. /\ representation' = IF rep = 0 THEN RepresentationAdd(representation, h, e)
                           ELSE RepresentationAdd(RepresentationAdd(representation, h, e), rep, c)
      /\ ChangeLatest(a, p, rep, c, accounts[a].block_count - 1)
      /\ blocks_info' = BlockInfoPut(a, p, c, accounts[a].block_count - 1)
  BY Zenon, <1>2, <1>3 DEF RollbackState
<1>7. WeightsBack(h, rep, c)
  <2> SUFFICES ASSUME NEW r \in Account \cup {0}
               PROVE  representation'[r] =
                          Wrap(representation[r] - (IF Representative(h) = r THEN b ELSE 0)
                               + (IF p # 0 /\ Representative(rep) = r THEN c ELSE 0))
    BY Zenon, <1>2 DEF WeightsBack
  <2>1. representation \in Weights /\ representation[r] \in Int
    BY BlocksAssumption DEF LedgerInv, TypeOK, Weights
  <2> HIDE DEF e, rep, c
  <2>2. rep = 0 => representation'[r] = Wrap(representation[r] + (IF Representative(h) = r THEN e ELSE 0))
    BY <1>5, <1>6, <2>1, RepresentationAddIs
  <2>3. rep # 0 => representation'[r] = Wrap(representation[r] + (IF Representative(h) = r THEN e ELSE 0)
                                                               + (IF Representative(rep) = r THEN c ELSE 0))
    BY <1>5, <1>6, <2>1, RepresentationAddTwice
  <2> HIDE DEF b
  <2>4. e = -b
    BY Zenon DEF e
  <2> QED
    BY <1>4, <1>5, <2>1, <2>2, <2>3, <2>4
<1>8. Tallies(a) /\ accounts'[a].block_count = IF p = 0 THEN 0 ELSE accounts[a].block_count - 1
  <2> HIDE DEF rep, c
  <2> QED
    BY ZenonT(30), <1>1, <1>6, <1>7, TalliesBack
<1>9. \A x \in Hash : blocks_info[x].account # 0 => blocks_info'[x].account # 0
  <2>1. p \in Hash \cup {0}
    BY Zenon, BlockFields
  <2> HIDE DEF p, c
  <2> QED
    BY ZenonT(30), <1>1, <1>6, <2>1, PutKeeps
<1> QED
  BY Zenon, <1>8, <1>9 DEF CountsDown

LEMMA RollbackTallies ==
    ASSUME WellOrdered, LedgerInv, NEW h \in Hash,
           \/ RollbackSend(h) \/ RollbackReceive(h) \/ RollbackOpen(h)
           \/ RollbackChange(h) \/ RollbackState(h)
    PROVE  Tallies(Owner[h]) /\ CountsDown(h)
  BY Zenon, RollbackSendTallies, RollbackReceiveTallies, RollbackOpenTallies,
     RollbackChangeTallies,
     RollbackStateTallies

=============================================================================
