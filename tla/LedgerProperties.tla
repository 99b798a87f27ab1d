-------------------------- MODULE LedgerProperties --------------------------
(***************************************************************************)
(* What makes the ledger correct: its tables say nothing but what the set  *)
(* of stored blocks says, at every step of a rollback too, and that set is *)
(* the one BlockLattice promises.                                          *)
(***************************************************************************)
EXTENDS Ledger, BlockSets, FiniteSetsExt

Chain(a) == {h \in blocks : Owner[h] = a}

OpenedAccounts == {a \in Account : Chain(a) # {}}

Received(h) == \E x \in blocks : Source(x) = h

TypeOK ==
    /\ blocks \subseteq Hash
    /\ successor \in [Hash -> Hash \cup {0}]
    /\ accounts \in [Account -> AccountInfo]
    /\ frontiers \in [Hash -> Account \cup {0}]
    /\ pending \subseteq PendingEntry
    /\ representation \in [Account \cup {0} -> 0 .. GenesisAmount]
    /\ blocks_info \in [Hash -> BlockInfo]
    /\ checksum \subseteq Hash
    /\ rollbacks \in Seq(Call)

(* account_info describes the account's chain: its only block without a    *)
(* successor, its first block, the balance and the representative in force *)
(* (ledger::change_latest, from ten callers).                              *)
AccountsAreChains ==
    \A a \in Account :
        LET chain == Chain(a)
            info == accounts[a]
        IN  IF chain = {} THEN info = NoAccount
            ELSE /\ info.head \in chain
                 /\ \A h \in chain : h = info.head <=> \A x \in blocks : Previous(x) # h
                 /\ info.open_block \in chain
                 /\ Previous(info.open_block) = 0
                 /\ info.balance = BalanceAt[info.head]
                 /\ info.rep_block = RepBlockAt[info.head]

(* Every stored block names the stored block above it, and only that one   *)
(* (set_predecessor when a block is put, block_successor_clear when the    *)
(* block above is rolled back).                                            *)
SuccessorsMatch ==
    \A h \in Hash :
        IF successor[h] = 0 THEN \A x \in blocks : Previous(x) # h
        ELSE successor[h] \in blocks /\ Previous(successor[h]) = h /\ h \in blocks

(* The pending table holds exactly the sends nobody has received, with the *)
(* account that sent and the amount (four places put entries, six delete   *)
(* them, two rebuild them when a receive is rolled back).                  *)
PendingIsUnreceived ==
    pending = {[account |-> Link(h), hash |-> h, source |-> Owner[h], amount |-> AmountAt[h]] :
                   h \in {x \in blocks : IsSend(x) /\ ~Received(x)}}

Total(f, S) == MapThenSumSet(LAMBDA x : f[x], S)

Balances == [a \in Account |-> accounts[a].balance]

Amounts == [p \in pending |-> p.amount]

(* The accounts that chose r. *)
Voters(r) == {a \in OpenedAccounts : Representative(accounts[a].rep_block) = r}

(* A representative's weight is the sum of the balances of the accounts    *)
(* that chose it (representation_add only ever adds differences).          *)
WeightsAreBalances ==
    \A r \in Account \cup {0} : representation[r] = Total(Balances, Voters(r))

(* Nothing is created or lost: the balances and what is under way add up   *)
(* to the genesis amount.                                                  *)
Conservation ==
    Total(Balances, OpenedAccounts) + Total(Amounts, pending) = GenesisAmount

(* The frontier table names the heads that are legacy blocks: it is what   *)
(* keeps a legacy block off a chain that has moved on ("this also prevents *)
(* old blocks from being inserted on top of state blocks").                *)
FrontiersAreLegacyHeads ==
    \A h \in Hash :
        frontiers[h] = IF /\ h \in blocks
                          /\ Type(h) \in Legacy
                          /\ accounts[Owner[h]].head = h
                       THEN Owner[h] ELSE 0

(* The checksum is the xor of the heads of all accounts.                   *)
ChecksumIsHeads == checksum = {accounts[a].head : a \in OpenedAccounts}

(* The index never misleads ledger::account and the balance visitor, not   *)
(* even by an entry left behind for a block that is gone.                  *)
IndexIsRight ==
    \A h \in Hash :
        blocks_info[h].account # 0 =>
            blocks_info[h] = [account |-> Owner[h], balance |-> BalanceAt[h]]

(* The block count of an account is the length of its chain, and every     *)
(* BlockInfoMax-th block has an index entry if it is a legacy block:       *)
(* block_info_del requires the entry that it deletes.                      *)
IndexIsComplete ==
    /\ \A a \in Account : accounts[a].block_count = Cardinality(Chain(a))
    /\ \A h \in blocks :
        /\ Type(h) \in Legacy
        /\ Cardinality({x \in Chain(Owner[h]) : x <= h}) % BlockInfoMax = 0
        => blocks_info[h].account # 0

(* The checks of process accept a block if, and only if, it is valid with  *)
(* respect to the stored blocks.                                           *)
AcceptsTheValid ==
    \A h \in Hash \ blocks : Result(h) = "progress" <=> Valid(blocks, h)

-----------------------------------------------------------------------------

(* A rollback, however far it cascades through other accounts, removes     *)
(* only blocks that stand on the block it was asked to remove.             *)
OnlyDependentsRemoved ==
    [][\A h \in blocks \ blocks' : rollbacks[1].target \in Ancestors[h]]_vars

(* Every rollback call in progress works on the chain of its target, which *)
(* is not the genesis block, though the target of an inner call is found   *)
(* by account and its account by walking the chain.                        *)
CallsOnChain ==
    \A i \in 1 .. Len(rollbacks) :
        /\ rollbacks[i].target # Genesis
        /\ rollbacks[i].account = Owner[rollbacks[i].target]

(* An inner call removes what stands on the target of the outer one: the   *)
(* recursion is well founded.                                              *)
CallsNest ==
    /\ CallsOnChain
    /\ \A i \in 2 .. Len(rollbacks) :
           rollbacks[i].target \in blocks =>
               rollbacks[1].target \in Ancestors[rollbacks[i].target]

(* A rollback returns: the loops that wait for a pending entry end.        *)
RollbackReturns == rollbacks # <<>> ~> rollbacks = <<>>

(* The inductive invariant: together these describe every table but the    *)
(* sums and counts.                                                        *)
LedgerInv ==
    /\ TypeOK
    /\ Sound(blocks)
    /\ AccountsAreChains
    /\ SuccessorsMatch
    /\ PendingIsUnreceived
    /\ FrontiersAreLegacyHeads
    /\ IndexIsRight
    /\ CallsOnChain

-----------------------------------------------------------------------------
(* What assertions say of the ledger. *)

(* A block judged a fork has a rival of the same root in the ledger, which *)
(* the assertions of ledger::forked_block take for granted.                *)
ForkHasRival ==
    \A h \in Hash : Result(h) = "fork" => \E x \in blocks : Root(x) = Root(h)

=============================================================================
