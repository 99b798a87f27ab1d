--------------------------- MODULE LedgerChanges ----------------------------
(***************************************************************************)
(* How the tables of the ledger change when a block is added, and when the *)
(* head of an account is removed, whatever the type of the block.          *)
(***************************************************************************)
EXTENDS LedgerProperties

(* Any set of hashes has a least one: what induction over blocks takes.    *)
WellOrdered == \A S \in SUBSET Hash : S # {} => \E n \in S : \A m \in S : n <= m

(* The pending entry of a send. *)
Entry(h) == [account |-> Link(h), hash |-> h, source |-> Owner[h], amount |-> AmountAt[h]]

Weights == [Account \cup {0} -> 0 .. GenesisAmount]

(* The frontiers once the legacy block h is the head of its account. *)
FrontiersOver(h) ==
    [x \in Hash |-> IF x = h THEN Owner[h] ELSE IF x = Previous(h) THEN 0 ELSE frontiers[x]]

(* What adding a block does, but for the sums and counts ... *)
AddsBlock(h) ==
    LET a == Owner[h]
    IN  /\ blocks' = blocks \cup {h}
        /\ successor' = WithBlock(successor, h)
        /\ \E count \in Int :
               accounts' = [accounts EXCEPT ![a] =
                   [head |-> h, rep_block |-> RepBlockAt[h],
                    open_block |-> IF Opened(a) THEN accounts[a].open_block ELSE h,
                    balance |-> BalanceAt[h], block_count |-> count]]
        /\ frontiers' = [x \in Hash |-> IF x = h THEN IF Type(h) \in Legacy THEN a ELSE 0
                                        ELSE IF x = Previous(h) THEN 0 ELSE frontiers[x]]
        /\ pending' = {p \in pending : p.hash # Source(h)}
                           \cup (IF IsSend(h) THEN {Entry(h)} ELSE {})
        /\ blocks_info' \in {blocks_info, [blocks_info EXCEPT ![h] = [account |-> a, balance |-> BalanceAt[h]]]}
        /\ representation' \in [Account \cup {0} -> 0 .. GenesisAmount]
        /\ checksum' \subseteq Hash
        /\ rollbacks' = rollbacks

(* ... and what removing the head of an account does. *)
RemovesBlock(h) ==
    LET a == Owner[h]
    IN  /\ blocks' = blocks \ {h}
        /\ successor' = [x \in Hash |-> IF x = h \/ x = Previous(h) THEN 0 ELSE successor[x]]
        /\ \E count \in Int :
               accounts' = [accounts EXCEPT ![a] =
                   IF Previous(h) = 0 THEN NoAccount
                   ELSE [head |-> Previous(h), rep_block |-> RepBlockAt[Previous(h)],
                         open_block |-> accounts[a].open_block,
                         balance |-> BalanceAt[Previous(h)], block_count |-> count]]
        /\ frontiers' = [x \in Hash |->
                            IF x = h THEN 0
                            ELSE IF x = Previous(h) THEN IF Type(x) \in Legacy THEN a ELSE 0
                            ELSE frontiers[x]]
        /\ pending' = {p \in pending : p.hash # h}
                           \cup (IF Source(h) # 0 THEN {Entry(Source(h))} ELSE {})
        /\ blocks_info' \in [Hash -> BlockInfo]
        /\ \A x \in Hash :
               \/ blocks_info'[x] = blocks_info[x]
               \/ blocks_info'[x].account = 0
               \/ blocks_info'[x] = [account |-> Owner[x], balance |-> BalanceAt[x]]
        /\ representation' \in [Account \cup {0} -> 0 .. GenesisAmount]
        /\ checksum' \subseteq Hash
        /\ rollbacks' = rollbacks

-----------------------------------------------------------------------------
(* What an account with this account_info adds to the weight of r. *)
ShareOf(info, r) ==
    IF info.head # 0 /\ Representative(info.rep_block) = r THEN info.balance ELSE 0

(* A step on account a takes its old balance from one weight and adds the  *)
(* new one to another, and exchanges its heads in the checksum ...         *)
Tallies(a) ==
    /\ \A r \in Account \cup {0} :
           representation'[r] =
               Wrap(representation[r] - ShareOf(accounts[a], r) + ShareOf(accounts'[a], r))
    /\ LET out == IF Opened(a) THEN Toggle(checksum, accounts[a].head) ELSE checksum
       IN  checksum' = IF accounts'[a].head = 0 THEN out ELSE Toggle(out, accounts'[a].head)

(* ... and counts its blocks, which decides on the index entries.          *)
CountsUp(h) ==
    LET count == accounts[Owner[h]].block_count + 1
    IN  /\ accounts'[Owner[h]].block_count = count
        /\ blocks_info' = IF Type(h) \in Legacy THEN BlockInfoPut(Owner[h], h, BalanceAt[h], count)
                          ELSE blocks_info

CountsDown(h) ==
    /\ accounts'[Owner[h]].block_count =
           IF Previous(h) = 0 THEN 0 ELSE accounts[Owner[h]].block_count - 1
    /\ \A x \in Hash \ {h} : blocks_info[x].account # 0 => blocks_info'[x].account # 0

=============================================================================
