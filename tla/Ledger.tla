------------------------------ MODULE Ledger ------------------------------
(***************************************************************************)
(* rai::ledger over the tables of rai::block_store: what processing a      *)
(* block and rolling one back do to the tables.                            *)
(*                                                                         *)
(* A table is a function or a set; an absent key has the zero value that   *)
(* the code's getters leave behind.  One write transaction covers a call   *)
(* of process, so it is one step.  A rollback is a recursion over several  *)
(* accounts: each visit of a head block is a step and the C++ call stack   *)
(* is the variable rollbacks; nothing else is processed until it is empty. *)
(*                                                                         *)
(* PendingKept, WeightKept, FrontierKept, ChangeLatestReopening,           *)
(* BlockInfoPutLate, StateResultAnyAmount, SendResultOverspending,         *)
(* OpenResultAgain, RollbackCascadeToOpen, RollbackCascadeOnCaller and     *)
(* RollbackSpin are the definitions that follow them with a mistake in     *)
(* them: the properties of LedgerProperties tell them apart.  Nothing uses *)
(* them.                                                                   *)
(***************************************************************************)
EXTENDS LedgerBlocks, Integers, Sequences

CONSTANT BlockInfoMax   \* block_store::block_info_max, 32 in the code

ASSUME BlockInfoMaxAssumption == BlockInfoMax \in Nat \ {0, 1}

VARIABLES
    blocks,           \* the hashes stored in the five block tables
    successor,        \* hash -> successor stored with the block, 0 if none
    accounts,         \* account -> account_info
    frontiers,        \* hash -> account, for the legacy blocks that are heads
    pending,          \* the sends that can be received
    representation,   \* representative -> weight
    blocks_info,      \* hash -> account and balance at every BlockInfoMax-th block
    checksum,         \* xor of hashes: the set of those that occur an odd number of times
    rollbacks         \* the rollback calls in progress, innermost last

tables == <<blocks, successor, accounts, frontiers, pending, representation,
            blocks_info, checksum>>
vars == <<tables, rollbacks>>

NoAccount == [head |-> 0, rep_block |-> 0, open_block |-> 0, balance |-> 0, block_count |-> 0]
NoBlockInfo == [account |-> 0, balance |-> 0]

AccountInfo == [head : Hash \cup {0}, rep_block : Hash \cup {0}, open_block : Hash \cup {0},
                balance : Int, block_count : Int]
PendingEntry == [account : Number, hash : Hash, source : Account \cup {0}, amount : Int]
BlockInfo == [account : Account \cup {0}, balance : Int]
Call == [target : Hash, account : Account \cup {0}]

-----------------------------------------------------------------------------
(* The tables. *)

Opened(a) == a \in Account /\ accounts[a].head # 0

PendingAt(a, h) == {p \in pending : p.account = a /\ p.hash = h}
PendingExists(a, h) == PendingAt(a, h) # {}
PendingGet(a, h) == CHOOSE p \in pending : p.account = a /\ p.hash = h
PendingKept(a, h) == pending
PendingDel(a, h) == pending \ PendingAt(a, h)
PendingPut(a, h, source, amount) ==
    PendingDel(a, h) \cup {[account |-> a, hash |-> h, source |-> source, amount |-> amount]}

(* representation_add names the representative by the block that chose it. *)
RepresentationAdd(table, h, amount) ==
    [table EXCEPT ![Representative(h)] = Wrap(@ + amount)]

(* The weights without account a's, which is nothing for a new account. *)
WeightKept(a) == representation
WeightWithout(a) ==
    IF accounts[a].rep_block = 0 THEN representation
    ELSE RepresentationAdd(representation, accounts[a].rep_block, -accounts[a].balance)

FrontierKept(h) == frontiers
FrontierDel(h) == [x \in Hash |-> IF x = h THEN 0 ELSE frontiers[x]]
FrontierMove(from, to, a) == [frontiers EXCEPT ![from] = 0, ![to] = a]

(* Storing a block makes it the successor of its predecessor, and clears   *)
(* its own successor.                                                      *)
WithBlock(table, h) ==
    [x \in Hash |-> IF x = h THEN 0 ELSE IF x = Previous(h) THEN h ELSE table[x]]

BlockPut(h) ==
    /\ blocks' = blocks \cup {h}
    /\ successor' = WithBlock(successor, h)

(* block_del and block_successor_clear, which stores the predecessor anew. *)
BlockDel(h) ==
    /\ blocks' = blocks \ {h}
    /\ successor' = [(IF Previous(h) = 0 THEN successor ELSE WithBlock(successor, Previous(h)))
                        EXCEPT ![h] = 0]

Toggle(sum, h) == IF h \in sum THEN sum \ {h} ELSE sum \cup {h}

ChangeLatestReopening(a, h, rep_block, balance, count) ==
    /\ accounts' = [accounts EXCEPT ![a] =
            IF h = 0 THEN NoAccount
            ELSE [head |-> h, rep_block |-> rep_block, open_block |-> h,
                  balance |-> balance, block_count |-> count]]
    /\ checksum' = IF h = 0 THEN checksum ELSE Toggle(checksum, h)

(* The new head h of account a, 0 when the account loses its last block. *)
ChangeLatest(a, h, rep_block, balance, count) ==
    /\ accounts' = [accounts EXCEPT ![a] =
            IF h = 0 THEN NoAccount
            ELSE [head |-> h, rep_block |-> rep_block,
                  open_block |-> IF Opened(a) THEN accounts[a].open_block ELSE h,
                  balance |-> balance, block_count |-> count]]
    /\ LET out == IF Opened(a) THEN Toggle(checksum, accounts[a].head) ELSE checksum
       IN  checksum' = IF h = 0 THEN out ELSE Toggle(out, h)

BlockInfoPutLate(a, h, balance, count) ==
    IF h # 0 /\ count % BlockInfoMax = 1
    THEN [blocks_info EXCEPT ![h] = [account |-> a, balance |-> balance]]
    ELSE blocks_info

(* The index entry that change_latest writes. *)
BlockInfoPut(a, h, balance, count) ==
    IF h # 0 /\ count % BlockInfoMax = 0
    THEN [blocks_info EXCEPT ![h] = [account |-> a, balance |-> balance]]
    ELSE blocks_info

(* Rolling back a legacy block moves the index entry of the account. *)
BlockInfoUndo(a, h, balance, count) ==
    [BlockInfoPut(a, Previous(h), balance, count - 1)
        EXCEPT ![h] = IF count % BlockInfoMax = 0 THEN NoBlockInfo ELSE @]

-----------------------------------------------------------------------------
(* Questions answered by walking the stored blocks. *)

(* rai::ledger::account: up the chain to an indexed block, a state block   *)
(* or the head.  The block asked for is not itself looked up in the index. *)
AccountAbove[x \in Hash] ==
    IF Type(x) = "state" THEN Content[x].account
    ELSE IF blocks_info[x].account # 0 THEN blocks_info[x].account
    ELSE IF successor[x] = 0 THEN frontiers[x]
    ELSE AccountAbove[successor[x]]

AccountOf(h) ==
    IF Type(h) = "state" THEN Content[h].account
    ELSE IF successor[h] = 0 THEN frontiers[h]
    ELSE AccountAbove[successor[h]]

(* The amount and balance visitors, which call each other. *)
Visit[q \in {"amount", "balance"} \X Number] ==
    LET h == q[2]
        before == Visit[<<"balance", Previous(h)>>]
        received == Visit[<<"amount", Link(h)>>]
    IN  IF h \notin Hash THEN IF h = GenesisAccount THEN GenesisAmount ELSE 0
        ELSE IF q[1] = "amount"
        THEN CASE Type(h) \in {"send", "state"} ->
                    IF Balance(h) < before THEN before - Balance(h) ELSE Balance(h) - before
               [] Type(h) \in {"receive", "open"} -> received
               [] Type(h) = "change" -> 0
        ELSE CASE Type(h) \in {"send", "state"} -> Balance(h)
               [] Type(h) = "open" -> received
               [] Type(h) \in {"receive", "change"} /\ blocks_info[h].account # 0 ->
                    blocks_info[h].balance
               [] Type(h) = "receive" /\ blocks_info[h].account = 0 -> Wrap(before + received)
               [] Type(h) = "change" /\ blocks_info[h].account = 0 -> before

AmountOf(h) == Visit[<<"amount", h>>]
BalanceOf(h) == Visit[<<"balance", h>>]

(* The block that chose the representative in force at h. *)
RepresentativeOf[h \in Hash] ==
    IF Type(h) \in {"open", "change", "state"} THEN h ELSE RepresentativeOf[Previous(h)]

-----------------------------------------------------------------------------
(* Processing a block: the ladder of checks of each type ... *)

StateResultAnyAmount(h) ==
    LET a == Content[h].account
        info == accounts[a]
        is_send == Opened(a) /\ Balance(h) < info.balance
    IN  IF h \in blocks THEN "old"
        ELSE IF Signer(h) # a THEN "bad_signature"
        ELSE IF a = 0 THEN "opened_burn_account"
        ELSE IF Opened(a) /\ Previous(h) = 0 THEN "fork"
        ELSE IF Opened(a) /\ Previous(h) \notin blocks THEN "gap_previous"
        ELSE IF Opened(a) /\ Previous(h) # info.head THEN "fork"
        ELSE IF ~Opened(a) /\ Previous(h) # 0 THEN "gap_previous"
        ELSE IF ~Opened(a) /\ Link(h) = 0 THEN "gap_source"
        ELSE IF is_send \/ Link(h) = 0 THEN "progress"
        ELSE IF Link(h) \notin blocks THEN "gap_source"
        ELSE IF ~PendingExists(a, Link(h)) THEN "unreceivable"
        ELSE "progress"

StateResult(h) ==
    LET a == Content[h].account
        info == accounts[a]
        is_send == Opened(a) /\ Balance(h) < info.balance
        amount == IF is_send THEN info.balance - Balance(h) ELSE Balance(h) - info.balance
    IN  IF h \in blocks THEN "old"
        ELSE IF Signer(h) # a THEN "bad_signature"
        ELSE IF a = 0 THEN "opened_burn_account"
        ELSE IF Opened(a) /\ Previous(h) = 0 THEN "fork"
        ELSE IF Opened(a) /\ Previous(h) \notin blocks THEN "gap_previous"
        ELSE IF Opened(a) /\ Previous(h) # info.head THEN "fork"
        ELSE IF ~Opened(a) /\ Previous(h) # 0 THEN "gap_previous"
        ELSE IF ~Opened(a) /\ Link(h) = 0 THEN "gap_source"
        ELSE IF is_send THEN "progress"
        ELSE IF Link(h) = 0 THEN IF amount = 0 THEN "progress" ELSE "balance_mismatch"
        ELSE IF Link(h) \notin blocks THEN "gap_source"
        ELSE IF ~PendingExists(a, Link(h)) THEN "unreceivable"
        ELSE IF amount # PendingGet(a, Link(h)).amount THEN "balance_mismatch"
        ELSE "progress"

(* valid_predecessor: no legacy block stands on a state block. *)
ValidPredecessor(h) == Type(Previous(h)) \in Legacy

ChangeResult(h) ==
    LET a == frontiers[Previous(h)]
    IN  IF h \in blocks THEN "old"
        ELSE IF Previous(h) \notin blocks THEN "gap_previous"
        ELSE IF ~ValidPredecessor(h) THEN "block_position"
        ELSE IF a = 0 THEN "fork"
        ELSE IF Signer(h) # a THEN "bad_signature"
        ELSE "progress"

SendResultOverspending(h) ==
    LET a == frontiers[Previous(h)]
    IN  IF h \in blocks THEN "old"
        ELSE IF Previous(h) \notin blocks THEN "gap_previous"
        ELSE IF ~ValidPredecessor(h) THEN "block_position"
        ELSE IF a = 0 THEN "fork"
        ELSE IF Signer(h) # a THEN "bad_signature"
        ELSE "progress"

SendResult(h) ==
    LET a == frontiers[Previous(h)]
    IN  IF h \in blocks THEN "old"
        ELSE IF Previous(h) \notin blocks THEN "gap_previous"
        ELSE IF ~ValidPredecessor(h) THEN "block_position"
        ELSE IF a = 0 THEN "fork"
        ELSE IF Signer(h) # a THEN "bad_signature"
        ELSE IF accounts[a].balance < Balance(h) THEN "negative_spend"
        ELSE "progress"

ReceiveResult(h) ==
    LET a == frontiers[Previous(h)]
    IN  IF h \in blocks THEN "old"
        ELSE IF Previous(h) \notin blocks THEN "gap_previous"
        ELSE IF ~ValidPredecessor(h) THEN "block_position"
        ELSE IF Link(h) \notin blocks THEN "gap_source"
        ELSE IF a = 0 THEN "fork"
        ELSE IF Signer(h) # a THEN "bad_signature"
        ELSE IF accounts[a].head # Previous(h) THEN "gap_previous"
        ELSE IF ~PendingExists(a, Link(h)) THEN "unreceivable"
        ELSE "progress"

OpenResultAgain(h) ==
    LET a == Content[h].account
    IN  IF h \in blocks THEN "old"
        ELSE IF Link(h) \notin blocks THEN "gap_source"
        ELSE IF Signer(h) # a THEN "bad_signature"
        ELSE IF ~PendingExists(a, Link(h)) THEN "unreceivable"
        ELSE IF a = 0 THEN "opened_burn_account"
        ELSE "progress"

OpenResult(h) ==
    LET a == Content[h].account
    IN  IF h \in blocks THEN "old"
        ELSE IF Link(h) \notin blocks THEN "gap_source"
        ELSE IF Signer(h) # a THEN "bad_signature"
        ELSE IF Opened(a) THEN "fork"
        ELSE IF ~PendingExists(a, Link(h)) THEN "unreceivable"
        ELSE IF a = 0 THEN "opened_burn_account"
        ELSE "progress"

(* rai::ledger::process: the verdict on a block. *)
Result(h) ==
    CASE Type(h) = "state"   -> StateResult(h)
      [] Type(h) = "change"  -> ChangeResult(h)
      [] Type(h) = "send"    -> SendResult(h)
      [] Type(h) = "receive" -> ReceiveResult(h)
      [] Type(h) = "open"    -> OpenResult(h)

(* ... and what an accepted block does to the tables. *)

Accepted(h, type) ==
    /\ rollbacks = <<>>
    /\ Type(h) = type
    /\ Result(h) = "progress"

ProcessState(h) ==
    LET a == Content[h].account
        info == accounts[a]
        is_send == Opened(a) /\ Balance(h) < info.balance
    IN  /\ Accepted(h, "state")
        /\ BlockPut(h)
        /\ representation' = RepresentationAdd(WeightWithout(a), h, Balance(h))
        /\ pending' = IF is_send THEN PendingPut(Link(h), h, a, info.balance - Balance(h))
                      ELSE IF Link(h) # 0 THEN PendingDel(a, Link(h))
                      ELSE pending
        /\ ChangeLatest(a, h, h, Balance(h), info.block_count + 1)
        /\ frontiers' = FrontierDel(info.head)
        /\ UNCHANGED <<blocks_info, rollbacks>>

ProcessChange(h) ==
    LET a == frontiers[Previous(h)]
        info == accounts[a]
        balance == BalanceOf(Previous(h))
    IN  /\ Accepted(h, "change")
        /\ BlockPut(h)
        /\ representation' =
               RepresentationAdd(RepresentationAdd(representation, h, balance),
                                 info.rep_block, -balance)
        /\ ChangeLatest(a, h, h, info.balance, info.block_count + 1)
        /\ blocks_info' = BlockInfoPut(a, h, info.balance, info.block_count + 1)
        /\ frontiers' = FrontierMove(Previous(h), h, a)
        /\ UNCHANGED <<pending, rollbacks>>

ProcessSend(h) ==
    LET a == frontiers[Previous(h)]
        info == accounts[a]
        amount == info.balance - Balance(h)
    IN  /\ Accepted(h, "send")
        /\ representation' = RepresentationAdd(representation, info.rep_block, -amount)
        /\ BlockPut(h)
        /\ ChangeLatest(a, h, info.rep_block, Balance(h), info.block_count + 1)
        /\ blocks_info' = BlockInfoPut(a, h, Balance(h), info.block_count + 1)
        /\ pending' = PendingPut(Link(h), h, a, amount)
        /\ frontiers' = FrontierMove(Previous(h), h, a)
        /\ UNCHANGED rollbacks

ProcessReceive(h) ==
    LET a == frontiers[Previous(h)]
        info == accounts[a]
        amount == PendingGet(a, Link(h)).amount
        balance == Wrap(info.balance + amount)
    IN  /\ Accepted(h, "receive")
        /\ pending' = PendingDel(a, Link(h))
        /\ BlockPut(h)
        /\ ChangeLatest(a, h, info.rep_block, balance, info.block_count + 1)
        /\ blocks_info' = BlockInfoPut(a, h, balance, info.block_count + 1)
        /\ representation' = RepresentationAdd(representation, info.rep_block, amount)
        /\ frontiers' = FrontierMove(Previous(h), h, a)
        /\ UNCHANGED rollbacks

ProcessOpen(h) ==
    LET a == Content[h].account
        amount == PendingGet(a, Link(h)).amount
        count == accounts[a].block_count + 1
    IN  /\ Accepted(h, "open")
        /\ pending' = PendingDel(a, Link(h))
        /\ BlockPut(h)
        /\ ChangeLatest(a, h, h, amount, count)
        /\ blocks_info' = BlockInfoPut(a, h, amount, count)
        /\ representation' = RepresentationAdd(representation, h, amount)
        /\ frontiers' = [frontiers EXCEPT ![h] = a]
        /\ UNCHANGED rollbacks

-----------------------------------------------------------------------------
(* Rolling back.  The genesis block is never voted away. *)

RollbackStart(h) ==
    /\ rollbacks = <<>>
    /\ h \in blocks \ {Genesis}
    /\ rollbacks' = <<[target |-> h, account |-> AccountOf(h)]>>
    /\ UNCHANGED tables

Innermost == rollbacks[Len(rollbacks)]

(* The loop of ledger::rollback visits the head of the target's account    *)
(* for as long as the target is stored.                                    *)
Visiting(h, type) ==
    /\ rollbacks # <<>>
    /\ Innermost.target \in blocks
    /\ h = accounts[Innermost.account].head
    /\ Type(h) = type

(* The block takes back a send: its pending entry must be there first. *)
UndoesSend(h) ==
    \/ Type(h) = "send"
    \/ Type(h) = "state" /\ Balance(h) < BalanceOf(Previous(h))

(* The entry is gone, so the destination received it: roll its head back. *)
RollbackCascadeToOpen(h) ==
    /\ \E type \in {"send", "state"} : Visiting(h, type)
    /\ UndoesSend(h)
    /\ ~PendingExists(Link(h), h)
    /\ Opened(Link(h))
    /\ LET first == accounts[Link(h)].open_block
       IN  rollbacks' = Append(rollbacks, [target |-> first, account |-> AccountOf(first)])
    /\ UNCHANGED tables

RollbackCascadeOnCaller(h) ==
    /\ \E type \in {"send", "state"} : Visiting(h, type)
    /\ UndoesSend(h)
    /\ ~PendingExists(Link(h), h)
    /\ Opened(Link(h))
    /\ rollbacks' = Append(rollbacks, [target |-> accounts[Link(h)].head,
                                       account |-> Innermost.account])
    /\ UNCHANGED tables

RollbackCascade(h) ==
    /\ \E type \in {"send", "state"} : Visiting(h, type)
    /\ UndoesSend(h)
    /\ ~PendingExists(Link(h), h)
    /\ Opened(Link(h))
    /\ LET latest == accounts[Link(h)].head
       IN  rollbacks' = Append(rollbacks, [target |-> latest, account |-> AccountOf(latest)])
    /\ UNCHANGED tables

RollbackSpin ==
    /\ rollbacks # <<>>
    /\ Innermost.target \notin blocks
    /\ UNCHANGED vars

RollbackReturn ==
    /\ rollbacks # <<>>
    /\ Innermost.target \notin blocks
    /\ rollbacks' = SubSeq(rollbacks, 1, Len(rollbacks) - 1)
    /\ UNCHANGED tables

RollbackSend(h) ==
    LET key == PendingGet(Link(h), h)
        a == key.source
        info == accounts[a]
        before == BalanceOf(Previous(h))
    IN  /\ Visiting(h, "send")
        /\ PendingExists(Link(h), h)
        /\ pending' = PendingDel(Link(h), h)
        /\ representation' = RepresentationAdd(representation, RepresentativeOf[h], key.amount)
        /\ ChangeLatest(a, Previous(h), info.rep_block, before, info.block_count - 1)
        /\ BlockDel(h)
        /\ frontiers' = FrontierMove(h, Previous(h), a)
        /\ blocks_info' = BlockInfoUndo(a, h, before, info.block_count)
        /\ UNCHANGED rollbacks

RollbackReceive(h) ==
    LET a == AccountOf(h)
        info == accounts[a]
        amount == AmountOf(Link(h))
        before == BalanceOf(Previous(h))
    IN  /\ Visiting(h, "receive")
        /\ representation' = RepresentationAdd(representation, RepresentativeOf[h], -amount)
        /\ ChangeLatest(a, Previous(h), RepresentativeOf[Previous(h)], before, info.block_count - 1)
        /\ BlockDel(h)
        /\ pending' = PendingPut(a, Link(h), AccountOf(Link(h)), amount)
        /\ frontiers' = FrontierMove(h, Previous(h), a)
        /\ blocks_info' = BlockInfoUndo(a, h, before, info.block_count)
        /\ UNCHANGED rollbacks

RollbackOpen(h) ==
    LET a == AccountOf(h)
        amount == AmountOf(Link(h))
    IN  /\ Visiting(h, "open")
        /\ representation' = RepresentationAdd(representation, RepresentativeOf[h], -amount)
        /\ ChangeLatest(a, 0, 0, 0, 0)
        /\ BlockDel(h)
        /\ pending' = PendingPut(a, Link(h), AccountOf(Link(h)), amount)
        /\ frontiers' = [frontiers EXCEPT ![h] = 0]
        /\ UNCHANGED <<blocks_info, rollbacks>>

RollbackChange(h) ==
    LET rep == RepresentativeOf[Previous(h)]
        a == AccountOf(Previous(h))
        info == accounts[a]
        balance == BalanceOf(Previous(h))
    IN  /\ Visiting(h, "change")
        /\ representation' =
               RepresentationAdd(RepresentationAdd(representation, rep, balance), h, -balance)
        /\ BlockDel(h)
        /\ ChangeLatest(a, Previous(h), rep, info.balance, info.block_count - 1)
        /\ frontiers' = FrontierMove(h, Previous(h), a)
        /\ blocks_info' = BlockInfoUndo(a, h, info.balance, info.block_count)
        /\ UNCHANGED <<pending, rollbacks>>

(* The code moves the weights before it waits for the pending entry and    *)
(* the rest after; the nested rollbacks add to the weights and never read  *)
(* them, so the order does not show.  change_latest is called as for a     *)
(* legacy block here, so it may index the state block below.               *)
RollbackState(h) ==
    LET a == Content[h].account
        info == accounts[a]
        before == BalanceOf(Previous(h))
        rep == IF Previous(h) = 0 THEN 0 ELSE RepresentativeOf[Previous(h)]
        moved == RepresentationAdd(representation, h, -Balance(h))
    IN  /\ Visiting(h, "state")
        /\ UndoesSend(h) => PendingExists(Link(h), h)
        /\ representation' = IF rep = 0 THEN moved ELSE RepresentationAdd(moved, rep, before)
        /\ pending' = IF UndoesSend(h) THEN PendingDel(Link(h), h)
                      ELSE IF Link(h) # 0
                      THEN PendingPut(a, Link(h), AccountOf(Link(h)), Wrap(Balance(h) - before))
                      ELSE pending
        /\ ChangeLatest(a, Previous(h), rep, before, info.block_count - 1)
        /\ blocks_info' = BlockInfoPut(a, Previous(h), before, info.block_count - 1)
        /\ frontiers' = IF Previous(h) # 0 /\ Type(Previous(h)) \in Legacy
                        THEN [frontiers EXCEPT ![Previous(h)] = a] ELSE frontiers
        /\ BlockDel(h)
        /\ UNCHANGED rollbacks

-----------------------------------------------------------------------------

(* genesis::initialize *)
Init ==
    /\ blocks = {Genesis}
    /\ successor = [h \in Hash |-> 0]
    /\ accounts = [a \in Account |->
            IF a = GenesisAccount
            THEN [head |-> Genesis, rep_block |-> Genesis, open_block |-> Genesis,
                  balance |-> GenesisAmount, block_count |-> 1]
            ELSE NoAccount]
    /\ frontiers = [h \in Hash |-> IF h = Genesis THEN GenesisAccount ELSE 0]
    /\ pending = {}
    /\ representation = [a \in Account \cup {0} |->
            IF a = GenesisAccount THEN GenesisAmount ELSE 0]
    /\ blocks_info = [h \in Hash |-> NoBlockInfo]
    /\ checksum = {Genesis}
    /\ rollbacks = <<>>

Process ==
    \E h \in Hash :
        \/ ProcessState(h) \/ ProcessChange(h) \/ ProcessSend(h)
        \/ ProcessReceive(h) \/ ProcessOpen(h)

Rollback ==
    \/ \E h \in Hash :
            \/ RollbackCascade(h)
            \/ RollbackSend(h) \/ RollbackReceive(h) \/ RollbackOpen(h)
            \/ RollbackChange(h) \/ RollbackState(h)
    \/ RollbackReturn

Next ==
    \/ Process
    \/ \E h \in Hash : RollbackStart(h)
    \/ Rollback

(* A rollback is one call: it runs until it returns. *)
Spec == Init /\ [][Next]_vars /\ WF_vars(Rollback)

=============================================================================
