------------------------------ MODULE MCBlocks ------------------------------
(* Writing sets of blocks for model checking, and what their contents      *)
(* determine: the values of the constants of LedgerBlocks.                 *)
EXTENDS LedgerBlocks

CONSTANTS Gen, Ann, Bob   \* the genesis account and two others

MCAccount == {Gen, Ann, Bob}

SendB(previous, destination, balance, signer) ==
    [type |-> "send", account |-> 0, previous |-> previous, link |-> destination,
     balance |-> balance, representative |-> 0, signer |-> signer]
ReceiveB(previous, source, signer) ==
    [type |-> "receive", account |-> 0, previous |-> previous, link |-> source,
     balance |-> 0, representative |-> 0, signer |-> signer]
OpenB(account, source, representative) ==
    [type |-> "open", account |-> account, previous |-> 0, link |-> source,
     balance |-> 0, representative |-> representative, signer |-> account]
ChangeB(previous, representative, signer) ==
    [type |-> "change", account |-> 0, previous |-> previous, link |-> 0,
     balance |-> 0, representative |-> representative, signer |-> signer]
StateB(account, previous, representative, balance, link) ==
    [type |-> "state", account |-> account, previous |-> previous, link |-> link,
     balance |-> balance, representative |-> representative, signer |-> account]

OwnerTable ==
    LET owner[h \in Hash] ==
            IF Content[h].type \in {"open", "state"} THEN Content[h].account
            ELSE owner[Content[h].previous]
    IN  [h \in Hash |-> owner[h]]

(* The amount and the balance of a block depend on each other's. *)
MCMoves ==
    LET moves[h \in Hash \cup {0}] ==
            IF h = 0 THEN [amount |-> 0, balance |-> 0]
            ELSE LET c == Content[h]
                     before == moves[c.previous].balance
                     received == IF c.link \in Hash THEN moves[c.link].amount
                                 ELSE IF c.link = GenesisAccount THEN GenesisAmount ELSE 0
                 IN  CASE c.type \in {"send", "state"} ->
                            [amount |-> IF c.balance < before THEN before - c.balance
                                        ELSE c.balance - before,
                             balance |-> c.balance]
                       [] c.type = "open" -> [amount |-> received, balance |-> received]
                       [] c.type = "receive" ->
                            [amount |-> received, balance |-> Wrap(before + received)]
                       [] c.type = "change" -> [amount |-> 0, balance |-> before]
    IN  moves

AmountTable == [h \in Hash |-> MCMoves[h].amount]
BalanceTable == [h \in Hash |-> MCMoves[h].balance]

RepBlockTable ==
    LET rep[h \in Hash] ==
            IF Content[h].type \in {"open", "change", "state"} THEN h
            ELSE rep[Content[h].previous]
    IN  [h \in Hash |-> rep[h]]

(* TLC evaluates a table once when a constant reaches it by two names. *)
MCOwner == OwnerTable
MCAmountAt == AmountTable
MCBalanceAt == BalanceTable
MCRepBlockAt == RepBlockTable

=============================================================================
