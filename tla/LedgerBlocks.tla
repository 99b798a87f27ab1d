--------------------------- MODULE LedgerBlocks ---------------------------
(***************************************************************************)
(* The blocks that may ever reach the ledger, and what their contents      *)
(* determine.  A block never changes once it is signed and its hash names  *)
(* its contents, so the blocks are constants: hash h stands for the block  *)
(* Content[h].  The numbering of the hashes only says that a block can     *)
(* refer to blocks made before it; no action depends on it.  0 is the zero *)
(* hash, and the burn account.                                             *)
(*                                                                         *)
(* All five block types share one record:                                  *)
(*   type            "send", "receive", "open", "change" or "state"        *)
(*   account         the account of an open or state block, else 0         *)
(*   previous        the block below in the chain, 0 for a first block     *)
(*   link            destination (send), source (receive, open), the link  *)
(*                   of a state block: a destination, a source or 0        *)
(*   balance         balance after a send or state block, else 0           *)
(*   representative  of an open, change or state block, else 0             *)
(*   signer          the account whose key made the signature, 0 if none   *)
(***************************************************************************)
EXTENDS Naturals, FiniteSets

CONSTANTS
    Account,        \* account numbers, other than the burn account
    NumBlocks,      \* how many blocks there are
    Content,        \* hash -> block
    Genesis,        \* hash of the genesis open block
    GenesisAccount,
    GenesisAmount,  \* all the currency: the largest value of a rai::uint128_t
    Owner,          \* hash -> the account whose chain the block extends
    BalanceAt,      \* hash -> the balance of that account after the block
    AmountAt,       \* hash -> how much the block moves
    RepBlockAt      \* hash -> the block that chose the representative then in force

Hash == 1 .. NumBlocks

Number == Account \cup Hash \cup {0}

BlockType == {"send", "receive", "open", "change", "state"}

Block == [type : BlockType, account : Account \cup {0}, previous : Hash \cup {0},
          link : Number, balance : 0 .. GenesisAmount,
          representative : Account \cup {0}, signer : Account \cup {0}]

Type(h) == Content[h].type
Previous(h) == Content[h].previous
Link(h) == Content[h].link
Balance(h) == Content[h].balance
Representative(h) == Content[h].representative
Signer(h) == Content[h].signer

Legacy == {"send", "receive", "open", "change"}

(* What two blocks compete for: rai::block::root. *)
Root(h) == IF Previous(h) # 0 THEN Previous(h) ELSE Content[h].account

-----------------------------------------------------------------------------

BalanceBefore(h) == IF Previous(h) = 0 THEN 0 ELSE BalanceAt[Previous(h)]

(* A block that takes from the balance of its account. *)
IsSend(h) ==
    \/ Type(h) = "send"
    \/ Type(h) = "state" /\ Balance(h) < BalanceBefore(h)

(* The send a block receives, 0 if it receives none. *)
Source(h) ==
    IF Type(h) \in {"receive", "open"} \/ (Type(h) = "state" /\ ~IsSend(h))
    THEN Link(h) ELSE 0

(* What the block that a link names moves; the genesis block's source is   *)
(* the genesis account.                                                    *)
AmountOfLink(l) ==
    IF l \in Hash THEN AmountAt[l] ELSE IF l = GenesisAccount THEN GenesisAmount ELSE 0

(* The arithmetic of rai::uint128_t. *)
Wrap(n) == n % (GenesisAmount + 1)

-----------------------------------------------------------------------------

ASSUME BlocksAssumption ==
    /\ Account \cap Nat = {}
    /\ NumBlocks \in Nat
    /\ GenesisAmount \in Nat \ {0}
    /\ GenesisAccount \in Account
    /\ Genesis \in Hash
    /\ Content \in [Hash -> Block]

(* A block refers only to blocks made before it; the type fixes which      *)
(* fields a block has.                                                     *)
ASSUME ReferenceAssumption ==
    \A h \in Hash :
        /\ Previous(h) < h
        /\ Link(h) \in Hash => Link(h) < h
        /\ Type(h) \in {"send", "receive", "change"} => Previous(h) # 0
        /\ Type(h) = "open" => Previous(h) = 0
        /\ Type(h) \in {"receive", "open"} => Link(h) # 0

ASSUME GenesisAssumption ==
    /\ Type(Genesis) = "open"
    /\ Content[Genesis].account = GenesisAccount
    /\ Link(Genesis) = GenesisAccount
    /\ Representative(Genesis) = GenesisAccount

(* What the contents determine, block by block. *)
ASSUME OwnerAssumption ==
    /\ Owner \in [Hash -> Account \cup {0}]
    /\ \A h \in Hash :
        Owner[h] = IF Type(h) \in {"open", "state"} THEN Content[h].account
                   ELSE Owner[Previous(h)]

ASSUME AmountAssumption ==
    /\ AmountAt \in [Hash -> 0 .. GenesisAmount]
    /\ \A h \in Hash :
        AmountAt[h] =
            CASE Type(h) \in {"send", "state"} ->
                    IF Balance(h) < BalanceBefore(h) THEN BalanceBefore(h) - Balance(h)
                    ELSE Balance(h) - BalanceBefore(h)
              [] Type(h) \in {"receive", "open"} -> AmountOfLink(Link(h))
              [] Type(h) = "change" -> 0

ASSUME BalanceAssumption ==
    /\ BalanceAt \in [Hash -> 0 .. GenesisAmount]
    /\ \A h \in Hash :
        BalanceAt[h] =
            CASE Type(h) \in {"send", "state"} -> Balance(h)
              [] Type(h) = "open" -> AmountOfLink(Link(h))
              [] Type(h) = "receive" -> Wrap(BalanceBefore(h) + AmountOfLink(Link(h)))
              [] Type(h) = "change" -> BalanceBefore(h)

ASSUME RepBlockAssumption ==
    /\ RepBlockAt \in [Hash -> Hash]
    /\ \A h \in Hash :
        RepBlockAt[h] = IF Type(h) \in {"open", "change", "state"} THEN h
                        ELSE RepBlockAt[Previous(h)]

=============================================================================
