----------------------------- MODULE BlockSets -----------------------------
(***************************************************************************)
(* Sets of blocks: when a block is valid with respect to a set, and what   *)
(* is true of a set that was built from the genesis block by valid blocks. *)
(***************************************************************************)
EXTENDS LedgerBlocks

(* The blocks that h stands on. *)
Parents(h) == {Previous(h), Source(h)} \cap Hash

(* h and everything that it stands on. *)
Ancestors[h \in Hash] ==
    {h} \cup UNION {Ancestors[x] : x \in Parents(h)}

(* h extends the chain of its owner. *)
ExtendsChain(S, h) ==
    IF Previous(h) = 0
    THEN /\ Source(h) # 0
         /\ \A x \in S : Owner[x] # Owner[h]
    ELSE /\ Previous(h) \in S
         /\ Owner[Previous(h)] = Owner[h]
         /\ \A x \in S : Previous(x) # Previous(h)
         /\ Type(h) \in Legacy => Type(Previous(h)) \in Legacy

(* h receives a send to its owner that nothing else has received. *)
ReceivesSend(S, h) ==
    /\ Source(h) \in S
    /\ IsSend(Source(h))
    /\ Link(Source(h)) = Owner[h]
    /\ \A x \in S : Source(x) # Source(h)

(* The balance moves by what is sent or received; a receive block, which   *)
(* states no balance, cannot go wrong.                                     *)
Balanced(h) ==
    CASE Type(h) = "send" -> Balance(h) <= BalanceBefore(h)
      [] Type(h) = "state" /\ ~IsSend(h) ->
            Balance(h) = BalanceBefore(h) + (IF Source(h) = 0 THEN 0 ELSE AmountAt[Source(h)])
      [] OTHER -> TRUE

Valid(S, h) ==
    /\ Owner[h] # 0
    /\ Signer(h) = Owner[h]
    /\ ExtendsChain(S, h)
    /\ Source(h) # 0 => ReceivesSend(S, h)
    /\ Balanced(h)

-----------------------------------------------------------------------------

(* No two blocks compete for a root: an account has one first block and a  *)
(* block one successor.                                                    *)
Unforked(S) == \A x, y \in S : Root(x) = Root(y) => x = y

(* A block stands on a block of the same account, all the way down to the  *)
(* account's one first block, and never a legacy block on a state block.   *)
ChainsLinked(S) ==
    /\ \A h \in S :
           /\ Owner[h] \in Account
           /\ Previous(h) # 0 => /\ Previous(h) \in S
                                 /\ Owner[Previous(h)] = Owner[h]
                                 /\ Type(h) \in Legacy => Type(Previous(h)) \in Legacy
    /\ \A x, y \in S : Owner[x] = Owner[y] /\ Previous(x) = Previous(y) => x = y

(* No send is received twice, and what is received was sent to the account *)
(* that receives it.                                                       *)
ReceivedOnce(S) ==
    /\ \A x, y \in S : Source(x) # 0 /\ Source(x) = Source(y) => x = y
    /\ \A h \in S \ {Genesis} :
           Source(h) # 0 => /\ Source(h) \in S
                            /\ IsSend(Source(h))
                            /\ Link(Source(h)) = Owner[h]

(* All of it: the genesis block and valid blocks upon it. *)
Sound(S) ==
    /\ S \subseteq Hash
    /\ Genesis \in S
    /\ ChainsLinked(S)
    /\ ReceivedOnce(S)
    /\ \A h \in S \ {Genesis} : Balanced(h)

=============================================================================
