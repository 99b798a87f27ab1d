---------------------------- MODULE WalletProofs ----------------------------
(***************************************************************************)
(* A wallet does not fork its own accounts, what its callers are told is   *)
(* in the ledger, and a send with an id happens once, for every number of  *)
(* accounts, ids, amounts, calls and restarts.                             *)
(***************************************************************************)
EXTENDS Wallet, TLAPS, SequenceTheorems

Holder == Account \cup {Outside}

(* Accounts are not blocks, so that a link to an account is never taken    *)
(* for a link to a send.                                                   *)
AccountsAreNoBlocks ==
    \A a, height, link, balance :
        [account |-> a, height |-> height, link |-> link, balance |-> balance] \notin Account

-----------------------------------------------------------------------------
(* The inductive invariant *)

ActionOK(act) ==
    /\ act.account \in Account
    /\ act.kind = "send" => act.amount \in Amount /\ act.id \in Id \cup {NoId}

(* What is queued is for accounts that exist. *)
ActionsOK ==
    /\ actions \in Seq(Range(actions))
    /\ \A i \in 1 .. Len(actions) : ActionOK(actions[i])

(* A chain holds the blocks of its account, in order, and no account. *)
ChainOK(a) ==
    /\ chain[a] \in Seq(Range(chain[a]))
    /\ \A i \in 1 .. Len(chain[a]) :
        /\ chain[a][i].account = a
        /\ chain[a][i].height = i
        /\ chain[a][i].balance \in Int
        /\ chain[a][i] \notin Account

ChainsOK == DOMAIN chain = Holder /\ \A a \in Holder : ChainOK(a)

(* A block in the hands of the wallet's thread *)
BlockOK(b) ==
    /\ b.account \in Account
    /\ b.balance \in Int
    /\ b \notin Account

(* The processor has at most the block that the thread waits for, and that *)
(* block fits until it is processed; then, or if the processor stops, it   *)
(* is in the ledger or lost.                                               *)
ThreadOK ==
    /\ thread.stage \in {"idle", "made", "flush"}
    /\ thread.stage = "idle" => thread = Idle
    /\ thread.stage # "idle" => BlockOK(thread.block)
    /\ queue # {} => thread.stage = "flush" /\ queue = {thread.block}
    /\ thread.stage = "made" \/ queue # {} => Fits(thread.block)
    /\ thread.stage = "flush" /\ up = "on" => thread.block \in queue \cup Blocks

WalletInv ==
    /\ keys \subseteq Account
    /\ ActionsOK
    /\ ChainsOK
    /\ ThreadOK
    /\ told \subseteq Blocks

-----------------------------------------------------------------------------
(* Sequences *)

LEMMA InsertIs ==
    ASSUME NEW S, NEW s \in Seq(S), NEW n \in 0 .. Len(s), NEW e
    PROVE  LET t == Inserted(s, n, e)
           IN  /\ t \in Seq(Range(t))
               /\ \A i \in 1 .. Len(t) : t[i] = e \/ \E j \in 1 .. Len(s) : t[i] = s[j]
<1> DEFINE T == S \cup {e}
           l == SubSeq(s, 1, n)
           r == SubSeq(s, n + 1, Len(s))
           t == Inserted(s, n, e)
<1>1. s \in Seq(T) /\ e \in T /\ Len(s) \in Nat
  BY LenProperties, SeqDef
<1>2. l \in Seq(T) /\ Len(l) = n /\ \A i \in 1 .. n : l[i] = s[i]
  BY <1>1, SubSeqProperties
<1>3. r \in Seq(T) /\ Len(r) = Len(s) - n /\ \A i \in 1 .. Len(r) : r[i] = s[n + i]
  BY <1>1, SubSeqProperties
<1>4. <<e>> \in Seq(T) /\ Len(<<e>>) = 1 /\ <<e>>[1] = e
  BY <1>1
<1> HIDE DEF T, l, r
<1>5. /\ l \o <<e>> \in Seq(T)
      /\ Len(l \o <<e>>) = n + 1
      /\ \A i \in 1 .. n + 1 : (l \o <<e>>)[i] = IF i <= n THEN l[i] ELSE <<e>>[i - n]
  BY Zenon, <1>2, <1>4, ConcatProperties
<1>6. t = (l \o <<e>>) \o r
  BY Zenon DEF Inserted, l, r
<1>7. /\ t \in Seq(T)
      /\ Len(t) = Len(s) + 1
      /\ \A i \in 1 .. Len(s) + 1 :
          t[i] = IF i <= n + 1 THEN (l \o <<e>>)[i] ELSE r[i - (n + 1)]
  <2> DEFINE k == l \o <<e>>
  <2> HIDE DEF k, t
  <2>1. k \in Seq(T) /\ Len(k) = n + 1 /\ t = k \o r
    BY Zenon, <1>5, <1>6 DEF k
  <2>2. /\ t \in Seq(T)
        /\ Len(t) = Len(k) + Len(r)
        /\ \A i \in 1 .. Len(k) + Len(r) : t[i] = IF i <= Len(k) THEN k[i] ELSE r[i - Len(k)]
    BY Zenon, <1>3, <2>1, ConcatProperties
  <2>3. Len(k) + Len(r) = Len(s) + 1
    BY <1>1, <1>3, <2>1
  <2> QED
    BY Zenon, <2>1, <2>2, <2>3 DEF k
<1>8. \A i \in 1 .. Len(t) : t[i] = e \/ \E j \in 1 .. Len(s) : t[i] = s[j]
  <2> HIDE DEF t
  <2> TAKE i \in 1 .. Len(t)
  <2>1. CASE i <= n
    BY <1>1, <1>2, <1>5, <1>7, <2>1
  <2>2. CASE i = n + 1
    BY <1>1, <1>4, <1>5, <1>7, <2>2
  <2>3. CASE i > n + 1
    <3>1. i - 1 \in 1 .. Len(s) /\ i - (n + 1) \in 1 .. Len(r)
      BY <1>1, <1>3, <1>7, <2>3
    <3>2. t[i] = r[i - (n + 1)]
      BY <1>1, <1>7, <2>3
    <3>3. r[i - (n + 1)] = s[n + (i - (n + 1))]
      BY Zenon, <1>3, <3>1
    <3>4. n + (i - (n + 1)) = i - 1
      BY <1>1, <3>1
    <3> QED
      BY Zenon, <3>1, <3>2, <3>3, <3>4
  <2> QED
    BY <1>1, <1>7, <2>1, <2>2, <2>3
<1> QED
  BY Zenon, <1>7, <1>8, SeqOfRange

LEMMA AppendIs ==
    ASSUME NEW S, NEW s \in Seq(S), NEW e
    PROVE  /\ Append(s, e) \in Seq(Range(Append(s, e)))
           /\ Len(Append(s, e)) = Len(s) + 1
           /\ \A i \in 1 .. Len(s) : Append(s, e)[i] = s[i]
           /\ Append(s, e)[Len(s) + 1] = e
<1>1. s \in Seq(S \cup {e})
  BY Zenon, SeqMonotonic
<1>2. /\ Append(s, e) \in Seq(S \cup {e})
      /\ Len(Append(s, e)) = Len(s) + 1
      /\ \A i \in 1 .. Len(s) : Append(s, e)[i] = s[i]
      /\ Append(s, e)[Len(s) + 1] = e
  BY <1>1
<1> QED
  BY Zenon, <1>2, SeqOfRange

-----------------------------------------------------------------------------
(* The queue of actions *)

LEMMA InsertOK == ASSUME ActionsOK, NEW a, ActionOK(a), Insert(a) PROVE ActionsOK'
<1>1. PICK n \in 0 .. Len(actions) : actions' = Inserted(actions, n, a)
  BY Zenon DEF Insert
<1>2. /\ actions' \in Seq(Range(actions'))
      /\ \A i \in 1 .. Len(actions') :
          actions'[i] = a \/ \E j \in 1 .. Len(actions) : actions'[i] = actions[j]
  BY <1>1, InsertIs DEF ActionsOK
<1> QED
  BY Zenon, <1>2 DEF ActionsOK

LEMMA NoActions == actions' = <<>> => ActionsOK'
  BY DEF ActionsOK

LEMMA HeadOK ==
    ASSUME ActionsOK, actions # <<>>, actions' = Tail(actions)
    PROVE  ActionOK(Head(actions)) /\ ActionsOK'
<1>1. Len(actions) \in Nat \ {0} /\ Head(actions) = actions[1]
  BY EmptySeq DEF ActionsOK
<1>2. /\ actions' \in Seq(Range(actions))
      /\ Len(actions') = Len(actions) - 1
      /\ \A i \in 1 .. Len(actions') : actions'[i] = actions[i + 1]
  BY Zenon, HeadTailProperties DEF ActionsOK
<1>3. actions' \in Seq(Range(actions'))
  BY Zenon, <1>2, SeqOfRange
<1> QED
  BY <1>1, <1>2, <1>3 DEF ActionsOK

-----------------------------------------------------------------------------
(* Chains *)

LEMMA ElementsOf ==
    ASSUME NEW f, DOMAIN f = Holder, \A a \in Holder : f[a] \in Seq(Range(f[a])), NEW b
    PROVE  b \in UNION {Range(f[a]) : a \in DOMAIN f}
               <=> \E a \in Holder : \E i \in 1 .. Len(f[a]) : b = f[a][i]
<1>1. \A a \in Holder : DOMAIN f[a] = 1 .. Len(f[a])
  BY Zenon, LenProperties
<1>2. \A a \in Holder : b \in Range(f[a]) <=> \E i \in 1 .. Len(f[a]) : b = f[a][i]
  BY <1>1, Zenon DEF Range
<1>3. b \in UNION {Range(f[a]) : a \in DOMAIN f} <=> \E a \in Holder : b \in Range(f[a])
  BY Zenon
<1> QED
  BY <1>2, <1>3, Zenon

LEMMA BlocksAre ==
    ASSUME ChainsOK, NEW b
    PROVE  b \in Blocks <=> \E a \in Holder : \E i \in 1 .. Len(chain[a]) : b = chain[a][i]
<1>1. DOMAIN chain = Holder /\ \A a \in Holder : chain[a] \in Seq(Range(chain[a]))
  BY Zenon DEF ChainsOK, ChainOK
<1> QED
  BY <1>1, ElementsOf DEF Blocks

LEMMA BlockFields ==
    ASSUME ChainsOK, NEW b \in Blocks
    PROVE  /\ b.account \in Holder
           /\ b.height \in 1 .. Len(chain[b.account])
           /\ b = chain[b.account][b.height]
           /\ b.balance \in Int
           /\ b \notin Account
<1>1. PICK a \in Holder : \E i \in 1 .. Len(chain[a]) : b = chain[a][i]
  BY Zenon, BlocksAre
<1>2. PICK i \in 1 .. Len(chain[a]) : b = chain[a][i]
  BY Zenon, <1>1
<1> QED
  BY <1>2 DEF ChainsOK, ChainOK

LEMMA SentByInt == ASSUME ChainsOK, NEW b \in Pending PROVE SentBy(b) \in Int
<1>1. b \in Blocks /\ b.height > 1
  BY Zenon DEF Pending
<1>2. /\ b.account \in Holder
      /\ b.height \in 1 .. Len(chain[b.account])
      /\ b.balance \in Int
  BY Zenon, <1>1, BlockFields
<1>3. Len(chain[b.account]) \in Nat
  BY Zenon, <1>2, LenProperties DEF ChainsOK, ChainOK
<1>4. b.height - 1 \in 1 .. Len(chain[b.account])
  BY <1>1, <1>2, <1>3
<1>5. chain[b.account][b.height - 1].balance \in Int
  BY <1>2, <1>4 DEF ChainsOK, ChainOK
<1> QED
  BY <1>2, <1>5 DEF SentBy

LEMMA BalanceInt == ASSUME ChainsOK, NEW a \in Holder PROVE Balance(a) \in Int
<1>1. CASE chain[a] = <<>>
  BY <1>1 DEF Balance
<1>2. CASE chain[a] # <<>>
  <2>1. Len(chain[a]) \in Nat \ {0}
    BY Zenon, <1>2, EmptySeq DEF ChainsOK, ChainOK
  <2>2. chain[a][Len(chain[a])].balance \in Int
    BY <2>1 DEF ChainsOK, ChainOK
  <2> QED
    BY Zenon, <1>2, <2>2 DEF Balance, Latest
<1> QED
  BY Zenon, <1>1, <1>2

(* A block on top of a chain, from whomever *)
LEMMA AppendOK ==
    ASSUME ChainsOK, NEW a \in Holder, NEW b,
           b.account = a, b.height = Len(chain[a]) + 1, b.balance \in Int, b \notin Account,
           chain' = [chain EXCEPT ![a] = Append(@, b)]
    PROVE  /\ ChainsOK'
           /\ Blocks' = Blocks \cup {b}
           /\ \A x \in Holder \ {a} : chain'[x] = chain[x]
           /\ \A x \in Holder : \A i \in 1 .. Len(chain[x]) : chain'[x][i] = chain[x][i]
<1> DEFINE t == Append(chain[a], b)
<1>1. DOMAIN chain' = Holder /\ chain'[a] = t /\ \A x \in Holder \ {a} : chain'[x] = chain[x]
  BY Zenon DEF ChainsOK
<1>2. Len(chain[a]) \in Nat /\ chain[a] \in Seq(Range(chain[a]))
  BY Zenon, LenProperties DEF ChainsOK, ChainOK
<1>3. /\ t \in Seq(Range(t))
      /\ Len(t) = Len(chain[a]) + 1
      /\ \A i \in 1 .. Len(chain[a]) : t[i] = chain[a][i]
      /\ t[Len(chain[a]) + 1] = b
  BY Zenon, <1>2, AppendIs
<1> HIDE DEF t
<1>4. ASSUME NEW i \in 1 .. Len(t)
      PROVE  /\ t[i].account = a
             /\ t[i].height = i
             /\ t[i].balance \in Int
             /\ t[i] \notin Account
  <2>1. CASE i \in 1 .. Len(chain[a])
    BY <1>3, <2>1 DEF ChainsOK, ChainOK
  <2>2. CASE i = Len(chain[a]) + 1
    BY Zenon, <1>3, <2>2
  <2> QED
    BY <1>2, <1>3, <2>1, <2>2
<1>5. ChainsOK'
  <2> SUFFICES ASSUME NEW x \in Holder PROVE ChainOK(x)'
    BY Zenon, <1>1 DEF ChainsOK, Holder
  <2>1. CASE x = a
    <3>1. chain'[x] = t
      BY Zenon, <1>1, <2>1
    <3> QED
      BY Zenon, <1>3, <1>4, <2>1, <3>1 DEF ChainOK
  <2>2. CASE x # a
    BY <1>1, <2>2 DEF ChainsOK, ChainOK
  <2> QED
    BY Zenon, <2>1, <2>2
<1>6. \A x \in Holder : \A i \in 1 .. Len(chain[x]) : chain'[x][i] = chain[x][i]
  BY <1>1, <1>3
<1>7. \A c : c \in Blocks' <=> \E x \in Holder : \E i \in 1 .. Len(chain'[x]) : c = chain'[x][i]
  <2>1. \A x \in Holder : chain'[x] \in Seq(Range(chain'[x]))
    BY Zenon, <1>5 DEF ChainsOK, ChainOK, Holder
  <2>2. PICK f : f = chain'
    BY Zenon
  <2>3. \A c : c \in UNION {Range(f[x]) : x \in DOMAIN f}
                  <=> \E x \in Holder : \E i \in 1 .. Len(f[x]) : c = f[x][i]
    <3>1. DOMAIN f = Holder /\ \A x \in Holder : f[x] \in Seq(Range(f[x]))
      BY <1>1, <2>1, <2>2, Zenon
    <3> QED
      BY <3>1, ElementsOf
  <2>4. Blocks' = UNION {Range(f[x]) : x \in DOMAIN f}
    BY <2>2, Zenon DEF Blocks
  <2>5. \A c : c \in Blocks' <=> \E x \in Holder : \E i \in 1 .. Len(f[x]) : c = f[x][i]
    BY <2>3, <2>4, Zenon
  <2> QED
    BY ONLY <2>2, <2>5
<1>8. ASSUME NEW c PROVE c \in Blocks' <=> c \in Blocks \/ c = b
  <2>1. ASSUME NEW x \in Holder, NEW i \in 1 .. Len(chain'[x])
        PROVE  chain'[x][i] \in Blocks \/ chain'[x][i] = b
    <3>1. CASE x = a /\ i = Len(chain[a]) + 1
      BY Zenon, <1>1, <1>3, <3>1
    <3>2. CASE i \in 1 .. Len(chain[x])
      <4>1. chain'[x][i] = chain[x][i]
        BY Zenon, <1>6, <3>2
      <4> QED
        BY Zenon, <3>2, <4>1, BlocksAre
    <3> QED
      BY <1>1, <1>2, <1>3, <3>1, <3>2
  <2>2. ASSUME NEW x \in Holder, NEW i \in 1 .. Len(chain[x])
        PROVE  i \in 1 .. Len(chain'[x]) /\ chain'[x][i] = chain[x][i]
    BY <1>1, <1>2, <1>3, <1>6
  <2>3. Len(chain[a]) + 1 \in 1 .. Len(chain'[a]) /\ chain'[a][Len(chain[a]) + 1] = b
    BY <1>1, <1>2, <1>3
  <2>4. c \in Blocks => c \in Blocks'
    BY <1>7, <2>2, BlocksAre
  <2>5. b \in Blocks'
    BY Zenon, <1>7, <2>3
  <2> QED
    BY <1>7, <2>1, <2>4, <2>5
<1> QED
  BY Zenon, <1>1, <1>5, <1>6, <1>8

-----------------------------------------------------------------------------
(* The steps *)

LEMMA SameChain ==
    ASSUME UNCHANGED chain, NEW b
    PROVE  Blocks' = Blocks /\ (Fits(b)' <=> Fits(b)) /\ (ChainsOK' <=> ChainsOK)
  BY DEF Blocks, Fits, Balance, Latest, Pending, SentBy, ChainsOK, ChainOK, Holder

(* Nothing happens to the thread and its block. *)
LEMMA FrameOK ==
    ASSUME WalletInv, UNCHANGED <<chain, thread, queue, up, told>>, keys' \subseteq Account,
           ActionsOK'
    PROVE  WalletInv'
<1>1. PICK b : b = thread.block
  BY Zenon
<1>2. Blocks' = Blocks /\ (Fits(b)' <=> Fits(b)) /\ (ChainsOK' <=> ChainsOK)
  BY Zenon, SameChain
<1>3. Fits(thread.block)' <=> Fits(b)'
  BY Zenon, <1>1 DEF Fits, Balance
<1>4. Fits(thread.block) <=> Fits(b)
  BY Zenon, <1>1
<1>5. ThreadOK'
  BY Zenon, <1>2, <1>3, <1>4 DEF WalletInv, ThreadOK, BlockOK, Idle
<1> QED
  BY Zenon, <1>2, <1>5 DEF WalletInv

(* The thread makes a block. *)
LEMMA BuildsOK ==
    ASSUME WalletInv, UNCHANGED <<chain, queue, up, told, keys>>, thread = Idle, ActionsOK',
           NEW act, NEW id, NEW b, Builds(act, id, b), BlockOK(b), Fits(b)
    PROVE  WalletInv'
<1>1. Blocks' = Blocks /\ Fits(b)' /\ ChainsOK'
  BY Zenon, SameChain DEF WalletInv
<1>2. thread'.stage = "made" /\ thread'.block = b
  BY Zenon DEF Builds
<1>3. Fits(thread.block)'
  BY Zenon, <1>1, <1>2 DEF Fits, Balance
<1>4. queue' = {}
  BY Zenon DEF WalletInv, ThreadOK, Idle
<1>5. ThreadOK'
  BY Zenon, <1>2, <1>3, <1>4 DEF ThreadOK, BlockOK
<1> QED
  BY Zenon, <1>1, <1>5 DEF WalletInv

LEMMA NextBlockIs ==
    ASSUME ChainsOK, AccountsAreNoBlocks, NEW a \in Holder, NEW link, NEW balance \in Int
    PROVE  LET b == NextBlock(a, link, balance)
           IN  /\ b.account = a
               /\ b.height = Len(chain[a]) + 1
               /\ b.balance = balance
               /\ b.link = link
               /\ b \notin Account
  BY Zenon DEF NextBlock, AccountsAreNoBlocks

LEMMA BeginOK == ASSUME WalletInv, AccountsAreNoBlocks, Begin PROVE WalletInv'
<1> DEFINE act == Head(actions)
<1>1. /\ UNCHANGED <<chain, queue, up, keys>>
      /\ thread = Idle
      /\ actions # <<>>
      /\ actions' = Tail(actions)
  BY Zenon DEF Begin
<1>2. ActionOK(act) /\ ActionsOK' /\ ChainsOK
  BY Zenon, <1>1, HeadOK DEF WalletInv
<1>3. act.account \in Account /\ act.account \in Holder /\ Balance(act.account) \in Int
  BY Zenon, <1>2, BalanceInt DEF ActionOK, Holder
<1> HIDE DEF act
<1>4. CASE UNCHANGED <<thread, told>>
  BY Zenon, <1>1, <1>2, <1>4, FrameOK DEF WalletInv
<1>5. CASE UNCHANGED thread /\ \E b \in Blocks : told' = told \cup {b}
  <2>1. Blocks' = Blocks /\ (ChainsOK' <=> ChainsOK)
    BY Zenon, <1>1, SameChain
  <2>2. ThreadOK'
    <3>1. thread'.stage = "idle" /\ queue' = {} /\ thread' = Idle
      BY Zenon, <1>1, <1>5 DEF WalletInv, ThreadOK, Idle
    <3> QED
      BY Zenon, <3>1 DEF ThreadOK, Idle
  <2> QED
    BY Zenon, <1>1, <1>2, <1>5, <2>1, <2>2 DEF WalletInv
<1>6. ASSUME NEW id, NEW link, NEW balance \in Int,
             Builds(act, id, NextBlock(act.account, link, balance)),
             balance > Balance(act.account) => link \in Pending, UNCHANGED told
      PROVE  WalletInv'
  <2> DEFINE b == NextBlock(act.account, link, balance)
  <2>1. /\ b.account = act.account
        /\ b.height = Len(chain[act.account]) + 1
        /\ b.balance = balance
        /\ b.link = link
        /\ b \notin Account
    BY Zenon, <1>2, <1>3, <1>6, NextBlockIs
  <2> HIDE DEF b
  <2>2. BlockOK(b) /\ Fits(b)
    BY Zenon, <1>3, <1>6, <2>1 DEF BlockOK, Fits
  <2> QED
    BY Zenon, <1>1, <1>2, <1>6, <2>2, BuildsOK DEF b
<1>7. CASE act.kind = "send" /\ SendAction(act)
  <2>1. CASE Known(act) /\ told' = told \cup {ids[act.id]} /\ UNCHANGED thread
    BY Zenon, <1>5, <2>1 DEF Known
  <2>2. CASE /\ Builds(act, act.id,
                       NextBlock(act.account, act.link, Balance(act.account) - act.amount))
             /\ UNCHANGED told
    <3>1. act.amount \in Nat \ {0}
      BY Zenon, <1>2, <1>7, WalletAssumption DEF ActionOK
    <3>2. /\ Balance(act.account) - act.amount \in Int
          /\ ~(Balance(act.account) - act.amount > Balance(act.account))
      BY <1>3, <3>1
    <3> QED
      BY Zenon, <1>6, <2>2, <3>2
  <2> QED
    BY <1>4, <1>7, <2>1, <2>2, Zenon DEF SendAction
<1>8. CASE act.kind = "change" /\ ChangeAction(act) /\ UNCHANGED told
  <2>1. CASE Builds(act, NoId, NextBlock(act.account, NoBlock, Balance(act.account)))
    <3>1. ~(Balance(act.account) > Balance(act.account))
      BY <1>3
    <3> QED
      BY Zenon, <1>3, <1>6, <1>8, <2>1, <3>1
  <2> QED
    BY Zenon, <1>4, <1>8, <2>1 DEF ChangeAction
<1>9. CASE act.kind = "receive" /\ ReceiveAction(act) /\ UNCHANGED told
  <2> DEFINE balance == Balance(act.account) + SentBy(act.send)
  <2>1. CASE act.send \in Pending /\ Builds(act, NoId, NextBlock(act.account, act.send, balance))
    <3>1. balance \in Int
      BY <1>2, <1>3, <2>1, SentByInt
    <3> HIDE DEF balance
    <3> QED
      BY Zenon, <1>6, <1>9, <2>1, <3>1
  <2> QED
    BY Zenon, <1>4, <1>9, <2>1 DEF ReceiveAction
<1> QED
  BY Zenon, <1>4, <1>7, <1>8, <1>9 DEF Begin, act

(* The thread goes on to wait for the processor, and is done. *)
LEMMA ProcessActiveOK == ASSUME WalletInv, ProcessActive PROVE WalletInv'
<1>1. PICK b : b = thread.block
  BY Zenon
<1>2. Blocks' = Blocks /\ (Fits(b)' <=> Fits(b)) /\ (ChainsOK' <=> ChainsOK)
  BY Zenon, SameChain DEF ProcessActive, tables
<1>3. /\ thread.stage = "made"
      /\ BlockOK(b)
      /\ Fits(b)
      /\ queue = {}
  BY Zenon, <1>1 DEF ProcessActive, WalletInv, ThreadOK
<1>4. thread'.stage = "flush" /\ thread'.block = b
  BY <1>1 DEF ProcessActive, WalletInv, ThreadOK
<1>5. Fits(thread.block)'
  BY Zenon, <1>2, <1>3, <1>4 DEF Fits, Balance
<1>6. queue' = IF up = "on" THEN {b} ELSE {}
  BY Zenon, <1>1, <1>3 DEF ProcessActive
<1>7. ThreadOK'
  BY Zenon, <1>3, <1>4, <1>5, <1>6 DEF ThreadOK, BlockOK, ProcessActive
<1> QED
  BY Zenon, <1>2, <1>7 DEF WalletInv, ActionsOK, ProcessActive, tables, history

LEMMA FlushOK == ASSUME WalletInv, Flush PROVE WalletInv'
<1>1. Blocks' = Blocks /\ (ChainsOK' <=> ChainsOK)
  BY Zenon, SameChain DEF Flush, tables
<1>2. /\ thread.stage = "flush"
      /\ queue = {}
      /\ thread.block.account \in Account
      /\ up = "on" => thread.block \in Blocks
  BY Zenon DEF Flush, WalletInv, ThreadOK, BlockOK
<1>3. told' \subseteq Blocks'
  BY Zenon, <1>1, <1>2 DEF Flush, WalletInv
<1>4. ActionsOK'
  <2>1. CASE thread.generate
    <3> DEFINE a == [kind |-> "work", priority |-> Generate, account |-> thread.block.account,
                     height |-> thread.block.height]
    <3>1. ActionOK(a)
      BY Zenon, <1>2 DEF ActionOK
    <3>2. Insert(a)
      BY Zenon, <2>1 DEF Flush, WorkEnsure
    <3> QED
      BY Zenon, <3>1, <3>2, InsertOK DEF WalletInv
  <2>2. CASE UNCHANGED actions
    BY Zenon, <2>2 DEF WalletInv, ActionsOK
  <2> QED
    BY Zenon, <2>1, <2>2 DEF Flush
<1>5. ThreadOK'
  BY Zenon, <1>2 DEF Flush, ThreadOK, Idle
<1> QED
  BY Zenon, <1>1, <1>3, <1>4, <1>5 DEF WalletInv, Flush, tables

LEMMA ProcessBlockOK == ASSUME WalletInv, NEW b \in queue, ProcessBlock(b) PROVE WalletInv'
<1>1. /\ thread.stage = "flush"
      /\ queue = {b}
      /\ thread.block = b
      /\ BlockOK(b)
      /\ Fits(b)
  BY Zenon DEF WalletInv, ThreadOK
<1>2. chain' = [chain EXCEPT ![b.account] = Append(@, b)]
  BY Zenon, <1>1 DEF ProcessBlock
<1>3. ChainsOK' /\ Blocks' = Blocks \cup {b}
  BY Zenon, <1>1, <1>2, AppendOK DEF WalletInv, BlockOK, Fits, Holder
<1>4. queue' = {} /\ UNCHANGED <<thread, up, told, keys, actions>>
  BY Zenon, <1>1 DEF ProcessBlock
<1>5. ThreadOK'
  BY Zenon, <1>1, <1>3, <1>4 DEF ThreadOK, BlockOK
<1> QED
  BY Zenon, <1>3, <1>4, <1>5 DEF WalletInv, ActionsOK

-----------------------------------------------------------------------------
(* A send from outside takes nothing from a block of the wallet: another   *)
(* chain grows, and the new block receives nothing.                        *)
LEMMA FitsKept ==
    ASSUME ChainsOK, NEW b, b.account = Outside, b.height = Len(chain[Outside]) + 1,
           b.balance \in Int, b \notin Account, b.link \in Account,
           chain' = [chain EXCEPT ![Outside] = Append(@, b)],
           NEW c, c.account \in Account, Fits(c)
    PROVE  Fits(c)'
<1>1. /\ Blocks' = Blocks \cup {b}
      /\ \A x \in Holder \ {Outside} : chain'[x] = chain[x]
      /\ \A x \in Holder : \A i \in 1 .. Len(chain[x]) : chain'[x][i] = chain[x][i]
  BY Zenon, AppendOK DEF Holder
<1>2. chain'[c.account] = chain[c.account]
  BY Zenon, <1>1, WalletAssumption DEF Holder
<1>3. ASSUME NEW p \in Pending PROVE p \in Pending'
  <2>1. /\ p \in Blocks
        /\ p.height > 1
        /\ SentBy(p) > 0
        /\ \A r \in Blocks : r.link # p
    BY Zenon DEF Pending
  <2>2. /\ p.account \in Holder
        /\ p.height \in 1 .. Len(chain[p.account])
        /\ p \notin Account
    BY Zenon, <2>1, BlockFields
  <2>3. Len(chain[p.account]) \in Nat
    BY <2>2, LenProperties DEF ChainsOK, ChainOK
  <2>4. p.height - 1 \in 1 .. Len(chain[p.account])
    BY <2>1, <2>2, <2>3
  <2>5. chain'[p.account][p.height - 1] = chain[p.account][p.height - 1]
    BY Zenon, <1>1, <2>2, <2>4
  <2>6. chain'[p.account][p.height - 1].balance - p.balance > 0
    BY Zenon, <2>1, <2>5 DEF SentBy
  <2>7. p \in Blocks' /\ \A r \in Blocks' : r.link # p
    BY Zenon, <1>1, <2>1, <2>2
  <2> QED
    BY ONLY Zenon, <2>1, <2>6, <2>7 DEF Pending, SentBy
<1>4. Balance(c.account)' = Balance(c.account)
  BY ONLY Zenon, <1>2 DEF Balance, Latest
<1>5. c.height = Len(chain'[c.account]) + 1
  BY Zenon, <1>2 DEF Fits
<1>6. c.balance > Balance(c.account)' => c.link \in Pending'
  BY Zenon, <1>3, <1>4 DEF Fits
<1> QED
  BY ONLY Zenon, <1>5, <1>6 DEF Fits

LEMMA OutsideSendsOK ==
    ASSUME WalletInv, AccountsAreNoBlocks, NEW a \in Account, NEW amount \in Amount,
           OutsideSends(a, amount)
    PROVE  WalletInv'
<1> DEFINE b == NextBlock(Outside, a, Balance(Outside) - amount)
<1>1. chain' = [chain EXCEPT ![Outside] = Append(@, b)]
  BY Zenon DEF OutsideSends
<1>2. UNCHANGED <<keys, up, actions, thread, queue, told>>
  BY Zenon DEF OutsideSends
<1>3. Outside \in Holder /\ Balance(Outside) - amount \in Int
  BY BalanceInt, WalletAssumption DEF WalletInv, Holder
<1>4. /\ b.account = Outside
      /\ b.height = Len(chain[Outside]) + 1
      /\ b.balance \in Int
      /\ b.link \in Account
      /\ b \notin Account
  BY <1>3, NextBlockIs DEF WalletInv
<1> HIDE DEF b
<1>5. ChainsOK' /\ Blocks' = Blocks \cup {b}
  BY Zenon, <1>1, <1>3, <1>4, AppendOK DEF WalletInv
<1>6. PICK c : c = thread.block
  BY Zenon
<1>7. BlockOK(c) /\ Fits(c) => Fits(c)'
  BY Zenon, <1>1, <1>4, FitsKept DEF WalletInv, BlockOK
<1>8. Fits(thread.block)' <=> Fits(c)'
  BY Zenon, <1>2, <1>6 DEF Fits, Balance
<1>9. ThreadOK'
  BY Zenon, <1>2, <1>5, <1>6, <1>7, <1>8 DEF WalletInv, ThreadOK, BlockOK
<1> QED
  BY Zenon, <1>2, <1>5, <1>9 DEF WalletInv, ActionsOK

-----------------------------------------------------------------------------
(* The other steps leave the thread's block alone, or drop it. *)

LEMMA SendAsyncOK ==
    ASSUME WalletInv, NEW a \in Account, NEW link \in Account, NEW amount \in Amount,
           NEW id \in Id \cup {NoId}, NEW own \in BOOLEAN, SendAsync(a, link, amount, id, own)
    PROVE  WalletInv'
<1> DEFINE act == [kind |-> "send", priority |-> High, account |-> a, link |-> link,
                   amount |-> amount, id |-> id, generate |-> ~own]
<1>1. ActionOK(act)
  BY Zenon DEF ActionOK
<1>2. Insert(act) \/ UNCHANGED actions
  BY Zenon DEF SendAsync
<1> HIDE DEF act
<1>3. ActionsOK'
  BY Zenon, <1>1, <1>2, InsertOK DEF WalletInv, ActionsOK
<1> QED
  BY Zenon, <1>3, FrameOK DEF SendAsync, WalletInv

LEMMA ChangeAsyncOK ==
    ASSUME WalletInv, NEW a \in Account, NEW own \in BOOLEAN, ChangeAsync(a, own)
    PROVE  WalletInv'
<1> DEFINE act == [kind |-> "change", priority |-> High, account |-> a, generate |-> ~own]
<1>1. ActionOK(act)
  BY Zenon DEF ActionOK
<1>2. Insert(act)
  BY Zenon DEF ChangeAsync
<1> HIDE DEF act
<1>3. ActionsOK'
  BY Zenon, <1>1, <1>2, InsertOK DEF WalletInv
<1> QED
  BY Zenon, <1>3, FrameOK DEF ChangeAsync, WalletInv

LEMMA InsertAdhocOK == ASSUME WalletInv, NEW a \in Account, InsertAdhoc(a) PROVE WalletInv'
<1> DEFINE act == [kind |-> "work", priority |-> Generate, account |-> a,
                   height |-> Len(chain[a])]
<1>1. ActionOK(act)
  BY Zenon DEF ActionOK
<1>2. Insert(act)
  BY Zenon DEF InsertAdhoc, WorkEnsure
<1> HIDE DEF act
<1>3. ActionsOK'
  BY Zenon, <1>1, <1>2, InsertOK DEF WalletInv
<1> QED
  BY Zenon, <1>3, FrameOK DEF InsertAdhoc, WalletInv, history

LEMMA ReceiveCallOK ==
    ASSUME WalletInv, NEW b, b.link \in keys, NEW amount, NEW own \in BOOLEAN,
           ReceiveCall(b, amount, own)
    PROVE  ActionsOK'
<1> DEFINE act == [kind |-> "receive", priority |-> amount, account |-> b.link, send |-> b,
                   generate |-> ~own]
<1>1. ActionOK(act)
  BY Zenon DEF ActionOK, WalletInv
<1>2. Insert(act)
  BY Zenon DEF ReceiveCall
<1> HIDE DEF act
<1> QED
  BY Zenon, <1>1, <1>2, InsertOK DEF WalletInv

LEMMA RpcReceiveOK ==
    ASSUME WalletInv, NEW b, NEW own \in BOOLEAN, RpcReceive(b, own) PROVE WalletInv'
<1>1. ActionsOK'
  BY Zenon, ReceiveCallOK DEF RpcReceive
<1> QED
  BY Zenon, <1>1, FrameOK DEF RpcReceive, WalletInv

LEMMA ProcessConfirmedOK == ASSUME WalletInv, NEW b, ProcessConfirmed(b) PROVE WalletInv'
<1>1. ActionsOK'
  <2>1. CASE UNCHANGED actions
    BY Zenon, <2>1 DEF WalletInv, ActionsOK
  <2>2. CASE b.link \in keys /\ ReceiveCall(b, SentBy(b), FALSE)
    BY Zenon, <2>2, ReceiveCallOK
  <2> QED
    BY Zenon, <2>1, <2>2 DEF ProcessConfirmed
<1> QED
  BY Zenon, <1>1, FrameOK DEF ProcessConfirmed, WalletInv, tables, history

(* Elections, the search and the password *)
LEMMA ElsewhereOK ==
    ASSUME WalletInv, UNCHANGED <<chain, keys, actions, thread, queue, up, told>>
    PROVE  WalletInv'
<1>1. ActionsOK'
  BY Zenon DEF WalletInv, ActionsOK
<1> QED
  BY Zenon, <1>1, FrameOK DEF WalletInv

LEMMA NodeStopOK == ASSUME WalletInv, NodeStop PROVE WalletInv'
<1>1. PICK b : b = thread.block
  BY Zenon
<1>2. Blocks' = Blocks /\ (Fits(b)' <=> Fits(b)) /\ (ChainsOK' <=> ChainsOK)
  BY Zenon, SameChain DEF NodeStop, tables
<1>3. Fits(thread.block)' <=> Fits(b)'
  BY Zenon, <1>1 DEF Fits, Balance, NodeStop
<1>4. ThreadOK'
  BY Zenon, <1>1, <1>2, <1>3 DEF WalletInv, ThreadOK, BlockOK, NodeStop, Idle
<1> QED
  BY Zenon, <1>2, <1>4 DEF WalletInv, ActionsOK, NodeStop, tables

(* What goes down has nothing in hand. *)
LEMMA DownOK ==
    ASSUME WalletInv, UNCHANGED <<chain, keys, told>>, actions' = <<>>, thread' = Idle,
           queue' = {}
    PROVE  WalletInv'
<1>1. Blocks' = Blocks /\ (ChainsOK' <=> ChainsOK)
  BY Zenon, SameChain
<1>2. ActionsOK' /\ ThreadOK'
  BY Zenon, NoActions DEF ThreadOK, Idle
<1> QED
  BY Zenon, <1>1, <1>2 DEF WalletInv

LEMMA WalletsStopOK == ASSUME WalletInv, WalletsStop PROVE WalletInv'
<1>1. queue = {}
  BY Zenon DEF WalletInv, ThreadOK, WalletsStop, Idle
<1> QED
  BY Zenon, <1>1, DownOK DEF WalletsStop, tables, history

LEMMA RestartOK == ASSUME WalletInv, Restart PROVE WalletInv'
  BY Zenon, DownOK DEF Restart, tables

-----------------------------------------------------------------------------

LEMMA InitOK == ASSUME AccountsAreNoBlocks, Init PROVE WalletInv
<1>1. /\ Supply \div 2 \in Int
      /\ Supply - Supply \div 2 \in Int
  BY WalletAssumption
<1>2. ASSUME NEW a \in Holder PROVE ChainOK(a)
  <2>1. CASE chain[a] = <<>>
    BY <2>1 DEF ChainOK
  <2>2. ASSUME NEW balance \in Int, chain[a] = First(a, balance) PROVE ChainOK(a)
    <3> DEFINE b == [account |-> a, height |-> 1, link |-> NoBlock, balance |-> balance]
    <3>1. b.account = a /\ b.height = 1 /\ b.balance \in Int /\ b \notin Account
      BY Zenon DEF AccountsAreNoBlocks
    <3>2. chain[a] = <<b>>
      BY Zenon, <2>2 DEF First
    <3> HIDE DEF b
    <3>3. chain[a] \in Seq({b}) /\ Len(chain[a]) = 1 /\ chain[a][1] = b
      BY <3>2
    <3>4. chain[a] \in Seq(Range(chain[a]))
      BY Zenon, <3>3, SeqOfRange
    <3> QED
      BY <3>1, <3>3, <3>4 DEF ChainOK
  <2> QED
    BY Zenon, <1>1, <2>1, <2>2 DEF Init, Holder
<1>3. ChainsOK
  BY Zenon, <1>2 DEF ChainsOK, Init, Holder
<1>4. ActionsOK /\ ThreadOK
  BY DEF Init, ActionsOK, ThreadOK, Idle
<1> QED
  BY Zenon, <1>3, <1>4, WalletAssumption DEF WalletInv, Init

LEMMA StepOK == ASSUME WalletInv, AccountsAreNoBlocks, [Next]_vars PROVE WalletInv'
<1>1. CASE Next
  <2>1. ASSUME NEW a \in Account, NEW link \in Account, NEW amount \in Amount,
               NEW id \in Id \cup {NoId}, NEW own \in BOOLEAN, SendAsync(a, link, amount, id, own)
        PROVE  WalletInv'
    BY Zenon, <2>1, SendAsyncOK
  <2>2. ASSUME NEW a \in Account, NEW own \in BOOLEAN, ChangeAsync(a, own) PROVE WalletInv'
    BY Zenon, <2>2, ChangeAsyncOK
  <2>3. ASSUME NEW a \in Account, InsertAdhoc(a) PROVE WalletInv'
    BY Zenon, <2>3, InsertAdhocOK
  <2>4. ASSUME NEW b \in Pending, NEW own \in BOOLEAN, RpcReceive(b, own) PROVE WalletInv'
    BY Zenon, <2>4, RpcReceiveOK
  <2>5. CASE Begin \/ ProcessActive \/ Flush
    BY Zenon, <2>5, BeginOK, ProcessActiveOK, FlushOK
  <2>6. ASSUME NEW b \in queue, ProcessBlock(b) PROVE WalletInv'
    BY Zenon, <2>6, ProcessBlockOK
  <2>7. ASSUME NEW a \in Account, NEW amount \in Amount, OutsideSends(a, amount)
        PROVE  WalletInv'
    BY Zenon, <2>7, OutsideSendsOK
  <2>8. ASSUME NEW b, ConfirmOnce(b) \/ AnnounceVotes(b) PROVE WalletInv'
    BY Zenon, <2>8, ElsewhereOK DEF ConfirmOnce, AnnounceVotes, tables, history
  <2>9. ASSUME NEW b, ProcessConfirmed(b) PROVE WalletInv'
    BY Zenon, <2>9, ProcessConfirmedOK
  <2>10. CASE RpcSearch \/ BackgroundSearch \/ WalletLock \/ EnterPassword
    BY Zenon, <2>10, ElsewhereOK
       DEF RpcSearch, BackgroundSearch, WalletLock, EnterPassword, tables
  <2>11. CASE NodeStop \/ WalletsStop \/ Restart
    BY Zenon, <2>11, NodeStopOK, WalletsStopOK, RestartOK
  <2> QED
    BY ONLY <1>1, <2>1, <2>2, <2>3, <2>4, <2>5, <2>6, <2>7, <2>8, <2>9, <2>10, <2>11, Zenon
       DEF Next
<1>2. CASE UNCHANGED vars
  BY Zenon, <1>2, ElsewhereOK DEF vars, tables, history
<1> QED
  BY Zenon, <1>1, <1>2

(* At every moment the processor has at most the block that the wallet's   *)
(* thread waits for in flush, and the block in its hands goes on top of    *)
(* the ledger as it then is: by one action of do_wallet_actions after the  *)
(* other, across stops and restarts.                                       *)
THEOREM WalletInvariant == ASSUME AccountsAreNoBlocks PROVE Spec => []WalletInv
<1>1. Init => WalletInv
  BY Zenon, InitOK
<1>2. WalletInv /\ [Next]_vars => WalletInv'
  BY Zenon, StepOK
<1> QED
  BY <1>1, <1>2, PTL DEF Spec

(* The wallet does not fork its own accounts (BlocksExtend): what it hands *)
(* to the block processor extends the chain and receives what is pending,  *)
(* for any number of accounts, ids, calls, sends from outside and restarts. *)
THEOREM WalletExtends == ASSUME AccountsAreNoBlocks PROVE Spec => []BlocksExtend
<1>1. WalletInv => BlocksExtend
  BY Zenon DEF WalletInv, ThreadOK, BlocksExtend
<1> QED
  BY <1>1, WalletInvariant, PTL

(* What send_action, change_action and receive_action give their callers   *)
(* while the processor runs is in the ledger, and stays there              *)
(* (ToldIsStored).                                                         *)
THEOREM WalletStores == ASSUME AccountsAreNoBlocks PROVE Spec => []ToldIsStored
<1>1. WalletInv => ToldIsStored
  BY Zenon DEF WalletInv, ToldIsStored
<1> QED
  BY <1>1, WalletInvariant, PTL

-----------------------------------------------------------------------------
(* Sends with an id *)

(* Blocks in the ledger or in the hands of the thread *)
Held == Blocks \cup (IF thread.stage = "idle" THEN {} ELSE {thread.block})

(* The table has the block of an id that may count: of the blocks that     *)
(* calls with the id made last, none but the one in the table is held.     *)
MadeOK ==
    /\ DOMAIN ids = Id
    /\ \A m \in made :
        /\ m = <<m[1], m[2]>>
        /\ m[1] \in Id
        /\ m[2].account \in Account
        /\ m[2] \in Held => ids[m[1]] = m[2]

(* Nothing is made, and no block of the wallet comes to be held. *)
LEMMA MadeKept ==
    ASSUME MadeOK, UNCHANGED <<ids, made>>,
           \A b \in Held' : b.account \in Account => b \in Held
    PROVE  MadeOK'
  BY Zenon DEF MadeOK

LEMMA MadeSame == ASSUME MadeOK, UNCHANGED <<ids, made, chain, thread>> PROVE MadeOK'
<1>1. Held' = Held
  BY Zenon DEF Held, Blocks
<1> QED
  BY Zenon, <1>1, MadeKept

(* The thread makes a block, with an id that is new to it or without one. *)
LEMMA MadeBuilds ==
    ASSUME WalletInv, MadeOK, UNCHANGED chain, thread = Idle, NEW act, NEW id \in Id \cup {NoId},
           NEW b, b.account \in Account, Builds(act, id, b),
           ids' = IF id = NoId THEN ids ELSE [ids EXCEPT ![id] = b],
           id # NoId => ids[id] \notin Blocks
    PROVE  MadeOK'
<1>1. Held = Blocks /\ Held' = Blocks \cup {b}
  <2>1. Blocks' = Blocks
    BY Zenon DEF Blocks
  <2>2. thread'.stage = "made" /\ thread'.block = b /\ thread.stage = "idle"
    BY Zenon DEF Builds, Idle
  <2>3. thread'.stage # "idle"
    BY <2>2
  <2> QED
    BY Zenon, <2>1, <2>2, <2>3 DEF Held
<1>2. DOMAIN ids' = Id
  BY Zenon DEF MadeOK
<1>3. ASSUME NEW m \in made'
      PROVE  /\ m = <<m[1], m[2]>>
             /\ m[1] \in Id
             /\ m[2].account \in Account
             /\ m[2] \in Held' => ids'[m[1]] = m[2]
  <2>1. CASE id # NoId /\ m = <<id, b>>
    <3>1. m[1] = id /\ m[2] = b
      BY <2>1
    <3> QED
      BY Zenon, <2>1, <3>1 DEF MadeOK
  <2>2. CASE m \in made /\ m[2] # b
    <3>1. /\ m = <<m[1], m[2]>>
          /\ m[1] \in Id
          /\ m[2].account \in Account
          /\ m[2] \in Held => ids[m[1]] = m[2]
      BY Zenon, <2>2 DEF MadeOK
    <3>2. ASSUME m[2] \in Held' PROVE ids'[m[1]] = m[2]
      <4>1. m[2] \in Blocks /\ ids[m[1]] = m[2]
        BY Zenon, <1>1, <2>2, <3>1, <3>2
      <4>2. CASE id = NoId
        BY Zenon, <4>1, <4>2
      <4>3. CASE id # NoId
        <5>1. m[1] # id
          BY Zenon, <4>1, <4>3
        <5> QED
          BY Zenon, <3>1, <4>1, <4>3, <5>1 DEF MadeOK
      <4> QED
        BY Zenon, <4>2, <4>3
    <3> QED
      BY Zenon, <3>1, <3>2
  <2> QED
    BY Zenon, <2>1, <2>2 DEF Builds
<1> QED
  BY Zenon, <1>2, <1>3 DEF MadeOK

LEMMA MadeBegin == ASSUME WalletInv, AccountsAreNoBlocks, MadeOK, Begin PROVE MadeOK'
<1> DEFINE act == Head(actions)
<1>1. UNCHANGED chain /\ thread = Idle /\ actions # <<>> /\ actions' = Tail(actions)
  BY Zenon DEF Begin
<1>2. ActionOK(act)
  BY Zenon, <1>1, HeadOK DEF WalletInv
<1> HIDE DEF act
<1>3. CASE UNCHANGED <<ids, made, thread>>
  BY Zenon, <1>1, <1>3, MadeSame
<1>4. ASSUME NEW link, NEW balance, NEW id \in Id \cup {NoId},
             Builds(act, id, NextBlock(act.account, link, balance)),
             ids' = IF id = NoId THEN ids
                    ELSE [ids EXCEPT ![id] = NextBlock(act.account, link, balance)],
             id # NoId => ids[id] \notin Blocks
      PROVE  MadeOK'
  <2>1. NextBlock(act.account, link, balance).account \in Account
    BY Zenon, <1>2 DEF NextBlock, ActionOK
  <2> QED
    BY Zenon, <1>1, <1>4, <2>1, MadeBuilds
<1>5. CASE act.kind = "send" /\ SendAction(act)
  <2> DEFINE balance == Balance(act.account) - act.amount
             b == NextBlock(act.account, act.link, balance)
  <2>1. act.id \in Id \cup {NoId}
    BY Zenon, <1>2, <1>5 DEF ActionOK
  <2>2. CASE /\ ~Known(act)
             /\ Builds(act, act.id, b)
             /\ ids' = IF act.id = NoId THEN ids ELSE [ids EXCEPT ![act.id] = b]
    BY Zenon, <1>4, <2>1, <2>2 DEF Known
  <2> QED
    BY Zenon, <1>3, <1>5, <2>2 DEF SendAction
<1>6. CASE act.kind = "change" /\ ChangeAction(act) /\ UNCHANGED ids
  BY Zenon, <1>3, <1>4, <1>6 DEF ChangeAction
<1>7. CASE act.kind = "receive" /\ ReceiveAction(act) /\ UNCHANGED ids
  BY Zenon, <1>3, <1>4, <1>7 DEF ReceiveAction
<1> QED
  BY Zenon, <1>3, <1>5, <1>6, <1>7 DEF Begin, act

(* The processor stores the thread's block, or one from outside. *)
LEMMA MadeProcess ==
    ASSUME WalletInv, MadeOK, NEW b \in queue, ProcessBlock(b) PROVE MadeOK'
<1>1. /\ thread.stage = "flush"
      /\ thread.block = b
      /\ BlockOK(b)
      /\ Fits(b)
  BY Zenon DEF WalletInv, ThreadOK
<1>2. chain' = [chain EXCEPT ![b.account] = Append(@, b)]
  BY Zenon, <1>1 DEF ProcessBlock
<1>3. Blocks' = Blocks \cup {b}
  BY Zenon, <1>1, <1>2, AppendOK DEF WalletInv, BlockOK, Fits, Holder
<1>4. thread.stage # "idle" /\ UNCHANGED <<thread, ids, made>>
  BY <1>1 DEF ProcessBlock
<1>5. Held' \subseteq Held
  BY Zenon, <1>1, <1>3, <1>4 DEF Held
<1> QED
  BY Zenon, <1>4, <1>5, MadeKept

LEMMA MadeOutside ==
    ASSUME WalletInv, AccountsAreNoBlocks, MadeOK, NEW a \in Account, NEW amount \in Amount,
           OutsideSends(a, amount)
    PROVE  MadeOK'
<1> DEFINE b == NextBlock(Outside, a, Balance(Outside) - amount)
<1>1. chain' = [chain EXCEPT ![Outside] = Append(@, b)] /\ UNCHANGED <<thread, ids, made>>
  BY Zenon DEF OutsideSends
<1>2. Outside \in Holder /\ Balance(Outside) - amount \in Int
  BY BalanceInt, WalletAssumption DEF WalletInv, Holder
<1>3. /\ b.account = Outside
      /\ b.height = Len(chain[Outside]) + 1
      /\ b.balance \in Int
      /\ b \notin Account
  BY <1>2, NextBlockIs DEF WalletInv
<1> HIDE DEF b
<1>4. Blocks' = Blocks \cup {b}
  BY Zenon, <1>1, <1>2, <1>3, AppendOK DEF WalletInv
<1>5. Held' = Held \cup {b}
  BY Zenon, <1>1, <1>4 DEF Held
<1> QED
  BY Zenon, <1>1, <1>3, <1>5, MadeKept, WalletAssumption

(* The thread goes on, or is done, or all of it is lost. *)
LEMMA MadeThread ==
    ASSUME WalletInv, MadeOK, ProcessActive \/ Flush \/ Restart PROVE MadeOK'
<1>1. UNCHANGED <<chain, ids, made>> /\ Blocks' = Blocks
  BY Zenon DEF ProcessActive, Flush, Restart, tables, history, Blocks
<1>2. CASE ProcessActive
  <2>1. thread.stage = "made" /\ thread'.stage = "flush" /\ thread'.block = thread.block
    BY <1>2 DEF ProcessActive, WalletInv, ThreadOK
  <2>2. thread.stage # "idle"
    BY <2>1
  <2>3. Held' \subseteq Held
    BY Zenon, <1>1, <2>1, <2>2 DEF Held
  <2> QED
    BY Zenon, <1>1, <2>3, MadeKept
<1>3. CASE Flush \/ Restart
  <2>1. thread'.stage = "idle"
    <3>1. thread' = Idle
      BY Zenon, <1>3 DEF Flush, Restart
    <3> QED
      BY <3>1 DEF Idle
  <2>2. Held' \subseteq Held
    BY Zenon, <1>1, <2>1 DEF Held
  <2> QED
    BY Zenon, <1>1, <2>2, MadeKept
<1> QED
  BY Zenon, <1>2, <1>3

LEMMA MadeStep ==
    ASSUME WalletInv, AccountsAreNoBlocks, MadeOK, [Next]_vars PROVE MadeOK'
<1>1. CASE Next
  <2>1. ASSUME NEW a, NEW link, NEW amount, NEW id, NEW own, SendAsync(a, link, amount, id, own)
        PROVE  MadeOK'
    BY Zenon, <2>1, MadeSame DEF SendAsync
  <2>2. ASSUME NEW a, NEW own, ChangeAsync(a, own) PROVE MadeOK'
    BY Zenon, <2>2, MadeSame DEF ChangeAsync
  <2>3. ASSUME NEW a, InsertAdhoc(a) PROVE MadeOK'
    BY Zenon, <2>3, MadeSame DEF InsertAdhoc, history
  <2>4. ASSUME NEW b, NEW own, RpcReceive(b, own) PROVE MadeOK'
    BY Zenon, <2>4, MadeSame DEF RpcReceive
  <2>5. CASE Begin \/ ProcessActive \/ Flush
    BY Zenon, <2>5, MadeBegin, MadeThread
  <2>6. ASSUME NEW b \in queue, ProcessBlock(b) PROVE MadeOK'
    BY Zenon, <2>6, MadeProcess
  <2>7. ASSUME NEW a \in Account, NEW amount \in Amount, OutsideSends(a, amount)
        PROVE  MadeOK'
    BY Zenon, <2>7, MadeOutside
  <2>8. ASSUME NEW b, ConfirmOnce(b) \/ ProcessConfirmed(b) \/ AnnounceVotes(b) PROVE MadeOK'
    BY Zenon, <2>8, MadeSame DEF ConfirmOnce, ProcessConfirmed, AnnounceVotes, tables, history
  <2>9. CASE RpcSearch \/ BackgroundSearch \/ WalletLock \/ EnterPassword
    BY Zenon, <2>9, MadeSame DEF RpcSearch, BackgroundSearch, WalletLock, EnterPassword, tables
  <2>10. CASE NodeStop \/ WalletsStop
    BY Zenon, <2>10, MadeSame DEF NodeStop, WalletsStop, tables, history
  <2>11. CASE Restart
    BY Zenon, <2>11, MadeThread
  <2> QED
    BY ONLY <1>1, <2>1, <2>2, <2>3, <2>4, <2>5, <2>6, <2>7, <2>8, <2>9, <2>10, <2>11, Zenon
       DEF Next
<1>2. CASE UNCHANGED vars
  BY Zenon, <1>2, MadeSame DEF vars, tables, history
<1> QED
  BY Zenon, <1>1, <1>2

(* A send with an id happens once (SentOnce), for any number of calls with *)
(* any ids and amounts and of stops and crashes between them: send_action  *)
(* makes a block for an id only when the one in send_action_ids is not in  *)
(* the ledger, and then no other block that calls with the id made last    *)
(* is, or can still get there.                                             *)
THEOREM WalletSendsOnce == ASSUME AccountsAreNoBlocks PROVE Spec => []SentOnce
<1>1. Init => MadeOK
  BY Zenon DEF Init, MadeOK
<1>2. WalletInv /\ MadeOK /\ [Next]_vars => MadeOK'
  BY Zenon, MadeStep
<1>3. MadeOK => SentOnce
  BY Zenon DEF MadeOK, SentOnce, Held
<1> QED
  BY <1>1, <1>2, <1>3, WalletInvariant, PTL DEF Spec

=============================================================================
