------------------------- MODULE LedgerTotalsProofs -------------------------
(***************************************************************************)
(* What one block more or less does to the sums and counts: the balances,  *)
(* the amounts under way, the weights, the checksum, the block counts and  *)
(* the index.                                                              *)
(***************************************************************************)
EXTENDS LedgerReadProofs, FiniteSetTheorems

-----------------------------------------------------------------------------
(* The order of numbers, for induction by a least counterexample. *)

(* A set of natural numbers has a least one. *)
LEMMA LeastNat ==
    ASSUME NEW S \in SUBSET Nat, S # {}
    PROVE  \E n \in S : \A m \in S : n <= m
<1>1. \E x \in S : \A y \in S : ~(<<y, x>> \in OpToRel(<, Nat))
  BY Zenon, NatLessThanWellFounded, WFMin
<1>2. PICK x \in S : \A y \in S : ~(<<y, x>> \in OpToRel(<, Nat))
  BY Zenon, <1>1
<1>3. \A y \in S : ~(y < x)
  BY Zenon, <1>2 DEF OpToRel
<1> QED
  BY <1>3

(* What the lemmas of LedgerReadProofs on chains assume of the hashes. *)
LEMMA HashOrder == WellOrdered
<1>1. Hash \subseteq Nat
  BY BlocksAssumption DEF Hash
<1> QED
  BY Zenon, <1>1, LeastNat DEF WellOrdered

-----------------------------------------------------------------------------
(* Sums over finite sets. *)

(* The recursion behind Total, over the subsets of S. *)
One(s) == CHOOSE x \in s : TRUE

Adds(f, g, s) == IF s = {} THEN 0 ELSE f[One(s)] + g[s \ {One(s)}]

Solves(g, f, S) == \A s \in SUBSET S : g[s] = Adds(f, g, s)

LEMMA OneFacts ==
    ASSUME NEW s, IsFiniteSet(s), s # {}
    PROVE  /\ One(s) \in s /\ Cardinality(s) \in Nat /\ Cardinality(s) # 0
           /\ IsFiniteSet(s \ {One(s)})
           /\ Cardinality(s \ {One(s)}) = Cardinality(s) - 1
<1>1. One(s) \in s
  BY Zenon DEF One
<1> QED
  BY Zenon, <1>1, FS_RemoveElement, FS_CardinalityType, FS_EmptySet

(* Induction over the subsets of a finite set, by a smallest exception. *)
LEMMA Smallest ==
    ASSUME NEW S, IsFiniteSet(S), NEW Z \in SUBSET (SUBSET S), Z # {}
    PROVE  \E s \in Z : \A x \in s : s \ {x} \in SUBSET S /\ s \ {x} \notin Z
<1> DEFINE N == {n \in Nat : \E s \in Z : n = Cardinality(s)}
<1>1. \A s \in SUBSET S : IsFiniteSet(s) /\ Cardinality(s) \in Nat
  BY Zenon, FS_Subset, FS_CardinalityType
<1>2. N \in SUBSET Nat /\ N # {}
  BY Zenon, <1>1
<1>3. PICK n \in N : \A m \in N : n <= m
  <2> HIDE DEF N
  <2> QED
    BY Zenon, <1>2, LeastNat
<1>4. PICK s \in Z : n = Cardinality(s)
  BY Zenon, <1>3
<1>5. ASSUME NEW x \in s PROVE s \ {x} \in SUBSET S /\ s \ {x} \notin Z
  <2>1. s \ {x} \in SUBSET S /\ Cardinality(s \ {x}) = n - 1 /\ n \in Nat
    BY Zenon, <1>1, <1>4, FS_RemoveElement
  <2>2. n - 1 \notin N
    BY <1>3, <2>1
  <2>3. s \ {x} \in Z => Cardinality(s \ {x}) \in N
    BY Zenon, <1>1
  <2> QED
    BY Zenon, <2>1, <2>2, <2>3
<1> QED
  BY Zenon, <1>5

(* A function that satisfies the recursion exists, by approximations. *)
LEMMA AddsExists ==
    ASSUME NEW f, NEW S, IsFiniteSet(S), \A x \in S : f[x] \in Int
    PROVE  \E g \in [SUBSET S -> Int] : Solves(g, f, S)
<1> DEFINE Upto(n) == \E g \in [SUBSET S -> Int] :
                          \A s \in SUBSET S : Cardinality(s) <= n => g[s] = Adds(f, g, s)
           Wrong == {n \in Nat : ~Upto(n)}
<1>1. \A s \in SUBSET S : IsFiniteSet(s) /\ Cardinality(s) \in Nat /\ Cardinality(s) <= Cardinality(S)
  BY Zenon, FS_Subset, FS_CardinalityType
<1>2. Upto(0)
  <2> DEFINE g == [s \in SUBSET S |-> 0]
  <2>1. g \in [SUBSET S -> Int]
    OBVIOUS
  <2>2. ASSUME NEW s \in SUBSET S, Cardinality(s) <= 0 PROVE g[s] = Adds(f, g, s)
    <3>1. s = {}
      BY <1>1, <2>2, FS_EmptySet
    <3> QED
      BY Zenon, <3>1 DEF Adds
  <2> QED
    BY Zenon, <2>1, <2>2
<1>3. ASSUME NEW n \in Nat, Upto(n) PROVE Upto(n + 1)
  <2>1. PICK g \in [SUBSET S -> Int] :
            \A s \in SUBSET S : Cardinality(s) <= n => g[s] = Adds(f, g, s)
    BY Zenon, <1>3
  <2> DEFINE k == [s \in SUBSET S |-> IF Cardinality(s) <= n THEN g[s] ELSE Adds(f, g, s)]
  <2>2. ASSUME NEW s \in SUBSET S PROVE Adds(f, g, s) \in Int
    <3>1. s # {} => One(s) \in S /\ s \ {One(s)} \in SUBSET S
      BY Zenon, <1>1, OneFacts
    <3> QED
      BY <3>1 DEF Adds
  <2>3. k \in [SUBSET S -> Int]
    BY Zenon, <2>2
  <2>4. ASSUME NEW s \in SUBSET S, Cardinality(s) <= n + 1 PROVE k[s] = Adds(f, k, s)
    <3>1. s # {} => s \ {One(s)} \in SUBSET S /\ Cardinality(s \ {One(s)}) <= n
      BY <1>1, <2>4, OneFacts
    <3>2. s # {} => k[s \ {One(s)}] = g[s \ {One(s)}]
      BY Zenon, <3>1
    <3>3. k[s] = Adds(f, g, s)
      BY Zenon, <2>1
    <3> QED
      BY Zenon, <3>2, <3>3 DEF Adds
  <2> HIDE DEF k
  <2> QED
    BY Zenon, <2>3, <2>4
<1> HIDE DEF Upto
<1>4. Wrong = {}
  <2> SUFFICES ASSUME Wrong # {} PROVE FALSE
    BY Zenon
  <2>1. PICK n \in Wrong : \A m \in Wrong : n <= m
    BY Zenon, LeastNat
  <2>2. n # 0
    BY Zenon, <1>2, <2>1
  <2>3. n - 1 \in Nat /\ n - 1 \notin Wrong
    BY <2>1, <2>2
  <2>4. Upto((n - 1) + 1)
    BY Zenon, <1>3, <2>3
  <2> QED
    BY <2>1, <2>4
<1>5. Upto(Cardinality(S))
  BY Zenon, <1>4, FS_CardinalityType
<1> QED
  BY Zenon, <1>1, <1>5 DEF Upto, Solves

LEMMA AddsUnique ==
    ASSUME NEW f, NEW S, IsFiniteSet(S), NEW g, Solves(g, f, S), NEW k, Solves(k, f, S)
    PROVE  \A s \in SUBSET S : g[s] = k[s]
<1> DEFINE Z == {s \in SUBSET S : g[s] # k[s]}
<1> SUFFICES ASSUME Z # {} PROVE FALSE
  BY Zenon
<1>2. PICK s \in Z : \A x \in s : s \ {x} \in SUBSET S /\ s \ {x} \notin Z
  <2>1. Z \in SUBSET (SUBSET S) /\ Z # {}
    BY Zenon
  <2> HIDE DEF Z
  <2> QED
    BY Zenon, <2>1, Smallest
<1>3. s \in SUBSET S /\ g[s] # k[s]
  BY Zenon
<1>4. g[s] = Adds(f, g, s) /\ k[s] = Adds(f, k, s)
  BY Zenon, <1>3 DEF Solves
<1>5. s # {}
  BY Zenon, <1>3, <1>4 DEF Adds
<1>6. One(s) \in s
  BY Zenon, <1>5 DEF One
<1>7. g[s \ {One(s)}] = k[s \ {One(s)}]
  BY Zenon, <1>2, <1>6
<1> QED
  BY ONLY Zenon, <1>3, <1>4, <1>5, <1>7 DEF Adds

LEMMA TotalIs ==
    ASSUME NEW f, NEW S, IsFiniteSet(S), NEW g, Solves(g, f, S), \A x \in S : f[x] \in Int
    PROVE  Total(f, S) = g[S]
<1> DEFINE F(k) == [s \in SUBSET S |-> IF s = {} THEN 0 ELSE f[One(s)] + k[s \ {One(s)}]]
           it == CHOOSE k : k = F(k)
<1>1. Total(f, S) = it[S]
  BY Zenon DEF Total, MapThenSumSet, MapThenFoldSet, One
<1>2. PICK k \in [SUBSET S -> Int] : Solves(k, f, S)
  BY Zenon, AddsExists
<1>3. k = F(k)
  BY Zenon, <1>2 DEF Solves, Adds
<1> HIDE DEF F
<1>4. it = F(it)
  BY Zenon, <1>3
<1>5. Solves(it, f, S)
  <2> HIDE DEF it
  <2> QED
    BY Zenon, <1>4 DEF F, Solves, Adds
<1> HIDE DEF it
<1> QED
  BY <1>1, <1>5, AddsUnique

(* The sums of the subsets of S satisfy the recursion. *)
LEMMA TotalAdds ==
    ASSUME NEW f, NEW S, IsFiniteSet(S), \A x \in S : f[x] \in Int
    PROVE  \E g \in [SUBSET S -> Int] :
               Solves(g, f, S) /\ \A s \in SUBSET S : Total(f, s) = g[s]
<1>1. PICK g \in [SUBSET S -> Int] : Solves(g, f, S)
  BY Zenon, AddsExists
<1>2. ASSUME NEW s \in SUBSET S PROVE Total(f, s) = g[s]
  <2>1. IsFiniteSet(s) /\ (\A x \in s : f[x] \in Int) /\ Solves(g, f, s)
    BY Zenon, <1>1, FS_Subset DEF Solves
  <2> QED
    BY Zenon, <2>1, TotalIs
<1> QED
  BY Zenon, <1>1, <1>2

LEMMA TotalInt ==
    ASSUME NEW f, NEW S, IsFiniteSet(S), \A x \in S : f[x] \in Int
    PROVE  Total(f, S) \in Int /\ Total(f, {}) = 0
<1>1. PICK g \in [SUBSET S -> Int] :
          Solves(g, f, S) /\ \A s \in SUBSET S : Total(f, s) = g[s]
  BY Zenon, TotalAdds
<1>2. {} \in SUBSET S /\ S \in SUBSET S
  BY Zenon
<1>3. Total(f, S) \in Int /\ Total(f, {}) = Adds(f, g, {})
  BY <1>1, <1>2 DEF Solves
<1> QED
  BY Zenon, <1>3 DEF Adds

(* The order in which the elements are added does not matter. *)
LEMMA TotalRemove ==
    ASSUME NEW f, NEW S, IsFiniteSet(S), \A x \in S : f[x] \in Int, NEW x \in S
    PROVE  Total(f, S) = f[x] + Total(f, S \ {x})
<1>1. PICK g \in [SUBSET S -> Int] :
          Solves(g, f, S) /\ \A s \in SUBSET S : Total(f, s) = g[s]
  BY Zenon, TotalAdds
<1> DEFINE Z == {s \in SUBSET S : \E y \in s : g[s] # f[y] + g[s \ {y}]}
<1>2. Z = {}
  <2> SUFFICES ASSUME Z # {} PROVE FALSE
    BY Zenon
  <2>1. PICK s \in Z : \A z \in s : s \ {z} \in SUBSET S /\ s \ {z} \notin Z
    <3>1. Z \in SUBSET (SUBSET S) /\ Z # {}
      BY Zenon
    <3> HIDE DEF Z
    <3> QED
      BY Zenon, <3>1, Smallest
  <2>2. PICK y \in s : g[s] # f[y] + g[s \ {y}]
    BY Zenon, <2>1
  <2> DEFINE c == One(s)
             sc == s \ {c}
             sy == s \ {y}
             scy == s \ {c, y}
  <2>3. s \in SUBSET S /\ c \in s
    BY Zenon, <2>2 DEF One
  <2>4. g[s] = f[c] + g[sc]
    <3>1. g[s] = Adds(f, g, s) /\ s # {}
      BY Zenon, <1>1, <2>3 DEF Solves
    <3> QED
      BY ONLY Zenon, <3>1 DEF Adds
  <2>5. c # y
    BY Zenon, <2>2, <2>4
  <2>6. sc \notin Z /\ sy \notin Z /\ sc \in SUBSET S /\ sy \in SUBSET S /\ scy \in SUBSET S
    BY Zenon, <2>1, <2>2, <2>3
  <2>7. g[sc] = f[y] + g[scy]
    <3>1. sc \ {y} = scy /\ y \in sc
      BY Zenon, <2>2, <2>5
    <3> QED
      BY Zenon, <2>6, <3>1
  <2>8. g[sy] = f[c] + g[scy]
    <3>1. sy \ {c} = scy /\ c \in sy
      BY Zenon, <2>3, <2>5
    <3> QED
      BY Zenon, <2>6, <3>1
  <2>9. f[c] \in Int /\ f[y] \in Int /\ g[scy] \in Int
    BY Zenon, <2>2, <2>3, <2>6
  <2>10. g[s] # f[y] + g[sy]
    BY Zenon, <2>2
  <2> HIDE DEF c, sc, sy, scy
  <2> QED
    BY ONLY <2>4, <2>7, <2>8, <2>9, <2>10
<1>3. g[S] = f[x] + g[S \ {x}]
  BY Zenon, <1>2
<1> QED
  BY Zenon, <1>1, <1>3

LEMMA TotalInsert ==
    ASSUME NEW f, NEW S, IsFiniteSet(S), NEW x, x \notin S, \A y \in S \cup {x} : f[y] \in Int
    PROVE  Total(f, S \cup {x}) = f[x] + Total(f, S)
<1>1. IsFiniteSet(S \cup {x}) /\ (S \cup {x}) \ {x} = S /\ x \in S \cup {x}
  BY Zenon, FS_AddElement
<1> QED
  BY <1>1, TotalRemove

LEMMA TotalSame ==
    ASSUME NEW f, NEW k, NEW S, IsFiniteSet(S), \A x \in S : f[x] \in Int /\ k[x] = f[x]
    PROVE  Total(k, S) = Total(f, S)
<1>1. PICK g \in [SUBSET S -> Int] :
          Solves(g, f, S) /\ \A s \in SUBSET S : Total(f, s) = g[s]
  BY Zenon, TotalAdds
<1>2. ASSUME NEW s \in SUBSET S PROVE g[s] = Adds(k, g, s)
  <2>1. s # {} => One(s) \in S
    BY Zenon DEF One
  <2> QED
    BY Zenon, <1>1, <2>1 DEF Solves, Adds
<1>3. Solves(g, k, S) /\ (\A x \in S : k[x] \in Int) /\ Total(f, S) = g[S]
  BY Zenon, <1>1, <1>2 DEF Solves
<1> QED
  BY <1>3, TotalIs

(* A part of a sum of natural numbers. *)
LEMMA TotalPart ==
    ASSUME NEW f, NEW S, IsFiniteSet(S), \A x \in S : f[x] \in Nat, NEW T \in SUBSET S
    PROVE  Total(f, T) \in Nat /\ Total(f, T) <= Total(f, S)
<1> DEFINE Z == {s \in SUBSET S : ~(Total(f, s) \in Nat /\ \A t \in SUBSET s : Total(f, t) <= Total(f, s))}
<1>1. \A s \in SUBSET S : IsFiniteSet(s) /\ \A x \in s : f[x] \in Int
  BY FS_Subset
<1>2. Z = {}
  <2> SUFFICES ASSUME Z # {} PROVE FALSE
    BY Zenon
  <2>1. PICK s \in Z : \A z \in s : s \ {z} \in SUBSET S /\ s \ {z} \notin Z
    <3>1. Z \in SUBSET (SUBSET S) /\ Z # {}
      BY Zenon
    <3> HIDE DEF Z
    <3> QED
      BY Zenon, <3>1, Smallest
  <2>2. s # {}
    <3>1. Total(f, {}) = 0 /\ \A t \in SUBSET {} : t = {}
      BY TotalInt
    <3> QED
      BY <2>1, <3>1
  <2>4. \A x \in s : Total(f, s) = f[x] + Total(f, s \ {x}) /\ Total(f, s \ {x}) \in Nat /\ f[x] \in Nat
    <3> TAKE x \in s
    <3>1. Total(f, s) = f[x] + Total(f, s \ {x})
      BY <1>1, TotalRemove
    <3>2. Total(f, s \ {x}) \in Nat
      BY Zenon, <2>1
    <3> QED
      BY Zenon, <3>1, <3>2
  <2>5. Total(f, s) \in Nat
    <3>1. PICK x \in s : TRUE
      BY Zenon, <2>2
    <3>2. Total(f, s) = f[x] + Total(f, s \ {x}) /\ Total(f, s \ {x}) \in Nat /\ f[x] \in Nat
      BY Zenon, <2>4
    <3> QED
      BY ONLY <3>2
  <2>6. PICK t \in SUBSET s : ~(Total(f, t) <= Total(f, s))
    BY Zenon, <2>1, <2>5
  <2>7. t # s
    BY <2>5, <2>6
  <2>8. PICK x \in s : x \notin t
    BY Zenon, <2>7
  <2>9. t \in SUBSET (s \ {x}) /\ Total(f, t) <= Total(f, s \ {x})
    BY <2>1, <2>8
  <2>10. Total(f, t) \in Int
    BY Zenon, <1>1, <2>1, TotalInt
  <2> QED
    BY <2>4, <2>6, <2>8, <2>9, <2>10
<1> QED
  BY Zenon, <1>2

(* Two sums that differ in one element. *)
LEMMA SumMoves ==
    ASSUME NEW f, NEW S, IsFiniteSet(S), \A x \in S : f[x] \in Nat,
           NEW g, NEW T, IsFiniteSet(T), \A x \in T : g[x] \in Nat,
           NEW a, S \ {a} = T \ {a}, \A x \in S \ {a} : f[x] = g[x]
    PROVE  \E rest \in Nat : /\ Total(f, S) = rest + (IF a \in S THEN f[a] ELSE 0)
                             /\ Total(g, T) = rest + (IF a \in T THEN g[a] ELSE 0)
<1> DEFINE R == S \ {a}
           rest == Total(f, R)
<1>1. IsFiniteSet(R) /\ (\A x \in S : f[x] \in Int) /\ (\A x \in T : g[x] \in Int)
  BY FS_RemoveElement
<1>2. rest \in Nat /\ \A x \in R : f[x] \in Int /\ g[x] = f[x]
  <2>1. R \in SUBSET S
    BY Zenon
  <2> QED
    BY Zenon, <1>1, <2>1, TotalPart
<1>3. Total(g, R) = rest
  <2> HIDE DEF R
  <2> QED
    BY Zenon, <1>1, <1>2, TotalSame
<1>4. Total(f, S) = rest + (IF a \in S THEN f[a] ELSE 0)
  <2>1. CASE a \in S
    <3>1. Total(f, S) = f[a] + rest
      BY <1>1, <2>1, TotalRemove
    <3> HIDE DEF rest
    <3> QED
      BY <1>1, <1>2, <2>1, <3>1
  <2>2. CASE a \notin S
    <3>1. R = S
      BY Zenon, <2>2
    <3> HIDE DEF R
    <3> QED
      BY <1>2, <2>2, <3>1
  <2> QED
    BY Zenon, <2>1, <2>2
<1>5. Total(g, T) = rest + (IF a \in T THEN g[a] ELSE 0)
  <2>1. CASE a \in T
    <3>1. Total(g, T) = g[a] + rest
      BY <1>1, <1>3, <2>1, TotalRemove
    <3> HIDE DEF rest
    <3> QED
      BY <1>1, <1>2, <2>1, <3>1
  <2>2. CASE a \notin T
    <3>1. R = T
      BY Zenon, <2>2
    <3> HIDE DEF R
    <3> QED
      BY <1>2, <1>3, <2>2, <3>1
  <2> QED
    BY Zenon, <2>1, <2>2
<1> HIDE DEF rest
<1> QED
  BY Zenon, <1>2, <1>4, <1>5

-----------------------------------------------------------------------------
(* The sums over the accounts. *)

OpenedFact ==
    /\ OpenedAccounts = {a \in Account : accounts[a].head # 0}
    /\ IsFiniteSet(OpenedAccounts)
    /\ \A a \in Account : /\ accounts[a].balance \in 0 .. GenesisAmount
                          /\ accounts[a].head = 0 => accounts[a].balance = 0

PendingFact ==
    /\ IsFiniteSet(pending)
    /\ \A p \in pending : p.amount \in 0 .. GenesisAmount

LEMMA HashFinite == IsFiniteSet(Hash) /\ \A S \in SUBSET Hash : IsFiniteSet(S)
<1>1. IsFiniteSet(Hash)
  <2>1. 1 \in Int /\ NumBlocks \in Int
    BY BlocksAssumption
  <2> QED
    BY Zenon, <2>1, FS_Interval DEF Hash
<1> QED
  BY Zenon, <1>1, FS_Subset

LEMMA OpenedFacts == LedgerInv => OpenedFact
<1> SUFFICES ASSUME LedgerInv PROVE OpenedFact
  BY Zenon
<1>1. blocks \subseteq Hash
  BY Zenon DEF LedgerInv, TypeOK
<1>2. OpenedAccounts = {a \in Account : accounts[a].head # 0}
  BY HeadFacts DEF OpenedAccounts, Chain
<1>3. IsFiniteSet(OpenedAccounts)
  <2> DEFINE f == [h \in blocks |-> Owner[h]]
             T == {Owner[h] : h \in blocks}
  <2>1. f \in Surjection(blocks, T)
    BY Zenon DEF Surjection
  <2>2. IsFiniteSet(blocks)
    BY Zenon, <1>1, HashFinite
  <2>3. OpenedAccounts \in SUBSET T
    BY Zenon DEF OpenedAccounts, Chain
  <2>4. IsFiniteSet(T)
    <3> HIDE DEF f, T
    <3> QED
      BY Zenon, <2>1, <2>2, FS_Surjection
  <2> HIDE DEF T
  <2> QED
    BY Zenon, <2>3, <2>4, FS_Subset
<1>4. ASSUME NEW a \in Account
      PROVE  /\ accounts[a].balance \in 0 .. GenesisAmount
             /\ accounts[a].head = 0 => accounts[a].balance = 0
  <2>1. CASE accounts[a].head = 0
    BY <2>1, HeadFacts, BlocksAssumption DEF NoAccount
  <2>2. CASE accounts[a].head # 0
    BY <2>2, HeadFacts, BalanceAssumption
  <2> QED
    BY Zenon, <2>1, <2>2
<1> QED
  BY Zenon, <1>2, <1>3, <1>4 DEF OpenedFact

LEMMA PendingFinite == LedgerInv => PendingFact
<1> SUFFICES ASSUME LedgerInv PROVE PendingFact
  BY Zenon
<1> DEFINE f == [h \in Hash |-> Entry(h)]
           T == {Entry(h) : h \in Hash}
<1>1. f \in Surjection(Hash, T)
  BY Zenon DEF Surjection
<1>2. pending \in SUBSET T /\ \A p \in pending : p.amount \in 0 .. GenesisAmount
  <2>1. \A h \in Hash : Entry(h).amount = AmountAt[h] /\ AmountAt[h] \in 0 .. GenesisAmount
    BY Zenon, AmountAssumption DEF Entry
  <2>2. \A p \in pending : \E h \in Hash : p = Entry(h)
    BY Zenon DEF LedgerInv, TypeOK, PendingIsUnreceived, Entry
  <2> QED
    BY Zenon, <2>1, <2>2
<1>3. IsFiniteSet(T)
  <2> HIDE DEF f, T
  <2> QED
    BY <1>1, HashFinite, FS_Surjection
<1> HIDE DEF T
<1> QED
  BY Zenon, <1>2, <1>3, FS_Subset DEF PendingFact

(* A step that changes the account_info of a alone. *)
MovesAccount(a) == \A x \in Account \ {a} : accounts'[x] = accounts[x]

LEMMA BalancesMove ==
    ASSUME OpenedFact, OpenedFact', NEW a \in Account, MovesAccount(a)
    PROVE  \E rest \in Nat :
              /\ Total(Balances, OpenedAccounts) = rest + accounts[a].balance
              /\ Total(Balances, OpenedAccounts)' = rest + accounts'[a].balance
<1> DEFINE f == Balances
           S == OpenedAccounts
<1>0. IsFiniteSet(S) /\ IsFiniteSet(S')
  BY Zenon DEF OpenedFact
<1>1. /\ S = {x \in Account : accounts[x].head # 0}
      /\ S' = {x \in Account : accounts'[x].head # 0}
  BY Zenon DEF OpenedFact
<1>2. /\ \A x \in Account : f[x] = accounts[x].balance /\ f[x] \in 0 .. GenesisAmount
      /\ \A x \in Account : f'[x] = accounts'[x].balance /\ f'[x] \in 0 .. GenesisAmount
      /\ accounts[a].head = 0 => f[a] = 0
      /\ accounts'[a].head = 0 => f'[a] = 0
  BY Zenon DEF OpenedFact, Balances
<1>3. 0 .. GenesisAmount \subseteq Nat
  BY BlocksAssumption
<1>4. S \ {a} = S' \ {a} /\ \A x \in S \ {a} : f[x] = f'[x]
  BY <1>1, <1>2 DEF MovesAccount
<1>5. /\ \A x \in S : f[x] \in Nat
      /\ \A x \in S' : f'[x] \in Nat
  BY Zenon, <1>1, <1>2, <1>3
<1>6. \E rest \in Nat : /\ Total(f, S) = rest + (IF a \in S THEN f[a] ELSE 0)
                        /\ Total(f', S') = rest + (IF a \in S' THEN f'[a] ELSE 0)
  <2> HIDE DEF f, S
  <2> QED
    BY <1>0, <1>4, <1>5, SumMoves
<1>7. (IF a \in S THEN f[a] ELSE 0) = accounts[a].balance /\ (IF a \in S' THEN f'[a] ELSE 0) = accounts'[a].balance
  BY Zenon, <1>1, <1>2
<1> QED
  BY Zenon, <1>6, <1>7

LEMMA VotersMove ==
    ASSUME OpenedFact, OpenedFact', NEW a \in Account, MovesAccount(a), NEW r
    PROVE  \E rest \in Nat :
              /\ Total(Balances, Voters(r)) = rest + ShareOf(accounts[a], r)
              /\ Total(Balances, Voters(r))' = rest + ShareOf(accounts'[a], r)
<1> DEFINE f == Balances
           S == Voters(r)
<1>1. /\ S = {x \in Account : accounts[x].head # 0 /\ Representative(accounts[x].rep_block) = r}
      /\ S' = {x \in Account : accounts'[x].head # 0 /\ Representative(accounts'[x].rep_block) = r}
  BY Zenon DEF OpenedFact, Voters
<1>2. IsFiniteSet(S) /\ IsFiniteSet(S')
  <2>1. S \in SUBSET OpenedAccounts /\ S' \in SUBSET OpenedAccounts'
    BY Zenon DEF Voters
  <2> QED
    BY <2>1, FS_Subset DEF OpenedFact
<1>3. /\ \A x \in Account : f[x] = accounts[x].balance /\ f[x] \in 0 .. GenesisAmount
      /\ \A x \in Account : f'[x] = accounts'[x].balance /\ f'[x] \in 0 .. GenesisAmount
  BY Zenon DEF OpenedFact, Balances
<1>4. 0 .. GenesisAmount \subseteq Nat
  BY BlocksAssumption
<1>5. S \ {a} = S' \ {a} /\ \A x \in S \ {a} : f[x] = f'[x]
  BY <1>1, <1>3 DEF MovesAccount
<1>6. /\ \A x \in S : f[x] \in Nat
      /\ \A x \in S' : f'[x] \in Nat
  BY Zenon, <1>1, <1>3, <1>4
<1>7. \E rest \in Nat : /\ Total(f, S) = rest + (IF a \in S THEN f[a] ELSE 0)
                        /\ Total(f', S') = rest + (IF a \in S' THEN f'[a] ELSE 0)
  <2> HIDE DEF f, S
  <2> QED
    BY <1>2, <1>5, <1>6, SumMoves
<1>8. /\ (IF a \in S THEN f[a] ELSE 0) = ShareOf(accounts[a], r)
      /\ (IF a \in S' THEN f'[a] ELSE 0) = ShareOf(accounts'[a], r)
  BY Zenon, <1>1, <1>3 DEF ShareOf
<1> QED
  BY Zenon, <1>7, <1>8

-----------------------------------------------------------------------------
(* What a block sends and what it receives. *)

(* What h takes out of the balances, and puts back into them. *)
Sent(h) == IF IsSend(h) THEN AmountAt[h] ELSE 0

Taken(h) == IF Source(h) # 0 THEN AmountAt[Source(h)] ELSE 0

(* The balance after h is exact: its addition did not overflow. *)
Exact(h) == BalanceAt[h] + Sent(h) = BalanceBefore(h) + Taken(h)

LEMMA SendOrReceive == ASSUME NEW h, IsSend(h) PROVE Source(h) = 0
  BY Zenon DEF Source, IsSend

LEMMA EntryFacts ==
    ASSUME LedgerInv, NEW h
    PROVE  /\ {p \in pending : p.hash # h} = pending \ {Entry(h)}
           /\ Entry(h) \in pending <=> h \in blocks /\ IsSend(h) /\ ~Received(h)
           /\ Entry(h).amount = AmountAt[h]
<1>1. pending = {Entry(x) : x \in {y \in blocks : IsSend(y) /\ ~Received(y)}}
  BY Zenon DEF LedgerInv, PendingIsUnreceived, Entry
<1>2. \A x : Entry(x).hash = x
  BY Zenon DEF Entry
<1> QED
  BY Zenon, <1>1, <1>2 DEF Entry

LEMMA AmountsMove ==
    ASSUME PendingFact, PendingFact', NEW e, pending' \ {e} = pending \ {e}
    PROVE  \E rest \in Nat :
              /\ Total(Amounts, pending) = rest + (IF e \in pending THEN e.amount ELSE 0)
              /\ Total(Amounts, pending)' = rest + (IF e \in pending' THEN e.amount ELSE 0)
<1> DEFINE f == Amounts
<1>1. IsFiniteSet(pending) /\ IsFiniteSet(pending')
  BY Zenon DEF PendingFact
<1>2. 0 .. GenesisAmount \subseteq Nat
  BY BlocksAssumption
<1>3. /\ \A p \in pending : f[p] = p.amount /\ f[p] \in Nat
      /\ \A p \in pending' : f'[p] = p.amount /\ f'[p] \in Nat
  BY Zenon, <1>2 DEF PendingFact, Amounts
<1>4. \A p \in pending \ {e} : f[p] = f'[p]
  BY Zenon, <1>3
<1>5. \E rest \in Nat : /\ Total(f, pending) = rest + (IF e \in pending THEN f[e] ELSE 0)
                        /\ Total(f', pending') = rest + (IF e \in pending' THEN f'[e] ELSE 0)
  <2> HIDE DEF f
  <2> QED
    BY <1>1, <1>3, <1>4, SumMoves
<1>6. /\ e \in pending => f[e] = e.amount
      /\ e \in pending' => f'[e] = e.amount
  BY Zenon, <1>3
<1> QED
  BY Zenon, <1>5, <1>6

LEMMA AmountType == ASSUME NEW h \in Hash PROVE AmountAt[h] \in Nat /\ BalanceAt[h] \in Nat
  BY AmountAssumption, BalanceAssumption, BlocksAssumption

LEMMA AddPending ==
    ASSUME LedgerInv, PendingFact, PendingFact', NEW h \in Hash \ blocks, Valid(blocks, h), AddsBlock(h)
    PROVE  \E rest \in Nat : /\ Total(Amounts, pending) = rest + Taken(h)
                             /\ Total(Amounts, pending)' = rest + Sent(h)
<1> DEFINE s == Source(h)
<1>1. pending' = {p \in pending : p.hash # s} \cup (IF IsSend(h) THEN {Entry(h)} ELSE {})
  BY Zenon DEF AddsBlock
<1>2. 0 \notin blocks
  BY Zenon, NotZero DEF LedgerInv, TypeOK
<1>3. {p \in pending : p.hash # s} = pending \ {Entry(s)} /\ (s = 0 => pending \ {Entry(s)} = pending)
  BY Zenon, <1>2, EntryFacts
<1>4. Entry(h) \notin pending /\ Entry(h).amount = AmountAt[h]
  BY Zenon, EntryFacts
<1>5. s # 0 => Entry(s) \in pending /\ Entry(s).amount = AmountAt[s]
  BY Zenon, EntryFacts DEF Valid, ReceivesSend, Received
<1>6. CASE IsSend(h)
  <2>1. s = 0
    BY Zenon, <1>6, SendOrReceive
  <2>2. pending' \ {Entry(h)} = pending \ {Entry(h)} /\ Entry(h) \in pending'
    BY Zenon, <1>1, <1>3, <1>6, <2>1
  <2> QED
    BY Zenon, <1>4, <1>6, <2>1, <2>2, AmountsMove DEF Sent, Taken
<1>7. CASE ~IsSend(h) /\ s # 0
  <2>1. pending' \ {Entry(s)} = pending \ {Entry(s)} /\ Entry(s) \notin pending'
    BY Zenon, <1>1, <1>3, <1>7
  <2> QED
    BY Zenon, <1>5, <1>7, <2>1, AmountsMove DEF Sent, Taken
<1>8. CASE ~IsSend(h) /\ s = 0
  <2>1. pending' = pending
    BY Zenon, <1>1, <1>3, <1>8
  <2> QED
    BY Zenon, <1>4, <1>8, <2>1, AmountsMove DEF Sent, Taken
<1> QED
  BY Zenon, <1>6, <1>7, <1>8

LEMMA RemovePending ==
    ASSUME LedgerInv, PendingFact, PendingFact', NEW h \in blocks \ {Genesis}, ~Received(h), RemovesBlock(h)
    PROVE  \E rest \in Nat : /\ Total(Amounts, pending) = rest + Sent(h)
                             /\ Total(Amounts, pending)' = rest + Taken(h)
<1> DEFINE s == Source(h)
<1>1. pending' = {p \in pending : p.hash # h} \cup (IF s # 0 THEN {Entry(s)} ELSE {})
  BY Zenon DEF RemovesBlock
<1>2. {p \in pending : p.hash # h} = pending \ {Entry(h)}
  BY Zenon, EntryFacts
<1>3. (Entry(h) \in pending <=> IsSend(h)) /\ Entry(h).amount = AmountAt[h]
  BY Zenon, EntryFacts
<1>4. s # 0 => Entry(s) \notin pending /\ Entry(s).amount = AmountAt[s]
  BY Zenon, EntryFacts DEF Received
<1>5. CASE IsSend(h)
  <2>1. s = 0
    BY Zenon, <1>5, SendOrReceive
  <2>2. pending' \ {Entry(h)} = pending \ {Entry(h)} /\ Entry(h) \notin pending'
    BY Zenon, <1>1, <1>2, <2>1
  <2> QED
    BY Zenon, <1>3, <1>5, <2>1, <2>2, AmountsMove DEF Sent, Taken
<1>6. CASE ~IsSend(h) /\ s # 0
  <2>1. pending' \ {Entry(s)} = pending \ {Entry(s)} /\ Entry(s) \in pending'
    BY Zenon, <1>1, <1>2, <1>3, <1>6
  <2> QED
    BY Zenon, <1>4, <1>6, <2>1, AmountsMove DEF Sent, Taken
<1>7. CASE ~IsSend(h) /\ s = 0
  <2>1. pending' = pending
    BY Zenon, <1>1, <1>2, <1>3, <1>7
  <2> QED
    BY Zenon, <1>3, <1>7, <2>1, AmountsMove DEF Sent, Taken
<1> QED
  BY Zenon, <1>5, <1>6, <1>7

LEMMA ValidExact ==
    ASSUME LedgerInv, NEW h \in Hash, Valid(blocks, h), BalanceBefore(h) + Taken(h) <= GenesisAmount
    PROVE  Exact(h)
<1> DEFINE b == BalanceBefore(h)
           s == Source(h)
<1>1. b \in Nat /\ AmountAt[h] \in Nat /\ BalanceAt[h] \in Nat /\ Balance(h) \in Nat
  BY AmountType, BlockFields, BlocksAssumption DEF BalanceBefore
<1>2. s # 0 => s \in Hash /\ AmountAt[s] \in Nat /\ s = Link(h) /\ AmountOfLink(s) = AmountAt[s]
  BY Zenon, AmountType, ValidSource DEF LedgerInv, TypeOK, AmountOfLink
<1>3. Balanced(h)
  BY Zenon DEF Valid
<1>4. CASE Type(h) = "send"
  <2>1. s = 0 /\ IsSend(h) /\ BalanceAt[h] = Balance(h) /\ Balance(h) <= b
    BY Zenon, <1>3, <1>4, BalanceAssumption DEF Source, IsSend, Balanced
  <2>2. AmountAt[h] = b - Balance(h)
    BY <1>1, <1>4, <2>1, AmountAssumption
  <2> HIDE DEF b, s
  <2> QED
    BY <1>1, <2>1, <2>2 DEF Exact, Sent, Taken, b, s
<1>5. CASE Type(h) = "state" /\ IsSend(h)
  <2>1. s = 0 /\ BalanceAt[h] = Balance(h) /\ Balance(h) < b
    BY Zenon, <1>5, BalanceAssumption DEF Source, IsSend
  <2>2. AmountAt[h] = b - Balance(h)
    BY Zenon, <1>1, <1>5, <2>1, AmountAssumption
  <2> QED
    BY <1>1, <1>5, <2>1, <2>2 DEF Exact, Sent, Taken
<1>6. CASE Type(h) = "state" /\ ~IsSend(h)
  <2>1. BalanceAt[h] = Balance(h) /\ Balance(h) = b + Taken(h) /\ Sent(h) = 0
    BY Zenon, <1>3, <1>6, BalanceAssumption DEF Balanced, Taken, Sent
  <2> QED
    BY <1>1, <2>1 DEF Exact
<1>7. CASE Type(h) = "open"
  <2>1. ~IsSend(h) /\ s # 0 /\ b = 0
    BY Zenon, <1>7, ReferenceAssumption DEF IsSend, Source, BalanceBefore
  <2>2. BalanceAt[h] = AmountAt[s]
    BY Zenon, <1>2, <1>7, <2>1, BalanceAssumption
  <2> QED
    BY <1>1, <1>2, <2>1, <2>2 DEF Exact, Sent, Taken
<1>8. CASE Type(h) = "receive"
  <2>1. ~IsSend(h) /\ s # 0
    BY Zenon, <1>8, ReferenceAssumption DEF IsSend, Source
  <2>2. BalanceAt[h] = Wrap(b + AmountAt[s])
    BY Zenon, <1>2, <1>8, <2>1, BalanceAssumption
  <2>3. Taken(h) = AmountAt[s] /\ Sent(h) = 0
    BY Zenon, <2>1 DEF Taken, Sent
  <2>4. b + AmountAt[s] \in 0 .. GenesisAmount
    BY <1>1, <1>2, <2>1, <2>3, BlocksAssumption
  <2>5. BalanceAt[h] = b + AmountAt[s]
    BY Zenon, <2>2, <2>4, WrapSmall
  <2> QED
    BY <1>1, <2>3, <2>5 DEF Exact
<1>9. CASE Type(h) = "change"
  <2>1. ~IsSend(h) /\ s = 0 /\ BalanceAt[h] = b
    BY Zenon, <1>9, BalanceAssumption DEF IsSend, Source
  <2> QED
    BY Zenon, <1>1, <2>1 DEF Exact, Sent, Taken
<1> QED
  BY Zenon, <1>4, <1>5, <1>6, <1>7, <1>8, <1>9, BlockFields DEF BlockType

-----------------------------------------------------------------------------
(* The funds. *)

TotalsFact ==
    /\ Total(Balances, OpenedAccounts) \in Nat
    /\ \A r \in Account \cup {0} : /\ Total(Balances, Voters(r)) \in Nat
                                   /\ Total(Balances, Voters(r)) <= Total(Balances, OpenedAccounts)
    /\ Total(Amounts, pending) \in Nat

LEMMA TotalsFacts == OpenedFact /\ PendingFact => TotalsFact
<1> SUFFICES ASSUME OpenedFact, PendingFact PROVE TotalsFact
  BY Zenon
<1>1. 0 .. GenesisAmount \subseteq Nat
  BY BlocksAssumption
<1>2. IsFiniteSet(OpenedAccounts) /\ \A a \in OpenedAccounts : Balances[a] \in Nat
  BY Zenon, <1>1 DEF OpenedFact, Balances
<1>3. IsFiniteSet(pending) /\ \A p \in pending : Amounts[p] \in Nat
  BY Zenon, <1>1 DEF PendingFact, Amounts
<1>4. Total(Balances, OpenedAccounts) \in Nat
  BY Zenon, <1>2, TotalPart
<1>5. ASSUME NEW r \in Account \cup {0}
      PROVE  /\ Total(Balances, Voters(r)) \in Nat
             /\ Total(Balances, Voters(r)) <= Total(Balances, OpenedAccounts)
  <2>1. Voters(r) \in SUBSET OpenedAccounts
    BY Zenon DEF Voters
  <2> QED
    BY Zenon, <1>2, <2>1, TotalPart
<1>6. Total(Amounts, pending) \in Nat
  BY Zenon, <1>3, TotalPart
<1> QED
  BY Zenon, <1>4, <1>5, <1>6 DEF TotalsFact

(* The money: no balance overflowed, none is lost, and the weights are the *)
(* balances.                                                               *)
Funds ==
    /\ \A h \in blocks \ {Genesis} : Exact(h)
    /\ Conservation
    /\ WeightsAreBalances

LEMMA WeightsMove ==
    ASSUME OpenedFact, OpenedFact', TotalsFact', NEW a \in Account, MovesAccount(a), Tallies(a),
           WeightsAreBalances, Conservation'
    PROVE  WeightsAreBalances'
<1> SUFFICES ASSUME NEW r \in Account \cup {0}
             PROVE  representation'[r] = Total(Balances, Voters(r))'
  BY Zenon DEF WeightsAreBalances
<1> DEFINE old == ShareOf(accounts[a], r)
           new == ShareOf(accounts'[a], r)
           t == Total(Balances, Voters(r))'
           all == Total(Balances, OpenedAccounts)'
           under == Total(Amounts, pending)'
<1>1. representation'[r] = Wrap(representation[r] - old + new) /\ representation[r] = Total(Balances, Voters(r))
  BY Zenon DEF Tallies, WeightsAreBalances
<1>2. PICK rest \in Nat : Total(Balances, Voters(r)) = rest + old /\ t = rest + new
  BY Zenon, VotersMove
<1>3. old \in Int /\ new \in Int
  BY BlocksAssumption DEF ShareOf, OpenedFact
<1>4. t \in Nat /\ t <= all /\ all \in Nat /\ under \in Nat /\ all + under = GenesisAmount
  BY Zenon DEF TotalsFact, Conservation
<1> HIDE DEF old, new, t, all, under
<1>5. representation[r] - old + new = t
  BY <1>1, <1>2, <1>3
<1>6. t \in 0 .. GenesisAmount
  BY <1>4, BlocksAssumption
<1>7. representation'[r] = t
  BY Zenon, <1>1, <1>5, <1>6, WrapSmall
<1> QED
  BY Zenon, <1>7 DEF t

LEMMA AddMoves ==
    ASSUME LedgerInv, NEW h \in Hash \ blocks, Valid(blocks, h), AddsBlock(h)
    PROVE  /\ Owner[h] \in Account /\ MovesAccount(Owner[h])
           /\ accounts[Owner[h]].balance = BalanceBefore(h) /\ accounts'[Owner[h]].balance = BalanceAt[h]
           /\ accounts[Owner[h]].head = Previous(h) /\ accounts'[Owner[h]].head = h
<1>1. Owner[h] \in Account /\ accounts[Owner[h]].balance = BalanceBefore(h) /\ accounts[Owner[h]].head = Previous(h)
  BY Zenon, ValidAbove, ValidFirst DEF BalanceBefore, Opened
<1>2. accounts \in [Account -> AccountInfo]
  BY Zenon DEF LedgerInv, TypeOK
<1> QED
  BY <1>1, <1>2 DEF AddsBlock, MovesAccount

LEMMA RemoveMoves ==
    ASSUME LedgerInv, NEW h \in blocks \ {Genesis}, accounts[Owner[h]].head = h, RemovesBlock(h)
    PROVE  /\ Owner[h] \in Account /\ MovesAccount(Owner[h])
           /\ accounts[Owner[h]].balance = BalanceAt[h] /\ accounts'[Owner[h]].balance = BalanceBefore(h)
           /\ accounts'[Owner[h]].head = Previous(h)
<1>1. Owner[h] \in Account /\ accounts \in [Account -> AccountInfo] /\ h # 0
  BY Zenon, NotZero DEF LedgerInv, TypeOK, Sound, ChainsLinked
<1>2. accounts[Owner[h]].balance = BalanceAt[h]
  BY <1>1, HeadFacts
<1>3. PICK count \in Int :
          accounts' = [accounts EXCEPT ![Owner[h]] =
              IF Previous(h) = 0 THEN NoAccount
              ELSE [head |-> Previous(h), rep_block |-> RepBlockAt[Previous(h)],
                    open_block |-> accounts[Owner[h]].open_block,
                    balance |-> BalanceAt[Previous(h)], block_count |-> count]]
  BY Zenon DEF RemovesBlock
<1> QED
  BY Zenon, <1>1, <1>2, <1>3 DEF MovesAccount, NoAccount, BalanceBefore

LEMMA AddFunds ==
    ASSUME LedgerInv, LedgerInv', Funds, NEW h \in Hash \ blocks, Valid(blocks, h), AddsBlock(h),
           Tallies(Owner[h])
    PROVE  Funds'
<1> DEFINE a == Owner[h]
           all == Total(Balances, OpenedAccounts)
           under == Total(Amounts, pending)
<1>1. OpenedFact /\ OpenedFact' /\ PendingFact /\ PendingFact'
  BY OpenedFacts, PendingFinite, PTL
<1>2. TotalsFact'
  BY <1>1, TotalsFacts, PTL
<1>3. /\ a \in Account /\ MovesAccount(a)
      /\ accounts[a].balance = BalanceBefore(h) /\ accounts'[a].balance = BalanceAt[h]
  BY Zenon, AddMoves
<1>4. PICK m \in Nat : all = m + BalanceBefore(h) /\ all' = m + BalanceAt[h]
  BY Zenon, <1>1, <1>3, BalancesMove
<1>5. PICK n \in Nat : under = n + Taken(h) /\ under' = n + Sent(h)
  BY Zenon, <1>1, AddPending
<1>6. BalanceBefore(h) \in Nat /\ BalanceAt[h] \in Nat /\ Taken(h) \in Nat /\ Sent(h) \in Nat
  BY Zenon, AmountType, BlockFields, ValidSource DEF BalanceBefore, Taken, Sent, LedgerInv, TypeOK
<1>7. all + under = GenesisAmount
  BY Zenon DEF Funds, Conservation
<1> HIDE DEF all, under
<1>8. BalanceBefore(h) + Taken(h) <= GenesisAmount
  BY <1>4, <1>5, <1>6, <1>7
<1>9. Exact(h)
  BY Zenon, <1>8, ValidExact
<1>10. all' + under' = GenesisAmount
  BY <1>4, <1>5, <1>6, <1>7, <1>9 DEF Exact
<1>11. Conservation'
  BY Zenon, <1>10 DEF Conservation, all, under
<1>12. WeightsAreBalances'
  BY Zenon, <1>1, <1>2, <1>3, <1>11, WeightsMove DEF Funds
<1>13. \A x \in blocks' \ {Genesis} : Exact(x)
  BY Zenon, <1>9 DEF Funds, AddsBlock
<1> QED
  BY Zenon, <1>11, <1>12, <1>13 DEF Funds

LEMMA RemoveFunds ==
    ASSUME LedgerInv, LedgerInv', Funds, NEW h \in blocks \ {Genesis}, accounts[Owner[h]].head = h,
           ~Received(h), RemovesBlock(h), Tallies(Owner[h])
    PROVE  Funds'
<1> DEFINE a == Owner[h]
           all == Total(Balances, OpenedAccounts)
           under == Total(Amounts, pending)
<1>1. OpenedFact /\ OpenedFact' /\ PendingFact /\ PendingFact'
  BY OpenedFacts, PendingFinite, PTL
<1>2. TotalsFact'
  BY <1>1, TotalsFacts, PTL
<1>3. /\ a \in Account /\ MovesAccount(a)
      /\ accounts[a].balance = BalanceAt[h] /\ accounts'[a].balance = BalanceBefore(h)
  BY Zenon, RemoveMoves
<1>4. PICK m \in Nat : all = m + BalanceAt[h] /\ all' = m + BalanceBefore(h)
  BY Zenon, <1>1, <1>3, BalancesMove
<1>5. PICK n \in Nat : under = n + Sent(h) /\ under' = n + Taken(h)
  BY Zenon, <1>1, RemovePending
<1>6. BalanceBefore(h) \in Nat /\ BalanceAt[h] \in Nat /\ Taken(h) \in Nat /\ Sent(h) \in Nat
  <2>1. h \in Hash /\ (Source(h) # 0 => Source(h) \in Hash)
    BY Zenon, SourceFacts, HashOrder DEF LedgerInv, TypeOK
  <2> QED
    BY Zenon, <2>1, AmountType, BlockFields DEF BalanceBefore, Taken, Sent
<1>7. all + under = GenesisAmount /\ Exact(h)
  BY Zenon DEF Funds, Conservation
<1> HIDE DEF all, under
<1>8. all' + under' = GenesisAmount
  BY <1>4, <1>5, <1>6, <1>7 DEF Exact
<1>9. Conservation'
  BY Zenon, <1>8 DEF Conservation, all, under
<1>10. WeightsAreBalances'
  BY Zenon, <1>1, <1>2, <1>3, <1>9, WeightsMove DEF Funds
<1>11. \A x \in blocks' \ {Genesis} : Exact(x)
  BY Zenon DEF Funds, RemovesBlock
<1> QED
  BY Zenon, <1>9, <1>10, <1>11 DEF Funds

LEMMA InitFunds == ASSUME Init, LedgerInv PROVE Funds
<1>1. OpenedFact
  BY Zenon, OpenedFacts
<1>2. OpenedAccounts = {GenesisAccount}
  BY Zenon, <1>1, BlocksAssumption, NotZero DEF OpenedFact, Init, NoAccount
<1>3. /\ \A a \in Account : Balances[a] \in Int
      /\ \A a \in Account : Balances[a] = IF a = GenesisAccount THEN GenesisAmount ELSE 0
  BY BlocksAssumption DEF Init, Balances, NoAccount
<1>4. /\ Total(Balances, {GenesisAccount}) = GenesisAmount
      /\ Total(Balances, {}) = 0
  <2>1. IsFiniteSet({}) /\ {} \cup {GenesisAccount} = {GenesisAccount}
    BY Zenon, FS_EmptySet
  <2>2. Total(Balances, {}) = 0
    BY Zenon, <2>1, TotalInt
  <2>3. Total(Balances, {} \cup {GenesisAccount}) = Balances[GenesisAccount] + Total(Balances, {})
    BY Zenon, <1>3, <2>1, TotalInsert, BlocksAssumption
  <2> QED
    BY <1>3, <2>1, <2>2, <2>3, BlocksAssumption
<1>5. Total(Amounts, pending) = 0
  <2>1. pending = {} /\ IsFiniteSet({})
    BY Zenon, FS_EmptySet DEF Init
  <2> QED
    BY Zenon, <2>1, TotalInt
<1>6. Conservation
  BY <1>2, <1>4, <1>5, BlocksAssumption DEF Conservation
<1>7. WeightsAreBalances
  <2> SUFFICES ASSUME NEW r \in Account \cup {0}
               PROVE  representation[r] = Total(Balances, Voters(r))
    BY Zenon DEF WeightsAreBalances
  <2>1. accounts[GenesisAccount].rep_block = Genesis /\ Representative(Genesis) = GenesisAccount
    BY Zenon, BlocksAssumption, GenesisAssumption DEF Init
  <2>2. Voters(r) = IF r = GenesisAccount THEN {GenesisAccount} ELSE {}
    BY Zenon, <1>2, <2>1 DEF Voters
  <2> QED
    BY Zenon, <1>4, <2>2 DEF Init
<1>8. \A h \in blocks \ {Genesis} : Exact(h)
  BY Zenon DEF Init
<1> QED
  BY Zenon, <1>6, <1>7, <1>8 DEF Funds

-----------------------------------------------------------------------------
(* The checksum. *)

LEMMA ToggleIs ==
    ASSUME NEW S, NEW x
    PROVE  (x \in S => Toggle(S, x) = S \ {x}) /\ (x \notin S => Toggle(S, x) = S \cup {x})
  BY Zenon DEF Toggle

(* The heads of the accounts other than a. *)
OtherHeads(a) == {accounts[x].head : x \in OpenedAccounts \ {a}}

HeadsFact ==
    \A a \in Account :
        /\ {accounts[x].head : x \in OpenedAccounts} =
               OtherHeads(a) \cup (IF accounts[a].head = 0 THEN {} ELSE {accounts[a].head})
        /\ accounts[a].head # 0 => accounts[a].head \notin OtherHeads(a)

LEMMA HeadsFacts == LedgerInv => HeadsFact
<1> SUFFICES ASSUME LedgerInv, NEW a \in Account
             PROVE  /\ {accounts[x].head : x \in OpenedAccounts} =
                           OtherHeads(a) \cup (IF accounts[a].head = 0 THEN {} ELSE {accounts[a].head})
                    /\ accounts[a].head # 0 => accounts[a].head \notin OtherHeads(a)
  BY Zenon DEF HeadsFact
<1>1. OpenedAccounts = {x \in Account : accounts[x].head # 0}
  BY Zenon, OpenedFacts DEF OpenedFact
<1>2. \A x \in Account : accounts[x].head # 0 => Owner[accounts[x].head] = x
  BY Zenon, HeadFacts
<1> QED
  BY Zenon, <1>1, <1>2 DEF OtherHeads

LEMMA ChecksumMoves ==
    ASSUME LedgerInv, LedgerInv', ChecksumIsHeads, NEW a \in Account, MovesAccount(a), Tallies(a)
    PROVE  ChecksumIsHeads'
<1> DEFINE R == OtherHeads(a)
           old == accounts[a].head
           new == accounts'[a].head
           out == IF Opened(a) THEN Toggle(checksum, old) ELSE checksum
<1>1. HeadsFact /\ HeadsFact' /\ OpenedFact /\ OpenedFact'
  BY HeadsFacts, OpenedFacts, PTL
<1>2. R' = R
  <2>1. OpenedAccounts' \ {a} = OpenedAccounts \ {a}
    BY Zenon, <1>1 DEF OpenedFact, MovesAccount
  <2> QED
    BY Zenon, <2>1 DEF OtherHeads, MovesAccount, OpenedAccounts
<1>3. checksum = R \cup (IF old = 0 THEN {} ELSE {old}) /\ (old # 0 => old \notin R)
  BY Zenon, <1>1 DEF HeadsFact, ChecksumIsHeads
<1>4. /\ {accounts'[x].head : x \in OpenedAccounts'} = R \cup (IF new = 0 THEN {} ELSE {new})
      /\ new # 0 => new \notin R
  BY Zenon, <1>1, <1>2 DEF HeadsFact
<1>5. checksum' = IF new = 0 THEN out ELSE Toggle(out, new)
  BY Zenon DEF Tallies
<1>6. Opened(a) <=> old # 0
  BY Zenon DEF Opened
<1> HIDE DEF R, old, new
<1>7. out = R
  <2>1. CASE old = 0
    BY Zenon, <1>3, <1>6, <2>1
  <2>2. CASE old # 0
    <3>1. old \in checksum /\ checksum \ {old} = R
      BY Zenon, <1>3, <2>2
    <3> QED
      BY Zenon, <1>6, <2>2, <3>1, ToggleIs
  <2> QED
    BY Zenon, <2>1, <2>2
<1>8. checksum' = R \cup (IF new = 0 THEN {} ELSE {new})
  BY Zenon, <1>4, <1>5, <1>7, ToggleIs
<1> QED
  BY Zenon, <1>4, <1>8 DEF ChecksumIsHeads

-----------------------------------------------------------------------------
(* The block counts and the index. *)

(* The blocks of the chain of h up to h. *)
UpTo(h) == {x \in Chain(Owner[h]) : x <= h}

LEMMA ChainBelow ==
    ASSUME LedgerInv, NEW a \in Account, accounts[a].head # 0
    PROVE  \A x \in Chain(a) : x \in Hash /\ x <= accounts[a].head
<1> DEFINE t == accounts[a].head
<1>1. /\ t \in blocks /\ Owner[t] = a
      /\ \A y \in blocks : Owner[y] = a /\ (\A x \in blocks : Previous(x) # y) => y = t
  BY Zenon, HeadFacts
<1>2. Sound(blocks) /\ blocks \subseteq Hash
  BY Zenon DEF LedgerInv, TypeOK
<1> HIDE DEF t
<1>3. \A x \in blocks : Owner[x] = a => x <= t
  BY Zenon, <1>1, <1>2, HeadAbove, HashOrder
<1> QED
  BY Zenon, <1>2, <1>3 DEF Chain, t

LEMMA ChainFinite == ASSUME LedgerInv, NEW a PROVE IsFiniteSet(Chain(a))
<1>1. Chain(a) \in SUBSET Hash
  BY Zenon DEF LedgerInv, TypeOK, Chain
<1> QED
  BY Zenon, <1>1, HashFinite

EmptyFact == \A a \in Account : accounts[a].head = 0 => Chain(a) = {}

LEMMA EmptyFacts == LedgerInv => EmptyFact
  BY HeadFacts DEF EmptyFact, Chain

LEMMA AddIndex ==
    ASSUME LedgerInv, LedgerInv', IndexIsComplete, NEW h \in Hash \ blocks, Valid(blocks, h), AddsBlock(h),
           CountsUp(h)
    PROVE  IndexIsComplete'
<1> DEFINE a == Owner[h]
           count == accounts[a].block_count + 1
<1>1. /\ a \in Account /\ MovesAccount(a) /\ a # 0 /\ h # 0
      /\ accounts[a].head = Previous(h)
  BY Zenon, AddMoves, NotZero
<1>2. blocks' = blocks \cup {h} /\ h \notin Chain(a)
  BY Zenon DEF AddsBlock, Chain
<1>3. \A x : Chain(x)' = IF x = a THEN Chain(a) \cup {h} ELSE Chain(x)
  BY Zenon, <1>2 DEF Chain
<1>4. \A x \in Chain(a) : x \in Hash /\ x < h
  <2>1. CASE Previous(h) = 0
    BY Zenon, <1>1, <2>1, HeadFacts DEF Chain
  <2>2. CASE Previous(h) # 0
    <3>1. \A x \in Chain(a) : x \in Hash /\ x <= Previous(h)
      BY Zenon, <1>1, <2>2, ChainBelow
    <3>2. Previous(h) < h /\ h \in Nat /\ Previous(h) \in Nat
      BY Zenon, <2>2, BlockFields DEF Hash
    <3>3. ASSUME NEW x \in Hash, x <= Previous(h) PROVE x < h
      <4>1. x \in Nat
        BY DEF Hash
      <4> QED
        BY <3>2, <3>3, <4>1
    <3> QED
      BY Zenon, <3>1, <3>3
  <2> QED
    BY Zenon, <2>1, <2>2
<1>5. IsFiniteSet(Chain(a)) /\ Cardinality(Chain(a)) + 1 = count
  BY Zenon, <1>1, ChainFinite DEF IndexIsComplete
<1>6. Cardinality(Chain(a) \cup {h}) = count
  BY Zenon, <1>2, <1>5, FS_AddElement
<1>7. \A x \in Account : accounts'[x].block_count = Cardinality(Chain(x)')
  BY Zenon, <1>1, <1>3, <1>6 DEF CountsUp, MovesAccount, IndexIsComplete
<1>8. ASSUME NEW x \in blocks, Type(x) \in Legacy, Cardinality(UpTo(x)') % BlockInfoMax = 0
      PROVE  blocks_info'[x].account # 0
  <2>1. x \in Hash /\ h \in Hash /\ x # h /\ blocks_info \in [Hash -> BlockInfo]
    BY Zenon DEF LedgerInv, TypeOK
  <2>2. UpTo(x)' = UpTo(x)
    <3>1. Owner[x] = a => ~(h <= x)
      <4>1. Hash \subseteq Nat
        BY DEF Hash
      <4> QED
        BY <1>4, <2>1, <4>1 DEF Chain
    <3> QED
      BY Zenon, <1>3, <3>1 DEF UpTo
  <2>3. blocks_info[x].account # 0
    BY Zenon, <1>8, <2>2 DEF IndexIsComplete, UpTo
  <2>4. blocks_info'[x] = blocks_info[x]
    BY Zenon, <2>1 DEF AddsBlock
  <2> QED
    BY Zenon, <2>3, <2>4
<1>9. ASSUME Type(h) \in Legacy, Cardinality(UpTo(h)') % BlockInfoMax = 0
      PROVE  blocks_info'[h].account # 0
  <2>1. UpTo(h)' = Chain(a) \cup {h}
    <3>1. Hash \subseteq Nat
      BY DEF Hash
    <3>2. \A x \in Chain(a) \cup {h} : x <= h
      <4> SUFFICES ASSUME NEW x \in Chain(a) \cup {h} PROVE x <= h
        BY Zenon
      <4>1. h \in Nat /\ x \in Nat /\ (x < h \/ x = h)
        BY Zenon, <1>4, <3>1
      <4> QED
        BY <4>1
    <3> QED
      BY Zenon, <1>3, <3>2 DEF UpTo
  <2>2. count % BlockInfoMax = 0
    BY Zenon, <1>6, <1>9, <2>1
  <2>3. blocks_info' = [blocks_info EXCEPT ![h] = [account |-> a, balance |-> BalanceAt[h]]]
    BY Zenon, <1>1, <1>9, <2>2 DEF CountsUp, BlockInfoPut
  <2>4. blocks_info \in [Hash -> BlockInfo]
    BY Zenon DEF LedgerInv, TypeOK
  <2> QED
    BY Zenon, <1>1, <2>3, <2>4
<1>10. \A x \in blocks' : /\ Type(x) \in Legacy
                          /\ Cardinality({y \in Chain(Owner[x])' : y <= x}) % BlockInfoMax = 0
                          => blocks_info'[x].account # 0
  BY Zenon, <1>2, <1>8, <1>9 DEF UpTo
<1> QED
  BY Zenon, <1>7, <1>10 DEF IndexIsComplete

LEMMA RemoveIndex ==
    ASSUME LedgerInv, LedgerInv', IndexIsComplete, NEW h \in blocks \ {Genesis},
           accounts[Owner[h]].head = h, RemovesBlock(h), CountsDown(h)
    PROVE  IndexIsComplete'
<1> DEFINE a == Owner[h]
           count == accounts[a].block_count
<1>1. a \in Account /\ MovesAccount(a) /\ h # 0 /\ h \in Hash /\ accounts'[a].head = Previous(h)
  BY Zenon, RemoveMoves, NotZero DEF LedgerInv, TypeOK
<1>2. blocks' = blocks \ {h} /\ h \in Chain(a)
  BY Zenon DEF RemovesBlock, Chain
<1>3. \A x : Chain(x)' = IF x = a THEN Chain(a) \ {h} ELSE Chain(x)
  BY Zenon, <1>2 DEF Chain
<1>4. \A x \in Chain(a) : x \in Hash /\ x <= h
  BY Zenon, <1>1, ChainBelow
<1>5. IsFiniteSet(Chain(a)) /\ Cardinality(Chain(a)) = count
  BY Zenon, <1>1, ChainFinite DEF IndexIsComplete
<1>6. Cardinality(Chain(a) \ {h}) = count - 1
  BY Zenon, <1>2, <1>5, FS_RemoveElement
<1>7. Previous(h) = 0 => Cardinality(Chain(a)') = 0
  <2>1. EmptyFact'
    BY EmptyFacts, PTL
  <2>2. Previous(h) = 0 => Chain(a)' = {}
    BY Zenon, <1>1, <2>1 DEF EmptyFact
  <2> QED
    BY Zenon, <2>2, FS_EmptySet
<1>8. \A x \in Account : accounts'[x].block_count = Cardinality(Chain(x)')
  BY Zenon, <1>1, <1>3, <1>6, <1>7 DEF CountsDown, MovesAccount, IndexIsComplete
<1>9. ASSUME NEW x \in blocks \ {h}, Type(x) \in Legacy, Cardinality(UpTo(x)') % BlockInfoMax = 0
      PROVE  blocks_info'[x].account # 0
  <2>1. x \in Hash
    BY Zenon DEF LedgerInv, TypeOK
  <2>2. UpTo(x)' = UpTo(x)
    <3>1. Owner[x] = a => ~(h <= x)
      <4>1. Hash \subseteq Nat
        BY DEF Hash
      <4> QED
        BY <1>1, <1>4, <2>1, <4>1 DEF Chain
    <3> QED
      BY Zenon, <1>3, <3>1 DEF UpTo
  <2>3. blocks_info[x].account # 0
    BY Zenon, <1>9, <2>2 DEF IndexIsComplete, UpTo
  <2> QED
    BY Zenon, <2>1, <2>3 DEF CountsDown
<1>10. \A x \in blocks' : /\ Type(x) \in Legacy
                          /\ Cardinality({y \in Chain(Owner[x])' : y <= x}) % BlockInfoMax = 0
                          => blocks_info'[x].account # 0
  BY Zenon, <1>2, <1>9 DEF UpTo
<1> QED
  BY Zenon, <1>8, <1>10 DEF IndexIsComplete

=============================================================================
