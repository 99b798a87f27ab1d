---------------------------- MODULE BlockLattice ----------------------------
(***************************************************************************)
(* What the ledger promises, without its tables: it holds a set of blocks  *)
(* that grows by one block that is valid with respect to the set, and      *)
(* shrinks by one block that no other block of the set depends on.         *)
(***************************************************************************)
EXTENDS BlockSets

VARIABLE dag

Init == dag = {Genesis}

Add(h) ==
    /\ h \notin dag
    /\ Valid(dag, h)
    /\ dag' = dag \cup {h}

Remove(h) ==
    /\ h \in dag \ {Genesis}
    /\ \A x \in dag : h \notin Parents(x)
    /\ dag' = dag \ {h}

Next == \E h \in Hash : Add(h) \/ Remove(h)

Spec == Init /\ [][Next]_dag

=============================================================================
