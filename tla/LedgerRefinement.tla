-------------------------- MODULE LedgerRefinement --------------------------
(***************************************************************************)
(* The ledger implements BlockLattice.                                     *)
(***************************************************************************)
EXTENDS LedgerProperties

Lattice == INSTANCE BlockLattice WITH dag <- blocks

(* process and rollback do to the blocks what BlockLattice allows: one     *)
(* valid block in, or one block that nothing stands on out.                *)
ImplementsLattice == Lattice!Spec

=============================================================================
