-------------------------- MODULE MCBlockProcessor --------------------------
(* Blocks for the block processor: a transfer that is opened and passed    *)
(* on, and a rival of its first send.                                      *)
EXTENDS BlockProcessor, MCBlocks

TransferBlocks ==
    << OpenB(Gen, Gen, Gen),                    \*  1 genesis
       SendB(1, Ann, 1, Gen),                   \*  2 sends 2 to Ann
       SendB(1, Bob, 1, Gen),                   \*  3 fork of 2
       OpenB(Ann, 2, Ann),                      \*  4 Ann receives
       StateB(Ann, 4, Ann, 1, Bob),             \*  5 and passes 1 on
       StateB(Bob, 0, Bob, 1, 5) >>             \*  6 Bob receives

MCTransfer == TransferBlocks

Calls(adds, forces, rpcs, flushes) ==
    [add |-> adds, force |-> forces, rpc |-> rpcs, flush |-> flushes]

(* Many blocks; and blocks with a forced one and an rpc call. *)
Many == {Calls(4, 0, 0, 0), Calls(2, 1, 1, 0)}
MCMany == Many

(* The same with callers of flush. *)
Flushes == {Calls(2, 1, 0, 2), Calls(1, 1, 1, 1)}
MCFlushes == Flushes

=============================================================================
