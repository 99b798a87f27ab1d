------------------------------ MODULE MCLedger ------------------------------
(***************************************************************************)
(* Small sets of blocks for model-checking the ledger.  Three accounts, a  *)
(* genesis amount of 3, an index entry at every second block.              *)
(***************************************************************************)
EXTENDS LedgerRefinement, MCBlocks

(* Legacy blocks (2 to 22): forks of the first send, of opens and of       *)
(* receives, a transfer that comes back to its sender, a send of nothing,  *)
(* a send to the burn account, a foreign signature, an overspend.  Then    *)
(* legacy chains continued by state blocks, and legacy blocks that try to  *)
(* stand on a state block.                                                 *)
MixedBlocks == <<
    OpenB(Gen, Gen, Gen),           \*  1
    SendB(1, Ann, 1, Gen),          \*  2  2 to Ann
    SendB(1, Bob, 2, Gen),          \*  3  fork of 2: 1 to Bob
    OpenB(Ann, 2, Bob),             \*  4
    OpenB(Bob, 3, Gen),             \*  5
    SendB(4, Gen, 1, Ann),          \*  6  1 back to Gen
    ReceiveB(2, 6, Gen),            \*  7
    ChangeB(2, Ann, Gen),           \*  8  fork of 7
    SendB(7, Ann, 2, Gen),          \*  9  a send of nothing
    ReceiveB(6, 9, Ann),            \* 10
    SendB(10, 0, 0, Ann),           \* 11  to the burn account
    SendB(8, Ann, 3, Gen),          \* 12  overspends
    ReceiveB(8, 6, Bob),            \* 13  foreign signature
    ReceiveB(8, 6, Gen),            \* 14
    SendB(5, Ann, 0, Bob),          \* 15
    OpenB(Ann, 15, Ann),            \* 16  fork of 4
    SendB(3, Bob, 0, Gen),          \* 17
    ReceiveB(5, 17, Bob),           \* 18  fork of 15
    SendB(18, Gen, 1, Bob),         \* 19
    ReceiveB(17, 19, Gen),          \* 20
    ChangeB(20, Bob, Gen),          \* 21
    OpenB(Ann, 9, Gen),             \* 22  fork of 4, of a later send
    OpenB(Ann, 2, Ann),             \* 23
    StateB(Gen, 2, Bob, 0, Bob),    \* 24  1 to Bob
    StateB(Bob, 0, Ann, 1, 24),     \* 25
    SendB(23, Gen, 1, Ann),         \* 26  1 to Gen
    StateB(Gen, 24, Gen, 1, 26),    \* 27  receives a legacy send
    StateB(Ann, 23, Gen, 0, Bob),   \* 28  fork of 26: 2 to Bob
    StateB(Bob, 25, Bob, 3, 28),    \* 29
    ChangeB(26, Bob, Ann),          \* 30
    ReceiveB(30, 24, Ann),          \* 31  the send is to Bob
    SendB(27, Ann, 0, Gen),         \* 32  stands on a state block
    StateB(Ann, 30, Gen, 1, 0),     \* 33  a change, and the index entry below
    OpenB(Bob, 24, Gen),            \* 34  fork of 25
    ChangeB(1, Bob, Gen),           \* 35  fork of 2
    StateB(Ann, 2, Ann, 0, Bob),    \* 36  stands on a block of Gen
    StateB(Bob, 29, Bob, 1, Gen),   \* 37  2 to Gen
    StateB(Gen, 24, Gen, 1, 37),    \* 38  wrong amount
    StateB(Gen, 24, Ann, 2, 37),    \* 39  fork of 27
    SendB(2, Bob, 0, Gen),          \* 40  fork of 24
    OpenB(Bob, 40, Bob),            \* 41
    ReceiveB(41, 28, Bob),          \* 42
    StateB(Gen, 35, Bob, 2, Ann),   \* 43  1 to Ann
    OpenB(Ann, 43, Bob),            \* 44  fork of 23
    SendB(23, Bob, 3, Ann),         \* 45  overspends
    OpenB(Bob, 28, Gen),            \* 46  fork of 25, of another send
    StateB(Gen, 39, Ann, 1, Gen),   \* 47  1 to itself
    StateB(Gen, 47, Gen, 2, 47),    \* 48  receive from itself
    StateB(Gen, 35, Gen, 0, 0),     \* 49  to the burn account
    StateB(Ann, 0, Gen, 2, 2),      \* 50  opens, fork of 4 and 23
    StateB(Ann, 50, Gen, 2, 2),     \* 51  receives again
    StateB(Bob, 0, Gen, 0, 43),     \* 52  opens with a send that is not for it
    StateB(Ann, 0, Bob, 1, 43),     \* 53
    StateB(Ann, 53, Bob, 0, Bob),   \* 54
    StateB(Bob, 0, Ann, 1, 54),     \* 55
    StateB(Gen, 43, Gen, 3, 0) >>   \* 56  a change that takes something

MCMixed == MixedBlocks

=============================================================================
