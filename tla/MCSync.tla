------------------------------- MODULE MCSync -------------------------------
(* The genesis account, 2, sends to 1 and to 3; block 6 is a fork of 2. *)
EXTENDS Sync

MCBlock == 1..6
MCAccountOf == <<2, 2, 2, 1, 3, 2>>
MCPrevious == <<0, 1, 2, 0, 0, 1>>
MCSource == <<0, 0, 0, 2, 3, 0>>

=============================================================================
