------------------------------ MODULE MCWallet ------------------------------
(* Two accounts of the wallet, and what may happen to them, some of it at a *)
(* time.                                                                    *)
EXTENDS Wallet

Some(call, own, outside, control, restart) ==
    [call |-> call, own |-> own, outside |-> outside, control |-> control, restart |-> restart]

(* A send is repeated around a crash; calls meet calls with own work and   *)
(* sends from outside; searches, locks and crashes meet them.              *)
Mixed ==
    {Some(2, 0, 0, 0, 1), Some(1, 0, 1, 0, 0), Some(1, 0, 0, 1, 0), Some(0, 0, 2, 0, 0),
     Some(0, 0, 1, 2, 0), Some(0, 0, 1, 1, 1), Some(1, 1, 0, 0, 0)}
MCMixed == Mixed

(* Two sends from outside, and a search. *)
Incoming == {Some(0, 0, 2, 1, 0)}
MCIncoming == Incoming

=============================================================================
