----------------------------- MODULE MCElection -----------------------------
(* Two or three representatives: one of this node, one like it and a light *)
(* one, whose weight counts or not depending on who is online.  None has   *)
(* the minimum of online weight alone.                                     *)
EXTENDS Election

CONSTANTS Own, Peer, Light

CONSTANT Worker   \* a background thread

MCRep == {Own, Peer, Light}

(* Votes only come from the network; and a representative of this node     *)
(* votes as well, in a background thread.                                  *)
Settings ==
    << [votes |-> {v \in Vote : v.account = Light => v.sequence = 1}, local |-> {},
        background |-> {}],
       [votes |-> {v \in Vote : v.account # Light}, local |-> {Own}, background |-> {Worker}] >>
MCSetting == Settings

(* Two of the network, one message at a time. *)
Pair == << [votes |-> {v \in Vote : v.account # Light}, local |-> {}, background |-> {}] >>
MCPair == Pair

MCWeight == [r \in Rep |-> IF r = Light THEN 4 ELSE 2000]

=============================================================================
