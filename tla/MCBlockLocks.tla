---------------------------- MODULE MCBlockLocks ----------------------------
(***************************************************************************)
(* BlockLocks.tla for TLC: one block with two default lobbies and three    *)
(* clients, two of them in the first lobby and one alone in the second.    *)
(***************************************************************************)
EXTENDS BlockLocks, TLC

CONSTANTS b1, c1, c2, c3, l1, l2

ListOf == (b1 :> <<c1, c2, c3>>)
LobbiesOf == (b1 :> <<l1, l2>>)
MembersIn == (l1 :> <<c1, c2>>) @@ (l2 :> <<c3>>)
=============================================================================
