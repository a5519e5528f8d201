------------------------------ MODULE MCLobby ------------------------------
(***************************************************************************)
(* Lobby.tla for TLC: clients as model values, the clients of one version  *)
(* interchangeable.                                                        *)
(***************************************************************************)
EXTENDS Lobby, TLC

Interchangeable == Permutations(Client \ PreGC) \cup Permutations(PreGC)
=============================================================================
