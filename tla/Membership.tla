----------------------------- MODULE Membership -----------------------------
(***************************************************************************)
(* What a block promises its players about where they are, and nothing     *)
(* else: a client is outside, between two lobbies, or in exactly one       *)
(* default lobby or team; a lobby never holds more than its capacity; a    *)
(* team exists exactly as long as somebody is in it.  Lobby.tla, the       *)
(* detailed model of lobby.c and block.c, implements this specification.   *)
(***************************************************************************)
EXTENDS Integers, FiniteSets

CONSTANTS Client,       \* the clients that connect to the block
          Default,      \* ids of the default lobbies
          Team,         \* ids a team can get
          MaxInLobby,   \* LOBBY_MAX_CLIENTS
          MaxInTeam,    \* LOBBY_MAX_IN_TEAM
          Outside,      \* not connected to this block; no place
          Between       \* connected, and cur_lobby is NULL; no place either

Place == Default \cup Team

VARIABLES where,    \* where each client is
          open      \* the teams that exist

vars == <<where, open>>

Capacity(l) == IF l \in Team THEN MaxInTeam ELSE MaxInLobby
MembersOf(l) == {c \in Client : where[c] = l}
HasRoom(l) == Cardinality(MembersOf(l)) < Capacity(l)

Init ==
    /\ where = [c \in Client |-> Outside]
    /\ open = {}

\* The client logs in, and is not yet in a lobby.
Connect(c) ==
    /\ where[c] = Outside
    /\ where' = [where EXCEPT ![c] = Between]
    /\ UNCHANGED open

\* The client goes to a default lobby with room, from nowhere or from another.
Enter(c, l) ==
    /\ where[c] \in Default \cup {Between} /\ where[c] # l
    /\ HasRoom(l)
    /\ where' = [where EXCEPT ![c] = l]
    /\ UNCHANGED open

\* The client creates a team and is its first member.
Found(c, t) ==
    /\ where[c] \in Default
    /\ t \notin open
    /\ where' = [where EXCEPT ![c] = t]
    /\ open' = open \cup {t}

\* The client joins a team that exists.
Join(c, t) ==
    /\ where[c] \in Default
    /\ t \in open /\ HasRoom(t)
    /\ where' = [where EXCEPT ![c] = t]
    /\ UNCHANGED open

\* The client leaves for dest; a team loses its last member and its existence
\* in the same step.
Depart(c, dest) ==
    /\ where[c] # Outside /\ where[c] # dest
    /\ where' = [where EXCEPT ![c] = dest]
    /\ open' = IF MembersOf(where[c]) = {c} THEN open \ {where[c]} ELSE open

Next ==
    \E c \in Client :
        \/ Connect(c)
        \/ \E l \in Default : Enter(c, l)
        \/ \E t \in Team : Found(c, t) \/ Join(c, t)
        \/ Depart(c, Between)
        \/ Depart(c, Outside)

Spec == Init /\ [][Next]_vars
=============================================================================
