------------------------------- MODULE Views --------------------------------
(***************************************************************************)
(* What every client is shown of the lobby or team it is in: who is where  *)
(* and who leads (send_lobby_join, send_game_join, send_lobby_add_player,  *)
(* send_lobby_leave).                                                      *)
(*                                                                         *)
(* The thread of the block moves clients about and tells the others packet *)
(* by packet, each under the mutex of the client it is for; the client     *)
(* that is served is locked all the while.  Meanwhile the ship's thread    *)
(* may answer /restore: under that client's mutex, but not the lobby's, it *)
(* reads the lobby and sends it all over again.                            *)
(***************************************************************************)
EXTENDS Naturals, Sequences, FiniteSets, FiniteSetsExt

CONSTANTS Guest, Vacant,
          Hall,             \* the default lobbies
          Party,            \* the teams
          OneFirst,         \* the teams of Dreamcast or PC: slot 1 is filled first
          Seat,             \* the slots
          Nowhere,          \* no lobby
          Speaks            \* by client: "nte", "dc", "gc", "ep3", "pc", "xbox" or "bb"

Room == Hall \cup Party

ASSUME ViewsAssumption ==
    /\ Vacant \notin Guest /\ Nowhere \notin Room
    /\ Seat \subseteq Nat /\ {0, 1} \subseteq Seat
    /\ Hall \cap Party = {} /\ OneFirst \subseteq Party
    /\ Speaks \in [Guest -> {"nte", "dc", "gc", "ep3", "pc", "xbox", "bb"}]

VARIABLES
    clients,    \* by lobby: who is in each slot
    leader_id,
    cur_lobby,
    asked,      \* clients that wait for the answer to /restore
    served,     \* whom the block's thread serves, or Vacant
    sending,    \* the rounds of packets it sends, with whom each is still to reach
    reading,    \* what the ship's thread has read for the client it restores
    picture     \* what each client has been shown

viewVars == <<clients, leader_id, cur_lobby, asked, served, sending, reading, picture>>
places == <<clients, leader_id, cur_lobby>>

Unseen == [slots |-> [s \in Seat |-> Vacant], leader |-> 0]
NotReading == [to |-> Vacant, room |-> Nowhere, leader |-> 0, slots |-> Unseen.slots, read |-> FALSE]

SeatOf(c) == CHOOSE s \in Seat : clients[cur_lobby[c]][s] = c
Members(l) == {s \in Seat : clients[l][s] # Vacant}

-----------------------------------------------------------------------------
(* The packets.  Each version has its own forms, with its own names and    *)
(* character data; all have the slots and the leader.                      *)

LobbyPicture(l) == [slots |-> clients[l], leader |-> leader_id[l]]
NteLobbyJoin(l) == LobbyPicture(l)
DcLobbyJoin(l) == LobbyPicture(l)
PcLobbyJoin(l) == LobbyPicture(l)
XboxLobbyJoin(l) == LobbyPicture(l)
BbLobbyJoin(l) == LobbyPicture(l)
LobbyJoin(c, l) ==
    CASE Speaks[c] = "nte" -> NteLobbyJoin(l)
      [] Speaks[c] \in {"dc", "gc", "ep3"} -> DcLobbyJoin(l)
      [] Speaks[c] = "pc" -> PcLobbyJoin(l)
      [] Speaks[c] = "xbox" -> XboxLobbyJoin(l)
      [] Speaks[c] = "bb" -> BbLobbyJoin(l)

\* A team has four slots at the most, and is shown no more.
TeamPicture(l) ==
    [slots |-> [s \in Seat |-> IF s < 4 THEN clients[l][s] ELSE Vacant], leader |-> leader_id[l]]
NteGameJoin(l) == TeamPicture(l)
DcGameJoin(l) == TeamPicture(l)
PcGameJoin(l) == TeamPicture(l)
GcGameJoin(l) == TeamPicture(l)
XboxGameJoin(l) == TeamPicture(l)
Ep3GameJoin(l) == TeamPicture(l)
BbGameJoin(l) == TeamPicture(l)
GameJoin(c, l) ==
    CASE Speaks[c] = "nte" -> NteGameJoin(l)
      [] Speaks[c] = "dc" -> DcGameJoin(l)
      [] Speaks[c] = "pc" -> PcGameJoin(l)
      [] Speaks[c] = "gc" -> GcGameJoin(l)
      [] Speaks[c] = "xbox" -> XboxGameJoin(l)
      [] Speaks[c] = "ep3" -> Ep3GameJoin(l)
      [] Speaks[c] = "bb" -> BbGameJoin(l)

\* One more member, or one less.
With(p, l, c, s) == [slots |-> [p.slots EXCEPT ![s] = c], leader |-> leader_id[l]]
NteAddPlayer(p, l, c, s) == With(p, l, c, s)
DcAddPlayer(p, l, c, s) == With(p, l, c, s)
PcAddPlayer(p, l, c, s) == With(p, l, c, s)
XboxAddPlayer(p, l, c, s) == With(p, l, c, s)
BbAddPlayer(p, l, c, s) == With(p, l, c, s)
AddPlayer(to, p, l, c, s) ==
    CASE Speaks[to] = "nte" -> NteAddPlayer(p, l, c, s)
      [] Speaks[to] \in {"dc", "gc", "ep3"} -> DcAddPlayer(p, l, c, s)
      [] Speaks[to] = "pc" -> PcAddPlayer(p, l, c, s)
      [] Speaks[to] = "xbox" -> XboxAddPlayer(p, l, c, s)
      [] Speaks[to] = "bb" -> BbAddPlayer(p, l, c, s)

DcLeave(p, l, s) == With(p, l, Vacant, s)
BbLeave(p, l, s) == With(p, l, Vacant, s)
ToldGone(to, p, l, s) == IF Speaks[to] = "bb" THEN BbLeave(p, l, s) ELSE DcLeave(p, l, s)

-----------------------------------------------------------------------------
(* The block's thread.                                                     *)

\* A client is locked while it is served or restored.
Free_Always(c) == TRUE
Free(c) == reading.to # c

ThreadIdle == served = Vacant

\* lobby_add_client_locked
SeatsOf(l) == IF l \in Party THEN {s \in Seat : s < 4} ELSE Seat
SlotFor(l) == IF l \in OneFirst /\ clients[l][1] = Vacant THEN 1
              ELSE Min({s \in SeatsOf(l) : clients[l][s] = Vacant})
RoomFor(l) == \E s \in SeatsOf(l) : clients[l][s] = Vacant
LeaderWith(l, s) == IF Members(l) = {} THEN s ELSE leader_id[l]

\* lobby_remove_client_locked: if the leader leaves another member leads, or, when
\* nobody is found, slot 0.
LeadersWithout(l, s) ==
    IF leader_id[l] # s THEN {leader_id[l]} ELSE (Members(l) \ {s}) \cup {0}

\* The packets of one step, in rounds: each round goes through the slots of its lobby,
\* and what a packet says is read when it is sent.
Round(to, what, l, c, s) == [to |-> to, what |-> what, room |-> l, who |-> c, slot |-> s]
Everybody(l) == {clients[l][s] : s \in Members(l)}
Left == {i \in DOMAIN sending : sending[i].to # {}}
NextOf(k) == clients[k.room][Min({s \in Seat : clients[k.room][s] \in k.to})]

Serve(c) == ThreadIdle /\ Free(c) /\ served' = c

\* lobby_add_to_any: the lobby asked for, or the first that has room.
EnterAny(c, l) ==
    /\ Serve(c) /\ cur_lobby[c] = Nowhere /\ l \in Hall /\ RoomFor(l)
    /\ LET s == SlotFor(l)
       IN /\ clients' = [clients EXCEPT ![l][s] = c]
          /\ leader_id' = [leader_id EXCEPT ![l] = LeaderWith(l, s)]
          /\ sending' = <<Round({c}, "join", l, c, s), Round(Everybody(l), "add", l, c, s)>>
    /\ cur_lobby' = [cur_lobby EXCEPT ![c] = l]
    /\ UNCHANGED <<asked, reading, picture>>

\* lobby_change_lobby: to another lobby or a team, or once more to the same.  Those who
\* stay behind are told first.
ChangeLobby(c, m) ==
    LET l == cur_lobby[c]
        old == SeatOf(c)
    IN  /\ Serve(c) /\ l # Nowhere
        /\ IF l = m
           THEN /\ sending' = <<Round(Everybody(l), "leave", l, c, old), Round({c}, "join", l, c, old),
                                Round(Everybody(l) \ {c}, "add", l, c, old)>>
                /\ UNCHANGED places
           ELSE /\ RoomFor(m)
                /\ clients' = [clients EXCEPT ![m][SlotFor(m)] = c, ![l][old] = Vacant]
                /\ \E heir \in LeadersWithout(l, old) :
                     leader_id' = [leader_id EXCEPT ![m] = LeaderWith(m, SlotFor(m)), ![l] = heir]
                /\ cur_lobby' = [cur_lobby EXCEPT ![c] = m]
                /\ sending' = <<Round(Everybody(l) \ {c}, "leave", l, c, old),
                                Round({c}, "join", m, c, SlotFor(m)),
                                Round(Everybody(m), "add", m, c, SlotFor(m))>>
        /\ UNCHANGED <<asked, reading, picture>>

\* lobby_remove_player: the client is going, or has left its team by itself.
RemovePlayer(c) ==
    LET l == cur_lobby[c]
        old == SeatOf(c)
    IN  /\ Serve(c) /\ l # Nowhere
        /\ clients' = [clients EXCEPT ![l][old] = Vacant]
        /\ \E heir \in LeadersWithout(l, old) : leader_id' = [leader_id EXCEPT ![l] = heir]
        /\ cur_lobby' = [cur_lobby EXCEPT ![c] = Nowhere]
        /\ sending' = <<Round(Everybody(l) \ {c}, "leave", l, c, old)>>
        /\ picture' = [picture EXCEPT ![c] = Unseen]
        /\ UNCHANGED <<asked, reading>>

\* client_give_level_v2 shows a client its lobby once more, with its new level.
ShowAgain(c) ==
    /\ Serve(c) /\ cur_lobby[c] \in Hall /\ Speaks[c] \in {"dc", "pc"}
    /\ sending' = <<Round({c}, "join", cur_lobby[c], c, SeatOf(c))>>
    /\ UNCHANGED <<places, asked, reading, picture>>

SendNext ==
    /\ Left # {}
    /\ LET i == Min(Left)
           k == sending[i]
           to == NextOf(k)
           p == picture[to]
       IN /\ Free(to)
          /\ picture' = [picture EXCEPT ![to] =
                CASE k.what = "join" /\ k.room \in Hall -> LobbyJoin(to, k.room)
                  [] k.what = "join" /\ k.room \in Party -> GameJoin(to, k.room)
                  [] k.what = "add" -> AddPlayer(to, p, k.room, k.who, k.slot)
                  [] k.what = "leave" -> ToldGone(to, p, k.room, k.slot)]
          /\ sending' = [sending EXCEPT ![i].to = @ \ {to}]
    /\ UNCHANGED <<places, asked, served, reading>>

Served ==
    /\ ~ThreadIdle /\ Left = {}
    /\ served' = Vacant /\ sending' = <<>>
    /\ UNCHANGED <<places, asked, reading, picture>>

\* /restore: only in a lobby, and not for Blue Burst.
AskRestore(c) ==
    /\ ThreadIdle /\ Free(c)
    /\ cur_lobby[c] \in Hall /\ Speaks[c] # "bb"
    /\ asked' = asked \cup {c}
    /\ UNCHANGED <<places, served, sending, reading, picture>>

-----------------------------------------------------------------------------
(* The ship's thread: handle_creq.                                         *)

\* The leader is read before the slots.  A client that is in no lobby would not be shown
\* anything: its lobby is followed without a look whether there is one.
Restore(c) ==
    /\ c \in asked /\ served # c /\ reading = NotReading
    /\ asked' = asked \ {c}
    /\ reading' = IF cur_lobby[c] = Nowhere THEN reading
                  ELSE [NotReading EXCEPT !.to = c, !.room = cur_lobby[c],
                                          !.leader = leader_id[cur_lobby[c]]]
    /\ UNCHANGED <<places, served, sending, picture>>

ReadSlots ==
    /\ reading # NotReading /\ ~reading.read
    /\ reading' = [reading EXCEPT !.slots = clients[reading.room], !.read = TRUE]
    /\ UNCHANGED <<places, asked, served, sending, picture>>

ShowRestored ==
    /\ reading.read
    /\ picture' = [picture EXCEPT ![reading.to] = [slots |-> reading.slots, leader |-> reading.leader]]
    /\ reading' = NotReading
    /\ UNCHANGED <<places, asked, served, sending>>

ViewsInit ==
    /\ clients = [l \in Room |-> Unseen.slots]
    /\ leader_id = [l \in Room |-> 0]
    /\ cur_lobby = [c \in Guest |-> Nowhere]
    /\ asked = {} /\ served = Vacant /\ sending = <<>> /\ reading = NotReading
    /\ picture = [c \in Guest |-> Unseen]

ViewsNext ==
    \/ SendNext \/ Served \/ ReadSlots \/ ShowRestored
    \/ \E c \in Guest :
        \/ RemovePlayer(c) \/ ShowAgain(c) \/ AskRestore(c) \/ Restore(c)
        \/ \E l \in Room : EnterAny(c, l) \/ ChangeLobby(c, l)

ViewsSpec == ViewsInit /\ [][ViewsNext]_viewVars

-----------------------------------------------------------------------------
(* Properties.                                                             *)

ViewsTypeOK ==
    /\ \A l \in Room, s \in Seat : clients[l][s] \in Guest \cup {Vacant}
    /\ \A l \in Room : leader_id[l] \in Seat
    /\ cur_lobby \in [Guest -> Room \cup {Nowhere}]
    /\ asked \subseteq Guest /\ served \in Guest \cup {Vacant}
    /\ reading.to \in Guest \cup {Vacant}

Pending(c) == reading.to = c \/ \E i \in DOMAIN sending : c \in sending[i].to

\* A member for whom no packet is on its way has been shown its lobby as it is: who is in
\* which slot, and who leads.  That goes for one that was restored as well, although the
\* lobby was read without its mutex: what changed while it was read is told later, because
\* the packet that tells it waits for the client's own mutex.
PictureTrue ==
    \A c \in Guest :
        cur_lobby[c] # Nowhere /\ ~Pending(c) => picture[c] = LobbyPicture(cur_lobby[c])
=============================================================================
