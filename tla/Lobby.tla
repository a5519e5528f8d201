------------------------------- MODULE Lobby -------------------------------
(***************************************************************************)
(* The lobbies and teams of one block: lobby.c, and the handlers of        *)
(* block.c, subcmd.c and commands.c that change them.  One thread runs a   *)
(* block, so a handler is one step; the order in which the clients'        *)
(* packets reach it is arbitrary.                                          *)
(*                                                                         *)
(* A client follows its side of the protocol: it picks a team or another   *)
(* lobby only while it stands in a default lobby, leaves a team with 0x98  *)
(* and asks for a lobby with 0x84 afterwards, and reports the end of its   *)
(* own burst.  It may vanish at any point.                                 *)
(*                                                                         *)
(* A handler that refuses a request (a full or closed team, one of the     *)
(* policy checks of lobby_change_lobby) changes nothing modelled here: a   *)
(* refusal is a stuttering step and has no action.                         *)
(*                                                                         *)
(* lobby_t.mutex is not recursive, and a block thread locks it twice when  *)
(* it holds a packet back or handles one it had held back.  Here it goes   *)
(* on after that; BlockLocks.tla shows what else can happen.               *)
(***************************************************************************)
EXTENDS Integers, FiniteSets, Sequences, FiniteSetsExt

CONSTANTS
    Client,         \* the clients
    PreGC,          \* those whose version is below CLIENT_VERSION_GC (DC and PC)
    Default,        \* lobby_id of the default lobbies
    Team,           \* lobby_id a team can get, from 0x20 on
    None,           \* NULL
    MaxInLobby,     \* LOBBY_MAX_CLIENTS, 12
    MaxInTeam,      \* LOBBY_MAX_IN_TEAM, 4
    Quest,          \* the quests configured (ship->qmap)
    Joinable,       \* those with SYLVERANT_QUEST_JOINABLE
    MaxQueue,       \* bound: packets queued in one team
    MaxSecond,      \* bound: different seconds told apart at a time
    SameSecond      \* may somebody leave in the second somebody joined?

Place == Default \cup Team

ASSUME LobbyConstants ==
    /\ Default \subseteq Nat /\ Team \subseteq Nat /\ Default \cap Team = {}
    /\ IsFiniteSet(Client) /\ IsFiniteSet(Team)
    /\ None \notin Client /\ None \notin Place
    /\ MaxInLobby \in Nat \ {0}
    /\ MaxInTeam \in Nat \ {0, 1}
    /\ PreGC \subseteq Client /\ Joinable \subseteq Quest
    /\ MaxQueue \in Nat
    /\ MaxSecond \in Nat /\ SameSecond \in BOOLEAN

VARIABLES
    cl,             \* ship_client_t, by client
    lb,             \* lobby_t, by id; a free team id holds NoTeam
    pkt_queue,      \* by lobby: the sources of the packets held back
    burst_queue,    \* by lobby: whom the burst packets kept for a replay are for
    num_games,      \* block->num_games
    now             \* time(NULL); see Tick

vars == <<cl, lb, pkt_queue, burst_queue, num_games, now>>
queues == <<pkt_queue, burst_queue>>

-----------------------------------------------------------------------------
\* Clients and lobbies

MaxClients(l) == IF l \in Team THEN MaxInTeam ELSE MaxInLobby
Slot(l) == 0 .. MaxClients(l) - 1

Loggedout == [on |-> FALSE, cur_lobby |-> None, client_id |-> 0, join_time |-> 0,
              bursting |-> FALSE, wait_qping |-> FALSE, selecting |-> FALSE]

EmptyLobby(l) ==
    [live |-> l \in Default, clients |-> [i \in Slot(l) |-> None],
     num_clients |-> 0, leader_id |-> 0, pre_gc |-> l \in Default,
     gc_allowed |-> FALSE, bursting |-> FALSE, questing |-> FALSE,
     joinable |-> FALSE, questsel |-> FALSE]

NoTeam(t) == EmptyLobby(t)

\* lobby_create_game for client c.
NewTeam(t, c) ==
    [NoTeam(t) EXCEPT !.live = TRUE, !.leader_id = 1, !.pre_gc = c \in PreGC]

Occupied(r) == {i \in DOMAIN r.clients : r.clients[i] # None}
Vacant(r) == {i \in DOMAIN r.clients : r.clients[i] = None}
Members(l) == {lb[l].clients[i] : i \in Occupied(lb[l])}
InTeam(c) == cl[c].cur_lobby \in Team
InDefault(c) == cl[c].cur_lobby \in Default
HasRoom(l) == lb[l].num_clients < MaxClients(l)

-----------------------------------------------------------------------------
\* Joining: lobby_add_client_locked

\* Slot 1 goes first in a DC/PC team, the lowest free slot everywhere else.
FreeSlot(l, r) ==
    IF l \in Team /\ r.pre_gc /\ r.clients[1] = None THEN 1 ELSE Min(Vacant(r))

WithClient(l, r, c) ==
    LET i == FreeSlot(l, r)
    IN  [r EXCEPT !.clients[i] = c,
                  !.num_clients = @ + 1,
                  !.leader_id = IF r.num_clients = 0 THEN i ELSE @]

Seated(c, l, r) ==
    [cl[c] EXCEPT !.cur_lobby = l, !.client_id = FreeSlot(l, r), !.join_time = now]

-----------------------------------------------------------------------------
\* Leaving: lobby_remove_client_locked and the elections it holds

\* Whoever is looked at in an election: not the old leader, and only those
\* who joined in an earlier second.
Candidates_WithOldLeader(r) ==
    {i \in Occupied(r) : cl[r.clients[i]].join_time < now}

Candidates(r) ==
    {i \in Occupied(r) \ {r.leader_id} : cl[r.clients[i]].join_time < now}

PreGCCandidates(r) == {i \in Candidates(r) : r.clients[i] \in PreGC}

\* The longest in the lobby, the lowest slot among equals.
Earliest_Latest(r, S) ==
    CHOOSE i \in S : \A j \in S : cl[r.clients[i]].join_time >= cl[r.clients[j]].join_time

Earliest(r, S) ==
    LET time(i) == cl[r.clients[i]].join_time
    IN  CHOOSE i \in S : \A j \in S : \/ time(i) < time(j)
                                      \/ time(i) = time(j) /\ i <= j

\* An election of a DC/PC team open to Gamecube looks at the DC/PC members
\* first; when it finds none the team becomes a Gamecube team.
CrossPlatform(r) == r.pre_gc /\ r.gc_allowed
TurnsGC_AnyGC(r) == CrossPlatform(r) /\ Candidates(r) # PreGCCandidates(r)
TurnsGC(r) == CrossPlatform(r) /\ PreGCCandidates(r) = {}

Electorate(r) ==
    IF CrossPlatform(r) /\ ~TurnsGC(r) THEN PreGCCandidates(r) ELSE Candidates(r)

NewLeader_Unchecked(r) ==
    IF Electorate(r) = {} THEN -1 ELSE Earliest(r, Electorate(r))

NewLeader(r) ==
    IF Electorate(r) = {} THEN 0 ELSE Earliest(r, Electorate(r))

NeedsElection_Always(r, i) == TRUE
NeedsElection(r, i) == i = r.leader_id

WithoutClient(r, i) ==
    LET election == NeedsElection(r, i)
    IN  [r EXCEPT !.clients[i] = None,
                  !.num_clients = @ - 1,
                  !.leader_id = IF election THEN NewLeader(r) ELSE @,
                  !.pre_gc = @ /\ ~(election /\ TurnsGC(r)),
                  !.gc_allowed = @ /\ ~(election /\ TurnsGC(r))]

\* Environment: with SameSecond FALSE nobody leaves l in the second in which
\* one of its members joined.
MayLeave(l) == SameSecond \/ \A d \in Members(l) : cl[d].join_time < now

-----------------------------------------------------------------------------
\* The end of a burst: lobby_handle_done_burst

Drained_StopsOnError(l, n) ==
    [pkt_queue EXCEPT ![l] = SubSeq(@, n + 1, Len(@))]

\* The first n packets queued in l are handled, the rest dropped after an
\* error.  A packet is handled where its source is by then: delivered, queued
\* again if that is another team in a burst, ignored if it is nowhere.
Drained(l, n) ==
    [k \in Place |->
        IF k = l THEN <<>>
        ELSE IF ~lb[k].bursting THEN pkt_queue[k]
        ELSE pkt_queue[k] \o SelectSeq(SubSeq(pkt_queue[l], 1, n),
                                       LAMBDA s : cl[s].cur_lobby = k)]

\* The team goes with its last member.
Frees_TestedEarly(l) == l \in Team /\ lb[l].num_clients = 0
Frees(l) == l \in Team /\ lb[l].num_clients = 1

\* The flags of the lobby once c's burst, if it has one, is called off.
Unburst_Forgotten(l, c) == lb[l]
Unburst(l, c) == [lb[l] EXCEPT !.bursting = @ /\ ~cl[c].bursting]

\* lobby_remove_player: c leaves the lobby it is in, and r is what is left of
\* its own state.  A burst of its own ends with it, an empty team is destroyed.
RemovePlayer(c, r) ==
    LET l     == cl[c].cur_lobby
        freed == Frees(l)
    IN  /\ MayLeave(l)
        /\ cl' = [cl EXCEPT ![c] = r]
        /\ lb' = [lb EXCEPT ![l] = IF freed THEN NoTeam(l)
                                   ELSE WithoutClient(Unburst(l, c), cl[c].client_id)]
        /\ \/ /\ cl[c].bursting
              /\ \E n \in 0 .. Len(pkt_queue[l]) : pkt_queue' = Drained(l, n)
           \/ /\ ~cl[c].bursting
              /\ pkt_queue' = [pkt_queue EXCEPT ![l] = IF freed THEN <<>> ELSE @]
        /\ burst_queue' = [burst_queue EXCEPT ![l] = IF freed THEN <<>> ELSE @]
        /\ num_games' = IF freed THEN num_games - 1 ELSE num_games
        /\ UNCHANGED now

\* The client is gone: client_destroy_connection.
Forget(c) ==
    /\ cl' = [cl EXCEPT ![c] = Loggedout]
    /\ UNCHANGED <<lb, queues, num_games, now>>

-----------------------------------------------------------------------------
\* The handlers

Init ==
    /\ cl = [c \in Client |-> Loggedout]
    /\ lb = [l \in Place |-> EmptyLobby(l)]
    /\ pkt_queue = [l \in Place |-> <<>>]
    /\ burst_queue = [l \in Place |-> <<>>]
    /\ num_games = 0
    /\ now = 0

\* A client connects to the block and logs in.
Login(c) ==
    /\ ~cl[c].on
    /\ cl' = [cl EXCEPT ![c].on = TRUE]
    /\ UNCHANGED <<lb, queues, num_games, now>>

\* A client in no lobby sends its character data, or 0x84 asking for req:
\* lobby_add_to_any puts it in req, or in the first default lobby with room.
EnterLobby(c, req) ==
    LET l == IF HasRoom(req) THEN req ELSE Min({d \in Default : HasRoom(d)})
    IN  /\ cl[c].on /\ cl[c].cur_lobby = None
        /\ \E d \in Default : HasRoom(d)
        /\ cl' = [cl EXCEPT ![c] = Seated(c, l, lb[l])]
        /\ lb' = [lb EXCEPT ![l] = WithClient(l, @, c)]
        /\ UNCHANGED <<queues, num_games, now>>

\* lobby_change_lobby from one default lobby to another (0x84): into the new
\* one first, then out of the old one by the slot the client had there.
ChangeLobby(c, req) ==
    LET l == cl[c].cur_lobby
    IN  /\ InDefault(c) /\ req # l /\ HasRoom(req)
        /\ MayLeave(l)
        /\ cl' = [cl EXCEPT ![c] = Seated(c, req, lb[req])]
        /\ lb' = [lb EXCEPT ![req] = WithClient(req, @, c),
                            ![l] = WithoutClient(@, cl[c].client_id)]
        /\ UNCHANGED <<queues, num_games, now>>

\* lobby_change_lobby into a team whose record is r: its burst begins.
MoveToTeam_SlotReread(c, t, r) ==
    LET l == cl[c].cur_lobby
    IN  /\ MayLeave(l)
        /\ cl' = [cl EXCEPT ![c] = [Seated(c, t, r) EXCEPT !.bursting = TRUE]]
        /\ lb' = [lb EXCEPT ![t] = [WithClient(t, r, c) EXCEPT !.bursting = TRUE],
                            ![l] = WithoutClient(@, FreeSlot(t, r))]
        /\ UNCHANGED <<queues, now>>

MoveToTeam(c, t, r) ==
    LET l == cl[c].cur_lobby
    IN  /\ MayLeave(l)
        /\ cl' = [cl EXCEPT ![c] = [Seated(c, t, r) EXCEPT !.bursting = TRUE]]
        /\ lb' = [lb EXCEPT ![t] = [WithClient(t, r, c) EXCEPT !.bursting = TRUE],
                            ![l] = WithoutClient(@, cl[c].client_id)]
        /\ UNCHANGED <<queues, now>>

\* A client creates a team and moves in (the handlers that list the team at once).
CreateTeam(c, t) ==
    /\ InDefault(c) /\ ~cl[c].wait_qping
    /\ ~lb[t].live
    /\ MoveToTeam(c, t, NewTeam(t, c))
    /\ num_games' = num_games + 1

\* The lists send_game_list shows: no Gamecube team to a DC/PC client, and no
\* DC/PC team to a Gamecube client unless its leader allowed it.
Listed(c, t) ==
    IF c \in PreGC THEN lb[t].pre_gc ELSE lb[t].pre_gc => lb[t].gc_allowed

\* A client picks a team from the list (join_game).  It has answered the pings
\* sent before that list.
JoinTeam(c, t) ==
    /\ InDefault(c) /\ ~cl[c].wait_qping
    /\ lb[t].live /\ Listed(c, t)
    /\ ~lb[t].bursting
    /\ lb[t].questing => lb[t].joinable
    /\ ~lb[t].questsel
    /\ HasRoom(t)
    /\ MoveToTeam(c, t, lb[t])
    /\ UNCHANGED num_games

\* 0x98: the client has left its team; its BURSTING and WAIT_QPING flags stay.
LeaveTeam(c) ==
    /\ InTeam(c)
    /\ RemovePlayer(c, [cl[c] EXCEPT !.cur_lobby = None, !.client_id = 0,
                                     !.selecting = FALSE])

\* The connection is closed, failed or timed out, and the block cleans up.
Disconnect(c) ==
    /\ cl[c].on
    /\ IF cl[c].cur_lobby = None THEN Forget(c) ELSE RemovePlayer(c, Loggedout)

\* 0x6F, the client has loaded the team.  In a quest it gets the quest file and
\* a ping first, and the burst goes on until it answers.
DoneBurst(c) ==
    LET l == cl[c].cur_lobby
    IN  /\ InTeam(c) /\ cl[c].bursting /\ ~cl[c].wait_qping
        /\ \/ /\ lb[l].questing
              /\ cl' = [cl EXCEPT ![c].wait_qping = TRUE]
              /\ UNCHANGED <<lb, pkt_queue>>
           \/ /\ ~lb[l].questing
              /\ cl' = [cl EXCEPT ![c].bursting = FALSE]
              /\ lb' = [lb EXCEPT ![l].bursting = FALSE]
              /\ \E n \in 0 .. Len(pkt_queue[l]) : pkt_queue' = Drained(l, n)
        /\ UNCHANGED <<burst_queue, num_games, now>>

\* The answer to that ping: the kept burst packets are replayed to the client
\* and the burst ends.  A client in no lobby by then is disconnected.
PingReply(c) ==
    LET l == cl[c].cur_lobby
    IN  /\ cl[c].wait_qping
        /\ \/ l = None /\ Forget(c)
           \/ /\ l # None
              /\ cl' = [cl EXCEPT ![c].bursting = FALSE, ![c].wait_qping = FALSE]
              /\ lb' = [lb EXCEPT ![l].bursting = FALSE]
              /\ burst_queue' = [burst_queue EXCEPT ![l] = <<>>]
              /\ \E n \in 0 .. Len(pkt_queue[l]) : pkt_queue' = Drained(l, n)
              /\ UNCHANGED <<num_games, now>>

\* A 0x60/0x62/0x6D packet that has to wait for the end of the burst.
SendGamePacket(c) ==
    LET l == cl[c].cur_lobby
    IN  /\ InTeam(c) /\ lb[l].bursting
        /\ Len(pkt_queue[l]) < MaxQueue
        /\ pkt_queue' = [pkt_queue EXCEPT ![l] = Append(@, c)]
        /\ UNCHANGED <<cl, lb, burst_queue, num_games, now>>

\* SUBCMD_BURST1-4 for dest, in a quest: sent, and kept for a replay as well.
SendBurst(c, dest) ==
    LET l == cl[c].cur_lobby
    IN  /\ InTeam(c) /\ lb[l].bursting /\ lb[l].questing
        /\ dest \in Members(l) \ {c} /\ cl[dest].bursting
        /\ Len(burst_queue[l]) < MaxQueue
        /\ burst_queue' = [burst_queue EXCEPT ![l] = Append(@, dest)]
        /\ UNCHANGED <<cl, lb, pkt_queue, num_games, now>>

\* The quest counter is opened: nobody can join until the choice is made.
OpenQuestList(c) ==
    /\ InTeam(c) /\ Quest # {} /\ ~cl[c].selecting
    /\ cl' = [cl EXCEPT ![c].selecting = TRUE]
    /\ lb' = [lb EXCEPT ![cl[c].cur_lobby].questsel = TRUE]
    /\ UNCHANGED <<queues, num_games, now>>

\* The list is closed without a choice.
CloseQuestList(c) ==
    /\ InTeam(c) /\ cl[c].selecting
    /\ cl' = [cl EXCEPT ![c].selecting = FALSE]
    /\ lb' = [lb EXCEPT ![cl[c].cur_lobby].questsel = FALSE]
    /\ UNCHANGED <<queues, num_games, now>>

\* The quest menu's own test, before lobby_setup_quest.
MayPick_Unchecked(l) == TRUE
MayPick(l) == ~lb[l].bursting

\* lobby_setup_quest: refused by a script or for want of its data, or started
\* for the whole team.  q_flags is only ever added to.
PickQuest(c, q) ==
    LET l == cl[c].cur_lobby
    IN  /\ InTeam(c) /\ cl[c].selecting
        /\ MayPick(l)
        /\ \/ /\ lb' = [lb EXCEPT ![l].questsel = FALSE]
              /\ cl' = [cl EXCEPT ![c].selecting = FALSE]
           \/ /\ lb' = [lb EXCEPT ![l].questsel = FALSE, ![l].questing = TRUE,
                                  ![l].joinable = @ \/ q \in Joinable]
              /\ cl' = [d \in Client |-> IF d \in Members(l)
                                         THEN [cl[d] EXCEPT !.selecting = FALSE]
                                         ELSE cl[d]]
        /\ UNCHANGED <<queues, num_games, now>>

\* /allowgc [off], by the leader of a team who is a GM.
AllowGC(c, allowed) ==
    LET l == cl[c].cur_lobby
    IN  /\ InTeam(c) /\ lb[l].leader_id = cl[c].client_id
        /\ lb[l].gc_allowed # allowed
        /\ lb' = [lb EXCEPT ![l].gc_allowed = allowed]
        /\ UNCHANGED <<cl, queues, num_games, now>>

\* A second passes.  Times are only compared, so the seconds in use are
\* renumbered from 0, in their order, and the new one follows them.
Tick ==
    LET inside == {c \in Client : cl[c].cur_lobby # None}
        used   == {cl[c].join_time : c \in inside}
    IN  /\ now \in used /\ Cardinality(used) <= MaxSecond
        /\ now' = Cardinality(used)
        /\ cl' = [c \in Client |->
                    [cl[c] EXCEPT !.join_time = Cardinality({s \in used : s < @})]]
        /\ UNCHANGED <<lb, queues, num_games>>

Handler(c) ==
    \/ Login(c)
    \/ \E l \in Default : EnterLobby(c, l) \/ ChangeLobby(c, l)
    \/ \E t \in Team : CreateTeam(c, t) \/ JoinTeam(c, t)
    \/ LeaveTeam(c)
    \/ Disconnect(c)
    \/ DoneBurst(c)
    \/ PingReply(c)
    \/ SendGamePacket(c)
    \/ \E d \in Client : SendBurst(c, d)
    \/ OpenQuestList(c)
    \/ CloseQuestList(c)
    \/ \E q \in Quest : PickQuest(c, q)
    \/ \E a \in BOOLEAN : AllowGC(c, a)

Next == Tick \/ \E c \in Client : Handler(c)

Spec == Init /\ [][Next]_vars

\* A client in a burst gets through it or is dropped: a client that still talks
\* sends what is expected of it, and block_thd drops one silent for 90 seconds.
EndOwnBurst(c) ==
    /\ InTeam(c) /\ cl[c].bursting
    /\ DoneBurst(c) \/ PingReply(c) \/ Disconnect(c)

FairSpec == Spec /\ \A c \in Client : WF_vars(EndOwnBurst(c))

-----------------------------------------------------------------------------
\* Properties

ClientRecord ==
    [on : BOOLEAN, cur_lobby : Place \cup {None}, client_id : Nat, join_time : Nat,
     bursting : BOOLEAN, wait_qping : BOOLEAN, selecting : BOOLEAN]

LobbyRecord(l) ==
    [live : BOOLEAN, clients : [Slot(l) -> Client \cup {None}], num_clients : Int,
     leader_id : Slot(l), pre_gc : BOOLEAN, gc_allowed : BOOLEAN, bursting : BOOLEAN,
     questing : BOOLEAN, joinable : BOOLEAN, questsel : BOOLEAN]

\* Every variable keeps its type; a leader_id is always a slot of its lobby, also
\* when an election finds nobody (lobby_remove_client_locked).
TypeOK ==
    /\ cl \in [Client -> ClientRecord]
    /\ DOMAIN lb = Place /\ \A l \in Place : lb[l] \in LobbyRecord(l)
    /\ DOMAIN pkt_queue = Place /\ DOMAIN burst_queue = Place
    /\ num_games \in Int /\ now \in Nat

\* The two views of who is where agree: a client sits in the slot its client_id
\* names of the lobby its cur_lobby names, and in no other slot of any lobby.
\* lobby_change_lobby adds before it removes, overwriting both fields between.
MembershipAgrees ==
    /\ \A l \in Place : \A i \in Occupied(lb[l]) :
           LET c == lb[l].clients[i]
           IN  cl[c].on /\ cl[c].cur_lobby = l /\ cl[c].client_id = i
    /\ \A c \in Client : cl[c].cur_lobby # None =>
           /\ cl[c].client_id \in Slot(cl[c].cur_lobby)
           /\ lb[cl[c].cur_lobby].clients[cl[c].client_id] = c

\* The counters are right and no team outlives its last member: num_clients
\* counts the occupied slots, a team exists exactly while it has members, and
\* num_games counts the teams (lobby_destroy_locked and its callers).
TeamsAccounted ==
    /\ \A l \in Place : lb[l].num_clients = Cardinality(Occupied(lb[l]))
    /\ \A t \in Team : lb[t].live <=> Occupied(lb[t]) # {}
    /\ num_games = Cardinality({t \in Team : lb[t].live})

\* Somebody leads every lobby and team that is not empty: the commands and the
\* packets reserved to the leader have an addressee (lobby_remove_client_locked
\* falls back on slot 0 when it elects nobody).
LeaderPresent ==
    \A l \in Place : Occupied(lb[l]) # {} => lb[l].leader_id \in Occupied(lb[l])

\* Nobody takes the lead from a leader who stays, whoever else comes or goes.
LeaderStable ==
    [][\A l \in Place :
         LET i == lb[l].leader_id
         IN  /\ i \in Occupied(lb[l])
             /\ lb'[l].clients[i] = lb[l].clients[i]
             => lb'[l].leader_id = i]_vars

\* The longest in the lobby succeeds a leader who leaves; in a DC/PC team open
\* to Gamecube, the longest of the DC/PC members while there is one
\* (lobby_elect_leader_locked and its cross-platform variant).
SeniorSucceeds ==
    [][\A l \in Place :
         LET old   == lb[l].leader_id
             stay  == {i \in Occupied(lb[l]) : lb'[l].clients[i] = lb[l].clients[i]}
             kin   == {i \in stay : lb[l].clients[i] \in PreGC}
             pool  == IF CrossPlatform(lb[l]) /\ kin # {} THEN kin ELSE stay
             new   == lb'[l].leader_id
         IN  old \in Occupied(lb[l]) \ stay /\ stay # {} =>
                /\ new \in pool
                /\ \A i \in pool :
                     cl[lb[l].clients[new]].join_time <= cl[lb[l].clients[i]].join_time]_vars

\* A team that has become, or was made, a Gamecube team holds no DC or PC client:
\* send_game_list hides it from them and their packets are not translated.
GamecubeTeams ==
    \A t \in Team : lb[t].live /\ ~lb[t].pre_gc => Members(t) \cap PreGC = {}

\* A team is closed for a burst exactly while one of its members, and one only,
\* is loading it (the flag is kept twice, on the lobby and on the client, and
\* cleared by four different handlers).
BurstHasItsClient ==
    \A t \in Team :
        LET loading == {c \in Members(t) : cl[c].bursting}
        IN  /\ lb[t].bursting <=> loading # {}
            /\ Cardinality(loading) <= 1

\* A packet is held back only while there is a burst to wait for: whichever way
\* the burst ends, lobby_handle_done_burst empties the queue.
QueueWaitsForBurst ==
    \A l \in Place : pkt_queue[l] # <<>> => lb[l].bursting

\* A quest starts only when every member is there to load it: none of them is
\* in a burst that began before the quest (block.c's menu refuses, the join too).
QuestReachesAll ==
    [][\A t \in Team : ~lb[t].questing /\ lb'[t].questing =>
         \A c \in Members(t) : ~cl[c].bursting]_vars

\* No burst closes a team for good.
BurstEnds == \A t \in Team : lb[t].bursting ~> ~lb[t].bursting

\* A packet held back is handled in the team it was sent in: its source is still
\* a member when the burst ends (lobby_pkt_t keeps a bare pointer to it).
QueuedSourcesStay ==
    \A l \in Place : \A i \in DOMAIN pkt_queue[l] : cl[pkt_queue[l][i]].cur_lobby = l

\* A team refuses players for a quest selection only while a member makes one.
QuestselHasSelector ==
    \A t \in Team : lb[t].questsel => \E c \in Members(t) : cl[c].selecting

\* The promise made to the players: Membership.tla, with the place of a client
\* read off its connection and its cur_lobby.
Where == [c \in Client |-> IF ~cl[c].on THEN -2
                           ELSE IF cl[c].cur_lobby = None THEN -1
                           ELSE cl[c].cur_lobby]
OpenTeams == {t \in Team : lb[t].live}

Promise ==
    INSTANCE Membership WITH
        Outside <- -2, Between <- -1, where <- Where, open <- OpenTeams

PromiseKept == Promise!Spec
=============================================================================
