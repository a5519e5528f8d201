----------------------------- MODULE TeamProofs -----------------------------
(***************************************************************************)
(* More about Lobby.tla, for every number of clients, lobbies and slots:   *)
(* bursts, quests, leaders, Gamecube teams, and that the block keeps the   *)
(* promise of Membership.tla.                                              *)
(*                                                                         *)
(* A step lets one client in somewhere, lets one go, moves nobody, or is   *)
(* the clock's (StepShape).  What each of the four does to a lobby is said *)
(* once; every theorem then looks at four cases.                           *)
(***************************************************************************)
EXTENDS LobbyProofs

-----------------------------------------------------------------------------
\* What the two halves of a move leave of the rest of a lobby's record

\* What else of a lobby changes as a client comes (lobby_add_client_locked).
LEMMA WithClientFields ==
    ASSUME NEW l \in Place, NEW r, LobbyOK(l, r), NEW c
    PROVE  LET s == WithClient(l, r, c)
           IN  /\ s.num_clients = r.num_clients + 1
               /\ s.leader_id = IF r.num_clients = 0 THEN FreeSlot(l, r) ELSE r.leader_id
               /\ s.pre_gc = r.pre_gc /\ s.gc_allowed = r.gc_allowed
               /\ s.bursting = r.bursting /\ s.questing = r.questing
<1> DEFINE i == FreeSlot(l, r)
           s == WithClient(l, r, c)
<1>1. r \in LobbyRecord(l)
  BY DEF LobbyOK
<1>2. s = [r EXCEPT !.clients[i] = c, !.num_clients = @ + 1,
                    !.leader_id = IF r.num_clients = 0 THEN i ELSE @]
  BY DEF WithClient
<1> HIDE DEF s, i
<1>3. /\ s.num_clients = r.num_clients + 1
      /\ s.leader_id = IF r.num_clients = 0 THEN i ELSE r.leader_id
      /\ s.pre_gc = r.pre_gc /\ s.gc_allowed = r.gc_allowed
      /\ s.bursting = r.bursting /\ s.questing = r.questing
  BY <1>1, <1>2 DEF LobbyRecord
<1> QED BY <1>3 DEF s, i

\* What else of a lobby changes as a client goes (lobby_remove_client_locked).
LEMMA WithoutClientFields ==
    ASSUME NEW l \in Place, NEW r, LobbyOK(l, r), NEW i
    PROVE  LET s == WithoutClient(r, i)
               election == NeedsElection(r, i)
           IN  /\ s.num_clients = r.num_clients - 1
               /\ s.leader_id = IF election THEN NewLeader(r) ELSE r.leader_id
               /\ s.pre_gc = (r.pre_gc /\ ~(election /\ TurnsGC(r)))
               /\ s.bursting = r.bursting /\ s.questing = r.questing
<1> DEFINE s == WithoutClient(r, i)
           lead == IF NeedsElection(r, i) THEN NewLeader(r) ELSE r.leader_id
           flip == NeedsElection(r, i) /\ TurnsGC(r)
<1>1. r \in LobbyRecord(l)
  BY DEF LobbyOK
<1>2. s = [r EXCEPT !.clients[i] = None, !.num_clients = @ - 1, !.leader_id = lead,
                    !.pre_gc = r.pre_gc /\ ~flip, !.gc_allowed = r.gc_allowed /\ ~flip]
  BY <1>1 DEF WithoutClient, LobbyRecord
<1> HIDE DEF s, lead, flip
<1>3. /\ s.num_clients = r.num_clients - 1 /\ s.leader_id = lead
      /\ s.pre_gc = (r.pre_gc /\ ~flip)
      /\ s.bursting = r.bursting /\ s.questing = r.questing
  BY <1>1, <1>2 DEF LobbyRecord
<1> QED BY <1>3 DEF s, lead, flip

\* A lobby whose burst has been called off is the same lobby otherwise.
LEMMA UnburstOK ==
    ASSUME Ind, NEW l \in Place, NEW c
    PROVE  LET u == Unburst(l, c)
           IN  /\ LobbyOK(l, u)
               /\ u.clients = lb[l].clients /\ u.num_clients = lb[l].num_clients
               /\ u.live = lb[l].live /\ u.leader_id = lb[l].leader_id
               /\ u.pre_gc = lb[l].pre_gc /\ u.gc_allowed = lb[l].gc_allowed
               /\ u.questing = lb[l].questing
               /\ u.bursting = (lb[l].bursting /\ ~cl[c].bursting)
<1> DEFINE u == Unburst(l, c)
           b == lb[l].bursting /\ ~cl[c].bursting
<1>1. lb[l] \in LobbyRecord(l) /\ lb[l].num_clients = Cardinality(Occupied(lb[l]))
  BY IndLobbyOK DEF LobbyOK
<1>2. u = [lb[l] EXCEPT !.bursting = b] /\ b \in BOOLEAN
  BY <1>1 DEF Unburst
<1> HIDE DEF u, b
<1>3. /\ u \in LobbyRecord(l)
      /\ u.clients = lb[l].clients /\ u.num_clients = lb[l].num_clients
      /\ u.live = lb[l].live /\ u.leader_id = lb[l].leader_id
      /\ u.pre_gc = lb[l].pre_gc /\ u.gc_allowed = lb[l].gc_allowed
      /\ u.questing = lb[l].questing /\ u.bursting = b
  BY <1>1, <1>2 DEF LobbyRecord
<1>4. LobbyOK(l, u)
  BY <1>1, <1>3 DEF LobbyOK, Occupied
<1> QED BY <1>3, <1>4 DEF u, b

\* The members of a lobby are the clients that say they are there.
LEMMA MembersAre ==
    ASSUME Ind, NEW l \in Place
    PROVE  Members(l) = {c \in Client : cl[c].cur_lobby = l}
<1>1. ASSUME NEW c \in Members(l) PROVE c \in Client /\ cl[c].cur_lobby = l
  <2>1. PICK i \in Occupied(lb[l]) : c = lb[l].clients[i]
    BY <1>1 DEF Members
  <2>2. lb[l].clients \in [Slot(l) -> Client \cup {None}]
    BY DEF Ind, TypeOK, LobbyRecord
  <2> QED BY <2>1, <2>2 DEF Occupied, Ind, MembershipAgrees
<1>2. ASSUME NEW c \in Client, cl[c].cur_lobby = l PROVE c \in Members(l)
  BY <1>2, MemberSlot, LobbyConstants DEF Members
<1> QED BY <1>1, <1>2

-----------------------------------------------------------------------------
\* The four kinds of step

\* Client c comes into t, from the default lobby it was in or from nowhere: r is t's
\* record before that, which lobby_create_game has just made if it is a new team's.
Enters(c, t, r) ==
    LET l == cl[c].cur_lobby
    IN  /\ t \in Place /\ t # l /\ l \notin Team /\ cl[c].on
        /\ LobbyOK(t, r) /\ r.clients = lb[t].clients /\ r.num_clients < MaxClients(t)
        /\ \/ r = lb[t] /\ (t \in Team => r.live /\ Listed(c, t) /\ ~r.bursting)
           \/ t \in Team /\ ~lb[t].live /\ r = NewTeam(t, c)
        /\ lb'[t] = IF t \in Team THEN [WithClient(t, r, c) EXCEPT !.bursting = TRUE]
                    ELSE WithClient(t, r, c)
        /\ \A k \in Place \ {t} :
              lb'[k] = IF k = l THEN WithoutClient(lb[k], cl[c].client_id) ELSE lb[k]
        /\ l # None => MayLeave(l)
        /\ cl' = [cl EXCEPT ![c] = IF t \in Team
                                   THEN [Seated(c, t, r) EXCEPT !.bursting = TRUE]
                                   ELSE Seated(c, t, r)]
        /\ t \in Team => l # None /\ ~cl[c].wait_qping
        /\ pkt_queue' = pkt_queue /\ now' = now

\* Client c goes out of the lobby it is in, and r is what is left of its own state.
Leaves(c, r) ==
    /\ cl[c].cur_lobby # None /\ r \in ClientRecord /\ r.cur_lobby = None
    /\ \/ r = Loggedout
       \/ r.on /\ r.bursting = cl[c].bursting /\ r.wait_qping = cl[c].wait_qping
    /\ RemovePlayer(c, r)

\* c alone may connect or disconnect, if it is in no lobby.
OnAsBefore(c) ==
    \A d \in Client : d # c \/ cl[d].cur_lobby # None => cl'[d].on = cl[d].on

\* Nobody moves: flags and queues change, a client logs in, or is forgotten.
Stays ==
    /\ now' = now
    /\ \A d \in Client :
          /\ cl'[d].cur_lobby = cl[d].cur_lobby
          /\ cl[d].cur_lobby # None => cl'[d].join_time = cl[d].join_time
    /\ \E c \in Client : OnAsBefore(c)
    /\ \A l \in Place :
          /\ lb'[l].clients = lb[l].clients /\ lb'[l].num_clients = lb[l].num_clients
          /\ lb'[l].live = lb[l].live /\ lb'[l].leader_id = lb[l].leader_id
          /\ lb'[l].pre_gc = lb[l].pre_gc
          /\ lb'[l].questing /\ ~lb[l].questing => ~lb[l].bursting

\* A lobby_t in which only flags change that no move touches.
FlagsOnly(l) ==
    /\ lb'[l].clients = lb[l].clients /\ lb'[l].num_clients = lb[l].num_clients
    /\ lb'[l].live = lb[l].live /\ lb'[l].leader_id = lb[l].leader_id
    /\ lb'[l].pre_gc = lb[l].pre_gc
    /\ lb'[l].questing /\ ~lb[l].questing => ~lb[l].bursting

\* A step that sets flags of one lobby only leaves the shape of all.
LEMMA OneLobbyFlags ==
    ASSUME Ind, NEW l \in Place, NEW b \in BOOLEAN,
           \/ lb' = lb
           \/ lb' = [lb EXCEPT ![l].bursting = b]
           \/ lb' = [lb EXCEPT ![l].questsel = b]
           \/ lb' = [lb EXCEPT ![l].gc_allowed = b]
           \/ /\ ~lb[l].bursting
              /\ \E j \in BOOLEAN : lb' = [lb EXCEPT ![l].questsel = FALSE,
                                                     ![l].questing = TRUE,
                                                     ![l].joinable = j]
    PROVE  \A k \in Place : FlagsOnly(k)
<1>1. DOMAIN lb = Place /\ lb[l] \in LobbyRecord(l)
  BY DEF Ind, TypeOK
<1>2. \A k \in Place \ {l} : lb'[k] = lb[k]
  BY <1>1
<1>3. FlagsOnly(l)
  <2>1. CASE lb' = lb
    BY <2>1 DEF FlagsOnly
  <2>2. CASE lb' = [lb EXCEPT ![l].bursting = b]
    BY <1>1, <2>2 DEF FlagsOnly, LobbyRecord
  <2>3. CASE lb' = [lb EXCEPT ![l].questsel = b]
    BY <1>1, <2>3 DEF FlagsOnly, LobbyRecord
  <2>4. CASE lb' = [lb EXCEPT ![l].gc_allowed = b]
    BY <1>1, <2>4 DEF FlagsOnly, LobbyRecord
  <2>5. ASSUME ~lb[l].bursting, NEW j \in BOOLEAN,
               lb' = [lb EXCEPT ![l].questsel = FALSE, ![l].questing = TRUE,
                                ![l].joinable = j]
        PROVE  FlagsOnly(l)
    BY <1>1, <2>5 DEF FlagsOnly, LobbyRecord
  <2> QED BY <2>1, <2>2, <2>3, <2>4, <2>5
<1> QED BY <1>2, <1>3 DEF FlagsOnly

\* A client whose flags change stays where it is.
LEMMA OneClientFlags ==
    ASSUME Ind, NEW c \in Client, NEW b \in BOOLEAN,
           \/ cl' = cl
           \/ cl[c].cur_lobby = None /\ cl' = [cl EXCEPT ![c].on = b]
           \/ cl' = [cl EXCEPT ![c].bursting = b]
           \/ cl' = [cl EXCEPT ![c].wait_qping = b]
           \/ cl' = [cl EXCEPT ![c].selecting = b]
           \/ cl' = [cl EXCEPT ![c].bursting = b, ![c].wait_qping = b]
           \/ cl[c].cur_lobby = None /\ cl' = [cl EXCEPT ![c] = Loggedout]
    PROVE  /\ \A d \in Client :
                 /\ cl'[d].cur_lobby = cl[d].cur_lobby
                 /\ cl[d].cur_lobby # None => cl'[d].join_time = cl[d].join_time
           /\ OnAsBefore(c)
<1>1. cl \in [Client -> ClientRecord]
  BY DEF Ind, TypeOK
<1>2. \A d \in Client \ {c} : cl'[d] = cl[d]
  BY <1>1
<1>3. cl'[c].cur_lobby = cl[c].cur_lobby
      /\ (cl[c].cur_lobby # None => cl'[c].join_time = cl[c].join_time)
      /\ (cl[c].cur_lobby # None => cl'[c].on = cl[c].on)
  BY <1>1 DEF ClientRecord, Loggedout
<1> QED BY <1>2, <1>3 DEF OnAsBefore

\* The first lobby is entered.
LEMMA EnterLobbyEnters ==
    ASSUME Ind, NEW c \in Client, NEW req \in Default, EnterLobby(c, req)
    PROVE  \E t \in Place : Enters(c, t, lb[t])
<1> DEFINE Open == {d \in Default : HasRoom(d)}
           l == IF HasRoom(req) THEN req ELSE Min(Open)
<1>1. l \in Default /\ HasRoom(l)
  <2>1. Open \in SUBSET Nat /\ Open # {}
    BY LobbyConstants DEF EnterLobby
  <2>2. Min(Open) \in Open
    <3> HIDE DEF Open
    <3> QED BY <2>1, MinOfNat
  <2> QED BY <2>2
<1>2. l \in Place /\ l \notin Team /\ l # None /\ None \notin Team
  BY <1>1, LobbyConstants DEF Place
<1>3. /\ cl[c].on /\ cl[c].cur_lobby = None
      /\ cl' = [cl EXCEPT ![c] = Seated(c, l, lb[l])]
      /\ lb' = [lb EXCEPT ![l] = WithClient(l, @, c)]
      /\ pkt_queue' = pkt_queue /\ now' = now
  BY DEF EnterLobby, queues
<1> HIDE DEF l
<1>4. LobbyOK(l, lb[l]) /\ lb[l].num_clients < MaxClients(l) /\ DOMAIN lb = Place
  BY <1>1, <1>2, IndLobbyOK DEF HasRoom, Ind, TypeOK
<1>5. lb'[l] = WithClient(l, lb[l], c) /\ \A k \in Place \ {l} : lb'[k] = lb[k]
  BY <1>2, <1>3, <1>4
<1>6. \A k \in Place : k # cl[c].cur_lobby
  BY <1>3, LobbyConstants
<1> QED BY <1>2, <1>3, <1>4, <1>5, <1>6 DEF Enters

\* A lobby that is changed to is entered.
LEMMA ChangeLobbyEnters ==
    ASSUME Ind, NEW c \in Client, NEW req \in Default, ChangeLobby(c, req)
    PROVE  Enters(c, req, lb[req])
<1> DEFINE l == cl[c].cur_lobby
<1>1. req \in Place /\ req \notin Team /\ l \in Place /\ l \notin Team /\ req # l
      /\ l # None
  BY LobbyConstants DEF Place, ChangeLobby, InDefault
<1>2. LobbyOK(req, lb[req]) /\ lb[req].num_clients < MaxClients(req) /\ DOMAIN lb = Place
  BY <1>1, IndLobbyOK DEF ChangeLobby, HasRoom, Ind, TypeOK
<1>3. cl[c].on
  BY <1>1, MemberSlot
<1>4. /\ lb'[req] = WithClient(req, lb[req], c)
      /\ \A k \in Place \ {req} :
            lb'[k] = IF k = l THEN WithoutClient(lb[k], cl[c].client_id) ELSE lb[k]
  BY <1>1, <1>2 DEF ChangeLobby
<1>5. /\ MayLeave(l) /\ cl' = [cl EXCEPT ![c] = Seated(c, req, lb[req])]
      /\ pkt_queue' = pkt_queue /\ now' = now
  BY DEF ChangeLobby, queues
<1> QED BY <1>1, <1>2, <1>3, <1>4, <1>5 DEF Enters

\* A team that is moved to is entered.
LEMMA MoveToTeamEnters ==
    ASSUME Ind, NEW c \in Client, InDefault(c), NEW t \in Team, NEW r,
           LobbyOK(t, r), r.clients = lb[t].clients, r.num_clients < MaxClients(t),
           \/ r = lb[t] /\ r.live /\ Listed(c, t) /\ ~r.bursting
           \/ ~lb[t].live /\ r = NewTeam(t, c),
           ~cl[c].wait_qping, MoveToTeam(c, t, r)
    PROVE  Enters(c, t, r)
<1> DEFINE l == cl[c].cur_lobby
<1>1. t \in Place /\ l \in Place /\ l \notin Team /\ t # l /\ l # None
  BY LobbyConstants DEF Place, InDefault
<1>2. cl[c].on /\ DOMAIN lb = Place
  BY <1>1, MemberSlot DEF Ind, TypeOK
<1>3. /\ lb'[t] = [WithClient(t, r, c) EXCEPT !.bursting = TRUE]
      /\ \A k \in Place \ {t} :
            lb'[k] = IF k = l THEN WithoutClient(lb[k], cl[c].client_id) ELSE lb[k]
  BY <1>1, <1>2 DEF MoveToTeam
<1>4. /\ MayLeave(l) /\ cl' = [cl EXCEPT ![c] = [Seated(c, t, r) EXCEPT !.bursting = TRUE]]
      /\ pkt_queue' = pkt_queue /\ now' = now
  BY DEF MoveToTeam, queues
<1> QED BY <1>1, <1>2, <1>3, <1>4 DEF Enters

\* A team is created and entered.
LEMMA CreateTeamEnters ==
    ASSUME Ind, NEW c \in Client, NEW t \in Team, CreateTeam(c, t)
    PROVE  Enters(c, t, NewTeam(t, c))
<1> DEFINE r == NewTeam(t, c)
<1>1. LobbyOK(t, r) /\ r.clients = lb[t].clients /\ r.num_clients < MaxClients(t)
  BY NewTeamOK DEF CreateTeam
<1>2. InDefault(c) /\ MoveToTeam(c, t, r) /\ ~lb[t].live /\ ~cl[c].wait_qping
  BY DEF CreateTeam
<1>3. r = NewTeam(t, c)
  OBVIOUS
<1> HIDE DEF r
<1>4. Enters(c, t, r)
  BY <1>1, <1>2, <1>3, MoveToTeamEnters
<1> QED BY <1>3, <1>4

\* A team is joined and entered.
LEMMA JoinTeamEnters ==
    ASSUME Ind, NEW c \in Client, NEW t \in Team, JoinTeam(c, t)
    PROVE  Enters(c, t, lb[t])
<1> DEFINE r == lb[t]
<1>1. LobbyOK(t, r) /\ r.num_clients < MaxClients(t) /\ r.live /\ Listed(c, t) /\ ~r.bursting
  BY IndLobbyOK DEF JoinTeam, HasRoom, Place
<1>2. InDefault(c) /\ MoveToTeam(c, t, r) /\ ~cl[c].wait_qping
  BY DEF JoinTeam
<1>3. r = lb[t]
  OBVIOUS
<1> HIDE DEF r
<1>4. Enters(c, t, r)
  BY <1>1, <1>2, <1>3, MoveToTeamEnters
<1> QED BY <1>3, <1>4

\* A team that is left for a lobby is left.
LEMMA LeaveTeamLeaves ==
    ASSUME Ind, NEW c \in Client, LeaveTeam(c)
    PROVE  \E r \in ClientRecord : Leaves(c, r)
<1> DEFINE r == [cl[c] EXCEPT !.cur_lobby = None, !.client_id = 0, !.selecting = FALSE]
<1>1. cl[c] \in ClientRecord /\ cl[c].on
  BY InTeamPlace, MemberSlot DEF Ind, TypeOK, LeaveTeam
<1>2. r \in ClientRecord /\ r.cur_lobby = None /\ r.on
      /\ r.bursting = cl[c].bursting /\ r.wait_qping = cl[c].wait_qping
  BY <1>1 DEF ClientRecord
<1>3. cl[c].cur_lobby # None /\ RemovePlayer(c, r)
  BY InTeamPlace DEF LeaveTeam
<1> HIDE DEF r
<1> QED BY <1>2, <1>3 DEF Leaves

\* Who is disconnected leaves its lobby.
LEMMA DisconnectLeaves ==
    ASSUME Ind, NEW c \in Client, Disconnect(c), cl[c].cur_lobby # None
    PROVE  Leaves(c, Loggedout)
<1>1. Loggedout \in ClientRecord /\ Loggedout.cur_lobby = None
  BY DEF Loggedout, ClientRecord
<1> QED BY <1>1 DEF Disconnect, Leaves

\* Every handler is of one of the first three kinds.
LEMMA StepShape ==
    ASSUME Ind, NEW c \in Client, Handler(c)
    PROVE  \/ \E t \in Place : \E r \in LobbyRecord(t) : Enters(c, t, r)
           \/ \E r \in ClientRecord : Leaves(c, r)
           \/ Stays
<1> DEFINE l == cl[c].cur_lobby
<1>1. cl[c] \in ClientRecord /\ Loggedout \in ClientRecord /\ Loggedout.cur_lobby = None
  BY DEF Ind, TypeOK, Loggedout, ClientRecord
<1>2. InTeam(c) => l \in Place /\ l # None
  BY InTeamPlace
<1>3. \A k \in Place : lb[k] \in LobbyRecord(k)
  BY DEF Ind, TypeOK
<1>4. ASSUME NEW b \in BOOLEAN, now' = now, lb' = lb \/ l \in Place,
             \/ cl' = cl
             \/ cl[c].cur_lobby = None /\ cl' = [cl EXCEPT ![c].on = b]
             \/ cl' = [cl EXCEPT ![c].bursting = b]
             \/ cl' = [cl EXCEPT ![c].wait_qping = b]
             \/ cl' = [cl EXCEPT ![c].selecting = b]
             \/ cl' = [cl EXCEPT ![c].bursting = b, ![c].wait_qping = b]
             \/ cl[c].cur_lobby = None /\ cl' = [cl EXCEPT ![c] = Loggedout],
             \/ lb' = lb
             \/ lb' = [lb EXCEPT ![l].bursting = b]
             \/ lb' = [lb EXCEPT ![l].questsel = b]
             \/ lb' = [lb EXCEPT ![l].gc_allowed = b]
             \/ /\ ~lb[l].bursting
                /\ \E j \in BOOLEAN : lb' = [lb EXCEPT ![l].questsel = FALSE,
                                                       ![l].questing = TRUE,
                                                       ![l].joinable = j]
      PROVE  Stays
  <2>1. \A d \in Client :
            /\ cl'[d].cur_lobby = cl[d].cur_lobby
            /\ cl[d].cur_lobby # None => cl'[d].join_time = cl[d].join_time
    BY <1>4, OneClientFlags
  <2>3. OnAsBefore(c)
    BY <1>4, OneClientFlags
  <2>2. \A k \in Place : FlagsOnly(k)
    <3>1. CASE lb' = lb
      BY <3>1 DEF FlagsOnly
    <3>2. CASE l \in Place
      BY <3>2, <1>4, OneLobbyFlags
    <3> QED BY <3>1, <3>2, <1>4
  <2> QED BY <2>1, <2>2, <2>3, <1>4 DEF Stays, FlagsOnly
<1>5. CASE Login(c)
  BY <1>5, <1>4, MemberSlot DEF Login
<1>6. ASSUME NEW d \in Default, EnterLobby(c, d)
      PROVE  \E t \in Place : \E r \in LobbyRecord(t) : Enters(c, t, r)
  BY <1>3, <1>6, EnterLobbyEnters
<1>7. ASSUME NEW d \in Default, ChangeLobby(c, d)
      PROVE  \E t \in Place : \E r \in LobbyRecord(t) : Enters(c, t, r)
  BY <1>3, <1>7, ChangeLobbyEnters DEF Place
<1>8. ASSUME NEW t \in Team, CreateTeam(c, t)
      PROVE  \E k \in Place : \E r \in LobbyRecord(k) : Enters(c, k, r)
  BY <1>8, CreateTeamEnters, NewTeamOK DEF CreateTeam, LobbyOK, Place
<1>9. ASSUME NEW t \in Team, JoinTeam(c, t)
      PROVE  \E k \in Place : \E r \in LobbyRecord(k) : Enters(c, k, r)
  BY <1>3, <1>9, JoinTeamEnters DEF Place
<1>10. CASE LeaveTeam(c)
  BY <1>10, LeaveTeamLeaves
<1>11. CASE Disconnect(c)
  <2>1. CASE l = None
    BY <1>11, <2>1, <1>4 DEF Disconnect, Forget
  <2>2. CASE l # None
    BY <1>1, <1>11, <2>2, DisconnectLeaves
  <2> QED BY <2>1, <2>2
<1>12. CASE DoneBurst(c)
  BY <1>2, <1>12, <1>4 DEF DoneBurst
<1>13. CASE PingReply(c)
  <2>1. CASE l = None
    BY <1>13, <2>1, <1>4 DEF PingReply, Forget
  <2>2. CASE l # None
    <3>1. l \in Place
      BY <2>2, MemberSlot
    <3> QED BY <3>1, <1>13, <2>2, <1>4 DEF PingReply
  <2> QED BY <2>1, <2>2
<1>14. CASE SendGamePacket(c)
  BY <1>14, <1>4 DEF SendGamePacket
<1>15. ASSUME NEW d \in Client, SendBurst(c, d) PROVE Stays
  BY <1>15, <1>4 DEF SendBurst
<1>16. CASE OpenQuestList(c)
  BY <1>2, <1>16, <1>4 DEF OpenQuestList
<1>17. CASE CloseQuestList(c)
  BY <1>2, <1>17, <1>4 DEF CloseQuestList
<1>18. ASSUME NEW q \in Quest, PickQuest(c, q) PROVE Stays
  <2> DEFINE j == lb[l].joinable \/ q \in Joinable
             M == Members(l)
  <2>1. l \in Place /\ ~lb[l].bursting /\ j \in BOOLEAN /\ DOMAIN lb = Place
    BY <1>2, <1>3, <1>18 DEF PickQuest, MayPick, LobbyRecord, Ind, TypeOK
  <2>2. \/ lb' = [lb EXCEPT ![l].questsel = FALSE]
        \/ lb' = [lb EXCEPT ![l].questsel = FALSE, ![l].questing = TRUE, ![l].joinable = j]
    BY <1>3, <1>18, <2>1 DEF PickQuest, LobbyRecord
  <2>3. \/ cl' = [cl EXCEPT ![c].selecting = FALSE]
        \/ cl' = [d \in Client |-> IF d \in M THEN [cl[d] EXCEPT !.selecting = FALSE]
                                   ELSE cl[d]]
    BY <1>18 DEF PickQuest
  <2>4. now' = now
    BY <1>18 DEF PickQuest
  <2> HIDE DEF j, M
  <2>5. \A d \in Client :
            /\ cl'[d].cur_lobby = cl[d].cur_lobby
            /\ cl[d].cur_lobby # None => cl'[d].join_time = cl[d].join_time
            /\ cl'[d].on = cl[d].on
    <3>1. cl \in [Client -> ClientRecord]
      BY DEF Ind, TypeOK
    <3> QED BY <3>1, <2>3 DEF ClientRecord
  <2>6. \A k \in Place : FlagsOnly(k)
    BY <2>1, <2>2, OneLobbyFlags
  <2> QED BY <2>4, <2>5, <2>6 DEF Stays, FlagsOnly, OnAsBefore
<1>19. ASSUME NEW a \in BOOLEAN, AllowGC(c, a) PROVE Stays
  BY <1>2, <1>19, <1>4 DEF AllowGC
<1> QED BY <1>5, <1>6, <1>7, <1>8, <1>9, <1>10, <1>11, <1>12, <1>13, <1>14, <1>15,
           <1>16, <1>17, <1>18, <1>19 DEF Handler

-----------------------------------------------------------------------------
\* What a step of each kind does

\* Coming in: the slot the client gets,
LEMMA EntersSlot ==
    ASSUME Ind, NEW c \in Client, NEW t \in Place, NEW r, Enters(c, t, r)
    PROVE  /\ FreeSlot(t, r) \in Slot(t) /\ lb[t].clients[FreeSlot(t, r)] = None
           /\ lb'[t].clients = [lb[t].clients EXCEPT ![FreeSlot(t, r)] = c]
<1> DEFINE w == WithClient(t, r, c)
<1>1. LobbyOK(t, r) /\ r.num_clients < MaxClients(t) /\ r.clients = lb[t].clients
  BY DEF Enters
<1>2. FreeSlot(t, r) \in Slot(t) /\ lb[t].clients[FreeSlot(t, r)] = None
  BY <1>1, FreeSlotIsFree
<1>3. LobbyOK(t, w) /\ w.clients = [lb[t].clients EXCEPT ![FreeSlot(t, r)] = c]
  BY <1>1, WithClientOK
<1>4. lb'[t] = IF t \in Team THEN [w EXCEPT !.bursting = TRUE] ELSE w
  BY DEF Enters
<1> HIDE DEF w
<1>5. lb'[t].clients = w.clients
  BY <1>3, <1>4 DEF LobbyOK, LobbyRecord
<1> QED BY <1>2, <1>3, <1>5

\* the rest of the lobby it comes to,
LEMMA EntersFields ==
    ASSUME Ind, NEW c \in Client, NEW t \in Place, NEW r, Enters(c, t, r)
    PROVE  /\ r.num_clients = 0 => lb'[t].leader_id = FreeSlot(t, r)
           /\ r.num_clients # 0 => lb'[t].leader_id = r.leader_id
           /\ lb'[t].pre_gc = r.pre_gc /\ lb'[t].questing = r.questing
           /\ t \in Team => lb'[t].bursting
           /\ t \notin Team => lb'[t].bursting = r.bursting
           /\ lb'[t].live = r.live
<1> DEFINE w == WithClient(t, r, c)
<1>1. LobbyOK(t, r) /\ r.num_clients < MaxClients(t) /\ r.clients = lb[t].clients
  BY DEF Enters
<1>2. /\ w.leader_id = IF r.num_clients = 0 THEN FreeSlot(t, r) ELSE r.leader_id
      /\ w.pre_gc = r.pre_gc /\ w.bursting = r.bursting /\ w.questing = r.questing
  BY <1>1, WithClientFields
<1>3. LobbyOK(t, w) /\ w.live = r.live
  BY <1>1, WithClientOK
<1>4. lb'[t] = IF t \in Team THEN [w EXCEPT !.bursting = TRUE] ELSE w
  BY DEF Enters
<1> HIDE DEF w
<1>5. /\ lb'[t].leader_id = w.leader_id /\ lb'[t].pre_gc = w.pre_gc
      /\ lb'[t].questing = w.questing /\ lb'[t].live = w.live
      /\ t \in Team => lb'[t].bursting
      /\ t \notin Team => lb'[t].bursting = w.bursting
  BY <1>3, <1>4 DEF LobbyOK, LobbyRecord
<1> QED BY <1>2, <1>3, <1>5

\* and its own record.
LEMMA EntersClient ==
    ASSUME Ind, NEW c \in Client, NEW t \in Place, NEW r, Enters(c, t, r)
    PROVE  /\ cl'[c].cur_lobby = t /\ cl'[c].join_time = now
           /\ cl'[c].on /\ cl'[c].client_id = FreeSlot(t, r)
           /\ t \in Team => cl'[c].bursting
           /\ t \notin Team => cl'[c].bursting = cl[c].bursting
           /\ cl'[c].wait_qping = cl[c].wait_qping
<1> DEFINE q == Seated(c, t, r)
<1>1. LobbyOK(t, r) /\ r.num_clients < MaxClients(t) /\ cl[c] \in ClientRecord /\ cl[c].on
  BY DEF Enters, Ind, TypeOK
<1>2. /\ q \in ClientRecord /\ q.cur_lobby = t /\ q.client_id = FreeSlot(t, r)
      /\ q.on = cl[c].on
  BY <1>1, SeatedOK
<1>3. q.join_time = now /\ q.bursting = cl[c].bursting /\ q.wait_qping = cl[c].wait_qping
  BY <1>1 DEF Seated, ClientRecord
<1>4. cl'[c] = IF t \in Team THEN [q EXCEPT !.bursting = TRUE] ELSE q
  BY DEF Enters, Ind, TypeOK
<1> HIDE DEF q
<1> QED BY <1>1, <1>2, <1>3, <1>4 DEF ClientRecord

\* What coming in does to the other lobbies and clients.
LEMMA EntersElsewhere ==
    ASSUME Ind, NEW c \in Client, NEW t \in Place, NEW r, Enters(c, t, r),
           NEW k \in Place, k # t
    PROVE  /\ \/ k # cl[c].cur_lobby /\ lb'[k] = lb[k]
              \/ /\ k = cl[c].cur_lobby /\ k \in Default /\ MayLeave(k)
                 /\ cl[c].client_id \in Occupied(lb[k])
                 /\ lb[k].clients[cl[c].client_id] = c
                 /\ lb'[k] = WithoutClient(lb[k], cl[c].client_id)
           /\ lb'[k].bursting = lb[k].bursting /\ lb'[k].questing = lb[k].questing
<1>1. CASE k # cl[c].cur_lobby
  BY <1>1 DEF Enters
<1>2. CASE k = cl[c].cur_lobby
  <2>1. k \in Default /\ k # None /\ lb'[k] = WithoutClient(lb[k], cl[c].client_id)
        /\ MayLeave(k)
    BY <1>2, LobbyConstants DEF Enters, Place
  <2>2. cl[c].client_id \in Occupied(lb[k]) /\ lb[k].clients[cl[c].client_id] = c
    BY <1>2, <2>1, MemberSlot
  <2>3. lb'[k].bursting = lb[k].bursting /\ lb'[k].questing = lb[k].questing
    BY <2>1, IndLobbyOK, WithoutClientFields
  <2> QED BY <1>2, <2>1, <2>2, <2>3
<1> QED BY <1>1, <1>2

\* Who enters changes nobody else.
LEMMA EntersOthers ==
    ASSUME Ind, NEW c \in Client, NEW t \in Place, NEW r, Enters(c, t, r),
           NEW d \in Client, d # c
    PROVE  cl'[d] = cl[d]
BY DEF Enters, Ind, TypeOK

\* Going: the same for lobby_remove_player.  u is the lobby without its burst.
LEMMA LeavesEffect ==
    ASSUME Ind, NEW c \in Client, NEW r, Leaves(c, r)
    PROVE  LET l == cl[c].cur_lobby
               i == cl[c].client_id
               u == Unburst(l, c)
           IN  /\ l \in Place /\ i \in Occupied(lb[l]) /\ lb[l].clients[i] = c
               /\ MayLeave(l)
               /\ \/ Frees(l) /\ Occupied(lb[l]) = {i} /\ lb'[l] = NoTeam(l)
                  \/ ~Frees(l) /\ lb'[l] = WithoutClient(u, i)
               /\ \A j \in Slot(l) : lb'[l].clients[j] = IF j = i THEN None ELSE lb[l].clients[j]
               /\ lb'[l].bursting => lb[l].bursting /\ ~cl[c].bursting
               /\ ~Frees(l) /\ lb[l].bursting /\ ~cl[c].bursting => lb'[l].bursting
               /\ lb'[l].questing => lb[l].questing
               /\ \A k \in Place \ {l} : lb'[k] = lb[k]
               /\ cl'[c] = r /\ \A d \in Client \ {c} : cl'[d] = cl[d]
               /\ now' = now
<1> DEFINE l == cl[c].cur_lobby
           i == cl[c].client_id
           u == Unburst(l, c)
<1>1. l \in Place /\ i \in Occupied(lb[l]) /\ lb[l].clients[i] = c
  BY MemberSlot DEF Leaves
<1>2. /\ MayLeave(l)
      /\ cl' = [cl EXCEPT ![c] = r]
      /\ lb' = [lb EXCEPT ![l] = IF Frees(l) THEN NoTeam(l) ELSE WithoutClient(u, i)]
      /\ now' = now
  BY DEF Leaves, RemovePlayer
<1>3. /\ \A k \in Place \ {l} : lb'[k] = lb[k]
      /\ cl'[c] = r /\ \A d \in Client \ {c} : cl'[d] = cl[d]
      /\ lb'[l] = IF Frees(l) THEN NoTeam(l) ELSE WithoutClient(u, i)
  BY <1>1, <1>2 DEF Ind, TypeOK
<1>4. Frees(l) => Occupied(lb[l]) = {i}
  BY <1>1, IndLobbyOK, OnlyMember DEF Frees
<1>5. /\ LobbyOK(l, u) /\ u.clients = lb[l].clients /\ u.questing = lb[l].questing
      /\ u.bursting = (lb[l].bursting /\ ~cl[c].bursting)
      /\ lb[l].clients \in [Slot(l) -> Client \cup {None}]
  BY <1>1, UnburstOK DEF LobbyOK, LobbyRecord
<1>6. /\ \A j \in Slot(l) : lb'[l].clients[j] = IF j = i THEN None ELSE lb[l].clients[j]
      /\ lb'[l].bursting => lb[l].bursting /\ ~cl[c].bursting
      /\ ~Frees(l) /\ lb[l].bursting /\ ~cl[c].bursting => lb'[l].bursting
      /\ lb'[l].questing => lb[l].questing
  <2>1. CASE Frees(l)
    <3>1. \A j \in Slot(l) : j # i => lb[l].clients[j] = None
      BY <1>4, <1>5, <2>1 DEF Occupied
    <3>2. /\ lb'[l].clients = [j \in Slot(l) |-> None]
          /\ ~lb'[l].bursting /\ ~lb'[l].questing
      BY <1>3, <2>1 DEF NoTeam, EmptyLobby
    <3> QED BY <2>1, <3>1, <3>2
  <2>2. CASE ~Frees(l)
    <3>1. lb'[l].bursting = u.bursting /\ lb'[l].questing = u.questing
      BY <1>1, <1>3, <1>5, <2>2, WithoutClientFields
    <3>2. lb'[l].clients = [u.clients EXCEPT ![i] = None]
      BY <1>1, <1>3, <1>5, <2>2, LeavingOK DEF Leaves
    <3> HIDE DEF u
    <3> QED BY <1>5, <2>2, <3>1, <3>2
  <2> QED BY <2>1, <2>2
<1> QED BY <1>1, <1>2, <1>3, <1>4, <1>6

-----------------------------------------------------------------------------
\* Leaders

\* Who leads l, and stays, goes on leading it.
KeepsLeader(l) ==
    LET i == lb[l].leader_id
    IN  i \in Occupied(lb[l]) /\ lb'[l].clients[i] = lb[l].clients[i] => lb'[l].leader_id = i

\* A lobby that somebody is taken out of, by a record r that has its clients and its leader.
LEMMA WithoutKeepsLeader ==
    ASSUME NEW l \in Place, NEW r, LobbyOK(l, r), NEW i \in Occupied(r),
           r.clients = lb[l].clients, r.leader_id = lb[l].leader_id,
           lb'[l] = WithoutClient(r, i),
           lb'[l].clients[i] = None
    PROVE  KeepsLeader(l)
<1>1. i # lb[l].leader_id => lb'[l].leader_id = lb[l].leader_id
  BY WithoutClientFields DEF NeedsElection
<1>2. i = lb[l].leader_id => lb'[l].clients[i] # lb[l].clients[i]
  BY DEF Occupied
<1> QED BY <1>1, <1>2 DEF KeepsLeader

\* An arrival makes no new leader.
LEMMA EntersKeepsLeader ==
    ASSUME Ind, NEW c \in Client, NEW t \in Place, NEW r, Enters(c, t, r), NEW l \in Place
    PROVE  KeepsLeader(l)
<1>1. CASE l = t
  <2>1. LobbyOK(t, r) /\ r.clients = lb[t].clients
    BY DEF Enters
  <2>2. CASE r = lb[t]
    <3>1. r.num_clients = 0 => Occupied(lb[t]) = {}
      <4>1. IsFiniteSet(Occupied(r))
        <5>1. Occupied(r) \in SUBSET Slot(t)
          BY <2>1 DEF LobbyOK, LobbyRecord, Occupied
        <5> QED BY <5>1, SlotFinite, FS_Subset
      <4> QED BY <2>1, <2>2, <4>1, FS_EmptySet DEF LobbyOK
    <3>2. r.num_clients # 0 => lb'[t].leader_id = r.leader_id
      BY EntersFields
    <3> QED BY <1>1, <2>2, <3>1, <3>2 DEF KeepsLeader
  <2>3. CASE t \in Team /\ ~lb[t].live
    BY <1>1, <2>3 DEF Ind, TeamsAccounted, KeepsLeader
  <2> QED BY <2>2, <2>3 DEF Enters
<1>2. CASE l # t
  <2>1. CASE lb'[l] = lb[l]
    BY <2>1 DEF KeepsLeader
  <2>2. CASE /\ cl[c].client_id \in Occupied(lb[l])
             /\ lb'[l] = WithoutClient(lb[l], cl[c].client_id)
    <3>1. LobbyOK(l, lb[l]) /\ cl \in [Client -> ClientRecord]
      BY IndLobbyOK DEF Ind, TypeOK
    <3>2. lb'[l].clients = [lb[l].clients EXCEPT ![cl[c].client_id] = None]
      BY <2>2, <3>1, WithoutClientOK
    <3>3. lb'[l].clients[cl[c].client_id] = None
      BY <2>2, <3>2 DEF Occupied
    <3> QED BY <2>2, <3>1, <3>3, WithoutKeepsLeader
  <2> QED BY <1>2, <2>1, <2>2, EntersElsewhere
<1> QED BY <1>1, <1>2

\* A departure makes a new leader only when the leader goes.
LEMMA LeavesKeepsLeader ==
    ASSUME Ind, NEW c \in Client, NEW r, Leaves(c, r), NEW l \in Place
    PROVE  KeepsLeader(l)
<1> DEFINE i == cl[c].client_id
           u == Unburst(l, c)
<1>1. CASE l # cl[c].cur_lobby
  BY <1>1, LeavesEffect DEF KeepsLeader
<1>2. CASE l = cl[c].cur_lobby
  <2>1. /\ i \in Occupied(lb[l]) /\ Occupied(lb[l]) \subseteq Slot(l)
        /\ lb'[l].clients[i] = None
    <3>1. i \in Occupied(lb[l])
          /\ \A j \in Slot(l) : lb'[l].clients[j] = IF j = i THEN None ELSE lb[l].clients[j]
      BY <1>2, LeavesEffect
    <3>2. Occupied(lb[l]) \subseteq Slot(l)
      BY DEF Ind, TypeOK, LobbyRecord, Occupied
    <3> QED BY <3>1, <3>2
  <2>2. CASE Occupied(lb[l]) = {i}
    BY <2>1, <2>2 DEF KeepsLeader, Occupied
  <2>3. CASE lb'[l] = WithoutClient(u, i)
    <3>1. LobbyOK(l, u) /\ u.clients = lb[l].clients /\ u.leader_id = lb[l].leader_id
      BY UnburstOK
    <3> HIDE DEF u, i
    <3>2. i \in Occupied(u)
      BY <2>1, <3>1 DEF Occupied
    <3> QED BY <2>1, <2>3, <3>1, <3>2, WithoutKeepsLeader
  <2> QED BY <1>2, <2>2, <2>3, LeavesEffect
<1> QED BY <1>1, <1>2

\* Every step keeps the leaders that stay.
LEMMA StepKeepsLeader ==
    Ind /\ [Next]_vars => \A l \in Place : KeepsLeader(l)
<1> SUFFICES ASSUME Ind, [Next]_vars, NEW l \in Place PROVE KeepsLeader(l)
  OBVIOUS
<1>1. CASE lb' = lb
  BY <1>1 DEF KeepsLeader
<1>2. ASSUME NEW c \in Client, Handler(c) PROVE KeepsLeader(l)
  <2>1. CASE Stays
    BY <2>1 DEF Stays, KeepsLeader
  <2> QED BY <1>2, <2>1, StepShape, EntersKeepsLeader, LeavesKeepsLeader
<1> QED BY <1>1, <1>2 DEF Next, Tick, vars

\* Nobody takes the lead of a lobby or team from a leader who stays in it, whoever comes
\* and goes (lobby_add_client_locked, lobby_remove_client_locked).
THEOREM LeadersStay == Spec => LeaderStable
<1>1. Ind /\ [Next]_vars =>
        [\A l \in Place :
            LET i == lb[l].leader_id
            IN  /\ i \in Occupied(lb[l])
                /\ lb'[l].clients[i] = lb[l].clients[i]
                => lb'[l].leader_id = i]_vars
  BY StepKeepsLeader DEF KeepsLeader
<1> QED BY <1>1, SpecInd, PTL DEF Spec, LeaderStable

-----------------------------------------------------------------------------
\* Bursts

Loading(c, t) == cl[c].cur_lobby = t /\ cl[c].bursting

\* What keeps BurstHasItsClient and QueueWaitsForBurst true.  A client may carry its
\* BURSTING flag out of a team and into a default lobby, and WAIT_QPING with it: the
\* first half of the last conjunct is why the answer to a ping ends no other burst.
BurstInv ==
    /\ \A t \in Team : lb[t].bursting <=> \E c \in Client : Loading(c, t)
    /\ \A t \in Team : \A c, d \in Client : Loading(c, t) /\ Loading(d, t) => c = d
    /\ \A l \in Place : pkt_queue[l] # <<>> => lb[l].bursting
    /\ \A c \in Client : cl[c].wait_qping => cl[c].bursting
    /\ \A l \in Default : ~lb[l].bursting

\* No burst begins or ends, and no packet is held back without one.
BurstQuiet ==
    /\ \A c \in Client :
          /\ cl'[c].cur_lobby = cl[c].cur_lobby
          /\ cl[c].cur_lobby # None => cl'[c].bursting = cl[c].bursting
          /\ cl'[c].wait_qping => cl'[c].bursting
    /\ \A l \in Place : lb'[l].bursting = lb[l].bursting
    /\ \A l \in Place : pkt_queue'[l] # <<>> => pkt_queue[l] # <<>> \/ lb[l].bursting

\* A step that has to do with no burst keeps the invariant.
LEMMA BurstQuietKeeps ==
    ASSUME BurstInv, BurstQuiet PROVE BurstInv'
<1>1. \A t \in Team : \A c \in Client : Loading(c, t)' <=> Loading(c, t)
  BY LobbyConstants DEF BurstQuiet, Loading, Place
<1>2. \A l \in Place : lb'[l].bursting = lb[l].bursting
  BY DEF BurstQuiet
<1>3. /\ \A t \in Team : lb'[t].bursting <=> \E c \in Client : Loading(c, t)'
      /\ \A t \in Team : \A c, d \in Client : Loading(c, t)' /\ Loading(d, t)' => c = d
      /\ \A l \in Default : ~lb'[l].bursting
  BY <1>1, <1>2 DEF BurstInv, Place
<1>4. \A l \in Place : pkt_queue'[l] # <<>> => lb'[l].bursting
  BY <1>2 DEF BurstInv, BurstQuiet
<1>5. \A c \in Client : cl'[c].wait_qping => cl'[c].bursting
  BY DEF BurstQuiet
<1> QED BY <1>3, <1>4, <1>5 DEF BurstInv

\* The queue of the lobby whose burst is over is empty, and what was in it is held
\* back again only where another burst is going on.
LEMMA DrainedWaits ==
    ASSUME BurstInv, NEW l \in Place, NEW n
    PROVE  /\ Drained(l, n)[l] = <<>>
           /\ \A k \in Place \ {l} : Drained(l, n)[k] # <<>> => lb[k].bursting
<1>1. Drained(l, n)[l] = <<>>
  BY DEF Drained
<1>2. ASSUME NEW k \in Place \ {l}, ~lb[k].bursting PROVE Drained(l, n)[k] = <<>>
  <2>1. Drained(l, n)[k] = pkt_queue[k]
    BY <1>2 DEF Drained
  <2> QED BY <1>2, <2>1 DEF BurstInv
<1> QED BY <1>1, <1>2

\* lobby_handle_done_burst, for a client that has answered or loaded.
LEMMA BurstEndKeeps ==
    ASSUME Ind, BurstInv, NEW c \in Client, cl[c].cur_lobby \in Place, cl[c].bursting,
           ~cl'[c].bursting, ~cl'[c].wait_qping,
           cl'[c].cur_lobby = cl[c].cur_lobby,
           \A d \in Client \ {c} : cl'[d] = cl[d],
           ~lb'[cl[c].cur_lobby].bursting,
           \A k \in Place \ {cl[c].cur_lobby} : lb'[k] = lb[k],
           \E n : pkt_queue' = Drained(cl[c].cur_lobby, n)
    PROVE  BurstInv'
<1> DEFINE l == cl[c].cur_lobby
<1>1. \A t \in Team : \A d \in Client : Loading(d, t)' <=> Loading(d, t) /\ d # c
  BY DEF Loading
<1>2. ASSUME NEW t \in Team PROVE lb'[t].bursting <=> \E d \in Client : Loading(d, t)'
  <2>1. CASE t = l
    BY <1>1, <2>1 DEF BurstInv, Loading
  <2>2. CASE t # l
    <3>1. lb'[t].bursting = lb[t].bursting
      BY <2>2 DEF Place
    <3>2. ~Loading(c, t)
      BY <2>2 DEF Loading
    <3> QED BY <1>1, <3>1, <3>2 DEF BurstInv
  <2> QED BY <2>1, <2>2
<1>3. \A t \in Team : \A d, e \in Client : Loading(d, t)' /\ Loading(e, t)' => d = e
  BY <1>1 DEF BurstInv
<1>4. \A k \in Place : pkt_queue'[k] # <<>> => lb'[k].bursting
  BY DrainedWaits
<1>5. \A d \in Client : cl'[d].wait_qping => cl'[d].bursting
  BY DEF BurstInv
<1>6. \A k \in Default : ~lb'[k].bursting
  BY DEF BurstInv, Place
<1> QED BY <1>2, <1>3, <1>4, <1>5, <1>6 DEF BurstInv

\* lobby_add_client_locked and lobby_change_lobby: the team has no burst yet, or no
\* member at all.
LEMMA EntersKeepsBurst ==
    ASSUME Ind, BurstInv, NEW c \in Client, NEW t \in Place, NEW r, Enters(c, t, r)
    PROVE  BurstInv'
<1>1. /\ cl'[c].cur_lobby = t
      /\ t \in Team => cl'[c].bursting /\ lb'[t].bursting
      /\ t \notin Team => cl'[c].bursting = cl[c].bursting /\ lb'[t].bursting = r.bursting
      /\ cl'[c].wait_qping = cl[c].wait_qping
  BY EntersClient, EntersFields
<1>2. \A d \in Client : d # c => cl'[d] = cl[d]
  BY EntersOthers
<1>3. \A k \in Place : k # t => lb'[k].bursting = lb[k].bursting
  BY EntersElsewhere
<1>4. t \in Team => \A d \in Client : ~Loading(d, t)
  <2>1. ASSUME t \in Team, ~lb[t].bursting PROVE \A d \in Client : ~Loading(d, t)
    BY <2>1 DEF BurstInv
  <2>2. ASSUME t \in Team, ~lb[t].live PROVE \A d \in Client : ~Loading(d, t)
    <3>1. Occupied(lb[t]) = {} /\ t # None
      BY <2>2, LobbyConstants DEF Ind, TeamsAccounted, Place
    <3> QED BY <3>1, MemberSlot DEF Loading
  <2> QED BY <2>1, <2>2 DEF Enters
<1>5. ASSUME NEW k \in Team, NEW d \in Client
      PROVE  Loading(d, k)' <=> (k = t /\ d = c) \/ (k # t /\ Loading(d, k))
  <2>1. CASE d = c
    <3>1. cl[c].cur_lobby # k
      BY DEF Enters
    <3> QED BY <1>1, <2>1, <3>1 DEF Loading
  <2>2. CASE d # c
    <3>1. Loading(d, k)' <=> Loading(d, k)
      BY <1>2, <2>2 DEF Loading
    <3> QED BY <1>4, <2>2, <3>1
  <2> QED BY <2>1, <2>2
<1>6. ASSUME NEW k \in Team PROVE lb'[k].bursting <=> \E d \in Client : Loading(d, k)'
  <2>1. CASE k = t
    BY <1>1, <1>5, <2>1
  <2>2. CASE k # t
    BY <1>3, <1>5, <2>2 DEF BurstInv, Place
  <2> QED BY <2>1, <2>2
<1>7. \A k \in Team : \A d, e \in Client : Loading(d, k)' /\ Loading(e, k)' => d = e
  BY <1>5 DEF BurstInv
<1>8. t \notin Team => r.bursting = lb[t].bursting
  BY DEF Enters
<1>9. \A k \in Place : lb[k].bursting => lb'[k].bursting
  BY <1>1, <1>3, <1>8
<1>10. \A k \in Place : pkt_queue'[k] # <<>> => lb'[k].bursting
  BY <1>9 DEF BurstInv, Enters
<1>11. \A d \in Client : cl'[d].wait_qping => cl'[d].bursting
  BY <1>1, <1>2 DEF BurstInv, Enters
<1>12. \A k \in Default : ~lb'[k].bursting
  BY <1>1, <1>3, <1>8, LobbyConstants DEF BurstInv, Place
<1> QED BY <1>6, <1>7, <1>10, <1>11, <1>12 DEF BurstInv

\* lobby_remove_player: a burst of the client's own is over, any other goes on, and a
\* team that is freed has no other member that could be in one.
LEMMA LeavesKeepsBurst ==
    ASSUME Ind, BurstInv, NEW c \in Client, NEW r, Leaves(c, r)
    PROVE  BurstInv'
<1> DEFINE l == cl[c].cur_lobby
           i == cl[c].client_id
<1>1. /\ l \in Place
      /\ Frees(l) => Occupied(lb[l]) = {i} /\ lb'[l] = NoTeam(l)
      /\ lb[l].clients[i] = c
      /\ lb'[l].bursting => lb[l].bursting /\ ~cl[c].bursting
      /\ ~Frees(l) /\ lb[l].bursting /\ ~cl[c].bursting => lb'[l].bursting
      /\ \A k \in Place \ {l} : lb'[k] = lb[k]
      /\ cl'[c] = r /\ \A d \in Client \ {c} : cl'[d] = cl[d]
  BY LeavesEffect
<1>2. /\ r.cur_lobby = None
      /\ r.wait_qping => r.bursting
  BY DEF Leaves, BurstInv, Loggedout
<1>3. /\ \/ cl[c].bursting /\ \E n : pkt_queue' = Drained(l, n)
         \/ ~cl[c].bursting /\ pkt_queue' = [pkt_queue EXCEPT ![l] = IF Frees(l) THEN <<>> ELSE @]
      /\ DOMAIN pkt_queue = Place
  <2>1. RemovePlayer(c, r) /\ DOMAIN pkt_queue = Place
    BY DEF Leaves, Ind, TypeOK
  <2>2. CASE cl[c].bursting
    <3>1. \E n : pkt_queue' = Drained(l, n)
      BY <2>1, <2>2 DEF RemovePlayer
    <3> QED BY <2>1, <2>2, <3>1
  <2>3. CASE ~cl[c].bursting
    <3>1. pkt_queue' = [pkt_queue EXCEPT ![l] = IF Frees(l) THEN <<>> ELSE @]
      BY <2>1, <2>3 DEF RemovePlayer
    <3> QED BY <2>1, <2>3, <3>1
  <2> HIDE DEF l
  <2> QED BY <2>2, <2>3
<1>4. \A t \in Team : \A d \in Client : Loading(d, t)' <=> Loading(d, t) /\ d # c
  BY <1>1, <1>2, LobbyConstants DEF Loading, Place
<1>5. ASSUME NEW t \in Team PROVE lb'[t].bursting <=> \E d \in Client : Loading(d, t)'
  <2>1. CASE t # l
    <3>1. lb'[t].bursting = lb[t].bursting /\ ~Loading(c, t)
      BY <1>1, <2>1 DEF Place, Loading
    <3> QED BY <1>4, <3>1 DEF BurstInv
  <2>2. CASE t = l /\ Frees(l)
    <3>1. ASSUME NEW d \in Client, Loading(d, t) PROVE d = c
      BY <1>1, <2>2, <3>1, MemberSlot, LobbyConstants DEF Loading, Place
    <3>2. ~lb'[t].bursting
      BY <1>1, <2>2 DEF NoTeam, EmptyLobby
    <3> QED BY <1>4, <3>1, <3>2
  <2>3. CASE t = l /\ ~Frees(l) /\ cl[c].bursting
    <3>1. Loading(c, t)
      BY <2>3 DEF Loading
    <3> QED BY <1>1, <1>4, <2>3, <3>1 DEF BurstInv
  <2>4. CASE t = l /\ ~Frees(l) /\ ~cl[c].bursting
    <3>1. ~Loading(c, t)
      BY <2>4 DEF Loading
    <3> QED BY <1>1, <1>4, <2>4, <3>1 DEF BurstInv
  <2> QED BY <2>1, <2>2, <2>3, <2>4
<1>6. \A k \in Team : \A d, e \in Client : Loading(d, k)' /\ Loading(e, k)' => d = e
  BY <1>4 DEF BurstInv
<1>7. \A k \in Place : pkt_queue'[k] # <<>> => lb'[k].bursting
  <2>1. CASE cl[c].bursting
    <3>1. PICK n : pkt_queue' = Drained(l, n)
      BY <1>3, <2>1
    <3>2. /\ pkt_queue'[l] = <<>>
          /\ \A k \in Place \ {l} : pkt_queue'[k] # <<>> => lb[k].bursting
      BY <1>1, <3>1, DrainedWaits
    <3> HIDE DEF l
    <3> QED BY <1>1, <3>2
  <2> HIDE DEF l
  <2>2. CASE ~cl[c].bursting
    <3>1. /\ \A k \in Place \ {l} : pkt_queue'[k] = pkt_queue[k]
          /\ pkt_queue'[l] = IF Frees(l) THEN <<>> ELSE pkt_queue[l]
      BY <1>1, <1>3, <2>2
    <3>2. ASSUME NEW k \in Place, pkt_queue'[k] # <<>> PROVE lb'[k].bursting
      <4>1. CASE k = l
        BY <1>1, <2>2, <3>1, <3>2, <4>1 DEF BurstInv
      <4>2. CASE k # l
        BY <1>1, <3>1, <3>2, <4>2 DEF BurstInv
      <4> QED BY <4>1, <4>2
    <3> QED BY <3>2
  <2> QED BY <2>1, <2>2
<1>8. \A d \in Client : cl'[d].wait_qping => cl'[d].bursting
  BY <1>1, <1>2 DEF BurstInv
<1>9. \A k \in Default : ~lb'[k].bursting
  BY <1>1 DEF BurstInv, Place
<1> QED BY <1>5, <1>6, <1>7, <1>8, <1>9 DEF BurstInv

\* The rest of the handlers, and the clock.
LEMMA FlagsKeepBurst ==
    ASSUME Ind, BurstInv, NEW c \in Client, pkt_queue' = pkt_queue,
           NEW b \in BOOLEAN, NEW l, lb' = lb \/ l \in Place,
           \/ cl' = cl
           \/ cl' = [cl EXCEPT ![c].on = b]
           \/ cl' = [cl EXCEPT ![c].selecting = b]
           \/ cl[c].bursting /\ cl' = [cl EXCEPT ![c].wait_qping = b]
           \/ cl[c].cur_lobby = None /\ cl' = [cl EXCEPT ![c] = Loggedout],
           \/ lb' = lb
           \/ lb' = [lb EXCEPT ![l].questsel = b]
           \/ lb' = [lb EXCEPT ![l].gc_allowed = b]
    PROVE  BurstInv'
<1>1. /\ cl \in [Client -> ClientRecord]
      /\ DOMAIN lb = Place /\ (l \in Place => lb[l] \in LobbyRecord(l))
  BY DEF Ind, TypeOK
<1>2. \A d \in Client \ {c} : cl'[d] = cl[d]
  BY <1>1
<1>3. /\ cl'[c].cur_lobby = cl[c].cur_lobby
      /\ cl[c].cur_lobby # None => cl'[c].bursting = cl[c].bursting
      /\ cl'[c].wait_qping => cl'[c].bursting
  <2>1. cl[c].wait_qping => cl[c].bursting
    BY DEF BurstInv
  <2>2. CASE \/ cl' = cl
             \/ cl' = [cl EXCEPT ![c].on = b]
             \/ cl' = [cl EXCEPT ![c].selecting = b]
             \/ cl[c].bursting /\ cl' = [cl EXCEPT ![c].wait_qping = b]
    BY <1>1, <2>1, <2>2 DEF ClientRecord
  <2>3. CASE cl[c].cur_lobby = None /\ cl' = [cl EXCEPT ![c] = Loggedout]
    BY <1>1, <2>3 DEF Loggedout
  <2> QED BY <2>2, <2>3
<1>4. \A k \in Place : lb'[k].bursting = lb[k].bursting
  BY <1>1 DEF LobbyRecord
<1>5. BurstQuiet
  BY <1>2, <1>3, <1>4 DEF BurstQuiet, BurstInv
<1> QED BY <1>5, BurstQuietKeeps

\* So does time.
LEMMA TickKeepsBurst ==
    ASSUME Ind, BurstInv, Tick PROVE BurstInv'
<1>1. ASSUME NEW c \in Client
      PROVE  /\ cl'[c].cur_lobby = cl[c].cur_lobby /\ cl'[c].bursting = cl[c].bursting
             /\ cl'[c].wait_qping = cl[c].wait_qping
  BY DEF Tick, Ind, TypeOK, ClientRecord
<1>2. lb' = lb /\ pkt_queue' = pkt_queue
  BY DEF Tick, queues
<1>3. BurstQuiet
  BY <1>1, <1>2 DEF BurstQuiet, BurstInv
<1> QED BY <1>3, BurstQuietKeeps

\* So does every handler.
LEMMA StepKeepsBurst ==
    ASSUME Ind, BurstInv, NEW c \in Client, Handler(c) PROVE BurstInv'
<1> DEFINE l == cl[c].cur_lobby
<1>1. /\ cl \in [Client -> ClientRecord] /\ DOMAIN lb = Place /\ DOMAIN pkt_queue = Place
      /\ \A k \in Place : lb[k] \in LobbyRecord(k)
  BY DEF Ind, TypeOK
<1>2. InTeam(c) => l \in Place
  BY InTeamPlace
<1>3. CASE Login(c)
  <2>1. cl' = [cl EXCEPT ![c].on = TRUE] /\ lb' = lb /\ pkt_queue' = pkt_queue
    BY <1>3 DEF Login, queues
  <2> QED BY <2>1, FlagsKeepBurst
<1>4. ASSUME NEW d \in Default, EnterLobby(c, d) PROVE BurstInv'
  BY <1>4, EnterLobbyEnters, EntersKeepsBurst
<1>5. ASSUME NEW d \in Default, ChangeLobby(c, d) PROVE BurstInv'
  BY <1>5, ChangeLobbyEnters, EntersKeepsBurst DEF Place
<1>6. ASSUME NEW t \in Team, CreateTeam(c, t) PROVE BurstInv'
  BY <1>6, CreateTeamEnters, EntersKeepsBurst DEF Place
<1>7. ASSUME NEW t \in Team, JoinTeam(c, t) PROVE BurstInv'
  BY <1>7, JoinTeamEnters, EntersKeepsBurst DEF Place
<1>8. CASE LeaveTeam(c)
  BY <1>8, LeaveTeamLeaves, LeavesKeepsBurst
<1>9. CASE Disconnect(c)
  <2>1. CASE l = None
    <3>1. cl' = [cl EXCEPT ![c] = Loggedout] /\ lb' = lb /\ pkt_queue' = pkt_queue
      BY <1>9, <2>1 DEF Disconnect, Forget, queues
    <3> QED BY <2>1, <3>1, FlagsKeepBurst
  <2>2. CASE l # None
    BY <1>9, <2>2, DisconnectLeaves, LeavesKeepsBurst
  <2> QED BY <2>1, <2>2
<1>10. CASE DoneBurst(c)
  <2>1. CASE lb[l].questing
    <3>1. /\ cl[c].bursting /\ cl' = [cl EXCEPT ![c].wait_qping = TRUE]
          /\ lb' = lb /\ pkt_queue' = pkt_queue
      BY <1>10, <2>1 DEF DoneBurst
    <3> QED BY <3>1, FlagsKeepBurst
  <2>2. CASE ~lb[l].questing
    <3>1. /\ l \in Place /\ cl[c].bursting /\ ~cl[c].wait_qping
          /\ cl' = [cl EXCEPT ![c].bursting = FALSE]
          /\ lb' = [lb EXCEPT ![l].bursting = FALSE]
          /\ \E n : pkt_queue' = Drained(l, n)
      BY <1>2, <1>10, <2>2 DEF DoneBurst
    <3>2. /\ ~cl'[c].bursting /\ ~cl'[c].wait_qping /\ cl'[c].cur_lobby = l
          /\ \A d \in Client \ {c} : cl'[d] = cl[d]
      BY <1>1, <3>1 DEF ClientRecord
    <3>3. ~lb'[l].bursting /\ \A k \in Place \ {l} : lb'[k] = lb[k]
      BY <1>1, <3>1 DEF LobbyRecord
    <3> QED BY <3>1, <3>2, <3>3, BurstEndKeeps
  <2> QED BY <2>1, <2>2
<1>11. CASE PingReply(c)
  <2>1. CASE l = None
    <3>1. cl' = [cl EXCEPT ![c] = Loggedout] /\ lb' = lb /\ pkt_queue' = pkt_queue
      BY <1>11, <2>1 DEF PingReply, Forget, queues
    <3> QED BY <2>1, <3>1, FlagsKeepBurst
  <2>2. CASE l # None
    <3>1. /\ l \in Place /\ cl[c].bursting
          /\ cl' = [cl EXCEPT ![c].bursting = FALSE, ![c].wait_qping = FALSE]
          /\ lb' = [lb EXCEPT ![l].bursting = FALSE]
          /\ \E n : pkt_queue' = Drained(l, n)
      BY <1>11, <2>2, MemberSlot DEF PingReply, BurstInv
    <3>2. /\ ~cl'[c].bursting /\ ~cl'[c].wait_qping /\ cl'[c].cur_lobby = l
          /\ \A d \in Client \ {c} : cl'[d] = cl[d]
      BY <1>1, <3>1 DEF ClientRecord
    <3>3. ~lb'[l].bursting /\ \A k \in Place \ {l} : lb'[k] = lb[k]
      BY <1>1, <3>1 DEF LobbyRecord
    <3> QED BY <3>1, <3>2, <3>3, BurstEndKeeps
  <2> QED BY <2>1, <2>2
<1>12. CASE SendGamePacket(c)
  <2>1. /\ cl' = cl /\ lb' = lb /\ l \in Place /\ lb[l].bursting
        /\ pkt_queue' = [pkt_queue EXCEPT ![l] = Append(@, c)]
    BY <1>2, <1>12 DEF SendGamePacket
  <2>2. BurstQuiet
    BY <1>1, <2>1 DEF BurstQuiet, BurstInv
  <2> QED BY <2>2, BurstQuietKeeps
<1>13. ASSUME NEW d \in Client, SendBurst(c, d) PROVE BurstInv'
  BY <1>2, <1>13, FlagsKeepBurst DEF SendBurst
<1>14. CASE OpenQuestList(c)
  BY <1>2, <1>14, FlagsKeepBurst DEF OpenQuestList, queues
<1>15. CASE CloseQuestList(c)
  BY <1>2, <1>15, FlagsKeepBurst DEF CloseQuestList, queues
<1>16. ASSUME NEW q \in Quest, PickQuest(c, q) PROVE BurstInv'
  <2> DEFINE M == Members(l)
  <2>1. pkt_queue' = pkt_queue /\ l \in Place
    BY <1>2, <1>16 DEF PickQuest, queues
  <2>2. \A k \in Place : lb'[k].bursting = lb[k].bursting
    <3>1. \A k \in Place \ {l} : lb'[k] = lb[k]
      BY <1>1, <1>16 DEF PickQuest
    <3> DEFINE j == lb[l].joinable \/ q \in Joinable
    <3>2. \/ lb' = [lb EXCEPT ![l].questsel = FALSE]
          \/ lb' = [lb EXCEPT ![l].questsel = FALSE, ![l].questing = TRUE,
                             ![l].joinable = j]
      BY <1>1, <1>16, <2>1 DEF PickQuest, LobbyRecord
    <3> HIDE DEF j
    <3>3. lb'[l].bursting = lb[l].bursting
      BY <1>1, <2>1, <3>2 DEF LobbyRecord
    <3> QED BY <3>1, <3>3
  <2>3. \/ cl' = [cl EXCEPT ![c].selecting = FALSE]
        \/ cl' = [d \in Client |-> IF d \in M THEN [cl[d] EXCEPT !.selecting = FALSE]
                                   ELSE cl[d]]
    BY <1>16 DEF PickQuest
  <2> HIDE DEF M
  <2>4. ASSUME NEW d \in Client
        PROVE  /\ cl'[d].cur_lobby = cl[d].cur_lobby /\ cl'[d].bursting = cl[d].bursting
               /\ cl'[d].wait_qping = cl[d].wait_qping
    BY <1>1, <2>3 DEF ClientRecord
  <2>5. BurstQuiet
    BY <2>1, <2>2, <2>4 DEF BurstQuiet, BurstInv
  <2> QED BY <2>5, BurstQuietKeeps
<1>17. ASSUME NEW a \in BOOLEAN, AllowGC(c, a) PROVE BurstInv'
  BY <1>2, <1>17, FlagsKeepBurst DEF AllowGC, queues
<1> QED BY <1>3, <1>4, <1>5, <1>6, <1>7, <1>8, <1>9, <1>10, <1>11, <1>12, <1>13,
           <1>14, <1>15, <1>16, <1>17 DEF Handler

\* The invariant of bursts always holds.
LEMMA SpecBurst == Spec => []BurstInv
<1>1. Init => BurstInv
  BY DEF Init, BurstInv, Loading, EmptyLobby, Loggedout, Place
<1>2. Ind /\ BurstInv /\ [Next]_vars => BurstInv'
  <2> SUFFICES ASSUME Ind, BurstInv, [Next]_vars PROVE BurstInv'
    OBVIOUS
  <2>1. CASE UNCHANGED vars
    BY <2>1 DEF vars, BurstInv, Loading
  <2> QED BY <2>1, TickKeepsBurst, StepKeepsBurst DEF Next
<1> QED BY <1>1, <1>2, SpecInd, PTL DEF Spec

\* A team is closed for a burst exactly while one client in it, and only one, is loading
\* it, whichever of the handlers that set and clear the two flags ran in between.
THEOREM OneBurstOneClient == Spec => []BurstHasItsClient
<1>1. Ind /\ BurstInv => BurstHasItsClient
  <2> SUFFICES ASSUME Ind, BurstInv, NEW t \in Team
               PROVE  LET loading == {c \in Members(t) : cl[c].bursting}
                      IN  /\ lb[t].bursting <=> loading # {}
                          /\ Cardinality(loading) <= 1
    BY DEF BurstHasItsClient
  <2> DEFINE loading == {c \in Members(t) : cl[c].bursting}
  <2>1. loading = {c \in Client : Loading(c, t)}
    BY MembersAre DEF Loading, Place
  <2>2. lb[t].bursting <=> loading # {}
    BY <2>1 DEF BurstInv
  <2>3. Cardinality(loading) <= 1
    <3>1. CASE loading = {}
      BY <3>1, FS_EmptySet
    <3>2. CASE loading # {}
      <4>1. PICK c \in Client : Loading(c, t)
        BY <2>1, <3>2
      <4>2. loading = {c}
        BY <2>1, <4>1 DEF BurstInv
      <4> HIDE DEF loading
      <4> QED BY <4>2, FS_Singleton
    <3> QED BY <3>1, <3>2
  <2> QED BY <2>2, <2>3
<1> QED BY <1>1, SpecInd, SpecBurst, PTL

\* A packet is held back only while there is a burst to wait for, by whichever way that
\* burst ends (dc_process_done_burst, the answer to the quest ping, a departure).
THEOREM NoQueueWithoutBurst == Spec => []QueueWaitsForBurst
<1>1. BurstInv => QueueWaitsForBurst
  BY DEF BurstInv, QueueWaitsForBurst
<1> QED BY <1>1, SpecBurst, PTL

-----------------------------------------------------------------------------
\* Quests

\* A quest is started by the menu handler alone, and never in a team that anybody is
\* still loading: each member is there to get the files (lobby_setup_quest).
THEOREM QuestsReachAll == Spec => QuestReachesAll
<1>1. ASSUME Ind, BurstInv, [Next]_vars,
             NEW t \in Team, ~lb[t].questing, lb'[t].questing,
             NEW c \in Members(t)
      PROVE  ~cl[c].bursting
  <2>1. t \in Place /\ c \in Client /\ cl[c].cur_lobby = t
    BY <1>1, MembersAre DEF Place
  <2>2. ASSUME NEW d \in Client, Handler(d) PROVE ~lb[t].bursting
    <3>1. CASE Stays
      BY <1>1, <2>1, <3>1 DEF Stays, Place
    <3>2. ASSUME NEW k \in Place, NEW r, Enters(d, k, r) PROVE FALSE
      <4>1. CASE k # t
        BY <1>1, <2>1, <3>2, <4>1, EntersElsewhere
      <4>2. CASE k = t /\ r = lb[t]
        BY <1>1, <3>2, <4>2, EntersFields
      <4>3. CASE k = t /\ r = NewTeam(t, d)
        <5>1. ~NewTeam(t, d).questing
          BY DEF NewTeam, NoTeam, EmptyLobby
        <5> QED BY <1>1, <3>2, <4>3, <5>1, EntersFields
      <4> QED BY <3>2, <4>1, <4>2, <4>3 DEF Enters
    <3>3. ASSUME NEW r, Leaves(d, r) PROVE FALSE
      BY <1>1, <2>1, <3>3, LeavesEffect
    <3> QED BY <1>1, <2>2, <3>1, <3>2, <3>3, StepShape
  <2>3. CASE lb' = lb
    BY <1>1, <2>3
  <2>4. ~lb[t].bursting
    BY <1>1, <2>2, <2>3 DEF Next, Tick, vars
  <2> QED BY <1>1, <2>1, <2>4 DEF BurstInv, Loading
<1>2. Ind /\ BurstInv /\ [Next]_vars =>
        [\A t \in Team : ~lb[t].questing /\ lb'[t].questing =>
             \A c \in Members(t) : ~cl[c].bursting]_vars
  BY <1>1
<1> QED BY <1>2, SpecInd, SpecBurst, PTL DEF Spec, QuestReachesAll

-----------------------------------------------------------------------------
\* Elections.  With SameSecond FALSE, nobody leaves a lobby in the second in which
\* somebody joined it, and everybody who stays can be elected.

\* With join times apart every member may be elected.
LEMMA AllMayBeElected ==
    ASSUME ~SameSecond, NEW l, MayLeave(l), NEW r, r.clients = lb[l].clients
    PROVE  /\ Candidates(r) = Occupied(r) \ {r.leader_id}
           /\ PreGCCandidates(r) = {j \in Occupied(r) \ {r.leader_id} : r.clients[j] \in PreGC}
<1>1. \A j \in Occupied(r) : cl[r.clients[j]].join_time < now
  BY DEF MayLeave, Members, Occupied
<1> QED BY <1>1 DEF Candidates, PreGCCandidates

\* The leader i of a lobby leaves it, and somebody stays: r is its record, or what
\* is left of that after a burst was called off.
LEMMA LeaderSucceeded ==
    ASSUME ~SameSecond, Ind, NEW l \in Place, MayLeave(l), NEW r, LobbyOK(l, r),
           r.clients = lb[l].clients, Occupied(r) \ {r.leader_id} # {}
    PROVE  LET stay == Occupied(r) \ {r.leader_id}
               kin  == {j \in stay : r.clients[j] \in PreGC}
               pool == IF CrossPlatform(r) /\ kin # {} THEN kin ELSE stay
           IN  /\ NewLeader(r) \in pool
               /\ \A j \in pool : cl[r.clients[NewLeader(r)]].join_time
                                  <= cl[r.clients[j]].join_time
<1> DEFINE stay == Occupied(r) \ {r.leader_id}
           kin  == {j \in stay : r.clients[j] \in PreGC}
           pool == IF CrossPlatform(r) /\ kin # {} THEN kin ELSE stay
<1>1. Candidates(r) = stay /\ PreGCCandidates(r) = kin
  BY AllMayBeElected
<1>2. Electorate(r) = pool
  BY <1>1 DEF Electorate, TurnsGC
<1>3. pool \subseteq Occupied(r) /\ pool # {}
  OBVIOUS
<1>4. cl \in [Client -> ClientRecord]
  BY DEF Ind, TypeOK
<1>5. NewLeader(r) = Earliest(r, pool)
  BY <1>2, <1>3 DEF NewLeader
<1> HIDE DEF pool
<1>6. /\ NewLeader(r) \in pool
      /\ \A j \in pool : cl[r.clients[NewLeader(r)]].join_time
                         <= cl[r.clients[j]].join_time
  BY <1>3, <1>4, <1>5, EarliestIsCandidate
<1> QED BY <1>6 DEF pool

\* After a departure the leader is one of those left.
LEMMA WithoutHasLeader ==
    ASSUME ~SameSecond, Ind, NEW l \in Place, MayLeave(l), NEW r, LobbyOK(l, r),
           r.clients = lb[l].clients, r.leader_id \in Occupied(r), NEW i \in Occupied(r),
           Occupied(WithoutClient(r, i)) # {}
    PROVE  WithoutClient(r, i).leader_id \in Occupied(WithoutClient(r, i))
<1> DEFINE s == WithoutClient(r, i)
<1>1. cl \in [Client -> ClientRecord] /\ r.clients \in [Slot(l) -> Client \cup {None}]
  BY DEF Ind, TypeOK, LobbyOK, LobbyRecord
<1>2. s.clients = [r.clients EXCEPT ![i] = None]
  BY <1>1, WithoutClientOK
<1>3. Occupied(s) = Occupied(r) \ {i}
  BY <1>1, <1>2 DEF Occupied
<1>4. s.leader_id = IF i = r.leader_id THEN NewLeader(r) ELSE r.leader_id
  BY WithoutClientFields DEF NeedsElection
<1> HIDE DEF s
<1>5. CASE i # r.leader_id
  BY <1>3, <1>4, <1>5 DEF s
<1>6. CASE i = r.leader_id
  <2>1. Occupied(r) \ {r.leader_id} # {}
    BY <1>3, <1>6 DEF s
  <2>2. NewLeader(r) \in Occupied(r) \ {r.leader_id}
    BY <2>1, LeaderSucceeded
  <2> QED BY <1>3, <1>4, <1>6, <2>2 DEF s
<1> QED BY <1>5, <1>6

HasLeader(l) == Occupied(lb[l]) # {} => lb[l].leader_id \in Occupied(lb[l])

\* After an arrival there is a leader present.
LEMMA EntersHasLeader ==
    ASSUME ~SameSecond, Ind, NEW c \in Client, NEW t \in Place, NEW r, Enters(c, t, r),
           NEW l \in Place, HasLeader(l)
    PROVE  HasLeader(l)'
<1>1. CASE l = t
  <2> DEFINE i == FreeSlot(t, r)
  <2>1. /\ LobbyOK(t, r) /\ r.clients = lb[t].clients /\ c # None
        /\ lb[t].clients \in [Slot(t) -> Client \cup {None}]
    BY LobbyConstants DEF Enters, LobbyOK, LobbyRecord
  <2>2. /\ i \in Slot(t)
        /\ lb'[t].clients = [lb[t].clients EXCEPT ![i] = c]
    BY EntersSlot
  <2> HIDE DEF i
  <2>3. i \in Occupied(lb[t])' /\ Occupied(lb[t]) \subseteq Occupied(lb[t])'
    BY <2>1, <2>2 DEF Occupied
  <2>4. CASE r.num_clients = 0
    <3>1. lb'[t].leader_id = i
      BY <2>4, EntersFields DEF i
    <3> QED BY <1>1, <2>3, <3>1 DEF HasLeader
  <2>5. CASE r.num_clients # 0
    <3>1. r = lb[t]
      <4>1. NewTeam(t, c).num_clients = 0
        BY DEF NewTeam, NoTeam, EmptyLobby
      <4> QED BY <2>5, <4>1 DEF Enters
    <3>2. lb'[t].leader_id = r.leader_id
      BY <2>5, EntersFields
    <3>3. Occupied(r) # {}
      BY <2>1, <2>5, FS_EmptySet DEF LobbyOK
    <3> QED BY <1>1, <2>3, <3>1, <3>2, <3>3 DEF HasLeader
  <2> QED BY <2>4, <2>5
<1>2. CASE l # t
  <2>1. CASE lb'[l] = lb[l]
    BY <2>1 DEF HasLeader, Occupied
  <2>2. CASE /\ cl[c].client_id \in Occupied(lb[l]) /\ MayLeave(l)
             /\ lb'[l] = WithoutClient(lb[l], cl[c].client_id)
    <3>1. LobbyOK(l, lb[l]) /\ lb[l].leader_id \in Occupied(lb[l])
      BY <2>2, IndLobbyOK DEF HasLeader
    <3>2. Occupied(lb'[l]) # {} => lb'[l].leader_id \in Occupied(lb'[l])
      BY <2>2, <3>1, WithoutHasLeader
    <3> QED BY <3>2 DEF HasLeader, Occupied
  <2> QED BY <1>2, <2>1, <2>2, EntersElsewhere
<1> QED BY <1>1, <1>2

\* After a departure, in every lobby that is not empty.
LEMMA LeavesHasLeader ==
    ASSUME ~SameSecond, Ind, NEW c \in Client, NEW r, Leaves(c, r),
           NEW l \in Place, HasLeader(l)
    PROVE  HasLeader(l)'
<1> DEFINE i == cl[c].client_id
           u == Unburst(l, c)
<1>1. CASE l # cl[c].cur_lobby
  <2>1. lb'[l] = lb[l]
    BY <1>1, LeavesEffect
  <2> QED BY <2>1 DEF HasLeader, Occupied
<1>2. CASE l = cl[c].cur_lobby
  <2>1. /\ i \in Occupied(lb[l]) /\ MayLeave(l)
        /\ lb'[l] = NoTeam(l) \/ lb'[l] = WithoutClient(u, i)
    BY <1>2, LeavesEffect
  <2>2. CASE lb'[l] = NoTeam(l)
    <3>1. Occupied(lb'[l]) = {}
      BY <2>2, EmptyLobbyOK DEF NoTeam
    <3> QED BY <3>1 DEF HasLeader, Occupied
  <2>3. CASE lb'[l] = WithoutClient(u, i)
    <3>1. LobbyOK(l, u) /\ u.clients = lb[l].clients /\ u.leader_id = lb[l].leader_id
      BY UnburstOK
    <3> HIDE DEF u, i
    <3>2. i \in Occupied(u) /\ u.leader_id \in Occupied(u)
      BY <2>1, <3>1 DEF Occupied, HasLeader
    <3>3. Occupied(lb'[l]) # {} => lb'[l].leader_id \in Occupied(lb'[l])
      BY <2>1, <2>3, <3>1, <3>2, WithoutHasLeader
    <3> QED BY <3>3 DEF HasLeader, Occupied
  <2> QED BY <2>1, <2>2, <2>3
<1> QED BY <1>1, <1>2

\* As long as nobody leaves in the second in which somebody joined, every lobby and
\* team that is not empty is led by one of its members (lobby_elect_leader_locked finds
\* one, and the fallback on slot 0 is not taken).
THEOREM LeadersPresent ==
    ASSUME ~SameSecond
    PROVE  Spec => []LeaderPresent
<1>1. Init => LeaderPresent
  BY EmptyLobbyOK DEF Init, LeaderPresent
<1>2. Ind /\ LeaderPresent /\ [Next]_vars => LeaderPresent'
  <2> SUFFICES ASSUME Ind, \A k \in Place : HasLeader(k), [Next]_vars, NEW l \in Place
               PROVE  HasLeader(l)'
    BY DEF LeaderPresent, HasLeader
  <2>1. CASE lb' = lb
    BY <2>1 DEF HasLeader, Occupied
  <2>2. ASSUME NEW c \in Client, Handler(c) PROVE HasLeader(l)'
    <3>1. CASE Stays
      BY <3>1 DEF Stays, HasLeader, Occupied
    <3> QED BY <2>2, <3>1, StepShape, EntersHasLeader, LeavesHasLeader
  <2> QED BY <2>1, <2>2 DEF Next, Tick, vars
<1> QED BY <1>1, <1>2, SpecInd, PTL DEF Spec

\* The next leader of l, if the present one goes and somebody stays.
Succession(l) ==
    LET old   == lb[l].leader_id
        stay  == {i \in Occupied(lb[l]) : lb'[l].clients[i] = lb[l].clients[i]}
        kin   == {i \in stay : lb[l].clients[i] \in PreGC}
        pool  == IF CrossPlatform(lb[l]) /\ kin # {} THEN kin ELSE stay
        new   == lb'[l].leader_id
    IN  old \in Occupied(lb[l]) \ stay /\ stay # {} =>
           /\ new \in pool
           /\ \A i \in pool :
                cl[lb[l].clients[new]].join_time <= cl[lb[l].clients[i]].join_time

\* Where nobody goes nobody succeeds.
LEMMA NobodyGoes ==
    ASSUME NEW l, \A i \in Occupied(lb[l]) : lb'[l].clients[i] = lb[l].clients[i]
    PROVE  Succession(l)
BY DEF Succession

\* Where one goes the most senior of those left succeeds.
LEMMA OneGoes ==
    ASSUME ~SameSecond, Ind, NEW l \in Place, MayLeave(l), NEW r, LobbyOK(l, r),
           r.clients = lb[l].clients, r.leader_id = lb[l].leader_id,
           r.pre_gc = lb[l].pre_gc, r.gc_allowed = lb[l].gc_allowed,
           NEW i \in Occupied(r), lb'[l] = WithoutClient(r, i)
    PROVE  Succession(l)
<1> DEFINE stay == {j \in Occupied(lb[l]) : lb'[l].clients[j] = lb[l].clients[j]}
           kin  == {j \in stay : lb[l].clients[j] \in PreGC}
           pool == IF CrossPlatform(lb[l]) /\ kin # {} THEN kin ELSE stay
<1>1. cl \in [Client -> ClientRecord] /\ r.clients \in [Slot(l) -> Client \cup {None}]
  BY DEF Ind, TypeOK, LobbyOK, LobbyRecord
<1>2. lb'[l].clients = [r.clients EXCEPT ![i] = None]
  BY <1>1, WithoutClientOK
<1>3. stay = Occupied(r) \ {i} /\ Occupied(lb[l]) = Occupied(r)
  BY <1>1, <1>2 DEF Occupied
<1>4. CrossPlatform(r) = CrossPlatform(lb[l])
  BY DEF CrossPlatform
<1>5. ASSUME lb[l].leader_id \notin stay, lb[l].leader_id \in Occupied(lb[l]), stay # {}
      PROVE  /\ lb'[l].leader_id \in pool
             /\ \A j \in pool : cl[lb[l].clients[lb'[l].leader_id]].join_time
                                <= cl[lb[l].clients[j]].join_time
  <2>1. i = r.leader_id
    BY <1>3, <1>5
  <2>2. lb'[l].leader_id = NewLeader(r)
    BY <2>1, WithoutClientFields DEF NeedsElection
  <2>3. /\ NewLeader(r) \in pool
        /\ \A j \in pool : cl[r.clients[NewLeader(r)]].join_time
                           <= cl[r.clients[j]].join_time
    <3>1. Occupied(r) \ {r.leader_id} # {}
      BY <1>3, <1>5, <2>1
    <3> HIDE DEF stay
    <3> QED BY <1>3, <1>4, <2>1, <3>1, LeaderSucceeded
  <2> HIDE DEF pool
  <2> QED BY <2>2, <2>3
<1> QED BY <1>5 DEF Succession

\* Arrivals keep the succession.
LEMMA EntersSuccession ==
    ASSUME ~SameSecond, Ind, NEW c \in Client, NEW t \in Place, NEW r, Enters(c, t, r),
           NEW l \in Place
    PROVE  Succession(l)
<1>1. CASE l = t
  <2>1. /\ lb[t].clients[FreeSlot(t, r)] = None
        /\ lb'[t].clients = [lb[t].clients EXCEPT ![FreeSlot(t, r)] = c]
    BY EntersSlot
  <2>2. \A i \in Occupied(lb[t]) : lb'[t].clients[i] = lb[t].clients[i]
    BY <2>1 DEF Occupied
  <2> QED BY <1>1, <2>2, NobodyGoes
<1>2. CASE l # t
  <2>1. CASE lb'[l] = lb[l]
    BY <2>1, NobodyGoes
  <2>2. CASE /\ cl[c].client_id \in Occupied(lb[l]) /\ MayLeave(l)
             /\ lb'[l] = WithoutClient(lb[l], cl[c].client_id)
    BY <2>2, IndLobbyOK, OneGoes
  <2> QED BY <1>2, <2>1, <2>2, EntersElsewhere
<1> QED BY <1>1, <1>2

\* Departures keep the succession.
LEMMA LeavesSuccession ==
    ASSUME ~SameSecond, Ind, NEW c \in Client, NEW r, Leaves(c, r), NEW l \in Place
    PROVE  Succession(l)
<1> DEFINE i == cl[c].client_id
           u == Unburst(l, c)
<1>1. CASE l # cl[c].cur_lobby
  <2>1. lb'[l] = lb[l]
    BY <1>1, LeavesEffect
  <2> QED BY <2>1, NobodyGoes
<1>2. CASE l = cl[c].cur_lobby
  <2>1. /\ i \in Occupied(lb[l]) /\ MayLeave(l) /\ i \in Slot(l)
        /\ \/ Occupied(lb[l]) = {i}
           \/ lb'[l] = WithoutClient(u, i)
        /\ lb'[l].clients[i] = None
    <3>1. /\ i \in Occupied(lb[l]) /\ MayLeave(l)
          /\ \/ Occupied(lb[l]) = {i}
             \/ lb'[l] = WithoutClient(u, i)
          /\ \A j \in Slot(l) : lb'[l].clients[j] = IF j = i THEN None ELSE lb[l].clients[j]
      BY <1>2, LeavesEffect
    <3>2. Occupied(lb[l]) \subseteq Slot(l)
      BY DEF Ind, TypeOK, LobbyRecord, Occupied
    <3> QED BY <3>1, <3>2
  <2>2. CASE Occupied(lb[l]) = {i}
    <3>1. {j \in Occupied(lb[l]) : lb'[l].clients[j] = lb[l].clients[j]} = {}
      BY <2>1, <2>2 DEF Occupied
    <3> QED BY <3>1 DEF Succession
  <2>3. CASE lb'[l] = WithoutClient(u, i)
    <3>1. /\ LobbyOK(l, u) /\ u.clients = lb[l].clients /\ u.leader_id = lb[l].leader_id
          /\ u.pre_gc = lb[l].pre_gc /\ u.gc_allowed = lb[l].gc_allowed
      BY UnburstOK
    <3> HIDE DEF u, i
    <3>2. i \in Occupied(u)
      BY <2>1, <3>1 DEF Occupied
    <3> QED BY <2>1, <2>3, <3>1, <3>2, OneGoes
  <2> QED BY <2>1, <2>2, <2>3
<1> QED BY <1>1, <1>2

\* Under the same condition the longest member succeeds a leader who goes, and in a DC/PC
\* team open to Gamecube the longest of the DC/PC members while there is one
\* (lobby_elect_leader_cross_locked).
THEOREM SeniorsSucceed ==
    ASSUME ~SameSecond
    PROVE  Spec => SeniorSucceeds
<1>1. ASSUME Ind, [Next]_vars, NEW l \in Place PROVE Succession(l)
  <2>1. CASE lb' = lb
    BY <2>1, NobodyGoes
  <2>2. ASSUME NEW c \in Client, Handler(c) PROVE Succession(l)
    <3>1. CASE Stays
      BY <3>1, NobodyGoes DEF Stays
    <3> QED BY <1>1, <2>2, <3>1, StepShape, EntersSuccession, LeavesSuccession
  <2> QED BY <1>1, <2>1, <2>2 DEF Next, Tick, vars
<1>2. Ind /\ [Next]_vars =>
        [\A l \in Place :
            LET old   == lb[l].leader_id
                stay  == {i \in Occupied(lb[l]) : lb'[l].clients[i] = lb[l].clients[i]}
                kin   == {i \in stay : lb[l].clients[i] \in PreGC}
                pool  == IF CrossPlatform(lb[l]) /\ kin # {} THEN kin ELSE stay
                new   == lb'[l].leader_id
            IN  old \in Occupied(lb[l]) \ stay /\ stay # {} =>
                   /\ new \in pool
                   /\ \A i \in pool :
                        cl[lb[l].clients[new]].join_time
                        <= cl[lb[l].clients[i]].join_time]_vars
  BY <1>1 DEF Succession
<1> QED BY <1>2, SpecInd, PTL DEF Spec, SeniorSucceeds

-----------------------------------------------------------------------------
\* Gamecube teams

\* What keeps GamecubeTeams true, by client instead of by slot.
GamecubeInv ==
    \A t \in Team : lb[t].live /\ ~lb[t].pre_gc => \A c \in PreGC : cl[c].cur_lobby # t

\* Arrivals keep teams for the Gamecube pure.
LEMMA EntersGamecube ==
    ASSUME Ind, GamecubeInv, NEW c \in Client, NEW t \in Place, NEW r, Enters(c, t, r)
    PROVE  GamecubeInv'
<1>1. /\ cl'[c].cur_lobby = t /\ lb'[t].pre_gc = r.pre_gc /\ lb'[t].live = r.live
      /\ \A d \in Client : d # c => cl'[d] = cl[d]
      /\ \A k \in Place : k # t => k = cl[c].cur_lobby \/ lb'[k] = lb[k]
  BY EntersClient, EntersFields, EntersOthers, EntersElsewhere
<1> SUFFICES ASSUME NEW k \in Team, lb'[k].live, ~lb'[k].pre_gc, NEW d \in PreGC
             PROVE  cl'[d].cur_lobby # k
  BY DEF GamecubeInv
<1>2. d \in Client /\ k \in Place /\ k # cl[c].cur_lobby
  BY LobbyConstants DEF Enters, Place
<1>3. CASE k # t
  BY <1>1, <1>2, <1>3 DEF GamecubeInv
<1>4. CASE k = t
  <2>1. CASE r = lb[t] /\ r.live /\ Listed(c, t)
    <3>1. d # c
      BY <1>1, <1>4, <2>1 DEF Listed
    <3> QED BY <1>1, <1>2, <1>4, <2>1, <3>1 DEF GamecubeInv
  <2>2. CASE ~lb[t].live /\ r = NewTeam(t, c)
    <3>1. NewTeam(t, c).pre_gc = (c \in PreGC)
      BY DEF NewTeam, NoTeam, EmptyLobby
    <3>2. d # c
      BY <1>1, <1>4, <2>2, <3>1
    <3>3. cl[d].cur_lobby # t
      <4>1. Occupied(lb[t]) = {} /\ t # None
        BY <1>4, <2>2, LobbyConstants DEF Ind, TeamsAccounted, Place
      <4> QED BY <1>2, <4>1, MemberSlot
    <3> QED BY <1>1, <1>2, <1>4, <3>2, <3>3
  <2> QED BY <1>4, <2>1, <2>2 DEF Enters
<1> QED BY <1>3, <1>4

\* Departures keep teams for the Gamecube pure.
LEMMA LeavesGamecube ==
    ASSUME ~SameSecond, Ind, GamecubeInv, NEW c \in Client, NEW r, Leaves(c, r)
    PROVE  GamecubeInv'
<1> DEFINE l == cl[c].cur_lobby
           i == cl[c].client_id
           u == Unburst(l, c)
<1>1. /\ l \in Place /\ i \in Occupied(lb[l]) /\ lb[l].clients[i] = c /\ MayLeave(l)
      /\ \/ lb'[l] = NoTeam(l)
         \/ lb'[l] = WithoutClient(u, i)
      /\ \A k \in Place \ {l} : lb'[k] = lb[k]
      /\ cl'[c] = r /\ \A d \in Client \ {c} : cl'[d] = cl[d]
  BY LeavesEffect
<1> SUFFICES ASSUME NEW k \in Team, lb'[k].live, ~lb'[k].pre_gc, NEW d \in PreGC
             PROVE  cl'[d].cur_lobby # k
  BY DEF GamecubeInv
<1>2. d \in Client /\ k \in Place /\ r.cur_lobby = None /\ k # None
  BY LobbyConstants DEF Leaves, Place
<1>3. CASE d = c
  BY <1>1, <1>2, <1>3
<1>4. CASE d # c /\ k # l
  BY <1>1, <1>2, <1>4 DEF GamecubeInv
<1>5. CASE d # c /\ k = l
  <2>1. ASSUME cl[d].cur_lobby = k PROVE FALSE
    <3> DEFINE j == cl[d].client_id
    <3>1. j \in Occupied(lb[l]) /\ lb[l].clients[j] = d
      BY <1>2, <1>5, <2>1, MemberSlot
    <3>2. lb'[l] = WithoutClient(u, i)
      <4>1. ~NoTeam(l).live
        BY <1>2, <1>5, EmptyLobbyOK DEF NoTeam
      <4> QED BY <1>1, <1>5, <4>1
    <3>3. /\ LobbyOK(l, u) /\ u.clients = lb[l].clients
          /\ u.live = lb[l].live /\ u.leader_id = lb[l].leader_id
          /\ u.pre_gc = lb[l].pre_gc /\ u.gc_allowed = lb[l].gc_allowed
      BY <1>1, UnburstOK
    <3>4. lb[l].live
      BY <1>2, <1>5, <3>1 DEF Ind, TeamsAccounted
    <3>5. lb[l].pre_gc
      BY <1>5, <2>1, <3>4 DEF GamecubeInv
    <3> HIDE DEF u, i, j, l
    <3>6. i = u.leader_id /\ PreGCCandidates(u) = {}
      <4>1. WithoutClient(u, i).pre_gc = (u.pre_gc /\ ~(NeedsElection(u, i) /\ TurnsGC(u)))
        BY <1>1, <3>3, WithoutClientFields
      <4>2. ~WithoutClient(u, i).pre_gc /\ u.pre_gc
        BY <1>5, <3>2, <3>3, <3>5
      <4>3. NeedsElection(u, i) /\ TurnsGC(u)
        BY <4>1, <4>2
      <4> QED BY <4>3 DEF NeedsElection, TurnsGC
    <3>7. j \in PreGCCandidates(u)
      <4>1. j # i
        BY <1>1, <1>5, <3>1
      <4> QED BY <1>1, <3>1, <3>3, <3>6, <4>1, AllMayBeElected DEF Occupied
    <3> QED BY <3>6, <3>7
  <2> QED BY <1>1, <1>2, <1>5, <2>1
<1> QED BY <1>3, <1>4, <1>5

\* Under the same condition a Gamecube team holds no DC or PC client, whether it was made
\* one or became one in an election that found no DC/PC candidate.
THEOREM GamecubeTeamsPure ==
    ASSUME ~SameSecond
    PROVE  Spec => []GamecubeTeams
<1>1. Init => GamecubeInv
  <2> SUFFICES ASSUME Init, NEW t \in Team PROVE ~lb[t].live
    BY DEF GamecubeInv
  <2>1. t \in Place /\ lb[t] = EmptyLobby(t)
    BY DEF Init, Place
  <2> QED BY <2>1, EmptyLobbyOK
<1>2. Ind /\ GamecubeInv /\ [Next]_vars => GamecubeInv'
  <2> SUFFICES ASSUME Ind, GamecubeInv, [Next]_vars PROVE GamecubeInv'
    OBVIOUS
  <2>1. CASE UNCHANGED vars
    BY <2>1 DEF vars, GamecubeInv
  <2>2. CASE Tick
    <3>1. lb' = lb /\ \A c \in Client : cl'[c].cur_lobby = cl[c].cur_lobby
      BY <2>2 DEF Tick, Ind, TypeOK, ClientRecord
    <3> QED BY <3>1, LobbyConstants DEF GamecubeInv
  <2>3. ASSUME NEW c \in Client, Handler(c) PROVE GamecubeInv'
    <3>1. CASE Stays
      BY <3>1, LobbyConstants DEF Stays, GamecubeInv, Place
    <3> QED BY <2>3, <3>1, StepShape, EntersGamecube, LeavesGamecube
  <2> QED BY <2>1, <2>2, <2>3 DEF Next
<1>3. Ind /\ GamecubeInv => GamecubeTeams
  BY MembersAre DEF GamecubeInv, GamecubeTeams, Place
<1> QED BY <1>1, <1>2, <1>3, SpecInd, PTL DEF Spec

-----------------------------------------------------------------------------
\* The promise of Membership.tla

\* num_clients is what Membership.tla counts.
LEMMA MembersCounted ==
    ASSUME Ind, NEW l \in Place
    PROVE  /\ {c \in Client : Where[c] = l} = Members(l)
           /\ IsFiniteSet(Members(l)) /\ Cardinality(Members(l)) = lb[l].num_clients
<1> DEFINE f == [i \in Occupied(lb[l]) |-> lb[l].clients[i]]
<1>1. ASSUME NEW c \in Client PROVE Where[c] = l <=> cl[c].cur_lobby = l
  <2>1. l # -1 /\ l # -2 /\ l # None
    BY LobbyConstants DEF Place
  <2> QED BY <2>1, MemberSlot DEF Where
<1>2. f \in Bijection(Occupied(lb[l]), Members(l))
  <2>1. \A i \in Occupied(lb[l]) : f[i] \in Members(l)
    BY DEF Members
  <2>2. \A c \in Members(l) : \E i \in Occupied(lb[l]) : f[i] = c
    BY DEF Members
  <2>3. \A i, j \in Occupied(lb[l]) : f[i] = f[j] => i = j
    BY DEF Ind, MembershipAgrees
  <2> HIDE DEF f
  <2>4. f \in [Occupied(lb[l]) -> Members(l)]
    BY <2>1 DEF f
  <2> QED BY <2>2, <2>3, <2>4 DEF Bijection, Injection, Surjection, IsInjective
<1>3. IsFiniteSet(Occupied(lb[l])) /\ lb[l].num_clients = Cardinality(Occupied(lb[l]))
  <2>1. Occupied(lb[l]) \in SUBSET Slot(l)
    BY DEF Ind, TypeOK, LobbyRecord, Occupied
  <2> QED BY <2>1, SlotFinite, FS_Subset DEF Ind, TeamsAccounted
<1>4. IsFiniteSet(Members(l)) /\ Cardinality(Members(l)) = lb[l].num_clients
  <2> HIDE DEF f
  <2> QED BY <1>2, <1>3, FS_Bijection DEF ExistsBijection
<1> QED BY <1>1, <1>4, MembersAre

\* Both modules count alike.
LEMMA PromiseCounts ==
    ASSUME NEW S PROVE Promise!Cardinality(S) = Cardinality(S)
BY DEF Promise!Cardinality, Cardinality

\* To enter is a step of the promise.
LEMMA EntersPromise ==
    ASSUME Ind, NEW c \in Client, NEW t \in Place, NEW r, Enters(c, t, r)
    PROVE  Promise!Next
<1> DEFINE l == cl[c].cur_lobby
<1>1. /\ cl[c].on /\ t # l /\ l \in Default \cup {None} /\ (t \in Team => l # None)
      /\ r.num_clients < MaxClients(t) /\ l \notin Team
  <2>1. l # None => l \in Place
    BY MemberSlot
  <2> QED BY <2>1 DEF Enters, Place
<1>2. /\ Where[c] = IF l = None THEN -1 ELSE l
      /\ t # None /\ Where[c] # t
  BY <1>1, LobbyConstants DEF Where, Place
<1>3. Where' = [Where EXCEPT ![c] = t]
  <2>1. cl'[c].cur_lobby = t /\ cl'[c].on
    BY EntersClient
  <2>2. \A d \in Client : d # c => cl'[d] = cl[d]
    BY EntersOthers
  <2> QED BY <1>2, <2>1, <2>2 DEF Where
<1>4. \A k \in Team : k # t => lb'[k].live = lb[k].live
  BY <1>1, EntersElsewhere DEF Place
<1>5. /\ t \in Team => lb'[t].live = r.live
      /\ \/ r = lb[t] /\ (t \in Team => r.live)
         \/ t \in Team /\ ~lb[t].live /\ r.live
  <2>1. r = NewTeam(t, c) /\ t \in Team /\ ~lb[t].live => r.live
    BY NewTeamOK
  <2>2. \/ r = lb[t] /\ (t \in Team => r.live)
        \/ t \in Team /\ ~lb[t].live /\ r = NewTeam(t, c)
    BY DEF Enters
  <2>3. lb'[t].live = r.live
    BY EntersFields
  <2> QED BY <2>1, <2>2, <2>3
<1>6. r = lb[t] => Promise!HasRoom(t)
  <2>1. {d \in Client : Where[d] = t} = Members(t) /\ Cardinality(Members(t)) = lb[t].num_clients
    BY MembersCounted
  <2>2. r = lb[t] => Cardinality({d \in Client : Where[d] = t}) < MaxClients(t)
    BY <1>1, <2>1
  <2> QED BY <2>2, PromiseCounts DEF Promise!HasRoom, Promise!MembersOf, Promise!Capacity, MaxClients
<1>7. CASE t \in Default
  <2>1. OpenTeams' = OpenTeams /\ t \notin Team
    BY <1>4, <1>7, LobbyConstants DEF OpenTeams
  <2>2. Promise!Enter(c, t)
    BY <1>1, <1>2, <1>3, <1>5, <1>6, <2>1 DEF Promise!Enter
  <2> QED BY <1>7, <2>2 DEF Promise!Next
<1>8. CASE t \in Team /\ r = lb[t] /\ r.live
  <2>1. OpenTeams' = OpenTeams /\ t \in OpenTeams /\ Where[c] \in Default
    BY <1>1, <1>2, <1>4, <1>5, <1>8 DEF OpenTeams
  <2>2. Promise!Join(c, t)
    BY <1>3, <1>6, <1>8, <2>1 DEF Promise!Join
  <2> QED BY <1>8, <2>2 DEF Promise!Next
<1>9. CASE t \in Team /\ ~lb[t].live /\ r.live
  <2>1. OpenTeams' = OpenTeams \cup {t} /\ t \notin OpenTeams /\ Where[c] \in Default
    BY <1>1, <1>2, <1>4, <1>5, <1>9 DEF OpenTeams
  <2>2. Promise!Found(c, t)
    BY <1>3, <2>1 DEF Promise!Found
  <2> QED BY <1>9, <2>2 DEF Promise!Next
<1> QED BY <1>5, <1>7, <1>8, <1>9 DEF Place

\* To leave is a step of the promise.
LEMMA LeavesPromise ==
    ASSUME Ind, Ind', NEW c \in Client, NEW r, Leaves(c, r)
    PROVE  Promise!Next
<1> DEFINE l == cl[c].cur_lobby
           i == cl[c].client_id
           dest == IF r.on THEN -1 ELSE -2
<1>1. /\ l \in Place /\ cl[c].on /\ l # None /\ i \in Occupied(lb[l]) /\ lb[l].clients[i] = c
      /\ cl'[c] = r /\ r.cur_lobby = None /\ \A d \in Client \ {c} : cl'[d] = cl[d]
      /\ \A k \in Place \ {l} : lb'[k] = lb[k]
      /\ \A j \in Slot(l) : lb'[l].clients[j] = IF j = i THEN None ELSE lb[l].clients[j]
  BY LeavesEffect, MemberSlot DEF Leaves
<1>2. Where[c] = l /\ Where' = [Where EXCEPT ![c] = dest] /\ dest \in {-1, -2}
  <2>1. Where[c] = l /\ Where'[c] = dest
    BY <1>1 DEF Where
  <2>2. \A d \in Client \ {c} : Where'[d] = Where[d]
    BY <1>1 DEF Where
  <2>3. Where = [d \in Client |-> Where[d]] /\ Where' = [d \in Client |-> Where'[d]]
    BY DEF Where
  <2> QED BY <2>1, <2>2, <2>3
<1>3. l # dest /\ l # -2
  BY <1>1, LobbyConstants DEF Place
<1>4. {d \in Client : Where[d] = l} = {c} <=> Occupied(lb[l]) = {i}
  <2>1. {d \in Client : Where[d] = l} = Members(l)
    BY <1>1, MembersCounted
  <2>2. ASSUME Members(l) = {c} PROVE Occupied(lb[l]) = {i}
    <3>1. ASSUME NEW j \in Occupied(lb[l]) PROVE j = i
      <4>1. lb[l].clients[j] = c
        BY <2>2, <3>1 DEF Members
      <4> QED BY <1>1, <3>1, <4>1 DEF Ind, MembershipAgrees
    <3> QED BY <1>1, <3>1
  <2>3. ASSUME Occupied(lb[l]) = {i} PROVE Members(l) = {c}
    BY <1>1, <2>3 DEF Members
  <2> QED BY <2>1, <2>2, <2>3
<1>5. OpenTeams' = IF Occupied(lb[l]) = {i} THEN OpenTeams \ {l} ELSE OpenTeams
  <2>1. \A k \in Team : k # l => lb'[k].live = lb[k].live
    BY <1>1 DEF Place
  <2>2. l \in Team => lb[l].live
    BY <1>1 DEF Ind, TeamsAccounted
  <2>3. l \in Team => (lb'[l].live <=> Occupied(lb[l]) # {i})
    <3>1. /\ lb[l].clients \in [Slot(l) -> Client \cup {None}]
          /\ lb'[l].clients \in [Slot(l) -> Client \cup {None}]
      BY <1>1 DEF Ind, TypeOK, LobbyRecord
    <3>2. Occupied(lb'[l]) = Occupied(lb[l]) \ {i}
      BY <1>1, <3>1 DEF Occupied
    <3>3. l \in Team => (lb'[l].live <=> Occupied(lb'[l]) # {})
      BY DEF Ind, TeamsAccounted, Occupied
    <3> QED BY <1>1, <3>2, <3>3
  <2> QED BY <2>1, <2>2, <2>3 DEF OpenTeams
<1>6. Promise!Depart(c, dest)
  BY <1>2, <1>3, <1>4, <1>5 DEF Promise!Depart, Promise!MembersOf
<1> QED BY <1>2, <1>6 DEF Promise!Next

\* Whatever else happens is a step of the promise, or none it sees.
LEMMA StaysPromise ==
    ASSUME Ind, Stays, DOMAIN cl' = Client
    PROVE  \/ Promise!Next
           \/ Where' = Where /\ OpenTeams' = OpenTeams
<1>1. OpenTeams' = OpenTeams
  BY DEF Stays, OpenTeams, Place
<1>2. PICK c \in Client : OnAsBefore(c)
  BY DEF Stays
<1>3. \A d \in Client \ {c} : Where'[d] = Where[d]
  BY <1>2, MemberSlot DEF Stays, Where, OnAsBefore
<1>4. CASE Where'[c] = Where[c]
  BY <1>1, <1>3, <1>4 DEF Where
<1>5. CASE Where'[c] # Where[c]
  <2>1. cl[c].cur_lobby = None /\ cl'[c].cur_lobby = None
    BY <1>2, <1>5, MemberSlot DEF Stays, Where, OnAsBefore
  <2>2. CASE ~cl[c].on
    <3>1. Where[c] = -2 /\ Where' = [Where EXCEPT ![c] = -1]
      BY <1>3, <1>5, <2>1, <2>2 DEF Where
    <3>2. Promise!Connect(c)
      BY <1>1, <3>1 DEF Promise!Connect
    <3> QED BY <3>2 DEF Promise!Next
  <2>3. CASE cl[c].on
    <3>1. Where[c] = -1 /\ Where' = [Where EXCEPT ![c] = -2]
      BY <1>3, <1>5, <2>1, <2>3 DEF Where
    <3>2. OpenTeams \ {-1} = OpenTeams
      BY LobbyConstants DEF OpenTeams
    <3>3. Promise!Depart(c, -2)
      BY <1>1, <3>1, <3>2 DEF Promise!Depart
    <3> QED BY <3>3 DEF Promise!Next
  <2> QED BY <2>2, <2>3
<1> QED BY <1>4, <1>5

\* lobby.c keeps the promise of Membership.tla: whatever a handler does to the two views
\* of who is where, to the counters and to the teams, the players see one of its steps.
THEOREM BlockKeepsPromise == Spec => PromiseKept
<1>1. Init => Promise!Init
  <2> SUFFICES ASSUME Init PROVE Promise!Init
    OBVIOUS
  <2>1. Where = [c \in Client |-> -2]
    BY DEF Init, Where, Loggedout
  <2>2. OpenTeams = {}
    <3>1. \A t \in Team : lb[t] = EmptyLobby(t) /\ t \in Place
      BY DEF Init, Place
    <3> QED BY <3>1, EmptyLobbyOK DEF OpenTeams
  <2> QED BY <2>1, <2>2 DEF Promise!Init
<1>2. Ind /\ Ind' /\ [Next]_vars => [Promise!Next]_Promise!vars
  <2> SUFFICES ASSUME Ind, Ind', [Next]_vars
               PROVE  \/ Promise!Next
                      \/ Where' = Where /\ OpenTeams' = OpenTeams
    BY DEF Promise!vars
  <2>1. CASE UNCHANGED vars
    BY <2>1 DEF vars, Where, OpenTeams
  <2>2. CASE Tick
    <3>1. /\ lb' = lb /\ \A c \in Client : cl'[c].cur_lobby = cl[c].cur_lobby
          /\ \A c \in Client : cl'[c].on = cl[c].on
      BY <2>2 DEF Tick, Ind, TypeOK, ClientRecord
    <3> QED BY <3>1 DEF Where, OpenTeams
  <2>3. ASSUME NEW c \in Client, Handler(c)
        PROVE  \/ Promise!Next
               \/ Where' = Where /\ OpenTeams' = OpenTeams
    <3>1. DOMAIN cl' = Client
      BY DEF Ind, TypeOK
    <3> QED BY <2>3, <3>1, StepShape, EntersPromise, LeavesPromise, StaysPromise
  <2> QED BY <2>1, <2>2, <2>3 DEF Next
<1> QED BY <1>1, <1>2, SpecInd, PTL DEF Spec, PromiseKept, Promise!Spec
=============================================================================
