---------------------------- MODULE LobbyProofs ----------------------------
(***************************************************************************)
(* Lobby.tla keeps its types, its two views of who is where agree, and its *)
(* counters are right, for every number of clients, lobbies and slots.     *)
(*                                                                         *)
(* The three invariants are inductive only together: a handler finds the   *)
(* slot of its client through MembershipAgrees, a free slot through the    *)
(* count of num_clients, and frees a team on that count alone.             *)
(***************************************************************************)
EXTENDS Lobby, NatMin, FiniteSetTheorems, TLAPS

\* A well-formed lobby_t: its type, and num_clients counts its members.
LobbyOK(l, r) ==
    /\ r \in LobbyRecord(l)
    /\ r.num_clients = Cardinality(Occupied(r))

-----------------------------------------------------------------------------
\* The operators on one lobby

\* A lobby has finitely many slots.
LEMMA SlotFinite ==
    ASSUME NEW l \in Place
    PROVE  /\ MaxClients(l) \in Nat \ {0}
           /\ Slot(l) \subseteq Nat /\ 0 \in Slot(l)
           /\ l \in Team => 1 \in Slot(l)
           /\ IsFiniteSet(Slot(l)) /\ Cardinality(Slot(l)) = MaxClients(l)
<1>1. MaxClients(l) \in Nat \ {0} /\ (l \in Team => MaxClients(l) > 1)
  BY LobbyConstants DEF MaxClients, Place
<1>2. IsFiniteSet(0 .. MaxClients(l) - 1)
      /\ Cardinality(0 .. MaxClients(l) - 1) = MaxClients(l)
  BY <1>1, FS_Interval
<1> QED BY <1>1, <1>2 DEF Slot

\* A lobby with fewer members than slots has a free slot, and FreeSlot is one.
LEMMA FreeSlotIsFree ==
    ASSUME NEW l \in Place, NEW r, LobbyOK(l, r), r.num_clients < MaxClients(l)
    PROVE  FreeSlot(l, r) \in Slot(l) /\ r.clients[FreeSlot(l, r)] = None
<1>1. r.clients \in [Slot(l) -> Client \cup {None}]
  BY DEF LobbyOK, LobbyRecord
<1>2. Occupied(r) \cup Vacant(r) = Slot(l) /\ Vacant(r) \subseteq Slot(l)
  BY <1>1 DEF Occupied, Vacant
<1>3. Vacant(r) # {}
  <2>1. SUFFICES ASSUME Occupied(r) = Slot(l) PROVE FALSE
    BY <1>2
  <2>2. QED BY <2>1, SlotFinite DEF LobbyOK
<1>4. Min(Vacant(r)) \in Vacant(r)
  BY <1>2, <1>3, SlotFinite, MinOfNat
<1>5. CASE l \in Team /\ r.pre_gc /\ r.clients[1] = None
  BY <1>5, SlotFinite DEF FreeSlot
<1>6. CASE ~(l \in Team /\ r.pre_gc /\ r.clients[1] = None)
  BY <1>6, <1>4, <1>2 DEF FreeSlot, Vacant
<1> QED BY <1>5, <1>6

\* lobby_add_client_locked fills that slot, and no other, and counts the member.
LEMMA WithClientOK ==
    ASSUME NEW l \in Place, NEW r, LobbyOK(l, r), r.num_clients < MaxClients(l),
           NEW c \in Client
    PROVE  LET i == FreeSlot(l, r)
               s == WithClient(l, r, c)
           IN  /\ LobbyOK(l, s)
               /\ s.clients = [r.clients EXCEPT ![i] = c]
               /\ s.live = r.live
<1> DEFINE i == FreeSlot(l, r)
           s == WithClient(l, r, c)
<1>1. i \in Slot(l) /\ r.clients[i] = None
  BY FreeSlotIsFree
<1> HIDE DEF i
<1>2. c # None
  BY LobbyConstants
<1>3. r \in LobbyRecord(l) /\ r.clients \in [Slot(l) -> Client \cup {None}]
  BY DEF LobbyOK, LobbyRecord
<1>4. s = [r EXCEPT !.clients[i] = c, !.num_clients = @ + 1,
                    !.leader_id = IF r.num_clients = 0 THEN i ELSE @]
  BY DEF WithClient, i
<1> HIDE DEF s
<1>5. s \in LobbyRecord(l) /\ s.clients = [r.clients EXCEPT ![i] = c]
      /\ s.live = r.live /\ s.num_clients = r.num_clients + 1
  <2>1. [r.clients EXCEPT ![i] = c] \in [Slot(l) -> Client \cup {None}]
    BY <1>1, <1>3
  <2>2. s = [r EXCEPT !.clients = [r.clients EXCEPT ![i] = c],
                      !.num_clients = r.num_clients + 1,
                      !.leader_id = IF r.num_clients = 0 THEN i ELSE r.leader_id]
    BY <1>3, <1>4 DEF LobbyRecord
  <2>3. r.num_clients + 1 \in Int
        /\ (IF r.num_clients = 0 THEN i ELSE r.leader_id) \in Slot(l)
    BY <1>1, <1>3 DEF LobbyRecord
  <2>4. s \in LobbyRecord(l)
    BY <1>3, <2>1, <2>2, <2>3 DEF LobbyRecord
  <2>5. s.clients = [r.clients EXCEPT ![i] = c] /\ s.live = r.live
        /\ s.num_clients = r.num_clients + 1
    BY <1>3, <2>2 DEF LobbyRecord
  <2> QED BY <2>4, <2>5
<1>6. Occupied(s) = Occupied(r) \cup {i} /\ i \notin Occupied(r)
  BY <1>1, <1>2, <1>3, <1>5 DEF Occupied
<1>7. IsFiniteSet(Occupied(r))
  <2>1. Occupied(r) \in SUBSET Slot(l)
    BY <1>3 DEF Occupied
  <2>2. QED BY <2>1, SlotFinite, FS_Subset
<1>8. Cardinality(Occupied(s)) = Cardinality(Occupied(r)) + 1
  BY <1>6, <1>7, FS_AddElement
<1>9. LobbyOK(l, s)
  BY <1>5, <1>8 DEF LobbyOK
<1> QED BY <1>5, <1>9 DEF i, s

\* The winner of an election among somebody is one of them, and none of them has been
\* in the lobby longer.
LEMMA EarliestIsCandidate ==
    ASSUME NEW l \in Place, NEW r, LobbyOK(l, r), cl \in [Client -> ClientRecord],
           NEW S, S \subseteq Occupied(r), S # {}
    PROVE  /\ Earliest(r, S) \in S
           /\ \A j \in S : cl[r.clients[Earliest(r, S)]].join_time
                           <= cl[r.clients[j]].join_time
<1> DEFINE time(i) == cl[r.clients[i]].join_time
           Times == {time(i) : i \in S}
           First == {i \in S : time(i) = Min(Times)}
<1>1. S \subseteq Slot(l) /\ \A i \in S : r.clients[i] \in Client
  BY DEF LobbyOK, LobbyRecord, Occupied
<1>2. \A i \in S : time(i) \in Nat
  BY <1>1 DEF ClientRecord
<1>3. Min(Times) \in Times /\ \A t \in Times : Min(Times) <= t
  <2>1. Times \in SUBSET Nat /\ Times # {}
    BY <1>2
  <2> HIDE DEF Times
  <2>2. QED BY <2>1, MinOfNat
<1>4. \A i \in S : Min(Times) <= time(i)
  BY <1>3
<1>5. First \in SUBSET Nat /\ First # {}
  BY <1>1, <1>3, SlotFinite
<1>6. Min(First) \in First /\ \A i \in First : Min(First) <= i
  <2> HIDE DEF First
  <2> QED BY <1>5, MinOfNat
<1>7. \A j \in S : \/ time(Min(First)) < time(j)
                   \/ time(Min(First)) = time(j) /\ Min(First) <= j
  <2> SUFFICES ASSUME NEW j \in S
               PROVE  \/ time(Min(First)) < time(j)
                      \/ time(Min(First)) = time(j) /\ Min(First) <= j
    OBVIOUS
  <2>1. Min(First) \in S /\ time(Min(First)) = Min(Times)
    BY <1>6
  <2>2. time(Min(First)) \in Nat /\ time(j) \in Nat /\ Min(Times) <= time(j)
    BY <2>1, <1>2, <1>4
  <2>3. CASE time(j) = Min(Times)
    BY <2>1, <2>3, <1>6
  <2>4. CASE time(j) # Min(Times)
    <3> HIDE DEF First, Times
    <3> QED BY <2>1, <2>2, <2>4
  <2> QED BY <2>3, <2>4
<1>8. \E i \in S : \A j \in S : \/ time(i) < time(j)
                                \/ time(i) = time(j) /\ i <= j
  <2>1. Min(First) \in S
    BY <1>6
  <2> HIDE DEF First
  <2> QED BY <1>7, <2>1
<1>9. /\ Earliest(r, S) \in S
      /\ \A j \in S : \/ time(Earliest(r, S)) < time(j)
                      \/ time(Earliest(r, S)) = time(j) /\ Earliest(r, S) <= j
  BY <1>8 DEF Earliest
<1> HIDE DEF time
<1>10. \A j \in S : time(Earliest(r, S)) <= time(j)
  BY <1>2, <1>9
<1> QED BY <1>9, <1>10 DEF time

\* Whatever the election finds, leader_id stays a slot of the lobby.
LEMMA NewLeaderIsSlot ==
    ASSUME NEW l \in Place, NEW r, LobbyOK(l, r), cl \in [Client -> ClientRecord]
    PROVE  NewLeader(r) \in Slot(l)
<1>1. Electorate(r) \subseteq Occupied(r)
  BY DEF Electorate, PreGCCandidates, Candidates
<1>2. Occupied(r) \subseteq Slot(l)
  BY DEF LobbyOK, LobbyRecord, Occupied
<1>3. CASE Electorate(r) = {}
  BY <1>3, SlotFinite DEF NewLeader
<1>4. CASE Electorate(r) # {}
  BY <1>1, <1>2, <1>4, EarliestIsCandidate DEF NewLeader
<1> QED BY <1>3, <1>4

\* lobby_remove_client_locked empties the slot of one member, and uncounts it.
LEMMA WithoutClientOK ==
    ASSUME NEW l \in Place, NEW r, LobbyOK(l, r), cl \in [Client -> ClientRecord],
           NEW i \in Occupied(r)
    PROVE  LET s == WithoutClient(r, i)
           IN  /\ LobbyOK(l, s)
               /\ s.clients = [r.clients EXCEPT ![i] = None]
               /\ s.live = r.live
<1> DEFINE s == WithoutClient(r, i)
           lead == IF NeedsElection(r, i) THEN NewLeader(r) ELSE r.leader_id
           flip == NeedsElection(r, i) /\ TurnsGC(r)
<1>1. r \in LobbyRecord(l) /\ r.clients \in [Slot(l) -> Client \cup {None}]
      /\ i \in Slot(l) /\ r.clients[i] # None
  BY DEF LobbyOK, LobbyRecord, Occupied
<1>2. lead \in Slot(l)
  BY <1>1, NewLeaderIsSlot DEF LobbyRecord
<1>3. s = [r EXCEPT !.clients = [r.clients EXCEPT ![i] = None],
                    !.num_clients = r.num_clients - 1,
                    !.leader_id = lead,
                    !.pre_gc = r.pre_gc /\ ~flip,
                    !.gc_allowed = r.gc_allowed /\ ~flip]
  BY <1>1 DEF WithoutClient, LobbyRecord
<1>4. [r.clients EXCEPT ![i] = None] \in [Slot(l) -> Client \cup {None}]
      /\ r.num_clients - 1 \in Int
  BY <1>1 DEF LobbyRecord
<1>5. (r.pre_gc /\ ~flip) \in BOOLEAN /\ (r.gc_allowed /\ ~flip) \in BOOLEAN
  OBVIOUS
<1> HIDE DEF s, lead, flip
<1>6. s \in LobbyRecord(l)
  BY <1>1, <1>2, <1>3, <1>4, <1>5 DEF LobbyRecord
<1>7. s.clients = [r.clients EXCEPT ![i] = None] /\ s.live = r.live
      /\ s.num_clients = r.num_clients - 1
  BY <1>1, <1>3 DEF LobbyRecord
<1>8. Occupied(s) = Occupied(r) \ {i}
  BY <1>1, <1>7 DEF Occupied
<1>9. IsFiniteSet(Occupied(r))
  <2>1. Occupied(r) \in SUBSET Slot(l)
    BY <1>1 DEF Occupied
  <2>2. QED BY <2>1, SlotFinite, FS_Subset
<1>10. Cardinality(Occupied(s)) = Cardinality(Occupied(r)) - 1
  BY <1>8, <1>9, FS_RemoveElement
<1>11. LobbyOK(l, s)
  BY <1>6, <1>7, <1>10 DEF LobbyOK
<1> QED BY <1>7, <1>11 DEF s

-----------------------------------------------------------------------------
\* The state as a whole

Ind == TypeOK /\ MembershipAgrees /\ TeamsAccounted

\* What the invariant says of one lobby.
LEMMA IndLobbyOK ==
    ASSUME Ind PROVE \A l \in Place : LobbyOK(l, lb[l])
BY DEF Ind, TypeOK, TeamsAccounted, LobbyOK

\* Where a client is, its slot is occupied, by it.
LEMMA MemberSlot ==
    ASSUME Ind, NEW c \in Client, cl[c].cur_lobby # None
    PROVE  /\ cl[c].cur_lobby \in Place /\ cl[c].on
           /\ cl[c].client_id \in Occupied(lb[cl[c].cur_lobby])
           /\ lb[cl[c].cur_lobby].clients[cl[c].client_id] = c
<1> DEFINE l == cl[c].cur_lobby
           i == cl[c].client_id
<1>1. l \in Place /\ i \in Slot(l) /\ lb[l].clients[i] = c /\ c # None
  BY LobbyConstants DEF Ind, TypeOK, MembershipAgrees, ClientRecord
<1>2. lb[l].clients \in [Slot(l) -> Client \cup {None}]
  BY <1>1 DEF Ind, TypeOK, LobbyRecord
<1>3. i \in Occupied(lb[l])
  BY <1>1, <1>2 DEF Occupied
<1>4. cl[c].on
  BY <1>1, <1>3 DEF Ind, MembershipAgrees
<1> QED BY <1>1, <1>3, <1>4

\* A step that moves nobody and keeps the counters keeps the membership.
LEMMA NobodyMoves ==
    ASSUME Ind, TypeOK', num_games' = num_games,
           \A c \in Client :
               /\ cl'[c].cur_lobby = cl[c].cur_lobby
               /\ \/ cl[c].cur_lobby = None
                  \/ cl'[c].client_id = cl[c].client_id /\ cl'[c].on = cl[c].on,
           \A l \in Place :
               /\ lb'[l].clients = lb[l].clients
               /\ lb'[l].num_clients = lb[l].num_clients
               /\ lb'[l].live = lb[l].live
    PROVE  Ind'
<1>1. \A l \in Place : Occupied(lb'[l]) = Occupied(lb[l])
  BY DEF Occupied
<1>2. \A l \in Place : \A i \in Occupied(lb[l]) : lb[l].clients[i] \in Client
  BY DEF Ind, TypeOK, LobbyRecord, Occupied
<1>3. ASSUME NEW l \in Place, NEW i \in Occupied(lb'[l])
      PROVE  LET c == lb'[l].clients[i]
             IN  cl'[c].on /\ cl'[c].cur_lobby = l /\ cl'[c].client_id = i
  <2> DEFINE c == lb[l].clients[i]
  <2>1. lb'[l].clients[i] = c /\ i \in Occupied(lb[l]) /\ c \in Client
    BY <1>1, <1>2, <1>3
  <2>2. cl[c].on /\ cl[c].cur_lobby = l /\ cl[c].client_id = i
    BY <2>1 DEF Ind, MembershipAgrees
  <2>3. l # None
    BY LobbyConstants
  <2> HIDE DEF c
  <2> QED BY <2>1, <2>2, <2>3
<1>4. ASSUME NEW c \in Client, cl'[c].cur_lobby # None
      PROVE  /\ cl'[c].client_id \in Slot(cl'[c].cur_lobby)
             /\ lb'[cl'[c].cur_lobby].clients[cl'[c].client_id] = c
  <2>1. cl[c].cur_lobby \in Place /\ cl[c].cur_lobby # None
    BY <1>4 DEF Ind, TypeOK, ClientRecord
  <2>2. QED BY <2>1 DEF Ind, MembershipAgrees
<1>5. MembershipAgrees'
  BY <1>3, <1>4 DEF MembershipAgrees
<1>6. TeamsAccounted'
  BY <1>1 DEF Ind, TeamsAccounted, Place
<1> QED BY <1>5, <1>6 DEF Ind

\* A step that takes one client c out of the lobby it was in, if any, and puts
\* it in slot i of lobby l, unless l is None, keeps the two views in agreement.
LEMMA OneMoves ==
    ASSUME Ind, TypeOK', NEW c \in Client, NEW l \in Place \cup {None}, NEW i,
           l # cl[c].cur_lobby,
           cl'[c].cur_lobby = l,
           \/ l = None
           \/ /\ i \in Slot(l) /\ lb[l].clients[i] = None
              /\ cl'[c].client_id = i /\ cl'[c].on,
           \A d \in Client \ {c} : cl'[d] = cl[d],
           \A k \in Place : \A j \in Slot(k) :
               lb'[k].clients[j] =
                   IF k = l /\ j = i THEN c
                   ELSE IF k = cl[c].cur_lobby /\ j = cl[c].client_id THEN None
                   ELSE lb[k].clients[j]
    PROVE  MembershipAgrees'
<1>1. \A k \in Place : /\ lb[k].clients \in [Slot(k) -> Client \cup {None}]
                       /\ lb'[k].clients \in [Slot(k) -> Client \cup {None}]
  BY DEF Ind, TypeOK, LobbyRecord
<1>2. None \notin Client /\ None \notin Place
  BY LobbyConstants
<1>3. ASSUME NEW k \in Place, NEW j \in Slot(k), lb'[k].clients[j] # None
      PROVE  LET d == lb'[k].clients[j]
             IN  cl'[d].on /\ cl'[d].cur_lobby = k /\ cl'[d].client_id = j
  <2>1. CASE k = l /\ j = i
    BY <2>1, <1>2
  <2>2. CASE ~(k = l /\ j = i)
    <3>1. lb'[k].clients[j] = lb[k].clients[j] /\ j \in Occupied(lb[k])
      BY <1>1, <1>3, <2>2 DEF Occupied
    <3>2. lb[k].clients[j] \in Client
      BY <1>1, <1>3, <3>1
    <3>3. LET d == lb[k].clients[j]
          IN  cl[d].on /\ cl[d].cur_lobby = k /\ cl[d].client_id = j
      BY <3>1 DEF Ind, MembershipAgrees
    <3>4. lb[k].clients[j] # c
      BY <1>3, <2>2, <3>1, <3>3
    <3> QED BY <3>1, <3>2, <3>3, <3>4
  <2> QED BY <2>1, <2>2
<1>4. ASSUME NEW d \in Client, cl'[d].cur_lobby # None
      PROVE  /\ cl'[d].client_id \in Slot(cl'[d].cur_lobby)
             /\ lb'[cl'[d].cur_lobby].clients[cl'[d].client_id] = d
  <2>1. CASE d = c
    BY <2>1, <1>4
  <2>2. CASE d # c
    <3>1. cl'[d] = cl[d] /\ cl[d].cur_lobby \in Place
      BY <2>2, <1>4 DEF Ind, TypeOK, ClientRecord
    <3>2. cl[d].client_id \in Slot(cl[d].cur_lobby)
          /\ lb[cl[d].cur_lobby].clients[cl[d].client_id] = d
      BY <3>1, <1>4 DEF Ind, MembershipAgrees
    <3>3. ~(cl[d].cur_lobby = l /\ cl[d].client_id = i)
      BY <3>1, <3>2, <1>2
    <3>4. ~(cl[d].cur_lobby = cl[c].cur_lobby /\ cl[d].client_id = cl[c].client_id)
      <4>1. SUFFICES ASSUME cl[d].cur_lobby = cl[c].cur_lobby,
                            cl[d].client_id = cl[c].client_id
                     PROVE  FALSE
        OBVIOUS
      <4>2. lb[cl[c].cur_lobby].clients[cl[c].client_id] = c
        BY <4>1, <3>1, <1>2 DEF Ind, MembershipAgrees
      <4>3. QED BY <4>1, <4>2, <3>2, <2>2
    <3> QED BY <3>1, <3>2, <3>3, <3>4
  <2> QED BY <2>1, <2>2
<1> QED BY <1>1, <1>3, <1>4 DEF MembershipAgrees, Occupied

\* What is left of a lobby when client c leaves it.
LEMMA LeavingOK ==
    ASSUME Ind, NEW c \in Client, NEW r, cl[c].cur_lobby # None,
           LobbyOK(cl[c].cur_lobby, r), r.clients = lb[cl[c].cur_lobby].clients
    PROVE  LET s == WithoutClient(r, cl[c].client_id)
           IN  /\ LobbyOK(cl[c].cur_lobby, s)
               /\ s.clients = [r.clients EXCEPT ![cl[c].client_id] = None]
               /\ s.live = r.live
<1> DEFINE l == cl[c].cur_lobby
           i == cl[c].client_id
<1>1. l \in Place /\ i \in Occupied(lb[l]) /\ cl \in [Client -> ClientRecord]
  BY MemberSlot DEF Ind, TypeOK
<1>2. LobbyOK(l, r) /\ i \in Occupied(r)
  BY <1>1 DEF Occupied
<1> HIDE DEF l, i
<1>3. LET s == WithoutClient(r, i)
      IN  /\ LobbyOK(l, s)
          /\ s.clients = [r.clients EXCEPT ![i] = None]
          /\ s.live = r.live
  BY <1>1, <1>2, WithoutClientOK
<1> QED BY <1>3 DEF l, i

\* Entering lobby t, whose record is r by then, from the lobby the client is in,
\* if any: every way in (lobby_add_to_any, lobby_change_lobby) is an instance.
LEMMA ClientEnters ==
    ASSUME Ind, TypeOK', NEW c \in Client, NEW t \in Place, t # cl[c].cur_lobby,
           cl[c].cur_lobby \notin Team,
           NEW r, LobbyOK(t, r), r.clients = lb[t].clients,
           r.num_clients < MaxClients(t),
           t \in Team => r.live,
           LobbyOK(t, lb'[t]), lb'[t].live = r.live,
           lb'[t].clients = [r.clients EXCEPT ![FreeSlot(t, r)] = c],
           \A k \in Place \ {t} :
               lb'[k] = IF k = cl[c].cur_lobby THEN WithoutClient(lb[k], cl[c].client_id)
                        ELSE lb[k],
           cl'[c].cur_lobby = t, cl'[c].client_id = FreeSlot(t, r), cl'[c].on,
           \A d \in Client \ {c} : cl'[d] = cl[d],
           num_games' = IF r.live /\ ~lb[t].live THEN num_games + 1 ELSE num_games,
           t \in Default => r.live = lb[t].live
    PROVE  Ind'
<1> DEFINE i == FreeSlot(t, r)
           l == cl[c].cur_lobby
<1>1. i \in Slot(t) /\ lb[t].clients[i] = None
  BY FreeSlotIsFree
<1>2. \A k \in Place : LobbyOK(k, lb[k]) /\ lb[k].clients \in [Slot(k) -> Client \cup {None}]
  BY IndLobbyOK DEF LobbyOK, LobbyRecord
<1>3. cl \in [Client -> ClientRecord] /\ c # None
  BY LobbyConstants DEF Ind, TypeOK
<1>4. ASSUME NEW k \in Place, k = l
      PROVE  /\ LobbyOK(k, lb'[k]) /\ lb'[k].live = lb[k].live
             /\ lb'[k].clients = [lb[k].clients EXCEPT ![cl[c].client_id] = None]
  <2>1. l # None /\ LobbyOK(l, lb[l])
    BY <1>2, <1>4, LobbyConstants
  <2>2. lb'[k] = WithoutClient(lb[l], cl[c].client_id)
    BY <1>4
  <2> QED BY <1>4, <2>1, <2>2, LeavingOK
<1>5. ASSUME NEW k \in Place, k # t, k # l
      PROVE  lb'[k] = lb[k]
  BY <1>5
<1>6. \A k \in Place : LobbyOK(k, lb'[k])
  BY <1>2, <1>4, <1>5
<1>7. MembershipAgrees'
  <2>1. \A k \in Place : \A j \in Slot(k) :
            lb'[k].clients[j] = IF k = t /\ j = i THEN c
                                ELSE IF k = l /\ j = cl[c].client_id THEN None
                                ELSE lb[k].clients[j]
    <3> SUFFICES ASSUME NEW k \in Place, NEW j \in Slot(k)
                 PROVE  lb'[k].clients[j] =
                            IF k = t /\ j = i THEN c
                            ELSE IF k = l /\ j = cl[c].client_id THEN None
                            ELSE lb[k].clients[j]
      OBVIOUS
    <3>1. CASE k = t
      BY <3>1, <1>1, <1>2
    <3>2. CASE k = l
      <4>1. lb'[k].clients = [lb[k].clients EXCEPT ![cl[c].client_id] = None] /\ k # t
        BY <3>2, <1>4
      <4>2. lb[k].clients \in [Slot(k) -> Client \cup {None}]
        BY <1>2
      <4> QED BY <4>1, <4>2, <3>2
    <3>3. CASE k # t /\ k # l
      BY <3>3, <1>5
    <3> QED BY <3>1, <3>2, <3>3
  <2> HIDE DEF i
  <2> QED BY <1>1, <2>1, OneMoves DEF i
<1>8. TeamsAccounted'
  <2>1. \A k \in Place : lb'[k].num_clients = Cardinality(Occupied(lb'[k]))
    BY <1>6 DEF LobbyOK
  <2>2. \A k \in Team : k # t => lb'[k] = lb[k]
    BY <1>5 DEF Place
  <2>3. i \in Occupied(lb'[t])
    BY <1>1, <1>2, <1>3 DEF Occupied
  <2>4. \A k \in Team : lb'[k].live <=> Occupied(lb'[k]) # {}
    BY <2>2, <2>3 DEF Ind, TeamsAccounted
  <2>5. num_games' = Cardinality({k \in Team : lb'[k].live})
    <3> DEFINE Old == {k \in Team : lb[k].live}
               New == {k \in Team : lb'[k].live}
    <3>1. IsFiniteSet(Old) /\ num_games = Cardinality(Old)
      BY FS_Subset, LobbyConstants DEF Ind, TeamsAccounted
    <3>2. CASE r.live /\ ~lb[t].live
      <4>1. t \in Team
        BY <3>2 DEF Place
      <4>2. New = Old \cup {t} /\ t \notin Old
        BY <4>1, <3>2, <2>2
      <4> HIDE DEF Old, New
      <4>3. Cardinality(New) = Cardinality(Old) + 1
        BY <3>1, <4>2, FS_AddElement
      <4> QED BY <3>1, <3>2, <4>3 DEF New
    <3>3. CASE ~(r.live /\ ~lb[t].live)
      <4>1. t \in Team => lb[t].live /\ lb'[t].live
        BY <3>3
      <4>2. New = Old
        BY <4>1, <2>2
      <4> QED BY <3>1, <3>3, <4>2
    <3> QED BY <3>2, <3>3
  <2> QED BY <2>1, <2>4, <2>5 DEF TeamsAccounted
<1> QED BY <1>7, <1>8 DEF Ind

\* A free team's record is well formed, and empty.
LEMMA EmptyLobbyOK ==
    ASSUME NEW l \in Place
    PROVE  /\ LobbyOK(l, EmptyLobby(l))
           /\ EmptyLobby(l).clients = [j \in Slot(l) |-> None]
           /\ Occupied(EmptyLobby(l)) = {}
           /\ l \in Team => ~EmptyLobby(l).live
<1>1. EmptyLobby(l) \in LobbyRecord(l) /\ EmptyLobby(l).num_clients = 0
  BY SlotFinite DEF EmptyLobby, LobbyRecord
<1>2. EmptyLobby(l).clients = [j \in Slot(l) |-> None]
  BY DEF EmptyLobby
<1>3. Occupied(EmptyLobby(l)) = {}
  BY <1>2 DEF Occupied
<1>4. l \in Team => ~EmptyLobby(l).live
  BY LobbyConstants DEF EmptyLobby
<1> QED BY <1>1, <1>2, <1>3, <1>4, FS_EmptySet DEF LobbyOK

\* The last member of a team is its only one.
LEMMA OnlyMember ==
    ASSUME NEW l \in Place, NEW r, LobbyOK(l, r), NEW i \in Occupied(r)
    PROVE  r.num_clients = 1 <=> Occupied(r) = {i}
<1>1. IsFiniteSet(Occupied(r))
  <2>1. Occupied(r) \in SUBSET Slot(l)
    BY DEF LobbyOK, LobbyRecord, Occupied
  <2>2. QED BY <2>1, SlotFinite, FS_Subset
<1>2. Cardinality(Occupied(r)) = 1 <=> \E x : Occupied(r) = {x}
  BY <1>1, FS_Singleton
<1> QED BY <1>2 DEF LobbyOK

\* lobby_remove_player, from the 0x98 handler or for a client that is gone.
LEMMA RemovePlayerKeepsInd ==
    ASSUME Ind, NEW c \in Client, cl[c].cur_lobby # None,
           NEW r \in ClientRecord, r.cur_lobby = None, RemovePlayer(c, r)
    PROVE  Ind'
<1> DEFINE l == cl[c].cur_lobby
           i == cl[c].client_id
           u == Unburst(l, c)
           freed == Frees(l)
<1>1. l \in Place /\ i \in Occupied(lb[l]) /\ cl \in [Client -> ClientRecord]
  BY MemberSlot DEF Ind, TypeOK
<1>2. \A k \in Place : /\ LobbyOK(k, lb[k]) /\ lb[k] \in LobbyRecord(k)
                       /\ lb[k].clients \in [Slot(k) -> Client \cup {None}]
  BY IndLobbyOK DEF LobbyOK, LobbyRecord
<1>3. LobbyOK(l, u) /\ u.clients = lb[l].clients /\ u.live = lb[l].live
  <2>1. u = [lb[l] EXCEPT !.bursting = @ /\ ~cl[c].bursting]
    BY DEF Unburst
  <2>2. lb[l] \in LobbyRecord(l) /\ lb[l].num_clients = Cardinality(Occupied(lb[l]))
    BY <1>1, <1>2 DEF LobbyOK
  <2> HIDE DEF u, l
  <2>3. u \in LobbyRecord(l) /\ u.clients = lb[l].clients /\ u.live = lb[l].live
        /\ u.num_clients = lb[l].num_clients
    BY <2>1, <2>2 DEF LobbyRecord
  <2> QED BY <2>2, <2>3 DEF LobbyOK, Occupied
<1>4. LET s == WithoutClient(u, i)
      IN LobbyOK(l, s) /\ s.clients = [lb[l].clients EXCEPT ![i] = None] /\ s.live = lb[l].live
  BY <1>3, LeavingOK
<1>5. /\ MayLeave(l)
      /\ cl' = [cl EXCEPT ![c] = r]
      /\ lb' = [lb EXCEPT ![l] = IF freed THEN NoTeam(l) ELSE WithoutClient(u, i)]
      /\ num_games' = IF freed THEN num_games - 1 ELSE num_games
      /\ DOMAIN pkt_queue' = Place /\ DOMAIN burst_queue' = Place /\ now' = now
  BY DEF RemovePlayer, Drained, Ind, TypeOK
<1>6. freed => l \in Team /\ Occupied(lb[l]) = {i}
  BY <1>1, <1>2, OnlyMember DEF Frees
<1>7. l \in Team /\ ~freed => Occupied(lb[l]) # {i}
  BY <1>1, <1>2, OnlyMember DEF Frees
<1> HIDE DEF freed, u
<1>8. /\ LobbyOK(l, lb'[l])
      /\ IF freed THEN ~lb'[l].live ELSE lb'[l].live = lb[l].live
      /\ \A j \in Slot(l) : lb'[l].clients[j] = IF j = i THEN None ELSE lb[l].clients[j]
  <2>1. DOMAIN lb = Place
    BY DEF Ind, TypeOK
  <2>2. CASE freed
    <3>1. lb'[l] = EmptyLobby(l)
      BY <1>1, <1>5, <2>1, <2>2 DEF NoTeam
    <3>2. \A j \in Slot(l) : j # i => lb[l].clients[j] = None
      BY <1>1, <1>2, <1>6, <2>2 DEF Occupied
    <3>3. lb'[l].clients = [j \in Slot(l) |-> None]
      BY <1>1, <3>1, EmptyLobbyOK
    <3>4. LobbyOK(l, lb'[l]) /\ ~lb'[l].live
      BY <1>1, <1>6, <2>2, <3>1, EmptyLobbyOK
    <3>5. \A j \in Slot(l) : lb'[l].clients[j] = IF j = i THEN None ELSE lb[l].clients[j]
      BY <3>2, <3>3
    <3> QED BY <2>2, <3>4, <3>5
  <2>3. CASE ~freed
    <3>1. lb'[l] = WithoutClient(u, i)
      BY <1>1, <1>5, <2>1, <2>3
    <3>2. lb[l].clients \in [Slot(l) -> Client \cup {None}]
      BY <1>1, <1>2
    <3> QED BY <1>4, <2>3, <3>1, <3>2
  <2> QED BY <2>2, <2>3
<1>9. \A k \in Place : k # l => lb'[k] = lb[k]
  BY <1>5 DEF Ind, TypeOK
<1>10. TypeOK'
  <2>1. cl' \in [Client -> ClientRecord]
    BY <1>1, <1>5
  <2>2. DOMAIN lb' = Place /\ \A k \in Place : lb'[k] \in LobbyRecord(k)
    BY <1>2, <1>5, <1>8, <1>9 DEF Ind, TypeOK, LobbyOK
  <2>3. num_games' \in Int /\ now' \in Nat
    BY <1>5 DEF Ind, TypeOK
  <2> QED BY <1>5, <2>1, <2>2, <2>3 DEF TypeOK
<1>11. MembershipAgrees'
  <2> DEFINE away == None
             slot == 0
  <2>1. /\ away \in Place \cup {None} /\ away # l /\ away = None
        /\ cl'[c].cur_lobby = away
        /\ \A d \in Client \ {c} : cl'[d] = cl[d]
    BY <1>1, <1>5, LobbyConstants
  <2>2. \A k \in Place : \A j \in Slot(k) :
            lb'[k].clients[j] = IF k = away /\ j = slot THEN c
                                ELSE IF k = l /\ j = i THEN None
                                ELSE lb[k].clients[j]
    BY <1>8, <1>9, LobbyConstants
  <2> HIDE DEF away, slot
  <2> QED BY <1>10, <2>1, <2>2, OneMoves
<1>12. TeamsAccounted'
  <2>1. \A k \in Place : lb'[k].num_clients = Cardinality(Occupied(lb'[k]))
    BY <1>2, <1>8, <1>9 DEF LobbyOK
  <2>2. Occupied(lb'[l]) = Occupied(lb[l]) \ {i}
    <3>1. DOMAIN lb'[l].clients = Slot(l) /\ DOMAIN lb[l].clients = Slot(l)
      BY <1>1, <1>2, <1>8 DEF LobbyOK, LobbyRecord
    <3> QED BY <1>8, <3>1 DEF Occupied
  <2>3. \A k \in Team : lb'[k].live <=> Occupied(lb'[k]) # {}
    <3> SUFFICES ASSUME NEW k \in Team PROVE lb'[k].live <=> Occupied(lb'[k]) # {}
      OBVIOUS
    <3>1. lb[k].live <=> Occupied(lb[k]) # {}
      BY DEF Ind, TeamsAccounted
    <3>2. CASE k # l
      BY <3>1, <3>2, <1>9 DEF Place
    <3>3. CASE k = l /\ freed
      BY <3>3, <1>6, <1>8, <2>2
    <3>4. CASE k = l /\ ~freed
      BY <3>1, <3>4, <1>1, <1>7, <1>8, <2>2
    <3> QED BY <3>2, <3>3, <3>4
  <2>4. num_games' = Cardinality({k \in Team : lb'[k].live})
    <3> DEFINE Old == {k \in Team : lb[k].live}
               New == {k \in Team : lb'[k].live}
    <3>1. IsFiniteSet(Old) /\ num_games = Cardinality(Old)
      BY FS_Subset, LobbyConstants DEF Ind, TeamsAccounted
    <3>2. \A k \in Team : k # l => lb'[k].live = lb[k].live
      BY <1>9 DEF Place
    <3>3. CASE freed
      <4>1. New = Old \ {l} /\ l \in Old
        BY <1>6, <1>8, <3>2, <3>3 DEF Ind, TeamsAccounted
      <4> HIDE DEF Old, New
      <4>2. Cardinality(New) = Cardinality(Old) - 1
        BY <3>1, <4>1, FS_RemoveElement
      <4> QED BY <1>5, <3>1, <3>3, <4>2 DEF New
    <3>4. CASE ~freed
      <4>1. New = Old
        BY <1>8, <3>2, <3>4
      <4> QED BY <1>5, <3>1, <3>4, <4>1
    <3> QED BY <3>3, <3>4
  <2> QED BY <2>1, <2>3, <2>4 DEF TeamsAccounted
<1> QED BY <1>10, <1>11, <1>12 DEF Ind

\* The record of a client that has just been put in lobby l.
LEMMA SeatedOK ==
    ASSUME Ind, NEW c \in Client, NEW l \in Place, NEW r, LobbyOK(l, r),
           r.num_clients < MaxClients(l)
    PROVE  /\ Seated(c, l, r) \in ClientRecord
           /\ Seated(c, l, r).cur_lobby = l
           /\ Seated(c, l, r).client_id = FreeSlot(l, r)
           /\ Seated(c, l, r).on = cl[c].on
<1>1. cl[c] \in ClientRecord /\ now \in Nat
  BY DEF Ind, TypeOK
<1>2. FreeSlot(l, r) \in Nat
  BY FreeSlotIsFree, SlotFinite
<1> QED BY <1>1, <1>2 DEF Seated, ClientRecord

\* lobby_add_to_any, for a client in no lobby.
LEMMA EnterLobbyKeepsInd ==
    ASSUME Ind, NEW c \in Client, NEW req \in Default, EnterLobby(c, req)
    PROVE  Ind'
<1> DEFINE Open == {d \in Default : HasRoom(d)}
           l == IF HasRoom(req) THEN req ELSE Min(Open)
<1>1. l \in Default /\ HasRoom(l)
  <2>1. Open \in SUBSET Nat /\ Open # {}
    BY LobbyConstants DEF EnterLobby
  <2>2. Min(Open) \in Open
    <3> HIDE DEF Open
    <3> QED BY <2>1, MinOfNat
  <2> QED BY <2>2
<1>2. l \in Place /\ l \notin Team /\ l # None
  BY <1>1, LobbyConstants DEF Place
<1>3. /\ cl[c].on /\ cl[c].cur_lobby = None
      /\ cl' = [cl EXCEPT ![c] = Seated(c, l, lb[l])]
      /\ lb' = [lb EXCEPT ![l] = WithClient(l, @, c)]
      /\ UNCHANGED <<queues, num_games, now>>
  BY DEF EnterLobby
<1> HIDE DEF l
<1>4. LobbyOK(l, lb[l]) /\ lb[l].num_clients < MaxClients(l) /\ DOMAIN lb = Place
  BY <1>1, <1>2, IndLobbyOK DEF HasRoom, Ind, TypeOK
<1>5. /\ LobbyOK(l, lb'[l]) /\ lb'[l].live = lb[l].live
      /\ lb'[l].clients = [lb[l].clients EXCEPT ![FreeSlot(l, lb[l])] = c]
  BY <1>2, <1>3, <1>4, WithClientOK
<1>6. /\ cl'[c] \in ClientRecord /\ cl'[c].cur_lobby = l /\ cl'[c].on
      /\ cl'[c].client_id = FreeSlot(l, lb[l])
      /\ cl' \in [Client -> ClientRecord]
      /\ \A d \in Client \ {c} : cl'[d] = cl[d]
  BY <1>2, <1>3, <1>4, SeatedOK DEF Ind, TypeOK
<1>7. \A k \in Place \ {l} : lb'[k] = lb[k]
  BY <1>3 DEF Ind, TypeOK
<1>8. TypeOK'
  BY <1>3, <1>5, <1>6, <1>7 DEF Ind, TypeOK, LobbyOK, queues
<1>9. cl[c].cur_lobby \notin Place /\ cl[c].cur_lobby \notin Team /\ l # cl[c].cur_lobby
  BY <1>2, <1>3, LobbyConstants DEF Place
<1>10. \A k \in Place \ {l} :
           lb'[k] = IF k = cl[c].cur_lobby THEN WithoutClient(lb[k], cl[c].client_id)
                    ELSE lb[k]
  BY <1>7, <1>9
<1>11. num_games' = IF lb[l].live /\ ~lb[l].live THEN num_games + 1 ELSE num_games
  BY <1>3
<1> QED BY <1>2, <1>4, <1>5, <1>6, <1>8, <1>9, <1>10, <1>11, ClientEnters

\* The two moves of lobby_change_lobby: s is the record of the new lobby t, r
\* what it was before the client came.
LEMMA MoveKeepsInd ==
    ASSUME Ind, NEW c \in Client, InDefault(c), NEW t \in Place, t # cl[c].cur_lobby,
           NEW r, LobbyOK(t, r), r.clients = lb[t].clients,
           r.num_clients < MaxClients(t),
           t \in Team => r.live, t \in Default => r.live = lb[t].live,
           NEW s, LobbyOK(t, s), s.live = r.live,
           s.clients = [r.clients EXCEPT ![FreeSlot(t, r)] = c],
           NEW q \in ClientRecord, q.cur_lobby = t, q.client_id = FreeSlot(t, r), q.on,
           cl' = [cl EXCEPT ![c] = q],
           lb' = [lb EXCEPT ![t] = s,
                            ![cl[c].cur_lobby] = WithoutClient(@, cl[c].client_id)],
           num_games' = IF r.live /\ ~lb[t].live THEN num_games + 1 ELSE num_games,
           UNCHANGED <<queues, now>>
    PROVE  Ind'
<1> DEFINE l == cl[c].cur_lobby
<1>1. l \in Place /\ l \notin Team /\ l # None /\ DOMAIN lb = Place
  BY LobbyConstants DEF InDefault, Place, Ind, TypeOK
<1>2. lb'[t] = s /\ lb'[l] = WithoutClient(lb[l], cl[c].client_id)
      /\ \A k \in Place : k # t /\ k # l => lb'[k] = lb[k]
  BY <1>1
<1>3. \A k \in Place \ {t} :
          lb'[k] = IF k = l THEN WithoutClient(lb[k], cl[c].client_id) ELSE lb[k]
  BY <1>2
<1>4. LobbyOK(l, lb'[l])
  BY <1>1, <1>2, IndLobbyOK, LeavingOK
<1>5. \A k \in Place : lb'[k] \in LobbyRecord(k)
  <2>1. \A k \in Place : lb[k] \in LobbyRecord(k)
    BY DEF Ind, TypeOK
  <2> QED BY <1>2, <1>4, <2>1 DEF LobbyOK
<1>6. cl' \in [Client -> ClientRecord] /\ cl'[c] = q
      /\ \A d \in Client \ {c} : cl'[d] = cl[d]
  BY DEF Ind, TypeOK
<1>7. num_games' \in Int
  BY DEF Ind, TypeOK
<1>8. TypeOK'
  BY <1>5, <1>6, <1>7 DEF Ind, TypeOK, queues
<1> HIDE DEF l
<1> QED BY <1>1, <1>2, <1>3, <1>6, <1>8, ClientEnters DEF l

\* lobby_change_lobby between two default lobbies.
LEMMA ChangeLobbyKeepsInd ==
    ASSUME Ind, NEW c \in Client, NEW req \in Default, ChangeLobby(c, req)
    PROVE  Ind'
<1> DEFINE r == lb[req]
           s == WithClient(req, r, c)
           q == Seated(c, req, r)
<1>1. req \in Place /\ req \notin Team
  BY LobbyConstants DEF Place
<1>2. LobbyOK(req, r) /\ r.num_clients < MaxClients(req)
  BY <1>1, IndLobbyOK DEF ChangeLobby, HasRoom
<1>3. LobbyOK(req, s) /\ s.live = r.live
      /\ s.clients = [r.clients EXCEPT ![FreeSlot(req, r)] = c]
  BY <1>1, <1>2, WithClientOK
<1>4. cl[c].on
  BY MemberSlot, LobbyConstants DEF ChangeLobby, InDefault, Place
<1>5. q \in ClientRecord /\ q.cur_lobby = req /\ q.client_id = FreeSlot(req, r) /\ q.on
  BY <1>1, <1>2, <1>4, SeatedOK
<1>6. /\ cl' = [cl EXCEPT ![c] = q]
      /\ lb' = [lb EXCEPT ![req] = s,
                          ![cl[c].cur_lobby] = WithoutClient(@, cl[c].client_id)]
      /\ InDefault(c) /\ req # cl[c].cur_lobby
      /\ num_games' = num_games /\ UNCHANGED <<queues, now>>
  <2>1. DOMAIN lb = Place
    BY DEF Ind, TypeOK
  <2> QED BY <1>1, <2>1 DEF ChangeLobby
<1> HIDE DEF s, q
<1>7. num_games' = IF r.live /\ ~lb[req].live THEN num_games + 1 ELSE num_games
  BY <1>6
<1> HIDE DEF r
<1>8. r.clients = lb[req].clients /\ r.live = lb[req].live
  BY DEF r
<1> QED BY <1>1, <1>2, <1>3, <1>5, <1>6, <1>7, <1>8, MoveKeepsInd

\* A team its new member bursts into.
LEMMA BurstingTeamOK ==
    ASSUME NEW c \in Client, NEW t \in Team, NEW r, LobbyOK(t, r),
           r.num_clients < MaxClients(t)
    PROVE  LET s == [WithClient(t, r, c) EXCEPT !.bursting = TRUE]
           IN  /\ LobbyOK(t, s)
               /\ s.clients = [r.clients EXCEPT ![FreeSlot(t, r)] = c]
               /\ s.live = r.live
<1> DEFINE w == WithClient(t, r, c)
           s == [w EXCEPT !.bursting = TRUE]
<1>1. t \in Place
  BY DEF Place
<1>2. LobbyOK(t, w) /\ w.live = r.live
      /\ w.clients = [r.clients EXCEPT ![FreeSlot(t, r)] = c]
  BY <1>1, WithClientOK
<1> HIDE DEF w
<1>3. w \in LobbyRecord(t) /\ w.num_clients = Cardinality(Occupied(w))
  BY <1>2 DEF LobbyOK
<1>4. s \in LobbyRecord(t) /\ s.clients = w.clients /\ s.live = w.live
      /\ s.num_clients = w.num_clients
  BY <1>3 DEF LobbyRecord
<1> HIDE DEF s
<1>5. LobbyOK(t, s)
  BY <1>3, <1>4 DEF LobbyOK, Occupied
<1> QED BY <1>2, <1>4, <1>5 DEF w, s

\* lobby_change_lobby into a team that has room for the client.
LEMMA MoveToTeamKeepsInd ==
    ASSUME Ind, NEW c \in Client, InDefault(c), NEW t \in Team,
           NEW r, LobbyOK(t, r), r.clients = lb[t].clients,
           r.num_clients < MaxClients(t), r.live, MoveToTeam(c, t, r),
           num_games' = IF r.live /\ ~lb[t].live THEN num_games + 1 ELSE num_games
    PROVE  Ind'
<1> DEFINE s == [WithClient(t, r, c) EXCEPT !.bursting = TRUE]
           p == Seated(c, t, r)
           q == [p EXCEPT !.bursting = TRUE]
<1>1. t \in Place /\ t \notin Default /\ t # cl[c].cur_lobby
  BY LobbyConstants DEF Place, InDefault
<1>2. cl[c].on
  BY MemberSlot, LobbyConstants DEF InDefault, Place
<1>3. p \in ClientRecord /\ p.cur_lobby = t /\ p.client_id = FreeSlot(t, r) /\ p.on
  BY <1>1, <1>2, SeatedOK
<1>4. /\ cl' = [cl EXCEPT ![c] = q]
      /\ lb' = [lb EXCEPT ![t] = s,
                          ![cl[c].cur_lobby] = WithoutClient(@, cl[c].client_id)]
      /\ UNCHANGED <<queues, now>>
  BY DEF MoveToTeam
<1>5. LobbyOK(t, s) /\ s.live = r.live
      /\ s.clients = [r.clients EXCEPT ![FreeSlot(t, r)] = c]
  BY BurstingTeamOK
<1> HIDE DEF p
<1>6. q \in ClientRecord /\ q.cur_lobby = t /\ q.client_id = FreeSlot(t, r) /\ q.on
  BY <1>3 DEF ClientRecord
<1> HIDE DEF s, q
<1> QED BY <1>1, <1>4, <1>5, <1>6, MoveKeepsInd

\* A free team id holds an empty record, and a new team is one with nobody in it.
LEMMA NewTeamOK ==
    ASSUME Ind, NEW t \in Team, ~lb[t].live, NEW c
    PROVE  /\ LobbyOK(t, NewTeam(t, c)) /\ NewTeam(t, c).live
           /\ NewTeam(t, c).clients = lb[t].clients
           /\ NewTeam(t, c).num_clients < MaxClients(t)
<1> DEFINE e == NoTeam(t)
<1>1. t \in Place /\ 1 \in Slot(t) /\ MaxClients(t) \in Nat \ {0}
  BY SlotFinite DEF Place
<1>2. LobbyOK(t, e) /\ e.clients = [j \in Slot(t) |-> None] /\ Occupied(e) = {}
  BY <1>1, EmptyLobbyOK DEF NoTeam
<1>3. e.num_clients = 0
  BY DEF NoTeam, EmptyLobby
<1>4. lb[t].clients = [j \in Slot(t) |-> None]
  <2>1. lb[t].clients \in [Slot(t) -> Client \cup {None}] /\ Occupied(lb[t]) = {}
    BY <1>1 DEF Ind, TypeOK, TeamsAccounted, LobbyRecord
  <2> QED BY <2>1 DEF Occupied
<1>5. NewTeam(t, c) = [e EXCEPT !.live = TRUE, !.leader_id = 1, !.pre_gc = c \in PreGC]
  BY DEF NewTeam
<1> HIDE DEF e
<1> DEFINE n == NewTeam(t, c)
<1>6. /\ n \in LobbyRecord(t) /\ n.live
      /\ n.clients = e.clients /\ n.num_clients = e.num_clients
  <2> DEFINE b == c \in PreGC
  <2>1. e \in LobbyRecord(t) /\ b \in BOOLEAN
    BY <1>2 DEF LobbyOK
  <2>2. n = [e EXCEPT !.live = TRUE, !.leader_id = 1, !.pre_gc = b]
    BY <1>5
  <2> HIDE DEF n, b
  <2> QED BY <1>1, <2>1, <2>2 DEF LobbyRecord
<1> HIDE DEF n
<1>7. LobbyOK(t, n)
  BY <1>2, <1>6 DEF LobbyOK, Occupied
<1> QED BY <1>1, <1>2, <1>3, <1>4, <1>6, <1>7 DEF n

\* Renumbering the seconds keeps the clients' records.
LEMMA TickKeepsInd ==
    ASSUME Ind, Tick
    PROVE  Ind'
<1> DEFINE inside == {c \in Client : cl[c].cur_lobby # None}
           used == {cl[c].join_time : c \in inside}
<1>1. IsFiniteSet(used)
  <2>1. IsFiniteSet(inside)
    BY LobbyConstants, FS_Subset
  <2> DEFINE f == [c \in inside |-> cl[c].join_time]
  <2>2. f \in Surjection(inside, used)
    BY DEF Surjection, Range
  <2> HIDE DEF inside, used, f
  <2> QED BY <2>1, <2>2, FS_Surjection
<1> HIDE DEF used
<1>2. \A x : Cardinality({s \in used : s < x}) \in Nat
  <2> SUFFICES ASSUME NEW x PROVE Cardinality({s \in used : s < x}) \in Nat
    OBVIOUS
  <2>1. IsFiniteSet({s \in used : s < x})
    BY <1>1, FS_Subset
  <2> QED BY <2>1, FS_CardinalityType
<1>3. /\ now' = Cardinality(used)
      /\ cl' = [c \in Client |->
                  [cl[c] EXCEPT !.join_time = Cardinality({s \in used : s < @})]]
      /\ UNCHANGED <<lb, queues, num_games>>
  BY DEF Tick, used
<1>4. now' \in Nat
  BY <1>1, <1>3, FS_CardinalityType
<1>5. \A c \in Client :
          /\ cl'[c] \in ClientRecord /\ cl'[c].cur_lobby = cl[c].cur_lobby
          /\ cl'[c].client_id = cl[c].client_id /\ cl'[c].on = cl[c].on
  <2> SUFFICES ASSUME NEW c \in Client
               PROVE  /\ cl'[c] \in ClientRecord /\ cl'[c].cur_lobby = cl[c].cur_lobby
                      /\ cl'[c].client_id = cl[c].client_id /\ cl'[c].on = cl[c].on
    OBVIOUS
  <2> DEFINE n == Cardinality({s \in used : s < cl[c].join_time})
  <2>1. cl[c] \in ClientRecord /\ n \in Nat
    BY <1>2 DEF Ind, TypeOK
  <2>2. cl'[c] = [cl[c] EXCEPT !.join_time = n]
    BY <1>3
  <2> HIDE DEF n
  <2> QED BY <2>1, <2>2 DEF ClientRecord
<1>6. TypeOK'
  <2>1. DOMAIN cl' = Client /\ cl' = [c \in Client |-> cl'[c]]
    BY <1>3
  <2>2. cl' \in [Client -> ClientRecord]
    BY <1>5, <2>1
  <2> QED BY <1>3, <1>4, <2>2 DEF Ind, TypeOK, queues
<1> QED BY <1>3, <1>5, <1>6, NobodyMoves

-----------------------------------------------------------------------------
\* The handlers that move nobody

\* They keep each lobby_t's clients and counters, and who each client is.
SameClient(c) ==
    /\ cl'[c] \in ClientRecord
    /\ cl'[c].cur_lobby = cl[c].cur_lobby /\ cl'[c].client_id = cl[c].client_id
    /\ cl'[c].on = cl[c].on

SameLobby(l) ==
    /\ lb'[l] \in LobbyRecord(l)
    /\ lb'[l].clients = lb[l].clients
    /\ lb'[l].num_clients = lb[l].num_clients
    /\ lb'[l].live = lb[l].live

\* A handler that moves nobody and changes only flags and queues.
LEMMA QuietKeepsInd ==
    ASSUME Ind, DOMAIN cl' = Client, cl' = [c \in Client |-> cl'[c]],
           \A c \in Client : SameClient(c),
           DOMAIN lb' = Place, \A l \in Place : SameLobby(l),
           DOMAIN pkt_queue' = Place, DOMAIN burst_queue' = Place,
           num_games' = num_games, now' = now
    PROVE  Ind'
<1>1. cl' \in [Client -> ClientRecord]
  BY DEF SameClient
<1>2. TypeOK'
  BY <1>1 DEF Ind, TypeOK, SameLobby
<1> QED BY <1>2, NobodyMoves DEF SameClient, SameLobby

\* What a handler does that changes the flags of one client.
LEMMA FlagOfClient ==
    ASSUME Ind, NEW c \in Client, NEW b \in BOOLEAN,
           \/ cl' = cl
           \/ cl' = [cl EXCEPT ![c].bursting = b]
           \/ cl' = [cl EXCEPT ![c].wait_qping = b]
           \/ cl' = [cl EXCEPT ![c].selecting = b]
           \/ cl' = [cl EXCEPT ![c].bursting = b, ![c].wait_qping = b]
    PROVE  /\ DOMAIN cl' = Client /\ cl' = [d \in Client |-> cl'[d]]
           /\ \A d \in Client : SameClient(d)
<1>1. cl \in [Client -> ClientRecord]
  BY DEF Ind, TypeOK
<1>2. DOMAIN cl' = Client /\ cl' = [d \in Client |-> cl'[d]]
  BY <1>1
<1>3. \A d \in Client \ {c} : cl'[d] = cl[d]
  BY <1>1
<1>4. SameClient(c)
  BY <1>1 DEF SameClient, ClientRecord
<1>5. \A d \in Client \ {c} : SameClient(d)
  BY <1>1, <1>3 DEF SameClient
<1> QED BY <1>2, <1>4, <1>5

\* What a handler does that changes the flags of one lobby.
LEMMA FlagOfLobby ==
    ASSUME Ind, NEW l \in Place, NEW b \in BOOLEAN,
           \/ lb' = lb
           \/ lb' = [lb EXCEPT ![l].bursting = b]
           \/ lb' = [lb EXCEPT ![l].questsel = b]
           \/ lb' = [lb EXCEPT ![l].gc_allowed = b]
           \/ \E j \in BOOLEAN : lb' = [lb EXCEPT ![l].questsel = FALSE,
                                                  ![l].questing = TRUE,
                                                  ![l].joinable = j]
    PROVE  DOMAIN lb' = Place /\ \A k \in Place : SameLobby(k)
<1>1. DOMAIN lb = Place /\ \A k \in Place : lb[k] \in LobbyRecord(k)
  BY DEF Ind, TypeOK
<1>2. DOMAIN lb' = Place /\ \A k \in Place \ {l} : lb'[k] = lb[k]
  BY <1>1
<1>3. SameLobby(l)
  <2>1. CASE lb' = lb
    BY <1>1, <2>1 DEF SameLobby
  <2>2. CASE lb' = [lb EXCEPT ![l].bursting = b]
    BY <1>1, <2>2 DEF SameLobby, LobbyRecord
  <2>3. CASE lb' = [lb EXCEPT ![l].questsel = b]
    BY <1>1, <2>3 DEF SameLobby, LobbyRecord
  <2>4. CASE lb' = [lb EXCEPT ![l].gc_allowed = b]
    BY <1>1, <2>4 DEF SameLobby, LobbyRecord
  <2>5. ASSUME NEW j \in BOOLEAN,
               lb' = [lb EXCEPT ![l].questsel = FALSE, ![l].questing = TRUE,
                                ![l].joinable = j]
        PROVE  SameLobby(l)
    BY <1>1, <2>5 DEF SameLobby, LobbyRecord
  <2> QED BY <2>1, <2>2, <2>3, <2>4, <2>5
<1>4. \A k \in Place \ {l} : SameLobby(k)
  BY <1>1, <1>2 DEF SameLobby
<1> QED BY <1>2, <1>3, <1>4

\* A client in no lobby connects, or is forgotten.
LEMMA OutsiderKeepsInd ==
    ASSUME Ind, NEW c \in Client, cl[c].cur_lobby = None,
           NEW r \in ClientRecord, r.cur_lobby = None,
           cl' = [cl EXCEPT ![c] = r], UNCHANGED <<lb, queues, num_games, now>>
    PROVE  Ind'
<1>1. cl' \in [Client -> ClientRecord]
  BY DEF Ind, TypeOK
<1>2. \A d \in Client : /\ cl'[d].cur_lobby = cl[d].cur_lobby
                        /\ cl[d].cur_lobby = None \/ cl'[d] = cl[d]
  BY DEF Ind, TypeOK
<1>3. TypeOK'
  BY <1>1 DEF Ind, TypeOK, queues
<1> QED BY <1>2, <1>3, NobodyMoves

\* Where a client in a team is.
LEMMA InTeamPlace ==
    ASSUME NEW c \in Client, InTeam(c)
    PROVE  cl[c].cur_lobby \in Place /\ cl[c].cur_lobby # None
BY LobbyConstants DEF InTeam, Place

\* dc_process_done_burst.
LEMMA DoneBurstKeepsInd ==
    ASSUME Ind, NEW c \in Client, DoneBurst(c)
    PROVE  Ind'
<1> DEFINE l == cl[c].cur_lobby
<1>1. l \in Place
  BY InTeamPlace DEF DoneBurst
<1>2. DOMAIN pkt_queue' = Place /\ DOMAIN burst_queue' = Place
      /\ num_games' = num_games /\ now' = now
  BY DEF DoneBurst, Drained, Ind, TypeOK
<1>3. /\ cl' = [cl EXCEPT ![c].wait_qping = TRUE] \/ cl' = [cl EXCEPT ![c].bursting = FALSE]
      /\ lb' = lb \/ lb' = [lb EXCEPT ![l].bursting = FALSE]
  BY DEF DoneBurst
<1>4. /\ DOMAIN cl' = Client /\ cl' = [d \in Client |-> cl'[d]]
      /\ \A d \in Client : SameClient(d)
  BY <1>3, FlagOfClient
<1>5. DOMAIN lb' = Place /\ \A k \in Place : SameLobby(k)
  BY <1>1, <1>3, FlagOfLobby
<1> QED BY <1>2, <1>4, <1>5, QuietKeepsInd

\* The answer to a quest's ping: replayed to, or disconnected.
LEMMA PingReplyKeepsInd ==
    ASSUME Ind, NEW c \in Client, PingReply(c)
    PROVE  Ind'
<1> DEFINE l == cl[c].cur_lobby
<1>1. CASE l = None
  <2>1. Loggedout \in ClientRecord /\ Loggedout.cur_lobby = None
    BY DEF Loggedout, ClientRecord
  <2> QED BY <1>1, <2>1, OutsiderKeepsInd DEF PingReply, Forget
<1>2. CASE l # None
  <2>1. l \in Place
    BY <1>2, MemberSlot
  <2>2. DOMAIN pkt_queue' = Place /\ DOMAIN burst_queue' = Place
        /\ num_games' = num_games /\ now' = now
    BY <1>2 DEF PingReply, Drained, Ind, TypeOK
  <2>3. /\ cl' = [cl EXCEPT ![c].bursting = FALSE, ![c].wait_qping = FALSE]
        /\ lb' = [lb EXCEPT ![l].bursting = FALSE]
    BY <1>2 DEF PingReply
  <2>4. /\ DOMAIN cl' = Client /\ cl' = [d \in Client |-> cl'[d]]
        /\ \A d \in Client : SameClient(d)
    BY <2>3, FlagOfClient
  <2>5. DOMAIN lb' = Place /\ \A k \in Place : SameLobby(k)
    BY <2>1, <2>3, FlagOfLobby
  <2> QED BY <2>2, <2>4, <2>5, QuietKeepsInd
<1> QED BY <1>1, <1>2

\* lobby_setup_quest, refused or carried out.
LEMMA PickQuestKeepsInd ==
    ASSUME Ind, NEW c \in Client, NEW q \in Quest, PickQuest(c, q)
    PROVE  Ind'
<1> DEFINE l == cl[c].cur_lobby
           j == lb[l].joinable \/ q \in Joinable
<1>1. l \in Place
  BY InTeamPlace DEF PickQuest
<1>2. DOMAIN pkt_queue' = Place /\ DOMAIN burst_queue' = Place
      /\ num_games' = num_games /\ now' = now
  BY DEF PickQuest, Ind, TypeOK, queues
<1>3. j \in BOOLEAN
  BY <1>1 DEF Ind, TypeOK, LobbyRecord
<1>4. \/ lb' = [lb EXCEPT ![l].questsel = FALSE]
      \/ lb' = [lb EXCEPT ![l].questsel = FALSE, ![l].questing = TRUE, ![l].joinable = j]
  <2>1. DOMAIN lb = Place /\ lb[l] \in LobbyRecord(l)
    BY <1>1 DEF Ind, TypeOK
  <2> QED BY <1>1, <2>1 DEF PickQuest, LobbyRecord
<1>5. \/ cl' = [cl EXCEPT ![c].selecting = FALSE]
      \/ cl' = [d \in Client |-> IF d \in Members(l)
                                 THEN [cl[d] EXCEPT !.selecting = FALSE]
                                 ELSE cl[d]]
  BY DEF PickQuest
<1>6. /\ DOMAIN cl' = Client /\ cl' = [d \in Client |-> cl'[d]]
      /\ \A d \in Client : SameClient(d)
  <2>1. CASE cl' = [cl EXCEPT ![c].selecting = FALSE]
    BY <2>1, FlagOfClient
  <2>2. CASE cl' = [d \in Client |-> IF d \in Members(l)
                                     THEN [cl[d] EXCEPT !.selecting = FALSE]
                                     ELSE cl[d]]
    <3>1. cl \in [Client -> ClientRecord]
      BY DEF Ind, TypeOK
    <3> DEFINE M == Members(l)
    <3> HIDE DEF M, l, j
    <3>2. cl' = [d \in Client |-> IF d \in M THEN [cl[d] EXCEPT !.selecting = FALSE]
                                  ELSE cl[d]]
      BY <2>2 DEF M
    <3> QED BY <3>1, <3>2 DEF SameClient, ClientRecord
  <2> QED BY <1>5, <2>1, <2>2
<1> HIDE DEF j
<1>7. DOMAIN lb' = Place /\ \A k \in Place : SameLobby(k)
  BY <1>1, <1>3, <1>4, FlagOfLobby
<1> QED BY <1>2, <1>6, <1>7, QuietKeepsInd

-----------------------------------------------------------------------------
\* The induction

\* The block starts with empty default lobbies and no team.
LEMMA InitInd == Init => Ind
<1> SUFFICES ASSUME Init PROVE Ind
  OBVIOUS
<1>1. Loggedout \in ClientRecord /\ Loggedout.cur_lobby = None
  BY DEF Loggedout, ClientRecord
<1>2. \A l \in Place : /\ LobbyOK(l, lb[l]) /\ Occupied(lb[l]) = {}
                       /\ l \in Team => ~lb[l].live
  BY EmptyLobbyOK DEF Init
<1>3. /\ cl = [c \in Client |-> Loggedout]
      /\ DOMAIN lb = Place /\ DOMAIN pkt_queue = Place /\ DOMAIN burst_queue = Place
      /\ num_games = 0 /\ now = 0
  BY DEF Init
<1>4. TypeOK
  <2>1. cl \in [Client -> ClientRecord]
    BY <1>1, <1>3
  <2>2. \A l \in Place : lb[l] \in LobbyRecord(l)
    BY <1>2 DEF LobbyOK
  <2> QED BY <1>3, <2>1, <2>2 DEF TypeOK
<1>5. MembershipAgrees
  <2>1. \A c \in Client : cl[c].cur_lobby = None
    BY <1>1, <1>3
  <2> QED BY <1>2, <2>1 DEF MembershipAgrees
<1>6. TeamsAccounted
  <2>1. {t \in Team : lb[t].live} = {}
    BY <1>2 DEF Place
  <2>2. num_games = Cardinality({t \in Team : lb[t].live})
    BY <1>3, <2>1, FS_EmptySet
  <2>3. \A l \in Place : lb[l].num_clients = Cardinality(Occupied(lb[l]))
    BY <1>2 DEF LobbyOK
  <2>4. \A t \in Team : lb[t].live <=> Occupied(lb[t]) # {}
    BY <1>2 DEF Place
  <2> QED BY <2>2, <2>3, <2>4 DEF TeamsAccounted
<1> QED BY <1>4, <1>5, <1>6 DEF Ind

\* Every handler of a client's packet keeps the invariant.
LEMMA HandlerKeepsInd ==
    ASSUME Ind, NEW c \in Client, Handler(c)
    PROVE  Ind'
<1> DEFINE l == cl[c].cur_lobby
<1>1. Loggedout \in ClientRecord /\ Loggedout.cur_lobby = None
  BY DEF Loggedout, ClientRecord
<1>2. cl[c] \in ClientRecord /\ DOMAIN cl = Client /\ DOMAIN lb = Place
      /\ DOMAIN pkt_queue = Place /\ DOMAIN burst_queue = Place
  BY DEF Ind, TypeOK
<1>3. CASE Login(c)
  <2>1. l = None
    BY <1>3, MemberSlot DEF Login
  <2> DEFINE r == [cl[c] EXCEPT !.on = TRUE]
  <2>2. r \in ClientRecord /\ r.cur_lobby = None
    BY <1>2, <2>1 DEF ClientRecord
  <2>3. cl' = [cl EXCEPT ![c] = r]
    BY <1>2, <1>3 DEF Login
  <2> HIDE DEF r
  <2> QED BY <1>3, <2>1, <2>2, <2>3, OutsiderKeepsInd DEF Login
<1>4. ASSUME NEW d \in Default, EnterLobby(c, d) PROVE Ind'
  BY <1>4, EnterLobbyKeepsInd
<1>5. ASSUME NEW d \in Default, ChangeLobby(c, d) PROVE Ind'
  BY <1>5, ChangeLobbyKeepsInd
<1>6. ASSUME NEW t \in Team, CreateTeam(c, t) PROVE Ind'
  <2> DEFINE r == NewTeam(t, c)
  <2>1. LobbyOK(t, r) /\ r.clients = lb[t].clients /\ r.num_clients < MaxClients(t) /\ r.live
    BY <1>6, NewTeamOK DEF CreateTeam
  <2>2. InDefault(c) /\ MoveToTeam(c, t, r) /\ ~lb[t].live /\ num_games' = num_games + 1
    BY <1>6 DEF CreateTeam
  <2> HIDE DEF r
  <2>3. num_games' = IF r.live /\ ~lb[t].live THEN num_games + 1 ELSE num_games
    BY <2>1, <2>2
  <2> QED BY <2>1, <2>2, <2>3, MoveToTeamKeepsInd
<1>7. ASSUME NEW t \in Team, JoinTeam(c, t) PROVE Ind'
  <2> DEFINE r == lb[t]
  <2>1. LobbyOK(t, r) /\ r.clients = lb[t].clients /\ r.num_clients < MaxClients(t) /\ r.live
    BY <1>7, IndLobbyOK DEF JoinTeam, HasRoom, Place
  <2>2. InDefault(c) /\ MoveToTeam(c, t, r)
    BY <1>7 DEF JoinTeam
  <2>3. num_games' = IF r.live /\ ~lb[t].live THEN num_games + 1 ELSE num_games
    BY <1>7 DEF JoinTeam
  <2> HIDE DEF r
  <2> QED BY <2>1, <2>2, <2>3, MoveToTeamKeepsInd
<1>8. CASE LeaveTeam(c)
  <2> DEFINE r == [cl[c] EXCEPT !.cur_lobby = None, !.client_id = 0, !.selecting = FALSE]
  <2>1. r \in ClientRecord /\ r.cur_lobby = None
    BY <1>2 DEF ClientRecord
  <2>2. l # None /\ RemovePlayer(c, r)
    BY <1>8, InTeamPlace DEF LeaveTeam
  <2> HIDE DEF r
  <2> QED BY <2>1, <2>2, RemovePlayerKeepsInd
<1>9. CASE Disconnect(c)
  <2>1. CASE l = None
    BY <1>1, <1>9, <2>1, OutsiderKeepsInd DEF Disconnect, Forget
  <2>2. CASE l # None
    BY <1>1, <1>9, <2>2, RemovePlayerKeepsInd DEF Disconnect
  <2> QED BY <2>1, <2>2
<1>10. CASE DoneBurst(c)
  BY <1>10, DoneBurstKeepsInd
<1>11. CASE PingReply(c)
  BY <1>11, PingReplyKeepsInd
<1>12. CASE SendGamePacket(c)
  BY <1>12, <1>2, FlagOfClient, FlagOfLobby, QuietKeepsInd, InTeamPlace DEF SendGamePacket
<1>13. ASSUME NEW d \in Client, SendBurst(c, d) PROVE Ind'
  BY <1>13, <1>2, FlagOfClient, FlagOfLobby, QuietKeepsInd, InTeamPlace DEF SendBurst
<1>14. CASE OpenQuestList(c)
  BY <1>14, <1>2, FlagOfClient, FlagOfLobby, QuietKeepsInd, InTeamPlace
     DEF OpenQuestList, queues
<1>15. CASE CloseQuestList(c)
  BY <1>15, <1>2, FlagOfClient, FlagOfLobby, QuietKeepsInd, InTeamPlace
     DEF CloseQuestList, queues
<1>16. ASSUME NEW q \in Quest, PickQuest(c, q) PROVE Ind'
  BY <1>16, PickQuestKeepsInd
<1>17. ASSUME NEW a \in BOOLEAN, AllowGC(c, a) PROVE Ind'
  BY <1>17, <1>2, FlagOfClient, FlagOfLobby, QuietKeepsInd, InTeamPlace
     DEF AllowGC, queues
<1> QED BY <1>3, <1>4, <1>5, <1>6, <1>7, <1>8, <1>9, <1>10, <1>11, <1>12, <1>13,
           <1>14, <1>15, <1>16, <1>17 DEF Handler

\* So does every step, stuttering included: the invariant is inductive.
LEMMA StepInd == Ind /\ [Next]_vars => Ind'
<1> SUFFICES ASSUME Ind, [Next]_vars PROVE Ind'
  OBVIOUS
<1>1. CASE Tick
  BY <1>1, TickKeepsInd
<1>2. ASSUME NEW c \in Client, Handler(c) PROVE Ind'
  BY <1>2, HandlerKeepsInd
<1>3. CASE UNCHANGED vars
  BY <1>3 DEF vars, Ind, TypeOK, MembershipAgrees, TeamsAccounted, Occupied
<1> QED BY <1>1, <1>2, <1>3 DEF Next

\* The invariant holds in every state the block reaches.
LEMMA SpecInd == Spec => []Ind
BY InitInd, StepInd, PTL DEF Spec

\* The variables keep their types: leader_id never leaves the slots of its
\* lobby, whatever an election finds.
THEOREM TypeCorrect == Spec => []TypeOK
<1>1. Ind => TypeOK
  BY DEF Ind
<1> QED BY <1>1, SpecInd, PTL

\* The client's view of where it is (cur_lobby, client_id) and the lobby's view
\* of who is in it (clients[]) agree after every handler.
THEOREM MembershipCorrect == Spec => []MembershipAgrees
<1>1. Ind => MembershipAgrees
  BY DEF Ind
<1> QED BY <1>1, SpecInd, PTL

\* num_clients, the existence of the teams and num_games are right after every
\* handler: no team leaks and none is freed under a member.
THEOREM AccountingCorrect == Spec => []TeamsAccounted
<1>1. Ind => TeamsAccounted
  BY DEF Ind
<1> QED BY <1>1, SpecInd, PTL
=============================================================================
