----------------------------- MODULE BlockLocks -----------------------------
(***************************************************************************)
(* The locks of a ship's blocks, and the threads that take them: one       *)
(* thread per block (block_thd), which serves the clients of its block,    *)
(* and the ship's own (ship_thd), which serves the shipgate and changes    *)
(* the lobby event.  A handler is the sequence of locks it takes and gives *)
(* back; what it does between is left out.                                 *)
(*                                                                         *)
(* Five kinds of lock: a block's list of clients (block_t.lock) and of     *)
(* lobbies (lobby_lock), both for many readers or one writer; a lobby's    *)
(* mutex and that of the scripts, not recursive; a client's, recursive.    *)
(***************************************************************************)
EXTENDS Naturals, Sequences, SequencesExt, FiniteSets

CONSTANTS
    Block,          \* the blocks; a thread is named after its block
    Ship,           \* the ship's thread
    List,           \* the clients of each block, in the order of block_t.clients
    Lobby,          \* the lobbies of each block, in the order of block_t.lobbies
    In,             \* the clients in each lobby, in the order of their slots
    Served,         \* the kinds of handler that run
    Relock          \* what a mutex that is not recursive does when its holder
                    \* locks it: "hangs", or "fails" and the caller goes on

Thread == Block \cup {Ship}
ListedClient == UNION {ToSet(List[b]) : b \in Block}
ListedLobby == UNION {ToSet(Lobby[b]) : b \in Block}

\* A client and a lobby belong to one block, and who is in a lobby of a block is one
\* of the block's clients.
ASSUME BlockLocksConstants ==
    /\ IsFiniteSet(Block) /\ Ship \notin Block
    /\ List \in [Block -> Seq(ListedClient)]
    /\ Lobby \in [Block -> Seq(ListedLobby)]
    /\ In \in [ListedLobby -> Seq(ListedClient)]
    /\ \A b \in Block : \A l \in ToSet(Lobby[b]) : ToSet(In[l]) \subseteq ToSet(List[b])
    /\ \A a, b \in Block : a # b =>
          ToSet(Lobby[a]) \cap ToSet(Lobby[b]) = {} /\ ToSet(List[a]) \cap ToSet(List[b]) = {}
    /\ Relock \in {"hangs", "fails"}

VARIABLES todo,     \* what is left of each thread's handler
          held      \* the locks each thread holds, as often as it holds them

vars == <<todo, held>>

-----------------------------------------------------------------------------
\* Locks, and the handlers written with them

Clients(b) == <<"block_t.lock", b>>
Lobbies(b) == <<"block_t.lobby_lock", b>>
LobbyMutex(l) == <<"lobby_t.mutex", l>>
ClientMutex(c) == <<"ship_client_t.mutex", c>>
ScriptMutex == <<"script_mutex", "all">>
NotRecursive == {"lobby_t.mutex", "script_mutex"}

Take(mode, lock) == [do |-> mode, lock |-> lock]
Within(mode, lock, body) ==
    <<Take(mode, lock)>> \o body \o <<Take("release", lock)>>

Each(seq, Body(_)) == FlattenSeq([i \in DOMAIN seq |-> Body(seq[i])])
Blocks == SetToSeq(Block)

\* Something is sent to c, or c is looked at, under its own lock.
Visit(c) == Within("lock", ClientMutex(c), <<>>)

\* block_thd serves a packet of c.
Request(b, c, body) ==
    Within("read", Clients(b), Within("lock", ClientMutex(c), body))

\* A game packet: its handler runs under the lobby's mutex.  One that is held
\* back, or handled after having been, or that changes somebody's HP or TP
\* (send_lobby_mod_stat), locks that mutex once more.
Packet(l) == Within("lock", LobbyMutex(l), <<>>)
HeldBack(l) == Within("lock", LobbyMutex(l), Packet(l))

\* The drop of an enemy or a box in a Blue Burst team: the item is put on the floor
\* under the mutex the packet's handler runs under.
BBDrop(l) == Within("lock", LobbyMutex(l), Packet(l))

\* The scripts of an event, and those of a packet nobody knows, are run under the one
\* mutex for all scripts; often, as when a client changes areas, under the lobby's.
Script == Within("lock", ScriptMutex, <<>>)
ScriptPacket == Script
ScriptInLobby(l) == Within("lock", LobbyMutex(l), Script)

\* The script of a quest that is being set up: script_execute_file does not unlock.
QuestScript(l) == Within("lock", LobbyMutex(l), Script \o <<Take("lock", ScriptMutex)>>)

\* A script comes from the shipgate.
ScriptAdded == Script

\* send_game_list
GameList(b) == Within("read", Lobbies(b), Each(Lobby[b], Packet))

\* Everybody in lobby l but c is told.
Others(l, c) == Each(In[l], LAMBDA d : IF d = c THEN <<>> ELSE Visit(d))

\* lobby_check_client_legit locks the client once more, and gives that back; but not
\* from a client of Episode 3 or Blue Burst, whose items it cannot check.
LegitCheck(c) == Visit(c)
LegitUnknown(c) == <<Take("lock", ClientMutex(c))>>

\* lobby_change_lobby from a default lobby l to m, for a team (join_game), for
\* another default lobby (0x84, under lobby_lock) and after lobby_create_game has
\* listed a new team.  A team in legit mode checks the client.
Move(c, l, m, check) ==
    Within("lock", LobbyMutex(l),
        Within("lock", LobbyMutex(m), check \o Others(l, c) \o Others(m, c)))
ChangeLobby(b, c, l, m, check) == Within("read", Lobbies(b), Move(c, l, m, check))
CreateTeam(b, c, l, m, check) == Within("write", Lobbies(b), <<>>) \o Move(c, l, m, check)

\* lobby_add_to_any: the lobbies of the block are locked in turn up to l, which has
\* room; and those in l are told.
UpTo(b, l) == SubSeq(Lobby[b], 1, CHOOSE n \in DOMAIN Lobby[b] : Lobby[b][n] = l)
Arrive(b, c, l) == Each(UpTo(b, l), Packet) \o Others(l, c)

\* From no lobby: by 0x84, or with the client's character (dc_process_char), which is
\* copied under the client's mutex; at the first login of a session a script is run.
ArriveAgain(b, c, l) == Within("read", Lobbies(b), Arrive(b, c, l))
Character(b, c, l, script) == Within("lock", ClientMutex(c), Arrive(b, c, l) \o script)

\* A level above the highest ends dc_process_char with that mutex locked.
HackedCharacter(c) == <<Take("lock", ClientMutex(c))>>

\* lobby_remove_player from l, which destroys an empty team; and the character of a
\* client that leaves a team (0x98), copied before.
Leave(b, c, l) ==
    Within("lock", LobbyMutex(l),
        Others(l, c)
        \o IF ToSet(In[l]) \subseteq {c} THEN Within("write", Lobbies(b), <<>>) ELSE <<>>)

LeaveGame(b, c, l) == Visit(c) \o Leave(b, c, l)

\* The end of block_thd's loop, for a client that is gone, and a new connection.
CleanUp(b, c, l) == Within("write", Clients(b), Leave(b, c, l))
Accept(b) == Within("write", Clients(b), <<>>)

\* A guild card search, a mail, a list of players: on every block, those found.
Search(found) ==
    Each(Blocks, LAMBDA a :
        Within("read", Clients(a),
            Each(List[a], LAMBDA d : IF d \in found THEN Visit(d) ELSE <<>>)))

\* update_lobby_event, for a GM or by the calendar.
Event ==
    Each(Blocks, LAMBDA b :
        Within("read", Lobbies(b),
            Each(Lobby[b], LAMBDA l : Within("lock", LobbyMutex(l), Each(In[l], Visit)))))

\* A reply of the shipgate, looked for among these clients of b and found, if it
\* is, at the last of them.  Blocks searched before b are handlers of their own.
Reply_Inverted(b, seen) ==
    Within("lock", ClientMutex(Last(seen)), Within("read", Clients(b), <<>>))
Reply_Kept(b, seen) ==
    Within("read", Clients(b), Each(Front(seen), Visit) \o <<Head(Visit(Last(seen)))>>)
Reply(b, seen) == Within("read", Clients(b), Each(seen, Visit))

\* A quest flag from the shipgate, which needs the lobby too (handle_qflag); a
\* long flag that nobody asked for, or with a number too high, is dropped by an early
\* return, and so is an error that answers one (handle_qflag_err).
FlagReply(b, c, l) ==
    Within("read", Clients(b), Within("lock", ClientMutex(c), Packet(l)))
StrayFlagReply(b, c) ==
    <<Take("read", Clients(b)), Take("lock", ClientMutex(c))>>

\* What a thread may run: the kind of the handler, and its locks.
Moves(b, c, l) ==
    UNION {{<<"unknown legit", Move(c, l, m, LegitUnknown(c))>>}
           \cup UNION {{<<"move", Move(c, l, m, check)>>, <<"move", ChangeLobby(b, c, l, m, check)>>,
                         <<"move", CreateTeam(b, c, l, m, check)>>} : check \in {<<>>, LegitCheck(c)}}
           : m \in ToSet(Lobby[b]) \ {l}}

OfClient(b, c, l) ==
    {<<"packet", Packet(l)>>, <<"held back", HeldBack(l)>>, <<"bb drop", BBDrop(l)>>,
     <<"game list", GameList(b)>>, <<"leave", LeaveGame(b, c, l)>>, <<"event", Event>>,
     <<"script", Script>>, <<"script", ScriptPacket>>, <<"script", ScriptInLobby(l)>>,
     <<"quest script", QuestScript(l)>>,
     <<"character", Character(b, c, l, <<>>)>>, <<"character", Character(b, c, l, Script)>>,
     <<"character", ArriveAgain(b, c, l)>>, <<"hacked character", HackedCharacter(c)>>}
    \cup {<<"search", Search(found)>> : found \in SUBSET ListedClient}
    \cup Moves(b, c, l)

\* The clients of b, each with its lobby.
Seated(b) == {p \in ToSet(List[b]) \X ToSet(Lobby[b]) : p[1] \in ToSet(In[p[2]])}

OfBlock(b) ==
    {<<"accept", Accept(b)>>}
    \cup UNION {
        {<<h[1], Request(b, cl[1], h[2])>> : h \in OfClient(b, cl[1], cl[2])}
            \cup {<<"clean up", CleanUp(b, cl[1], cl[2])>>}
        : cl \in Seated(b)}

OfShip ==
    {<<"event", Event>>, <<"script", ScriptAdded>>}
    \cup UNION {
        {<<"reply", Reply(b, SubSeq(List[b], 1, n))>> : n \in 1 .. Len(List[b])}
            \cup {<<"flag", FlagReply(b, cl[1], cl[2])>> : cl \in Seated(b)}
            \cup {<<"stray flag", StrayFlagReply(b, cl[1])>> : cl \in Seated(b)}
        : b \in Block}

-----------------------------------------------------------------------------
\* The state

Holds(t, lock) == \E i \in DOMAIN held[t] : held[t][i].lock = lock
Writes(t, lock) == \E i \in DOMAIN held[t] : held[t][i] = Take("write", lock)

\* The threads in the way of a thread that wants to take this step.
Blockers(t, step) ==
    CASE step.do = "read" -> {u \in Thread : Writes(u, step.lock)}
      [] step.do = "write" -> {u \in Thread : Holds(u, step.lock)}
      [] step.do = "lock" ->
            {u \in Thread : Holds(u, step.lock)}
                \ IF step.lock[1] \in NotRecursive /\ Relock = "hangs" THEN {} ELSE {t}
      [] OTHER -> {}

\* What a thread that holds h holds after the step; it gives back what it has taken
\* last.  A mutex that refuses to be locked again is free after the first of the two
\* releases.
HeldAfter(h, step) ==
    LET at == {i \in DOMAIN h : h[i].lock = step.lock}
    IN  IF step.do = "release"
        THEN IF at = {} THEN h ELSE RemoveAt(h, Max(at))
        ELSE IF step.lock[1] \in NotRecursive /\ at # {} THEN h ELSE Append(h, step)

Init ==
    /\ todo = [t \in Thread |-> <<>>]
    /\ held = [t \in Thread |-> <<>>]

\* Thread t begins a handler.
Start(t) ==
    /\ todo[t] = <<>>
    /\ \E h \in IF t = Ship THEN OfShip ELSE OfBlock(t) :
          /\ h[1] \in Served
          /\ todo' = [todo EXCEPT ![t] = h[2]]
    /\ UNCHANGED held

\* It takes or gives back the next lock of its handler.
Step(t) ==
    /\ todo[t] # <<>>
    /\ Blockers(t, Head(todo[t])) = {}
    /\ held' = [held EXCEPT ![t] = HeldAfter(@, Head(todo[t]))]
    /\ todo' = [todo EXCEPT ![t] = Tail(@)]

Next == \E t \in Thread : Start(t) \/ Step(t)

Spec == Init /\ [][Next]_vars

-----------------------------------------------------------------------------
\* Properties

Waiting(t) == todo[t] # <<>> /\ Blockers(t, Head(todo[t])) # {}

\* No thread locks a mutex it has locked already and that will not let it in
\* again: lobby_handle_done_burst, for one, is to be called with it locked.
NobodyWaitsForItself ==
    \A t \in Thread : Waiting(t) => t \notin Blockers(t, Head(todo[t]))

\* No threads wait for one another in a circle: a request that is begun can
\* still be finished, whatever the other threads are in the middle of.
Unstuck ==
    \A S \in (SUBSET Thread) \ {{}} :
        \E t \in S : ~Waiting(t) \/ Blockers(t, Head(todo[t])) \cap S = {}

\* A handler gives back every lock it has taken, on every way out of it.
NothingKept ==
    \A t \in Thread : todo[t] = <<>> => held[t] = <<>>
=============================================================================
