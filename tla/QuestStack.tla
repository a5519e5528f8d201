----------------------------- MODULE QuestStack -----------------------------
(***************************************************************************)
(* The calls a quest makes to the server: the words its clients push one   *)
(* by one through the data register, the functions they call, the flags    *)
(* kept by the shipgate, and the registers the server keeps up by itself   *)
(* (subcmd.c, quest_functions.c, shipgate.c, lobby.c, scripts.c).          *)
(*                                                                         *)
(* A call is a sequence of words: the function, how many arguments and how *)
(* many results, the arguments, and the registers for the results.  What   *)
(* is written in a register is left out, the counts of clients excepted.   *)
(* The quest on each client makes one call at a time.                      *)
(***************************************************************************)
EXTENDS Integers, FiniteSets, Sequences, SequencesExt, FiniteSetsExt

CONSTANTS
    Member,         \* the clients
    None,           \* NULL
    Places,         \* 4: slots of a team
    MaxReg,         \* 255: the last register
    MaxFlag,        \* 255: the last short flag, and the last one that is deleted
    MaxShort,       \* 0xFFFF: the largest value of a short flag
    MaxQ,           \* CLIENT_MAX_QSTACK, 32
    MaxAsked,       \* bound: the flag register is used while fewer questions are under way
    Everyone,       \* 0xFFFFFFFF
    Quest,          \* the quests there are: the calls each makes, by client (calls), and
                    \* the clients on which it uses the flag register as well (flags)
    ScriptFunction  \* by function number: what the team's scripts declare, [nargs, nrets]

Seats == 0 .. Places - 1
Reg == 0 .. MaxReg
NoReg == 0                      \* no updates asked for
AnyCall == UNION {UNION Range(q.calls) : q \in Quest}
AnyWord == {0} \cup UNION {Range(w) : w \in AnyCall}

ASSUME QuestStackConstants ==
    /\ IsFiniteSet(Member) /\ None \notin Member
    /\ Places \in Nat \ {0} /\ MaxReg \in Nat \ {0} /\ MaxFlag \in Nat /\ MaxShort \in Nat /\ MaxAsked \in Nat
    /\ MaxQ \in Nat \ {0, 1, 2}
    /\ \A w \in AnyCall : w \in Seq(Nat) /\ Len(w) >= 3 /\ Len(w) = 3 + w[2] + w[3]
    /\ \A q \in Quest : DOMAIN q.calls = Member /\ q.flags \subseteq Member
    /\ \A f \in DOMAIN ScriptFunction : f \in Nat \ (0 .. 26)    \* QUEST_SCRIPT_START

VARIABLES
    quest,          \* what is played
    place,          \* by slot of the team: its client
    limbo,          \* clients out of the team that have yet to enter a lobby (no cur_lobby)
    q_stack,        \* by client: the words, those of earlier calls included
    q_stack_top,    \* by client
    locked,         \* clients with CLIENT_FLAG_QSTACK_LOCK
    todo,           \* by client: what of the call it has yet to push
    told,           \* by client: the status of its call, and the registers written for it
    qpos,           \* by slot: for the position of its client, by slot of who asked, a register
    qcount,         \* by slot: the register for the number of clients
    shown,          \* by slot: the number its client was sent last, for that register
    gate,           \* what the shipgate is asked, in order: [by, del, set, direct, reg, here]
    linked,         \* the shipgate is there
    lost,           \* clients whose call asked a shipgate that was or went away, or was answered
                    \* while they were in no lobby
    mixed           \* clients for which the shipgate was asked by a call and by the flag
                    \* register at once, until it has answered all they asked

questVars == <<quest, place, limbo, q_stack, q_stack_top, locked, todo, told, qpos, qcount,
               shown, gate, linked, lost, mixed>>
seatVars == <<quest, place, limbo, qpos, qcount, shown>>
stackVars == <<q_stack, q_stack_top, todo, told>>
gateVars == <<gate, linked, lost, mixed>>

-----------------------------------------------------------------------------
\* The functions, by their numbers

OfMembers == {0, 3, 4, 5, 6, 7, 8, 21, 22}  \* of one client of the team, or of all
Counts == {2, 26}                           \* of the clients in the team
Facts == {1, 10, 11, 20, 25} \cup Counts
Names == {23, 24}                           \* of the ship
Flags == {12, 13, 14, 15, 16, 17}           \* kept by the shipgate
SetFlags == {13, 15}
DelFlags == {16, 17}
Censors == {18, 19}

\* How many registers from the one that is named on take the result.
Width(f) ==
    CASE f = 8 -> 3 [] f = 21 -> 4 [] f = 23 -> 3 [] f = 24 -> 6 [] OTHER -> 1
Written(f, r) == {(r + k) % (MaxReg + 1) : k \in 0 .. Width(f) - 1}

Ok(regs) == [status |-> "ok", wrote |-> regs]
Err(why) == [status |-> why, wrote |-> {}]
Waiting == [status |-> "not yet", wrote |-> {}]

\* Word k of the stack, from 0 as in the code.
At(w, k) == w[k + 1]

\* get_section_id and its like: the register of each client that is asked for.
AskedSlots(w) == IF At(w, 3) = Everyone THEN Seats ELSE {At(w, 3)}
RegFor(w, s) == IF At(w, 3) = Everyone THEN At(w, 4 + s) ELSE At(w, 4)
GetOfMembers(w) ==
    CASE At(w, 1) # 1 -> Err("bad arg count")
      [] At(w, 1) = 1 /\ At(w, 3) \notin Seats \cup {Everyone} -> Err("invalid arg")
      [] At(w, 1) = 1 /\ At(w, 3) \in Seats \cup {Everyone}
           /\ At(w, 2) # Cardinality(AskedSlots(w)) -> Err("bad ret count")
      [] OTHER -> IF \E s \in AskedSlots(w) : RegFor(w, s) \notin Reg
                  THEN Err("invalid register")
                  ELSE Ok(UNION {Written(At(w, 0), RegFor(w, s)) : s \in AskedSlots(w)})

\* get_time and its like; the name of the ship needs room after its register.
GetFact(w, room) ==
    CASE At(w, 1) # 0 -> Err("bad arg count")
      [] At(w, 1) = 0 /\ At(w, 2) # 1 -> Err("bad ret count")
      [] OTHER -> IF At(w, 3) > MaxReg - room THEN Err("invalid register")
                  ELSE Ok(Written(At(w, 0), At(w, 3)))

\* get_random_integer
GetRandom(w) ==
    CASE At(w, 1) # 2 -> Err("bad arg count")
      [] At(w, 1) = 2 /\ At(w, 2) # 1 -> Err("bad ret count")
      [] OTHER -> CASE At(w, 5) \notin Reg -> Err("invalid register")
                    [] At(w, 5) \in Reg /\ At(w, 3) >= At(w, 4) -> Err("invalid arg")
                    [] OTHER -> Ok({At(w, 5)})

\* word_censor_check: up to 24 characters.
CensorCheck(w) ==
    CASE At(w, 1) \notin 1 .. 24 -> Err("bad arg count")
      [] At(w, 1) \in 1 .. 24 /\ At(w, 2) # 1 -> Err("bad ret count")
      [] OTHER -> IF At(w, At(w, 1) + 3) \notin Reg THEN Err("invalid register")
                  ELSE Ok({At(w, At(w, 1) + 3)})

\* get_quest_sflag and its like.  The functions that delete look for their register
\* in the place where those that set have it, past the end of their call.
FlagArgs(f) == IF f \in SetFlags THEN 2 ELSE 1
FlagReg_Swapped(w, set) == IF set THEN At(w, 4) ELSE At(w, 5)
FlagReg(w, set) == IF set THEN At(w, 5) ELSE At(w, 4)
BadFlag(w) ==
    \/ At(w, 0) = 13 /\ At(w, 4) > MaxShort
    \/ At(w, 0) \in DelFlags /\ At(w, 3) > MaxFlag
AskGate(w) ==
    CASE At(w, 1) # FlagArgs(At(w, 0)) -> Err("bad arg count")
      [] At(w, 1) = FlagArgs(At(w, 0)) /\ At(w, 2) # 1 -> Err("bad ret count")
      [] At(w, 1) = FlagArgs(At(w, 0)) /\ At(w, 2) = 1 /\ BadFlag(w) -> Err("invalid arg")
      [] OTHER -> IF FlagReg(w, At(w, 0) \in SetFlags \cup DelFlags) \notin Reg
                  THEN Err("invalid register") ELSE Waiting

\* script_execute_qfunc
RunScript(w) ==
    LET f == ScriptFunction[At(w, 0)]
        regs == {At(w, 3 + f.nargs + k) : k \in 0 .. f.nrets - 1}
    IN  CASE At(w, 1) # f.nargs -> Err("bad arg count")
          [] At(w, 1) = f.nargs /\ At(w, 2) # f.nrets -> Err("bad ret count")
          [] OTHER -> IF ~(regs \subseteq Reg) THEN Err("invalid register") ELSE Ok(regs)

\* quest_function_dispatch
Dispatch(w) ==
    LET f == At(w, 0) IN
    CASE f \in OfMembers -> GetOfMembers(w)
      [] f \in Facts -> GetFact(w, 0)
      [] f \in Names -> GetFact(w, Width(f) - 1)
      [] f = 9 -> GetRandom(w)
      [] f \in Flags -> AskGate(w)
      [] f \in Censors -> CensorCheck(w)
      [] f \in DOMAIN ScriptFunction -> RunScript(w)
      [] OTHER -> Err("invalid func")

-----------------------------------------------------------------------------
\* Joining and leaving

In(c) == \E s \in Seats : place[s] = c
PlaceOf(c) == CHOOSE s \in Seats : place[s] = c
NumClients == Cardinality({s \in Seats : place[s] # None})
Words(c) == q_stack[c]

QuestInit ==
    /\ quest \in Quest
    /\ place = [s \in Seats |-> None]
    /\ q_stack = [c \in Member |-> [k \in 1 .. MaxQ |-> 0]]
    /\ q_stack_top = [c \in Member |-> 0]
    /\ locked = {} /\ lost = {} /\ mixed = {} /\ limbo = {}
    /\ todo = [c \in Member |-> <<>>]
    /\ told = [c \in Member |-> Err("none")]
    /\ qpos = [s \in Seats |-> [t \in Seats |-> NoReg]]
    /\ qcount = [s \in Seats |-> NoReg]
    /\ shown = [s \in Seats |-> 0]
    /\ gate = <<>> /\ linked = TRUE

\* lobby_add_client_locked, lobby_remove_client_locked: the members who asked for it
\* are sent the new number.
SendCounts_Early ==
    shown' = [s \in Seats |-> IF qcount'[s] # NoReg THEN NumClients ELSE shown[s]]
SendCounts ==
    shown' = [s \in Seats |-> IF qcount'[s] # NoReg
                              THEN Cardinality({t \in Seats : place'[t] # None}) ELSE shown[s]]

\* A quest that a member joins has started on it, with an empty stack.
JoinQuest(c) ==
    LET s == Min({t \in Seats : place[t] = None}) IN
    /\ ~In(c) /\ c \notin limbo /\ NumClients < Places
    /\ place' = [place EXCEPT ![s] = c]
    /\ q_stack' = [q_stack EXCEPT ![c] = [k \in 1 .. MaxQ |-> 0]]
    /\ q_stack_top' = [q_stack_top EXCEPT ![c] = 0]
    /\ todo' = [todo EXCEPT ![c] = <<>>]
    /\ told' = [told EXCEPT ![c] = Err("none")]
    /\ gate' = [i \in DOMAIN gate |-> [gate[i] EXCEPT !.here = @ /\ gate[i].by # c]]
    /\ UNCHANGED <<qpos, qcount>> /\ SendCounts
    /\ UNCHANGED <<quest, limbo, locked, linked, lost, mixed>>

\* Nobody is sent updates in the place of a member that left.
Forgotten_Count(s) == qcount' = [qcount EXCEPT ![s] = NoReg] /\ UNCHANGED qpos
Forgotten(s) ==
    /\ qpos' = [t \in Seats |-> [qpos[t] EXCEPT ![s] = NoReg]]
    /\ qcount' = [qcount EXCEPT ![s] = NoReg]

\* From the team to a lobby at once (lobby_change_lobby), or out of it when its client sends
\* its data (dc_process_char), to enter a lobby when it says it is there (lobby_add_to_any).
LeaveQuest(c) ==
    /\ In(c)
    /\ place' = [place EXCEPT ![PlaceOf(c)] = None]
    /\ Forgotten(PlaceOf(c))
    /\ SendCounts
    /\ limbo' \in {limbo, limbo \cup {c}}
    /\ UNCHANGED <<quest, stackVars, locked, gateVars>>

EnterLobby(c) ==
    /\ c \in limbo
    /\ limbo' = limbo \ {c}
    /\ UNCHANGED <<quest, place, qpos, qcount, shown, stackVars, locked, gateVars>>

-----------------------------------------------------------------------------
\* The data register

Begin(c, w) ==
    /\ In(c) /\ w \in quest.calls[c]
    /\ todo[c] = <<>> /\ told[c].status # "not yet"
    /\ todo' = [todo EXCEPT ![c] = w]
    /\ told' = [told EXCEPT ![c] = Waiting]
    /\ UNCHANGED <<seatVars, q_stack, q_stack_top, locked, gateVars>>

\* get_pos_updates, get_client_count_updates: what a call that went well also does.
Subscribe(c, w) ==
    /\ qpos' = IF At(w, 0) = 21
               THEN [s \in Seats |-> IF s \in AskedSlots(w)
                        THEN [qpos[s] EXCEPT ![PlaceOf(c)] = RegFor(w, s)] ELSE qpos[s]]
               ELSE qpos
    /\ qcount' = IF At(w, 0) = 26 THEN [qcount EXCEPT ![PlaceOf(c)] = At(w, 3)] ELSE qcount
    /\ shown' = IF At(w, 0) = 26 THEN [shown EXCEPT ![PlaceOf(c)] = NumClients] ELSE shown

\* shipgate_send_qflag: without a shipgate the question goes nowhere, which counts as
\* sent.  Nothing that it sends says who asks, or what for: direct, reg and here
\* (the team it was asked in is the one its client is in) say so.
Ask(c, q) ==
    /\ gate' = IF linked THEN Append(gate, q) ELSE gate
    /\ lost' = IF q.direct THEN lost ELSE IF linked THEN lost \ {c} ELSE lost \cup {c}
    /\ mixed' = mixed \cup {d \in {c} : linked /\ \E i \in DOMAIN gate :
                                gate[i].by = c /\ gate[i].direct # q.direct}
    /\ UNCHANGED linked
Question(c, w) ==
    [by |-> c, set |-> At(w, 0) \in SetFlags \cup DelFlags, del |-> At(w, 0) \in DelFlags,
     direct |-> FALSE, reg |-> At(w, 3 + At(w, 1)), here |-> TRUE]

Complete_NoResults(w, top) == top >= 3 /\ top = 3 + At(w, 1)
Complete(w, top) == top >= 3 /\ top = 3 + At(w, 1) + At(w, 2)

Room_TooLate(c) == q_stack_top[c] <= MaxQ
Room(c) == q_stack_top[c] < MaxQ

\* What a call comes to: the shipgate cannot always be asked.
WithWord(c) == [q_stack[c] EXCEPT ![q_stack_top[c] + 1] = Head(todo[c])]
Verdicts(w) ==
    {Dispatch(w)} \cup {v \in {Err("shipgate error")} : linked /\ Dispatch(w) = Waiting}

\* handle_sync_reg, for the data register: once the stack has all that its header
\* says, the function is called.  A word too many, or one while the shipgate is asked,
\* is answered and not kept; the quest gives its call up then.
Push(c) ==
    LET w == WithWord(c) IN
    /\ In(c) /\ todo[c] # <<>>
    /\ Room(c) /\ c \notin locked
    /\ q_stack' = [q_stack EXCEPT ![c] = w]
    /\ todo' = [todo EXCEPT ![c] = Tail(@)]
    /\ IF ~Complete(w, q_stack_top[c] + 1)
       THEN /\ q_stack_top' = [q_stack_top EXCEPT ![c] = @ + 1]
            /\ UNCHANGED <<told, locked, gateVars, qpos, qcount, shown>>
       ELSE \E result \in Verdicts(w) :
            /\ told' = [told EXCEPT ![c] = result]
            /\ IF result = Waiting
               THEN /\ locked' = locked \cup {c}
                    /\ Ask(c, Question(c, w))
                    /\ q_stack_top' = [q_stack_top EXCEPT ![c] = @ + 1]
               ELSE /\ q_stack_top' = [q_stack_top EXCEPT ![c] = 0]
                    /\ UNCHANGED <<locked, gateVars>>
            /\ IF result.status = "ok" THEN Subscribe(c, w)
               ELSE UNCHANGED <<qpos, qcount, shown>>
    /\ UNCHANGED <<quest, place, limbo>>

Refuse(c) ==
    /\ In(c) /\ todo[c] # <<>>
    /\ ~Room(c) \/ c \in locked
    /\ told' = [told EXCEPT ![c] =
                  Err(IF ~Room(c) THEN "stack overflow" ELSE "stack locked")]
    /\ todo' = [todo EXCEPT ![c] = <<>>]
    /\ UNCHANGED <<seatVars, q_stack, q_stack_top, locked, gateVars>>

\* The control register resets the stack.  A quest does that when its call failed.
Reset(c) ==
    /\ In(c) /\ todo[c] = <<>> /\ told[c].status \in {"stack overflow", "stack locked"}
    /\ q_stack_top' = [q_stack_top EXCEPT ![c] = 0]
    /\ told' = [told EXCEPT ![c] = Err("none")]
    /\ UNCHANGED <<seatVars, q_stack, todo, locked, gateVars>>

\* The short flag register asks the shipgate without the stack.
SetFlagRegister(c) ==
    /\ In(c) /\ c \in quest.flags
    /\ Cardinality({i \in DOMAIN gate : gate[i].by = c}) < MaxAsked
    /\ \E set \in BOOLEAN :
         Ask(c, [by |-> c, set |-> set, del |-> FALSE, direct |-> TRUE, reg |-> NoReg,
                 here |-> TRUE])
    /\ UNCHANGED <<seatVars, stackVars, locked>>

-----------------------------------------------------------------------------
\* The shipgate

\* quest_flag_reply
FlagReply_FailureKeepsLock(c, q, failed) ==
    /\ told' = [told EXCEPT ![c] =
                  [status |-> IF failed THEN "retval error" ELSE "ok",
                   wrote |-> {FlagReg(q_stack[c], q.set)}]]
    /\ q_stack_top' = [q_stack_top EXCEPT ![c] = 0]
    /\ locked' = IF failed THEN locked ELSE locked \ {c}
FlagReply(c, q, failed) ==
    /\ told' = [told EXCEPT ![c] =
                  [status |-> IF failed THEN "retval error" ELSE "ok",
                   wrote |-> {FlagReg(q_stack[c], q.set)}]]
    /\ q_stack_top' = [q_stack_top EXCEPT ![c] = 0]
    /\ locked' = locked \ {c}

\* handle_qflag, handle_qflag_err: an answer for a client that is in no lobby is dropped.
\* Whether another is for the flag register or for the function that waits is told by the lock.
Answer_ErrorsDropped(c, q) ==
    \/ c \in locked /\ FlagReply(c, q, FALSE)
    \/ UNCHANGED <<told, q_stack_top, locked>>
Answer(c, q) ==
    IF c \in locked
    THEN \E failed \in BOOLEAN : FlagReply(c, q, failed)
    ELSE UNCHANGED <<told, q_stack_top, locked>>
Reply ==
    LET q == Head(gate) IN
    /\ linked /\ gate # <<>>
    /\ gate' = Tail(gate)
    /\ mixed' = {c \in mixed : \E i \in DOMAIN gate' : gate'[i].by = c}
    /\ IF q.by \in limbo
       THEN /\ lost' = IF q.direct THEN lost ELSE lost \cup {q.by}
            /\ UNCHANGED <<told, q_stack_top, locked>>
       ELSE Answer(q.by, q) /\ UNCHANGED lost
    /\ UNCHANGED <<seatVars, q_stack, todo, linked>>

LinkLost ==
    /\ linked
    /\ linked' = FALSE
    /\ lost' = lost \cup {gate[i].by : i \in {j \in DOMAIN gate : ~gate[j].direct}}
    /\ gate' = <<>> /\ mixed' = {}
    /\ UNCHANGED <<seatVars, stackVars, locked>>
LinkBack ==
    ~linked /\ linked' = TRUE /\ UNCHANGED <<seatVars, stackVars, locked, gate, lost, mixed>>

QuestNext ==
    \/ \E c \in Member :
        \/ JoinQuest(c) \/ LeaveQuest(c) \/ EnterLobby(c) \/ Push(c) \/ Refuse(c) \/ Reset(c)
        \/ SetFlagRegister(c)
        \/ \E w \in AnyCall : Begin(c, w)
    \/ Reply \/ LinkLost \/ LinkBack

\* The shipgate answers what it is asked.
QuestSpec == QuestInit /\ [][QuestNext]_questVars /\ WF_questVars(Reply)

-----------------------------------------------------------------------------
\* Properties

Pending(c) == \E i \in DOMAIN gate : gate[i].by = c /\ ~gate[i].direct

\* The stack stays within q_stack, a client has one place, and the words of the stack
\* are words of calls.
QuestTypeOK ==
    /\ q_stack_top \in [Member -> 0 .. MaxQ]
    /\ \A c \in Member : Range(q_stack[c]) \subseteq AnyWord
    /\ \A c \in Member : Cardinality({s \in Seats : place[s] = c}) <= 1
    /\ locked \subseteq Member /\ lost \subseteq Member /\ mixed \subseteq Member
    /\ limbo \subseteq {c \in Member : ~In(c)}
    /\ \A s, t \in Seats : qpos[s][t] \in Reg /\ qcount[s] \in Reg

\* A function runs on the words of one call, from its first to its last, whatever
\* calls failed before it ("Check if we've got everything we expected...",
\* handle_sync_reg).
CallsAreWhole ==
    [][\A c \in Member : Push(c) /\ told'[c] # told[c]
         => \E w \in quest.calls[c] : SubSeq(q_stack'[c], 1, Len(w)) = w]_questVars

\* The stack is locked only while the shipgate has yet to answer, unless it was gone or
\* went away in between, or the answer came when the client was in no lobby and
\* handle_qflag dropped it: no answer to something else can leave it locked for good.
LockAwaitsAnswer == \A c \in locked : Pending(c) \/ c \in lost

\* An answer of the shipgate to a call goes to the register the call named, unless its
\* client has gone to another team since, or is in no lobby, where nothing reaches it; and
\* unless it answers a call to delete a flag, or one that was made, or waited, while the
\* flag register was asked as well (handle_qflag cannot tell their answers apart).
AnswerInItsRegister ==
    [][Reply =>
         LET q == Head(gate) IN
         ~q.direct /\ ~q.del /\ q.here /\ q.by \notin limbo \cup mixed
           => told'[q.by].wrote = {q.reg}]_questVars

\* Positions and counts are sent to members only, and only to those that asked for
\* them themselves (update_qpos does not look whether there is anybody).
UpdatesReachMembers ==
    \A s, t \in Seats : qpos[s][t] # NoReg \/ qcount[t] # NoReg => place[t] # None

\* Who asked for the number of clients has it ("Whenever the client count in the
\* team updates, the new client count will be synced", quest_functions.h).
CountsFollow == \A s \in Seats : qcount[s] # NoReg => shown[s] = NumClients

\* A locked stack is unlocked, unless the shipgate was gone or went away in between, or
\* its answer was dropped because the client was in no lobby.
LockEnds == \A c \in Member : c \in locked ~> c \notin locked \/ c \in lost

\* "-2: Shipgate has disappeared." (quest_functions.h): no call is left waiting for a
\* shipgate that is gone.
GoneIsTold == ~linked => locked = {}
=============================================================================
