------------------------------- MODULE Combat -------------------------------
(***************************************************************************)
(* What becomes of the enemies and the boxes of a team that are hit: who   *)
(* hit which, whose kill it was, the counts of kills the shipgate is sent, *)
(* and the experience and the levels of Blue Burst clients (subcmd.c,      *)
(* clients.c, lobby.c, commands.c).                                        *)
(*                                                                         *)
(* A team has one bit for each of its slots in an enemy's clients_hit, and *)
(* one more once it is dead.  An enemy that is out of the range of the     *)
(* map, and teams without maps, are left out.                              *)
(***************************************************************************)
EXTENDS Integers, FiniteSets, Sequences, FiniteSetsExt

CONSTANTS
    Fighter,        \* the clients
    Empty,          \* NULL
    Spots,          \* slots of the team
    Foe, Crate,     \* the enemies and the boxes of the map
    Versions,       \* of the teams there may be: "v2", "bb"
    FoeExp,         \* bb_params[].exp, for the one kind of enemy there is
    LevelExp,       \* char_stats.levels[][].exp, by level from 0
    MaxQuests,      \* bound: quests loaded
    MaxExp          \* the most experience: what a uint32_t holds

Spot == 0 .. Spots - 1
MaxLevel == Len(LevelExp) - 1           \* 199
NeedsExp(level) == LevelExp[level + 1]

ASSUME CombatConstants ==
    /\ IsFiniteSet(Fighter) /\ Empty \notin Fighter
    /\ Spots \in Nat \ {0} /\ FoeExp \in Nat
    /\ LevelExp \in Seq(0 .. MaxExp) /\ LevelExp # <<>> /\ LevelExp[1] = 0 /\ MaxExp \in Nat
    /\ \A i \in 2 .. Len(LevelExp) : LevelExp[i - 1] < LevelExp[i]

VARIABLES
    side,           \* the version of the team, whether it has NPCs, and whether anybody
                    \* that is not in it now was
    spot,           \* by slot: its client, or Empty
    hit,            \* by enemy: the slots with their bit in clients_hit
    dead,           \* enemies with bit 0x80
    broken,         \* boxes with flag 0x80000000
    aoe,            \* clients whose technique goes on hitting (aoe_timer)
    enemy_kills,    \* by client
    tracked,        \* clients with CLIENT_FLAG_TRACK_KILLS
    reported,       \* by client: kills the shipgate was sent
    killed,         \* by client: enemies it killed
    always,         \* clients whose kills were tracked all the time, and whose counts found
                    \* the shipgate whenever they were sent
    claims,         \* by client and enemy of this map: times it was given experience
    char,           \* by client: [level, exp]
    wrapped,        \* clients whose experience has passed MaxExp since they were given a level
    loads           \* quests loaded

combatVars == <<side, spot, hit, dead, broken, aoe, enemy_kills,
                tracked, reported, killed, always, claims, char, wrapped, loads>>
hitVars == <<hit, dead>>
boxVars == <<broken, aoe>>
killVars == <<enemy_kills, tracked, reported, killed, always>>
expVars == <<claims, char, wrapped>>

Fights(c) == \E s \in Spot : spot[s] = c
SpotOf(c) == CHOOSE s \in Spot : spot[s] = c

CombatInit ==
    /\ side \in [version : Versions, npc : BOOLEAN, left : {FALSE}]
    /\ spot = [s \in Spot |-> Empty]
    /\ hit = [e \in Foe |-> {}]
    /\ dead = {} /\ broken = {}
    /\ aoe = {}
    /\ enemy_kills = [c \in Fighter |-> 0]
    /\ reported = [c \in Fighter |-> 0]
    /\ killed = [c \in Fighter |-> 0]
    /\ \E t \in SUBSET Fighter : tracked = t /\ always = t
    /\ claims = [c \in Fighter |-> [e \in Foe |-> 0]]
    /\ char = [c \in Fighter |-> [level |-> 0, exp |-> 0]]
    /\ wrapped = {}
    /\ loads = 0

-----------------------------------------------------------------------------
\* Joining and leaving

\* lobby_change_lobby: the counts begin anew.
Arrive(c) ==
    LET s == Min({t \in Spot : spot[t] = Empty}) IN
    /\ ~Fights(c) /\ \E t \in Spot : spot[t] = Empty
    /\ spot' = [spot EXCEPT ![s] = c]
    /\ enemy_kills' = [enemy_kills EXCEPT ![c] = 0]
    /\ UNCHANGED <<side, hitVars, boxVars, tracked, reported, killed, always, expVars, loads>>

\* lobby_send_kill_counts, lobby_remove_player: shipgate_send_mkill.  What does not find
\* the shipgate, which may come and go at any time, is dropped, and nobody is told.
Sent(clients) ==
    \E arrived \in SUBSET (clients \cap tracked) :
        /\ reported' = [c \in Fighter |->
                          reported[c] + (IF c \in arrived THEN enemy_kills[c] ELSE 0)]
        /\ always' = always \ (clients \ arrived)

\* lobby_remove_player.  The bits of its slot stay with the enemies.
Depart(c) ==
    /\ Fights(c)
    /\ Sent({c})
    /\ spot' = [spot EXCEPT ![SpotOf(c)] = Empty]
    /\ side' = [side EXCEPT !.left = TRUE]
    /\ UNCHANGED <<hitVars, boxVars, enemy_kills, tracked, killed, expVars, loads>>

\* lobby_send_kill_counts: the counts begin anew, whether or not they arrived.
Cleared_Never(clients) == enemy_kills
Cleared(clients) ==
    [c \in Fighter |-> IF c \in clients \cap tracked THEN 0 ELSE enemy_kills[c]]

\* lobby_setup_quest: the counts go to the shipgate, and there is a new map.
Load ==
    /\ loads < MaxQuests /\ \E s \in Spot : spot[s] # Empty
    /\ loads' = loads + 1
    /\ LET members == {c \in Fighter : Fights(c)} IN
       /\ Sent(members)
       /\ enemy_kills' = Cleared(members)
    /\ hit' = [e \in Foe |-> {}]
    /\ dead' = {} /\ broken' = {}
    /\ claims' = [c \in Fighter |-> [e \in Foe |-> 0]]
    /\ UNCHANGED <<side, spot, aoe, tracked, killed, char, wrapped>>

\* /trackkill and /trackkill off
TrackKills(c, on) ==
    /\ tracked' = IF on THEN tracked \cup {c} ELSE tracked \ {c}
    /\ always' = IF on THEN always ELSE always \ {c}
    /\ UNCHANGED <<side, spot, hitVars, boxVars, enemy_kills, reported, killed, expVars, loads>>

-----------------------------------------------------------------------------
\* Enemies

Marked(c, e) == hit' = [hit EXCEPT ![e] = @ \cup {SpotOf(c)}]

\* handle_mhit: a hit may be the one that kills, which the client says.
Hit(c, e, kills) ==
    /\ Fights(c) /\ side.version = "v2"
    /\ IF e \in dead THEN UNCHANGED <<hitVars, enemy_kills, killed>>
       ELSE /\ Marked(c, e)
            /\ dead' = IF kills THEN dead \cup {e} ELSE dead
            /\ killed' = IF kills /\ ~side.npc THEN [killed EXCEPT ![c] = @ + 1] ELSE killed
            /\ enemy_kills' = IF kills /\ ~side.npc
                              THEN [enemy_kills EXCEPT ![c] = @ + 1] ELSE enemy_kills
    /\ UNCHANGED <<side, spot, boxVars, tracked, reported, always, expVars, loads>>

\* handle_bb_mhit
BBHit_AfterDeath(c, e) ==
    /\ Fights(c) /\ side.version = "bb"
    /\ Marked(c, e)
    /\ UNCHANGED <<side, spot, dead, boxVars, killVars, expVars, loads>>
BBHit(c, e) ==
    /\ Fights(c) /\ side.version = "bb"
    /\ e \notin dead
    /\ Marked(c, e)
    /\ UNCHANGED <<side, spot, dead, boxVars, killVars, expVars, loads>>

\* client_give_exp: as many levels as the experience is enough for.
Level_ByOne(exp, from) ==
    IF from < MaxLevel /\ NeedsExp(Min({from + 1, MaxLevel})) <= exp THEN from + 1 ELSE from
Level(exp, from) ==
    Max({from} \cup {n \in from .. MaxLevel : NeedsExp(n) <= exp})
\* A sum that is too big for its 32 bits begins anew, and takes no level away.
GiveExp(c, exp) ==
    LET total == char[c].exp + exp IN
    IF char[c].level >= MaxLevel THEN UNCHANGED <<char, wrapped>>
    ELSE /\ char' = [char EXCEPT ![c] = [level |-> Level(total % (MaxExp + 1), @.level),
                                         exp |-> total % (MaxExp + 1)]]
         /\ wrapped' = IF total > MaxExp THEN wrapped \cup {c} ELSE wrapped

\* handle_bb_req_exp: who did not make the last hit gets four fifths.
RequestExp(c, e, last_hitter) ==
    LET exp == IF last_hitter THEN FoeExp ELSE (FoeExp * 80) \div 100 IN
    /\ Fights(c) /\ side.version = "bb"
    /\ SpotOf(c) \in hit[e]
    /\ hit' = [hit EXCEPT ![e] = @ \ {SpotOf(c)}]
    /\ dead' = dead \cup {e}
    /\ claims' = [claims EXCEPT ![c][e] = @ + 1]
    /\ GiveExp(c, exp)
    /\ UNCHANGED <<side, spot, boxVars, killVars, loads>>

\* /exp and /level, client_give_level.
ExpCommand(c, amt) ==
    /\ Fights(c) /\ side.version = "bb"
    /\ GiveExp(c, amt)
    /\ UNCHANGED <<side, spot, hitVars, boxVars, killVars, claims, loads>>
LevelCommand(c, n) ==
    /\ Fights(c) /\ side.version = "bb"
    /\ n \in char[c].level + 1 .. MaxLevel
    /\ char' = [char EXCEPT ![c] = [level |-> n, exp |-> NeedsExp(n)]]
    /\ wrapped' = wrapped \ {c}
    /\ UNCHANGED <<side, spot, hitVars, boxVars, killVars, claims, loads>>

-----------------------------------------------------------------------------
\* Boxes

\* handle_objhit_common
Break(b) == broken' = broken \cup {b}

\* handle_objhit_phys, and handle_objhit_tech for techniques with one target.
HitBox(c, b) ==
    /\ Fights(c) /\ Break(b)
    /\ UNCHANGED <<side, spot, hitVars, aoe, killVars, expVars, loads>>

\* handle_objhit_tech: a technique for an area goes on hitting for some time.
Cast(c) ==
    /\ Fights(c)
    /\ aoe' = aoe \cup {c}
    /\ UNCHANGED <<side, spot, hitVars, broken, killVars, expVars, loads>>

\* handle_objhit: hits that come for each thing by itself count while it does.
AreaHit(c, b) ==
    /\ Fights(c) /\ c \in aoe /\ Break(b)
    /\ UNCHANGED <<side, spot, hitVars, aoe, killVars, expVars, loads>>

TechniqueEnds(c) ==
    /\ c \in aoe
    /\ aoe' = aoe \ {c}
    /\ UNCHANGED <<side, spot, hitVars, broken, killVars, expVars, loads>>

CombatNext ==
    \/ \E c \in Fighter :
        \/ Arrive(c) \/ Depart(c) \/ Cast(c) \/ TechniqueEnds(c)
        \/ \E on \in BOOLEAN : TrackKills(c, on)
        \/ \E e \in Foe :
              \/ \E b \in BOOLEAN : Hit(c, e, b) \/ RequestExp(c, e, b)
              \/ BBHit(c, e)
        \/ \E b \in Crate : HitBox(c, b) \/ AreaHit(c, b)
        \/ \E n \in 1 .. MaxLevel : LevelCommand(c, n)
        \/ \E amt \in {1, FoeExp * 2, MaxExp} : ExpCommand(c, amt)
    \/ Load

CombatSpec == CombatInit /\ [][CombatNext]_combatVars

-----------------------------------------------------------------------------
\* Properties

Here(c) == IF Fights(c) THEN enemy_kills[c] ELSE 0

\* A client has one slot; levels are in range.
CombatTypeOK ==
    /\ spot \in [Spot -> Fighter \cup {Empty}]
    /\ \A c \in Fighter : Cardinality({s \in Spot : spot[s] = c}) <= 1
    /\ hit \in [Foe -> SUBSET Spot]
    /\ dead \subseteq Foe /\ broken \subseteq Crate
    /\ char \in [Fighter -> [level : 0 .. MaxLevel, exp : 0 .. MaxExp]]

\* No kill is counted twice, over the teams a client is in and the quests they load
\* ("clear out the counters so that we don't double count any kills",
\* lobby_send_kill_counts), whenever it has its kills tracked; and none is lost of a client
\* whose kills are tracked all the time, but with a count that the shipgate was not there
\* to be sent.
KillsCountedOnce ==
    \A c \in Fighter :
        /\ reported[c] + Here(c) <= killed[c]
        /\ c \in always => reported[c] + Here(c) = killed[c]

\* Each member has experience for an enemy once ("that the client didn't already
\* claim their experience", handle_bb_req_exp): as long as nobody has left the team,
\* whose slot, and bit, the next one gets.
ExpOnce == ~side.left => \A c \in Fighter, e \in Foe : claims[c][e] <= 1

\* The level is the one the experience is enough for, by whatever way it was got: but for
\* those whose experience was once more than 32 bits hold, who keep their level, until they
\* are given one.
LevelMatchesExp ==
    \A c \in Fighter \ wrapped :
        /\ NeedsExp(char[c].level) <= char[c].exp
        /\ char[c].level < MaxLevel => char[c].exp < NeedsExp(char[c].level + 1)
=============================================================================
