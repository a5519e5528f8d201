------------------------------- MODULE Drops -------------------------------
(***************************************************************************)
(* What a team's enemies and boxes leave behind: the requests of its       *)
(* clients, the quest's drop lists, the server's own generators, and who   *)
(* is sent the item (subcmd.c, lobby.c, mapdata.c, quests.c, ptdata.c,     *)
(* rtdata.c, pmtdata.c).                                                   *)
(*                                                                         *)
(* An item is its kind and its rank, the number that picks one of a kind;  *)
(* percentages, grinds, slots, boosts and techniques are left out.  Dice   *)
(* have Sides faces where the code has 100, 1000 or 10000, and the tables  *)
(* of the data files (PT, RT, PMT) are constants.                          *)
(***************************************************************************)
EXTENDS Integers, FiniteSets, Sequences, SequencesExt, FiniteSetsExt

CONSTANTS
    Asker,          \* the clients of the team
    Enemy, Box,     \* map_enemies, map_objs
    FixedItem,      \* by map: the boxes with an item of their own, and the item
    FixedKind,      \* by map: the boxes with a kind of item of their own, and the kind
    Setup,          \* the teams there may be: [version, server, limits, battle, magic]
    Quests,         \* the quests there are: [episode, loads, lists, sd, cd], where sd and
                    \* cd are the lists for server and client drops: [id, type]
    ShipRares, ShipSemis,   \* the ship's SYLVERANT_SHIP_QUEST_RARES and _SRARES
    Sides,          \* faces of a die
    Areas,          \* the areas clients are in
    PT,             \* the ItemPT tables, by episode
    RT,             \* the items of the rare table
    Unsure,         \* whether a rare table may name what no item is
    PMT,            \* the items ItemPMT knows, and their stars
    PlusMinus,      \* the units with + and - versions (pm_range, and not restricted)
    Illegal         \* the items the limits list refuses, by version

Policies == {"NONE", "NORARE", "PARTIAL", "FREE"}
NotListed == "unlisted"                 \* 0xFFFFFFFF
Target == Enemy \cup Box
Maps == {"own", "quest"}                \* the team's own maps, or those of a quest
Guards == {"armor", "shield", "unit"}
Failed == [kind |-> "failed", rank |-> 0]
Unknown == 255                          \* (uint8_t)-1

ASSUME DropsConstants ==
    /\ Sides \in Nat \ {0} /\ IsFiniteSet(Asker) /\ Areas \subseteq Nat
    /\ Enemy \cap Box = {}
    /\ \A m \in Maps : /\ DOMAIN FixedItem[m] \cap DOMAIN FixedKind[m] = {}
                      /\ DOMAIN FixedItem[m] \cup DOMAIN FixedKind[m] \subseteq Box
    /\ \A q \in Quests : q.sd.id \in [Enemy -> Policies \cup {NotListed}]

VARIABLES
    team,           \* what lobby_create_game set, and lobby_setup_quest changes
    cur_area,       \* by client
    next_item,      \* the clients with an item of a GM's to come
    spent,          \* enemies with drop_done, and boxes with flag 1
    sent,           \* by target: the items sent for it, of this map
    answer          \* what came of the last request

dropVars == <<team, cur_area, next_item, spent, sent, answer>>

NoAnswer == [to |-> "nobody", item |-> Failed, from |-> "none"]
Nothing == [NoAnswer EXCEPT !.to = "asker"]

-----------------------------------------------------------------------------
\* The data

\* Every table of chances is walked down with a number that wraps round below zero:
\* the entry is the first one the sum of whose chances exceeds it, if there is any.
SumTo(weights, i) == FoldLeft(+, 0, SubSeq(weights, 1, i))
Landed(weights, r) == {i \in DOMAIN weights : r < SumTo(weights, i)}
Entry(weights, r) == IF Landed(weights, r) = {} THEN 0 ELSE Min(Landed(weights, r))
Die == 0 .. Sides - 1

\* pmt_lookup_stars_*: only weapons, frames, barriers and units are looked up.
Plain(it) == [kind |-> it.kind, rank |-> it.rank]
Stars(it) == IF Plain(it) \in DOMAIN PMT THEN PMT[Plain(it)] ELSE Unknown

\* build_*_units: a unit has a place with those of its stars; its - versions are
\* with those of one less, and its + versions with those of one more.
PlacedUnits == {it \in DOMAIN PMT : it.kind = "unit"}
UnitRow(stars) ==
    UNION {{[kind |-> "unit", rank |-> it.rank, pm |-> d] :
              d \in {e \in {-1, 0, 1} : PMT[it] + e = stars /\ (e # 0 => it \in PlusMinus)}} :
           it \in PlacedUnits}

\* The most stars there is a place in the table for: one more than any unit has.
UnitMaxStars ==
    1 + Max({PMT[it] : it \in PlacedUnits} \cup {0})

-----------------------------------------------------------------------------
\* The generators.  Each may come out with nothing: the tables, or the die, say so.

\* generate_weapon_v2, _v3: of the types this area has, one by its chance; the
\* further the area is from where the type starts, the higher its rank.
WeaponTypes(ent, area) ==
    {i \in DOMAIN ent.weapons : ent.weapons[i].minrank + area >= 0 /\ ent.weapons[i].ratio > 0}
WeaponRank(w, area) ==
    IF w.minrank >= 0 THEN w.minrank + area \div w.upgfloor
    ELSE (w.minrank + area) \div w.upgfloor
Weapon(ent, area) ==
    IF \E i \in WeaponTypes(ent, area) : ent.weapons[i].upgfloor <= 0 THEN {Failed}
    ELSE {[kind |-> "weapon", rank |-> WeaponRank(ent.weapons[i], area)] :
            i \in WeaponTypes(ent, area)}
         \cup (IF WeaponTypes(ent, area) = {} THEN {Failed} ELSE {})

\* generate_armor_*, generate_shield_*: one of five slots, and what the area adds.
\* What the PMT does not know is not dropped.
GuardRank(ent, area, slot) == Max({0, ent.level - 3 + area + slot - 1})
Guard(kind, ent, area) ==
    {LET slot == Entry(ent.ranking, r)
         it == [kind |-> kind, rank |-> GuardRank(ent, area, slot)]
     IN  IF slot = 0 \/ it \notin DOMAIN PMT THEN Failed ELSE it : r \in Die}

\* generate_tool_*: one of the tools; the first of them is the technique disk, whose
\* level the tables may have wrong.
Tools(ent, area) ==
    {LET i == Entry(ent.tools, r) IN IF i = 0 THEN Failed ELSE [kind |-> "tool", rank |-> i] :
        r \in Die}
    \cup IF ent.disks THEN {} ELSE {Failed}

\* pmt_random_unit_*: one of up to so many stars.  Knight/Power is always there.
Units(ent) ==
    {[kind |-> "unit", rank |-> 0, pm |-> 0]}
    \cup UNION {UnitRow(stars) : stars \in 0 .. Min({ent.unit_level, UnitMaxStars})}

\* generate_meseta
Money(range) ==
    {IF n = 0 THEN Failed ELSE [kind |-> "meseta", rank |-> 0] :
        n \in IF range[1] < range[2] THEN range[1] .. range[2] ELSE {range[1]}}

OfKind(kind, ent, area, money) ==
    CASE kind = "weapon" -> Weapon(ent, area)
      [] kind \in {"armor", "shield"} -> Guard(kind, ent, area)
      [] kind = "unit" -> Units(ent)
      [] kind = "tool" -> Tools(ent, area)
      [] kind = "meseta" -> Money(money)
      [] OTHER -> {Failed}

\* rt_generate_*_rare, and what the drop functions make of it: a frame or barrier
\* the PMT does not know is not dropped, nor what is no item at all.
Rare ==
    {IF it.kind \in {"armor", "shield"} /\ it \notin DOMAIN PMT THEN Failed ELSE it : it \in RT}
    \cup IF Unsure THEN {Failed} ELSE {}

-----------------------------------------------------------------------------
\* Where

\* The areas of the bosses, and all that come after the last one, count as the
\* area that follows.  (There are ten, from 0.)
AreaEp1_NotPast(a) == CASE a = 11 -> 3 [] a = 12 -> 6 [] a = 13 -> 8 [] OTHER -> a
AreaEp1(a) ==
    CASE a = 11 -> 3 [] a = 12 -> 6 [] a = 13 -> 8 [] a >= 14 -> 10 [] OTHER -> a
AreaEp2(a) ==
    CASE a = 14 -> 3 [] a = 15 -> 6 [] a = 12 -> 9 [] a = 13 -> 10 [] a > 10 -> 10 [] OTHER -> a
TableArea(a) ==
    IF team.version \in {"gc", "bb"} /\ team.episode = 2 THEN AreaEp2(a) - 1 ELSE AreaEp1(a) - 1

\* bb_ptdata is indexed with the episode itself for a box: that is the table of the
\* next one, and in the last one whatever lies behind the tables.
Tables(t) ==
    CASE team.version \in {"v1", "v2"} -> {PT[1]}
      [] team.version = "bb" /\ t \in Box ->
           IF team.episode < Len(PT) THEN {PT[team.episode + 1]} ELSE {PT[i] : i \in DOMAIN PT}
      [] OTHER -> {PT[team.episode]}

-----------------------------------------------------------------------------
\* What the quest allows

\* quest_search_enemy_list: the enemy itself comes before its type.
Policy(list, t) ==
    IF t \in Enemy /\ list.id[t] # NotListed THEN list.id[t] ELSE list.type[t]

\* Only v2 teams go by the list; a rare may be rolled for, and a semi-rare sent.
AsListed(t) == team.qid /\ team.version \in {"v1", "v2"} /\ Policy(team.sd, t) # NotListed
DropsNothing(t) == AsListed(t) /\ Policy(team.sd, t) = "NONE"
RollsRare(t) ==
    CASE AsListed(t) -> Policy(team.sd, t) = "FREE"
      [] team.qid /\ ~AsListed(t) -> ShipRares
      [] OTHER -> TRUE
HoldsSemis(t) ==
    CASE AsListed(t) -> Policy(team.sd, t) = "NORARE"
      [] team.qid /\ ~AsListed(t) -> ~ShipSemis
      [] OTHER -> FALSE

-----------------------------------------------------------------------------
\* The team

\* lobby_setup_drops: Blue Burst teams have server drops, others may.  (Battle and
\* challenge teams have not.)
DropFunc(s) ==
    CASE s.version = "bb" -> "pt"
      [] s.version # "bb" /\ s.magic -> "td"
      [] s.version # "bb" /\ ~s.magic /\ s.server /\ ~s.battle -> "pt"
      [] OTHER -> "none"

NoList == [id |-> [e \in Enemy |-> NotListed], type |-> [t \in Target |-> NotListed]]

DropsInit ==
    /\ \E s \in Setup :
         team = [version |-> s.version, dropfunc |-> DropFunc(s), server |-> DropFunc(s) # "none",
                 battle |-> s.battle, legit |-> s.limits, limits |-> s.limits,
                 episode |-> 1, qid |-> FALSE, map |-> "own", lists |-> FALSE,
                 sd |-> NoList, cd |-> NoList]
    /\ cur_area = [c \in Asker |-> 0]
    /\ next_item = {} /\ spent = {}
    /\ sent = [t \in Target |-> 0]
    /\ answer = NoAnswer

-----------------------------------------------------------------------------
\* The requests

\* check_and_send, check_and_send_bb.  What no PMT table knows has 255 stars, which
\* only Blue Burst takes for nine or more.
Withheld_AboveNine(it, csr) ==
    csr /\ IF team.version = "bb" THEN Stars(it) > 9 ELSE Stars(it) # Unknown /\ Stars(it) > 9
Withheld(it, csr) ==
    csr /\ IF team.version = "bb" THEN Stars(it) >= 9 ELSE Stars(it) # Unknown /\ Stars(it) >= 9
Refused(it) ==
    \/ team.version # "bb" /\ team.limits /\ it \in Illegal
    \/ it.kind = "failed"

Send(t, it, csr) ==
    /\ LET kept == Refused(it) \/ Withheld(it, csr) IN
       /\ answer' = [to |-> IF kept THEN "nobody" ELSE "everyone", item |-> it, from |-> "server"]
       /\ sent' = IF kept THEN sent ELSE [sent EXCEPT ![t] = @ + 1]

\* drop_done, and flag 1 of a box, are set before anything is rolled.
Spend_Forgotten(t) == UNCHANGED spent
Spend(t) == spent' = spent \cup {t}

\* pt_generate_*_drop: an enemy has its one chance before anything is rolled.
EnemyDrop(c, e) ==
    /\ cur_area[c] # 0 /\ e \in Enemy \ spent
    /\ Spend(e)
    /\ \E ent \in Tables(e) :
        \/ /\ DropsNothing(e) \/ ent.dar < Sides
           /\ answer' = Nothing /\ UNCHANGED sent
        \/ /\ ~DropsNothing(e) /\ ent.dar > 0
           /\ \/ RollsRare(e) /\ \E it \in Rare : Send(e, it, HoldsSemis(e))
              \/ \E kind \in {ent.drop, "tool", "meseta"} :
                 \E it \in OfKind(kind, ent, TableArea(cur_area[c]), ent.meseta) :
                    Send(e, it, HoldsSemis(e))

\* pt_generate_*_boxdrop: a box of its own kind keeps to it, and one with an item of
\* its own drops that.
FixedDrop(b) ==
    b \in DOMAIN FixedItem[team.map] /\ Send(b, FixedItem[team.map][b], HoldsSemis(b))
FixedKindDrop(b, ent, area) ==
    /\ b \in DOMAIN FixedKind[team.map]
    /\ \E it \in OfKind(FixedKind[team.map][b], ent, area, ent.meseta) : Send(b, it, HoldsSemis(b))
PlainBoxDrop(b, ent, area) ==
    /\ b \notin DOMAIN FixedItem[team.map] \cup DOMAIN FixedKind[team.map]
    /\ \/ RollsRare(b) /\ \E it \in Rare : Send(b, it, HoldsSemis(b))
       \/ \E r \in Die :
            LET i == Entry(ent.box, r) IN
            IF i = 0 THEN answer' = Nothing /\ UNCHANGED sent
            ELSE \E it \in OfKind(ent.kinds[i], ent, area, ent.meseta) : Send(b, it, HoldsSemis(b))

BoxDrop(c, b) ==
    /\ cur_area[c] # 0 /\ b \in Box \ spent
    /\ Spend(b)
    /\ \/ DropsNothing(b) /\ answer' = Nothing /\ UNCHANGED sent
       \/ /\ ~DropsNothing(b)
          /\ \E ent \in Tables(b) :
               \/ FixedDrop(b)
               \/ FixedKindDrop(b, ent, TableArea(cur_area[c]))
               \/ PlainBoxDrop(b, ent, TableArea(cur_area[c]))

\* td: now and then some meseta, for whatever it is asked.
Handout(c, t) ==
    /\ \/ answer' = Nothing /\ UNCHANGED sent
       \/ /\ answer' = [to |-> "everyone", item |-> [kind |-> "meseta", rank |-> 0], from |-> "td"]
          /\ sent' = [sent EXCEPT ![t] = @ + 1]
    /\ UNCHANGED spent

\* handle_quest_itemreq: what the leader's game is not to be asked for.
ClientDropsNothing(t) ==
    LET p == Policy(team.cd, t) IN
    /\ p # "FREE" /\ p # NotListed
    /\ team.version = "gc" \/ p = "NONE"
Forward == [NoAnswer EXCEPT !.to = "leader"]

\* handle_gm_itemreq
GMItem(c) ==
    /\ answer' = [NoAnswer EXCEPT !.to = "everyone", !.from = "gm"]
    /\ next_item' = next_item \ {c}
    /\ UNCHANGED <<spent, sent>>

\* subcmd_handle_one, subcmd_bb_handle_one.  (sent is bounded by MaxSent.)
MaxSent == 2
Request(c, t) ==
    /\ sent[t] < MaxSent
    /\ IF team.version # "bb" /\ c \in next_item /\ ~team.legit THEN GMItem(c)
       ELSE /\ CASE team.dropfunc = "td" -> Handout(c, t)
                 [] team.dropfunc = "pt" /\ (team.server \/ team.version = "bb") ->
                      EnemyDrop(c, t) \/ BoxDrop(c, t)
                 [] OTHER ->
                      /\ answer' = IF team.lists /\ team.qid /\ ClientDropsNothing(t)
                                   THEN Nothing ELSE Forward
                      /\ UNCHANGED <<spent, sent>>
            /\ UNCHANGED next_item
    /\ UNCHANGED <<team, cur_area>>

Move(c, a) ==
    /\ cur_area' = [cur_area EXCEPT ![c] = a]
    /\ answer' = NoAnswer
    /\ UNCHANGED <<team, next_item, spent, sent>>

\* handle_item, handle_normal
PickItem(c) ==
    /\ next_item' = next_item \cup {c}
    /\ answer' = NoAnswer
    /\ UNCHANGED <<team, cur_area, spent, sent>>
Normal ==
    /\ team.legit
    /\ team' = [team EXCEPT !.legit = FALSE]
    /\ answer' = NoAnswer
    /\ UNCHANGED <<cur_area, next_item, spent, sent>>

\* lobby_setup_quest, load_quest_enemies.  When the quest's maps cannot be read the
\* old ones stay, without server drops.  A quest without lists leaves those of the
\* quest before it.
LoadQuest(q) ==
    /\ q.episode = team.episode \/ team.version \in {"gc", "bb"}
    /\ LET begun == [team EXCEPT !.qid = TRUE, !.episode = q.episode]
           loaded == [begun EXCEPT !.map = "quest"]
           listed == [loaded EXCEPT !.lists = TRUE, !.sd = q.sd, !.cd = q.cd]
       IN  CASE team.battle -> team' = begun /\ UNCHANGED <<spent, sent>>
             [] ~team.battle /\ ~q.loads ->
                  team' = [begun EXCEPT !.server = FALSE] /\ UNCHANGED <<spent, sent>>
             [] OTHER ->
                  /\ team' = IF q.lists THEN listed ELSE loaded
                  /\ spent' = {} /\ sent' = [t \in Target |-> 0]
    /\ answer' = NoAnswer
    /\ UNCHANGED <<cur_area, next_item>>

DropsNext ==
    \/ \E c \in Asker :
        \/ PickItem(c)
        \/ \E t \in Target : Request(c, t)
        \/ \E a \in Areas : Move(c, a)
    \/ \E q \in Quests : LoadQuest(q)
    \/ Normal

DropsSpec == DropsInit /\ [][DropsNext]_dropVars

-----------------------------------------------------------------------------
\* Properties

FromServer == answer.from = "server"

\* The tables have ten areas, and what was sent is an item.
DropsTypeOK ==
    /\ spent \subseteq Target /\ next_item \subseteq Asker
    /\ sent \in [Target -> 0 .. MaxSent]
    /\ answer.to \in {"nobody", "asker", "leader", "everyone"}
    /\ \A c \in Asker : cur_area[c] # 0 => TableArea(cur_area[c]) \in 0 .. 9
    /\ FromServer /\ answer.to = "everyone" => answer.item.kind # "failed"

\* With server drops an enemy or a box of one map leaves one item at most, however
\* many clients ask, from whatever area, and whether or not the quest's maps could
\* be read in between.
AnswersOnce == team.dropfunc = "pt" => \A t \in Target : sent[t] <= 1

\* The quest's word on drops holds whoever makes the drop.  Where its list says
\* NONE nothing is sent; where the list, or the ship for want of one, forbids
\* semi-rares, nothing of nine stars is, not even as the one item of a fixed box.
QuestKept ==
    [][\A c \in Asker, t \in Target : Request(c, t) /\ team.qid /\ answer'.from # "gm" =>
        /\ FromServer' /\ HoldsSemis(t) /\ answer'.to = "everyone"
             => Stars(answer'.item) \notin 9 .. Unknown - 1
        /\ FromServer' /\ DropsNothing(t) => answer'.to # "everyone"
        /\ team.lists /\ Policy(team.cd, t) = "NONE" /\ ~team.server
             => answer'.to # "leader"]_dropVars

=============================================================================
