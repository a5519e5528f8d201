----------------------------- MODULE QuestLists -----------------------------
(***************************************************************************)
(* Choosing a quest at the quest counter: the categories and the quests a  *)
(* client of a team is shown, and the files the members are sent once one  *)
(* is chosen (ship_packets.c, lobby_setup_quest).                          *)
(*                                                                         *)
(* A ship has a list of categories of quests for every version of the game *)
(* and every language.  A team may mix versions and each member has two    *)
(* languages (the one of /qlang and the one of its character), so a quest  *)
(* is listed only if every member's version has it in a language that will *)
(* do, and each member is sent the file of its own version.  Meanwhile a   *)
(* GM may load new lists.                                                  *)
(***************************************************************************)
EXTENDS Naturals, Sequences, SequencesExt, FiniteSets, FiniteSetsExt

CONSTANTS Visitor,      \* clients that may be in the team
          Nobody,       \* no quest
          Lang,
          English,
          Collection,   \* what quests_dir may hold, by name: version -> language -> categories
          QuestTeam,    \* teams: version, v2, mode, event, stages
          Persons,      \* the clients' version, own language, gm and privileges
          Script        \* what a script says of a quest: "run", "veto" or another qid

Version == {"DCV1", "DCV2", "PC", "GC", "BB"}
\* The quests of one list of categories.
Quests(cats) == UNION {Range(cats[i].quests) : i \in DOMAIN cats}
QuestIds == {q.qid : q \in UNION {Quests(Collection[b][v][lang]) :
                                   b \in DOMAIN Collection, v \in Version, lang \in Lang}}

\* The loops over categories take the English category of the same number for granted;
\* send_quest has no packets for a Blue Burst quest that is not kept as a .qst file.
IsList(s) == s \in Seq(Range(s))
ASSUME CollectionAssumption ==
    \A b \in DOMAIN Collection, v \in Version, lang \in Lang :
        /\ IsList(Collection[b][v][lang])
        /\ \A i \in DOMAIN Collection[b][v][lang] : IsList(Collection[b][v][lang][i].quests)
        /\ Collection[b][v][lang] = <<>> \/ Len(Collection[b][v][lang]) <= Len(Collection[b][v][English])
        /\ \A q \in Quests(Collection[b][v][lang]) :
            /\ q # Nobody
            /\ q.format = "qst" \/ (q.format = "bindat" /\ v # "BB")
ASSUME PersonsAssumption ==
    /\ English \in Lang /\ Nobody \notin Lang
    /\ \A w \in Persons, c \in Visitor : w[c].version \in Version \cup {"XBOX"} /\ w[c].own \in Lang

VARIABLES
    books,      \* which lists the ship has read
    qroom,      \* the team: version, v2, mode, event, max_chal
    who,        \* what the clients are
    q_lang,     \* the language of /qlang
    here,       \* the team's members
    menu,       \* the menu a client has open: "none", "categories" or "quests", and its entries
    selecting,  \* LOBBY_FLAG_QUESTSEL
    playing,    \* l->qid while LOBBY_FLAG_QUESTING, or Nobody
    qlang,      \* l->qlang
    gone,       \* members to be disconnected
    fresh,      \* clients whose menu shows what is still so (observed)
    sure        \* the last quest set up was chosen from such a menu (observed)

listVars == <<books, qroom, who, q_lang, here, menu, selecting, playing, qlang, gone, fresh, sure>>
ground == <<qroom, who>>

NoMenu == [shows |-> "none", entries |-> {}]

\* quest_map: of the quests with one number in a list, the last one counts.
PlacesOf(cat, qid) == {j \in DOMAIN cat.quests : cat.quests[j].qid = qid}
LastOf(cats, qid) ==
    LET shelves == {i \in DOMAIN cats : PlacesOf(cats[i], qid) # {}}
        last == cats[Max(shelves)]
    IN IF shelves = {} THEN Nobody ELSE last.quests[Max(PlacesOf(last, qid))]
QuestMap ==
    [b \in DOMAIN Collection |-> [v \in Version |-> [lang \in Lang |->
        [qid \in QuestIds |-> LastOf(Collection[b][v][lang], qid)]]]]

qlist == Collection[books]                              \* ship->qlist
QPtr(qid, v, lang) == QuestMap[books][v][lang][qid]     \* ship->qmap: a quest, or Nobody

NoQuests == \A v \in Version, lang \in Lang : Quests(qlist[v][lang]) = {}
Known(qid) == \E v \in Version, lang \in Lang : QPtr(qid, v, lang) # Nobody

AsGamecube(v) == IF v = "XBOX" THEN "GC" ELSE v
V1Team == ~qroom.v2 /\ qroom.version \in {"DCV1", "DCV2", "PC"}
Allowed(c, needs) == needs \subseteq who[c].privilege \/ who[c].gm

-----------------------------------------------------------------------------
(* Categories.  The entry names the language the list was found in.        *)

DcLists == CASE qroom.version = "GC" -> "GC"
             [] qroom.version # "GC" /\ ~qroom.v2 -> "DCV1"
             [] OTHER -> "DCV2"

Categories(c, v, lang) ==
    {[cn |-> i, lang |-> lang] : i \in {i \in DOMAIN qlist[v][lang] :
        LET cat == qlist[v][lang][i]
        IN cat.type = qroom.mode /\ (cat.debug => who[c].gm) /\ Allowed(c, cat.privileges)}}

DcCategories(c, lang) ==
    Categories(c, DcLists, IF qlist[DcLists][lang] = <<>> THEN English ELSE lang)

PcCategories(c, lang) ==
    LET v == IF ~qroom.v2 THEN "DCV1" ELSE "PC"
    IN IF qlist[v][lang] # <<>> THEN Categories(c, v, lang)
       ELSE Categories(c, IF ~qroom.v2 THEN "DCV1" ELSE "DCV2", English)

XboxCategories(c, lang) == Categories(c, "GC", IF qlist["GC"][lang] = <<>> THEN English ELSE lang)
BbCategories(c, lang) == Categories(c, "BB", IF qlist["BB"][lang] = <<>> THEN English ELSE lang)

QuestCategories(c, lang) ==
    CASE who[c].version \in {"DCV1", "DCV2", "GC"} -> DcCategories(c, lang)
      [] who[c].version = "PC" -> PcCategories(c, lang)
      [] who[c].version = "XBOX" -> XboxCategories(c, lang)
      [] who[c].version = "BB" -> BbCategories(c, lang)

-----------------------------------------------------------------------------
(* Quests of a category: first those of the language, then the English     *)
(* ones that are not in it.  Only the first are looked up for the members. *)

\* What a member can be sent of a quest listed in a language.
Playable(m, qid, lang) ==
    \E tongue \in {q_lang[m], who[m].own, English, lang} :
        QPtr(qid, AsGamecube(who[m].version), tongue) # Nobody

Platform(m) == IF who[m].version \in {"DCV1", "DCV2"} THEN "DC" ELSE who[m].version

\* Whether a quest is shown to c at all; platforms is empty where a list does not ask.
Offered(c, q, platforms) ==
    /\ qroom.event \in q.events
    /\ Cardinality(here) \in q.players
    /\ Allowed(c, q.privileges)
    /\ q.open /\ ~q.hidden
    /\ q.not_on \cap platforms = {}

QuestList(c, v, cn, asked, stages, platforms) ==
    LET lang == IF Len(qlist[v][asked]) < cn THEN English ELSE asked
        Shown(l) == {q \in {qlist[v][l][cn].quests[i] :
                            i \in {i \in DOMAIN qlist[v][l][cn].quests : i - 1 \in stages}} :
                        Offered(c, q, platforms)}
        Entry(q, first) == [qid |-> q.qid, lang |-> lang, first |-> first]
    IN {Entry(q, TRUE) : q \in {q \in Shown(lang) : \A m \in here : Playable(m, q.qid, lang)}}
       \cup {Entry(q, FALSE) : q \in {q \in Shown(English) : QPtr(q.qid, v, lang) = Nobody}}

\* The stages of challenge mode the team has reached.
DcStages == {i \in Nat : qroom.mode = "challenge" => i < qroom.stages[1]}
GcStages ==
    {i \in Nat : qroom.mode = "challenge" => \/ i < 9 /\ i < qroom.stages[1]
                                             \/ i = 9
                                             \/ i > 9 /\ i - 9 < qroom.stages[2]}
Platforms == {Platform(m) : m \in here}

DcQuestList(c, cn, lang) ==
    QuestList(c, IF ~qroom.v2 THEN "DCV1" ELSE "DCV2", cn, lang, DcStages, Platforms \cup {"DC"})
PcQuestList(c, cn, lang) ==
    QuestList(c, IF ~qroom.v2 THEN "DCV1" ELSE "PC", cn, lang, DcStages, Platforms)
GcQuestList(c, cn, lang) == QuestList(c, DcLists, cn, lang, GcStages, Platforms)
XboxQuestList(c, cn, lang) == QuestList(c, DcLists, cn, lang, GcStages, Platforms)
BbQuestList(c, cn, lang) == QuestList(c, "BB", cn, lang, GcStages, {})

\* The lists a client's quests come from, and its quests of a category.
ListsOf(c) ==
    CASE who[c].version \in {"DCV1", "DCV2"} -> IF ~qroom.v2 THEN "DCV1" ELSE "DCV2"
      [] who[c].version = "PC" -> IF ~qroom.v2 THEN "DCV1" ELSE "PC"
      [] who[c].version \in {"GC", "XBOX"} -> DcLists
      [] who[c].version = "BB" -> "BB"

QuestsOf(c, cn, lang) ==
    CASE who[c].version \in {"DCV1", "DCV2"} -> DcQuestList(c, cn, lang)
      [] who[c].version = "PC" -> PcQuestList(c, cn, lang)
      [] who[c].version = "GC" -> GcQuestList(c, cn, lang)
      [] who[c].version = "XBOX" -> XboxQuestList(c, cn, lang)
      [] who[c].version = "BB" -> BbQuestList(c, cn, lang)

-----------------------------------------------------------------------------
(* Sending the files of a quest.                                           *)

\* The language in which a member is sent a quest of its version, or Nobody.
SentIn_NoChoice(m, qid, v, lc) ==
    LET tongues == <<q_lang[m], who[m].own, English>>
        there == {i \in 1 .. 3 : QPtr(qid, v, tongues[i]) # Nobody}
    IN IF there = {} THEN Nobody ELSE tongues[Min(there)]
SentIn(m, qid, v, lc) ==
    LET tongues == <<q_lang[m], who[m].own, English, lc>>
        there == {i \in 1 .. 4 : QPtr(qid, v, tongues[i]) # Nobody}
    IN IF there = {} THEN Nobody ELSE tongues[Min(there)]

\* The senders look the quest up again, and read its files.
DcV1File(m, qid, lang) == QPtr(qid, who[m].version, lang)
DcV2File(m, qid, lang) == QPtr(qid, who[m].version, lang)
PcFile(m, qid, lang) == QPtr(qid, who[m].version, lang)
GcFile(m, qid, lang) == QPtr(qid, AsGamecube(who[m].version), lang)
QstFile(m, qid, v, lang) == QPtr(qid, v, lang)

FileOf(m, qid, v, lang) ==
    CASE QPtr(qid, v, lang).format = "qst" -> QstFile(m, qid, v, lang)
      [] QPtr(qid, v, lang).format = "bindat" /\ v = "DCV1" -> DcV1File(m, qid, lang)
      [] QPtr(qid, v, lang).format = "bindat" /\ v = "DCV2" -> DcV2File(m, qid, lang)
      [] QPtr(qid, v, lang).format = "bindat" /\ v = "PC" -> PcFile(m, qid, lang)
      [] QPtr(qid, v, lang).format = "bindat" /\ v = "GC" -> GcFile(m, qid, lang)

\* Whether a member has the quest when all is sent, or is to be disconnected.
VersionSent(m) == IF V1Team /\ who[m].version = "DCV2" THEN "DCV1" ELSE AsGamecube(who[m].version)
Gets(m, qid, lc) ==
    LET lang == SentIn(m, qid, VersionSent(m), lc)
    IN lang # Nobody /\ LET file == FileOf(m, qid, VersionSent(m), lang)
                        IN file # Nobody /\ file.readable

SendQuest(qid, lc) == gone' = gone \cup {m \in here : ~Gets(m, qid, lc)}
SendQuestOne(c, qid, lc) == gone' = IF Gets(c, qid, lc) THEN gone ELSE gone \cup {c}

-----------------------------------------------------------------------------
(* The counter.                                                            *)

ListsInit ==
    /\ books \in DOMAIN Collection /\ qroom \in QuestTeam /\ who \in Persons
    /\ \A c \in Visitor : who[c].version \in qroom.fit
    /\ q_lang = [c \in Visitor |-> who[c].own]
    /\ here \in (SUBSET Visitor) \ {{}}
    /\ menu = [c \in Visitor |-> NoMenu]
    /\ selecting = FALSE /\ playing = Nobody /\ qlang = English
    /\ gone = {} /\ fresh = {} /\ sure = FALSE

Acts(c) == c \in here \ gone

Shows(c, what, entries) == menu' = [menu EXCEPT ![c] = [shows |-> what, entries |-> entries]]

OpenCounter(c) ==
    /\ Acts(c)
    /\ ~NoQuests
    /\ selecting' = TRUE
    /\ LET none == who[c].version = "BB" /\ \A lang \in {q_lang[c], English} : qlist["BB"][lang] = <<>>
       IN /\ Shows(c, IF none THEN "none" ELSE "categories", QuestCategories(c, q_lang[c]))
          /\ gone' = IF none THEN gone \cup {c} ELSE gone
    /\ UNCHANGED <<ground, books, q_lang, here, playing, qlang, fresh, sure>>

CloseCounter(c) ==
    /\ Acts(c) /\ menu[c] # NoMenu
    /\ selecting' = FALSE
    /\ menu' = [menu EXCEPT ![c] = NoMenu]
    /\ UNCHANGED <<ground, books, q_lang, here, playing, qlang, gone, fresh, sure>>

\* A category that is in no list any more is an error, and costs the connection.
ChooseCategory(c) ==
    /\ Acts(c) /\ menu[c].shows = "categories" /\ ~NoQuests
    /\ \E e \in menu[c].entries :
        LET there == \E lang \in {e.lang, English} : Len(qlist[ListsOf(c)][lang]) >= e.cn
        IN /\ IF there THEN Shows(c, "quests", QuestsOf(c, e.cn, e.lang))
              ELSE menu' = [menu EXCEPT ![c] = NoMenu]
           /\ fresh' = IF there THEN fresh \cup {c} ELSE fresh
           /\ gone' = IF there THEN gone ELSE gone \cup {c}
    /\ UNCHANGED <<ground, books, q_lang, here, selecting, playing, qlang, sure>>

\* A Gamecube or Blue Burst team needs the quest in its own version for the episode.
HasEpisode(qid) ==
    qroom.version \in {"GC", "BB"} => \E lang \in Lang : QPtr(qid, qroom.version, lang) # Nobody

SetupQuest(qid, lang, listed) ==
    \E says \in Script :
        LET q == IF says \in {"run", "veto"} THEN qid ELSE says
        IN /\ selecting' = FALSE
           /\ IF says # "veto" /\ Known(q) /\ HasEpisode(q)
              THEN /\ playing' = q /\ qlang' = lang
                   /\ SendQuest(q, lang)
                   /\ sure' = (listed /\ says = "run")
              ELSE UNCHANGED <<playing, qlang, gone, sure>>

PickQuest(c) ==
    /\ Acts(c) /\ menu[c].shows = "quests" /\ ~NoQuests
    /\ \E e \in menu[c].entries : SetupQuest(e.qid, e.lang, e.first /\ c \in fresh)
    /\ menu' = [menu EXCEPT ![c] = NoMenu]
    /\ UNCHANGED <<ground, books, q_lang, here, fresh>>

\* /quest of a GM.
QuestCommand(c) ==
    /\ Acts(c) /\ who[c].gm /\ ~NoQuests
    /\ \E v \in Version, lang \in Lang : \E q \in Quests(qlist[v][lang]) :
        SetupQuest(q.qid, English, FALSE)
    /\ UNCHANGED <<ground, books, q_lang, here, menu, fresh>>

SetQuestLanguage(c, lang) ==
    /\ Acts(c) /\ lang # q_lang[c]
    /\ q_lang' = [q_lang EXCEPT ![c] = lang]
    /\ fresh' = {}
    /\ UNCHANGED <<ground, books, here, menu, selecting, playing, qlang, gone, sure>>

\* A client joins: a quest that is played has to be joinable, and is sent to it.
JoinTeam(c) ==
    /\ c \notin here \cup gone
    /\ ~selecting
    /\ IF playing = Nobody THEN gone' = gone
       ELSE /\ \E v \in Version, lang \in Lang :
                    QPtr(playing, v, lang) # Nobody /\ QPtr(playing, v, lang).joinable
            /\ SendQuestOne(c, playing, qlang)
    /\ here' = here \cup {c}
    /\ fresh' = {} /\ sure' = FALSE
    /\ UNCHANGED <<ground, books, q_lang, menu, selecting, playing, qlang>>

LeaveTeam(c) ==
    /\ c \in here /\ here # {c}
    /\ here' = here \ {c}
    /\ menu' = [menu EXCEPT ![c] = NoMenu]
    /\ fresh' = {}
    /\ UNCHANGED <<ground, books, q_lang, selecting, playing, qlang, gone, sure>>

\* A GM has the lists read again.
LoadQuests(c) ==
    /\ Acts(c) /\ who[c].gm
    /\ books' \in DOMAIN Collection \ {books}
    /\ fresh' = {}
    /\ UNCHANGED <<ground, q_lang, here, menu, selecting, playing, qlang, gone, sure>>

ListsNext ==
    \E c \in Visitor :
        \/ OpenCounter(c) \/ CloseCounter(c) \/ ChooseCategory(c) \/ PickQuest(c)
        \/ QuestCommand(c) \/ JoinTeam(c) \/ LeaveTeam(c) \/ LoadQuests(c)
        \/ \E lang \in Lang : SetQuestLanguage(c, lang)

-----------------------------------------------------------------------------
(* Properties.                                                             *)

ListsTypeOK ==
    /\ books \in DOMAIN Collection /\ qroom \in QuestTeam /\ who \in Persons
    /\ q_lang \in [Visitor -> Lang] /\ qlang \in Lang
    /\ here \in (SUBSET Visitor) \ {{}} /\ gone \subseteq Visitor /\ fresh \subseteq Visitor
    /\ selecting \in BOOLEAN /\ sure \in BOOLEAN
    /\ \A c \in Visitor : menu[c].shows \in {"none", "categories", "quests"}

\* "That has to be there" (send_quest): a quest chosen from a list that still holds, from
\* the part of it that was looked up for the members, is sent to every member.  Nobody is
\* disconnected for it but a v2 client of a v1 team, whose list is looked up in another
\* version than its file, and one whose file cannot be read.
ListedQuestReachesAll ==
    [][playing' # playing /\ sure' =>
        \A m \in gone' \ gone :
            \/ V1Team /\ who[m].version = "DCV2"
            \/ \E v \in Version, lang \in Lang :
                   QPtr(playing', v, lang) # Nobody /\ ~QPtr(playing', v, lang).readable]_listVars
=============================================================================
