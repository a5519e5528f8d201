------------------------------- MODULE MCShip -------------------------------
(***************************************************************************)
(* QuestStack.tla, QuestLists.tla and Talk.tla for TLC.  They share no     *)
(* variable, so that a behaviour of all is one of each: part says which of *)
(* them moves, and the others keep one of their initial states.            *)
(***************************************************************************)
EXTENDS QuestStack, QuestLists, Talk, TLC

CONSTANTS m1, m2, v1, v2, t1, t2, t3

VARIABLE part

shipRunVars == <<part, questVars, listVars, talkVars>>

\* QuestStack: quests that ask for flags and counts, or for positions, one that makes the
\* other calls and mistakes, and one that uses the flag register as well as a flag function.
All == 999
Of(calls1, calls2, flags) == [calls |-> (m1 :> calls1) @@ (m2 :> calls2), flags |-> flags]
FlagsAndCounts ==
    Of({<<12, 1, 1, 4, 1>>, <<13, 2, 1, 4, 5, 3>>, <<9, 3, 3, 1, 1, 1, 1, 1, 1>>},
       {<<26, 0, 1, 2>>}, {})
Positions ==
    Of({<<21, 1, 2, All, 1, 2>>, <<21, 1, 1, 1, 3>>}, {<<21, 1, 1, 0, 3>>, <<12, 1, 1, 4, 1>>}, {})
OtherCalls ==
    Of({<<0, 1, 1, 0, 1>>, <<5, 1, 1, 7, 1>>, <<1, 1, 1, 2, 2>>, <<9, 2, 1, 1, 2, 3>>,
        <<23, 0, 1, 2>>, <<18, 1, 1, 1, 4>>, <<500, 0, 1, 2>>, <<99, 0, 0>>,
        <<13, 2, 1, 4, 6, 3>>, <<16, 1, 1, 4, 2>>, <<17, 1, 1, 5, 2>>}, {}, {})
Registers == Of({<<12, 1, 1, 4, 1>>}, {}, {m1})
SomeQuests == {FlagsAndCounts, Positions, OtherCalls, Registers}
TeamScripts == 500 :> [nargs |-> 0, nrets |-> 1]

\* QuestLists: two collections, teams of every sort, and clients that fit them.
AQuest(qid, format, joinable, readable, not_on) ==
    [qid |-> qid, format |-> format, readable |-> readable, joinable |-> joinable, events |-> {0},
     players |-> {1, 2}, privileges |-> {}, open |-> TRUE, hidden |-> FALSE, not_on |-> not_on]
Bin(qid) == AQuest(qid, "bindat", TRUE, TRUE, {})
Qst(qid) == AQuest(qid, "qst", TRUE, TRUE, {})
Unreadable(qid) == AQuest(qid, "bindat", FALSE, FALSE, {"PC"})
Shelf(mode, qs) == <<[type |-> mode, debug |-> FALSE, privileges |-> {}, quests |-> qs]>>
Both(english, japanese) == ("E" :> english) @@ ("J" :> japanese)
MixedBooks ==
    [v \in Version |->
        CASE v = "DCV1" -> Both(Shelf("normal", <<Bin("q1")>>), <<>>)
          [] v = "DCV2" -> Both(Shelf("normal", <<Bin("q1"), Bin("q3"), Unreadable("q4")>>),
                                Shelf("normal", <<Bin("q1"), Bin("q2")>>))
          [] v = "PC" -> Both(Shelf("normal", <<Bin("q1")>>), Shelf("normal", <<Qst("q2")>>))
          [] v = "GC" -> Both(Shelf("challenge", <<Bin("q1"), Bin("q2")>>),
                              Shelf("challenge", <<Bin("q3")>>))
          [] v = "BB" -> Both(Shelf("normal", <<Qst("q1"), Qst("q2")>>), <<>>)]
EvenBooks ==
    [v \in Version |-> Both(Shelf("normal", <<Qst("q1")>>) \o Shelf("challenge", <<Qst("q2")>>),
                            Shelf("normal", <<Qst("q1")>>))]
SomeBooks == ("mixed" :> MixedBooks) @@ ("even" :> EvenBooks)
ATeam(version, v2t, mode, fit) ==
    [version |-> version, v2 |-> v2t, mode |-> mode, event |-> 0, stages |-> <<1, 1>>, fit |-> fit]
SomeTeams == {ATeam("DCV2", TRUE, "normal", {"DCV2", "PC", "GC"}),
              ATeam("DCV1", FALSE, "normal", {"DCV1", "DCV2", "PC"}),
              ATeam("GC", TRUE, "challenge", {"GC", "XBOX"}),
              ATeam("BB", TRUE, "normal", {"BB"})}
Person(v, own, gm) == [version |-> v, own |-> own, gm |-> gm, privilege |-> {}]
Pair(a, b) == (v1 :> a) @@ (v2 :> b)
SomePersons == {Pair(Person("DCV2", "J", TRUE), Person("PC", "E", FALSE)),
                Pair(Person("DCV2", "E", FALSE), Person("DCV1", "J", FALSE)),
                Pair(Person("GC", "J", TRUE), Person("XBOX", "E", FALSE)),
                Pair(Person("BB", "E", FALSE), Person("BB", "E", TRUE))}
OneParty == CHOOSE w \in SomePersons : w[v1].version = "BB"
Says == {"run", "veto", "q3"}

\* Talk: a Blue Burst and a Dreamcast client here and a PC trial on the other ship; or two
\* with the Dreamcast trial edition here.
Clientele(here1, here2, there, trial) ==
    [platform |-> (t1 :> here1) @@ (t2 :> here2) @@ (t3 :> there), trial |-> trial]
SomeClienteles == {Clientele("bb", "dc", "pc", {t3}), Clientele("dc", "dc", "pc", {t1, t2})}

ShipInit ==
    /\ part \in {"quest", "lists", "talk"}
    /\ QuestInit /\ ListsInit /\ TalkInit
    /\ part # "quest" => quest = Registers
    /\ part # "lists" => books = "even" /\ who = OneParty /\ here = {v1}
    /\ part # "talk" => t3 \in clientele.trial
    /\ t3 \in clientele.trial => protected = {}
    /\ protected \subseteq {t2}         \* one that has yet to log in, which only keeps it quiet

MayAnswer(set) == set \subseteq IF t2 \in clientele.trial THEN {t2} ELSE {t1, t3}

\* The answer of a Dreamcast is never given: it is set in the trial edition's clientele only,
\* and no other is there.
ShipNext ==
    \/ part = "quest" /\ QuestNext /\ UNCHANGED <<part, listVars, talkVars>>
    \/ part = "lists" /\ ListsNext /\ UNCHANGED <<part, questVars, talkVars>>
    \/ part = "talk" /\ TalkNext /\ MayAnswer(autoreply')
         /\ UNCHANGED <<part, questVars, listVars>>

\* The shipgate answers what quests ask it (QuestSpec).
GateAnswers == part = "quest" /\ Reply /\ UNCHANGED <<part, listVars, talkVars>>
ShipSpec == ShipInit /\ [][ShipNext]_shipRunVars /\ WF_shipRunVars(GateAnswers)

\* The type invariants of the three.
ShipTypesOK == QuestTypeOK /\ ListsTypeOK /\ TalkTypeOK
=============================================================================
