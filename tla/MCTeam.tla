------------------------------- MODULE MCTeam -------------------------------
(***************************************************************************)
(* TeamItems.tla, Drops.tla, Combat.tla, Views.tla and Legit.tla for TLC.  *)
(* They look at a team from five sides and share no variable, so that a    *)
(* behaviour of all is one of each: part says which of them moves, and the *)
(* others keep one of their initial states.                                *)
(***************************************************************************)
EXTENDS TeamItems, Drops, Combat, Views, Legit, TLC

CONSTANTS p1, p2, w1, w2, w3, list1, list2

VARIABLE part

teamRunVars == <<part, itemsVars, dropVars, combatVars, viewVars, legitVars>>

\* TeamItems: a worn frame with its unit, a stack, and meseta to carry and to find.
Piece(kind, n, on) == [id |-> NoId, kind |-> kind, n |-> n, on |-> on]
First(ofP1) == (p1 :> ofP1) @@ (p2 :> <<>>)
Purse(n) == [c \in Player |-> n]
Worn == [inv |-> First(<<Piece("frame", 1, TRUE), Piece("unit", 1, TRUE)>>),
         meseta |-> Purse(0), drops |-> <<>>]
Stacks == [inv |-> First(<<Piece("tool", 2, FALSE)>>), meseta |-> Purse(0), drops |-> <<>>]
Coins == [inv |-> First(<<>>), meseta |-> Purse(1), drops |-> <<"meseta">>]
Starts == {Worn, Stacks, Coins}
Mixed == [Stacks EXCEPT !.inv = First(<<Piece("frame", 1, FALSE), Piece("tool", 2, FALSE)>>)]
WithMixed == Starts \cup {Mixed}

\* Drops: two tables, a PMT and a rare table with an item of each sort, and teams and
\* quests of each sort.
It(kind, rank) == [kind |-> kind, rank |-> rank]
Table(dar, drop) ==
    [dar |-> dar, drop |-> drop, meseta |-> <<0, 1>>, level |-> 1, ranking |-> <<1, 2>>,
     tools |-> <<2>>, disks |-> FALSE, unit_level |-> 1,
     box |-> <<1, 1, 1>>, kinds |-> <<"weapon", "unit", "meseta">>,
     weapons |-> <<[minrank |-> -2, ratio |-> 1, upgfloor |-> 4],
                   [minrank |-> 0, ratio |-> 1, upgfloor |-> 9]>>]
PTTables == <<Table(2, "armor"), Table(3, "weapon")>>
PMTStars == (It("weapon", 0) :> 1) @@ (It("weapon", 1) :> 9) @@ (It("weapon", 9) :> 10)
            @@ (It("armor", 0) :> 2) @@ (It("armor", 1) :> 3)
            @@ (It("unit", 0) :> 1) @@ (It("unit", 1) :> 2)
RTItems == {It("weapon", 9), It("armor", 99), It("tool", 9)}
ListOf(p) == [id |-> [e \in Enemy |-> p], type |-> [t \in Target |-> p]]
AQuest(readable, lists, p, episode) ==
    [episode |-> episode, loads |-> readable, lists |-> lists, sd |-> ListOf(p), cd |-> ListOf(p)]
SomeQuests ==
    {AQuest(TRUE, TRUE, p, 1) : p \in {"NONE", "NORARE", "FREE"}}
    \cup {AQuest(TRUE, FALSE, NotListed, 2), AQuest(FALSE, FALSE, NotListed, 1)}
ATeam(version, server, limited, battle, magic) ==
    [version |-> version, server |-> server, limits |-> limited, battle |-> battle, magic |-> magic]
Teams ==
    {ATeam("v2", TRUE, TRUE, FALSE, FALSE), ATeam("gc", TRUE, FALSE, FALSE, FALSE),
     ATeam("gc", FALSE, FALSE, FALSE, FALSE), ATeam("v1", FALSE, FALSE, FALSE, FALSE),
     ATeam("v1", FALSE, FALSE, FALSE, TRUE), ATeam("v2", TRUE, FALSE, TRUE, FALSE),
     ATeam("bb", FALSE, FALSE, FALSE, FALSE)}
BoxItems == [m \in Maps |-> IF m = "quest" THEN "b1" :> It("weapon", 9) ELSE <<>>]
BoxKinds == [m \in Maps |-> "b2" :> "weapon"]
NotLegit == {It("weapon", 9)}

\* Combat: two levels to be gained.
Levels == <<0, 2, 3>>

\* Views: clients of three sorts.
SomeVersions == (w1 :> "dc") @@ (w2 :> "pc") @@ (w3 :> "bb")

\* Legit: a list that lets more pass than the one before.
SomeAllows == (list1 :> {}) @@ (list2 :> {"odd"})

TeamInit ==
    /\ part \in {"items", "drops", "combat", "views", "legit"}
    /\ ItemsInit /\ DropsInit /\ CombatInit /\ ViewsInit /\ LegitInit
    /\ part # "items" => inv = Coins.inv /\ drops = Coins.drops
    /\ part # "drops" => team.version = "bb"
    /\ part # "combat" => side.version = "bb"
    /\ side.version = "bb" => ~side.npc /\ tracked = {}     \* kills count in v2 teams only
    /\ part # "legit" => chief = p1 /\ \A c \in Entrant : carries[c] = {}

\* In a Blue Burst team there is nothing to track, and techniques go on hitting boxes as in
\* any other: they do so in the v2 teams.
TeamNext ==
    \/ part = "items" /\ ItemsNext /\ UNCHANGED <<part, dropVars, combatVars, viewVars, legitVars>>
    \/ part = "drops" /\ DropsNext /\ UNCHANGED <<part, itemsVars, combatVars, viewVars, legitVars>>
    \/ part = "combat" /\ CombatNext /\ (side.version = "bb" => tracked' = {} /\ aoe' = {})
         /\ UNCHANGED <<part, itemsVars, dropVars, viewVars, legitVars>>
    \/ part = "views" /\ ViewsNext /\ UNCHANGED <<part, itemsVars, dropVars, combatVars, legitVars>>
    \/ part = "legit" /\ LegitNext /\ UNCHANGED <<part, itemsVars, dropVars, combatVars, viewVars>>

TeamSpec == TeamInit /\ [][TeamNext]_teamRunVars

\* The type invariants of the five.
TeamTypesOK == ItemsTypeOK /\ DropsTypeOK /\ CombatTypeOK /\ ViewsTypeOK /\ LegitTypeOK
=============================================================================
