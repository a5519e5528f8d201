----------------------------- MODULE PlayProofs -----------------------------
(***************************************************************************)
(* What is proved of the sides of a team that Combat.tla, Legit.tla and    *)
(* Views.tla look at, for any number of clients, slots, enemies and lists. *)
(* They share no variable: what is proved of one goes on whatever the      *)
(* others do.                                                              *)
(***************************************************************************)
EXTENDS Combat, Legit, Views, NatMin, FiniteSetTheorems, SequenceTheorems, TLAPS

(***************************************************************************)
(* Combat: kills, experience and levels.                                   *)
(***************************************************************************)

OneSpotEach == \A s, t \in Spot : spot[s] = spot[t] /\ spot[s] # Empty => s = t

CombatShape ==
    /\ side \in [version : Versions, npc : BOOLEAN, left : BOOLEAN]
    /\ spot \in [Spot -> Fighter \cup {Empty}] /\ OneSpotEach
    /\ hit \in [Foe -> SUBSET Spot] /\ dead \subseteq Foe /\ broken \subseteq Crate
    /\ enemy_kills \in [Fighter -> Nat]
    /\ reported \in [Fighter -> Nat] /\ killed \in [Fighter -> Nat]
    /\ tracked \subseteq Fighter /\ always \subseteq tracked
    /\ claims \in [Fighter -> [Foe -> Nat]]

CharShape == char \in [Fighter -> [level : 0 .. MaxLevel, exp : 0 .. MaxExp]]

\* Experience that was claimed leaves an enemy dead, and the bit of whom it was given
\* to cleared: the bit is set again for living enemies only.
ClaimsAreSpent ==
    ~side.left =>
        \A c \in Fighter, e \in Foe :
            /\ claims[c][e] <= 1
            /\ claims[c][e] = 1 => e \in dead /\ Fights(c) /\ SpotOf(c) \notin hit[e]

CombatInv == CombatShape /\ KillsCountedOnce /\ ClaimsAreSpent
LevelInv == CharShape /\ LevelMatchesExp

\* The slot of a client that fights is the one slot it is in (c->client_id).
LEMMA SpotOfFighter ==
    ASSUME CombatShape, NEW c \in Fighter, Fights(c)
    PROVE  SpotOf(c) \in Spot /\ spot[SpotOf(c)] = c /\ \A s \in Spot : spot[s] = c => s = SpotOf(c)
<1>1. SpotOf(c) \in Spot /\ spot[SpotOf(c)] = c
  BY DEF SpotOf, Fights
<1>2. c # Empty
  BY CombatConstants
<1> QED BY <1>1, <1>2 DEF CombatShape, OneSpotEach

\* lobby_add_client: the slot found is in the team and free.
LEMMA FreeSpot ==
    ASSUME \E t \in Spot : spot[t] = Empty
    PROVE  LET s == Min({t \in Spot : spot[t] = Empty}) IN s \in Spot /\ spot[s] = Empty
<1> DEFINE S == {t \in Spot : spot[t] = Empty}
<1>1. S \in SUBSET Nat /\ S # {}
  BY CombatConstants DEF Spot
<1>2. Min(S) \in S
  <2> HIDE DEF S
  <2> QED BY <1>1, MinOfNat
<1> QED BY <1>2

\* Coming to a team (lobby_change_lobby) leaves everybody else in the slot it had.
LEMMA ArriveSpots ==
    ASSUME CombatShape, NEW c \in Fighter, Arrive(c)
    PROVE  /\ spot' \in [Spot -> Fighter \cup {Empty}] /\ OneSpotEach'
           /\ \A d \in Fighter \ {c} : Fights(d)' = Fights(d) /\ (Fights(d) => SpotOf(d)' = SpotOf(d))
<1> DEFINE s == Min({t \in Spot : spot[t] = Empty})
<1>1. s \in Spot /\ spot[s] = Empty
  BY FreeSpot DEF Arrive
<1>2. spot' = [spot EXCEPT ![s] = c] /\ ~Fights(c)
  BY DEF Arrive
<1> HIDE DEF s
<1>3. spot' \in [Spot -> Fighter \cup {Empty}]
  BY <1>1, <1>2 DEF CombatShape
<1>4. OneSpotEach'
  BY <1>1, <1>2 DEF CombatShape, OneSpotEach, Fights
<1>5. ASSUME NEW d \in Fighter \ {c} PROVE \A t \in Spot : spot'[t] = d <=> spot[t] = d
  <2>1. d # Empty
    BY CombatConstants
  <2> QED BY <1>1, <1>2, <2>1 DEF CombatShape
<1> QED BY <1>3, <1>4, <1>5 DEF Fights, SpotOf

\* So does leaving it (lobby_remove_player).
LEMMA DepartSpots ==
    ASSUME CombatShape, NEW c \in Fighter, Depart(c)
    PROVE  /\ spot' \in [Spot -> Fighter \cup {Empty}] /\ OneSpotEach'
           /\ ~Fights(c)'
           /\ \A d \in Fighter \ {c} : Fights(d)' = Fights(d)
<1>1. SpotOf(c) \in Spot /\ spot[SpotOf(c)] = c /\ \A s \in Spot : spot[s] = c => s = SpotOf(c)
  BY SpotOfFighter DEF Depart
<1>2. spot' = [spot EXCEPT ![SpotOf(c)] = Empty]
  BY DEF Depart
<1>3. spot' \in [Spot -> Fighter \cup {Empty}]
  BY <1>1, <1>2 DEF CombatShape
<1>4. OneSpotEach'
  BY <1>1, <1>2 DEF CombatShape, OneSpotEach
<1>5. ASSUME NEW d \in Fighter \ {c} PROVE \A t \in Spot : spot'[t] = d <=> spot[t] = d
  <2>1. d # Empty
    BY CombatConstants
  <2> QED BY <1>1, <1>2, <2>1 DEF CombatShape
<1>6. ~Fights(c)'
  <2>1. c # Empty
    BY CombatConstants
  <2> QED BY <1>1, <1>2, <2>1 DEF CombatShape, Fights
<1> QED BY <1>3, <1>4, <1>5, <1>6 DEF Fights

\* CombatShape at the start, and after every step.
LEMMA CombatShapeInit == CombatInit => CombatShape
<1> SUFFICES ASSUME CombatInit PROVE CombatShape
  OBVIOUS
<1>1. /\ side \in [version : Versions, npc : BOOLEAN, left : BOOLEAN]
      /\ spot \in [Spot -> Fighter \cup {Empty}] /\ OneSpotEach
      /\ hit \in [Foe -> SUBSET Spot] /\ dead \subseteq Foe /\ broken \subseteq Crate
  BY DEF CombatInit, OneSpotEach
<1>2. /\ enemy_kills \in [Fighter -> Nat]
      /\ reported \in [Fighter -> Nat] /\ killed \in [Fighter -> Nat]
      /\ tracked \subseteq Fighter /\ always \subseteq tracked
  BY DEF CombatInit
<1>3. claims \in [Fighter -> [Foe -> Nat]]
  BY DEF CombatInit
<1> QED BY <1>1, <1>2, <1>3 DEF CombatShape

\* What the shipgate has been told after it was sent the counts of some clients, whichever
\* of them arrived.
LEMMA SentCounts ==
    ASSUME CombatShape, NEW C \in SUBSET Fighter, Sent(C)
    PROVE  /\ reported' \in [Fighter -> Nat] /\ always' \subseteq always
           /\ \A d \in Fighter :
                 \/ d \in C \cap tracked /\ reported'[d] = reported[d] + enemy_kills[d]
                 \/ reported'[d] = reported[d] /\ (d \in C => d \notin always')
<1>1. PICK arrived \in SUBSET (C \cap tracked) :
        /\ reported' = [c \in Fighter |-> reported[c] + (IF c \in arrived THEN enemy_kills[c] ELSE 0)]
        /\ always' = always \ (C \ arrived)
  BY DEF Sent
<1> DEFINE more(c) == IF c \in arrived THEN enemy_kills[c] ELSE 0
<1>2. \A c \in Fighter : reported[c] \in Nat /\ more(c) \in Nat
  BY DEF CombatShape
<1>3. reported' = [c \in Fighter |-> reported[c] + more(c)]
  BY <1>1
<1>4. reported' \in [Fighter -> Nat]
  <2> HIDE DEF more
  <2> QED BY <1>2, <1>3
<1>5. ASSUME NEW d \in Fighter
      PROVE  \/ d \in C \cap tracked /\ reported'[d] = reported[d] + enemy_kills[d]
             \/ reported'[d] = reported[d] /\ (d \in C => d \notin always')
  <2>1. CASE d \in arrived
    BY <1>3, <2>1
  <2>2. CASE d \notin arrived
    <3>1. reported'[d] = reported[d] + 0
      BY <1>3, <2>2
    <3> QED BY <1>1, <1>2, <2>2, <3>1
  <2> QED BY <2>1, <2>2
<1> QED BY <1>1, <1>4, <1>5

\* Every step of the team (subcmd.c, lobby.c, commands.c) keeps the shape of its state.
LEMMA CombatShapeStep ==
    ASSUME CombatShape, [CombatNext]_combatVars
    PROVE  CombatShape'
<1> USE DEF CombatShape
<1>1. ASSUME NEW c \in Fighter, Arrive(c) PROVE CombatShape'
  <2>1. spot' \in [Spot -> Fighter \cup {Empty}] /\ OneSpotEach'
    BY <1>1, ArriveSpots
  <2> QED BY <1>1, <2>1 DEF Arrive, hitVars, boxVars, expVars
<1>2. ASSUME NEW c \in Fighter, Depart(c) PROVE CombatShape'
  <2>1. spot' \in [Spot -> Fighter \cup {Empty}] /\ OneSpotEach'
    BY <1>2, DepartSpots
  <2>2. reported' \in [Fighter -> Nat] /\ always' \subseteq tracked'
    <3>1. {c} \in SUBSET Fighter /\ Sent({c}) /\ tracked' = tracked
      BY <1>2 DEF Depart
    <3> QED BY <3>1, SentCounts
  <2>3. side' \in [version : Versions, npc : BOOLEAN, left : BOOLEAN]
    BY <1>2 DEF Depart
  <2> QED BY <1>2, <2>1, <2>2, <2>3 DEF Depart, hitVars, boxVars, expVars
<1>3. ASSUME Load PROVE CombatShape'
  <2>1. reported' \in [Fighter -> Nat] /\ always' \subseteq tracked'
    <3>1. {c \in Fighter : Fights(c)} \in SUBSET Fighter
      OBVIOUS
    <3>2. Sent({c \in Fighter : Fights(c)}) /\ tracked' = tracked
      BY <1>3 DEF Load
    <3> QED BY <3>1, <3>2, SentCounts
  <2>2. enemy_kills' \in [Fighter -> Nat]
    BY <1>3 DEF Load, Cleared
  <2> QED BY <1>3, <2>1, <2>2 DEF Load, OneSpotEach
<1>4. ASSUME NEW c \in Fighter, NEW on \in BOOLEAN, TrackKills(c, on) PROVE CombatShape'
  BY <1>4 DEF TrackKills, hitVars, boxVars, expVars, OneSpotEach
<1>5. ASSUME NEW c \in Fighter, NEW e \in Foe, NEW b \in BOOLEAN, Hit(c, e, b) PROVE CombatShape'
  <2>1. SpotOf(c) \in Spot
    BY <1>5, SpotOfFighter DEF Hit
  <2>2. hit' \in [Foe -> SUBSET Spot] /\ dead' \subseteq Foe
    <3>1. CASE e \in dead
      BY <1>5, <3>1 DEF Hit, hitVars
    <3>2. CASE e \notin dead
      BY <1>5, <2>1, <3>2 DEF Hit, Marked
    <3> QED BY <3>1, <3>2
  <2>3. killed' \in [Fighter -> Nat] /\ enemy_kills' \in [Fighter -> Nat]
    <3>1. CASE UNCHANGED <<enemy_kills, killed>>
      BY <3>1
    <3>2. CASE killed' = [killed EXCEPT ![c] = @ + 1] /\ enemy_kills' = [enemy_kills EXCEPT ![c] = @ + 1]
      BY <3>2
    <3> QED BY <1>5, <3>1, <3>2 DEF Hit
  <2> QED BY <1>5, <2>2, <2>3 DEF Hit, boxVars, expVars, OneSpotEach
<1>6. ASSUME NEW c \in Fighter, NEW e \in Foe, BBHit(c, e) PROVE CombatShape'
  <2>1. SpotOf(c) \in Spot
    BY <1>6, SpotOfFighter DEF BBHit
  <2> QED BY <1>6, <2>1 DEF BBHit, Marked, boxVars, killVars, expVars, OneSpotEach
<1>7. ASSUME NEW c \in Fighter, NEW e \in Foe, NEW b \in BOOLEAN, RequestExp(c, e, b)
      PROVE CombatShape'
  <2>1. hit' \in [Foe -> SUBSET Spot] /\ claims' \in [Fighter -> [Foe -> Nat]] /\ dead' \subseteq Foe
    BY <1>7 DEF RequestExp
  <2> QED BY <1>7, <2>1 DEF RequestExp, boxVars, killVars, OneSpotEach
<1>8. ASSUME UNCHANGED <<side, spot, hitVars, broken, killVars, claims>> PROVE CombatShape'
  BY <1>8 DEF hitVars, killVars, OneSpotEach
<1>9. ASSUME NEW c \in Fighter, NEW b \in Crate, HitBox(c, b) \/ AreaHit(c, b) PROVE CombatShape'
  BY <1>9 DEF HitBox, AreaHit, Break, hitVars, killVars, expVars, OneSpotEach
<1>10. ASSUME NEW c \in Fighter, Cast(c) \/ TechniqueEnds(c) PROVE CombatShape'
  BY <1>8, <1>10 DEF Cast, TechniqueEnds, expVars
<1>11. ASSUME NEW c \in Fighter, NEW n, LevelCommand(c, n) \/ ExpCommand(c, n) PROVE CombatShape'
  BY <1>8, <1>11 DEF LevelCommand, ExpCommand, boxVars
<1>12. CASE UNCHANGED combatVars
  BY <1>8, <1>12 DEF combatVars, hitVars, boxVars, killVars
<1> QED
  BY <1>1, <1>2, <1>3, <1>4, <1>5, <1>6, <1>7, <1>9, <1>10, <1>11, <1>12 DEF CombatNext

\* No kill is counted twice, and none that is tracked is lost but with its count, over one
\* step: who comes has its count begun anew, who leaves and whose team loads a quest has it
\* sent.
LEMMA KillsStep ==
    ASSUME CombatShape, KillsCountedOnce, [CombatNext]_combatVars
    PROVE  KillsCountedOnce'
<1> USE DEF CombatShape
<1> DEFINE Counted(c) ==
             /\ reported[c] + Here(c) <= killed[c]
             /\ c \in always => reported[c] + Here(c) = killed[c]
<1> SUFFICES ASSUME NEW d \in Fighter PROVE Counted(d)'
  BY DEF KillsCountedOnce
<1>0. Counted(d)
  BY DEF KillsCountedOnce
<1>t. /\ enemy_kills[d] \in Nat /\ reported[d] \in Nat /\ killed[d] \in Nat
      /\ (d \in always => d \in tracked)
  OBVIOUS
<1>1. ASSUME NEW c \in Fighter, Arrive(c) PROVE Counted(d)'
  <2>1. UNCHANGED <<tracked, reported, killed, always>>
    BY <1>1 DEF Arrive
  <2>2. CASE d = c
    <3>1. enemy_kills'[d] = 0 /\ Here(d) = 0
      BY <1>1, <2>2 DEF Arrive, Here
    <3>2. Here(d)' = 0
      BY <3>1 DEF Here
    <3> QED BY <3>1, <3>2, <2>1, <1>0, <1>t
  <2>3. CASE d # c
    <3>1. enemy_kills'[d] = enemy_kills[d] /\ Fights(d)' = Fights(d)
      BY <1>1, <2>3, ArriveSpots DEF Arrive
    <3>2. Here(d)' = Here(d)
      BY <3>1 DEF Here
    <3> QED BY <3>2, <2>1, <1>0, <1>t
  <2> QED BY <2>2, <2>3
<1>2. ASSUME NEW c \in Fighter, Depart(c) PROVE Counted(d)'
  <2>1. UNCHANGED <<tracked, enemy_kills, killed>> /\ Fights(c)
    BY <1>2 DEF Depart
  <2>2. /\ always' \subseteq always
        /\ \/ d = c /\ reported'[d] = reported[d] + enemy_kills[d]
           \/ reported'[d] = reported[d] /\ (d = c => d \notin always')
    <3>1. {c} \in SUBSET Fighter /\ Sent({c})
      BY <1>2 DEF Depart
    <3> QED BY <3>1, SentCounts
  <2>3. CASE d = c
    <3>1. Here(d) = enemy_kills[d] /\ Here(d)' = 0
      BY <1>2, <2>1, <2>3, DepartSpots DEF Here
    <3> QED BY <3>1, <2>1, <2>2, <2>3, <1>0, <1>t
  <2>4. CASE d # c
    <3>1. Here(d)' = Here(d)
      BY <1>2, <2>1, <2>4, DepartSpots DEF Here
    <3> QED BY <3>1, <2>1, <2>2, <2>4, <1>0, <1>t
  <2> QED BY <2>3, <2>4
<1>3. ASSUME Load PROVE Counted(d)'
  <2>1. UNCHANGED <<spot, tracked, killed>>
    BY <1>3 DEF Load
  <2>2. /\ always' \subseteq always
        /\ \/ Fights(d) /\ d \in tracked /\ reported'[d] = reported[d] + enemy_kills[d]
           \/ reported'[d] = reported[d] /\ (Fights(d) => d \notin always')
    <3>1. {c \in Fighter : Fights(c)} \in SUBSET Fighter /\ Sent({c \in Fighter : Fights(c)})
      BY <1>3 DEF Load
    <3> QED BY <3>1, SentCounts
  <2>3. enemy_kills'[d] = IF Fights(d) /\ d \in tracked THEN 0 ELSE enemy_kills[d]
    BY <1>3 DEF Load, Cleared
  <2>4. Fights(d)' = Fights(d)
    BY <2>1 DEF Fights
  <2>5. /\ Here(d) = (IF Fights(d) THEN enemy_kills[d] ELSE 0)
        /\ Here(d)' = (IF Fights(d) THEN enemy_kills'[d] ELSE 0)
    BY <2>4 DEF Here
  <2> QED BY <2>1, <2>2, <2>3, <2>5, <1>0, <1>t
<1>4. ASSUME NEW c \in Fighter, NEW on \in BOOLEAN, TrackKills(c, on) PROVE Counted(d)'
  <2>1. Here(d)' = Here(d)
    BY <1>4 DEF TrackKills, Here, Fights
  <2>2. UNCHANGED <<reported, killed>> /\ always' \subseteq always
    BY <1>4 DEF TrackKills
  <2> QED BY <2>1, <2>2, <1>0
<1>5. ASSUME NEW c \in Fighter, NEW e \in Foe, NEW b \in BOOLEAN, Hit(c, e, b) PROVE Counted(d)'
  <2>1. UNCHANGED <<spot, tracked, reported, always>> /\ Fights(c)
    BY <1>5 DEF Hit
  <2>2. Fights(d)' = Fights(d)
    BY <2>1 DEF Fights
  <2>3. CASE UNCHANGED <<enemy_kills, killed>>
    <3>1. Here(d)' = Here(d)
      BY <2>2, <2>3 DEF Here
    <3> QED BY <3>1, <2>1, <2>3, <1>0
  <2>4. CASE killed' = [killed EXCEPT ![c] = @ + 1] /\ enemy_kills' = [enemy_kills EXCEPT ![c] = @ + 1]
    <3>1. CASE d = c
      <4>1. Here(d)' = Here(d) + 1 /\ killed'[d] = killed[d] + 1 /\ Here(d) = enemy_kills[d]
        BY <2>1, <2>2, <2>4, <3>1 DEF Here
      <4>2. tracked' = tracked /\ always' = always /\ reported'[d] = reported[d]
        BY <2>1
      <4>3. Here(d) \in Nat /\ Here(d)' \in Nat
        BY <4>1, <1>t
      <4>4. d \in always' => reported'[d] + Here(d)' = killed'[d]
        BY <4>1, <4>2, <4>3, <1>0, <1>t
      <4>5. reported'[d] + Here(d)' <= killed'[d]
        BY <4>1, <4>2, <4>3, <1>0, <1>t
      <4> QED BY <4>4, <4>5
    <3>2. CASE d # c
      <4>1. Here(d)' = Here(d) /\ killed'[d] = killed[d]
        BY <2>2, <2>4, <3>2 DEF Here
      <4> QED BY <4>1, <2>1, <1>0, <1>t
    <3> QED BY <3>1, <3>2
  <2> QED BY <1>5, <2>3, <2>4 DEF Hit
<1>6. ASSUME UNCHANGED <<spot, killVars>> PROVE Counted(d)'
  <2>1. Here(d)' = Here(d)
    BY <1>6 DEF Here, Fights, killVars
  <2> QED BY <1>6, <2>1, <1>0 DEF killVars
<1>7. ASSUME NEW c \in Fighter, NEW e \in Foe, BBHit(c, e) PROVE Counted(d)'
  BY <1>6, <1>7 DEF BBHit
<1>8. ASSUME NEW c \in Fighter, NEW e \in Foe, NEW b \in BOOLEAN, RequestExp(c, e, b) PROVE Counted(d)'
  BY <1>6, <1>8 DEF RequestExp
<1>9. ASSUME NEW c \in Fighter, NEW b \in Crate, HitBox(c, b) \/ AreaHit(c, b) PROVE Counted(d)'
  BY <1>6, <1>9 DEF HitBox, AreaHit
<1>10. ASSUME NEW c \in Fighter, Cast(c) \/ TechniqueEnds(c) PROVE Counted(d)'
  BY <1>6, <1>10 DEF Cast, TechniqueEnds
<1>11. ASSUME NEW c \in Fighter, NEW n, LevelCommand(c, n) \/ ExpCommand(c, n) PROVE Counted(d)'
  BY <1>6, <1>11 DEF LevelCommand, ExpCommand
<1>12. CASE UNCHANGED combatVars
  BY <1>6, <1>12 DEF combatVars, killVars
<1> HIDE DEF Counted
<1> QED
  BY <1>1, <1>2, <1>3, <1>4, <1>5, <1>7, <1>8, <1>9, <1>10, <1>11, <1>12 DEF CombatNext

\* Claims over one step, as long as nobody has left the team.
LEMMA ClaimsStep ==
    ASSUME CombatShape, ClaimsAreSpent, [CombatNext]_combatVars
    PROVE  ClaimsAreSpent'
<1> DEFINE Spent(d, f) ==
             /\ claims[d][f] <= 1
             /\ claims[d][f] = 1 => f \in dead /\ Fights(d) /\ SpotOf(d) \notin hit[f]
<1> SUFFICES ASSUME NEW d \in Fighter, NEW f \in Foe, ~side'.left PROVE Spent(d, f)'
  BY DEF ClaimsAreSpent
<1>1. ASSUME ~side.left PROVE Spent(d, f)
  BY <1>1 DEF ClaimsAreSpent
<1>2. claims[d][f] \in Nat
  BY DEF CombatShape
<1>3. ASSUME NEW c \in Fighter, Arrive(c) PROVE Spent(d, f)'
  <2>1. UNCHANGED <<side, hit, dead, claims>> /\ ~Fights(c)
    BY <1>3 DEF Arrive, hitVars, expVars
  <2>2. Spent(d, f)
    BY <1>1, <2>1
  <2>3. CASE d = c
    BY <1>2, <2>1, <2>2, <2>3
  <2>4. CASE d # c
    <3>1. Fights(d)' = Fights(d) /\ (Fights(d) => SpotOf(d)' = SpotOf(d))
      BY <1>3, <2>4, ArriveSpots
    <3> QED BY <2>1, <2>2, <3>1
  <2> QED BY <2>3, <2>4
<1>4. ASSUME NEW c \in Fighter, Depart(c) PROVE FALSE
  BY <1>4 DEF Depart, CombatShape
<1>5. ASSUME Load PROVE Spent(d, f)'
  BY <1>5 DEF Load
<1>6. ASSUME UNCHANGED <<side, spot, claims>>, dead \subseteq dead',
             hit'[f] \ hit[f] = {} \/ f \notin dead
      PROVE  Spent(d, f)'
  <2>1. Fights(d)' = Fights(d) /\ SpotOf(d)' = SpotOf(d)
    BY <1>6 DEF Fights, SpotOf
  <2>2. Spent(d, f)
    BY <1>1, <1>6
  <2> QED BY <1>6, <2>1, <2>2
<1>7. ASSUME NEW c \in Fighter, NEW e \in Foe, NEW b \in BOOLEAN, Hit(c, e, b) PROVE Spent(d, f)'
  <2>1. UNCHANGED <<side, spot, claims>>
    BY <1>7 DEF Hit, expVars
  <2>2. dead \subseteq dead' /\ (hit'[f] \ hit[f] = {} \/ f \notin dead)
    BY <1>7 DEF Hit, Marked, hitVars, CombatShape
  <2> QED BY <1>6, <2>1, <2>2
<1>8. ASSUME NEW c \in Fighter, NEW e \in Foe, BBHit(c, e) PROVE Spent(d, f)'
  <2>1. UNCHANGED <<side, spot, claims, dead>>
    BY <1>8 DEF BBHit, expVars
  <2>2. hit'[f] \ hit[f] = {} \/ f \notin dead
    BY <1>8 DEF BBHit, Marked, CombatShape
  <2> QED BY <1>6, <2>1, <2>2
<1>9. ASSUME NEW c \in Fighter, NEW e \in Foe, NEW b \in BOOLEAN, RequestExp(c, e, b)
      PROVE Spent(d, f)'
  <2>1. /\ UNCHANGED <<side, spot>> /\ Fights(c) /\ SpotOf(c) \in hit[e]
        /\ hit' = [hit EXCEPT ![e] = @ \ {SpotOf(c)}] /\ dead' = dead \cup {e}
        /\ claims' = [claims EXCEPT ![c][e] = @ + 1]
    BY <1>9 DEF RequestExp
  <2>2. Fights(d)' = Fights(d) /\ SpotOf(d)' = SpotOf(d)
    BY <2>1 DEF Fights, SpotOf
  <2>3. Spent(d, f)
    BY <1>1, <2>1
  <2>4. CASE d = c /\ f = e
    <3>1. claims'[d][f] = claims[d][f] + 1
      BY <2>1, <2>4 DEF CombatShape
    <3>2. claims[d][f] = 0
      BY <1>2, <2>1, <2>3, <2>4
    <3>3. f \in dead' /\ Fights(d)' /\ SpotOf(d)' \notin hit'[f]
      BY <2>1, <2>2, <2>4 DEF CombatShape
    <3> QED BY <3>1, <3>2, <3>3
  <2>5. CASE d # c \/ f # e
    <3>1. claims'[d][f] = claims[d][f]
      BY <2>1, <2>5 DEF CombatShape
    <3>2. hit'[f] \subseteq hit[f]
      BY <2>1 DEF CombatShape
    <3> QED BY <2>1, <2>2, <2>3, <3>1, <3>2
  <2> QED BY <2>4, <2>5
<1>10. ASSUME UNCHANGED <<side, spot, hitVars, claims>> PROVE Spent(d, f)'
  BY <1>6, <1>10 DEF hitVars
<1>11. ASSUME NEW c \in Fighter, NEW b \in Crate, HitBox(c, b) \/ AreaHit(c, b) PROVE Spent(d, f)'
  BY <1>10, <1>11 DEF HitBox, AreaHit, expVars
<1>12. ASSUME NEW c \in Fighter, Cast(c) \/ TechniqueEnds(c) PROVE Spent(d, f)'
  BY <1>10, <1>12 DEF Cast, TechniqueEnds, expVars
<1>15. ASSUME NEW c \in Fighter, NEW on \in BOOLEAN, TrackKills(c, on) PROVE Spent(d, f)'
  BY <1>10, <1>15 DEF TrackKills, expVars
<1>13. ASSUME NEW c \in Fighter, NEW n, LevelCommand(c, n) \/ ExpCommand(c, n) PROVE Spent(d, f)'
  BY <1>10, <1>13 DEF LevelCommand, ExpCommand
<1>14. CASE UNCHANGED combatVars
  BY <1>10, <1>14 DEF combatVars, hitVars
<1> HIDE DEF Spent
<1> QED
  BY <1>3, <1>4, <1>5, <1>7, <1>8, <1>9, <1>11, <1>12, <1>13, <1>14, <1>15 DEF CombatNext

\* What the levels need (char_stats.levels) is experience that a character can have.
LEMMA NeedsExpBounded ==
    ASSUME NEW n \in 0 .. MaxLevel
    PROVE  NeedsExp(n) \in Nat /\ NeedsExp(n) \in 0 .. MaxExp
<1>1. n + 1 \in DOMAIN LevelExp
  BY CombatConstants DEF MaxLevel
<1>2. LevelExp[n + 1] \in 0 .. MaxExp
  BY <1>1, CombatConstants
<1> QED BY <1>2, CombatConstants DEF NeedsExp

\* client_give_exp: the level that is reached is one there is, and, when the experience was
\* enough for the one before, one it is enough for, and not enough for the next.
LEMMA LevelReached ==
    ASSUME NEW from \in 0 .. MaxLevel, NEW exp \in Nat
    PROVE  /\ Level(exp, from) \in 0 .. MaxLevel
           /\ NeedsExp(from) <= exp => NeedsExp(Level(exp, from)) <= exp
           /\ Level(exp, from) < MaxLevel => exp < NeedsExp(Level(exp, from) + 1)
<1> DEFINE S == {from} \cup {n \in from .. MaxLevel : NeedsExp(n) <= exp}
<1>0. MaxLevel \in Nat
  BY CombatConstants DEF MaxLevel
<1>1. S \in SUBSET (0 .. MaxLevel) /\ S # {}
  BY <1>0
<1>2. Max(S) \in S /\ \A i \in S : i <= Max(S)
  <2> HIDE DEF S
  <2> QED BY <1>0, <1>1, MaxOfNat
<1>3. Level(exp, from) = Max(S)
  BY DEF Level
<1>4. \A n \in S : n \in 0 .. MaxLevel /\ from <= n /\ (NeedsExp(from) <= exp => NeedsExp(n) <= exp)
  BY <1>0
<1>5. \A n \in from .. MaxLevel : NeedsExp(n) <= exp => n \in S
  OBVIOUS
<1>6. ASSUME NEW n \in 0 .. MaxLevel PROVE NeedsExp(n) \in Nat
  BY NeedsExpBounded
<1> DEFINE m == Max(S)
<1>7. m \in 0 .. MaxLevel /\ from <= m /\ (NeedsExp(from) <= exp => NeedsExp(m) <= exp)
  <2> HIDE DEF S
  <2> QED BY <1>2, <1>4
<1> HIDE DEF S, m
<1>8. ASSUME m < MaxLevel PROVE exp < NeedsExp(m + 1)
  <2>1. m + 1 \in from .. MaxLevel /\ m + 1 \in 0 .. MaxLevel
    BY <1>0, <1>7, <1>8
  <2>2. m + 1 \notin S
    <3>1. m + 1 \in S => m + 1 <= m
      BY <1>2 DEF m
    <3> QED BY <3>1, <1>7, <1>0
  <2>3. ~(NeedsExp(m + 1) <= exp)
    BY <1>5, <2>1, <2>2
  <2> QED BY <1>6, <2>1, <2>3
<1> QED BY <1>3, <1>7, <1>8 DEF m

\* What 32 bits hold of a sum.
LEMMA SumFits ==
    ASSUME NEW n \in Nat
    PROVE  n % (MaxExp + 1) \in 0 .. MaxExp /\ (n <= MaxExp => n % (MaxExp + 1) = n)
<1>1. MaxExp \in Nat /\ MaxExp + 1 \in Nat \ {0}
  BY CombatConstants
<1>2. n % (MaxExp + 1) \in 0 .. MaxExp
  BY <1>1
<1>3. ASSUME n <= MaxExp PROVE n % (MaxExp + 1) = n
  BY <1>1, <1>3
<1> QED BY <1>2, <1>3

\* Experience and levels over one step.  A level that is given (/level) comes with the
\* experience it needs, which is less than the next one does.
LEMMA LevelStep ==
    ASSUME LevelInv, [CombatNext]_combatVars
    PROVE  LevelInv'
<1>0. MaxLevel \in Nat /\ MaxExp \in Nat /\ Len(LevelExp) = MaxLevel + 1
  BY CombatConstants DEF MaxLevel
<1>1. ASSUME NEW c \in Fighter, NEW amt \in Nat, GiveExp(c, amt)
      PROVE  LevelInv'
  <2> DEFINE total == char[c].exp + amt
             exp == total % (MaxExp + 1)
             lev == Level(exp, char[c].level)
  <2>1. /\ char[c].level \in 0 .. MaxLevel /\ char[c].exp \in 0 .. MaxExp
        /\ c \notin wrapped => NeedsExp(char[c].level) <= char[c].exp
    BY DEF LevelInv, CharShape, LevelMatchesExp
  <2>2. CASE UNCHANGED <<char, wrapped>>
    BY <2>2 DEF LevelInv, CharShape, LevelMatchesExp
  <2>3. CASE /\ char' = [char EXCEPT ![c] = [level |-> lev, exp |-> exp]]
             /\ wrapped' = IF total > MaxExp THEN wrapped \cup {c} ELSE wrapped
    <3>1. total \in Nat /\ char[c].exp <= total /\ NeedsExp(char[c].level) \in Nat
      BY <1>0, <2>1, NeedsExpBounded
    <3>2. exp \in 0 .. MaxExp /\ exp \in Nat /\ (total <= MaxExp => exp = total)
      <4>1. total \in Nat
        BY <3>1
      <4> HIDE DEF total
      <4>2. exp \in 0 .. MaxExp /\ (total <= MaxExp => exp = total)
        BY <4>1, SumFits
      <4> HIDE DEF exp
      <4> QED BY <1>0, <4>2
    <3>3. c \notin wrapped' => c \notin wrapped /\ exp = total
      BY <1>0, <2>3, <3>1, <3>2
    <3>4. c \notin wrapped' => NeedsExp(char[c].level) <= exp
      BY <1>0, <2>1, <3>1, <3>2, <3>3
    <3>5. char' = [char EXCEPT ![c] = [level |-> lev, exp |-> exp]]
          /\ \A d \in Fighter \ {c} : d \in wrapped' <=> d \in wrapped
      BY <2>3
    <3> HIDE DEF exp, total
    <3>6. /\ lev \in 0 .. MaxLevel
          /\ c \notin wrapped' => NeedsExp(lev) <= exp
          /\ lev < MaxLevel => exp < NeedsExp(lev + 1)
      BY <2>1, <3>2, <3>4, LevelReached
    <3> HIDE DEF lev
    <3> QED BY <3>2, <3>5, <3>6 DEF LevelInv, CharShape, LevelMatchesExp
  <2> QED BY <1>1, <2>2, <2>3 DEF GiveExp
<1>2. ASSUME NEW c \in Fighter, NEW e \in Foe, NEW b \in BOOLEAN, RequestExp(c, e, b)
      PROVE  LevelInv'
  <2> DEFINE amt == IF b THEN FoeExp ELSE (FoeExp * 80) \div 100
  <2>1. amt \in Nat
    BY CombatConstants
  <2>2. GiveExp(c, amt)
    BY <1>2 DEF RequestExp
  <2> HIDE DEF amt
  <2> QED BY <1>1, <2>1, <2>2
<1>3. ASSUME NEW c \in Fighter, NEW amt \in {1, FoeExp * 2, MaxExp}, ExpCommand(c, amt) PROVE LevelInv'
  <2>1. amt \in Nat
    BY CombatConstants
  <2> QED BY <1>1, <1>3, <2>1 DEF ExpCommand
<1>4. ASSUME NEW c \in Fighter, NEW n \in 1 .. MaxLevel, LevelCommand(c, n) PROVE LevelInv'
  <2>1. char' = [char EXCEPT ![c] = [level |-> n, exp |-> NeedsExp(n)]] /\ wrapped' = wrapped \ {c}
    BY <1>4 DEF LevelCommand
  <2>2. n \in 0 .. MaxLevel /\ n + 1 \in DOMAIN LevelExp
    BY <1>0, CombatConstants
  <2>3. NeedsExp(n) \in 0 .. MaxExp
    BY <2>2, CombatConstants DEF NeedsExp
  <2>4. n < MaxLevel => NeedsExp(n) < NeedsExp(n + 1)
    <3> SUFFICES ASSUME n < MaxLevel PROVE NeedsExp(n) < NeedsExp(n + 1)
      OBVIOUS
    <3>1. n + 2 \in 2 .. Len(LevelExp) /\ (n + 2) - 1 = n + 1 /\ (n + 1) + 1 = n + 2
      BY <1>0, <2>2
    <3>2. LevelExp[(n + 2) - 1] < LevelExp[n + 2]
      BY <3>1, CombatConstants
    <3> QED BY <3>1, <3>2 DEF NeedsExp
  <2>5. NeedsExp(n) <= NeedsExp(n)
    BY <2>3, <1>0
  <2> QED BY <2>1, <2>2, <2>3, <2>4, <2>5 DEF LevelInv, CharShape, LevelMatchesExp
<1>5. ASSUME UNCHANGED <<char, wrapped>> PROVE LevelInv'
  BY <1>5 DEF LevelInv, CharShape, LevelMatchesExp
<1>6. ASSUME NEW c \in Fighter, Arrive(c) \/ Depart(c) \/ Cast(c) \/ TechniqueEnds(c)
      PROVE  LevelInv'
  BY <1>5, <1>6 DEF Arrive, Depart, Cast, TechniqueEnds, expVars
<1>11. ASSUME NEW c \in Fighter, NEW on \in BOOLEAN, TrackKills(c, on) PROVE LevelInv'
  BY <1>5, <1>11 DEF TrackKills, expVars
<1>7. ASSUME NEW c \in Fighter, NEW e \in Foe, NEW b \in BOOLEAN, Hit(c, e, b) \/ BBHit(c, e)
      PROVE  LevelInv'
  BY <1>5, <1>7 DEF Hit, BBHit, expVars
<1>8. ASSUME NEW c \in Fighter, NEW b \in Crate, HitBox(c, b) \/ AreaHit(c, b) PROVE LevelInv'
  BY <1>5, <1>8 DEF HitBox, AreaHit, expVars
<1>9. ASSUME Load PROVE LevelInv'
  BY <1>5, <1>9 DEF Load
<1>10. CASE UNCHANGED combatVars
  BY <1>5, <1>10 DEF combatVars
<1> QED
  BY <1>2, <1>3, <1>4, <1>6, <1>7, <1>8, <1>9, <1>10, <1>11 DEF CombatNext

\* At the start everybody is at level 0, without experience.
LEMMA CombatInvInit == CombatInit => CombatInv /\ LevelInv
<1> SUFFICES ASSUME CombatInit PROVE CombatInv /\ LevelInv
  OBVIOUS
<1>1. CombatShape
  BY CombatShapeInit
<1>2. KillsCountedOnce
  <2>1. ASSUME NEW c \in Fighter PROVE reported[c] = 0 /\ killed[c] = 0 /\ Here(c) = 0
    BY DEF CombatInit, Here
  <2> QED BY <2>1 DEF KillsCountedOnce
<1>3. ClaimsAreSpent
  BY DEF CombatInit, ClaimsAreSpent
<1>4. LevelInv
  <2>1. MaxLevel \in Nat /\ MaxExp \in Nat /\ NeedsExp(0) = 0
    BY CombatConstants DEF MaxLevel, NeedsExp
  <2>2. 0 < MaxLevel => NeedsExp(0) < NeedsExp(0 + 1)
    BY <2>1, CombatConstants DEF MaxLevel, NeedsExp
  <2>3. \A c \in Fighter : char[c] = [level |-> 0, exp |-> 0]
    BY DEF CombatInit
  <2>4. CharShape
    BY <2>1 DEF CombatInit, CharShape
  <2> QED BY <2>1, <2>2, <2>3, <2>4 DEF LevelInv, LevelMatchesExp
<1> QED BY <1>1, <1>2, <1>3, <1>4 DEF CombatInv

\* The invariants of combat always hold.
LEMMA SpecCombat == CombatSpec => [](CombatInv /\ LevelInv)
<1>1. CombatInit => CombatInv /\ LevelInv
  BY CombatInvInit
<1>2. CombatInv /\ LevelInv /\ [CombatNext]_combatVars => (CombatInv /\ LevelInv)'
  BY CombatShapeStep, KillsStep, ClaimsStep, LevelStep DEF CombatInv
<1> QED BY <1>1, <1>2, PTL DEF CombatSpec

\* A client is in one slot of its team at a time, and levels and experience are what a
\* character can have (lobby_add_client_locked, client_give_exp, client_give_level).
THEOREM FightersFit == CombatSpec => []CombatTypeOK
<1>1. CombatInv /\ LevelInv => CombatTypeOK
  <2> SUFFICES ASSUME CombatInv, LevelInv PROVE CombatTypeOK
    OBVIOUS
  <2>1. ASSUME NEW c \in Fighter PROVE Cardinality({s \in Spot : spot[s] = c}) <= 1
    <3> DEFINE S == {s \in Spot : spot[s] = c}
    <3>1. c # Empty
      BY CombatConstants
    <3>2. \A s, t \in S : s = t
      BY <3>1 DEF CombatInv, CombatShape, OneSpotEach
    <3>3. CASE S = {}
      BY <3>3, FS_EmptySet
    <3>4. CASE S # {}
      <4>1. PICK s \in S : S = {s}
        BY <3>2, <3>4
      <4> QED BY <4>1, FS_Singleton
    <3> QED BY <3>3, <3>4
  <2> QED BY <2>1 DEF CombatInv, CombatShape, LevelInv, CharShape, CombatTypeOK
<1> QED BY <1>1, SpecCombat, PTL

\* No kill is counted twice, whatever teams a client goes to and whatever quests they load,
\* and whenever it has its kills tracked; none that was tracked all the time is lost but with
\* a count that did not find the shipgate (lobby_send_kill_counts, send_raw).
THEOREM KillsNeverTwice == CombatSpec => []KillsCountedOnce
<1>1. CombatInv => KillsCountedOnce
  BY DEF CombatInv
<1> QED BY <1>1, SpecCombat, PTL

\* As long as nobody has left the team, each member has experience for an enemy once
\* (handle_bb_req_exp): who claimed it has no bit in clients_hit left, and a dead enemy
\* gets no new ones.
THEOREM ExpNeverTwice == CombatSpec => []ExpOnce
<1>1. CombatInv => ExpOnce
  BY DEF CombatInv, ClaimsAreSpent, ExpOnce
<1> QED BY <1>1, SpecCombat, PTL

\* The level is the one the experience is enough for, by whatever way it was got: enemies,
\* /exp with any amount, or /level (client_give_exp, client_give_level), until the sum is
\* more than its 32 bits hold.
THEOREM LevelsFollowExp == CombatSpec => []LevelMatchesExp
<1>1. LevelInv => LevelMatchesExp
  BY DEF LevelInv
<1> QED BY <1>1, SpecCombat, PTL

(***************************************************************************)
(* Legit: what is checked, and by which lists.                             *)
(***************************************************************************)

ListOrNone == Limits \cup {NoLimits}
Counts == [Limits -> Nat]

\* What the server was told of a character in a lobby is what it has: only in a team is
\* something found, taken or laid down.
LobbyDataFresh == \A c \in Entrant : place[c] = "lobby" => pl[c] = carries[c]
ModeHasList == legit_mode => limits_list # NoLimits
LegitPlay == LobbyDataFresh /\ ModeHasList /\ LegitTeamsStayLegit

\* A reference that was given back is not one the flag stands for; a list that was never
\* read is nobody's.
FlagOwnsReference == legit \cap given_back = {}
UnreadUnused ==
    /\ \A c \in Entrant : limits[c] \in read \cup {NoLimits}
    /\ {limits_list, def_limits} \subseteq read \cup {NoLimits}
LegitLists == FlagOwnsReference /\ UnreadUnused /\ LimitsLive

LegitInv == LegitTypeOK /\ LegitPlay /\ LegitLists

\* sylverant_limits_release, sylverant_limits_retain.
LEMMA ReleasedCounts ==
    ASSUME NEW counts \in Counts, NEW list PROVE Released(counts, list) \in Counts
<1>1. ASSUME NEW x \in Limits
      PROVE  (IF x = list /\ counts[x] > 0 THEN counts[x] - 1 ELSE counts[x]) \in Nat
  BY DEF Counts
<1> QED BY <1>1 DEF Counts, Released

\* A team that a member leaves: it has a leader among those who stay, or is no more.
LEMMA TeamWithoutFits ==
    ASSUME LegitTypeOK, NEW c \in In, NEW counts \in Counts, TeamWithout(c, counts),
           NEW where \in {"lobby", "away"}, place' = [place EXCEPT ![c] = where]
    PROVE  /\ place' \in [Entrant -> {"away", "lobby", "team"}] /\ In' = In \ {c}
           /\ chief' \in Entrant /\ (In' # {} => chief' \in In')
           /\ legit_mode' \in BOOLEAN /\ limits_list' \in ListOrNone
           /\ v1_team' = v1_team /\ lying' \subseteq Goods /\ let_in' \subseteq Goods
           /\ refs' \in Counts
<1>1. place' \in [Entrant -> {"away", "lobby", "team"}] /\ In' = In \ {c}
  BY DEF LegitTypeOK, In
<1>2. In \subseteq Entrant /\ chief \in In
  BY DEF In, LegitTypeOK
<1>3. CASE In = {c}
  <2>1. refs' \in Counts
    BY <1>3, ReleasedCounts DEF TeamWithout
  <2>2. In' = {}
    BY <1>1, <1>3
  <2> QED BY <1>1, <1>2, <1>3, <2>1, <2>2 DEF TeamWithout, ListOrNone, LegitTypeOK
<1>4. CASE In # {c}
  <2>1. chief' \in In \ {c}
    BY <1>2, <1>4 DEF TeamWithout
  <2> QED BY <1>1, <1>2, <1>4, <2>1 DEF TeamWithout, ListOrNone, LegitTypeOK
<1> QED BY <1>3, <1>4

\* A client that goes (client_destroy_connection), from a team or a lobby.
LEMMA GoneFits ==
    ASSUME LegitTypeOK, NEW c \in Entrant, place[c] # "away", Gone(c)
    PROVE  /\ place' \in [Entrant -> {"away", "lobby", "team"}] /\ In' = In \ {c}
           /\ chief' \in Entrant /\ (In' # {} => chief' \in In')
           /\ legit_mode' \in BOOLEAN /\ limits_list' \in ListOrNone
           /\ v1_team' = v1_team /\ lying' \subseteq Goods /\ let_in' \subseteq Goods
           /\ refs' \in Counts
<1>1. refs \in Counts /\ Released(refs, limits[c]) \in Counts
  BY ReleasedCounts DEF LegitTypeOK, Counts
<1>2. place' = [place EXCEPT ![c] = "away"]
  BY DEF Gone
<1>3. CASE place[c] = "team"
  <2>1. c \in In /\ TeamWithout(c, Released(refs, limits[c]))
    BY <1>3 DEF Gone, In
  <2> QED BY <1>1, <1>2, <2>1, TeamWithoutFits
<1>4. CASE place[c] # "team"
  <2>1. In' = In \ {c}
    BY <1>2, <1>4 DEF In, LegitTypeOK
  <2>2. c \notin In
    BY <1>4 DEF In
  <2>3. refs' = Released(refs, limits[c]) /\ UNCHANGED legitOfTeam
    BY <1>4 DEF Gone
  <2>4. place' \in [Entrant -> {"away", "lobby", "team"}]
    BY <1>2 DEF LegitTypeOK
  <2> QED BY <1>1, <2>1, <2>2, <2>3, <2>4 DEF legitOfTeam, LegitTypeOK, ListOrNone
<1> QED BY <1>3, <1>4

\* A client asks for the mode (/legit, the option of its account): it has the list the
\* ship checks with.
LEMMA GrantFits ==
    ASSUME LegitTypeOK, NEW c \in Entrant, def_limits # NoLimits, Grant(c)
    PROVE  /\ legit' \subseteq Entrant /\ limits' \in [Entrant -> ListOrNone]
           /\ given_back' \subseteq Entrant /\ refs' \in Counts
BY DEF Grant, LegitTypeOK, Retained, ListOrNone, Counts

\* A login with /autolegit keeps the types (client_legit_check).
LEMMA AlwaysCheckFits ==
    ASSUME LegitTypeOK, NEW c \in Entrant, AlwaysCheck(c)
    PROVE  /\ legit' \subseteq Entrant /\ limits' \in [Entrant -> ListOrNone]
           /\ given_back' \subseteq Entrant /\ refs' \in Counts /\ always_legit' \subseteq Entrant
<1>1. CASE def_limits # NoLimits /\ Passes(c, def_limits)
  BY <1>1, GrantFits DEF AlwaysCheck, LegitTypeOK
<1>2. CASE ~(def_limits # NoLimits /\ Passes(c, def_limits))
  BY <1>2 DEF AlwaysCheck, LegitTypeOK, ListOrNone, Counts
<1> QED BY <1>1, <1>2

\* The type invariant over one step of the ship or its clients.
LEMMA LegitTypeStep ==
    ASSUME LegitTypeOK, [LegitNext]_legitVars
    PROVE  LegitTypeOK'
<1> USE DEF ListOrNone, Counts, legitOfTeam, legitFlags, legitRefs, legitShip
<1>in. \A c \in Entrant : c \in In <=> place[c] = "team"
  BY DEF In
<1>1. ASSUME NEW c \in Entrant, LegitConnect(c) PROVE LegitTypeOK'
  <2>1. In' = In
    BY <1>1 DEF LegitConnect, In, LegitTypeOK
  <2> QED BY <1>1, <2>1 DEF LegitConnect, LegitTypeOK
<1>2. ASSUME NEW c \in Entrant, LegitCommand(c) PROVE LegitTypeOK'
  <2>1. In' = In
    BY <1>2 DEF LegitCommand, In
  <2> QED BY <1>2, <2>1, GrantFits DEF LegitCommand, LegitTypeOK
<1>3. ASSUME NEW c \in Entrant, LegitOff(c) \/ LegitOption(c) \/ AutoLegitOff(c) \/ Override(c)
      PROVE  LegitTypeOK'
  BY <1>3 DEF LegitOff, LegitOption, AutoLegitOff, Override, In, LegitTypeOK
<1>4. ASSUME NEW c \in Entrant, LegitPing(c) \/ AutoLegit(c) PROVE LegitTypeOK'
  <2>1. In' = In
    BY <1>4 DEF LegitPing, AutoLegit, In
  <2>2. AlwaysCheck(c)
    BY <1>4 DEF LegitPing, AutoLegit
  <2> QED BY <1>4, <2>1, <2>2, AlwaysCheckFits DEF LegitPing, AutoLegit, LegitTypeOK
<1>5. ASSUME NEW c \in Entrant, FoundTeam(c) PROVE LegitTypeOK'
  <2>1. In' = {c}
    BY <1>5 DEF FoundTeam, Enter, In, LegitTypeOK
  <2>2. let_in' \subseteq Goods
    BY <1>5 DEF FoundTeam, Brought, LegitTypeOK
  <2>3. /\ place' \in [Entrant -> {"away", "lobby", "team"}] /\ override' \subseteq LocalGm
        /\ limits' \in [Entrant -> Limits \cup {NoLimits}]
        /\ limits_list' \in Limits \cup {NoLimits} /\ legit_mode' \in BOOLEAN
    BY <1>5 DEF FoundTeam, Enter, Steals, LegitTypeOK
  <2> QED BY <1>5, <2>1, <2>2, <2>3 DEF FoundTeam, LegitTypeOK
<1>6. ASSUME NEW c \in Entrant, FoundingFails(c) PROVE LegitTypeOK'
  <2>1. In' = In
    BY <1>6 DEF FoundingFails, In
  <2>2. refs' \in Counts
    BY <1>6, ReleasedCounts DEF FoundingFails, LegitTypeOK
  <2> QED BY <1>6, <2>1, <2>2 DEF FoundingFails, LegitTypeOK
<1>7. ASSUME NEW c \in Entrant, GiveBack(c)
      PROVE legit' \subseteq Entrant /\ refs' \in Counts /\ given_back' \subseteq Entrant
  BY <1>7, ReleasedCounts DEF GiveBack, LegitTypeOK
<1>8. ASSUME NEW c \in Entrant, JoinLegitTeam(c) PROVE LegitTypeOK'
  <2>1. In' = In \cup {c} /\ In # {}
    BY <1>8 DEF JoinLegitTeam, Enter, In, LegitTypeOK
  <2>2. let_in' \subseteq Goods
    BY <1>8 DEF JoinLegitTeam, Brought, LegitTypeOK
  <2>3. place' \in [Entrant -> {"away", "lobby", "team"}] /\ override' \subseteq LocalGm
    BY <1>8 DEF JoinLegitTeam, Enter, LegitTypeOK
  <2> QED BY <1>7, <1>8, <2>1, <2>2, <2>3 DEF JoinLegitTeam, LegitTypeOK
<1>9. ASSUME NEW c \in Entrant, ClassIsRefused(c) PROVE LegitTypeOK'
  <2>1. In' = In
    BY <1>9 DEF ClassIsRefused, In
  <2> QED BY <1>7, <1>9, <2>1 DEF ClassIsRefused, LegitTypeOK
<1>10. ASSUME NEW c \in Entrant, LeaveTeam(c) PROVE LegitTypeOK'
  <2>1. c \in In /\ refs \in Counts /\ TeamWithout(c, refs) /\ place' = [place EXCEPT ![c] = "lobby"]
    BY <1>10 DEF LeaveTeam, In, LegitTypeOK
  <2>2. /\ place' \in [Entrant -> {"away", "lobby", "team"}]
        /\ chief' \in Entrant /\ (In' # {} => chief' \in In')
        /\ legit_mode' \in BOOLEAN /\ limits_list' \in ListOrNone
        /\ v1_team' = v1_team /\ lying' \subseteq Goods /\ let_in' \subseteq Goods
        /\ refs' \in Counts
    BY <2>1, TeamWithoutFits
  <2>3. pl' \in [Entrant -> SUBSET Goods]
    BY <1>10 DEF LeaveTeam, LegitTypeOK
  <2> QED BY <1>10, <2>2, <2>3 DEF LeaveTeam, LegitTypeOK
<1>11. ASSUME NEW c \in Entrant, place[c] # "away", Gone(c), UNCHANGED <<carries, pl, legitShip>>
       PROVE  LegitTypeOK'
  <2>1. /\ place' \in [Entrant -> {"away", "lobby", "team"}]
        /\ chief' \in Entrant /\ (In' # {} => chief' \in In')
        /\ legit_mode' \in BOOLEAN /\ limits_list' \in ListOrNone
        /\ v1_team' = v1_team /\ lying' \subseteq Goods /\ let_in' \subseteq Goods
        /\ refs' \in Counts
    BY <1>11, GoneFits
  <2>2. /\ legit' \subseteq Entrant /\ always_legit' \subseteq Entrant /\ override' \subseteq LocalGm
        /\ limits' \in [Entrant -> Limits \cup {NoLimits}] /\ given_back' \subseteq Entrant
    BY <1>11 DEF Gone, LegitTypeOK
  <2>3. overdrawn' \in BOOLEAN
    BY <1>11 DEF Gone, LegitTypeOK
  <2> QED BY <1>11, <2>1, <2>2, <2>3 DEF LegitTypeOK
<1>12. ASSUME NEW c \in Entrant, LegitDisconnect(c) PROVE LegitTypeOK'
  BY <1>11, <1>12 DEF LegitDisconnect
<1>13. ASSUME NEW c \in Entrant, NEW g \in Goods, TakeItem(c, g) PROVE LegitTypeOK'
  <2>1. CASE Gets(c, g) /\ UNCHANGED <<place, legitFlags, legitOfTeam, legitRefs, pl, legitShip>>
    BY <2>1 DEF Gets, In, LegitTypeOK
  <2>2. CASE Gone(c) /\ UNCHANGED <<carries, pl, legitShip>> /\ place[c] = "team"
    BY <1>11, <2>2
  <2> QED BY <1>13, <2>1, <2>2 DEF TakeItem
<1>14. ASSUME NEW c \in Entrant, NEW g \in Goods,
              ItemDrop(c, g) \/ MakeItem(c, g) PROVE LegitTypeOK'
  BY <1>14 DEF ItemDrop, MakeItem, Lies, In, LegitTypeOK
<1>15. ASSUME NEW c \in Entrant, NEW g \in Goods, LayDown(c, g) \/ TakeUp(c, g) PROVE LegitTypeOK'
  BY <1>15 DEF LayDown, TakeUp, Gets, In, LegitTypeOK
<1>16. ASSUME NEW c \in Entrant, LeaveMode(c) PROVE LegitTypeOK'
  BY <1>16 DEF LeaveMode, In, LegitTypeOK
<1>17. ASSUME NEW c \in Entrant, RefreshLimits(c) PROVE LegitTypeOK'
  <2>1. PICK list \in Limits \ read, enforced \in BOOLEAN :
          /\ read' = read \cup {list}
          /\ def_limits' = IF enforced THEN list ELSE NoLimits
          /\ refs' = [Released(refs, def_limits) EXCEPT ![list] = IF enforced THEN 1 ELSE 0]
    BY <1>17 DEF RefreshLimits
  <2>2. Released(refs, def_limits) \in Counts
    BY ReleasedCounts DEF LegitTypeOK
  <2>3. refs' \in Counts
    <3> HIDE DEF Released
    <3> QED BY <2>1, <2>2
  <2>4. UNCHANGED <<place, carries, pl, legitFlags, legitOfTeam, limits, given_back, overdrawn>>
    BY <1>17 DEF RefreshLimits
  <2> QED BY <2>1, <2>3, <2>4 DEF In, LegitTypeOK
<1>18. CASE UNCHANGED legitVars
  BY <1>18 DEF legitVars, In, LegitTypeOK
<1>19. ASSUME NEW g \in Goods, ServerItem(g) PROVE LegitTypeOK'
  BY <1>19 DEF ServerItem, Lies, In, LegitTypeOK
<1> QED
  BY <1>1, <1>2, <1>3, <1>4, <1>5, <1>6, <1>8, <1>9, <1>10, <1>12, <1>13, <1>14, <1>15, <1>16,
     <1>17, <1>18, <1>19 DEF LegitNext

\* What is in a team in legit mode, over one step: who enters it is checked against the
\* team's list by what it told the server in the lobby, which is what it carries, unless a
\* GM lets it in; and what gets into it later is checked when it does.
LEMMA LegitPlayStep ==
    ASSUME LegitTypeOK, LegitPlay, [LegitNext]_legitVars
    PROVE  LegitPlay'
<1> DEFINE Fine(items) == items \subseteq Allows[limits_list] \cup let_in
<1> USE DEF legitOfTeam, legitFlags, legitRefs, legitShip
<1>a. LegitTypeOK'
  BY LegitTypeStep
<1>b. /\ legit_mode => Fine(lying)
      /\ legit_mode => \A d \in Entrant : place[d] = "team" => Fine(carries[d])
  BY DEF LegitPlay, LegitTeamsStayLegit, In
<1>c. ASSUME legit_mode' => Fine(lying)',
             legit_mode' => \A d \in Entrant : place'[d] = "team" => Fine(carries[d])'
      PROVE  LegitTeamsStayLegit'
  BY <1>c DEF LegitTeamsStayLegit, In
<1>d. \A d \in Entrant : place[d] = "lobby" => pl[d] = carries[d]
  BY DEF LegitPlay, LobbyDataFresh
<1>e. ASSUME \A d \in Entrant : place'[d] = "lobby" => pl'[d] = carries'[d] PROVE LobbyDataFresh'
  BY <1>e DEF LobbyDataFresh
<1>f. ModeHasList
  BY DEF LegitPlay
<1>1. ASSUME UNCHANGED <<carries, limits_list, let_in>>, lying' \subseteq lying,
             \A d \in Entrant : place'[d] # place[d] => place'[d] = "away",
             \A d \in Entrant : place'[d] = "lobby" => pl'[d] = pl[d],
             legit_mode' => legit_mode
      PROVE  LegitPlay'
  <2>1. LegitTeamsStayLegit'
    <3>1. \A d \in Entrant : place'[d] = "team" => place[d] = "team"
      BY <1>1
    <3> QED BY <1>1, <1>b, <1>c, <3>1
  <2>2. LobbyDataFresh'
    BY <1>1, <1>d, <1>e
  <2>3. ModeHasList'
    BY <1>1, <1>f DEF ModeHasList
  <2> QED BY <2>1, <2>2, <2>3 DEF LegitPlay
<1>2. ASSUME NEW c \in Entrant, NEW where \in {"lobby", "away"}, NEW counts,
             place' = [place EXCEPT ![c] = where], UNCHANGED carries,
             pl' = IF where = "lobby" THEN [pl EXCEPT ![c] = carries[c]] ELSE pl,
             TeamWithout(c, counts)
      PROVE  LegitPlay'
  <2>1. legit_mode' => UNCHANGED <<legit_mode, limits_list, lying, let_in>>
    BY <1>2 DEF TeamWithout
  <2>2. LegitTeamsStayLegit'
    <3>1. \A d \in Entrant : place'[d] = "team" => place[d] = "team"
      BY <1>2 DEF LegitTypeOK
    <3> QED BY <1>2, <1>b, <1>c, <2>1, <3>1
  <2>3. LobbyDataFresh'
    <3>1. ASSUME NEW d \in Entrant, place'[d] = "lobby" PROVE pl'[d] = carries'[d]
      <4>1. CASE d = c
        BY <1>2, <3>1, <4>1 DEF LegitTypeOK
      <4>2. CASE d # c
        BY <1>2, <1>d, <3>1, <4>2 DEF LegitTypeOK
      <4> QED BY <4>1, <4>2
    <3> QED BY <1>e, <3>1
  <2>4. ModeHasList'
    BY <1>f, <2>1 DEF ModeHasList
  <2> QED BY <2>2, <2>3, <2>4 DEF LegitPlay
<1>3. ASSUME NEW c \in Entrant, Gone(c), UNCHANGED <<carries, pl>> PROVE LegitPlay'
  <2>1. place' = [place EXCEPT ![c] = "away"]
    BY <1>3 DEF Gone
  <2>2. CASE place[c] = "team"
    <3>1. TeamWithout(c, Released(refs, limits[c]))
      BY <1>3, <2>2 DEF Gone
    <3> QED BY <1>2, <1>3, <2>1, <3>1
  <2>3. CASE place[c] # "team"
    <3>1. UNCHANGED <<chief, legit_mode, limits_list, v1_team, lying, let_in>>
      BY <1>3, <2>3 DEF Gone
    <3> QED BY <1>1, <1>3, <2>1, <3>1 DEF LegitTypeOK
  <2> QED BY <2>2, <2>3
<1>4. ASSUME NEW c \in Entrant, LegitConnect(c) PROVE LegitPlay'
  <2>1. /\ place' = [place EXCEPT ![c] = "lobby"] /\ pl' = [pl EXCEPT ![c] = carries[c]]
        /\ UNCHANGED <<carries, legit_mode, limits_list, lying, let_in>>
    BY <1>4 DEF LegitConnect
  <2>2. LegitTeamsStayLegit'
    <3>1. \A d \in Entrant : place'[d] = "team" => place[d] = "team"
      BY <2>1 DEF LegitTypeOK
    <3> QED BY <1>b, <1>c, <2>1, <3>1
  <2>3. LobbyDataFresh'
    <3>1. ASSUME NEW d \in Entrant, place'[d] = "lobby" PROVE pl'[d] = carries'[d]
      <4>1. CASE d = c
        BY <2>1, <4>1 DEF LegitTypeOK
      <4>2. CASE d # c
        BY <2>1, <1>d, <3>1, <4>2 DEF LegitTypeOK
      <4> QED BY <4>1, <4>2
    <3> QED BY <1>e, <3>1
  <2>4. ModeHasList'
    BY <2>1, <1>f DEF ModeHasList
  <2> QED BY <2>2, <2>3, <2>4 DEF LegitPlay
<1>5. ASSUME NEW c \in Entrant, FoundTeam(c) PROVE LegitPlay'
  <2>1. /\ place' = [place EXCEPT ![c] = "team"] /\ UNCHANGED <<carries, pl>>
        /\ place[c] = "lobby" /\ In = {} /\ lying' = {}
        /\ legit_mode' = Steals(c)
        /\ limits_list' = IF Steals(c) THEN limits[c] ELSE NoLimits
        /\ let_in' = Brought(c, Steals(c), limits[c])
        /\ MayEnter(c, Steals(c), limits[c])
    BY <1>5 DEF FoundTeam, Enter
  <2>2. \A d \in Entrant : place'[d] = "team" => d = c
    BY <2>1 DEF In, LegitTypeOK
  <2>3. ASSUME Steals(c) PROVE Fine(carries[c])'
    <3>1. limits_list' = limits[c] /\ limits[c] # NoLimits /\ pl[c] = carries[c]
      BY <1>d, <2>1, <2>3 DEF Steals
    <3>2. CASE c \in override
      BY <2>1, <2>3, <3>1, <3>2 DEF Brought
    <3>3. CASE c \notin override
      BY <2>1, <2>3, <3>1, <3>3 DEF MayEnter, Passes
    <3> QED BY <3>2, <3>3
  <2>4. LegitTeamsStayLegit'
    BY <1>c, <2>1, <2>2, <2>3
  <2>5. LobbyDataFresh'
    BY <1>d, <1>e, <2>1 DEF LegitTypeOK
  <2>6. ModeHasList'
    BY <2>1 DEF ModeHasList, Steals
  <2> QED BY <2>4, <2>5, <2>6 DEF LegitPlay
<1>6. ASSUME NEW c \in Entrant, JoinLegitTeam(c) PROVE LegitPlay'
  <2>1. /\ place' = [place EXCEPT ![c] = "team"] /\ place[c] = "lobby"
        /\ UNCHANGED <<carries, pl, legit_mode, limits_list, lying>>
        /\ let_in' = let_in \cup Brought(c, legit_mode, limits_list)
        /\ MayEnter(c, legit_mode, limits_list)
    BY <1>6 DEF JoinLegitTeam, Enter
  <2>2. ASSUME legit_mode PROVE Fine(carries[c])'
    <3>1. limits_list # NoLimits /\ pl[c] = carries[c]
      BY <1>d, <1>f, <2>1, <2>2 DEF ModeHasList
    <3>2. CASE c \in override
      BY <2>1, <2>2, <3>1, <3>2 DEF Brought
    <3>3. CASE c \notin override
      BY <2>1, <2>2, <3>1, <3>3 DEF MayEnter, Passes
    <3> QED BY <3>2, <3>3
  <2>3. LegitTeamsStayLegit'
    <3>1. \A d \in Entrant : place'[d] = "team" => d = c \/ place[d] = "team"
      BY <2>1 DEF LegitTypeOK
    <3> QED BY <1>b, <1>c, <2>1, <2>2, <3>1
  <2>4. LobbyDataFresh'
    BY <1>d, <1>e, <2>1 DEF LegitTypeOK
  <2>5. ModeHasList'
    BY <1>f, <2>1 DEF ModeHasList
  <2> QED BY <2>3, <2>4, <2>5 DEF LegitPlay
<1>7. ASSUME NEW c \in Entrant, LeaveTeam(c) PROVE LegitPlay'
  <2>1. /\ place' = [place EXCEPT ![c] = "lobby"] /\ pl' = [pl EXCEPT ![c] = carries[c]]
        /\ UNCHANGED carries /\ TeamWithout(c, refs)
    BY <1>7 DEF LeaveTeam
  <2> QED BY <1>2, <2>1
<1>8. ASSUME UNCHANGED <<place, pl, legit_mode, limits_list>>, let_in \subseteq let_in',
             legit_mode => Fine(lying)',
             \A d \in Entrant : place[d] # "team" => carries'[d] = carries[d],
             legit_mode => \A d \in Entrant : place[d] = "team" => Fine(carries[d])'
      PROVE  LegitPlay'
  <2>1. LegitTeamsStayLegit'
    BY <1>8, <1>c
  <2>2. LobbyDataFresh'
    BY <1>8, <1>d, <1>e
  <2>3. ModeHasList'
    BY <1>8, <1>f DEF ModeHasList
  <2> QED BY <2>1, <2>2, <2>3 DEF LegitPlay
<1>9. ASSUME NEW c \in Entrant, NEW g \in Goods, TakeItem(c, g) PROVE LegitPlay'
  <2>1. CASE /\ place[c] = "team" /\ Allowed(g) /\ Gets(c, g)
             /\ UNCHANGED <<place, legitFlags, legitOfTeam, legitRefs, pl, legitShip>>
    <3>1. legit_mode => g \in Allows[limits_list]
      BY <2>1, <1>f DEF Allowed, ModeHasList
    <3>2. carries' = [carries EXCEPT ![c] = @ \cup {g}]
      BY <2>1 DEF Gets
    <3>3. ASSUME legit_mode, NEW d \in Entrant, place[d] = "team" PROVE Fine(carries[d])'
      <4>1. carries'[d] \subseteq carries[d] \cup {g}
        BY <3>2 DEF LegitTypeOK
      <4> QED BY <1>b, <2>1, <3>1, <3>3, <4>1
    <3> QED BY <1>8, <1>b, <2>1, <3>2, <3>3 DEF LegitTypeOK
  <2>2. CASE Gone(c) /\ UNCHANGED <<carries, pl>>
    BY <1>3, <2>2
  <2> QED BY <1>9, <2>1, <2>2 DEF TakeItem
<1>10. ASSUME NEW g \in Goods, Lies(g), legit_mode => g \in Allows[limits_list] PROVE LegitPlay'
  BY <1>8, <1>10, <1>b DEF Lies
<1>11. ASSUME NEW c \in Entrant, NEW g \in Goods, ItemDrop(c, g) PROVE LegitPlay'
  BY <1>10, <1>11, <1>f DEF ItemDrop, Allowed, ModeHasList
<1>12. ASSUME NEW g \in Goods, ServerItem(g) PROVE LegitPlay'
  BY <1>10, <1>12, <1>f DEF ServerItem, ModeHasList
<1>13. ASSUME NEW c \in Entrant, NEW g \in Goods, MakeItem(c, g) PROVE LegitPlay'
  BY <1>8, <1>13, <1>b DEF MakeItem
<1>14. ASSUME NEW c \in Entrant, NEW g \in Goods, LayDown(c, g) PROVE LegitPlay'
  <2>1. /\ g \in carries[c] /\ carries' = [carries EXCEPT ![c] = @ \ {g}] /\ lying' = lying \cup {g}
        /\ place[c] = "team"
        /\ UNCHANGED <<place, pl, legit_mode, limits_list, let_in>>
    BY <1>14 DEF LayDown
  <2>2. legit_mode => Fine(lying)'
    BY <1>b, <2>1
  <2>3. \A d \in Entrant : carries'[d] \subseteq carries[d] /\ (d # c => carries'[d] = carries[d])
    BY <2>1 DEF LegitTypeOK
  <2> QED BY <1>8, <1>b, <2>1, <2>2, <2>3
<1>15. ASSUME NEW c \in Entrant, NEW g \in Goods, TakeUp(c, g) PROVE LegitPlay'
  <2>1. /\ g \in lying /\ carries' = [carries EXCEPT ![c] = @ \cup {g}] /\ lying' = lying \ {g}
        /\ place[c] = "team"
        /\ UNCHANGED <<place, pl, legit_mode, limits_list, let_in>>
    BY <1>15 DEF TakeUp, Gets
  <2>2. \A d \in Entrant : carries'[d] \subseteq carries[d] \cup {g} /\ (d # c => carries'[d] = carries[d])
    BY <2>1 DEF LegitTypeOK
  <2> QED BY <1>8, <1>b, <2>1, <2>2
<1>16. ASSUME UNCHANGED <<place, carries, pl, limits_list, lying, let_in>>, legit_mode' => legit_mode
       PROVE  LegitPlay'
  BY <1>1, <1>16
<1>17. ASSUME NEW c \in Entrant, LegitCommand(c) \/ LegitOff(c) \/ LegitOption(c) \/ LegitPing(c)
       PROVE  LegitPlay'
  BY <1>16, <1>17 DEF LegitCommand, LegitOff, LegitOption, LegitPing
<1>18. ASSUME NEW c \in Entrant, AutoLegit(c) \/ AutoLegitOff(c) \/ Override(c) \/ FoundingFails(c)
       PROVE  LegitPlay'
  BY <1>16, <1>18 DEF AutoLegit, AutoLegitOff, Override, FoundingFails
<1>19. ASSUME NEW c \in Entrant, ClassIsRefused(c) \/ LeaveMode(c) \/ RefreshLimits(c)
       PROVE  LegitPlay'
  BY <1>16, <1>19 DEF ClassIsRefused, LeaveMode, RefreshLimits
<1>20. ASSUME NEW c \in Entrant, LegitDisconnect(c) PROVE LegitPlay'
  BY <1>3, <1>20 DEF LegitDisconnect
<1>21. CASE UNCHANGED legitVars
  BY <1>16, <1>21 DEF legitVars
<1> QED
  BY <1>4, <1>5, <1>6, <1>7, <1>9, <1>11, <1>12, <1>13, <1>14, <1>15, <1>17, <1>18, <1>19, <1>20,
     <1>21 DEF LegitNext

\* Who holds a reference to a list, when l says which list each client has and the clients
\* in g have given theirs back.
Holders(l, g, x) == {c \in Entrant \ g : l[c] = x}
One(a, x) == IF a = x THEN 1 ELSE 0

\* There are references enough, when d is the ship's list and t the team's.
Enough(counts, l, g, d, t) ==
    \A x \in Limits : counts[x] >= Cardinality(Holders(l, g, x)) + One(d, x) + One(t, x)

\* The holders of a list can be counted.
LEMMA HoldersFinite ==
    ASSUME NEW l, NEW g, NEW x
    PROVE  IsFiniteSet(Holders(l, g, x)) /\ Cardinality(Holders(l, g, x)) \in Nat
<1>1. Holders(l, g, x) \subseteq Entrant
  BY DEF Holders
<1>2. IsFiniteSet(Holders(l, g, x))
  BY <1>1, LegitConstants, FS_Subset
<1> QED BY <1>2, FS_CardinalityType

EnoughNow == ~overdrawn => Enough(refs, limits, given_back, def_limits, limits_list)

\* The property, in the words of the invariant.
LEMMA LimitsLiveIsEnough == LimitsLive <=> EnoughNow
<1>1. ASSUME NEW a, NEW x PROVE Cardinality({y \in {a} : y = x}) = One(a, x)
  <2>1. CASE a = x
    <3>1. {y \in {a} : y = x} = {x}
      BY <2>1
    <3> QED BY <2>1, <3>1, FS_Singleton DEF One
  <2>2. CASE a # x
    <3>1. {y \in {a} : y = x} = {}
      BY <2>2
    <3> QED BY <2>2, <3>1, FS_EmptySet DEF One
  <2> QED BY <2>1, <2>2
<1>2. ASSUME NEW x \in Limits
      PROVE  {c \in Entrant \ given_back : limits[c] = x} = Holders(limits, given_back, x)
  BY DEF Holders
<1> QED BY <1>1, <1>2 DEF LimitsLive, EnoughNow, Enough

\* The same, of the state after a step.
LEMMA LimitsLiveNext == EnoughNow' => LimitsLive'
BY LimitsLiveIsEnough, PTL

\* When one holder is gone there is one less of its list, and as many of the others.
LEMMA OneHolderLess ==
    ASSUME NEW l, NEW g, NEW k, NEW h, NEW c \in Entrant \ g, NEW x \in Limits, l[c] \in ListOrNone,
           Holders(k, h, x) \subseteq Holders(l, g, x) \ {c}
    PROVE  Cardinality(Holders(k, h, x)) <= Cardinality(Holders(l, g, x)) - One(l[c], x)
<1>1. IsFiniteSet(Holders(l, g, x)) /\ Cardinality(Holders(l, g, x)) \in Nat
  BY HoldersFinite
<1>2. Cardinality(Holders(k, h, x)) \in Nat
  BY HoldersFinite
<1>3. CASE l[c] = x
  <2>1. c \in Holders(l, g, x)
    BY <1>3 DEF Holders
  <2>2. /\ IsFiniteSet(Holders(l, g, x) \ {c})
        /\ Cardinality(Holders(l, g, x) \ {c}) = Cardinality(Holders(l, g, x)) - 1
    BY <1>1, <2>1, FS_RemoveElement
  <2>3. Cardinality(Holders(k, h, x)) <= Cardinality(Holders(l, g, x) \ {c})
    BY <2>2, FS_Subset
  <2> QED BY <1>3, <2>2, <2>3 DEF One
<1>4. CASE l[c] # x
  <2>1. Cardinality(Holders(k, h, x)) <= Cardinality(Holders(l, g, x))
    BY <1>1, FS_Subset
  <2> QED BY <1>1, <1>2, <1>4, <2>1 DEF One
<1> QED BY <1>3, <1>4

\* A client lets its reference go: it loses its list, or has given it back.
LEMMA ReleaseOfClient ==
    ASSUME NEW r \in Counts, NEW l, NEW g, NEW d, NEW t, NEW c \in Entrant \ g, l[c] \in ListOrNone,
           Enough(r, l, g, d, t), NEW k, NEW h,
           \A x \in Limits : Holders(k, h, x) \subseteq Holders(l, g, x) \ {c}
    PROVE  Enough(Released(r, l[c]), k, h, d, t)
<1> SUFFICES ASSUME NEW x \in Limits
             PROVE  Released(r, l[c])[x] >= Cardinality(Holders(k, h, x)) + One(d, x) + One(t, x)
  BY DEF Enough
<1> DEFINE n == Cardinality(Holders(l, g, x))
           m == Cardinality(Holders(k, h, x))
<1>1. m <= n - One(l[c], x)
  BY OneHolderLess
<1>2. r[x] \in Nat /\ n \in Nat /\ m \in Nat
  BY HoldersFinite DEF Counts
<1>3. r[x] >= n + One(d, x) + One(t, x)
  BY DEF Enough
<1>4. Released(r, l[c])[x] = IF x = l[c] /\ r[x] > 0 THEN r[x] - 1 ELSE r[x]
  BY DEF Released
<1>5. One(d, x) \in Nat /\ One(t, x) \in Nat
  BY DEF One
<1> HIDE DEF n, m
<1>6. CASE l[c] = x
  BY <1>1, <1>2, <1>3, <1>4, <1>5, <1>6 DEF One, m
<1>7. CASE l[c] # x
  BY <1>1, <1>2, <1>3, <1>4, <1>5, <1>7 DEF One, m
<1> QED BY <1>6, <1>7

\* The team's reference goes with the team.
LEMMA ReleaseOfTeam ==
    ASSUME NEW r \in Counts, NEW l, NEW g, NEW d, NEW t, Enough(r, l, g, d, t)
    PROVE  Enough(Released(r, t), l, g, d, NoLimits)
<1> SUFFICES ASSUME NEW x \in Limits
             PROVE  Released(r, t)[x]
                      >= Cardinality(Holders(l, g, x)) + One(d, x) + One(NoLimits, x)
  BY DEF Enough
<1> DEFINE n == Cardinality(Holders(l, g, x))
<1>1. r[x] \in Nat /\ n \in Nat
  BY HoldersFinite DEF Counts
<1>2. r[x] >= n + One(d, x) + One(t, x)
  BY DEF Enough
<1>3. Released(r, t)[x] = IF x = t /\ r[x] > 0 THEN r[x] - 1 ELSE r[x]
  BY DEF Released
<1>4. One(d, x) \in Nat /\ One(NoLimits, x) = 0
  BY LegitConstants DEF One
<1> HIDE DEF n
<1>5. Released(r, t)[x] >= n + One(d, x)
  BY <1>1, <1>2, <1>3, <1>4 DEF One
<1>6. n + One(d, x) = n + One(d, x) + One(NoLimits, x)
  BY <1>1, <1>4
<1> QED BY <1>5, <1>6 DEF n

\* A client is granted the ship's list, with a reference of its own.
LEMMA GrantOfList ==
    ASSUME NEW r \in Counts, NEW l, NEW g, NEW d \in Limits, NEW t, NEW c \in Entrant,
           Enough(r, l, g, d, t), NEW k, NEW h, NEW s,
           \A x \in Limits : Holders(k, h, x) \subseteq Holders(l, g, x) \cup (IF x = d THEN {c} ELSE {}),
           s = [r EXCEPT ![d] = @ + 1]
    PROVE  Enough(s, k, h, d, t)
<1> SUFFICES ASSUME NEW x \in Limits
             PROVE  s[x] >= Cardinality(Holders(k, h, x)) + One(d, x) + One(t, x)
  BY DEF Enough
<1> DEFINE n == Cardinality(Holders(l, g, x))
           m == Cardinality(Holders(k, h, x))
<1>1. IsFiniteSet(Holders(l, g, x)) /\ r[x] \in Nat /\ n \in Nat /\ m \in Nat
  BY HoldersFinite DEF Counts
<1>2. r[x] >= n + One(d, x) + One(t, x) /\ One(d, x) \in Nat /\ One(t, x) \in Nat
  BY DEF Enough, One
<1>3. s[x] = IF x = d THEN r[x] + 1 ELSE r[x]
  BY DEF Counts
<1>4. CASE x = d
  <2>1. /\ IsFiniteSet(Holders(l, g, x) \cup {c})
        /\ Cardinality(Holders(l, g, x) \cup {c}) <= n + 1
    BY <1>1, FS_AddElement
  <2>2. Holders(k, h, x) \subseteq Holders(l, g, x) \cup {c}
    BY <1>4
  <2>3. m <= Cardinality(Holders(l, g, x) \cup {c}) /\ Cardinality(Holders(l, g, x) \cup {c}) \in Nat
    BY <2>1, <2>2, FS_Subset, FS_CardinalityType
  <2> HIDE DEF n, m
  <2> QED BY <1>1, <1>2, <1>3, <1>4, <2>1, <2>3 DEF m
<1>5. CASE x # d
  <2>1. m <= n
    BY <1>1, <1>5, FS_Subset
  <2> HIDE DEF n, m
  <2> QED BY <1>1, <1>2, <1>3, <1>5, <2>1 DEF m
<1> QED BY <1>4, <1>5

\* A team is founded: it takes the reference of its founder over, or has none.
LEMMA TakeoverOfList ==
    ASSUME NEW r \in Counts, NEW l, NEW g, NEW d, NEW t, NEW c \in Entrant \ g, l[c] \in ListOrNone,
           Enough(r, l, g, d, t), NEW k,
           \A x \in Limits : Holders(k, g, x) \subseteq Holders(l, g, x) \ {c}
    PROVE  Enough(r, k, g, d, l[c])
<1> SUFFICES ASSUME NEW x \in Limits
             PROVE  r[x] >= Cardinality(Holders(k, g, x)) + One(d, x) + One(l[c], x)
  BY DEF Enough
<1> DEFINE n == Cardinality(Holders(l, g, x))
           m == Cardinality(Holders(k, g, x))
<1>1. m <= n - One(l[c], x)
  BY OneHolderLess
<1>2. r[x] \in Nat /\ n \in Nat /\ m \in Nat /\ One(d, x) \in Nat /\ One(t, x) \in Nat /\ One(l[c], x) \in Nat
  BY HoldersFinite DEF Counts, One
<1>3. r[x] >= n + One(d, x) + One(t, x)
  BY DEF Enough
<1> HIDE DEF n, m
<1> QED BY <1>1, <1>2, <1>3 DEF m

\* A team that holds no list needs no more references.
LEMMA NoListTaken ==
    ASSUME NEW r \in Counts, NEW l, NEW g, NEW d, NEW t, Enough(r, l, g, d, t)
    PROVE  Enough(r, l, g, d, NoLimits)
<1> SUFFICES ASSUME NEW x \in Limits
             PROVE  r[x] >= Cardinality(Holders(l, g, x)) + One(d, x) + One(NoLimits, x)
  BY DEF Enough
<1>1. /\ r[x] \in Nat /\ Cardinality(Holders(l, g, x)) \in Nat /\ One(d, x) \in Nat
      /\ One(t, x) \in Nat /\ One(NoLimits, x) = 0
  BY HoldersFinite, LegitConstants DEF Counts, One
<1>2. r[x] >= Cardinality(Holders(l, g, x)) + One(d, x) + One(t, x)
  BY DEF Enough
<1> QED BY <1>1, <1>2

\* A GM reads a new list (refresh_limits), which nobody can have yet.
LEMMA NewList ==
    ASSUME NEW r \in Counts, NEW l, NEW g, NEW d, NEW t, Enough(r, l, g, d, t),
           NEW new \in Limits, NEW enforced \in BOOLEAN, t # new, Holders(l, g, new) = {}, NEW s,
           s = [Released(r, d) EXCEPT ![new] = IF enforced THEN 1 ELSE 0]
    PROVE  Enough(s, l, g, IF enforced THEN new ELSE NoLimits, t)
<1> DEFINE e == IF enforced THEN new ELSE NoLimits
<1> SUFFICES ASSUME NEW x \in Limits
             PROVE  s[x] >= Cardinality(Holders(l, g, x)) + One(e, x) + One(t, x)
  BY DEF Enough
<1> DEFINE n == Cardinality(Holders(l, g, x))
<1>1. r[x] \in Nat /\ n \in Nat /\ One(d, x) \in Nat /\ One(t, x) \in Nat
  BY HoldersFinite DEF Counts, One
<1>2. r[x] >= n + One(d, x) + One(t, x)
  BY DEF Enough
<1>3. CASE x = new
  <2>1. n = 0 /\ One(t, x) = 0
    BY <1>3, FS_EmptySet DEF One
  <2>2. s[x] = One(e, x)
    BY <1>3, LegitConstants DEF One, Released
  <2>3. One(e, x) \in Nat
    BY DEF One
  <2> HIDE DEF n, e
  <2> QED BY <2>1, <2>2, <2>3 DEF n
<1>4. CASE x # new
  <2>1. One(e, x) = 0
    BY <1>4, LegitConstants DEF One
  <2>2. s[x] = IF x = d /\ r[x] > 0 THEN r[x] - 1 ELSE r[x]
    BY <1>4 DEF Released
  <2> HIDE DEF n, e
  <2>3. s[x] >= n + One(t, x)
    BY <1>1, <1>2, <2>2 DEF One
  <2> QED BY <1>1, <2>1, <2>3 DEF n
<1> QED BY <1>3, <1>4

\* Whoever is granted a list holds it, and nobody else holds another one for that.
LEMMA GrantLists ==
    ASSUME LegitTypeOK, LegitLists, NEW c \in Entrant, def_limits # NoLimits, Grant(c),
           UNCHANGED <<def_limits, read, limits_list, overdrawn>>
    PROVE  LegitLists'
<1>1. /\ legit' = legit \cup {c} /\ limits' = [limits EXCEPT ![c] = def_limits]
      /\ refs' = [refs EXCEPT ![def_limits] = @ + 1] /\ given_back' = given_back \ {c}
  BY DEF Grant, Retained
<1>2. FlagOwnsReference'
  BY <1>1 DEF LegitLists, FlagOwnsReference
<1>3. UnreadUnused'
  BY <1>1 DEF LegitLists, UnreadUnused, LegitTypeOK
<1>4. ASSUME ~overdrawn
      PROVE  Enough(refs', limits', given_back', def_limits, limits_list)
  <2>1. Enough(refs, limits, given_back, def_limits, limits_list)
    BY <1>4, LimitsLiveIsEnough DEF LegitLists, EnoughNow
  <2>2. \A x \in Limits :
          Holders(limits', given_back', x)
            \subseteq Holders(limits, given_back, x) \cup (IF x = def_limits THEN {c} ELSE {})
    BY <1>1 DEF Holders, LegitTypeOK
  <2>3. refs \in Counts /\ def_limits \in Limits
    BY DEF LegitTypeOK, Counts
  <2>4. refs' = [refs EXCEPT ![def_limits] = @ + 1]
    BY <1>1
  <2> QED BY <2>1, <2>2, <2>3, <2>4, GrantOfList
<1>5. EnoughNow'
  BY <1>4 DEF EnoughNow
<1> QED BY <1>2, <1>3, <1>5, LimitsLiveNext DEF LegitLists

\* A team that gives up its list gives up one reference at most.
LEMMA TeamWithoutLists ==
    ASSUME NEW c, NEW r \in Counts, NEW l, NEW g, NEW d, Enough(r, l, g, d, limits_list),
           TeamWithout(c, r)
    PROVE  Enough(refs', l, g, d, limits_list') /\ limits_list' \in {limits_list, NoLimits}
<1>1. CASE In = {c}
  BY <1>1, ReleaseOfTeam DEF TeamWithout
<1>2. CASE In # {c}
  BY <1>2 DEF TeamWithout
<1> QED BY <1>1, <1>2

\* The references to lists over one step.
LEMMA LegitListsStep ==
    ASSUME LegitTypeOK, LegitLists, [LegitNext]_legitVars
    PROVE  LegitLists'
<1> USE DEF legitOfTeam, legitFlags, legitRefs, legitShip
<1>a. refs \in Counts /\ \A c \in Entrant : limits[c] \in ListOrNone
  BY DEF LegitTypeOK, Counts, ListOrNone
<1>b. ~overdrawn => Enough(refs, limits, given_back, def_limits, limits_list)
  BY LimitsLiveIsEnough DEF LegitLists, EnoughNow
<1>c. FlagOwnsReference /\ UnreadUnused
  BY DEF LegitLists
<1>1. ASSUME UNCHANGED <<limits, given_back, refs, def_limits, read, limits_list, overdrawn>>,
             legit' \subseteq legit
      PROVE  LegitLists'
  <2>1. FlagOwnsReference' /\ UnreadUnused'
    BY <1>1, <1>c DEF FlagOwnsReference, UnreadUnused
  <2>2. EnoughNow'
    BY <1>1, <1>b DEF EnoughNow
  <2> QED BY <2>1, <2>2, LimitsLiveNext DEF LegitLists
<1>2. ASSUME NEW c \in Entrant, LegitConnect(c) \/ LegitOff(c) \/ LegitOption(c) PROVE LegitLists'
  BY <1>1, <1>2 DEF LegitConnect, LegitOff, LegitOption
<1>3. ASSUME NEW c \in Entrant, AutoLegitOff(c) \/ Override(c) \/ LeaveMode(c) PROVE LegitLists'
  BY <1>1, <1>3 DEF AutoLegitOff, Override, LeaveMode
<1>4. ASSUME NEW c \in Entrant, NEW g \in Goods, ItemDrop(c, g) \/ MakeItem(c, g) PROVE LegitLists'
  BY <1>1, <1>4 DEF ItemDrop, MakeItem, Lies
<1>5. ASSUME NEW c \in Entrant, NEW g \in Goods, LayDown(c, g) \/ TakeUp(c, g) PROVE LegitLists'
  BY <1>1, <1>5 DEF LayDown, TakeUp
<1>6. ASSUME NEW g \in Goods, ServerItem(g) PROVE LegitLists'
  BY <1>1, <1>6 DEF ServerItem, Lies
<1>7. CASE UNCHANGED legitVars
  BY <1>1, <1>7 DEF legitVars
<1>8. ASSUME NEW c \in Entrant, LegitCommand(c) PROVE LegitLists'
  BY <1>8, GrantLists DEF LegitCommand
<1>9. ASSUME NEW c \in Entrant, LegitPing(c) \/ AutoLegit(c) PROVE LegitLists'
  <2>1. AlwaysCheck(c) /\ UNCHANGED <<def_limits, read, limits_list, overdrawn>>
    BY <1>9 DEF LegitPing, AutoLegit
  <2>2. CASE def_limits # NoLimits /\ Passes(c, def_limits)
    <3>1. Grant(c)
      BY <2>1, <2>2 DEF AlwaysCheck
    <3> QED BY <2>1, <2>2, <3>1, GrantLists
  <2>3. CASE ~(def_limits # NoLimits /\ Passes(c, def_limits))
    BY <1>1, <2>1, <2>3 DEF AlwaysCheck
  <2> QED BY <2>2, <2>3
<1>10. ASSUME NEW c \in Entrant, FoundTeam(c) PROVE LegitLists'
  <2>1. /\ legit' = legit \ {c} /\ UNCHANGED <<given_back, refs, overdrawn, def_limits, read>>
        /\ limits_list' = IF Steals(c) THEN limits[c] ELSE NoLimits
        /\ limits' = [limits EXCEPT ![c] = IF Steals(c) THEN NoLimits ELSE @]
    BY <1>10 DEF FoundTeam
  <2>2. FlagOwnsReference' /\ UnreadUnused'
    BY <1>c, <2>1 DEF FlagOwnsReference, UnreadUnused, LegitTypeOK
  <2>3. CASE Steals(c)
    <3>1. c \in Entrant \ given_back /\ limits[c] \in ListOrNone /\ limits_list' = limits[c]
      BY <1>a, <1>c, <2>1, <2>3 DEF Steals, FlagOwnsReference
    <3>2. \A x \in Limits : Holders(limits', given_back, x) \subseteq Holders(limits, given_back, x) \ {c}
      BY <2>1, <2>3, LegitConstants DEF Holders, LegitTypeOK
    <3>3. ~overdrawn => Enough(refs, limits', given_back, def_limits, limits[c])
      BY <1>a, <1>b, <3>1, <3>2, TakeoverOfList
    <3>4. EnoughNow'
      BY <2>1, <3>1, <3>3 DEF EnoughNow
    <3> QED BY <2>2, <3>4, LimitsLiveNext DEF LegitLists
  <2>4. CASE ~Steals(c)
    <3>1. limits' = limits /\ limits_list' = NoLimits
      BY <2>1, <2>4 DEF LegitTypeOK
    <3>2. ~overdrawn => Enough(refs, limits, given_back, def_limits, NoLimits)
      BY <1>a, <1>b, NoListTaken
    <3>3. EnoughNow'
      BY <2>1, <3>1, <3>2 DEF EnoughNow
    <3> QED BY <2>2, <3>3, LimitsLiveNext DEF LegitLists
  <2> QED BY <2>3, <2>4
<1>11. ASSUME NEW c \in Entrant, FoundingFails(c) PROVE LegitLists'
  <2>1. /\ legit' = legit \ {c} /\ UNCHANGED <<given_back, overdrawn, def_limits, read, limits_list>>
        /\ limits' = [limits EXCEPT ![c] = NoLimits] /\ refs' = Released(refs, limits[c])
        /\ c \in legit
    BY <1>11 DEF FoundingFails, Steals
  <2>2. FlagOwnsReference' /\ UnreadUnused'
    BY <1>c, <2>1 DEF FlagOwnsReference, UnreadUnused, LegitTypeOK
  <2>3. c \in Entrant \ given_back /\ limits[c] \in ListOrNone
    BY <1>a, <1>c, <2>1 DEF FlagOwnsReference
  <2>4. \A x \in Limits : Holders(limits', given_back, x) \subseteq Holders(limits, given_back, x) \ {c}
    BY <2>1, LegitConstants DEF Holders, LegitTypeOK
  <2>5. ~overdrawn => Enough(Released(refs, limits[c]), limits', given_back, def_limits, limits_list)
    BY <1>a, <1>b, <2>3, <2>4, ReleaseOfClient
  <2>6. EnoughNow'
    BY <2>1, <2>5 DEF EnoughNow
  <2> QED BY <2>2, <2>6, LimitsLiveNext DEF LegitLists
<1>12. ASSUME NEW c \in Entrant, GiveBack(c), UNCHANGED <<limits, limits_list, def_limits, read, overdrawn>>
       PROVE  LegitLists'
  <2>1. legit' = legit \ {c}
    BY <1>12 DEF GiveBack
  <2>2. CASE Steals(c)
    <3>1. refs' = Released(refs, limits[c]) /\ given_back' = given_back \cup {c}
      BY <1>12, <2>2 DEF GiveBack
    <3>2. FlagOwnsReference' /\ UnreadUnused'
      BY <1>12, <1>c, <2>1, <3>1 DEF FlagOwnsReference, UnreadUnused
    <3>3. c \in Entrant \ given_back /\ limits[c] \in ListOrNone
      BY <1>a, <1>c, <2>2 DEF FlagOwnsReference, Steals
    <3>4. \A x \in Limits : Holders(limits, given_back', x) \subseteq Holders(limits, given_back, x) \ {c}
      BY <3>1 DEF Holders
    <3>5. ~overdrawn => Enough(Released(refs, limits[c]), limits, given_back', def_limits, limits_list)
      BY <1>a, <1>b, <3>3, <3>4, ReleaseOfClient
    <3>6. EnoughNow'
      BY <1>12, <3>1, <3>5 DEF EnoughNow
    <3> QED BY <3>2, <3>6, LimitsLiveNext DEF LegitLists
  <2>3. CASE ~Steals(c)
    BY <1>1, <1>12, <2>1, <2>3 DEF GiveBack
  <2> QED BY <2>2, <2>3
<1>13. ASSUME NEW c \in Entrant, JoinLegitTeam(c) \/ ClassIsRefused(c) PROVE LegitLists'
  BY <1>12, <1>13 DEF JoinLegitTeam, ClassIsRefused
<1>14. ASSUME NEW c \in Entrant, LeaveTeam(c) PROVE LegitLists'
  <2>1. /\ legit' = legit \ {c} /\ UNCHANGED <<limits, given_back, overdrawn, def_limits, read>>
        /\ TeamWithout(c, refs)
    BY <1>14 DEF LeaveTeam
  <2>2. limits_list' \in {limits_list, NoLimits}
    BY <2>1 DEF TeamWithout
  <2>3. FlagOwnsReference' /\ UnreadUnused'
    BY <1>c, <2>1, <2>2 DEF FlagOwnsReference, UnreadUnused
  <2>4. ~overdrawn => Enough(refs', limits, given_back, def_limits, limits_list')
    BY <1>a, <1>b, <2>1, TeamWithoutLists
  <2>5. EnoughNow'
    BY <2>1, <2>4 DEF EnoughNow
  <2> QED BY <2>3, <2>5, LimitsLiveNext DEF LegitLists
<1>15. ASSUME NEW c \in Entrant, Gone(c), UNCHANGED legitShip PROVE LegitLists'
  <2>1. /\ legit' = legit \ {c} /\ limits' = [limits EXCEPT ![c] = NoLimits]
        /\ given_back' = given_back \ {c} /\ overdrawn' = (overdrawn \/ c \in given_back)
        /\ UNCHANGED <<def_limits, read>>
    BY <1>15 DEF Gone
  <2> DEFINE r == Released(refs, limits[c])
  <2>2. r \in Counts
    BY <1>a, ReleasedCounts
  <2>3. \/ TeamWithout(c, r)
        \/ refs' = r /\ limits_list' = limits_list
    BY <1>15 DEF Gone
  <2>4. limits_list' \in {limits_list, NoLimits}
    BY <2>3 DEF TeamWithout
  <2>5. FlagOwnsReference' /\ UnreadUnused'
    BY <1>c, <2>1, <2>4 DEF FlagOwnsReference, UnreadUnused, LegitTypeOK
  <2>6. ASSUME ~overdrawn' PROVE Enough(refs', limits', given_back', def_limits, limits_list')
    <3>1. c \in Entrant \ given_back /\ limits[c] \in ListOrNone /\ ~overdrawn
      BY <1>a, <2>1, <2>6
    <3>2. \A x \in Limits : Holders(limits', given_back', x) \subseteq Holders(limits, given_back, x) \ {c}
      BY <2>1, <3>1, LegitConstants DEF Holders, LegitTypeOK
    <3>3. Enough(r, limits', given_back', def_limits, limits_list)
      BY <1>a, <1>b, <3>1, <3>2, ReleaseOfClient
    <3> HIDE DEF r
    <3> QED BY <2>2, <2>3, <3>3, TeamWithoutLists
  <2>7. EnoughNow'
    BY <2>1, <2>6 DEF EnoughNow
  <2> QED BY <2>5, <2>7, LimitsLiveNext DEF LegitLists
<1>16. ASSUME NEW c \in Entrant, LegitDisconnect(c) PROVE LegitLists'
  BY <1>15, <1>16 DEF LegitDisconnect
<1>17. ASSUME NEW c \in Entrant, NEW g \in Goods, TakeItem(c, g) PROVE LegitLists'
  <2>1. CASE UNCHANGED <<legitFlags, legitOfTeam, legitRefs, legitShip>>
    BY <1>1, <2>1
  <2>2. CASE Gone(c) /\ UNCHANGED legitShip
    BY <1>15, <2>2
  <2> QED BY <1>17, <2>1, <2>2 DEF TakeItem
<1>18. ASSUME NEW c \in Entrant, RefreshLimits(c) PROVE LegitLists'
  <2>1. PICK new \in Limits \ read, enforced \in BOOLEAN :
          /\ read' = read \cup {new}
          /\ def_limits' = IF enforced THEN new ELSE NoLimits
          /\ refs' = [Released(refs, def_limits) EXCEPT ![new] = IF enforced THEN 1 ELSE 0]
    BY <1>18 DEF RefreshLimits
  <2>2. UNCHANGED <<legit, limits_list, limits, given_back, overdrawn>>
    BY <1>18 DEF RefreshLimits
  <2>3. FlagOwnsReference' /\ UnreadUnused'
    BY <1>c, <2>1, <2>2 DEF FlagOwnsReference, UnreadUnused
  <2>4. limits_list # new /\ Holders(limits, given_back, new) = {}
    BY <1>c, LegitConstants DEF UnreadUnused, Holders
  <2>5. ~overdrawn => Enough(refs', limits, given_back, IF enforced THEN new ELSE NoLimits, limits_list)
    BY <1>a, <1>b, <2>1, <2>4, NewList
  <2>6. EnoughNow'
    BY <2>1, <2>2, <2>5 DEF EnoughNow
  <2> QED BY <2>3, <2>6, LimitsLiveNext DEF LegitLists
<1> QED
  BY <1>2, <1>3, <1>4, <1>5, <1>6, <1>7, <1>8, <1>9, <1>10, <1>11, <1>13, <1>14, <1>16, <1>17, <1>18
  DEF LegitNext

\* At the start everybody is away, and the ship alone has a list.
LEMMA LegitInvInit == LegitInit => LegitInv
<1> SUFFICES ASSUME LegitInit PROVE LegitInv
  OBVIOUS
<1>1. In = {}
  BY DEF LegitInit, In
<1>2. LegitTypeOK
  <2>1. refs \in [Limits -> Nat]
    BY DEF LegitInit
  <2> QED BY <1>1, <2>1, LegitConstants DEF LegitInit, LegitTypeOK
<1>3. LegitPlay
  BY DEF LegitInit, LegitPlay, LobbyDataFresh, ModeHasList, LegitTeamsStayLegit
<1>4. FlagOwnsReference /\ UnreadUnused
  BY DEF LegitInit, FlagOwnsReference, UnreadUnused
<1>5. Enough(refs, limits, given_back, def_limits, limits_list)
  <2> SUFFICES ASSUME NEW x \in Limits
               PROVE  refs[x] >= Cardinality(Holders(limits, given_back, x))
                                   + One(def_limits, x) + One(limits_list, x)
    BY DEF Enough
  <2>1. Holders(limits, given_back, x) = {}
    BY LegitConstants DEF LegitInit, Holders
  <2>2. One(limits_list, x) = 0 /\ One(def_limits, x) = refs[x] /\ refs[x] \in Nat
    BY LegitConstants DEF LegitInit, One
  <2> QED BY <2>1, <2>2, FS_EmptySet
<1>6. LimitsLive
  BY <1>5, LimitsLiveIsEnough DEF EnoughNow
<1> QED BY <1>2, <1>3, <1>4, <1>6 DEF LegitInv, LegitLists

\* The invariant of legit mode always holds.
LEMMA SpecLegit == LegitSpec => []LegitInv
<1>1. LegitInv /\ [LegitNext]_legitVars => LegitInv'
  BY LegitTypeStep, LegitPlayStep, LegitListsStep DEF LegitInv
<1> QED BY <1>1, LegitInvInit, PTL DEF LegitSpec

\* A team's leader is one of its members, and every list in use is one the ship has read
\* (lobby_elect_leader_locked, handle_legit, refresh_limits).
THEOREM LegitFits == LegitSpec => []LegitTypeOK
<1>1. LegitInv => LegitTypeOK
  BY DEF LegitInv
<1> QED BY <1>1, SpecLegit, PTL

\* A legit team stays legit, whatever lists are read meanwhile and whoever asked for the mode
\* when; and the lists that the ship, the team and the clients use are there, until a client
\* leaves that has released its own before (join_game, handle_take_item, refresh_limits).
THEOREM LegitForGood == LegitSpec => []LegitHolds
<1>1. LegitInv => LegitHolds
  BY DEF LegitInv, LegitPlay, LegitLists, LegitHolds
<1> QED BY <1>1, SpecLegit, PTL

(***************************************************************************)
(* What members are shown.                                                 *)
(***************************************************************************)

Slotted == [Seat -> Guest \cup {Vacant}]

\* A client is in the one slot of its lobby or nowhere, and in a team below the fourth.
Placed ==
    /\ clients \in [Room -> Slotted] /\ leader_id \in [Room -> Seat]
    /\ cur_lobby \in [Guest -> Room \cup {Nowhere}]
    /\ \A l \in Room : \A s \in Seat : clients[l][s] # Vacant => cur_lobby[clients[l][s]] = l
    /\ \A l \in Room : \A s, t \in Seat : clients[l][s] = clients[l][t] /\ clients[l][s] # Vacant => s = t
    /\ \A c \in Guest : cur_lobby[c] # Nowhere => \E s \in Seat : clients[cur_lobby[c]][s] = c
    /\ \A l \in Party : \A s \in Seat : s \notin SeatsOf(l) => clients[l][s] = Vacant

\* A round whose packets say of their slot what is so, and a round that speaks of slot s: a
\* join shows all of the lobby.
Right(k) == \/ k.what = "join"
            \/ k.what = "add" /\ clients[k.room][k.slot] = k.who
            \/ k.what = "leave" /\ clients[k.room][k.slot] = Vacant
Covers(k, s) == k.what = "join" \/ k.slot = s

RoundOf == [to : SUBSET Guest, what : {"join", "add", "leave"}, room : Room, who : Guest, slot : Seat]

\* What is told wrongly (a client that leaves a lobby for itself) is told again rightly.
Telling ==
    /\ sending \in Seq(RoundOf) /\ (served = Vacant => sending = <<>>)
    /\ \A i \in DOMAIN sending : \A c \in sending[i].to : cur_lobby[c] = sending[i].room
    /\ \A i \in DOMAIN sending : ~Right(sending[i]) => \A c \in sending[i].to :
         \E j \in DOMAIN sending : /\ j > i /\ c \in sending[j].to
                                   /\ Right(sending[j]) /\ Covers(sending[j], sending[i].slot)

ReadingOf == [to : Guest, room : Room, leader : Seat, slots : Slotted, read : BOOLEAN]
Shot == [slots : Slotted, leader : Seat]

\* A client that is being restored stays where it is.
Watching ==
    /\ asked \subseteq Guest /\ served \in Guest \cup {Vacant} /\ picture \in [Guest -> Shot]
    /\ reading # NotReading => reading \in ReadingOf /\ cur_lobby[reading.to] = reading.room

\* What a client will see once it has been restored: unread slots are as they are.
Shows(c, s) ==
    IF reading.to = c THEN IF reading.read THEN reading.slots[s] ELSE clients[cur_lobby[c]][s]
    ELSE picture[c].slots[s]
ShowsLeader(c) == IF reading.to = c THEN reading.leader ELSE picture[c].leader

Owed(c, s) == \E i \in DOMAIN sending : c \in sending[i].to /\ Covers(sending[i], s)
OwedAny(c) == \E i \in DOMAIN sending : c \in sending[i].to

\* Every slot is shown as it is, or is still to be told; and so is the leader.
Truth ==
    \A c \in Guest : cur_lobby[c] # Nowhere =>
        /\ \A s \in Seat : Shows(c, s) = clients[cur_lobby[c]][s] \/ Owed(c, s)
        /\ ShowsLeader(c) = leader_id[cur_lobby[c]] \/ OwedAny(c)

ViewsInv == Placed /\ Telling /\ Watching /\ Truth

LEMMA ViewsStart == ViewsInit => ViewsInv
<1> SUFFICES ASSUME ViewsInit PROVE ViewsInv
  OBVIOUS
<1> USE ViewsAssumption
<1>1. /\ clients = [l \in Room |-> [s \in Seat |-> Vacant]] /\ leader_id = [l \in Room |-> 0]
      /\ cur_lobby = [c \in Guest |-> Nowhere] /\ asked = {} /\ served = Vacant /\ sending = <<>>
      /\ reading = NotReading /\ picture = [c \in Guest |-> Unseen]
  BY DEF ViewsInit, Unseen
<1>2. Placed
  BY <1>1 DEF Placed, Slotted, Room
<1>3. Telling
  <2>1. <<>> \in Seq(RoundOf) /\ DOMAIN <<>> = {}
    BY EmptySeq
  <2> QED BY <1>1, <2>1 DEF Telling
<1>4. Watching
  <2>1. Unseen \in Shot
    BY DEF Unseen, Shot, Slotted
  <2> QED BY <1>1, <2>1 DEF Watching
<1>5. Truth
  BY <1>1 DEF Truth
<1> QED BY <1>2, <1>3, <1>4, <1>5 DEF ViewsInv

-----------------------------------------------------------------------------
(* Packets.                                                                *)

\* Whatever form a version has for it, a picture of the lobby shows the lobby.
LEMMA JoinShows ==
    ASSUME Placed, NEW d \in Guest, NEW l \in Room
    PROVE  /\ LobbyJoin(d, l) = LobbyPicture(l)
           /\ l \in Party => GameJoin(d, l) = LobbyPicture(l)
<1>1. Speaks[d] \in {"nte", "dc", "gc", "ep3", "pc", "xbox", "bb"}
  BY ViewsAssumption
<1>2. LobbyJoin(d, l) = LobbyPicture(l)
  BY <1>1 DEF LobbyJoin, NteLobbyJoin, DcLobbyJoin, PcLobbyJoin, XboxLobbyJoin, BbLobbyJoin
<1>3. GameJoin(d, l) = TeamPicture(l)
  BY <1>1 DEF GameJoin, NteGameJoin, DcGameJoin, PcGameJoin, GcGameJoin, XboxGameJoin, Ep3GameJoin, BbGameJoin
<1>4. ASSUME l \in Party PROVE TeamPicture(l) = LobbyPicture(l)
  <2>1. \A s \in Seat : ~(s < 4) => clients[l][s] = Vacant
    BY <1>4 DEF Placed, SeatsOf
  <2>2. clients[l] = [s \in Seat |-> clients[l][s]]
    BY DEF Placed, Slotted
  <2>3. [s \in Seat |-> IF s < 4 THEN clients[l][s] ELSE Vacant] = [s \in Seat |-> clients[l][s]]
    BY <2>1
  <2> QED BY <2>2, <2>3 DEF TeamPicture, LobbyPicture
<1> QED BY <1>2, <1>3, <1>4

LEMMA AddShows ==
    ASSUME NEW d \in Guest, NEW p, NEW l, NEW c, NEW s
    PROVE  AddPlayer(d, p, l, c, s) = With(p, l, c, s) /\ ToldGone(d, p, l, s) = With(p, l, Vacant, s)
<1>1. Speaks[d] \in {"nte", "dc", "gc", "ep3", "pc", "xbox", "bb"}
  BY ViewsAssumption
<1> QED BY <1>1 DEF AddPlayer, NteAddPlayer, DcAddPlayer, PcAddPlayer, XboxAddPlayer, BbAddPlayer,
                    ToldGone, DcLeave, BbLeave

\* Who is next in a round is one of those it is for.
LEMMA NextIsReached ==
    ASSUME Placed, Telling, NEW i \in DOMAIN sending, sending[i].to # {}
    PROVE  /\ NextOf(sending[i]) \in sending[i].to /\ sending[i] \in RoundOf
           /\ NextOf(sending[i]) \in Guest /\ cur_lobby[NextOf(sending[i])] = sending[i].room
<1> DEFINE k == sending[i]
           there == {s \in Seat : clients[k.room][s] \in k.to}
<1>1. k \in RoundOf
  BY ElementOfSeq, LenProperties DEF Telling
<1>2. PICK c \in k.to : TRUE
  OBVIOUS
<1>3. c \in Guest /\ cur_lobby[c] = k.room /\ k.room \in Room
  BY <1>1, <1>2 DEF Telling, RoundOf
<1>4. \E s \in Seat : clients[k.room][s] = c
  BY <1>3, ViewsAssumption DEF Placed
<1>5. there # {} /\ there \in SUBSET Nat
  BY <1>2, <1>4, ViewsAssumption
<1>6. Min(there) \in there
  <2> HIDE DEF there
  <2> QED BY <1>5, MinOfNat
<1>7. NextOf(k) \in k.to
  BY <1>6 DEF NextOf
<1> QED BY <1>1, <1>7 DEF Telling, RoundOf

LEMMA SendShape ==
    ASSUME Placed, Telling, Watching, SendNext
    PROVE  \E i \in DOMAIN sending : \E to \in Guest :
              LET k == sending[i] IN
              /\ to \in k.to /\ k \in RoundOf /\ cur_lobby[to] = k.room
              /\ \A j \in DOMAIN sending : j < i => sending[j].to = {}
              /\ reading.to # to
              /\ sending' = [sending EXCEPT ![i].to = k.to \ {to}]
              /\ picture' = [picture EXCEPT ![to] = picture'[to]]
              /\ picture'[to] = IF k.what = "join" THEN LobbyPicture(k.room)
                                ELSE With(picture[to], k.room, IF k.what = "add" THEN k.who ELSE Vacant, k.slot)
<1> DEFINE i == Min(Left)
           k == sending[i]
           to == NextOf(k)
           p == picture[to]
           new == CASE k.what = "join" /\ k.room \in Hall -> LobbyJoin(to, k.room)
                    [] k.what = "join" /\ k.room \in Party -> GameJoin(to, k.room)
                    [] k.what = "add" -> AddPlayer(to, p, k.room, k.who, k.slot)
                    [] k.what = "leave" -> ToldGone(to, p, k.room, k.slot)
<1>1. /\ Left # {} /\ reading.to # to /\ picture' = [picture EXCEPT ![to] = new]
      /\ sending' = [sending EXCEPT ![i].to = k.to \ {to}]
  BY DEF SendNext, Free
<1>2. Len(sending) \in Nat /\ DOMAIN sending = 1 .. Len(sending)
  BY LenProperties DEF Telling
<1>3. i \in Left /\ \A j \in Left : i <= j
  <2>1. Left \in SUBSET Nat
    BY <1>2 DEF Left
  <2> QED BY <1>1, <2>1, MinOfNat
<1>4. i \in DOMAIN sending /\ k.to # {} /\ i \in Nat
  <2> HIDE DEF i
  <2>1. i \in DOMAIN sending /\ k.to # {}
    BY <1>3 DEF Left
  <2> QED BY <1>2, <2>1
<1>5. \A j \in DOMAIN sending : j < i => sending[j].to = {}
  <2> SUFFICES ASSUME NEW j \in DOMAIN sending, j < i, sending[j].to # {} PROVE FALSE
    OBVIOUS
  <2>1. j \in Left /\ j \in Nat
    BY <1>2 DEF Left
  <2> HIDE DEF i
  <2> QED BY <1>3, <1>4, <2>1
<1> HIDE DEF i
<1>6. to \in k.to /\ k \in RoundOf /\ to \in Guest /\ cur_lobby[to] = k.room
  BY <1>4, NextIsReached
<1> HIDE DEF to, new
<1>7. /\ LobbyJoin(to, k.room) = LobbyPicture(k.room)
      /\ k.room \in Party => GameJoin(to, k.room) = LobbyPicture(k.room)
      /\ AddPlayer(to, p, k.room, k.who, k.slot) = With(p, k.room, k.who, k.slot)
      /\ ToldGone(to, p, k.room, k.slot) = With(p, k.room, Vacant, k.slot)
  <2>1. k.room \in Room
    BY <1>6 DEF RoundOf
  <2> QED BY <1>6, <2>1, JoinShows, AddShows
<1>8. new = IF k.what = "join" THEN LobbyPicture(k.room)
            ELSE With(p, k.room, IF k.what = "add" THEN k.who ELSE Vacant, k.slot)
  <2>1. k.what \in {"join", "add", "leave"} /\ k.room \in Hall \cup Party
    BY <1>6 DEF RoundOf, Room
  <2> HIDE DEF k, p
  <2> QED BY <1>7, <2>1, ViewsAssumption DEF new
<1>9. picture' = [picture EXCEPT ![to] = picture'[to]] /\ picture'[to] = new
  BY <1>1, <1>6 DEF Watching
<1> QED BY <1>1, <1>4, <1>5, <1>6, <1>8, <1>9

\* A packet is sent: its slot is settled, or the packet that settles it is still to come.
LEMMA SendKeeps == ASSUME ViewsInv, SendNext PROVE ViewsInv'
<1> USE DEF ViewsInv
<1>0. PICK i \in DOMAIN sending, to \in Guest :
          /\ to \in sending[i].to /\ sending[i] \in RoundOf /\ cur_lobby[to] = sending[i].room
          /\ \A j \in DOMAIN sending : j < i => sending[j].to = {}
          /\ reading.to # to
          /\ sending' = [sending EXCEPT ![i].to = sending[i].to \ {to}]
          /\ picture' = [picture EXCEPT ![to] = picture'[to]]
          /\ picture'[to] = IF sending[i].what = "join" THEN LobbyPicture(sending[i].room)
                            ELSE With(picture[to], sending[i].room,
                                      IF sending[i].what = "add" THEN sending[i].who ELSE Vacant, sending[i].slot)
  BY SendShape
<1> DEFINE k == sending[i]
           l == k.room
           n == Len(sending)
<1>1. /\ k \in RoundOf /\ l \in Room /\ k.slot \in Seat /\ k.who \in Guest
      /\ k.what \in {"join", "add", "leave"} /\ k.to \in SUBSET Guest
  BY <1>0 DEF RoundOf
<1>2. UNCHANGED <<clients, leader_id, cur_lobby, asked, served, reading>>
  BY DEF SendNext, places
<1>3. n \in Nat /\ sending \in [1 .. n -> RoundOf] /\ DOMAIN sending = 1 .. n
  BY LenProperties DEF Telling
<1>4. picture'[to] \in Shot /\ picture[to] \in Shot
  <2>1. picture[to] \in Shot /\ clients[l] \in Slotted /\ leader_id[l] \in Seat
    BY <1>1 DEF Watching, Placed
  <2>2. CASE k.what = "join"
    BY <1>0, <2>1, <2>2 DEF LobbyPicture, Shot
  <2>3. CASE k.what # "join"
    <3> DEFINE v == IF k.what = "add" THEN k.who ELSE Vacant
    <3>1. v \in Guest \cup {Vacant}
      BY <1>1
    <3>2. picture'[to] = With(picture[to], l, v, k.slot)
      BY <1>0, <2>3
    <3> HIDE DEF v
    <3> QED BY <1>1, <2>1, <3>1, <3>2 DEF With, Shot, Slotted
  <2> QED BY <2>1, <2>2, <2>3
<1>5. /\ picture'[to].leader = leader_id[l]
      /\ k.what = "join" => picture'[to].slots = clients[l]
      /\ k.what # "join" => \A s \in Seat : s # k.slot => picture'[to].slots[s] = picture[to].slots[s]
      /\ Right(k) => picture'[to].slots[k.slot] = clients[l][k.slot]
  <2>1. CASE k.what = "join"
    BY <1>0, <2>1 DEF LobbyPicture
  <2>2. CASE k.what # "join"
    <3> DEFINE v == IF k.what = "add" THEN k.who ELSE Vacant
    <3>1. picture'[to] = With(picture[to], l, v, k.slot)
      BY <1>0, <2>2
    <3>2. Right(k) => v = clients[l][k.slot]
      BY <1>1, <2>2 DEF Right
    <3>3. picture[to].slots \in Slotted
      BY <1>4 DEF Shot
    <3> HIDE DEF v
    <3>4. /\ picture'[to].leader = leader_id[l]
          /\ picture'[to].slots = [picture[to].slots EXCEPT ![k.slot] = v]
      BY <3>1 DEF With
    <3> QED BY <1>1, <2>2, <3>2, <3>3, <3>4 DEF Slotted
  <2> QED BY <2>1, <2>2
<1>6. /\ sending' \in [1 .. n -> RoundOf] /\ DOMAIN sending' = 1 .. n
      /\ \A j \in 1 .. n : /\ sending'[j].what = sending[j].what /\ sending'[j].room = sending[j].room
                           /\ sending'[j].who = sending[j].who /\ sending'[j].slot = sending[j].slot
                           /\ sending'[j].to \subseteq sending[j].to
                           /\ j # i => sending'[j].to = sending[j].to
                           /\ sending[j].to \ {to} \subseteq sending'[j].to
      /\ sending'[i].to = k.to \ {to}
  <2>1. i \in 1 .. n
    BY <1>3
  <2>2. [k EXCEPT !.to = k.to \ {to}] \in RoundOf
    BY <1>1 DEF RoundOf
  <2>3. sending' = [sending EXCEPT ![i] = [k EXCEPT !.to = k.to \ {to}]]
    BY <1>0
  <2>4. \A j \in 1 .. n : sending[j] \in RoundOf
    BY <1>3
  <2> HIDE DEF n
  <2>5. /\ sending' \in [1 .. n -> RoundOf] /\ sending'[i] = [k EXCEPT !.to = k.to \ {to}]
        /\ \A j \in 1 .. n : j # i => sending'[j] = sending[j]
    BY <1>3, <2>1, <2>2, <2>3
  <2>6. /\ sending'[i].what = sending[i].what /\ sending'[i].room = sending[i].room
        /\ sending'[i].who = sending[i].who /\ sending'[i].slot = sending[i].slot
        /\ sending'[i].to = k.to \ {to}
    BY <1>1, <2>5 DEF RoundOf
  <2> QED BY <2>1, <2>5, <2>6
<1>7. Placed'
  BY <1>2 DEF Placed, Room, SeatsOf
<1>8. Telling'
  <2>1. sending' \in Seq(RoundOf)
    BY <1>3, <1>6, PlacesMakeSeq
  <2>2. served' = Vacant => sending' = <<>>
    <3>1. served # Vacant
      BY <1>3, <1>0 DEF Telling
    <3> QED BY <1>2, <3>1
  <2>3. \A j \in DOMAIN sending' : \A c \in sending'[j].to : cur_lobby'[c] = sending'[j].room
    BY <1>2, <1>3, <1>6 DEF Telling
  <2>4. ASSUME NEW j \in 1 .. n
        PROVE  /\ Right(sending[j]) <=> (Right(sending[j]))'
               /\ \A s \in Seat : Covers(sending[j], s) <=> Covers(sending'[j], s)
    BY <1>2, <1>6 DEF Right, Covers
  <2>5. ASSUME NEW j \in 1 .. n, ~Right(sending[j]), NEW c \in sending'[j].to
        PROVE  \E m \in 1 .. n : /\ m > j /\ c \in sending'[m].to
                                 /\ Right(sending[m]) /\ Covers(sending[m], sending[j].slot)
    <3>1. c \in sending[j].to
      BY <1>6, <2>5
    <3>2. PICK m \in 1 .. n : /\ m > j /\ c \in sending[m].to
                              /\ Right(sending[m]) /\ Covers(sending[m], sending[j].slot)
      BY <1>3, <2>5, <3>1 DEF Telling
    <3>3. ~(j < i)
      BY <1>0, <1>3, <3>1
    <3>4. m # i
      BY <1>3, <3>2, <3>3
    <3> QED BY <1>6, <3>2, <3>4
  <2>6. \A j \in 1 .. n : sending[j].slot \in Seat /\ sending'[j].slot = sending[j].slot
    BY <1>3, <1>6 DEF RoundOf
  <2>7. ASSUME NEW j \in DOMAIN sending', ~(Right(sending[j]))', NEW c \in sending'[j].to
        PROVE  (\E m \in DOMAIN sending : /\ m > j /\ c \in sending[m].to
                                          /\ Right(sending[m]) /\ Covers(sending[m], sending[j].slot))'
    <3>1. j \in 1 .. n /\ ~Right(sending[j])
      BY <1>6, <2>4, <2>7
    <3>2. PICK m \in 1 .. n : /\ m > j /\ c \in sending'[m].to
                              /\ Right(sending[m]) /\ Covers(sending[m], sending[j].slot)
      BY <2>5, <2>7, <3>1
    <3> QED BY <1>6, <2>4, <2>6, <3>1, <3>2
  <2> QED BY <2>1, <2>2, <2>3, <2>7 DEF Telling
<1>9. Watching'
  BY <1>0, <1>2, <1>4 DEF Watching
<1>10. Truth'
  <2>1. ASSUME NEW c \in Guest, c # to, NEW s \in Seat
        PROVE  /\ Shows(c, s)' = Shows(c, s) /\ (Owed(c, s) => Owed(c, s)')
               /\ ShowsLeader(c)' = ShowsLeader(c) /\ (OwedAny(c) => OwedAny(c)')
    <3>1. picture'[c] = picture[c]
      BY <1>0, <2>1 DEF Watching
    <3>2. \A j \in DOMAIN sending : c \in sending[j].to => j \in DOMAIN sending' /\ c \in sending'[j].to
      BY <1>3, <1>6, <2>1
    <3>3. \A j \in DOMAIN sending : sending'[j].what = sending[j].what /\ sending'[j].slot = sending[j].slot
      BY <1>3, <1>6
    <3> QED BY <1>2, <3>1, <3>2, <3>3 DEF Shows, ShowsLeader, Owed, OwedAny, Covers
  <2>2. ASSUME NEW s \in Seat PROVE Shows(to, s)' = clients[l][s] \/ Owed(to, s)'
    <3>0. Shows(to, s)' = picture'[to].slots[s]
      BY <1>0, <1>2 DEF Shows
    <3>1. CASE k.what = "join"
      BY <1>5, <3>0, <3>1
    <3>2. CASE k.what # "join" /\ s = k.slot
      <4>1. CASE Right(k)
        BY <1>5, <3>0, <3>2, <4>1
      <4>2. CASE ~Right(k)
        <5>1. PICK j \in DOMAIN sending : /\ j > i /\ to \in sending[j].to /\ Covers(sending[j], k.slot)
          BY <1>0, <4>2 DEF Telling
        <5>2. j # i /\ j \in 1 .. n
          BY <1>3, <5>1
        <5> QED BY <1>6, <3>2, <5>1, <5>2 DEF Owed, Covers
      <4> QED BY <4>1, <4>2
    <3>3. CASE k.what # "join" /\ s # k.slot
      <4>1. Shows(to, s)' = picture[to].slots[s] /\ Shows(to, s) = picture[to].slots[s]
        BY <1>0, <1>5, <3>0, <3>3 DEF Shows
      <4>2. Shows(to, s) = clients[l][s] \/ Owed(to, s)
        <5>1. cur_lobby[to] = l /\ cur_lobby[to] # Nowhere
          BY <1>0, <1>1, ViewsAssumption
        <5> QED BY <5>1 DEF Truth
      <4>3. ASSUME Owed(to, s) PROVE Owed(to, s)'
        <5>1. PICK j \in DOMAIN sending : to \in sending[j].to /\ Covers(sending[j], s)
          BY <4>3 DEF Owed
        <5>2. j # i /\ j \in 1 .. n
          BY <1>3, <3>3, <5>1 DEF Covers
        <5> QED BY <1>6, <5>1, <5>2 DEF Owed, Covers
      <4> QED BY <4>1, <4>2, <4>3
    <3> QED BY <3>1, <3>2, <3>3
  <2>3. ShowsLeader(to)' = leader_id[l]
    BY <1>0, <1>2, <1>5 DEF ShowsLeader
  <2>4. ASSUME NEW c \in Guest, cur_lobby'[c] # Nowhere
        PROVE  /\ \A s \in Seat : Shows(c, s)' = clients'[cur_lobby'[c]][s] \/ Owed(c, s)'
               /\ ShowsLeader(c)' = leader_id'[cur_lobby'[c]] \/ OwedAny(c)'
    <3>1. CASE c = to
      BY <1>0, <1>2, <2>2, <2>3, <3>1
    <3>2. CASE c # to
      <4>1. /\ \A s \in Seat : Shows(c, s) = clients[cur_lobby[c]][s] \/ Owed(c, s)
            /\ ShowsLeader(c) = leader_id[cur_lobby[c]] \/ OwedAny(c)
        BY <1>2, <2>4 DEF Truth
      <4>2. 0 \in Seat
        BY ViewsAssumption
      <4> QED BY <1>2, <2>1, <3>2, <4>1, <4>2
    <3> QED BY <3>1, <3>2
  <2> QED BY <2>4 DEF Truth
<1> QED BY <1>7, <1>8, <1>9, <1>10

-----------------------------------------------------------------------------
(* Moves.                                                                  *)

\* Whoever is in a lobby is among its members, and nobody else is.
LEMMA EverybodyIsThere ==
    ASSUME Placed, NEW l \in Room
    PROVE  Everybody(l) = {d \in Guest : cur_lobby[d] = l}
<1>1. clients[l] \in Slotted
  BY DEF Placed
<1>2. ASSUME NEW d \in Everybody(l) PROVE d \in Guest /\ cur_lobby[d] = l
  BY <1>1, <1>2 DEF Everybody, Members, Placed, Slotted
<1>3. ASSUME NEW d \in Guest, cur_lobby[d] = l PROVE d \in Everybody(l)
  <2>1. \E s \in Seat : clients[l][s] = d
    BY <1>3, ViewsAssumption DEF Placed
  <2> QED BY <2>1, ViewsAssumption DEF Everybody, Members
<1> QED BY <1>2, <1>3

\* The slot of a client is the one slot that holds it.
LEMMA SeatHolds ==
    ASSUME Placed, NEW c \in Guest, cur_lobby[c] # Nowhere
    PROVE  /\ SeatOf(c) \in Seat /\ cur_lobby[c] \in Room
           /\ \A r \in Room : \A t \in Seat : clients[r][t] = c <=> r = cur_lobby[c] /\ t = SeatOf(c)
<1>1. \E s \in Seat : clients[cur_lobby[c]][s] = c
  BY DEF Placed
<1>2. SeatOf(c) \in Seat /\ clients[cur_lobby[c]][SeatOf(c)] = c
  BY <1>1 DEF SeatOf
<1> DEFINE old == SeatOf(c)
<1> HIDE DEF old
<1>3. old \in Seat /\ clients[cur_lobby[c]][old] = c /\ cur_lobby[c] \in Room
  BY <1>2 DEF old, Placed
<1>4. ASSUME NEW r \in Room, NEW t \in Seat, clients[r][t] = c PROVE r = cur_lobby[c] /\ t = old
  BY <1>3, <1>4, ViewsAssumption DEF Placed
<1> QED BY <1>3, <1>4 DEF old

\* The slot a newcomer gets is one of the lobby's, and was vacant.
LEMMA SlotIsVacant ==
    ASSUME NEW l \in Room, RoomFor(l)
    PROVE  SlotFor(l) \in SeatsOf(l) /\ SlotFor(l) \in Seat /\ clients[l][SlotFor(l)] = Vacant
<1> DEFINE vacant == {s \in SeatsOf(l) : clients[l][s] = Vacant}
<1>1. SeatsOf(l) \subseteq Seat
  BY DEF SeatsOf
<1>2. CASE l \in OneFirst /\ clients[l][1] = Vacant
  <2>1. 1 \in SeatsOf(l)
    BY ViewsAssumption DEF SeatsOf
  <2> QED BY <1>1, <1>2, <2>1 DEF SlotFor
<1>3. CASE ~(l \in OneFirst /\ clients[l][1] = Vacant)
  <2>1. vacant \in SUBSET Nat /\ vacant # {}
    BY <1>1, ViewsAssumption DEF RoomFor
  <2>2. Min(vacant) \in vacant
    <3> HIDE DEF vacant
    <3> QED BY <2>1, MinOfNat
  <2> QED BY <1>1, <1>3, <2>2 DEF SlotFor
<1> QED BY <1>2, <1>3

\* A client goes from its lobby (if it is in one) to slot s of m (if it goes to one).
Goes(c, m, s) ==
    /\ served = Vacant /\ served' \in Guest /\ reading.to # c /\ cur_lobby[c] # m
    /\ m # Nowhere => s \in SeatsOf(m) /\ clients[m][s] = Vacant
    /\ cur_lobby' = [cur_lobby EXCEPT ![c] = m]
    /\ clients' \in [Room -> Slotted] /\ leader_id' \in [Room -> Seat]
    /\ \A r \in Room : \A t \in Seat :
          clients'[r][t] = IF r = m /\ t = s THEN c ELSE IF clients[r][t] = c THEN Vacant ELSE clients[r][t]
    /\ \A r \in Room : r # cur_lobby[c] /\ r # m => leader_id'[r] = leader_id[r]
    /\ picture' \in [Guest -> Shot] /\ \A d \in Guest : d # c => picture'[d] = picture[d]
    /\ asked' = asked /\ reading' = reading

\* All who are there, here or there, are to be told of the slot that is theirs to hear of,
\* and the client is to be shown where it has come.
IsTold(d, s) == \E i \in DOMAIN sending : d \in sending[i].to /\ sending[i].slot = s
IsShown(d) == \E i \in DOMAIN sending : d \in sending[i].to /\ sending[i].what = "join"
Tells(c, old, m, s) ==
    /\ sending' \in Seq(RoundOf) /\ \A i \in DOMAIN sending' : (Right(sending[i]))'
    /\ \A i \in DOMAIN sending' : \A d \in sending'[i].to : cur_lobby'[d] = sending'[i].room
    /\ \A d \in Guest : d # c /\ cur_lobby[d] # Nowhere /\ cur_lobby[d] = cur_lobby[c] => IsTold(d, old)'
    /\ \A d \in Guest : d # c /\ cur_lobby[d] # Nowhere /\ cur_lobby[d] = m => IsTold(d, s)'
    /\ m # Nowhere => IsShown(c)'

LEMMA MoveKeeps ==
    ASSUME ViewsInv, NEW c \in Guest, NEW m \in Room \cup {Nowhere}, NEW s \in Seat,
           NEW old, cur_lobby[c] # Nowhere => old = SeatOf(c), Goes(c, m, s), Tells(c, old, m, s)
    PROVE  ViewsInv'
<1> USE DEF ViewsInv, Goes, Tells, IsTold, IsShown
<1>0. Vacant \notin Guest /\ Nowhere \notin Room
  BY ViewsAssumption
<1>1. Placed'
  <2>1. cur_lobby' \in [Guest -> Room \cup {Nowhere}]
    BY DEF Placed
  <2>2. ASSUME NEW r \in Room, NEW t \in Seat, clients'[r][t] # Vacant PROVE cur_lobby'[clients'[r][t]] = r
    <3>1. CASE r = m /\ t = s
      BY <3>1 DEF Placed
    <3>2. CASE ~(r = m /\ t = s)
      <4>1. clients'[r][t] = clients[r][t] /\ clients[r][t] # c /\ clients[r][t] \in Guest
        BY <2>2, <3>2 DEF Placed, Slotted
      <4> QED BY <2>2, <4>1 DEF Placed
    <3> QED BY <3>1, <3>2
  <2>3. ASSUME NEW r \in Room, NEW t \in Seat, NEW u \in Seat,
               clients'[r][t] = clients'[r][u], clients'[r][t] # Vacant
        PROVE  t = u
    <3>1. \A v \in {t, u} : \/ r = m /\ v = s /\ clients'[r][v] = c
                            \/ clients'[r][v] = clients[r][v] /\ clients[r][v] # c
                            \/ clients'[r][v] = Vacant
      BY <2>3
    <3>2. CASE clients'[r][t] = c
      <4>1. clients'[r][u] = c /\ c # Vacant
        BY <1>0, <2>3, <3>2
      <4>2. t = s
        BY <3>1, <3>2, <4>1
      <4>3. u = s
        BY <3>1, <4>1
      <4> QED BY <4>2, <4>3
    <3>3. CASE clients'[r][t] # c
      <4>1. clients'[r][t] = clients[r][t] /\ clients'[r][u] = clients[r][u]
        BY <2>3, <3>1, <3>3
      <4>2. clients[r][t] = clients[r][u] /\ clients[r][t] # Vacant
        BY <2>3, <4>1
      <4>3. \A v, w \in Seat : clients[r][v] = clients[r][w] /\ clients[r][v] # Vacant => v = w
        BY DEF Placed
      <4> QED BY <2>3, <4>2, <4>3
    <3> QED BY <3>2, <3>3
  <2>4. ASSUME NEW d \in Guest, cur_lobby'[d] # Nowhere
        PROVE  \E t \in Seat : clients'[cur_lobby'[d]][t] = d
    <3>1. CASE d = c
      <4>1. cur_lobby'[c] = m /\ m \in Room
        BY <2>4, <3>1 DEF Placed
      <4> QED BY <3>1, <4>1
    <3>2. CASE d # c
      <4>1. cur_lobby'[d] = cur_lobby[d] /\ cur_lobby[d] \in Room
        BY <2>4, <3>2 DEF Placed
      <4>2. PICK t \in Seat : clients[cur_lobby[d]][t] = d
        BY <2>4, <4>1 DEF Placed
      <4>3. ~(cur_lobby[d] = m /\ t = s)
        BY <1>0, <4>1, <4>2
      <4> QED BY <3>2, <4>1, <4>2, <4>3
    <3> QED BY <3>1, <3>2
  <2>5. ASSUME NEW r \in Party, NEW t \in Seat, t \notin SeatsOf(r) PROVE clients'[r][t] = Vacant
    <3>1. r \in Room /\ clients[r][t] = Vacant
      BY <2>5 DEF Placed, Room
    <3>2. ~(r = m /\ t = s)
      BY <1>0, <2>5, <3>1
    <3> QED BY <3>1, <3>2
  <2> QED BY <2>1, <2>2, <2>3, <2>4, <2>5 DEF Placed, SeatsOf
<1>2. Telling'
  BY <1>0 DEF Telling
<1>3. Watching'
  <2>1. reading # NotReading => cur_lobby'[reading.to] = cur_lobby[reading.to] /\ reading \in ReadingOf
    BY DEF Watching, ReadingOf, Placed
  <2> QED BY <2>1 DEF Watching
<1>4. Truth'
  <2>0. sending = <<>> /\ DOMAIN sending = {}
    BY EmptySeq DEF Telling
  <2>1. ASSUME NEW d \in Guest, d # c, cur_lobby'[d] # Nowhere
        PROVE  /\ \A t \in Seat : Shows(d, t)' = clients'[cur_lobby'[d]][t] \/ Owed(d, t)'
               /\ ShowsLeader(d)' = leader_id'[cur_lobby'[d]] \/ OwedAny(d)'
    <3> DEFINE r == cur_lobby[d]
    <3>1. cur_lobby'[d] = r /\ r \in Room /\ r # Nowhere
      BY <1>0, <2>1 DEF Placed
    <3>2. /\ \A t \in Seat : Shows(d, t) = clients[r][t]
          /\ ShowsLeader(d) = leader_id[r]
      BY <2>0, <3>1, ViewsAssumption DEF Truth, Owed, OwedAny
    <3>3. picture'[d] = picture[d]
      BY <2>1
    <3>4. ASSUME NEW t \in Seat PROVE Shows(d, t)' = clients'[r][t] \/ Owed(d, t)'
      <4>1. Shows(d, t)' = clients'[r][t] \/ Shows(d, t)' = Shows(d, t)
        BY <3>1, <3>3 DEF Shows
      <4>2. CASE r = m /\ t = s
        BY <2>1, <3>1, <4>2 DEF Owed, Covers
      <4>3. CASE clients[r][t] = c
        <5>1. r = cur_lobby[c] /\ t = old
          <6>1. cur_lobby[c] = r
            BY <1>0, <3>1, <4>3 DEF Placed
          <6> QED BY <3>1, <4>3, <6>1, SeatHolds
        <5> QED BY <2>1, <3>1, <5>1 DEF Owed, Covers
      <4>4. CASE ~(r = m /\ t = s) /\ clients[r][t] # c
        BY <3>1, <3>2, <4>1, <4>4
      <4> QED BY <4>2, <4>3, <4>4
    <3>5. ShowsLeader(d)' = leader_id'[r] \/ OwedAny(d)'
      <4>1. ShowsLeader(d)' = ShowsLeader(d)
        BY <3>3 DEF ShowsLeader
      <4>2. CASE r = m \/ r = cur_lobby[c]
        BY <2>1, <3>1, <4>2 DEF OwedAny
      <4>3. CASE ~(r = m \/ r = cur_lobby[c])
        BY <3>1, <3>2, <4>1, <4>3
      <4> QED BY <4>2, <4>3
    <3> QED BY <3>1, <3>4, <3>5
  <2>2. ASSUME cur_lobby'[c] # Nowhere
        PROVE  (\A t \in Seat : Owed(c, t)') /\ OwedAny(c)'
    <3>1. m # Nowhere
      BY <2>2 DEF Placed
    <3> QED BY <3>1 DEF Owed, OwedAny, Covers
  <2> QED BY <2>1, <2>2 DEF Truth
<1> QED BY <1>1, <1>2, <1>3, <1>4

\* One, two or three rounds.
LEMMA RoundsAre ==
    ASSUME NEW a \in RoundOf, NEW b \in RoundOf, NEW d \in RoundOf
    PROVE  /\ <<a>> \in Seq(RoundOf) /\ DOMAIN <<a>> = {1} /\ <<a>>[1] = a
           /\ <<a, b>> \in Seq(RoundOf) /\ DOMAIN <<a, b>> = {1, 2} /\ <<a, b>>[1] = a /\ <<a, b>>[2] = b
           /\ <<a, b, d>> \in Seq(RoundOf) /\ DOMAIN <<a, b, d>> = {1, 2, 3}
           /\ <<a, b, d>>[1] = a /\ <<a, b, d>>[2] = b /\ <<a, b, d>>[3] = d
  OBVIOUS

\* Whoever comes to lead is in one of the slots, or slot 0 leads.
LEMMA LeadersSit ==
    ASSUME Placed, NEW l \in Room, NEW s \in Seat
    PROVE  LeaderWith(l, s) \in Seat /\ LeadersWithout(l, s) \subseteq Seat
  BY ViewsAssumption DEF Placed, LeaderWith, LeadersWithout, Members

\* A client that enters.
LEMMA EnterKeeps == ASSUME ViewsInv, NEW c \in Guest, NEW l \in Room, EnterAny(c, l) PROVE ViewsInv'
<1>0. Placed /\ Telling /\ Watching /\ Vacant \notin Guest /\ Nowhere \notin Room
  BY ViewsAssumption DEF ViewsInv
<1>1. PICK s \in Seat : s = SlotFor(l) /\ s \in SeatsOf(l) /\ clients[l][s] = Vacant
  BY SlotIsVacant DEF EnterAny
<1> DEFINE a == Round({c}, "join", l, c, s)
           b == Round(Everybody(l), "add", l, c, s)
<1>2. Everybody(l) = {d \in Guest : cur_lobby[d] = l}
  BY <1>0, EverybodyIsThere
<1>3. /\ a \in RoundOf /\ a.to = {c} /\ a.what = "join" /\ a.room = l /\ a.who = c /\ a.slot = s
      /\ b \in RoundOf /\ b.to = {d \in Guest : cur_lobby[d] = l}
      /\ b.what = "add" /\ b.room = l /\ b.who = c /\ b.slot = s
  <2>1. {c} \in SUBSET Guest /\ Everybody(l) \in SUBSET Guest
    BY <1>2
  <2> QED BY <1>1, <1>2, <2>1 DEF Round, RoundOf
<1>4. /\ served = Vacant /\ reading.to # c /\ served' = c /\ cur_lobby[c] = Nowhere
      /\ clients' = [clients EXCEPT ![l][s] = c] /\ leader_id' = [leader_id EXCEPT ![l] = LeaderWith(l, s)]
      /\ sending' = <<a, b>> /\ cur_lobby' = [cur_lobby EXCEPT ![c] = l]
      /\ asked' = asked /\ reading' = reading /\ picture' = picture
  BY <1>1 DEF EnterAny, Serve, ThreadIdle, Free
<1> HIDE DEF a, b
<1>5. sending' \in Seq(RoundOf) /\ DOMAIN sending' = {1, 2} /\ sending'[1] = a /\ sending'[2] = b
  BY <1>3, <1>4, RoundsAre
<1>6. \A r \in Room : \A t \in Seat :
         clients'[r][t] = IF r = l /\ t = s THEN c ELSE IF clients[r][t] = c THEN Vacant ELSE clients[r][t]
  <2>1. \A r \in Room : \A t \in Seat : clients[r][t] # c
    BY <1>0, <1>4 DEF Placed
  <2>2. \A r \in Room : \A t \in Seat : clients'[r][t] = IF r = l /\ t = s THEN c ELSE clients[r][t]
    BY <1>0, <1>1, <1>4 DEF Placed, Slotted
  <2> QED BY <2>1, <2>2
<1>7. clients' \in [Room -> Slotted] /\ leader_id' \in [Room -> Seat]
  <2>1. LeaderWith(l, s) \in Seat
    BY <1>0, <1>1, LeadersSit
  <2> QED BY <1>0, <1>1, <1>4, <2>1 DEF Placed, Slotted
<1>8. \A i \in DOMAIN sending' : (Right(sending[i]))'
  <2>1. clients'[l][s] = c
    BY <1>1, <1>6
  <2> QED BY <1>3, <1>5, <2>1 DEF Right
<1>9. \A i \in DOMAIN sending' : \A d \in sending'[i].to : cur_lobby'[d] = sending'[i].room
  <2>1. \A d \in Guest : d = c \/ cur_lobby[d] = l => cur_lobby'[d] = l
    BY <1>0, <1>4 DEF Placed
  <2>2. \A d \in a.to : cur_lobby'[d] = l
    BY <1>3, <2>1
  <2>3. \A d \in b.to : cur_lobby'[d] = l
    BY <1>3, <2>1
  <2> QED BY <1>3, <1>5, <2>2, <2>3
<1>10. \A r \in Room : r # l => leader_id'[r] = leader_id[r]
  BY <1>0, <1>4 DEF Placed
<1>11. \A d \in Guest : cur_lobby[d] = l => IsTold(d, s)'
  <2>1. \A d \in Guest : cur_lobby[d] = l => d \in sending'[2].to
    BY <1>3, <1>5
  <2>2. 2 \in DOMAIN sending' /\ sending'[2].slot = s
    BY <1>3, <1>5
  <2> QED BY <2>1, <2>2 DEF IsTold
<1>12. IsShown(c)'
  <2>1. 1 \in DOMAIN sending' /\ c \in sending'[1].to /\ sending'[1].what = "join"
    BY <1>3, <1>5
  <2> QED BY <2>1 DEF IsShown
<1>13. Goes(c, l, s)
  <2>1. picture' \in [Guest -> Shot]
    BY <1>0, <1>4 DEF Watching
  <2>2. l # Nowhere
    BY <1>0
  <2> QED BY <1>1, <1>4, <1>6, <1>7, <1>10, <2>1, <2>2 DEF Goes
<1>14. Tells(c, s, l, s)
  BY <1>4, <1>5, <1>8, <1>9, <1>11, <1>12 DEF Tells
<1> QED BY <1>1, <1>4, <1>13, <1>14, MoveKeeps

\* A client that goes to another lobby or team.
LEMMA ChangeKeeps ==
    ASSUME ViewsInv, NEW c \in Guest, NEW m \in Room, cur_lobby[c] # m, ChangeLobby(c, m)
    PROVE  ViewsInv'
<1> DEFINE l == cur_lobby[c]
<1>0. Placed /\ Telling /\ Watching /\ Vacant \notin Guest /\ Nowhere \notin Room
  BY ViewsAssumption DEF ViewsInv
<1>1. PICK s \in Seat : s = SlotFor(m) /\ s \in SeatsOf(m) /\ clients[m][s] = Vacant
  BY SlotIsVacant DEF ChangeLobby
<1>2. PICK old \in Seat :
         /\ old = SeatOf(c) /\ l \in Room /\ l # Nowhere /\ l # m
         /\ \A r \in Room : \A t \in Seat : clients[r][t] = c <=> r = l /\ t = old
  BY <1>0, SeatHolds DEF ChangeLobby
<1> DEFINE a == Round(Everybody(l) \ {c}, "leave", l, c, old)
           b == Round({c}, "join", m, c, s)
           e == Round(Everybody(m), "add", m, c, s)
<1>3. PICK heir \in LeadersWithout(l, old) :
         leader_id' = [leader_id EXCEPT ![m] = LeaderWith(m, s), ![l] = heir]
  BY <1>1, <1>2 DEF ChangeLobby
<1>4. /\ served = Vacant /\ reading.to # c /\ served' = c
      /\ clients' = [clients EXCEPT ![m][s] = c, ![l][old] = Vacant]
      /\ sending' = <<a, b, e>> /\ cur_lobby' = [cur_lobby EXCEPT ![c] = m]
      /\ asked' = asked /\ reading' = reading /\ picture' = picture
  BY <1>1, <1>2 DEF ChangeLobby, Serve, ThreadIdle, Free
<1>5. Everybody(l) = {d \in Guest : cur_lobby[d] = l} /\ Everybody(m) = {d \in Guest : cur_lobby[d] = m}
  BY <1>0, <1>2, EverybodyIsThere
<1> HIDE DEF l
<1>6. /\ a \in RoundOf /\ a.to = {d \in Guest : cur_lobby[d] = l} \ {c}
      /\ a.what = "leave" /\ a.room = l /\ a.slot = old
      /\ b \in RoundOf /\ b.to = {c} /\ b.what = "join" /\ b.room = m /\ b.slot = s
      /\ e \in RoundOf /\ e.to = {d \in Guest : cur_lobby[d] = m}
      /\ e.what = "add" /\ e.room = m /\ e.who = c /\ e.slot = s
  <2>1. {c} \in SUBSET Guest /\ Everybody(m) \in SUBSET Guest
    BY <1>5
  <2> DEFINE stay == Everybody(l) \ {c}
  <2>2. stay \in SUBSET Guest /\ stay = {d \in Guest : cur_lobby[d] = l} \ {c}
    BY <1>5
  <2> HIDE DEF stay
  <2>3. LET k == Round(stay, "leave", l, c, old)
        IN  k \in RoundOf /\ k.to = stay /\ k.what = "leave" /\ k.room = l /\ k.slot = old
    <3> HIDE DEF a, b, e
    <3> QED BY <1>2, <2>2 DEF Round, RoundOf
  <2>4. b \in RoundOf /\ b.to = {c} /\ b.what = "join" /\ b.room = m /\ b.slot = s
    BY <1>1, <2>1 DEF Round, RoundOf
  <2>5. /\ e \in RoundOf /\ e.to = Everybody(m)
        /\ e.what = "add" /\ e.room = m /\ e.who = c /\ e.slot = s
    BY <1>1, <2>1 DEF Round, RoundOf
  <2>6. a = Round(stay, "leave", l, c, old)
    BY DEF stay
  <2> HIDE DEF a, b, e
  <2> QED BY <1>5, <2>2, <2>3, <2>4, <2>5, <2>6
<1> HIDE DEF a, b, e
<1>7. /\ sending' \in Seq(RoundOf) /\ DOMAIN sending' = {1, 2, 3}
      /\ sending'[1] = a /\ sending'[2] = b /\ sending'[3] = e
  BY <1>4, <1>6, RoundsAre
<1>8. \A r \in Room : \A t \in Seat :
         clients'[r][t] = IF r = m /\ t = s THEN c ELSE IF clients[r][t] = c THEN Vacant ELSE clients[r][t]
  <2>1. \A r \in Room : \A t \in Seat :
           clients'[r][t] = IF r = m /\ t = s THEN c ELSE IF r = l /\ t = old THEN Vacant ELSE clients[r][t]
    BY <1>0, <1>1, <1>2, <1>4 DEF Placed, Slotted
  <2> QED BY <1>2, <2>1
<1>9. clients' \in [Room -> Slotted]
  BY <1>0, <1>1, <1>2, <1>4 DEF Placed, Slotted
<1>10. leader_id' \in [Room -> Seat] /\ \A r \in Room : r # l /\ r # m => leader_id'[r] = leader_id[r]
  <2>1. LeaderWith(m, s) \in Seat /\ heir \in Seat
    BY <1>0, <1>1, <1>2, <1>3, LeadersSit
  <2> QED BY <1>0, <1>3, <2>1 DEF Placed
<1>11. \A i \in DOMAIN sending' : (Right(sending[i]))'
  <2>1. clients'[m][s] = c /\ clients'[l][old] = Vacant
    BY <1>1, <1>2, <1>8
  <2> QED BY <1>6, <1>7, <2>1 DEF Right
<1>12. \A i \in DOMAIN sending' : \A d \in sending'[i].to : cur_lobby'[d] = sending'[i].room
  <2>1. /\ \A d \in Guest : d = c \/ cur_lobby[d] = m => cur_lobby'[d] = m
        /\ \A d \in Guest : d # c /\ cur_lobby[d] = l => cur_lobby'[d] = l
    BY <1>0, <1>4 DEF Placed
  <2>2. \A d \in a.to : cur_lobby'[d] = l
    BY <1>6, <2>1
  <2>3. (\A d \in b.to : cur_lobby'[d] = m) /\ (\A d \in e.to : cur_lobby'[d] = m)
    BY <1>6, <2>1
  <2> QED BY <1>6, <1>7, <2>2, <2>3
<1>13. \A d \in Guest : d # c /\ cur_lobby[d] = l => IsTold(d, old)'
  <2>1. \A d \in Guest : d # c /\ cur_lobby[d] = l => d \in sending'[1].to
    BY <1>6, <1>7
  <2>2. 1 \in DOMAIN sending' /\ sending'[1].slot = old
    BY <1>6, <1>7
  <2> QED BY <2>1, <2>2 DEF IsTold
<1>14. \A d \in Guest : cur_lobby[d] = m => IsTold(d, s)'
  <2>1. \A d \in Guest : cur_lobby[d] = m => d \in sending'[3].to
    BY <1>6, <1>7
  <2>2. 3 \in DOMAIN sending' /\ sending'[3].slot = s
    BY <1>6, <1>7
  <2> QED BY <2>1, <2>2 DEF IsTold
<1>15. IsShown(c)'
  <2>1. 2 \in DOMAIN sending' /\ c \in sending'[2].to /\ sending'[2].what = "join"
    BY <1>6, <1>7
  <2> QED BY <2>1 DEF IsShown
<1>16. cur_lobby[c] = l /\ SeatOf(c) = old
  BY <1>2 DEF l
<1>17. Goes(c, m, s)
  <2>1. picture' \in [Guest -> Shot]
    BY <1>0, <1>4 DEF Watching
  <2> QED BY <1>1, <1>2, <1>4, <1>8, <1>9, <1>10, <1>16, <2>1 DEF Goes
<1>18. Tells(c, old, m, s)
  BY <1>7, <1>11, <1>12, <1>13, <1>14, <1>15, <1>16 DEF Tells
<1> QED BY <1>1, <1>16, <1>17, <1>18, MoveKeeps

\* A client that goes.
LEMMA RemoveKeeps == ASSUME ViewsInv, NEW c \in Guest, RemovePlayer(c) PROVE ViewsInv'
<1> DEFINE l == cur_lobby[c]
<1>0. Placed /\ Telling /\ Watching /\ Vacant \notin Guest /\ Nowhere \notin Room
  BY ViewsAssumption DEF ViewsInv
<1>1. PICK old \in Seat :
         /\ old = SeatOf(c) /\ l \in Room /\ l # Nowhere
         /\ \A r \in Room : \A t \in Seat : clients[r][t] = c <=> r = l /\ t = old
  BY <1>0, SeatHolds DEF RemovePlayer
<1> DEFINE a == Round(Everybody(l) \ {c}, "leave", l, c, old)
<1>2. PICK heir \in LeadersWithout(l, old) : leader_id' = [leader_id EXCEPT ![l] = heir]
  BY <1>1 DEF RemovePlayer
<1>3. /\ served = Vacant /\ reading.to # c /\ served' = c
      /\ clients' = [clients EXCEPT ![l][old] = Vacant]
      /\ sending' = <<a>> /\ cur_lobby' = [cur_lobby EXCEPT ![c] = Nowhere]
      /\ asked' = asked /\ reading' = reading /\ picture' = [picture EXCEPT ![c] = Unseen]
  BY <1>1 DEF RemovePlayer, Serve, ThreadIdle, Free
<1>4. Everybody(l) = {d \in Guest : cur_lobby[d] = l}
  BY <1>0, <1>1, EverybodyIsThere
<1> HIDE DEF l
<1>5. /\ a \in RoundOf /\ a.to = {d \in Guest : cur_lobby[d] = l} \ {c}
      /\ a.what = "leave" /\ a.room = l /\ a.slot = old
  <2> DEFINE stay == Everybody(l) \ {c}
  <2>1. stay \in SUBSET Guest /\ stay = {d \in Guest : cur_lobby[d] = l} \ {c}
    BY <1>4
  <2> HIDE DEF stay
  <2>2. LET k == Round(stay, "leave", l, c, old)
        IN  k \in RoundOf /\ k.to = stay /\ k.what = "leave" /\ k.room = l /\ k.slot = old
    BY <1>1, <2>1 DEF Round, RoundOf
  <2>3. a = Round(stay, "leave", l, c, old)
    BY DEF stay
  <2> HIDE DEF a
  <2> QED BY <2>1, <2>2, <2>3
<1> HIDE DEF a
<1>6. sending' \in Seq(RoundOf) /\ DOMAIN sending' = {1} /\ sending'[1] = a
  BY <1>3, <1>5, RoundsAre
<1>7. \A r \in Room : \A t \in Seat :
         clients'[r][t] = IF r = Nowhere /\ t = old THEN c
                          ELSE IF clients[r][t] = c THEN Vacant ELSE clients[r][t]
  <2>1. \A r \in Room : \A t \in Seat : clients'[r][t] = IF r = l /\ t = old THEN Vacant ELSE clients[r][t]
    BY <1>0, <1>1, <1>3 DEF Placed, Slotted
  <2> QED BY <1>0, <1>1, <2>1
<1>8. clients' \in [Room -> Slotted] /\ leader_id' \in [Room -> Seat]
  <2>1. heir \in Seat
    BY <1>0, <1>1, <1>2, LeadersSit
  <2> QED BY <1>0, <1>1, <1>2, <1>3, <2>1 DEF Placed, Slotted
<1>9. \A r \in Room : r # l => leader_id'[r] = leader_id[r]
  BY <1>0, <1>2 DEF Placed
<1>10. \A i \in DOMAIN sending' : (Right(sending[i]))'
  <2>1. clients'[l][old] = Vacant
    BY <1>0, <1>1, <1>7
  <2> QED BY <1>5, <1>6, <2>1 DEF Right
<1>11. \A i \in DOMAIN sending' : \A d \in sending'[i].to : cur_lobby'[d] = sending'[i].room
  BY <1>0, <1>3, <1>5, <1>6 DEF Placed
<1>12. \A d \in Guest : d # c /\ cur_lobby[d] = l => IsTold(d, old)'
  <2>1. \A d \in Guest : d # c /\ cur_lobby[d] = l => d \in sending'[1].to
    BY <1>5, <1>6
  <2>2. 1 \in DOMAIN sending' /\ sending'[1].slot = old
    BY <1>5, <1>6
  <2> QED BY <2>1, <2>2 DEF IsTold
<1>13. picture' \in [Guest -> Shot] /\ \A d \in Guest : d # c => picture'[d] = picture[d]
  <2>1. Unseen \in Shot
    BY ViewsAssumption DEF Unseen, Shot, Slotted
  <2> QED BY <1>0, <1>3, <2>1 DEF Watching
<1>14. cur_lobby[c] = l /\ SeatOf(c) = old
  BY <1>1 DEF l
<1>15. Goes(c, Nowhere, old)
  BY <1>1, <1>3, <1>7, <1>8, <1>9, <1>13, <1>14 DEF Goes
<1>16. Tells(c, old, Nowhere, old)
  BY <1>6, <1>10, <1>11, <1>12, <1>14 DEF Tells
<1> QED BY <1>1, <1>14, <1>15, <1>16, MoveKeeps

-----------------------------------------------------------------------------
(* Steps that move nobody.                                                 *)

\* A lobby is shown once more: whatever was shown rightly still is.
LEMMA AgainKeeps ==
    ASSUME ViewsInv, served = Vacant, UNCHANGED <<places, asked, reading, picture>>,
           served' \in Guest, Telling'
    PROVE  ViewsInv'
<1> USE DEF ViewsInv, places
<1>1. Placed'
  BY DEF Placed, SeatsOf
<1>2. Watching'
  BY DEF Watching
<1>3. Truth'
  <2>1. DOMAIN sending = {}
    BY EmptySeq DEF Telling
  <2> QED BY <2>1 DEF Truth, Shows, ShowsLeader, Owed, OwedAny
<1> QED BY <1>1, <1>2, <1>3

\* The same lobby again: who hears that the client has left then hears that it is there.
LEMMA SameKeeps ==
    ASSUME ViewsInv, NEW c \in Guest, NEW m \in Room, cur_lobby[c] = m, ChangeLobby(c, m)
    PROVE  ViewsInv'
<1> DEFINE old == SeatOf(c)
           a == Round(Everybody(m), "leave", m, c, old)
           b == Round({c}, "join", m, c, old)
           e == Round(Everybody(m) \ {c}, "add", m, c, old)
<1>0. Placed /\ Telling /\ Watching /\ Vacant \notin Guest /\ Nowhere \notin Room
  BY ViewsAssumption DEF ViewsInv
<1>1. old \in Seat /\ clients[m][old] = c
  BY <1>0, SeatHolds
<1>2. /\ served = Vacant /\ served' = c /\ sending' = <<a, b, e>>
      /\ UNCHANGED <<places, asked, reading, picture>>
  BY DEF ChangeLobby, Serve, ThreadIdle
<1>3. Everybody(m) = {d \in Guest : cur_lobby[d] = m}
  BY <1>0, EverybodyIsThere
<1> HIDE DEF old
<1>4. /\ a \in RoundOf /\ a.to = {d \in Guest : cur_lobby[d] = m} /\ a.room = m /\ a.slot = old
      /\ b \in RoundOf /\ b.to = {c} /\ b.what = "join" /\ b.room = m
      /\ e \in RoundOf /\ e.to = {d \in Guest : cur_lobby[d] = m} \ {c}
      /\ e.what = "add" /\ e.room = m /\ e.who = c /\ e.slot = old
  <2>1. {c} \in SUBSET Guest /\ Everybody(m) \in SUBSET Guest
    BY <1>3
  <2> DEFINE rest == Everybody(m) \ {c}
  <2>2. rest \in SUBSET Guest /\ rest = {d \in Guest : cur_lobby[d] = m} \ {c}
    BY <1>3
  <2> HIDE DEF rest
  <2>3. a \in RoundOf /\ a.to = Everybody(m) /\ a.room = m /\ a.slot = old
    BY <1>1, <2>1 DEF Round, RoundOf
  <2>4. b \in RoundOf /\ b.to = {c} /\ b.what = "join" /\ b.room = m
    BY <1>1, <2>1 DEF Round, RoundOf
  <2>5. LET k == Round(rest, "add", m, c, old)
        IN  k \in RoundOf /\ k.to = rest /\ k.what = "add" /\ k.room = m /\ k.who = c /\ k.slot = old
    BY <1>1, <2>2 DEF Round, RoundOf
  <2>6. e = Round(rest, "add", m, c, old)
    BY DEF rest
  <2> HIDE DEF a, b, e
  <2> QED BY <1>3, <2>2, <2>3, <2>4, <2>5, <2>6
<1> HIDE DEF a, b, e
<1>5. /\ sending' \in Seq(RoundOf) /\ DOMAIN sending' = {1, 2, 3}
      /\ sending'[1] = a /\ sending'[2] = b /\ sending'[3] = e
  BY <1>2, <1>4, RoundsAre
<1>6. clients' = clients /\ cur_lobby' = cur_lobby
  BY <1>2 DEF places
<1>7. (Right(sending[2]))' /\ (Right(sending[3]))'
  BY <1>1, <1>4, <1>5, <1>6 DEF Right
<1>8. \A i \in DOMAIN sending' : \A d \in sending'[i].to : cur_lobby'[d] = sending'[i].room
  BY <1>4, <1>5, <1>6
<1>9. ASSUME NEW i \in DOMAIN sending', ~(Right(sending[i]))', NEW d \in sending'[i].to
      PROVE  (\E j \in DOMAIN sending : /\ j > i /\ d \in sending[j].to
                                        /\ Right(sending[j]) /\ Covers(sending[j], sending[i].slot))'
  <2>1. i = 1 /\ d \in a.to /\ a.slot = old
    BY <1>4, <1>5, <1>7, <1>9
  <2>2. CASE d = c
    <3>1. 2 \in DOMAIN sending' /\ 2 > i /\ d \in sending'[2].to /\ Covers(sending'[2], sending'[i].slot)
      BY <1>4, <1>5, <2>1, <2>2 DEF Covers
    <3> QED BY <1>7, <3>1
  <2>3. CASE d # c
    <3>1. 3 \in DOMAIN sending' /\ 3 > i /\ d \in sending'[3].to /\ Covers(sending'[3], sending'[i].slot)
      BY <1>4, <1>5, <2>1, <2>3 DEF Covers
    <3> QED BY <1>7, <3>1
  <2> QED BY <2>2, <2>3
<1>10. Telling'
  BY <1>0, <1>2, <1>5, <1>8, <1>9 DEF Telling
<1> QED BY <1>2, <1>10, AgainKeeps

\* A client with a new level.
LEMMA ShowAgainKeeps == ASSUME ViewsInv, NEW c \in Guest, ShowAgain(c) PROVE ViewsInv'
<1> DEFINE l == cur_lobby[c]
           a == Round({c}, "join", l, c, SeatOf(c))
<1>0. Placed /\ Telling /\ Watching /\ Vacant \notin Guest /\ Nowhere \notin Room
  BY ViewsAssumption DEF ViewsInv
<1>1. /\ served = Vacant /\ served' = c /\ sending' = <<a>> /\ l \in Room
      /\ UNCHANGED <<places, asked, reading, picture>>
  BY DEF ShowAgain, Serve, ThreadIdle, Room
<1>2. SeatOf(c) \in Seat
  BY <1>0, <1>1, SeatHolds
<1>3. a \in RoundOf /\ a.to = {c} /\ a.what = "join" /\ a.room = l
  <2>1. {c} \in SUBSET Guest
    OBVIOUS
  <2> QED BY <1>1, <1>2, <2>1 DEF Round, RoundOf
<1> HIDE DEF a
<1>4. sending' \in Seq(RoundOf) /\ DOMAIN sending' = {1} /\ sending'[1] = a
  BY <1>1, <1>3, RoundsAre
<1>5. Telling'
  <2>1. (Right(sending[1]))'
    BY <1>3, <1>4 DEF Right
  <2>2. cur_lobby' = cur_lobby
    BY <1>1 DEF places
  <2> QED BY <1>0, <1>1, <1>3, <1>4, <2>1, <2>2 DEF Telling
<1> QED BY <1>1, <1>5, AgainKeeps

\* All has been sent.
LEMMA ServedKeeps == ASSUME ViewsInv, Served PROVE ViewsInv'
<1> USE DEF ViewsInv
<1>1. /\ UNCHANGED <<places, asked, reading, picture>> /\ served' = Vacant /\ sending' = <<>>
      /\ \A i \in DOMAIN sending : sending[i].to = {}
  BY DEF Served, Left
<1>2. Placed' /\ Watching'
  BY <1>1 DEF Placed, SeatsOf, Watching, places
<1>3. Telling'
  <2>1. <<>> \in Seq(RoundOf) /\ DOMAIN <<>> = {}
    BY EmptySeq
  <2> QED BY <1>1, <2>1 DEF Telling
<1>4. Truth'
  BY <1>1 DEF Truth, Shows, ShowsLeader, Owed, OwedAny, places
<1> QED BY <1>2, <1>3, <1>4

\* /restore: asked, read and shown.  What is read of the slots is how they are, and what
\* changes after that is owed to the client.
LEMMA RestoreKeeps ==
    ASSUME ViewsInv,
           ReadSlots \/ ShowRestored \/ \E c \in Guest : AskRestore(c) \/ Restore(c)
    PROVE  ViewsInv'
<1> USE DEF ViewsInv, places
<1>0. Vacant \notin Guest /\ Nowhere \notin Room
  BY ViewsAssumption
<1>1. UNCHANGED <<places, served, sending>>
  BY DEF ReadSlots, ShowRestored, AskRestore, Restore
<1>2. Placed' /\ Telling'
  BY <1>1 DEF Placed, SeatsOf, Telling, Right, Covers
<1>3. \A c \in Guest, s \in Seat : (Owed(c, s) <=> Owed(c, s)') /\ (OwedAny(c) <=> OwedAny(c)')
  BY <1>1 DEF Owed, OwedAny, Covers
<1>10. 0 \in Seat
  BY ViewsAssumption
<1>4. ASSUME NEW c \in Guest, AskRestore(c) PROVE Watching' /\ Truth'
  <2>1. reading' = reading /\ picture' = picture /\ asked' = asked \cup {c}
    BY <1>4 DEF AskRestore
  <2>2. Watching'
    BY <1>1, <2>1 DEF Watching
  <2>3. \A d \in Guest, s \in Seat : Shows(d, s)' = Shows(d, s) /\ ShowsLeader(d)' = ShowsLeader(d)
    BY <1>1, <2>1 DEF Shows, ShowsLeader
  <2>4. Truth'
    BY <1>1, <1>3, <1>10, <2>3 DEF Truth
  <2> QED BY <2>2, <2>4
<1>5. ASSUME NEW c \in Guest, Restore(c) PROVE Watching' /\ Truth'
  <2>1. reading = NotReading /\ asked' = asked \ {c} /\ picture' = picture
    BY <1>5 DEF Restore
  <2>2. CASE cur_lobby[c] = Nowhere
    <3>1. reading' = reading
      BY <1>5, <2>2 DEF Restore
    <3>2. Watching'
      BY <1>1, <2>1, <3>1 DEF Watching
    <3>3. \A d \in Guest, s \in Seat : Shows(d, s)' = Shows(d, s) /\ ShowsLeader(d)' = ShowsLeader(d)
      BY <1>1, <2>1, <3>1 DEF Shows, ShowsLeader
    <3>4. Truth'
      BY <1>1, <1>3, <1>10, <3>3 DEF Truth
    <3> QED BY <3>2, <3>4
  <2>3. CASE cur_lobby[c] # Nowhere
    <3> DEFINE l == cur_lobby[c]
    <3>1. reading' = [NotReading EXCEPT !.to = c, !.room = l, !.leader = leader_id[l]]
      BY <1>5, <2>1, <2>3 DEF Restore
    <3>2. l \in Room /\ leader_id[l] \in Seat /\ Unseen.slots \in Slotted
      BY <2>3 DEF Placed, Slotted, Unseen
    <3>3. reading' \in ReadingOf /\ reading'.to = c /\ reading'.room = l /\ reading'.leader = leader_id[l]
          /\ reading'.read = FALSE
      BY <3>1, <3>2 DEF NotReading, ReadingOf
    <3>4. Watching'
      BY <1>1, <2>1, <3>3 DEF Watching
    <3>5. reading.to = Vacant
      BY <2>1 DEF NotReading
    <3>6. \A d \in Guest, s \in Seat : d # c =>
             Shows(d, s)' = Shows(d, s) /\ ShowsLeader(d)' = ShowsLeader(d)
      BY <1>0, <2>1, <3>3, <3>5 DEF Shows, ShowsLeader
    <3>7. \A s \in Seat : Shows(c, s)' = clients[l][s] /\ ShowsLeader(c)' = leader_id[l]
      BY <1>1, <3>3 DEF Shows, ShowsLeader
    <3>8. Truth'
      <4>1. 0 \in Seat
        BY ViewsAssumption
      <4> QED BY <1>1, <1>3, <3>6, <3>7, <4>1 DEF Truth
    <3> QED BY <3>4, <3>8
  <2> QED BY <2>2, <2>3
<1>6. ASSUME ReadSlots PROVE Watching' /\ Truth'
  <2>1. /\ reading \in ReadingOf /\ cur_lobby[reading.to] = reading.room /\ ~reading.read
        /\ reading' = [reading EXCEPT !.slots = clients[reading.room], !.read = TRUE]
        /\ asked' = asked /\ picture' = picture
    BY <1>6 DEF ReadSlots, Watching
  <2>2. clients[reading.room] \in Slotted
    BY <2>1 DEF Placed, ReadingOf
  <2>3. /\ reading' \in ReadingOf /\ reading'.to = reading.to /\ reading'.room = reading.room
        /\ reading'.leader = reading.leader /\ reading'.read /\ reading'.slots = clients[reading.room]
    BY <2>1, <2>2 DEF ReadingOf
  <2>4. Watching'
    BY <1>1, <2>1, <2>3 DEF Watching
  <2>5. \A d \in Guest, s \in Seat : Shows(d, s)' = Shows(d, s) /\ ShowsLeader(d)' = ShowsLeader(d)
    BY <1>1, <2>1, <2>3 DEF Shows, ShowsLeader
  <2>6. Truth'
    BY <1>1, <1>3, <1>10, <2>5 DEF Truth
  <2> QED BY <2>4, <2>6
<1>7. ASSUME ShowRestored PROVE Watching' /\ Truth'
  <2> DEFINE c == reading.to
             shot == [slots |-> reading.slots, leader |-> reading.leader]
  <2>1. /\ reading.read /\ reading' = NotReading /\ asked' = asked
        /\ picture' = [picture EXCEPT ![c] = shot]
    BY <1>7 DEF ShowRestored
  <2>2. reading \in ReadingOf
    BY <2>1 DEF NotReading, Watching
  <2>3. c \in Guest /\ shot \in Shot /\ reading'.to = Vacant
    BY <2>1, <2>2 DEF ReadingOf, Shot, NotReading
  <2>4. /\ picture' \in [Guest -> Shot] /\ picture'[c] = shot
        /\ \A d \in Guest : d # c => picture'[d] = picture[d]
    BY <2>1, <2>3 DEF Watching
  <2>5. Watching'
    BY <1>1, <2>1, <2>4 DEF Watching
  <2>6. \A d \in Guest, s \in Seat : Shows(d, s)' = Shows(d, s) /\ ShowsLeader(d)' = ShowsLeader(d)
    BY <1>0, <2>1, <2>3, <2>4 DEF Shows, ShowsLeader
  <2>7. Truth'
    <3>1. 0 \in Seat
      BY ViewsAssumption
    <3> QED BY <1>1, <1>3, <2>6, <3>1 DEF Truth
  <2> QED BY <2>5, <2>7
<1> QED BY <1>2, <1>4, <1>5, <1>6, <1>7

\* A step that is no step.
LEMMA ViewsStutter == ASSUME ViewsInv, UNCHANGED viewVars PROVE ViewsInv'
  BY DEF ViewsInv, viewVars, Placed, SeatsOf, Telling, Right, Covers, Watching,
         Truth, Shows, ShowsLeader, Owed, OwedAny

\* The invariant is inductive.
LEMMA ViewsStep == ViewsInv /\ [ViewsNext]_viewVars => ViewsInv'
<1> SUFFICES ASSUME ViewsInv, [ViewsNext]_viewVars PROVE ViewsInv'
  OBVIOUS
<1>1. CASE SendNext
  BY <1>1, SendKeeps
<1>2. CASE Served
  BY <1>2, ServedKeeps
<1>3. CASE ReadSlots \/ ShowRestored \/ \E c \in Guest : AskRestore(c) \/ Restore(c)
  BY <1>3, RestoreKeeps
<1>4. ASSUME NEW c \in Guest, RemovePlayer(c) \/ ShowAgain(c) PROVE ViewsInv'
  BY <1>4, RemoveKeeps, ShowAgainKeeps
<1>5. ASSUME NEW c \in Guest, NEW l \in Room, EnterAny(c, l) \/ ChangeLobby(c, l) PROVE ViewsInv'
  BY <1>5, EnterKeeps, ChangeKeeps, SameKeeps
<1>6. CASE UNCHANGED viewVars
  BY <1>6, ViewsStutter
<1> QED BY <1>1, <1>2, <1>3, <1>4, <1>5, <1>6 DEF ViewsNext

\* Places, pictures and readings are what they are said to be: cur_lobby, clients,
\* client_id (lobby.c) and what handle_creq reads (shipgate.c).
THEOREM ViewsFit == ViewsSpec => []ViewsTypeOK
<1>1. ViewsInv => ViewsTypeOK
  BY DEF ViewsInv, Placed, Slotted, Telling, Watching, ReadingOf, NotReading, ViewsTypeOK
<1> QED BY <1>1, ViewsStart, ViewsStep, PTL DEF ViewsSpec

\* A member for whom nothing is on its way has been shown its lobby as it is, whatever
\* the ship's thread was restoring meanwhile (send_lobby_join, send_lobby_add_player and
\* send_lobby_leave, ship_packets.c; handle_creq, shipgate.c).
THEOREM PicturesTrue == ViewsSpec => []PictureTrue
<1>1. ASSUME ViewsInv PROVE PictureTrue
  <2> SUFFICES ASSUME NEW c \in Guest, cur_lobby[c] # Nowhere, ~Pending(c)
               PROVE  picture[c] = LobbyPicture(cur_lobby[c])
    BY DEF PictureTrue
  <2>1. reading.to # c /\ \A i \in DOMAIN sending : c \notin sending[i].to
    BY DEF Pending
  <2>2. /\ \A s \in Seat : picture[c].slots[s] = clients[cur_lobby[c]][s]
        /\ picture[c].leader = leader_id[cur_lobby[c]]
    BY <1>1, <2>1 DEF ViewsInv, Truth, Shows, ShowsLeader, Owed, OwedAny
  <2>3. picture[c] \in Shot /\ clients[cur_lobby[c]] \in Slotted
    BY <1>1 DEF ViewsInv, Watching, Placed
  <2>4. picture[c].slots = clients[cur_lobby[c]]
    BY <2>2, <2>3 DEF Shot, Slotted
  <2> QED BY <2>2, <2>3, <2>4 DEF Shot, LobbyPicture
<1> QED BY <1>1, ViewsStart, ViewsStep, PTL DEF ViewsSpec
=============================================================================
