----------------------------- MODULE ItemProofs -----------------------------
(***************************************************************************)
(* What is proved of a team's items: how often an enemy or a box leaves    *)
(* something and what the quest has to say in it (Drops.tla); how the      *)
(* inventories of its members are numbered and worn, and that no way goods *)
(* take makes more of them, or less with nobody disconnected               *)
(* (TeamItems.tla); for any number of clients, any tables, any sizes.      *)
(***************************************************************************)
EXTENDS MCTeam, PlayProofs, NatMin, FiniteSetTheorems, SequenceTheorems, TLAPS

(***************************************************************************)
(* Drops: what enemies and boxes leave behind.                             *)
(***************************************************************************)

\* A target that has not been asked for has left nothing, when the server makes the drops.
DropsInv ==
    /\ "dropfunc" \in DOMAIN team
    /\ spent \subseteq Target /\ next_item \subseteq Asker
    /\ sent \in [Target -> 0 .. MaxSent] /\ cur_area \in [Asker -> Areas \cup {0}]
    /\ answer.to \in {"nobody", "asker", "leader", "everyone"}
    /\ FromServer /\ answer.to = "everyone" => answer.item.kind # "failed"
    /\ team.dropfunc = "pt" => \A t \in Target : sent[t] <= 1 /\ (t \notin spent => sent[t] = 0)

\* check_and_send either keeps the item back, or sends one that is neither failed nor withheld.
LEMMA DropSendShape ==
    ASSUME NEW t, NEW it, NEW csr, Send(t, it, csr)
    PROVE  \/ answer'.to = "nobody" /\ sent' = sent
           \/ /\ answer'.to = "everyone" /\ answer'.item = it /\ answer'.from = "server"
              /\ sent' = [sent EXCEPT ![t] = @ + 1]
              /\ ~Refused(it) /\ ~Withheld(it, csr)
<1> DEFINE kept == Refused(it) \/ Withheld(it, csr)
<1>1. /\ answer' = [to |-> IF kept THEN "nobody" ELSE "everyone", item |-> it, from |-> "server"]
      /\ sent' = IF kept THEN sent ELSE [sent EXCEPT ![t] = @ + 1]
  BY DEF Send
<1>2. ~kept => ~Refused(it) /\ ~Withheld(it, csr)
  OBVIOUS
<1> HIDE DEF kept
<1> QED BY <1>1, <1>2

\* The server's own generators: a target is spent, and one item at most is sent for it.
LEMMA GeneratorShape ==
    ASSUME NEW c, NEW t, EnemyDrop(c, t) \/ BoxDrop(c, t)
    PROVE  /\ t \in Target /\ t \notin spent /\ spent' = spent \cup {t}
           /\ \/ answer' = Nothing /\ sent' = sent
              \/ ~DropsNothing(t) /\ \E it : Send(t, it, HoldsSemis(t))
<1>1. CASE EnemyDrop(c, t)
  <2>1. t \in Enemy /\ t \notin spent /\ spent' = spent \cup {t}
    BY <1>1 DEF EnemyDrop, Spend
  <2>2. \/ answer' = Nothing /\ sent' = sent
        \/ ~DropsNothing(t) /\ \E it : Send(t, it, HoldsSemis(t))
    BY <1>1, Zenon DEF EnemyDrop
  <2> QED BY <2>1, <2>2 DEF Target
<1>2. CASE BoxDrop(c, t)
  <2>1. t \in Box /\ t \notin spent /\ spent' = spent \cup {t}
    BY <1>2 DEF BoxDrop, Spend
  <2>2. ASSUME NEW ent, FixedDrop(t) \/ FixedKindDrop(t, ent, TableArea(cur_area[c]))
                        \/ PlainBoxDrop(t, ent, TableArea(cur_area[c]))
        PROVE  (answer' = Nothing /\ sent' = sent) \/ \E it : Send(t, it, HoldsSemis(t))
    <3>1. CASE FixedDrop(t)
      BY <3>1 DEF FixedDrop
    <3>2. CASE FixedKindDrop(t, ent, TableArea(cur_area[c]))
      BY <3>2, Zenon DEF FixedKindDrop
    <3>3. CASE PlainBoxDrop(t, ent, TableArea(cur_area[c]))
      <4>1. CASE \E it \in Rare : Send(t, it, HoldsSemis(t))
        BY <4>1
      <4>2. ASSUME NEW r \in Die, NEW i,
                   IF i = 0 THEN answer' = Nothing /\ UNCHANGED sent
                   ELSE \E it \in OfKind(ent.kinds[i], ent, TableArea(cur_area[c]), ent.meseta) :
                          Send(t, it, HoldsSemis(t))
            PROVE  (answer' = Nothing /\ sent' = sent) \/ \E it : Send(t, it, HoldsSemis(t))
        BY <4>2, Zenon
      <4> QED BY <3>3, <4>1, <4>2, Zenon DEF PlainBoxDrop
    <3> QED BY <2>2, <3>1, <3>2, <3>3
  <2>3. \/ answer' = Nothing /\ sent' = sent
        \/ ~DropsNothing(t) /\ \E it : Send(t, it, HoldsSemis(t))
    BY <1>2, <2>2, Zenon DEF BoxDrop
  <2> QED BY <2>1, <2>3 DEF Target
<1> QED BY <1>1, <1>2

\* The four ways in which a request is answered (subcmd_handle_one, subcmd_bb_handle_one).
LEMMA RequestShape ==
    ASSUME NEW c, NEW t, Request(c, t)
    PROVE  /\ sent[t] < MaxSent /\ UNCHANGED <<team, cur_area>>
           /\ \/ GMItem(c)
              \/ UNCHANGED next_item /\ team.dropfunc = "td" /\ Handout(c, t)
              \/ UNCHANGED next_item /\ team.dropfunc = "pt" /\ (EnemyDrop(c, t) \/ BoxDrop(c, t))
              \/ /\ UNCHANGED <<next_item, spent, sent>>
                 /\ answer' = IF team.lists /\ team.qid /\ ClientDropsNothing(t) THEN Nothing ELSE Forward
<1> DEFINE A == team.version # "bb" /\ c \in next_item /\ ~team.legit
           P == team.dropfunc = "td"
           Q == team.dropfunc = "pt" /\ (team.server \/ team.version = "bb")
<1>1. sent[t] < MaxSent /\ UNCHANGED <<team, cur_area>>
  BY DEF Request
<1>2. CASE A
  BY <1>1, <1>2, Zenon DEF Request
<1>3. CASE ~A
  <2>1. /\ CASE P -> Handout(c, t)
             [] Q -> EnemyDrop(c, t) \/ BoxDrop(c, t)
             [] OTHER -> /\ answer' = IF team.lists /\ team.qid /\ ClientDropsNothing(t)
                                      THEN Nothing ELSE Forward
                         /\ UNCHANGED <<spent, sent>>
        /\ UNCHANGED next_item
    BY <1>3, Zenon DEF Request
  <2>2. ~(P /\ Q)
    OBVIOUS
  <2>3. Q => team.dropfunc = "pt"
    OBVIOUS
  <2>4. P => team.dropfunc = "td"
    OBVIOUS
  <2> HIDE DEF P, Q
  <2>5. CASE P
    BY <1>1, <2>1, <2>2, <2>4, <2>5, Zenon
  <2>6. CASE Q
    BY <1>1, <2>1, <2>2, <2>3, <2>6, Zenon
  <2>7. CASE ~P /\ ~Q
    <3>1. /\ answer' = IF team.lists /\ team.qid /\ ClientDropsNothing(t) THEN Nothing ELSE Forward
          /\ UNCHANGED <<spent, sent>> /\ UNCHANGED next_item
      BY <2>1, <2>7, Zenon
    <3> QED BY <1>1, <3>1, Zenon
  <2> QED BY <2>5, <2>6, <2>7
<1> QED BY <1>2, <1>3

\* Nothing has been asked for at the start.
LEMMA DropsStart == DropsInit => DropsInv
<1> SUFFICES ASSUME DropsInit PROVE DropsInv
  OBVIOUS
<1>1. PICK s \in Setup :
         team = [version |-> s.version, dropfunc |-> DropFunc(s), server |-> DropFunc(s) # "none",
                 battle |-> s.battle, legit |-> s.limits, limits |-> s.limits,
                 episode |-> 1, qid |-> FALSE, map |-> "own", lists |-> FALSE,
                 sd |-> NoList, cd |-> NoList]
  BY DEF DropsInit
<1>2. "dropfunc" \in DOMAIN team
  BY <1>1
<1>3. /\ spent = {} /\ next_item = {} /\ answer.to = "nobody" /\ answer.from = "none"
      /\ sent = [t \in Target |-> 0] /\ cur_area = [c \in Asker |-> 0]
  BY DEF DropsInit, NoAnswer
<1>4. sent \in [Target -> 0 .. MaxSent] /\ \A t \in Target : sent[t] = 0
  BY <1>3 DEF MaxSent
<1> QED BY <1>2, <1>3, <1>4 DEF DropsInv, FromServer

\* A request is answered with one item at most.
LEMMA RequestKeeps ==
    ASSUME DropsInv, NEW c \in Asker, NEW t \in Target, Request(c, t) PROVE DropsInv'
<1> USE DEF DropsInv, MaxSent
<1>0. sent[t] < 2 /\ sent[t] \in 0 .. 2 /\ UNCHANGED <<team, cur_area>>
  BY RequestShape
<1>a. [sent EXCEPT ![t] = @ + 1] \in [Target -> 0 .. 2]
  <2>1. sent[t] + 1 \in 0 .. 2
    BY <1>0
  <2> QED BY <2>1
<1>1. CASE GMItem(c)
  <2>1. /\ answer'.to = "everyone" /\ answer'.from = "gm" /\ next_item' \subseteq next_item
        /\ UNCHANGED <<spent, sent>>
    BY <1>1 DEF GMItem, NoAnswer
  <2> QED BY <1>0, <2>1 DEF FromServer
<1>2. CASE UNCHANGED next_item /\ team.dropfunc = "td" /\ Handout(c, t)
  <2>1. /\ UNCHANGED spent
        /\ \/ answer'.to = "asker" /\ answer'.from = "none" /\ sent' = sent
           \/ answer'.to = "everyone" /\ answer'.from = "td" /\ sent' = [sent EXCEPT ![t] = @ + 1]
    BY <1>2 DEF Handout, Nothing, NoAnswer
  <2> QED BY <1>0, <1>a, <1>2, <2>1 DEF FromServer
<1>3. CASE UNCHANGED next_item /\ team.dropfunc = "pt" /\ (EnemyDrop(c, t) \/ BoxDrop(c, t))
  <2>1. /\ t \notin spent /\ spent' = spent \cup {t}
        /\ \/ answer' = Nothing /\ sent' = sent
           \/ ~DropsNothing(t) /\ \E it : Send(t, it, HoldsSemis(t))
    BY <1>3, GeneratorShape
  <2>2. sent[t] = 0
    BY <1>3, <2>1
  <2>3. CASE answer' = Nothing /\ sent' = sent
    <3>1. answer'.to = "asker" /\ answer'.from = "none"
      BY <2>3 DEF Nothing, NoAnswer
    <3> QED BY <1>0, <1>3, <2>1, <2>3, <3>1 DEF FromServer
  <2>4. ASSUME NEW it, Send(t, it, HoldsSemis(t)) PROVE DropsInv'
    <3>1. \/ answer'.to = "nobody" /\ sent' = sent
          \/ /\ answer'.to = "everyone" /\ answer'.item = it /\ answer'.from = "server"
             /\ sent' = [sent EXCEPT ![t] = @ + 1] /\ ~Refused(it)
      BY <2>4, DropSendShape
    <3>2. ~Refused(it) => it.kind # "failed"
      BY DEF Refused
    <3>3. \A u \in Target : sent'[u] <= 1 /\ (u \notin spent' => sent'[u] = 0)
      BY <1>3, <2>1, <2>2, <3>1
    <3> QED BY <1>0, <1>a, <1>3, <2>1, <3>1, <3>2, <3>3 DEF FromServer
  <2> QED BY <2>1, <2>3, <2>4
<1>4. CASE /\ UNCHANGED <<next_item, spent, sent>>
           /\ answer' = IF team.lists /\ team.qid /\ ClientDropsNothing(t) THEN Nothing ELSE Forward
  <2>1. answer'.to \in {"asker", "leader"} /\ answer'.from = "none"
    BY <1>4 DEF Nothing, Forward, NoAnswer
  <2> QED BY <1>0, <1>4, <2>1 DEF FromServer
<1> QED BY <1>1, <1>2, <1>3, <1>4, RequestShape

\* Every step keeps the invariant of drops.
LEMMA DropsNextKeeps == DropsInv /\ [DropsNext]_dropVars => DropsInv'
<1> SUFFICES ASSUME DropsInv, [DropsNext]_dropVars PROVE DropsInv'
  OBVIOUS
<1> USE DEF DropsInv
<1>1. ASSUME NEW c \in Asker, NEW t \in Target, Request(c, t) PROVE DropsInv'
  BY <1>1, RequestKeeps
<1>2. ASSUME NEW c \in Asker, PickItem(c) PROVE DropsInv'
  <2>1. answer'.to = "nobody" /\ answer'.from = "none"
    BY <1>2 DEF PickItem, NoAnswer
  <2> QED BY <1>2, <2>1 DEF PickItem, FromServer
<1>3. ASSUME NEW c \in Asker, NEW a \in Areas, Move(c, a) PROVE DropsInv'
  <2>1. answer'.to = "nobody" /\ answer'.from = "none"
    BY <1>3 DEF Move, NoAnswer
  <2> QED BY <1>3, <2>1 DEF Move, FromServer
<1>4. ASSUME NEW q \in Quests, LoadQuest(q) PROVE DropsInv'
  <2>1. answer' = NoAnswer /\ UNCHANGED <<cur_area, next_item>>
    BY <1>4, Zenon DEF LoadQuest
  <2>2. answer'.to = "nobody" /\ answer'.from = "none"
    BY <2>1 DEF NoAnswer
  <2> DEFINE begun == [team EXCEPT !.qid = TRUE, !.episode = q.episode]
             loaded == [begun EXCEPT !.map = "quest"]
             listed == [loaded EXCEPT !.lists = TRUE, !.sd = q.sd, !.cd = q.cd]
             blind == [begun EXCEPT !.server = FALSE]
  <2>3. \/ team' = begun /\ UNCHANGED <<spent, sent>>
        \/ team' = blind /\ UNCHANGED <<spent, sent>>
        \/ team' \in {listed, loaded} /\ spent' = {} /\ sent' = [t \in Target |-> 0]
    <3>1. CASE team.battle
      BY <1>4, <3>1 DEF LoadQuest
    <3>2. CASE ~team.battle /\ ~q.loads
      BY <1>4, <3>2 DEF LoadQuest
    <3>3. CASE ~team.battle /\ q.loads
      BY <1>4, <3>3 DEF LoadQuest
    <3> QED BY <3>1, <3>2, <3>3
  <2>4. /\ "dropfunc" \in DOMAIN begun /\ begun.dropfunc = team.dropfunc
        /\ "dropfunc" \in DOMAIN loaded /\ loaded.dropfunc = team.dropfunc
        /\ "dropfunc" \in DOMAIN listed /\ listed.dropfunc = team.dropfunc
        /\ "dropfunc" \in DOMAIN blind /\ blind.dropfunc = team.dropfunc
    OBVIOUS
  <2> HIDE DEF begun, loaded, listed, blind
  <2>5. "dropfunc" \in DOMAIN team' /\ team'.dropfunc = team.dropfunc
    BY <2>3, <2>4
  <2>6. CASE UNCHANGED <<spent, sent>>
    BY <2>1, <2>2, <2>5, <2>6 DEF FromServer
  <2>7. CASE spent' = {} /\ sent' = [t \in Target |-> 0]
    <3>1. sent' \in [Target -> 0 .. MaxSent] /\ \A t \in Target : sent'[t] = 0
      BY <2>7 DEF MaxSent
    <3> QED BY <2>1, <2>2, <2>5, <2>7, <3>1 DEF FromServer
  <2> QED BY <2>3, <2>6, <2>7
<1>5. CASE Normal
  <2>1. answer'.to = "nobody" /\ answer'.from = "none"
    BY <1>5 DEF Normal, NoAnswer
  <2>2. team' = [team EXCEPT !.legit = FALSE]
    BY <1>5 DEF Normal
  <2>3. "dropfunc" \in DOMAIN team' /\ team'.dropfunc = team.dropfunc
    BY <2>2
  <2> QED BY <1>5, <2>1, <2>3 DEF Normal, FromServer
<1>6. CASE UNCHANGED dropVars
  BY <1>6 DEF dropVars, FromServer
<1> QED BY <1>1, <1>2, <1>3, <1>4, <1>5, <1>6 DEF DropsNext

\* It always holds.
LEMMA SpecDrops == DropsSpec => []DropsInv
BY DropsStart, DropsNextKeeps, PTL DEF DropsSpec

\* The areas of a client, whatever a quest calls them, are the ten the tables have.
LEMMA TenAreas == \A a \in Nat \ {0} : AreaEp1(a) - 1 \in 0 .. 9 /\ AreaEp2(a) - 1 \in 0 .. 9
BY DEF AreaEp1, AreaEp2

\* A request's answer and the tables it reads keep within bounds: no generator reads past the
\* ten areas of the ItemPT tables, and nothing that is no item is sent (generate_*, check_and_send).
THEOREM DropsFit == DropsSpec => []DropsTypeOK
<1>1. DropsInv => DropsTypeOK
  <2> SUFFICES ASSUME DropsInv PROVE DropsTypeOK
    OBVIOUS
  <2>1. ASSUME NEW c \in Asker, cur_area[c] # 0 PROVE TableArea(cur_area[c]) \in 0 .. 9
    <3>1. cur_area[c] \in Nat \ {0}
      BY <2>1, DropsConstants DEF DropsInv
    <3> QED BY <3>1, TenAreas DEF TableArea
  <2> QED BY <2>1 DEF DropsInv, DropsTypeOK
<1> QED BY <1>1, SpecDrops, PTL

\* With server drops an enemy or a box of one map leaves one item at most, however many clients
\* ask and whatever quests are loaded or fail to load (pt_generate_*_drop, load_quest_enemies).
THEOREM DropsOnce == DropsSpec => []AnswersOnce
<1>1. DropsInv => AnswersOnce
  BY DEF DropsInv, AnswersOnce
<1> QED BY <1>1, SpecDrops, PTL

\* The quest's word on drops holds whichever of the six generators makes the drop, for any
\* tables and lists; what the list forbids is not sent (check_and_send, handle_quest_itemreq).
THEOREM QuestsHaveTheirWord == DropsSpec => QuestKept
<1>1. ASSUME NEW c \in Asker, NEW t \in Target, Request(c, t), team.qid, answer'.from # "gm"
      PROVE  /\ FromServer' /\ HoldsSemis(t) /\ answer'.to = "everyone"
                  => Stars(answer'.item) \notin 9 .. Unknown - 1
             /\ FromServer' /\ DropsNothing(t) => answer'.to # "everyone"
             /\ team.lists /\ Policy(team.cd, t) = "NONE" /\ ~team.server
                  => answer'.to # "leader"
  <2>1. CASE GMItem(c)
    BY <1>1, <2>1 DEF GMItem, NoAnswer
  <2>2. CASE Handout(c, t)
    BY <2>2 DEF Handout, Nothing, NoAnswer, FromServer
  <2>3. CASE EnemyDrop(c, t) \/ BoxDrop(c, t)
    <3>1. CASE answer' = Nothing
      BY <3>1 DEF Nothing, NoAnswer, FromServer
    <3>2. ASSUME NEW it, Send(t, it, HoldsSemis(t)), ~DropsNothing(t), answer'.to = "everyone"
          PROVE  HoldsSemis(t) => Stars(answer'.item) \notin 9 .. Unknown - 1
      <4>1. answer'.item = it /\ ~Withheld(it, HoldsSemis(t))
        BY <3>2, DropSendShape
      <4>2. HoldsSemis(t) /\ Stars(it) >= 9 => Stars(it) = Unknown
        BY <4>1 DEF Withheld
      <4> QED BY <4>1, <4>2 DEF Unknown
    <3>3. ASSUME NEW it, Send(t, it, HoldsSemis(t)) PROVE answer'.to \in {"nobody", "everyone"}
      BY <3>3, DropSendShape
    <3>4. \/ answer' = Nothing /\ sent' = sent
          \/ ~DropsNothing(t) /\ \E it : Send(t, it, HoldsSemis(t))
      BY <2>3, GeneratorShape
    <3> QED BY <3>1, <3>2, <3>3, <3>4
  <2>4. CASE answer' = IF team.lists /\ team.qid /\ ClientDropsNothing(t) THEN Nothing ELSE Forward
    <3>1. Policy(team.cd, t) = "NONE" => ClientDropsNothing(t)
      BY DEF ClientDropsNothing, NotListed
    <3>2. answer'.from = "none" /\ (answer'.to = "leader" => ~(team.lists /\ team.qid /\ ClientDropsNothing(t)))
      BY <2>4 DEF Nothing, Forward, NoAnswer
    <3> QED BY <1>1, <3>1, <3>2 DEF FromServer
  <2> QED BY <1>1, <2>1, <2>2, <2>3, <2>4, RequestShape
<1>2. [DropsNext]_dropVars =>
        [\A c \in Asker, t \in Target : Request(c, t) /\ team.qid /\ answer'.from # "gm" =>
            /\ FromServer' /\ HoldsSemis(t) /\ answer'.to = "everyone"
                 => Stars(answer'.item) \notin 9 .. Unknown - 1
            /\ FromServer' /\ DropsNothing(t) => answer'.to # "everyone"
            /\ team.lists /\ Policy(team.cd, t) = "NONE" /\ ~team.server
                 => answer'.to # "leader"]_dropVars
  BY <1>1
<1> QED BY <1>2, PTL DEF DropsSpec, QuestKept

(***************************************************************************)
(* TeamItems: inventories and banks.                                       *)
(***************************************************************************)

Item == [id : Int \X Int, kind : Kind \cup {Blank}, n : Nat \ {0}, on : BOOLEAN]
Lying == [id : Int \X Int, kind : Kind \cup {Blank, Meseta}, n : Nat \ {0}, on : BOOLEAN]

Distinct(items) == \A i, j \in DOMAIN items : items[i].id = items[j].id => i = j
WornUnit(it) == it.kind \in Unit /\ it.on
Framed(items) == (\E i \in DOMAIN items : WornUnit(items[i])) => \E i \in DOMAIN items : IsWornFrame(items[i])
AllOff(items) == \A i \in DOMAIN items : ~items[i].on

\* What is left when one is taken out: the others, each at its place or the place before.
LEMMA RemovedShape ==
    ASSUME NEW S, NEW s \in Seq(S), NEW i \in DOMAIN s, NEW r, r = RemoveAt(s, i)
    PROVE  /\ r \in Seq(S) /\ Len(r) = Len(s) - 1 /\ Len(s) \in Nat \ {0}
           /\ \A k \in DOMAIN r : /\ k \in Nat
                                  /\ k < i => k \in DOMAIN s /\ r[k] = s[k]
                                  /\ k >= i => k + 1 \in DOMAIN s /\ r[k] = s[k + 1]
           /\ \A j \in DOMAIN s : /\ j \in Nat
                                  /\ j < i => j \in DOMAIN r /\ r[j] = s[j]
                                  /\ j > i => j - 1 \in DOMAIN r /\ r[j - 1] = s[j]
<1> DEFINE n == Len(s)
           a == SubSeq(s, 1, i - 1)
           b == SubSeq(s, i + 1, n)
<1>1. n \in Nat /\ DOMAIN s = 1 .. n /\ i \in 1 .. n /\ \A k \in 1 .. n : s[k] \in S
  BY LenProperties, ElementOfSeq
<1>2. \A k \in 1 .. i - 1 : s[k] \in S
  <2>1. \A k \in 1 .. i - 1 : k \in 1 .. n
    BY <1>1
  <2> QED BY <1>1, <2>1
<1>3. \A k \in i + 1 .. n : s[k] \in S
  <2>1. \A k \in i + 1 .. n : k \in 1 .. n
    BY <1>1
  <2> QED BY <1>1, <2>1
<1>4. i - 1 \in Int /\ i + 1 \in Int /\ n \in Int /\ 1 \in Int
  BY <1>1
<1>5. a \in Seq(S) /\ Len(a) = (IF 1 <= i - 1 THEN (i - 1) - 1 + 1 ELSE 0)
      /\ \A k \in 1 .. (i - 1) - 1 + 1 : a[k] = s[1 + k - 1]
  BY <1>2, <1>4, SubSeqProperties
<1>6. b \in Seq(S) /\ Len(b) = (IF i + 1 <= n THEN n - (i + 1) + 1 ELSE 0)
      /\ \A k \in 1 .. n - (i + 1) + 1 : b[k] = s[(i + 1) + k - 1]
  BY <1>3, <1>4, SubSeqProperties
<1>7. r = a \o b
  BY DEF RemoveAt
<1>8. r \in Seq(S) /\ Len(r) = Len(a) + Len(b)
      /\ \A k \in 1 .. Len(a) + Len(b) : r[k] = IF k <= Len(a) THEN a[k] ELSE b[k - Len(a)]
  BY <1>5, <1>6, <1>7, ConcatProperties, SMTT(30)
<1> DEFINE la == Len(a)
           lb == Len(b)
           lr == Len(r)
<1>9. /\ la = (IF 1 <= i - 1 THEN (i - 1) - 1 + 1 ELSE 0) /\ lb = (IF i + 1 <= n THEN n - (i + 1) + 1 ELSE 0)
      /\ lr = la + lb /\ \A k \in 1 .. la + lb : r[k] = IF k <= la THEN a[k] ELSE b[k - la]
      /\ DOMAIN r = 1 .. lr
  BY <1>5, <1>6, <1>8, LenProperties
<1> HIDE DEF n, a, b, la, lb, lr
<1>a. n \in Nat /\ i \in 1 .. n
  BY <1>1
<1>b. la = (IF 1 <= i - 1 THEN (i - 1) - 1 + 1 ELSE 0)
  BY <1>9
<1>c. lb = (IF i + 1 <= n THEN n - (i + 1) + 1 ELSE 0)
  BY <1>9
<1>d. la = i - 1
  BY <1>a, <1>b
<1>e. lb = n - i
  BY <1>a, <1>c
<1>f. lr = la + lb
  BY <1>9
<1>10. la = i - 1 /\ lb = n - i /\ lr = n - 1 /\ n \in Nat \ {0}
  BY <1>a, <1>d, <1>e, <1>f
<1>11. \A k \in 1 .. i - 1 : r[k] = s[k]
  <2> TAKE k \in 1 .. i - 1
  <2>1. k \in 1 .. la + lb /\ k <= la /\ k \in 1 .. (i - 1) - 1 + 1 /\ 1 + k - 1 = k
    BY <1>a, <1>10
  <2>2. r[k] = a[k]
    BY <1>9, <2>1
  <2>3. a[k] = s[1 + k - 1]
    BY <1>5, <2>1
  <2> QED BY <2>1, <2>2, <2>3
<1>12. \A k \in i .. n - 1 : r[k] = s[k + 1]
  <2> TAKE k \in i .. n - 1
  <2>1. k \in 1 .. la + lb /\ ~(k <= la) /\ k - la = k - i + 1 /\ k - i + 1 \in 1 .. n - (i + 1) + 1
    BY <1>1, <1>10
  <2>2. r[k] = b[k - i + 1]
    BY <1>9, <2>1
  <2>3. (i + 1) + (k - i + 1) - 1 = k + 1
    BY <1>1
  <2>4. b[k - i + 1] = s[(i + 1) + (k - i + 1) - 1]
    BY <1>6, <2>1
  <2> QED BY <2>2, <2>3, <2>4
<1>13. ASSUME NEW k \in DOMAIN r
       PROVE  /\ k \in Nat
              /\ k < i => k \in DOMAIN s /\ r[k] = s[k]
              /\ k >= i => k + 1 \in DOMAIN s /\ r[k] = s[k + 1]
  <2>1. k \in 1 .. n - 1
    BY <1>9, <1>10
  <2>2. k < i => k \in 1 .. n /\ k \in 1 .. i - 1
    BY <1>1, <2>1
  <2>3. k >= i => k + 1 \in 1 .. n /\ k \in i .. n - 1
    BY <1>1, <2>1
  <2> QED BY <1>1, <1>11, <1>12, <2>1, <2>2, <2>3
<1>14. ASSUME NEW j \in DOMAIN s
       PROVE  /\ j \in Nat
              /\ j < i => j \in DOMAIN r /\ r[j] = s[j]
              /\ j > i => j - 1 \in DOMAIN r /\ r[j - 1] = s[j]
  <2>1. j \in 1 .. n
    BY <1>1
  <2>2. j < i => j \in 1 .. n - 1 /\ j \in 1 .. i - 1
    BY <1>1, <2>1
  <2>3. j > i => j - 1 \in 1 .. n - 1 /\ j - 1 \in i .. n - 1 /\ (j - 1) + 1 = j
    BY <1>1, <2>1
  <2> QED BY <1>9, <1>10, <1>11, <1>12, <2>1, <2>2, <2>3
<1> QED BY <1>8, <1>10, <1>13, <1>14 DEF n, lr

NoUnitsOn(items) == \A i \in DOMAIN items : ~WornUnit(items[i])

\* What the operations of items.c keep of a list: its numbers apart, its bank items put by,
\* its units in a frame.
LEMMA RemovedKeeps ==
    ASSUME NEW s \in Seq(Item), NEW i \in DOMAIN s, NEW r, r = RemoveAt(s, i)
    PROVE  /\ r \in Seq(Item) /\ Len(r) = Len(s) - 1 /\ Len(s) \in Nat \ {0}
           /\ Distinct(s) => Distinct(r)
           /\ AllOff(s) => AllOff(r)
           /\ NoUnitsOn(s) => NoUnitsOn(r)
           /\ Framed(s) /\ ~IsWornFrame(s[i]) => Framed(r)
<1>1. /\ r \in Seq(Item) /\ Len(r) = Len(s) - 1 /\ Len(s) \in Nat \ {0}
      /\ \A k \in DOMAIN r : /\ k \in Nat
                             /\ k < i => k \in DOMAIN s /\ r[k] = s[k]
                             /\ k >= i => k + 1 \in DOMAIN s /\ r[k] = s[k + 1]
      /\ \A j \in DOMAIN s : /\ j \in Nat
                             /\ j < i => j \in DOMAIN r /\ r[j] = s[j]
                             /\ j > i => j - 1 \in DOMAIN r /\ r[j - 1] = s[j]
  BY RemovedShape
<1> DEFINE old(k) == IF k < i THEN k ELSE k + 1
           new(j) == IF j < i THEN j ELSE j - 1
<1>a. i \in Nat
  BY <1>1
<1>2. \A k \in DOMAIN r : k \in Nat /\ old(k) \in DOMAIN s /\ r[k] = s[old(k)]
  <2> TAKE k \in DOMAIN r
  <2>1. k \in Nat
    BY <1>1
  <2>2. CASE k < i
    BY <1>1, <2>1, <2>2
  <2>3. CASE k >= i
    <3>1. ~(k < i)
      BY <1>a, <2>1, <2>3
    <3> QED BY <1>1, <2>1, <2>3, <3>1
  <2> QED BY <1>a, <2>1, <2>2, <2>3
<1>3. \A j \in DOMAIN s : j # i => new(j) \in DOMAIN r /\ r[new(j)] = s[j]
  <2> TAKE j \in DOMAIN s
  <2> HAVE j # i
  <2>1. j \in Nat
    BY <1>1
  <2>2. CASE j < i
    BY <1>1, <2>2
  <2>3. CASE j > i
    <3>1. ~(j < i)
      BY <1>a, <2>1, <2>3
    <3> QED BY <1>1, <2>3, <3>1
  <2> QED BY <1>a, <2>1, <2>2, <2>3
<1>4. \A k, l \in Nat : old(k) = old(l) => k = l
  BY <1>a
<1> HIDE DEF old, new
<1>5. Distinct(s) => Distinct(r)
  BY <1>2, <1>4 DEF Distinct
<1>6. AllOff(s) => AllOff(r)
  BY <1>2 DEF AllOff
<1>7. NoUnitsOn(s) => NoUnitsOn(r)
  BY <1>2 DEF NoUnitsOn
<1>8. Framed(s) /\ ~IsWornFrame(s[i]) => Framed(r)
  BY <1>2, <1>3 DEF Framed
<1> QED BY <1>1, <1>5, <1>6, <1>7, <1>8

\* An item of which only the number of its pieces changes.
Recounted(s, i, m) == [s EXCEPT ![i].n = m]

LEMMA CountedKeeps ==
    ASSUME NEW s \in Seq(Item), NEW i \in DOMAIN s, NEW m \in Nat \ {0}, NEW r, r = Recounted(s, i, m)
    PROVE  /\ r \in Seq(Item) /\ Len(r) = Len(s) /\ Len(s) \in Nat
           /\ Distinct(s) => Distinct(r)
           /\ AllOff(s) => AllOff(r)
           /\ NoUnitsOn(s) => NoUnitsOn(r)
           /\ Framed(s) => Framed(r)
<1> DEFINE n == Len(s)
<1>1. n \in Nat /\ s \in [1 .. n -> Item] /\ DOMAIN s = 1 .. n
  BY LenProperties
<1> HIDE DEF n
<1>2. s[i] \in Item /\ i \in 1 .. n
  BY <1>1
<1>3. /\ r \in [1 .. n -> Item]
      /\ \A k \in 1 .. n : r[k].id = s[k].id /\ r[k].on = s[k].on /\ r[k].kind = s[k].kind
  BY <1>1, <1>2 DEF Item, Recounted
<1>4. r \in Seq(Item) /\ Len(r) = n
  BY <1>1, <1>3, PlacesMakeSeq
<1>5. DOMAIN r = DOMAIN s
  BY <1>1, <1>3
<1>6. Distinct(s) => Distinct(r)
  BY <1>1, <1>3, <1>5 DEF Distinct
<1>7. AllOff(s) => AllOff(r)
  BY <1>1, <1>3, <1>5 DEF AllOff
<1>8. NoUnitsOn(s) => NoUnitsOn(r)
  BY <1>1, <1>3, <1>5 DEF NoUnitsOn, WornUnit
<1>9. Framed(s) => Framed(r)
  BY <1>1, <1>3, <1>5 DEF Framed, WornUnit, IsWornFrame
<1> QED BY <1>1, <1>4, <1>6, <1>7, <1>8, <1>9 DEF n

\* item_remove_from_inv, item_take_from_bank.
LEMMA LessKeeps ==
    ASSUME NEW s \in Seq(Item), NEW i \in DOMAIN s, NEW n \in Nat \ {0}, NEW r, r = Less(s, i, n)
    PROVE  /\ r \in Seq(Item) /\ Len(r) <= Len(s) /\ Len(s) \in Nat /\ Len(r) \in Nat
           /\ Distinct(s) => Distinct(r)
           /\ AllOff(s) => AllOff(r)
           /\ NoUnitsOn(s) => NoUnitsOn(r)
           /\ Framed(s) /\ ~IsWornFrame(s[i]) => Framed(r)
<1> DEFINE some == s[i].kind \in Tool /\ n < s[i].n
<1>0. Len(s) \in Nat /\ s[i] \in Item
  BY LenProperties, ElementOfSeq
<1>1. CASE some
  <2> DEFINE m == s[i].n - n
  <2>1. r = Recounted(s, i, m)
    BY <1>0, <1>1 DEF Less, Recounted
  <2>2. m \in Nat \ {0}
    BY <1>0, <1>1 DEF Item
  <2> HIDE DEF m
  <2>3. /\ r \in Seq(Item) /\ Len(r) = Len(s) /\ Len(s) \in Nat
        /\ Distinct(s) => Distinct(r)
        /\ AllOff(s) => AllOff(r)
        /\ NoUnitsOn(s) => NoUnitsOn(r)
        /\ Framed(s) => Framed(r)
    BY <2>1, <2>2, CountedKeeps
  <2> QED BY <2>3
<1>2. CASE ~some
  <2>1. r = RemoveAt(s, i)
    BY <1>2 DEF Less
  <2>2. /\ r \in Seq(Item) /\ Len(r) = Len(s) - 1 /\ Len(s) \in Nat \ {0}
        /\ Distinct(s) => Distinct(r)
        /\ AllOff(s) => AllOff(r)
        /\ NoUnitsOn(s) => NoUnitsOn(r)
        /\ Framed(s) /\ ~IsWornFrame(s[i]) => Framed(r)
    BY <2>1, RemovedKeeps
  <2> DEFINE a == Len(r)
             b == Len(s)
  <2>3. a = b - 1 /\ b \in Nat \ {0}
    BY <2>2
  <2> HIDE DEF a, b
  <2>4. a <= b /\ a \in Nat /\ b \in Nat
    BY <2>3
  <2> QED BY <2>2, <2>4 DEF a, b
<1> QED BY <1>1, <1>2

\* item_add_to_inv, item_deposit_to_bank: what is put down is not worn.
LEMMA StackedKeeps ==
    ASSUME NEW s \in Seq(Item), NEW it \in Item, ~it.on, NEW r, r = Stacked(s, it)
    PROVE  /\ r \in Seq(Item) /\ Len(s) \in Nat /\ Len(r) \in {Len(s), Len(s) + 1}
           /\ Distinct(s) /\ (\A i \in DOMAIN s : s[i].id # it.id) => Distinct(r)
           /\ AllOff(s) => AllOff(r)
           /\ Framed(s) => Framed(r)
<1>0. Len(s) \in Nat /\ DOMAIN s = 1 .. Len(s)
  BY LenProperties
<1>1. CASE it.kind \in Tool /\ Alike(s, it) # {}
  <2> DEFINE i == Min(Alike(s, it))
  <2>1. Alike(s, it) \in SUBSET Nat /\ Alike(s, it) \subseteq DOMAIN s
    BY <1>0 DEF Alike
  <2>2. i \in DOMAIN s
    BY <1>1, <2>1, MinOfNat
  <2> DEFINE m == s[i].n + it.n
  <2>3. r = Recounted(s, i, m)
    BY <1>1, <2>2 DEF Stacked, Recounted
  <2> HIDE DEF i
  <2>4. m \in Nat \ {0}
    <3>1. s[i] \in Item
      BY <1>0, <2>2, ElementOfSeq
    <3> QED BY <3>1 DEF Item
  <2> HIDE DEF m
  <2>5. /\ r \in Seq(Item) /\ Len(r) = Len(s) /\ Len(s) \in Nat
        /\ Distinct(s) => Distinct(r)
        /\ AllOff(s) => AllOff(r)
        /\ NoUnitsOn(s) => NoUnitsOn(r)
        /\ Framed(s) => Framed(r)
    BY <2>2, <2>3, <2>4, CountedKeeps
  <2> QED BY <2>5
<1>2. CASE ~(it.kind \in Tool /\ Alike(s, it) # {})
  <2> DEFINE n == Len(s)
  <2>1. r = Append(s, it)
    BY <1>2 DEF Stacked
  <2>2. /\ n \in Nat /\ r \in Seq(Item) /\ Len(r) = n + 1 /\ DOMAIN s = 1 .. n /\ DOMAIN r = 1 .. n + 1
        /\ r[n + 1] = it /\ \A i \in 1 .. n : r[i] = s[i]
    BY <2>1, AppendProperties, LenProperties
  <2> HIDE DEF n
  <2>3. \A i \in DOMAIN s : i \in DOMAIN r /\ r[i] = s[i]
    BY <2>2
  <2>4. \A i \in DOMAIN r : i = n + 1 \/ i \in DOMAIN s
    BY <2>2
  <2>5. Distinct(s) /\ (\A i \in DOMAIN s : s[i].id # it.id) => Distinct(r)
    BY <2>2, <2>3, <2>4 DEF Distinct
  <2>6. AllOff(s) => AllOff(r)
    BY <2>2, <2>3, <2>4 DEF AllOff
  <2>7. Framed(s) => Framed(r)
    <3>1. ~WornUnit(it)
      BY DEF WornUnit
    <3> QED BY <2>2, <2>3, <2>4, <3>1 DEF Framed
  <2> QED BY <2>2, <2>5, <2>6, <2>7 DEF n
<1> QED BY <1>1, <1>2

\* A frame that comes off takes the units along.
LEMMA UnitsOffKeeps ==
    ASSUME NEW s \in Seq(Item), NEW r, r = UnitsOff(s)
    PROVE  /\ r \in Seq(Item) /\ Len(r) = Len(s) /\ DOMAIN r = DOMAIN s
           /\ Distinct(s) => Distinct(r)
           /\ NoUnitsOn(r)
<1> DEFINE n == Len(s)
<1>1. n \in Nat /\ s \in [1 .. n -> Item] /\ DOMAIN s = 1 .. n
  BY LenProperties
<1> HIDE DEF n
<1>2. r = [i \in 1 .. n |-> IF s[i].kind \in Unit THEN [s[i] EXCEPT !.on = FALSE] ELSE s[i]]
  BY <1>1 DEF UnitsOff, Unequipped
<1>3. \A i \in 1 .. n : s[i] \in Item
  BY <1>1
<1>4. \A i \in 1 .. n : r[i] \in Item /\ r[i].id = s[i].id /\ ~WornUnit(r[i])
  <2> TAKE i \in 1 .. n
  <2>1. s[i] \in Item
    BY <1>3
  <2>2. CASE s[i].kind \in Unit
    <3>1. r[i] = [s[i] EXCEPT !.on = FALSE]
      BY <1>2, <2>2
    <3> QED BY <2>1, <3>1 DEF Item, WornUnit
  <2>3. CASE s[i].kind \notin Unit
    <3>1. r[i] = s[i]
      BY <1>2, <2>3
    <3> QED BY <2>1, <2>3, <3>1 DEF WornUnit
  <2> QED BY <2>2, <2>3
<1>5. r \in [1 .. n -> Item]
  BY <1>2, <1>4
<1>6. r \in Seq(Item) /\ Len(r) = n
  BY <1>1, <1>5, PlacesMakeSeq
<1>7. DOMAIN r = DOMAIN s
  BY <1>1, <1>5
<1>8. Distinct(s) => Distinct(r)
  BY <1>1, <1>4, <1>7 DEF Distinct
<1>9. NoUnitsOn(r)
  BY <1>1, <1>4, <1>7 DEF NoUnitsOn
<1> QED BY <1>6, <1>7, <1>8, <1>9 DEF n

\* handle_bb_equip, handle_bb_unequip: one item is changed, and keeps its number.
LEMMA WornShape ==
    ASSUME NEW s \in Seq(Item), NEW i \in DOMAIN s, NEW e \in Item, e.id = s[i].id,
           NEW r, r = [s EXCEPT ![i] = e]
    PROVE  /\ r \in Seq(Item) /\ Len(r) = Len(s) /\ DOMAIN r = DOMAIN s
           /\ Distinct(s) => Distinct(r)
           /\ r[i] = e /\ \A k \in DOMAIN s : k # i => r[k] = s[k]
<1> DEFINE n == Len(s)
<1>1. n \in Nat /\ s \in [1 .. n -> Item] /\ DOMAIN s = 1 .. n
  BY LenProperties
<1> HIDE DEF n
<1>2. /\ r \in [1 .. n -> Item] /\ r[i] = e /\ \A k \in 1 .. n : k # i => r[k] = s[k]
      /\ \A k \in 1 .. n : r[k].id = s[k].id
  BY <1>1
<1>3. r \in Seq(Item) /\ Len(r) = n /\ DOMAIN r = DOMAIN s
  BY <1>1, <1>2, PlacesMakeSeq
<1>4. Distinct(s) => Distinct(r)
  BY <1>1, <1>2, <1>3 DEF Distinct
<1> QED BY <1>1, <1>2, <1>3, <1>4 DEF n

\* handle_bb_sort_inv: an inventory in another order.
LEMMA SortedKeeps ==
    ASSUME NEW s \in Seq(Item), NEW order \in Bijection(DOMAIN s, DOMAIN s),
           NEW r, r = [i \in DOMAIN s |-> s[order[i]]]
    PROVE  /\ r \in Seq(Item) /\ Len(r) = Len(s)
           /\ Distinct(s) => Distinct(r)
           /\ Framed(s) => Framed(r)
<1> DEFINE n == Len(s)
<1>1. n \in Nat /\ s \in [1 .. n -> Item] /\ DOMAIN s = 1 .. n
  BY LenProperties
<1> HIDE DEF n
<1>2. /\ order \in [DOMAIN s -> DOMAIN s]
      /\ \A i, j \in DOMAIN s : order[i] = order[j] => i = j
      /\ \A j \in DOMAIN s : \E i \in DOMAIN s : order[i] = j
  BY DEF Bijection, Injection, Surjection, IsInjective
<1>3. r \in [1 .. n -> Item] /\ DOMAIN r = DOMAIN s
  BY <1>1, <1>2
<1>4. r \in Seq(Item) /\ Len(r) = n
  BY <1>1, <1>3, PlacesMakeSeq
<1>5. Distinct(s) => Distinct(r)
  BY <1>2, <1>3 DEF Distinct
<1>6. Framed(s) => Framed(r)
  BY <1>2, <1>3 DEF Framed
<1> QED BY <1>4, <1>5, <1>6 DEF n

(***************************************************************************)
(* The inductive invariant.                                                *)
(***************************************************************************)

Shown == [kind : Kind \cup {Blank}, n : Nat \ {0}]
Announcement == [item : Int \X Int, amt : Nat \ {0}]

Seated ==
    /\ seat \in [Slots -> Player \cup {Nobody}]
    /\ \A s, t \in Slots : seat[s] = seat[t] /\ seat[s] # Nobody => s = t
    /\ highest_item \in [Slots -> -1 .. MaxId] /\ item_id \in 0 .. MaxGiven
    /\ gone \subseteq Player /\ \A c \in gone : InTeam(c)

\* Inventories: their size, their numbers while their owners play, and what is worn.
Carrying ==
    /\ inv \in [Player -> Seq(Item)]
    /\ \A c \in Player : /\ Len(inv[c]) <= MaxInv /\ Framed(inv[c])
                         /\ InTeam(c) => Distinct(inv[c])

\* Nothing in a bank is worn, so that nothing worn comes out of it.
Banking ==
    /\ bank \in [Player -> Seq(Item)]
    /\ \A c \in Player : Len(bank[c]) <= MaxBank /\ AllOff(bank[c])

\* What is announced is part of a stack that its client still has, and nothing worn.
Announcing ==
    /\ drop_item \in [Player -> {Nobody} \cup Announcement]
    /\ \A c \in Player : drop_item[c] # Nobody =>
            /\ drop_item[c] \in Announcement /\ InTeam(c)
            /\ drop_item[c].item # NoId =>
                 \A i \in DOMAIN inv[c] : inv[c][i].id = drop_item[c].item => inv[c][i].kind \in Tool

Rest ==
    /\ floor \in Seq(Lying) /\ drops \in Seq(Kind \cup {Meseta})
    /\ snap \in [Player -> Seq(Shown)]
    /\ meseta \in [Player -> 0 .. MaxMeseta] /\ banked \in [Player -> 0 .. MaxMeseta]

ItemsInv == Seated /\ Carrying /\ Banking /\ Announcing /\ Rest

\* There are as many slots as clients.
LEMMA SlotNumbers == IsFiniteSet(Player) /\ Cardinality(Player) \in Nat /\ Slots \subseteq Nat
                     /\ IsFiniteSet(Slots) /\ Cardinality(Slots) = Cardinality(Player)
<1> DEFINE n == Cardinality(Player)
<1>1. IsFiniteSet(Player) /\ n \in Nat
  BY TeamItemsConstants, FS_CardinalityType
<1> HIDE DEF n
<1>2. 0 \in Int /\ n - 1 \in Int /\ Slots = 0 .. n - 1
  BY <1>1 DEF Slots, n
<1>3. IsFiniteSet(0 .. n - 1) /\ Cardinality(0 .. n - 1) = IF 0 > n - 1 THEN 0 ELSE (n - 1) - 0 + 1
  BY <1>2, FS_Interval
<1>4. (IF 0 > n - 1 THEN 0 ELSE (n - 1) - 0 + 1) = n
  BY <1>1
<1>5. 0 .. n - 1 \subseteq Nat
  BY <1>1
<1> QED BY <1>1, <1>2, <1>3, <1>4, <1>5 DEF n

\* The slot of a member is the one it sits in (c->client_id).
LEMMA SlotOfMember ==
    ASSUME Seated, NEW c \in Player, InTeam(c)
    PROVE  SlotOf(c) \in Slots /\ seat[SlotOf(c)] = c /\ \A s \in Slots : seat[s] = c => s = SlotOf(c)
<1>1. \E s \in Slots : seat[s] = c
  BY DEF InTeam
<1>2. SlotOf(c) \in Slots /\ seat[SlotOf(c)] = c
  BY <1>1 DEF SlotOf
<1>3. c # Nobody
  BY TeamItemsConstants
<1> QED BY <1>2, <1>3 DEF Seated

\* Whoever is not in the team finds a slot: there are as many as there are clients.
LEMMA SlotToTake ==
    ASSUME Seated, NEW c \in Player, ~InTeam(c)
    PROVE  Min({t \in Slots : seat[t] = Nobody}) \in {t \in Slots : seat[t] = Nobody}
<1> DEFINE free == {t \in Slots : seat[t] = Nobody}
<1>1. free # {}
  <2> SUFFICES ASSUME free = {} PROVE FALSE
    OBVIOUS
  <2> DEFINE others == Player \ {c}
  <2>1. IsFiniteSet(others) /\ Cardinality(others) = Cardinality(Player) - 1
    BY SlotNumbers, FS_RemoveElement
  <2>2. seat \in [Slots -> others]
    BY DEF Seated, InTeam
  <2>3. Cardinality(others) < Cardinality(Slots)
    <3> DEFINE n == Cardinality(Player)
               m == Cardinality(others)
    <3>1. n \in Nat /\ m = n - 1 /\ Cardinality(Slots) = n
      BY <2>1, SlotNumbers
    <3> HIDE DEF n, m
    <3>2. m < n
      BY <3>1
    <3> QED BY <3>1, <3>2 DEF m
  <2>4. IsFiniteSet(Slots)
    BY SlotNumbers
  <2>5. \A s \in Slots : seat[s] # Nobody
    BY <2>2, TeamItemsConstants
  <2> HIDE DEF others
  <2>6. \E x, y \in Slots : x # y /\ seat[x] = seat[y]
    BY ONLY <2>1, <2>2, <2>3, <2>4, FS_PigeonHole
  <2> QED BY <2>5, <2>6 DEF Seated
<1>2. free \in SUBSET Nat
  BY SlotNumbers
<1> QED BY <1>1, <1>2, MinOfNat

\* What clients arrive with fits.
LEMMA ItemsStart == ItemsInit => ItemsInv
<1> SUFFICES ASSUME ItemsInit PROVE ItemsInv
  OBVIOUS
<1>1. PICK first \in Start : inv = first.inv /\ meseta = first.meseta /\ drops = first.drops
  BY DEF ItemsInit
<1> DEFINE AtStart == [id : {NoId}, kind : Kind, n : Nat \ {0}, on : BOOLEAN]
<1>2. /\ drops \in Seq(Kind \cup {Meseta}) /\ meseta \in [Player -> 0 .. MaxMeseta]
      /\ inv \in [Player -> Seq(AtStart)]
      /\ \A c \in Player : Len(inv[c]) <= MaxInv /\ Framed(inv[c])
  BY <1>1, StartAssumption DEF Framed, WornUnit, IsWornFrame
<1>3. AtStart \subseteq Item /\ NoId \in Int \X Int
  BY DEF Item, NoId
<1>4. ASSUME NEW c \in Player PROVE inv[c] \in Seq(Item)
  <2> HIDE DEF AtStart
  <2> QED BY <1>2, <1>3, SeqMonotonic
<1>5. inv \in [Player -> Seq(Item)]
  BY <1>2, <1>4
<1>6. /\ seat = [s \in Slots |-> Nobody] /\ bank = [c \in Player |-> <<>>] /\ gone = {}
      /\ drop_item = [c \in Player |-> Nobody] /\ highest_item = [s \in Slots |-> 0] /\ item_id = 0
      /\ floor = <<>> /\ banked = [c \in Player |-> 0] /\ snap = [c \in Player |-> Contents(inv[c])]
  BY DEF ItemsInit
<1>7. \A c \in Player : ~InTeam(c)
  BY <1>6, TeamItemsConstants DEF InTeam
<1>8. Seated
  <2>1. highest_item \in [Slots -> -1 .. MaxId] /\ item_id \in 0 .. MaxGiven
    BY <1>6, TeamItemsConstants
  <2> QED BY <1>6, <2>1 DEF Seated
<1>9. Carrying
  BY <1>2, <1>5, <1>7 DEF Carrying
<1>10. Banking
  <2>1. <<>> \in Seq(Item) /\ Len(<<>>) = 0 /\ 0 <= MaxBank /\ DOMAIN <<>> = {}
    BY EmptySeq, TeamItemsConstants
  <2> QED BY <1>6, <2>1 DEF Banking, AllOff
<1>11. Announcing
  BY <1>6 DEF Announcing
<1>12. Rest
  <2>1. ASSUME NEW c \in Player PROVE snap[c] \in Seq(Shown)
    <3> DEFINE n == Len(inv[c])
               f == [i \in 1 .. n |-> [kind |-> inv[c][i].kind, n |-> inv[c][i].n]]
    <3>1. n \in Nat /\ DOMAIN inv[c] = 1 .. n /\ \A i \in 1 .. n : inv[c][i] \in Item
      BY <1>4, LenProperties, ElementOfSeq
    <3>2. snap[c] = f
      BY <1>6, <3>1 DEF Contents
    <3>3. f \in [1 .. n -> Shown]
      BY <3>1 DEF Item, Shown
    <3> HIDE DEF n, f
    <3> QED BY <3>1, <3>2, <3>3, PlacesMakeSeq
  <2>2. banked \in [Player -> 0 .. MaxMeseta]
    BY <1>6, TeamItemsConstants
  <2>3. floor \in Seq(Lying)
    BY <1>6, EmptySeq
  <2>4. snap \in [Player -> Seq(Shown)]
    BY <1>6, <2>1
  <2> QED BY <1>2, <2>2, <2>3, <2>4 DEF Rest
<1> QED BY <1>8, <1>9, <1>10, <1>11, <1>12 DEF ItemsInv

-----------------------------------------------------------------------------
(* What a step leaves alone, and what it may change.                       *)

\* One inventory is another.
LEMMA CarryingChanged ==
    ASSUME Carrying, UNCHANGED seat, NEW c \in Player, NEW x \in Seq(Item), inv' = [inv EXCEPT ![c] = x],
           Len(x) <= MaxInv, Framed(x), Distinct(x)
    PROVE  Carrying'
BY DEF Carrying, InTeam

\* No inventory changes.
LEMMA CarryingStays == ASSUME Carrying, UNCHANGED <<inv, seat>> PROVE Carrying'
BY DEF Carrying, InTeam

\* One bank is another.
LEMMA BankingChanged ==
    ASSUME Banking, NEW c \in Player, NEW x \in Seq(Item), bank' = [bank EXCEPT ![c] = x],
           Len(x) <= MaxBank, AllOff(x)
    PROVE  Banking'
BY DEF Banking

\* No bank changes.
LEMMA BankingStays == ASSUME Banking, UNCHANGED bank PROVE Banking'
BY DEF Banking

\* Nobody's inventory changes while it has something announced.
LEMMA AnnouncingStays ==
    ASSUME Announcing, UNCHANGED <<drop_item, seat>>, NEW c \in Player,
           drop_item[c] = Nobody \/ inv'[c] = inv[c], \A d \in Player \ {c} : inv'[d] = inv[d]
    PROVE  Announcing'
BY DEF Announcing, InTeam

\* What was announced is done, or its client is gone.
LEMMA AnnouncingEnds ==
    ASSUME Announcing, NEW c \in Player, drop_item' = [drop_item EXCEPT ![c] = Nobody],
           \A d \in Player \ {c} : inv'[d] = inv[d] /\ (InTeam(d) => InTeam(d)')
    PROVE  Announcing'
BY DEF Announcing

\* Everybody keeps its seat, and one handler at most fails.
LEMMA SeatedStays ==
    ASSUME Seated, UNCHANGED seat, NEW c, gone' \subseteq gone \cup {c}, c \in Player /\ InTeam(c),
           highest_item' \in [Slots -> -1 .. MaxId], item_id' \in 0 .. MaxGiven
    PROVE  Seated'
BY DEF Seated, InTeam

\* An item more lies on the floor.
LEMMA FloorTakes ==
    ASSUME floor \in Seq(Lying), NEW x \in Lying PROVE <<x>> \o floor \in Seq(Lying)
<1>1. <<x>> \in Seq(Lying)
  OBVIOUS
<1> QED BY <1>1, ConcatProperties

\* What a client carries and keeps, in the terms of its places.
LEMMA Carried ==
    ASSUME ItemsInv, NEW c \in Player
    PROVE  /\ inv[c] \in Seq(Item) /\ Len(inv[c]) <= MaxInv /\ Framed(inv[c]) /\ Len(inv[c]) \in Nat
           /\ DOMAIN inv[c] = 1 .. Len(inv[c]) /\ \A i \in DOMAIN inv[c] : inv[c][i] \in Item
           /\ InTeam(c) => Distinct(inv[c])
           /\ bank[c] \in Seq(Item) /\ Len(bank[c]) <= MaxBank /\ AllOff(bank[c]) /\ Len(bank[c]) \in Nat
           /\ DOMAIN bank[c] = 1 .. Len(bank[c]) /\ \A i \in DOMAIN bank[c] : bank[c][i] \in Item
           /\ MaxInv \in Nat /\ MaxBank \in Nat
<1>1. /\ inv[c] \in Seq(Item) /\ Len(inv[c]) <= MaxInv /\ Framed(inv[c])
      /\ InTeam(c) => Distinct(inv[c])
  BY DEF ItemsInv, Carrying
<1>2. bank[c] \in Seq(Item) /\ Len(bank[c]) <= MaxBank /\ AllOff(bank[c])
  BY DEF ItemsInv, Banking
<1>3. /\ Len(inv[c]) \in Nat /\ DOMAIN inv[c] = 1 .. Len(inv[c])
      /\ \A i \in DOMAIN inv[c] : inv[c][i] \in Item
  BY <1>1, LenProperties, ElementOfSeq
<1>4. /\ Len(bank[c]) \in Nat /\ DOMAIN bank[c] = 1 .. Len(bank[c])
      /\ \A i \in DOMAIN bank[c] : bank[c][i] \in Item
  BY <1>2, LenProperties, ElementOfSeq
<1> QED BY <1>1, <1>2, <1>3, <1>4, TeamItemsConstants

\* A client that is at leisure is a member and has nothing announced.
LEMMA AtLeisure == ASSUME NEW c, Idle(c) PROVE InTeam(c) /\ drop_item[c] = Nobody /\ c \notin gone
BY DEF Idle, Acts

\* What a member at leisure does with what it carries.
LEMMA OwnStep ==
    ASSUME ItemsInv, NEW c \in Player, Idle(c), NEW x \in Seq(Item), inv' = [inv EXCEPT ![c] = x],
           Len(x) <= MaxInv, Framed(x), Distinct(x), UNCHANGED <<seat, drop_item, highest_item>>,
           gone' \subseteq gone \cup {c}, item_id' \in 0 .. MaxGiven
    PROVE  Seated' /\ Carrying' /\ Announcing'
<1>1. InTeam(c) /\ drop_item[c] = Nobody
  BY AtLeisure
<1>2. Seated'
  BY <1>1, SeatedStays DEF ItemsInv, Seated
<1>3. Carrying'
  BY CarryingChanged DEF ItemsInv
<1>4. \A d \in Player \ {c} : inv'[d] = inv[d]
  BY DEF ItemsInv, Carrying
<1>5. Announcing'
  BY <1>1, <1>4, AnnouncingStays DEF ItemsInv
<1> QED BY <1>2, <1>3, <1>5

\* An item is dropped: a frame that was worn takes the units off.
LEMMA DropItemKeeps ==
    ASSUME ItemsInv, NEW c \in Player, NEW i \in DOMAIN inv[c], DropItem(c, i) PROVE ItemsInv'
<1> DEFINE s == inv[c]
           it == inv[c][i]
<1>1. /\ Idle(c) /\ floor' = <<Unequipped(it)>> \o floor
      /\ UNCHANGED <<seat, highest_item, item_id, snap, meseta, banked, bank, drop_item, gone, drops>>
  BY DEF DropItem, teamVars, purses
<1>2. PICK isframe \in IF IsWornFrame(it) THEN {TRUE} ELSE BOOLEAN :
         inv' = [inv EXCEPT ![c] = RemoveAt(IF isframe THEN UnitsOff(@) ELSE @, i)]
  BY DEF DropItem
<1> DEFINE base == IF isframe THEN UnitsOff(s) ELSE s
           x == RemoveAt(base, i)
<1>3. inv' = [inv EXCEPT ![c] = x]
  BY <1>2
<1>4. s \in Seq(Item) /\ Len(s) <= MaxInv /\ Framed(s) /\ Distinct(s) /\ it \in Item
  BY <1>1, AtLeisure, Carried
<1>5. /\ base \in Seq(Item) /\ i \in DOMAIN base /\ Len(base) = Len(s) /\ Distinct(base)
      /\ NoUnitsOn(base) \/ (base = s /\ ~IsWornFrame(s[i]))
  <2>1. CASE isframe
    <3>1. base = UnitsOff(s)
      BY <2>1
    <3> HIDE DEF base
    <3> QED BY <3>1, <1>4, UnitsOffKeeps
  <2>2. CASE ~isframe
    BY <1>4, <2>2
  <2> QED BY <2>1, <2>2
<1> HIDE DEF base, x
<1>6. /\ x \in Seq(Item) /\ Len(x) = Len(base) - 1 /\ Len(base) \in Nat \ {0}
      /\ Distinct(base) => Distinct(x)
      /\ AllOff(base) => AllOff(x)
      /\ NoUnitsOn(base) => NoUnitsOn(x)
      /\ Framed(base) /\ ~IsWornFrame(base[i]) => Framed(x)
  BY <1>5, RemovedKeeps DEF x
<1>7. Framed(x)
  <2>1. NoUnitsOn(x) => Framed(x)
    BY DEF NoUnitsOn, Framed
  <2> QED BY <1>4, <1>5, <1>6, <2>1
<1>8. Len(x) <= MaxInv
  <2> DEFINE a == Len(x)
             b == Len(base)
  <2>1. a = b - 1 /\ b \in Nat \ {0} /\ b <= MaxInv /\ MaxInv \in Nat
    BY <1>4, <1>5, <1>6, TeamItemsConstants
  <2> HIDE DEF a, b
  <2>2. a <= MaxInv
    BY <2>1
  <2> QED BY <2>2 DEF a
<1>9. Seated' /\ Carrying' /\ Announcing'
  BY <1>1, <1>3, <1>5, <1>6, <1>7, <1>8, OwnStep DEF ItemsInv, Seated
<1>10. Rest'
  <2>1. Unequipped(it) \in Lying
    BY <1>4 DEF Unequipped, Item, Lying
  <2>2. floor' \in Seq(Lying)
    BY <1>1, <2>1, FloorTakes DEF ItemsInv, Rest
  <2> QED BY <1>1, <2>2 DEF ItemsInv, Rest
<1> QED BY <1>1, <1>9, <1>10, BankingStays DEF ItemsInv

\* An item is put on.
LEMMA EquipKeeps ==
    ASSUME ItemsInv, NEW c \in Player, NEW i \in DOMAIN inv[c], Equip(c, i) PROVE ItemsInv'
<1> DEFINE s == inv[c]
           x == [s EXCEPT ![i].on = TRUE]
<1>1. /\ Idle(c) /\ inv' = [inv EXCEPT ![c] = x]
      /\ s[i].kind \in Unit => \E j \in DOMAIN s : IsWornFrame(s[j])
      /\ UNCHANGED <<seat, highest_item, item_id, snap, meseta, banked, bank, drop_item, floor, gone, drops>>
  BY DEF Equip, teamVars, purses
<1>2. s \in Seq(Item) /\ Len(s) <= MaxInv /\ Framed(s) /\ Distinct(s)
  BY <1>1, AtLeisure, Carried
<1>b. s[i] \in Item
  BY <1>2, Carried
<1>c. PICK e \in Item : e = [s[i] EXCEPT !.on = TRUE]
  BY <1>b DEF Item
<1>a. x = [s EXCEPT ![i] = e] /\ e.id = s[i].id /\ e.kind = s[i].kind /\ e.on = TRUE
  BY <1>b, <1>c DEF Item
<1> HIDE DEF x
<1>d. /\ x \in Seq(Item) /\ Len(x) = Len(s) /\ DOMAIN x = DOMAIN s
      /\ Distinct(s) => Distinct(x)
      /\ x[i] = e /\ \A k \in DOMAIN s : k # i => x[k] = s[k]
  BY <1>2, <1>a, WornShape
<1>3. /\ x \in Seq(Item) /\ Len(x) = Len(s) /\ DOMAIN x = DOMAIN s
      /\ Distinct(s) => Distinct(x)
      /\ \A k \in DOMAIN s : x[k].kind = s[k].kind /\ (k # i => x[k] = s[k])
      /\ x[i].on = TRUE
  BY <1>a, <1>d
<1>4. Framed(x)
  <2>1. \A j \in DOMAIN s : IsWornFrame(s[j]) => IsWornFrame(x[j])
    BY <1>3 DEF IsWornFrame
  <2>2. \A j \in DOMAIN s : WornUnit(x[j]) => j = i \/ WornUnit(s[j])
    BY <1>3 DEF WornUnit
  <2>3. WornUnit(x[i]) => s[i].kind \in Unit
    BY <1>3 DEF WornUnit
  <2> QED BY <1>1, <1>2, <1>3, <2>1, <2>2, <2>3 DEF Framed
<1>5. Seated' /\ Carrying' /\ Announcing'
  BY <1>1, <1>2, <1>3, <1>4, OwnStep DEF ItemsInv, Seated
<1> QED BY <1>1, <1>5, BankingStays DEF ItemsInv, Rest

\* An item is taken off: a frame takes the units off.
LEMMA UnequipKeeps ==
    ASSUME ItemsInv, NEW c \in Player, NEW i \in DOMAIN inv[c], Unequip(c, i) PROVE ItemsInv'
<1> DEFINE s == inv[c]
           y == [s EXCEPT ![i].on = FALSE]
           x == IF s[i].kind \in Frame THEN UnitsOff(y) ELSE y
<1>1. /\ Idle(c) /\ inv' = [inv EXCEPT ![c] = x]
      /\ UNCHANGED <<seat, highest_item, item_id, snap, meseta, banked, bank, drop_item, floor, gone, drops>>
  BY DEF Unequip, teamVars, purses
<1>2. s \in Seq(Item) /\ Len(s) <= MaxInv /\ Framed(s) /\ Distinct(s)
  BY <1>1, AtLeisure, Carried
<1>b. s[i] \in Item
  BY <1>2, Carried
<1>c. PICK e \in Item : e = [s[i] EXCEPT !.on = FALSE]
  BY <1>b DEF Item
<1>a. y = [s EXCEPT ![i] = e] /\ e.id = s[i].id /\ e.kind = s[i].kind /\ e.on = FALSE
  BY <1>b, <1>c DEF Item
<1> HIDE DEF y
<1>d. /\ y \in Seq(Item) /\ Len(y) = Len(s) /\ DOMAIN y = DOMAIN s
      /\ Distinct(s) => Distinct(y)
      /\ y[i] = e /\ \A k \in DOMAIN s : k # i => y[k] = s[k]
  BY <1>2, <1>a, WornShape
<1>3. /\ y \in Seq(Item) /\ Len(y) = Len(s) /\ DOMAIN y = DOMAIN s
      /\ Distinct(s) => Distinct(y)
      /\ \A k \in DOMAIN s : y[k].kind = s[k].kind /\ (k # i => y[k] = s[k])
      /\ y[i].on = FALSE
  BY <1>a, <1>d
<1>4. x \in Seq(Item) /\ Len(x) = Len(s) /\ Distinct(x) /\ Framed(x)
  <2>1. CASE s[i].kind \in Frame
    <3>1. x = UnitsOff(y)
      BY <2>1
    <3> HIDE DEF x
    <3>2. x \in Seq(Item) /\ Len(x) = Len(y) /\ Distinct(x) /\ NoUnitsOn(x)
      BY <1>2, <1>3, <3>1, UnitsOffKeeps
    <3> QED BY <1>3, <3>2 DEF NoUnitsOn, Framed
  <2>2. CASE s[i].kind \notin Frame
    <3>1. x = y
      BY <2>2
    <3>2. \A j \in DOMAIN s : IsWornFrame(s[j]) => IsWornFrame(y[j])
      BY <1>3, <2>2 DEF IsWornFrame
    <3>3. \A j \in DOMAIN s : WornUnit(y[j]) => WornUnit(s[j])
      BY <1>3 DEF WornUnit
    <3>4. Framed(y)
      BY <1>2, <1>3, <3>2, <3>3 DEF Framed
    <3> QED BY <1>2, <1>3, <3>1, <3>4
  <2> QED BY <2>1, <2>2
<1> HIDE DEF x
<1>5. Seated' /\ Carrying' /\ Announcing'
  BY <1>1, <1>2, <1>4, OwnStep DEF ItemsInv, Seated
<1> QED BY <1>1, <1>5, BankingStays DEF ItemsInv, Rest

\* An inventory is sorted.
LEMMA SortKeeps ==
    ASSUME ItemsInv, NEW c \in Player, NEW order \in Bijection(DOMAIN inv[c], DOMAIN inv[c]), Sort(c, order)
    PROVE  ItemsInv'
<1> DEFINE s == inv[c]
           x == [i \in DOMAIN s |-> s[order[i]]]
<1>1. /\ Idle(c) /\ inv' = [inv EXCEPT ![c] = x]
      /\ UNCHANGED <<seat, highest_item, item_id, snap, meseta, banked, bank, drop_item, floor, gone, drops>>
  BY DEF Sort, teamVars, purses
<1>2. s \in Seq(Item) /\ Len(s) <= MaxInv /\ Framed(s) /\ Distinct(s)
  BY <1>1, AtLeisure, Carried
<1> HIDE DEF x
<1>3. x \in Seq(Item) /\ Len(x) = Len(s) /\ Distinct(x) /\ Framed(x)
  BY <1>2, SortedKeeps DEF x
<1>4. Seated' /\ Carrying' /\ Announcing'
  BY <1>1, <1>2, <1>3, OwnStep DEF ItemsInv, Seated
<1> QED BY <1>1, <1>4, BankingStays DEF ItemsInv, Rest

\* The medical center takes its fee.
LEMMA MedicKeeps == ASSUME ItemsInv, NEW c \in Player, Medic(c) PROVE ItemsInv'
<1>1. meseta \in [Player -> 0 .. MaxMeseta] /\ MaxMeseta \in Nat /\ Fee \in Nat
  BY TeamItemsConstants DEF ItemsInv, Rest
<1>2. meseta[c] - Fee \in 0 .. MaxMeseta
  BY <1>1 DEF Medic
<1>3. meseta' \in [Player -> 0 .. MaxMeseta]
  BY <1>1, <1>2 DEF Medic
<1>4. Seated' /\ Carrying' /\ Banking' /\ Announcing'
  BY DEF Medic, teamVars, ItemsInv, Seated, Carrying, Banking, Announcing, InTeam
<1> QED BY <1>3, <1>4 DEF Medic, teamVars, ItemsInv, Rest

\* Meseta that goes between purse and bank.
LEMMA MoneyKeeps ==
    ASSUME ItemsInv, NEW c \in Player, NEW n \in 1 .. MaxMeseta,
           DepositMeseta(c, n) \/ WithdrawMeseta(c, n)
    PROVE  ItemsInv'
<1>1. /\ UNCHANGED <<inv, seat, highest_item, item_id, snap, bank, drop_item, floor, gone, drops>>
  BY DEF DepositMeseta, WithdrawMeseta, teamVars
<1>2. meseta \in [Player -> 0 .. MaxMeseta] /\ banked \in [Player -> 0 .. MaxMeseta]
  BY DEF ItemsInv, Rest
<1>a. meseta[c] \in 0 .. MaxMeseta /\ banked[c] \in 0 .. MaxMeseta /\ MaxMeseta \in Nat
  BY <1>2, TeamItemsConstants
<1>3. meseta' \in [Player -> 0 .. MaxMeseta] /\ banked' \in [Player -> 0 .. MaxMeseta]
  <2>1. CASE DepositMeseta(c, n)
    <3>1. meseta[c] - n \in 0 .. MaxMeseta /\ banked[c] + n \in 0 .. MaxMeseta
      BY <1>a, <2>1 DEF DepositMeseta
    <3> QED BY <1>2, <2>1, <3>1 DEF DepositMeseta
  <2>2. CASE WithdrawMeseta(c, n)
    <3>1. meseta[c] + n \in 0 .. MaxMeseta /\ banked[c] - n \in 0 .. MaxMeseta
      BY <1>a, <2>2 DEF WithdrawMeseta
    <3> QED BY <1>2, <2>2, <3>1 DEF WithdrawMeseta
  <2> QED BY <2>1, <2>2
<1>4. Seated' /\ Carrying' /\ Banking' /\ Announcing'
  BY <1>1 DEF ItemsInv, Seated, Carrying, Banking, Announcing, InTeam
<1> QED BY <1>1, <1>3, <1>4 DEF ItemsInv, Rest

\* What is announced is part of a stack: numbers are distinct, so no other item is meant.
LEMMA DropPosKeeps ==
    ASSUME ItemsInv, NEW c \in Player, NEW i \in DOMAIN inv[c], NEW n \in 1 .. inv[c][i].n, DropPos(c, i, n)
    PROVE  ItemsInv'
<1> DEFINE a == [item |-> inv[c][i].id, amt |-> n]
<1>1. /\ Idle(c) /\ inv[c][i].kind \in Tool /\ drop_item' = [drop_item EXCEPT ![c] = a]
      /\ UNCHANGED <<inv, seat, highest_item, item_id, snap, meseta, banked, bank, floor, gone, drops>>
  BY DEF DropPos, teamVars, purses
<1>2. InTeam(c) /\ Distinct(inv[c]) /\ inv[c][i] \in Item
  BY <1>1, AtLeisure, Carried
<1>3. a \in Announcement
  <2>1. inv[c][i].id \in Int \X Int /\ inv[c][i].n \in Nat \ {0}
    BY <1>2 DEF Item
  <2>2. n \in Nat \ {0}
    BY <2>1
  <2> QED BY <2>1, <2>2 DEF Announcement
<1>4. \A j \in DOMAIN inv[c] : inv[c][j].id = a.item => inv[c][j].kind \in Tool
  BY <1>1, <1>2 DEF Distinct
<1> HIDE DEF a
<1>5. Announcing'
  BY <1>1, <1>2, <1>3, <1>4 DEF ItemsInv, Announcing, InTeam
<1>6. Seated' /\ Carrying' /\ Banking' /\ Rest'
  BY <1>1 DEF ItemsInv, Seated, Carrying, Banking, Rest, InTeam
<1> QED BY <1>5, <1>6 DEF ItemsInv

\* Meseta is announced under no number.
LEMMA DropPosMesetaKeeps ==
    ASSUME ItemsInv, NEW c \in Player, NEW n \in 1 .. MaxMeseta, DropPosMeseta(c, n) PROVE ItemsInv'
<1> DEFINE a == [item |-> NoId, amt |-> n]
<1>1. /\ Idle(c) /\ drop_item' = [drop_item EXCEPT ![c] = a]
      /\ UNCHANGED <<inv, seat, highest_item, item_id, snap, meseta, banked, bank, floor, gone, drops>>
  BY DEF DropPosMeseta, teamVars, purses
<1>2. InTeam(c)
  BY <1>1, AtLeisure
<1>3. a \in Announcement /\ a.item = NoId
  BY TeamItemsConstants DEF Announcement, NoId
<1> HIDE DEF a
<1>5. Announcing'
  BY <1>1, <1>2, <1>3 DEF ItemsInv, Announcing, InTeam
<1>6. Seated' /\ Carrying' /\ Banking' /\ Rest'
  BY <1>1 DEF ItemsInv, Seated, Carrying, Banking, Rest, InTeam
<1> QED BY <1>5, <1>6 DEF ItemsInv

\* The number that is given out is the next of the client's slot.
LEMMA NumberedFits ==
    ASSUME ItemsInv, NEW c \in Player, InTeam(c), Numbered(c)
    PROVE  /\ highest_item' \in [Slots -> -1 .. MaxId]
           /\ <<SlotOf(c), highest_item[SlotOf(c)] + 1>> \in Int \X Int
<1>1. SlotOf(c) \in Slots
  BY SlotOfMember DEF ItemsInv
<1> DEFINE s == SlotOf(c)
           h == highest_item[s]
<1>2. h \in -1 .. MaxId /\ h < MaxId /\ highest_item' = [highest_item EXCEPT ![s] = h + 1] /\ MaxId \in Nat
  BY <1>1, TeamItemsConstants DEF ItemsInv, Seated, Numbered
<1>3. s \in Int /\ s \in Slots
  <2>1. Slots \subseteq Nat
    BY SlotNumbers
  <2> HIDE DEF s
  <2>2. s \in Slots
    BY <1>1 DEF s
  <2> QED BY <2>1, <2>2
<1> HIDE DEF s, h
<1>4. h + 1 \in -1 .. MaxId /\ h + 1 \in Int
  BY <1>2
<1>5. highest_item' \in [Slots -> -1 .. MaxId]
  BY <1>2, <1>3, <1>4 DEF ItemsInv, Seated
<1> QED BY <1>3, <1>4, <1>5 DEF s, h

\* Part of a stack goes to the floor: what was announced is a Tool, so no frame goes with it.
LEMMA DropStackKeeps == ASSUME ItemsInv, NEW c \in Player, DropStack(c) PROVE ItemsInv'
<1> DEFINE s == inv[c]
           found == {i \in DOMAIN s : s[i].id = drop_item[c].item}
           at == Min(found)
           amt == drop_item[c].amt
           x == Less(s, at, amt)
           new == Split(c, SnapAt(c, at))
<1>1. /\ InTeam(c) /\ c \notin gone /\ drop_item[c] # Nobody /\ drop_item[c].item # NoId
      /\ found # {} /\ Numbered(c) /\ floor' = <<new>> \o floor
      /\ inv' = [inv EXCEPT ![c] = x] /\ drop_item' = [drop_item EXCEPT ![c] = Nobody]
      /\ UNCHANGED <<meseta, banked, seat, item_id, snap, bank, gone, drops>>
  BY DEF DropStack, Acts, purses
<1>2. s \in Seq(Item) /\ Len(s) <= MaxInv /\ Framed(s) /\ Distinct(s) /\ DOMAIN s = 1 .. Len(s)
  BY <1>1, Carried
<1>3. at \in found
  <2>1. found \in SUBSET Nat
    BY <1>2
  <2> HIDE DEF found
  <2> QED BY <1>1, <2>1, MinOfNat
<1>4. amt \in Nat \ {0} /\ at \in DOMAIN s /\ s[at].kind \in Tool /\ ~IsWornFrame(s[at])
  <2>1. drop_item[c] \in Announcement /\ at \in DOMAIN s /\ s[at].kind \in Tool
    BY <1>1, <1>3 DEF ItemsInv, Announcing
  <2> QED BY <2>1, TeamItemsConstants DEF Announcement, IsWornFrame
<1>5. new \in Lying
  <2>1. SnapAt(c, at) \in Kind \cup {Blank}
    <3>1. snap[c] \in Seq(Shown)
      BY DEF ItemsInv, Rest
    <3>2. \A i \in DOMAIN snap[c] : snap[c][i] \in Shown
      BY <3>1
    <3> QED BY <3>2 DEF SnapAt, Shown
  <2>2. <<SlotOf(c), highest_item[SlotOf(c)] + 1>> \in Int \X Int
    BY <1>1, NumberedFits
  <2> QED BY <1>4, <2>1, <2>2 DEF Split, Lying
<1> HIDE DEF new, at, found, amt, x
<1>6. /\ x \in Seq(Item) /\ Len(x) <= Len(s) /\ Len(s) \in Nat /\ Len(x) \in Nat
      /\ Distinct(s) => Distinct(x)
      /\ AllOff(s) => AllOff(x)
      /\ NoUnitsOn(s) => NoUnitsOn(x)
      /\ Framed(s) /\ ~IsWornFrame(s[at]) => Framed(x)
  BY <1>2, <1>4, LessKeeps DEF x
<1>7. Len(x) <= MaxInv
  BY <1>2, <1>6, TeamItemsConstants
<1>8. Carrying'
  BY <1>1, <1>2, <1>4, <1>6, <1>7, CarryingChanged DEF ItemsInv
<1>9. highest_item' \in [Slots -> -1 .. MaxId]
  BY <1>1, NumberedFits
<1>10. Seated'
  BY <1>1, <1>9, SeatedStays DEF ItemsInv, Seated
<1>11. \A d \in Player \ {c} : inv'[d] = inv[d] /\ (InTeam(d) => InTeam(d)')
  BY <1>1 DEF ItemsInv, Carrying, InTeam
<1>12. Announcing'
  BY <1>1, <1>11, AnnouncingEnds DEF ItemsInv
<1>13. Rest'
  <2>1. floor' \in Seq(Lying)
    BY <1>1, <1>5, FloorTakes DEF ItemsInv, Rest
  <2> QED BY <1>1, <2>1 DEF ItemsInv, Rest
<1> QED BY <1>1, <1>8, <1>10, <1>12, <1>13, BankingStays DEF ItemsInv

\* Meseta goes to the floor, or its client's handler fails.
LEMMA DropMesetaKeeps == ASSUME ItemsInv, NEW c \in Player, DropMeseta(c) PROVE ItemsInv'
<1> DEFINE amt == drop_item[c].amt
           new == Split(c, Meseta)
<1>1. /\ InTeam(c) /\ drop_item[c] # Nobody
      /\ Numbered(c) /\ floor' = <<new>> \o floor
      /\ drop_item' = [drop_item EXCEPT ![c] = Nobody]
      /\ IF amt > meseta[c] THEN gone' = gone \cup {c} /\ UNCHANGED meseta
         ELSE meseta' = [meseta EXCEPT ![c] = @ - amt] /\ UNCHANGED gone
      /\ UNCHANGED <<inv, banked, seat, item_id, snap, bank, drops>>
  BY DEF DropMeseta, Acts
<1>2. amt \in Nat \ {0}
  BY <1>1 DEF ItemsInv, Announcing, Announcement
<1>3. new \in Lying
  <2>1. <<SlotOf(c), highest_item[SlotOf(c)] + 1>> \in Int \X Int
    BY <1>1, NumberedFits
  <2> QED BY <1>2, <2>1 DEF Split, Lying
<1> HIDE DEF new, amt
<1>4. meseta' \in [Player -> 0 .. MaxMeseta] /\ gone' \subseteq gone \cup {c}
  <2>1. meseta \in [Player -> 0 .. MaxMeseta] /\ MaxMeseta \in Nat
    BY TeamItemsConstants DEF ItemsInv, Rest
  <2>2. CASE amt > meseta[c]
    BY <1>1, <2>1, <2>2
  <2>3. CASE ~(amt > meseta[c])
    <3>1. meseta[c] - amt \in 0 .. MaxMeseta
      BY <1>2, <2>1, <2>3
    <3> QED BY <1>1, <2>1, <2>3, <3>1
  <2> QED BY <2>2, <2>3
<1>5. highest_item' \in [Slots -> -1 .. MaxId]
  BY <1>1, NumberedFits
<1>6. Seated'
  BY <1>1, <1>4, <1>5, SeatedStays DEF ItemsInv, Seated
<1>7. \A d \in Player \ {c} : inv'[d] = inv[d] /\ (InTeam(d) => InTeam(d)')
  BY <1>1 DEF InTeam
<1>8. Announcing'
  BY <1>1, <1>7, AnnouncingEnds DEF ItemsInv
<1>9. Rest'
  <2>1. floor' \in Seq(Lying)
    BY <1>1, <1>3, FloorTakes DEF ItemsInv, Rest
  <2> QED BY <1>1, <1>4, <2>1 DEF ItemsInv, Rest
<1> QED BY <1>1, <1>6, <1>8, <1>9, BankingStays, CarryingStays DEF ItemsInv

\* A pick-up: the item leaves the floor, and goes to the purse or on the inventory, unworn.
LEMMA PickUpKeeps ==
    ASSUME ItemsInv, NEW c \in Player, NEW id \in {floor[i].id : i \in DOMAIN floor}, PickUp(c, id)
    PROVE  ItemsInv'
<1> DEFINE s == inv[c]
           spots == {j \in DOMAIN floor : floor[j].id = id}
           at == Min(spots)
           it == floor[at]
           left == RemoveAt(floor, at)
           x == Stacked(s, Unequipped(it))
<1>1. /\ Idle(c) /\ floor' = left
      /\ CASE it.kind = Meseta ->
                /\ meseta' = [meseta EXCEPT ![c] = Min({@ + it.n, MaxMeseta})]
                /\ UNCHANGED <<inv, gone>>
           [] it.kind # Meseta /\ Takes(s, it) -> inv' = [inv EXCEPT ![c] = x] /\ UNCHANGED <<meseta, gone>>
           [] OTHER -> gone' = gone \cup {c} /\ UNCHANGED <<meseta, inv>>
      /\ UNCHANGED <<banked, seat, highest_item, item_id, snap, bank, drop_item, drops>>
  BY DEF PickUp, teamVars
<1>2. /\ InTeam(c) /\ drop_item[c] = Nobody /\ s \in Seq(Item) /\ Len(s) <= MaxInv /\ Framed(s) /\ Distinct(s)
  BY <1>1, AtLeisure, Carried
<1>3. /\ floor \in Seq(Lying) /\ DOMAIN floor = 1 .. Len(floor) /\ Len(floor) \in Nat
      /\ \A j \in DOMAIN floor : floor[j] \in Lying
  BY LenProperties, ElementOfSeq DEF ItemsInv, Rest
<1>4. at \in DOMAIN floor
  <2>1. spots # {} /\ spots \in SUBSET Nat
    BY <1>3
  <2>2. spots \subseteq DOMAIN floor
    OBVIOUS
  <2> HIDE DEF spots
  <2> QED BY <2>1, <2>2, MinOfNat
<1>5. it \in Lying
  BY <1>3, <1>4
<1>6. left \in Seq(Lying)
  <2> HIDE DEF left, at
  <2> QED BY <1>3, <1>4, RemovedShape DEF left
<1> HIDE DEF at, left, it, spots
<1>7. CASE it.kind = Meseta
  <2>1. meseta' = [meseta EXCEPT ![c] = Min({@ + it.n, MaxMeseta})] /\ UNCHANGED <<inv, gone>>
    BY <1>1, <1>7
  <2>2. Min({meseta[c] + it.n, MaxMeseta}) \in 0 .. MaxMeseta
    <3> DEFINE a == meseta[c] + it.n
    <3>1. a \in Nat /\ MaxMeseta \in Nat
      <4>1. MaxMeseta \in Nat
        BY TeamItemsConstants
      <4>2. it.n \in Nat
        BY <1>5 DEF Lying
      <4>3. meseta[c] \in 0 .. MaxMeseta
        BY DEF ItemsInv, Rest
      <4> QED BY <4>1, <4>2, <4>3
    <3> HIDE DEF a
    <3>2. {a, MaxMeseta} \in SUBSET Nat /\ {a, MaxMeseta} # {}
      BY <3>1
    <3>3. Min({a, MaxMeseta}) \in {a, MaxMeseta} /\ \A y \in {a, MaxMeseta} : Min({a, MaxMeseta}) <= y
      BY <3>2, MinOfNat
    <3>4. Min({a, MaxMeseta}) \in 0 .. MaxMeseta
      BY <3>1, <3>3
    <3> QED BY <3>4 DEF a
  <2>3. meseta' \in [Player -> 0 .. MaxMeseta]
    BY <2>1, <2>2 DEF ItemsInv, Rest
  <2>4. Seated' /\ Carrying' /\ Banking' /\ Announcing'
    BY <1>1, <2>1 DEF ItemsInv, Seated, Carrying, Banking, Announcing, InTeam
  <2> QED BY <1>1, <1>6, <2>3, <2>4 DEF ItemsInv, Rest
<1>8. CASE it.kind # Meseta /\ Takes(s, it)
  <2>1. inv' = [inv EXCEPT ![c] = x] /\ UNCHANGED <<meseta, gone>>
    BY <1>1, <1>8
  <2>a. it.kind \in Kind \cup {Blank}
    BY <1>5, <1>8 DEF Lying
  <2> DEFINE off == [it EXCEPT !.on = FALSE]
  <2>b. off \in Item /\ off.on = FALSE /\ off.id = it.id /\ off = Unequipped(it)
    BY <1>5, <2>a DEF Unequipped, Item, Lying
  <2>2. PICK e \in Item : e = Unequipped(it) /\ ~e.on /\ e.id = it.id
    <3> HIDE DEF off
    <3> QED BY <2>b
  <2>3. x = Stacked(s, e)
    BY <2>2
  <2> HIDE DEF x
  <2>4. Len(s) # MaxInv /\ \A i \in DOMAIN s : s[i].id # e.id
    BY <1>8, <2>2 DEF Takes
  <2>5. /\ x \in Seq(Item) /\ Len(s) \in Nat /\ Len(x) \in {Len(s), Len(s) + 1}
        /\ Distinct(s) /\ (\A i \in DOMAIN s : s[i].id # e.id) => Distinct(x)
        /\ AllOff(s) => AllOff(x)
        /\ Framed(s) => Framed(x)
    BY <1>2, <2>2, <2>3, StackedKeeps
  <2>6. Len(x) <= MaxInv
    BY <1>2, <2>4, <2>5, TeamItemsConstants
  <2>7. Seated' /\ Carrying' /\ Announcing'
    BY <1>1, <1>2, <2>1, <2>4, <2>5, <2>6, OwnStep DEF ItemsInv, Seated
  <2>8. Rest'
    BY <1>1, <1>6, <2>1 DEF ItemsInv, Rest
  <2> QED BY <1>1, <2>7, <2>8, BankingStays DEF ItemsInv
<1>9. CASE it.kind # Meseta /\ ~Takes(s, it)
  <2>1. gone' = gone \cup {c} /\ UNCHANGED <<meseta, inv>>
    BY <1>1, <1>9
  <2>2. Seated'
    BY <1>1, <1>2, <2>1, SeatedStays DEF ItemsInv, Seated
  <2>3. Carrying' /\ Banking' /\ Announcing' /\ Rest'
    BY <1>1, <1>6, <2>1 DEF ItemsInv, Carrying, Banking, Announcing, Rest, InTeam
  <2> QED BY <2>2, <2>3 DEF ItemsInv
<1> QED BY <1>7, <1>8, <1>9

\* A deposit: a frame that was worn takes the units off, and nothing worn goes to the bank.
LEMMA DepositKeeps ==
    ASSUME ItemsInv, NEW c \in Player, NEW i \in DOMAIN inv[c], NEW n \in 1 .. inv[c][i].n, Deposit(c, i, n)
    PROVE  ItemsInv'
<1> DEFINE s == inv[c]
           it == s[i]
           left == Less(s, i, n)
           x == IF IsWornFrame(it) THEN UnitsOff(left) ELSE left
           b == bank[c]
           put == [Unequipped(it) EXCEPT !.n = n, !.id = NoId]
           y == Stacked(b, put)
<1>1. /\ Idle(c) /\ inv' = [inv EXCEPT ![c] = x]
      /\ IF BankTakes(b) THEN bank' = [bank EXCEPT ![c] = y] /\ UNCHANGED gone
         ELSE gone' = gone \cup {c} /\ UNCHANGED bank
      /\ UNCHANGED <<meseta, banked, seat, highest_item, item_id, snap, drop_item, floor, drops>>
  BY DEF Deposit, teamVars, purses
<1>2. /\ InTeam(c) /\ s \in Seq(Item) /\ Len(s) <= MaxInv /\ Framed(s) /\ Distinct(s)
      /\ b \in Seq(Item) /\ Len(b) <= MaxBank /\ AllOff(b) /\ it \in Item
  BY <1>1, AtLeisure, Carried
<1>3. n \in Nat \ {0}
  BY <1>2 DEF Item
<1>a. PICK left_ : left_ = left
  OBVIOUS
<1>4. /\ left_ \in Seq(Item) /\ Len(left_) <= Len(s) /\ Len(s) \in Nat /\ Len(left_) \in Nat
      /\ Distinct(s) => Distinct(left_)
      /\ AllOff(s) => AllOff(left_)
      /\ NoUnitsOn(s) => NoUnitsOn(left_)
      /\ Framed(s) /\ ~IsWornFrame(s[i]) => Framed(left_)
  BY <1>2, <1>3, <1>a, LessKeeps
<1>5. x \in Seq(Item) /\ Len(x) = Len(left_) /\ Distinct(x) /\ Framed(x)
  <2>1. CASE IsWornFrame(it)
    <3>1. x = UnitsOff(left_)
      BY <1>a, <2>1
    <3> HIDE DEF x
    <3>2. x \in Seq(Item) /\ Len(x) = Len(left_) /\ Distinct(x) /\ NoUnitsOn(x)
      BY <1>2, <1>4, <3>1, UnitsOffKeeps
    <3> QED BY <3>2 DEF NoUnitsOn, Framed
  <2>2. CASE ~IsWornFrame(it)
    <3>1. x = left_
      BY <1>a, <2>2
    <3> HIDE DEF x
    <3> QED BY <1>2, <1>4, <2>2, <3>1
  <2> QED BY <2>1, <2>2
<1> HIDE DEF x, left
<1>6. Len(x) <= MaxInv
  BY <1>2, <1>4, <1>5, TeamItemsConstants
<1>b. gone' \subseteq gone \cup {c}
  BY <1>1
<1>7. Seated' /\ Carrying' /\ Announcing'
  BY <1>1, <1>b, <1>2, <1>5, <1>6, OwnStep DEF ItemsInv, Seated
<1>8. Banking'
  <2>1. CASE BankTakes(b)
    <3>a. put \in Item /\ put.on = FALSE
      <4>1. NoId \in Int \X Int
        BY DEF NoId
      <4> QED BY <1>2, <1>3, <4>1 DEF Unequipped, Item
    <3>1. PICK e \in Item : e = put /\ ~e.on
      <4> HIDE DEF put
      <4> QED BY <3>a
    <3>2. y = Stacked(b, e)
      BY <3>1
    <3> HIDE DEF y, put
    <3>3. /\ y \in Seq(Item) /\ Len(b) \in Nat /\ Len(y) \in {Len(b), Len(b) + 1}
          /\ Distinct(b) /\ (\A k \in DOMAIN b : b[k].id # e.id) => Distinct(y)
          /\ AllOff(b) => AllOff(y)
          /\ Framed(b) => Framed(y)
      BY <1>2, <3>1, <3>2, StackedKeeps
    <3>4. Len(y) <= MaxBank
      BY <1>2, <2>1, <3>3, TeamItemsConstants DEF BankTakes
    <3> QED BY <1>1, <1>2, <2>1, <3>3, <3>4, BankingChanged DEF ItemsInv
  <2>2. CASE ~BankTakes(b)
    BY <1>1, <2>2, BankingStays DEF ItemsInv
  <2> QED BY <2>1, <2>2
<1> QED BY <1>1, <1>7, <1>8 DEF ItemsInv, Rest

\* A withdrawal: what comes out of a bank is not worn, and has the team's next number.
LEMMA WithdrawKeeps ==
    ASSUME ItemsInv, NEW c \in Player, NEW j \in DOMAIN bank[c], NEW n \in 1 .. bank[c][j].n, Withdraw(c, j, n)
    PROVE  ItemsInv'
<1> DEFINE s == inv[c]
           b == bank[c]
           it == [b[j] EXCEPT !.n = n]
           left == Less(b, j, n)
           new == [it EXCEPT !.id = <<OfTeam, item_id>>]
           x == Stacked(s, new)
           y == Stacked(left, it)
<1>1. /\ Idle(c) /\ item_id < MaxGiven /\ item_id' = item_id + 1
      /\ IF Takes(s, new)
         THEN inv' = [inv EXCEPT ![c] = x] /\ bank' = [bank EXCEPT ![c] = left] /\ UNCHANGED gone
         ELSE /\ bank' = [bank EXCEPT ![c] = IF BankTakes(left) THEN y ELSE left]
              /\ gone' = gone \cup {c} /\ UNCHANGED inv
      /\ UNCHANGED <<meseta, banked, seat, highest_item, snap, drop_item, floor, drops>>
  BY DEF Withdraw, purses
<1>2. /\ InTeam(c) /\ s \in Seq(Item) /\ Len(s) <= MaxInv /\ Framed(s) /\ Distinct(s)
      /\ b \in Seq(Item) /\ Len(b) <= MaxBank /\ AllOff(b) /\ b[j] \in Item /\ b[j].on = FALSE
  <2>1. b[j] \in Item /\ ~b[j].on
    BY Carried DEF AllOff
  <2> QED BY <1>1, <2>1, AtLeisure, Carried DEF Item
<1>3. n \in Nat \ {0} /\ item_id \in Nat /\ item_id' \in 0 .. MaxGiven
  <2>1. b[j].n \in Nat /\ item_id \in 0 .. MaxGiven /\ MaxGiven \in Nat
    BY <1>2, TeamItemsConstants DEF ItemsInv, Seated, Item
  <2> QED BY <1>1, <2>1
<1>4. it \in Item /\ it.on = FALSE
  BY <1>2, <1>3 DEF Item
<1>5. new \in Item /\ new.on = FALSE
  <2>1. <<OfTeam, item_id>> \in Int \X Int
    BY <1>3 DEF OfTeam
  <2> HIDE DEF it
  <2> QED BY <1>4, <2>1 DEF Item
<1>a. PICK l : l = left
  OBVIOUS
<1>6. /\ l \in Seq(Item) /\ Len(l) <= Len(b) /\ Len(b) \in Nat /\ Len(l) \in Nat
      /\ Distinct(b) => Distinct(l)
      /\ AllOff(b) => AllOff(l)
      /\ NoUnitsOn(b) => NoUnitsOn(l)
      /\ Framed(b) /\ ~IsWornFrame(b[j]) => Framed(l)
  BY <1>2, <1>3, <1>a, LessKeeps
<1>7. Len(l) <= MaxBank
  BY <1>2, <1>6, TeamItemsConstants
<1>b. y = Stacked(l, it)
  BY <1>a
<1> HIDE DEF it, new, left, x, y
<1>8. CASE Takes(s, new)
  <2>1. inv' = [inv EXCEPT ![c] = x] /\ bank' = [bank EXCEPT ![c] = l] /\ UNCHANGED gone
    BY <1>1, <1>8, <1>a
  <2>2. Len(s) # MaxInv /\ \A i \in DOMAIN s : s[i].id # new.id
    BY <1>8 DEF Takes
  <2>3. /\ x \in Seq(Item) /\ Len(s) \in Nat /\ Len(x) \in {Len(s), Len(s) + 1}
        /\ Distinct(s) /\ (\A i \in DOMAIN s : s[i].id # new.id) => Distinct(x)
        /\ AllOff(s) => AllOff(x)
        /\ Framed(s) => Framed(x)
    BY <1>2, <1>5, StackedKeeps DEF x
  <2>4. Len(x) <= MaxInv
    BY <1>2, <2>2, <2>3, TeamItemsConstants
  <2>5. Seated' /\ Carrying' /\ Announcing'
    BY <1>1, <1>2, <1>3, <2>1, <2>2, <2>3, <2>4, OwnStep DEF ItemsInv, Seated
  <2>6. Banking'
    BY <1>2, <1>6, <1>7, <2>1, BankingChanged DEF ItemsInv
  <2> QED BY <1>1, <2>5, <2>6 DEF ItemsInv, Rest
<1>9. CASE ~Takes(s, new)
  <2>1. /\ bank' = [bank EXCEPT ![c] = IF BankTakes(l) THEN y ELSE l]
        /\ gone' = gone \cup {c} /\ UNCHANGED inv
    BY <1>1, <1>9, <1>a
  <2>2. /\ y \in Seq(Item) /\ Len(l) \in Nat /\ Len(y) \in {Len(l), Len(l) + 1}
        /\ Distinct(l) /\ (\A k \in DOMAIN l : l[k].id # it.id) => Distinct(y)
        /\ AllOff(l) => AllOff(y)
        /\ Framed(l) => Framed(y)
    BY <1>4, <1>6, <1>b, StackedKeeps
  <2>3. BankTakes(l) => Len(y) <= MaxBank
    BY <1>7, <2>2, TeamItemsConstants DEF BankTakes
  <2>4. Banking'
    <3>1. CASE BankTakes(l)
      BY <1>2, <1>6, <2>1, <2>2, <2>3, <3>1, BankingChanged DEF ItemsInv
    <3>2. CASE ~BankTakes(l)
      BY <1>2, <1>6, <1>7, <2>1, <3>2, BankingChanged DEF ItemsInv
    <3> QED BY <3>1, <3>2
  <2>5. Seated'
    BY <1>1, <1>2, <1>3, <2>1, SeatedStays DEF ItemsInv, Seated
  <2>6. Announcing' /\ Carrying' /\ Rest'
    BY <1>1, <2>1 DEF ItemsInv, Announcing, Carrying, Rest, InTeam
  <2> QED BY <2>4, <2>5, <2>6 DEF ItemsInv
<1> QED BY <1>8, <1>9

\* A drop of the server's has the team's next number.
LEMMA ServerDropKeeps == ASSUME ItemsInv, ServerDrop PROVE ItemsInv'
<1> DEFINE new == [id |-> <<OfTeam, item_id>>, kind |-> Head(drops), n |-> 1, on |-> FALSE]
<1>1. /\ drops # <<>> /\ item_id < MaxGiven /\ item_id' = item_id + 1
      /\ floor' = <<new>> \o floor /\ drops' = Tail(drops)
      /\ UNCHANGED <<inv, meseta, banked, seat, highest_item, snap, bank, drop_item, gone>>
  BY DEF ServerDrop, purses
<1>2. drops \in Seq(Kind \cup {Meseta}) /\ item_id \in 0 .. MaxGiven /\ MaxGiven \in Nat
  BY TeamItemsConstants DEF ItemsInv, Seated, Rest
<1>3. Head(drops) \in Kind \cup {Meseta} /\ Tail(drops) \in Seq(Kind \cup {Meseta})
  BY <1>1, <1>2
<1>4. item_id' \in 0 .. MaxGiven /\ item_id \in Int
  BY <1>1, <1>2
<1>5. new \in Lying
  <2>1. <<OfTeam, item_id>> \in Int \X Int
    BY <1>4 DEF OfTeam
  <2> QED BY <1>3, <2>1 DEF Lying
<1> HIDE DEF new
<1>6. floor' \in Seq(Lying)
  BY <1>1, <1>5, FloorTakes DEF ItemsInv, Rest
<1>7. Seated' /\ Carrying' /\ Banking' /\ Announcing'
  BY <1>1, <1>4 DEF ItemsInv, Seated, Carrying, Banking, Announcing, InTeam
<1> QED BY <1>1, <1>3, <1>6, <1>7 DEF ItemsInv, Rest

\* The items of an inventory under new numbers.
LEMMA RenumberedKeeps ==
    ASSUME NEW s \in Seq(Item), NEW f \in [DOMAIN s -> Int \X Int],
           NEW r, r = [i \in DOMAIN s |-> [s[i] EXCEPT !.id = f[i]]]
    PROVE  /\ r \in Seq(Item) /\ Len(r) = Len(s)
           /\ (\A i, j \in DOMAIN s : f[i] = f[j] => i = j) => Distinct(r)
           /\ Framed(s) => Framed(r)
<1> DEFINE n == Len(s)
<1>1. n \in Nat /\ s \in [1 .. n -> Item] /\ DOMAIN s = 1 .. n
  BY LenProperties
<1> HIDE DEF n
<1>2. \A i \in 1 .. n : /\ r[i] \in Item /\ r[i].id = f[i] /\ r[i].kind = s[i].kind
                        /\ r[i].on = s[i].on
  <2> TAKE i \in 1 .. n
  <2>1. s[i] \in Item /\ f[i] \in Int \X Int /\ r[i] = [s[i] EXCEPT !.id = f[i]]
    BY <1>1
  <2> QED BY <2>1 DEF Item
<1>3. r \in [1 .. n -> Item] /\ DOMAIN r = 1 .. n
  BY <1>1, <1>2
<1>4. r \in Seq(Item) /\ Len(r) = n
  BY <1>1, <1>3, PlacesMakeSeq
<1>5. (\A i, j \in DOMAIN s : f[i] = f[j] => i = j) => Distinct(r)
  BY <1>1, <1>2, <1>3 DEF Distinct
<1>6. Framed(s) => Framed(r)
  BY <1>1, <1>2, <1>3 DEF Framed, WornUnit, IsWornFrame
<1> QED BY <1>1, <1>4, <1>5, <1>6 DEF n

\* A join: the slot was free, and the inventory is numbered through from where it stands.
LEMMA JoinKeeps == ASSUME ItemsInv, NEW c \in Player, Join(c) PROVE ItemsInv'
<1> DEFINE free == {t \in Slots : seat[t] = Nobody}
           s == Min(free)
           founded == \A t \in Slots : seat[t] = Nobody
           high == IF founded THEN 0 ELSE highest_item[s]
           items == inv[c]
           n == Len(items)
           f == [i \in DOMAIN items |-> <<s, high + i - 1>>]
           x == [i \in DOMAIN items |-> [items[i] EXCEPT !.id = f[i]]]
<1>1. /\ ~InTeam(c) /\ high >= 0 /\ high + n - 1 <= MaxId
      /\ seat' = [seat EXCEPT ![s] = c] /\ inv' = [inv EXCEPT ![c] = x]
      /\ highest_item' = [t \in Slots |-> CASE t = s -> high + n - 1
                                            [] t # s /\ founded -> 0
                                            [] OTHER -> highest_item[t]]
      /\ item_id' = IF founded THEN 0 ELSE item_id
      /\ UNCHANGED <<meseta, banked, bank, snap, drop_item, floor, gone, drops>>
  <2>1. inv' = [inv EXCEPT ![c] = [i \in DOMAIN @ |-> [@[i] EXCEPT !.id = <<s, high + i - 1>>]]]
    BY DEF Join
  <2>2. inv' = [inv EXCEPT ![c] = x]
    BY <2>1
  <2> QED BY <2>2 DEF Join, purses
<1>2. s \in Slots /\ seat[s] = Nobody
  BY <1>1, SlotToTake DEF ItemsInv
<1>3. /\ items \in Seq(Item) /\ n <= MaxInv /\ Framed(items) /\ n \in Nat
      /\ DOMAIN items = 1 .. n /\ MaxId \in Nat /\ MaxGiven \in Nat
  BY Carried, TeamItemsConstants
<1>4. Slots \subseteq Nat
  BY SlotNumbers
<1>5. highest_item \in [Slots -> -1 .. MaxId] /\ item_id \in 0 .. MaxGiven
  BY DEF ItemsInv, Seated
<1> HIDE DEF s
<1>6. high \in Int /\ s \in Int
  <2>1. highest_item[s] \in Int /\ s \in Int
    BY <1>2, <1>4, <1>5
  <2> QED BY <2>1
<1> HIDE DEF founded, high, n, items
<1>7. f \in [DOMAIN items -> Int \X Int] /\ \A i, j \in DOMAIN items : f[i] = f[j] => i = j
  <2>1. \A i \in DOMAIN items : i \in Int
    BY <1>3
  <2> QED BY <1>6, <2>1
<1> HIDE DEF f, x
<1>8. /\ x \in Seq(Item) /\ Len(x) = Len(items)
      /\ (\A i, j \in DOMAIN items : f[i] = f[j] => i = j) => Distinct(x)
      /\ Framed(items) => Framed(x)
  BY <1>3, <1>7, RenumberedKeeps DEF x
<1>9. highest_item' \in [Slots -> -1 .. MaxId] /\ item_id' \in 0 .. MaxGiven
  <2>1. high + n - 1 \in -1 .. MaxId /\ 0 \in -1 .. MaxId
    BY <1>1, <1>3, <1>6
  <2>2. ASSUME NEW t \in Slots PROVE highest_item'[t] \in -1 .. MaxId
    <3>1. highest_item[t] \in -1 .. MaxId
      BY <1>5
    <3>2. highest_item'[t] = CASE t = s -> high + n - 1
                               [] t # s /\ founded -> 0
                               [] OTHER -> highest_item[t]
      BY <1>1
    <3>3. CASE t = s
      BY <2>1, <3>2, <3>3
    <3>4. CASE t # s /\ founded
      BY <2>1, <3>2, <3>4
    <3>5. CASE t # s /\ ~founded
      BY <3>1, <3>2, <3>5
    <3> QED BY <3>3, <3>4, <3>5
  <2>3. highest_item' = [t \in Slots |-> highest_item'[t]]
    BY <1>1
  <2>4. highest_item' \in [Slots -> -1 .. MaxId]
    BY <2>2, <2>3
  <2> QED BY <1>1, <1>3, <1>5, <2>4
<1>10. \A d \in Player : d # c => (InTeam(d)' <=> InTeam(d))
  BY <1>1, <1>2, TeamItemsConstants DEF ItemsInv, Seated, InTeam
<1>11. InTeam(c)'
  BY <1>1, <1>2 DEF ItemsInv, Seated, InTeam
<1>12. Seated'
  <2>1. seat' \in [Slots -> Player \cup {Nobody}]
    BY <1>1 DEF ItemsInv, Seated
  <2>2. \A t, u \in Slots : seat'[t] = seat'[u] /\ seat'[t] # Nobody => t = u
    <3>1. \A t \in Slots : seat[t] # c
      BY <1>1 DEF InTeam
    <3> QED BY <1>1, <1>2, <3>1 DEF ItemsInv, Seated
  <2>3. gone' \subseteq Player /\ \A d \in gone' : InTeam(d)'
    BY <1>1, <1>10, <1>11 DEF ItemsInv, Seated
  <2> QED BY <1>9, <2>1, <2>2, <2>3 DEF Seated
<1>13. Carrying'
  <2>1. Distinct(x) /\ Framed(x) /\ Len(x) <= MaxInv
    BY <1>3, <1>7, <1>8 DEF n
  <2>2. inv \in [Player -> Seq(Item)]
    BY DEF ItemsInv, Carrying
  <2>3. inv' \in [Player -> Seq(Item)] /\ inv'[c] = x /\ \A d \in Player : d # c => inv'[d] = inv[d]
    BY <1>1, <1>8, <2>2
  <2>4. \A d \in Player : d # c => Len(inv[d]) <= MaxInv /\ Framed(inv[d]) /\ (InTeam(d) => Distinct(inv[d]))
    BY DEF ItemsInv, Carrying
  <2>5. ASSUME NEW d \in Player
        PROVE  Len(inv'[d]) <= MaxInv /\ Framed(inv'[d]) /\ (InTeam(d)' => Distinct(inv'[d]))
    <3>1. CASE d = c
      BY <2>1, <2>3, <3>1
    <3>2. CASE d # c
      BY <1>10, <2>3, <2>4, <3>2
    <3> QED BY <3>1, <3>2
  <2> QED BY <2>3, <2>5 DEF Carrying
<1>14. Announcing'
  <2>1. drop_item[c] = Nobody
    BY <1>1 DEF ItemsInv, Announcing
  <2>2. \A d \in Player : d # c => inv'[d] = inv[d]
    BY <1>1 DEF ItemsInv, Carrying
  <2> QED BY <1>1, <1>10, <2>1, <2>2 DEF ItemsInv, Announcing
<1> QED BY <1>1, <1>12, <1>13, <1>14, BankingStays DEF ItemsInv, Rest

\* Who leaves takes along what it carries, by no number; nobody else is touched.
LEMMA LeaveKeeps == ASSUME ItemsInv, NEW c \in Player, Leave(c) PROVE ItemsInv'
<1> DEFINE s == SlotOf(c)
           items == inv[c]
           n == Len(items)
           f == [i \in DOMAIN items |-> NoId]
           x == [i \in DOMAIN items |-> [items[i] EXCEPT !.id = f[i]]]
           shown == Contents(items)
<1>1. /\ InTeam(c) /\ seat' = [seat EXCEPT ![s] = Nobody]
      /\ floor' \in {<<>>, floor}
      /\ snap' = [snap EXCEPT ![c] = shown] /\ drop_item' = [drop_item EXCEPT ![c] = Nobody]
      /\ gone' = gone \ {c} /\ inv' = [inv EXCEPT ![c] = x]
      /\ UNCHANGED <<meseta, banked, bank, highest_item, item_id, drops>>
  <2>1. inv' = [inv EXCEPT ![c] = [i \in DOMAIN @ |-> [@[i] EXCEPT !.id = NoId]]]
    BY DEF Leave
  <2>2. inv' = [inv EXCEPT ![c] = x]
    BY <2>1
  <2> QED BY <2>2 DEF Leave, purses
<1>2. s \in Slots /\ seat[s] = c /\ \A t \in Slots : seat[t] = c => t = s
  BY <1>1, SlotOfMember DEF ItemsInv
<1>3. items \in Seq(Item) /\ n <= MaxInv /\ Framed(items) /\ n \in Nat /\ DOMAIN items = 1 .. n
  BY Carried
<1> HIDE DEF s
<1>4. f \in [DOMAIN items -> Int \X Int]
  BY DEF NoId
<1>5. shown \in Seq(Shown)
  <2> DEFINE g == [i \in 1 .. n |-> [kind |-> items[i].kind, n |-> items[i].n]]
  <2>1. \A i \in 1 .. n : items[i] \in Item
    BY <1>3, ElementOfSeq
  <2>2. shown = g
    BY <1>3 DEF Contents
  <2> HIDE DEF n, items
  <2>3. g \in [1 .. n -> Shown]
    BY <2>1 DEF Item, Shown
  <2> HIDE DEF g
  <2> QED BY <1>3, <2>2, <2>3, PlacesMakeSeq
<1> HIDE DEF f, x, shown, items, n
<1>6. /\ x \in Seq(Item) /\ Len(x) = Len(items)
      /\ (\A i, j \in DOMAIN items : f[i] = f[j] => i = j) => Distinct(x)
      /\ Framed(items) => Framed(x)
  BY <1>3, <1>4, RenumberedKeeps DEF x
<1>7. \A d \in Player : d # c => (InTeam(d)' <=> InTeam(d))
  BY <1>1, <1>2, TeamItemsConstants DEF ItemsInv, Seated, InTeam
<1>8. ~InTeam(c)'
  BY <1>1, <1>2, TeamItemsConstants DEF ItemsInv, Seated, InTeam
<1>9. Seated'
  <2>1. seat' \in [Slots -> Player \cup {Nobody}]
    BY <1>1 DEF ItemsInv, Seated
  <2>2. \A t, u \in Slots : seat'[t] = seat'[u] /\ seat'[t] # Nobody => t = u
    BY <1>1, <1>2 DEF ItemsInv, Seated
  <2>3. gone' \subseteq Player /\ \A d \in gone' : InTeam(d)'
    BY <1>1, <1>7 DEF ItemsInv, Seated
  <2> QED BY <1>1, <2>1, <2>2, <2>3 DEF ItemsInv, Seated
<1>10. Carrying'
  <2>1. Framed(x) /\ Len(x) <= MaxInv
    BY <1>3, <1>6 DEF n
  <2>2. inv \in [Player -> Seq(Item)]
    BY DEF ItemsInv, Carrying
  <2>3. inv' \in [Player -> Seq(Item)] /\ inv'[c] = x /\ \A d \in Player : d # c => inv'[d] = inv[d]
    BY <1>1, <1>6, <2>2
  <2>4. \A d \in Player : d # c => Len(inv[d]) <= MaxInv /\ Framed(inv[d]) /\ (InTeam(d) => Distinct(inv[d]))
    BY DEF ItemsInv, Carrying
  <2>5. ASSUME NEW d \in Player
        PROVE  Len(inv'[d]) <= MaxInv /\ Framed(inv'[d]) /\ (InTeam(d)' => Distinct(inv'[d]))
    <3>1. CASE d = c
      BY <1>8, <2>1, <2>3, <3>1
    <3>2. CASE d # c
      BY <1>7, <2>3, <2>4, <3>2
    <3> QED BY <3>1, <3>2
  <2> QED BY <2>3, <2>5 DEF Carrying
<1>11. Announcing'
  <2>1. \A d \in Player \ {c} : inv'[d] = inv[d] /\ (InTeam(d) => InTeam(d)')
    BY <1>1, <1>7 DEF ItemsInv, Carrying
  <2> QED BY <1>1, <2>1, AnnouncingEnds DEF ItemsInv
<1>12. Rest'
  <2>1. floor' \in Seq(Lying)
    <3>1. <<>> \in Seq(Lying)
      BY EmptySeq
    <3> QED BY <1>1, <3>1 DEF ItemsInv, Rest
  <2>2. snap' \in [Player -> Seq(Shown)]
    BY <1>1, <1>5 DEF ItemsInv, Rest
  <2> QED BY <1>1, <2>1, <2>2 DEF ItemsInv, Rest
<1> QED BY <1>1, <1>9, <1>10, <1>11, <1>12, BankingStays DEF ItemsInv

\* Every step of the team keeps the invariant.
LEMMA ItemsNextKeeps == ItemsInv /\ [ItemsNext]_itemsVars => ItemsInv'
<1> SUFFICES ASSUME ItemsInv, [ItemsNext]_itemsVars PROVE ItemsInv'
  OBVIOUS
<1>1. ASSUME NEW c \in Player, Join(c) \/ Leave(c) \/ DropStack(c) \/ DropMeseta(c)
      PROVE  ItemsInv'
  BY <1>1, JoinKeeps, LeaveKeeps, DropStackKeeps, DropMesetaKeeps
<1>2. ASSUME NEW c \in Player, NEW i \in DOMAIN inv[c], DropItem(c, i) \/ Equip(c, i) \/ Unequip(c, i)
      PROVE  ItemsInv'
  BY <1>2, DropItemKeeps, EquipKeeps, UnequipKeeps
<1>3. ASSUME NEW c \in Player, NEW i \in DOMAIN inv[c], NEW n \in 1 .. inv[c][i].n,
             DropPos(c, i, n) \/ Deposit(c, i, n)
      PROVE  ItemsInv'
  BY <1>3, DropPosKeeps, DepositKeeps
<1>4. ASSUME NEW c \in Player, NEW id \in {floor[i].id : i \in DOMAIN floor}, PickUp(c, id) PROVE ItemsInv'
  BY <1>4, PickUpKeeps
<1>5. ASSUME NEW c \in Player, NEW j \in DOMAIN bank[c], NEW n \in 1 .. bank[c][j].n, Withdraw(c, j, n)
      PROVE  ItemsInv'
  BY <1>5, WithdrawKeeps
<1>6. ASSUME NEW c \in Player, NEW n \in 1 .. MaxMeseta,
             DropPosMeseta(c, n) \/ DepositMeseta(c, n) \/ WithdrawMeseta(c, n)
      PROVE  ItemsInv'
  BY <1>6, DropPosMesetaKeeps, MoneyKeeps
<1>7. ASSUME NEW c \in Player, NEW order \in Bijection(DOMAIN inv[c], DOMAIN inv[c]), Sort(c, order)
      PROVE  ItemsInv'
  BY <1>7, SortKeeps
<1>8. ASSUME NEW c \in Player, Medic(c) PROVE ItemsInv'
  BY <1>8, MedicKeeps
<1>9. CASE ServerDrop
  BY <1>9, ServerDropKeeps
<1>10. CASE UNCHANGED itemsVars
  BY <1>10 DEF ItemsInv, Seated, Carrying, Banking, Announcing, Rest, InTeam, itemsVars
<1> QED BY <1>1, <1>2, <1>3, <1>4, <1>5, <1>6, <1>7, <1>8, <1>9, <1>10 DEF ItemsNext

\* The invariant always holds.
LEMMA SpecItems == ItemsSpec => []ItemsInv
BY ItemsStart, ItemsNextKeeps, PTL DEF ItemsSpec

\* The inventories, banks and purses keep within their arrays and limits, and a client sits in
\* one slot of the team, whatever its members pick up, bank or take out (items.c, subcmd.c).
THEOREM ItemsFit == ItemsSpec => []ItemsTypeOK
<1>1. ASSUME ItemsInv PROVE ItemsTypeOK
  <2>1. ASSUME NEW c \in Player
        PROVE  /\ Len(inv[c]) <= MaxInv /\ \A i \in DOMAIN inv[c] : ItemOK(inv[c][i])
               /\ Len(bank[c]) <= MaxBank /\ \A i \in DOMAIN bank[c] : ItemOK(bank[c][i])
               /\ meseta[c] \in 0 .. MaxMeseta /\ banked[c] \in 0 .. MaxMeseta
               /\ Cardinality({s \in Slots : seat[s] = c}) <= 1
    <3>1. \A e \in Item : ItemOK(e)
      BY DEF Item, ItemOK
    <3>2. /\ Len(inv[c]) <= MaxInv /\ \A i \in DOMAIN inv[c] : ItemOK(inv[c][i])
          /\ Len(bank[c]) <= MaxBank /\ \A i \in DOMAIN bank[c] : ItemOK(bank[c][i])
      BY <1>1, <3>1, Carried
    <3> DEFINE spots == {s \in Slots : seat[s] = c}
    <3>3. Cardinality(spots) <= 1
      <4>1. CASE spots = {}
        <5>1. Cardinality(spots) = 0
          BY <4>1, FS_EmptySet
        <5> QED BY <5>1
      <4>2. CASE spots # {}
        <5>1. PICK s \in Slots : seat[s] = c
          BY <4>2
        <5>2. spots = {s}
          BY <1>1, <5>1, TeamItemsConstants DEF ItemsInv, Seated
        <5>3. Cardinality(spots) = 1
          BY <5>2, FS_Singleton
        <5> QED BY <5>3
      <4> QED BY <4>1, <4>2
    <3> QED BY <1>1, <3>2, <3>3 DEF ItemsInv, Rest
  <2>2. gone \subseteq {seat[s] : s \in Slots}
    BY <1>1 DEF ItemsInv, Seated, InTeam
  <2> QED BY <1>1, <2>1, <2>2 DEF ItemsInv, Seated, ItemsTypeOK
<1> QED BY <1>1, SpecItems, PTL

\* No member carries two items of one number, however often a slot's numbers are given out
\* again (join_game, item_add_to_inv).
THEOREM NumbersApart == ItemsSpec => []InventoryIdsUnique
<1>1. ItemsInv => InventoryIdsUnique
  BY DEF ItemsInv, Carrying, Distinct, InventoryIdsUnique
<1> QED BY <1>1, SpecItems, PTL

\* Whoever wears a unit wears a frame, whatever is dropped, split, sorted, banked or taken off
\* (handle_bb_drop_item, handle_bb_bank_action, handle_bb_unequip).
THEOREM UnitsStayFramed == ItemsSpec => []UnitsNeedFrame
<1>1. ItemsInv => UnitsNeedFrame
  BY DEF ItemsInv, Carrying, Framed, WornUnit, UnitsNeedFrame
<1> QED BY <1>1, SpecItems, PTL

(***************************************************************************)
(* How much there is.                                                      *)
(***************************************************************************)

Pieces(f) == UNION {{x} \X (1 .. f[x]) : x \in DOMAIN f}

\* A piece is a place and a number there.
LEMMA PieceOf ==
    ASSUME NEW D, NEW f \in [D -> Nat], NEW e
    PROVE  e \in Pieces(f) <=> \E x \in D, j \in Nat : e = <<x, j>> /\ 1 <= j /\ j <= f[x]
<1>1. DOMAIN f = D /\ \A x \in D : f[x] \in Nat
  OBVIOUS
<1>2. ASSUME e \in Pieces(f) PROVE \E x \in D, j \in Nat : e = <<x, j>> /\ 1 <= j /\ j <= f[x]
  <2>1. PICK x \in D : e \in {x} \X (1 .. f[x])
    BY <1>1, <1>2 DEF Pieces
  <2>2. PICK j \in 1 .. f[x] : e = <<x, j>>
    BY <2>1
  <2>3. j \in Nat /\ 1 <= j /\ j <= f[x]
    BY <1>1, <2>2
  <2> QED BY <2>2, <2>3
<1>3. ASSUME NEW x \in D, NEW j \in Nat, e = <<x, j>>, 1 <= j, j <= f[x] PROVE e \in Pieces(f)
  <2>1. j \in 1 .. f[x]
    BY <1>1, <1>3
  <2>2. e \in {x} \X (1 .. f[x])
    BY <1>3, <2>1
  <2> QED BY <1>1, <2>2 DEF Pieces
<1> QED BY <1>2, <1>3

\* The pieces at one place are as many as its number says.
LEMMA PiecesAt ==
    ASSUME NEW x, NEW n \in Nat
    PROVE  IsFiniteSet({x} \X (1 .. n)) /\ Cardinality({x} \X (1 .. n)) = n
<1>1. IsFiniteSet({x}) /\ Cardinality({x}) = 1
  BY FS_Singleton
<1>2. IsFiniteSet(1 .. n) /\ Cardinality(1 .. n) = n
  <2>1. 1 \in Int /\ n \in Int /\ (IF 1 > n THEN 0 ELSE n - 1 + 1) = n
    OBVIOUS
  <2> QED BY <2>1, FS_Interval
<1>3. /\ IsFiniteSet({x} \X (1 .. n))
      /\ Cardinality({x} \X (1 .. n)) = Cardinality({x}) * Cardinality(1 .. n)
  BY <1>1, <1>2, FS_Product
<1> QED BY <1>1, <1>2, <1>3

LEMMA PiecesFinite ==
    ASSUME NEW D, IsFiniteSet(D), NEW f \in [D -> Nat]
    PROVE  IsFiniteSet(Pieces(f)) /\ Total(f) \in Nat /\ Total(f) = Cardinality(Pieces(f))
<1> DEFINE g == [x \in D |-> {x} \X (1 .. f[x])]
           T == {{x} \X (1 .. f[x]) : x \in D}
<1>1. g \in Surjection(D, T)
  BY DEF Surjection
<1>2. IsFiniteSet(T)
  <2> HIDE DEF g, T
  <2> QED BY <1>1, FS_Surjection
<1>3. \A t \in T : IsFiniteSet(t)
  <2> SUFFICES ASSUME NEW x \in D PROVE IsFiniteSet({x} \X (1 .. f[x]))
    OBVIOUS
  <2> QED BY PiecesAt
<1>4. IsFiniteSet(UNION T)
  <2> HIDE DEF T
  <2> QED BY <1>2, <1>3, FS_UNION
<1>5. UNION T = Pieces(f)
  BY DEF Pieces
<1>6. Total(f) = Cardinality(Pieces(f))
  BY DEF Total, Pieces
<1> QED BY <1>4, <1>5, <1>6, FS_CardinalityType

\* One place can be counted apart.
LEMMA TotalSplit ==
    ASSUME NEW D, IsFiniteSet(D), NEW f \in [D -> Nat], NEW c \in D
    PROVE  Total(f) = f[c] + Total([x \in D \ {c} |-> f[x]])
<1> DEFINE E == D \ {c}
           g == [x \in E |-> f[x]]
           A == {c} \X (1 .. f[c])
<1>1. IsFiniteSet(E) /\ g \in [E -> Nat] /\ \A x \in E : g[x] = f[x]
  BY FS_Subset
<1>2. IsFiniteSet(A) /\ Cardinality(A) = f[c] /\ f[c] \in Nat
  BY PiecesAt
<1> HIDE DEF g
<1>3. /\ IsFiniteSet(Pieces(g)) /\ Total(g) \in Nat /\ Total(g) = Cardinality(Pieces(g))
      /\ Total(f) = Cardinality(Pieces(f))
  BY <1>1, PiecesFinite
<1>4. A \cap Pieces(g) = {}
  <2> SUFFICES ASSUME NEW e \in A, e \in Pieces(g) PROVE FALSE
    OBVIOUS
  <2>1. PICK x \in E, j \in Nat : e = <<x, j>>
    BY <1>1, PieceOf
  <2>2. e[1] = c
    OBVIOUS
  <2> QED BY <2>1, <2>2
<1>5. Pieces(f) = A \cup Pieces(g)
  <2>1. ASSUME NEW e \in Pieces(f) PROVE e \in A \cup Pieces(g)
    <3>1. PICK x \in D, j \in Nat : e = <<x, j>> /\ 1 <= j /\ j <= f[x]
      BY PieceOf
    <3>2. CASE x = c
      <4>1. j \in 1 .. f[c]
        BY <1>2, <3>1, <3>2
      <4> QED BY <3>1, <3>2, <4>1
    <3>3. CASE x # c
      <4>1. x \in E /\ j <= g[x]
        BY <1>1, <3>1, <3>3
      <4> HIDE DEF E
      <4> QED BY <1>1, <3>1, <4>1, PieceOf
    <3> QED BY <3>2, <3>3
  <2>2. ASSUME NEW e \in A PROVE e \in Pieces(f)
    <3>1. PICK j \in 1 .. f[c] : e = <<c, j>>
      OBVIOUS
    <3>2. j \in Nat /\ 1 <= j /\ j <= f[c]
      BY <1>2, <3>1
    <3> QED BY <3>1, <3>2, PieceOf
  <2>3. ASSUME NEW e \in Pieces(g) PROVE e \in Pieces(f)
    <3>1. PICK x \in E, j \in Nat : e = <<x, j>> /\ 1 <= j /\ j <= g[x]
      BY <1>1, <2>3, PieceOf
    <3>2. x \in D /\ j <= f[x]
      BY <1>1, <3>1
    <3> QED BY <3>1, <3>2, PieceOf
  <2> QED BY <2>1, <2>2, <2>3
<1> HIDE DEF A
<1>6. Cardinality(A \cup Pieces(g)) = Cardinality(A) + Cardinality(Pieces(g)) - Cardinality(A \cap Pieces(g))
  BY <1>2, <1>3, FS_Union
<1>7. Cardinality(A \cap Pieces(g)) = 0
  BY <1>4, FS_EmptySet
<1>8. Total(f) = f[c] + Total(g)
  BY <1>2, <1>3, <1>5, <1>6, <1>7
<1> QED BY <1>8 DEF g

\* Where the numbers stand does not matter.
LEMMA TotalMoved ==
    ASSUME NEW D, IsFiniteSet(D), NEW E, IsFiniteSet(E), NEW p \in Bijection(D, E),
           NEW g \in [E -> Nat], NEW f, f = [x \in D |-> g[p[x]]]
    PROVE  Total(f) = Total(g)
<1>1. /\ p \in [D -> E] /\ \A x, y \in D : p[x] = p[y] => x = y
      /\ \A t \in E : \E x \in D : p[x] = t
  BY DEF Bijection, Injection, Surjection, IsInjective
<1>2. f \in [D -> Nat] /\ \A x \in D : f[x] = g[p[x]]
  BY <1>1
<1> DEFINE h == [e \in Pieces(f) |-> <<p[e[1]], e[2]>>]
<1>3. ASSUME NEW e \in Pieces(f)
      PROVE  \E x \in D, j \in Nat : e = <<x, j>> /\ 1 <= j /\ j <= f[x] /\ h[e] = <<p[x], j>> /\ h[e] \in Pieces(g)
  <2>1. PICK x \in D, j \in Nat : e = <<x, j>> /\ 1 <= j /\ j <= f[x]
    BY <1>2, PieceOf
  <2>2. h[e] = <<p[x], j>>
    BY <2>1
  <2>3. p[x] \in E /\ j <= g[p[x]]
    BY <1>1, <1>2, <2>1
  <2>4. <<p[x], j>> \in Pieces(g)
    BY <2>1, <2>3, PieceOf
  <2> QED BY <2>1, <2>2, <2>4
<1>4. h \in [Pieces(f) -> Pieces(g)]
  BY <1>3
<1>5. ASSUME NEW a \in Pieces(f), NEW b \in Pieces(f), h[a] = h[b] PROVE a = b
  <2>1. PICK x \in D, i \in Nat : a = <<x, i>> /\ h[a] = <<p[x], i>>
    BY <1>3
  <2>2. PICK y \in D, j \in Nat : b = <<y, j>> /\ h[b] = <<p[y], j>>
    BY <1>3
  <2> HIDE DEF h
  <2> QED BY <1>1, <1>5, <2>1, <2>2
<1>6. ASSUME NEW t \in Pieces(g) PROVE \E e \in Pieces(f) : h[e] = t
  <2>1. PICK u \in E, j \in Nat : t = <<u, j>> /\ 1 <= j /\ j <= g[u]
    BY PieceOf
  <2>2. PICK x \in D : p[x] = u
    BY <1>1
  <2>3. <<x, j>> \in Pieces(f)
    BY <1>2, <2>1, <2>2, PieceOf
  <2> QED BY <2>1, <2>2, <2>3
<1>7. h \in Bijection(Pieces(f), Pieces(g))
  <2> HIDE DEF h
  <2> QED BY <1>4, <1>5, <1>6 DEF Bijection, Injection, Surjection, IsInjective
<1>8. IsFiniteSet(Pieces(f)) /\ Total(f) = Cardinality(Pieces(f)) /\ Total(g) = Cardinality(Pieces(g))
  BY <1>2, PiecesFinite
<1> HIDE DEF h
<1> QED BY <1>7, <1>8, FS_Bijection DEF ExistsBijection

\* Two counts that differ at one place differ by what they have there.
LEMMA TotalChanged ==
    ASSUME NEW D, IsFiniteSet(D), NEW f \in [D -> Nat], NEW g \in [D -> Nat], NEW c \in D,
           \A x \in D : x # c => f[x] = g[x]
    PROVE  Total(f) + g[c] = Total(g) + f[c]
<1>1. [x \in D \ {c} |-> f[x]] = [x \in D \ {c} |-> g[x]]
  OBVIOUS
<1> DEFINE rest == [x \in D \ {c} |-> f[x]]
<1>2. Total(f) = f[c] + Total(rest)
  BY TotalSplit
<1>3. Total(g) = g[c] + Total(rest)
  BY <1>1, TotalSplit
<1>4. Total(rest) \in Nat
  <2>1. IsFiniteSet(D \ {c}) /\ rest \in [D \ {c} -> Nat]
    BY FS_Subset
  <2> HIDE DEF rest
  <2> QED BY <2>1, PiecesFinite
<1>5. f[c] \in Nat /\ g[c] \in Nat
  OBVIOUS
<1> HIDE DEF rest
<1> QED BY <1>2, <1>3, <1>4, <1>5

(***************************************************************************)
(* How much of a kind a list has.                                          *)
(***************************************************************************)

\* How much of a kind one item is.
Part(it, k) == IF it.kind = k THEN it.n ELSE 0

\* How much of it n pieces of an item are.
Portion(it, n, k) == IF it.kind = k THEN n ELSE 0

LEMMA PartsOf ==
    ASSUME NEW s \in Seq(Lying), NEW k, NEW f, f = [i \in DOMAIN s |-> Part(s[i], k)]
    PROVE  /\ IsFiniteSet(DOMAIN s) /\ f \in [DOMAIN s -> Nat]
           /\ SumOf(s, k) = Total(f) /\ SumOf(s, k) \in Nat
<1> DEFINE n == Len(s)
<1>1. n \in Nat /\ DOMAIN s = 1 .. n
  BY LenProperties
<1>2. \A i \in DOMAIN s : s[i] \in Lying
  BY ElementOfSeq, <1>1
<1>3. IsFiniteSet(1 .. n)
  <2>1. 1 \in Int /\ n \in Int
    BY <1>1
  <2> QED BY <2>1, FS_Interval
<1>4. \A i \in DOMAIN s : Part(s[i], k) \in Nat
  BY <1>2 DEF Part, Lying
<1>5. f \in [DOMAIN s -> Nat]
  BY <1>4
<1>6. SumOf(s, k) = Total(f)
  BY DEF SumOf, Part
<1>7. Total(f) \in Nat
  BY <1>1, <1>3, <1>5, PiecesFinite
<1> QED BY <1>1, <1>3, <1>5, <1>6, <1>7

\* Lists that have the same at their places, in some order.
LEMMA SumMoved ==
    ASSUME NEW s \in Seq(Lying), NEW t \in Seq(Lying), NEW p \in Bijection(DOMAIN s, DOMAIN t), NEW k,
           \A i \in DOMAIN s : Part(s[i], k) = Part(t[p[i]], k)
    PROVE  SumOf(s, k) = SumOf(t, k)
<1> DEFINE f == [i \in DOMAIN s |-> Part(s[i], k)]
           g == [i \in DOMAIN t |-> Part(t[i], k)]
<1>1. IsFiniteSet(DOMAIN s) /\ SumOf(s, k) = Total(f)
  BY PartsOf
<1>2. IsFiniteSet(DOMAIN t) /\ SumOf(t, k) = Total(g) /\ g \in [DOMAIN t -> Nat]
  BY PartsOf
<1>3. f = [i \in DOMAIN s |-> g[p[i]]]
  BY DEF Bijection, Injection
<1> HIDE DEF f, g
<1> QED BY <1>1, <1>2, <1>3, TotalMoved

\* The same at every place.
LEMMA SumSame ==
    ASSUME NEW s \in Seq(Lying), NEW t \in Seq(Lying), DOMAIN s = DOMAIN t, NEW k,
           \A i \in DOMAIN s : Part(s[i], k) = Part(t[i], k)
    PROVE  SumOf(s, k) = SumOf(t, k)
<1>1. [i \in DOMAIN s |-> Part(s[i], k)] = [i \in DOMAIN t |-> Part(t[i], k)]
  OBVIOUS
<1> QED BY <1>1, PartsOf

\* Another item at one place.
LEMMA SumChanged ==
    ASSUME NEW s \in Seq(Lying), NEW t \in Seq(Lying), DOMAIN s = DOMAIN t, NEW i \in DOMAIN s, NEW k,
           \A j \in DOMAIN s : j # i => t[j] = s[j]
    PROVE  SumOf(s, k) + Part(t[i], k) = SumOf(t, k) + Part(s[i], k)
<1> DEFINE f == [j \in DOMAIN s |-> Part(s[j], k)]
           g == [j \in DOMAIN t |-> Part(t[j], k)]
<1>1. IsFiniteSet(DOMAIN s) /\ SumOf(s, k) = Total(f) /\ f \in [DOMAIN s -> Nat]
  BY PartsOf
<1>2. SumOf(t, k) = Total(g) /\ g \in [DOMAIN s -> Nat]
  BY PartsOf
<1>3. \A j \in DOMAIN s : j # i => f[j] = g[j]
  OBVIOUS
<1>4. f[i] = Part(s[i], k) /\ g[i] = Part(t[i], k)
  OBVIOUS
<1> HIDE DEF f, g
<1>a. PICK D : D = DOMAIN s
  OBVIOUS
<1>b. /\ IsFiniteSet(D) /\ f \in [D -> Nat] /\ g \in [D -> Nat] /\ i \in D
      /\ \A j \in D : j # i => f[j] = g[j]
  BY <1>1, <1>2, <1>3, <1>a
<1>5. Total(f) + g[i] = Total(g) + f[i]
  BY ONLY <1>b, TotalChanged
<1> QED BY <1>1, <1>2, <1>4, <1>5

\* One item more, at some place.
LEMMA SumAdded ==
    ASSUME NEW s \in Seq(Lying), NEW t \in Seq(Lying), NEW i \in DOMAIN t,
           NEW p \in Bijection(DOMAIN s, DOMAIN t \ {i}), NEW k,
           \A j \in DOMAIN s : Part(s[j], k) = Part(t[p[j]], k)
    PROVE  SumOf(t, k) = Part(t[i], k) + SumOf(s, k)
<1> DEFINE f == [j \in DOMAIN s |-> Part(s[j], k)]
           g == [j \in DOMAIN t |-> Part(t[j], k)]
           h == [j \in DOMAIN t \ {i} |-> g[j]]
<1>1. IsFiniteSet(DOMAIN s) /\ SumOf(s, k) = Total(f)
  BY PartsOf
<1>2. IsFiniteSet(DOMAIN t) /\ SumOf(t, k) = Total(g) /\ g \in [DOMAIN t -> Nat]
  BY PartsOf
<1>3. f = [j \in DOMAIN s |-> h[p[j]]]
  BY DEF Bijection, Injection
<1>4. h \in [DOMAIN t \ {i} -> Nat] /\ IsFiniteSet(DOMAIN t \ {i})
  BY <1>2, FS_Subset
<1>5. g[i] = Part(t[i], k)
  OBVIOUS
<1>6. Total(g) = g[i] + Total(h)
  <2> HIDE DEF g
  <2> QED BY <1>2, TotalSplit
<1> HIDE DEF f, g, h
<1>a. PICK D : D = DOMAIN s
  OBVIOUS
<1>b. PICK E : E = DOMAIN t \ {i}
  OBVIOUS
<1>c. /\ IsFiniteSet(D) /\ IsFiniteSet(E) /\ h \in [E -> Nat] /\ f = [j \in D |-> h[p[j]]]
      /\ p \in Bijection(D, E)
  BY <1>1, <1>3, <1>4, <1>a, <1>b
<1>7. Total(f) = Total(h)
  BY ONLY <1>c, TotalMoved
<1> QED BY <1>1, <1>2, <1>5, <1>6, <1>7

\* An empty list has nothing.
LEMMA SumEmpty == ASSUME NEW k PROVE SumOf(<<>>, k) = 0
<1> DEFINE e == [i \in DOMAIN <<>> |-> IF <<>>[i].kind = k THEN <<>>[i].n ELSE 0]
<1>1. DOMAIN e = {}
  OBVIOUS
<1>2. Total(e) = 0
  <2> HIDE DEF e
  <2>1. UNION {{x} \X (1 .. e[x]) : x \in DOMAIN e} = {}
    BY <1>1
  <2> QED BY <2>1, FS_EmptySet DEF Total
<1> QED BY <1>2 DEF SumOf

\* One item more at the end.
LEMMA SumAppended ==
    ASSUME NEW s \in Seq(Lying), NEW e \in Lying, NEW t, t = Append(s, e), NEW k
    PROVE  t \in Seq(Lying) /\ SumOf(t, k) = Part(e, k) + SumOf(s, k)
<1> DEFINE n == Len(s)
           D == DOMAIN s
           E == DOMAIN t \ {n + 1}
           p == [j \in D |-> j]
<1>1. /\ n \in Nat /\ t \in Seq(Lying) /\ DOMAIN s = 1 .. n /\ DOMAIN t = 1 .. n + 1
      /\ t[n + 1] = e /\ \A i \in 1 .. n : t[i] = s[i]
  <2>1. Len(t) = n + 1
    BY AppendProperties
  <2> QED BY <2>1, AppendProperties, LenProperties
<1> HIDE DEF n
<1>2. D = E /\ n + 1 \in DOMAIN t
  BY <1>1
<1>3. p \in Bijection(D, E)
  BY <1>2 DEF Bijection, Injection, Surjection, IsInjective
<1>4. \A j \in D : Part(s[j], k) = Part(t[p[j]], k)
  BY <1>1
<1> HIDE DEF p
<1>a. PICK a : a = n + 1
  OBVIOUS
<1>b. /\ s \in Seq(Lying) /\ t \in Seq(Lying) /\ a \in DOMAIN t
      /\ p \in Bijection(DOMAIN s, DOMAIN t \ {a})
      /\ \A j \in DOMAIN s : Part(s[j], k) = Part(t[p[j]], k)
  BY <1>1, <1>2, <1>3, <1>4, <1>a
<1>c. SumOf(t, k) = Part(t[a], k) + SumOf(s, k)
  BY ONLY <1>b, SumAdded
<1> QED BY <1>1, <1>a, <1>c

\* One item more in front.
LEMMA SumPushed ==
    ASSUME NEW s \in Seq(Lying), NEW e \in Lying, NEW t, t = <<e>> \o s, NEW k
    PROVE  t \in Seq(Lying) /\ SumOf(t, k) = Part(e, k) + SumOf(s, k)
<1> DEFINE n == Len(s)
           D == DOMAIN s
           E == DOMAIN t \ {1}
           p == [j \in D |-> j + 1]
<1>1. /\ n \in Nat /\ t \in Seq(Lying) /\ DOMAIN s = 1 .. n /\ DOMAIN t = 1 .. n + 1
      /\ t[1] = e /\ \A i \in 1 .. n : t[i + 1] = s[i]
  <2>1. <<e>> \in Seq(Lying) /\ Len(<<e>>) = 1 /\ <<e>>[1] = e
    OBVIOUS
  <2>2. /\ t \in Seq(Lying) /\ Len(t) = 1 + n
        /\ \A i \in 1 .. 1 + n : t[i] = IF i <= 1 THEN <<e>>[i] ELSE s[i - 1]
    BY <2>1, ConcatProperties
  <2>3. n \in Nat /\ DOMAIN s = 1 .. n /\ DOMAIN t = 1 .. Len(t)
    BY <2>2, LenProperties
  <2> HIDE DEF n
  <2>4. DOMAIN t = 1 .. n + 1
    BY <2>2, <2>3
  <2>5. t[1] = e
    BY <2>1, <2>2, <2>3
  <2>6. ASSUME NEW i \in 1 .. n PROVE t[i + 1] = s[i]
    <3>1. i + 1 \in 1 .. 1 + n /\ ~(i + 1 <= 1) /\ (i + 1) - 1 = i
      BY <2>3
    <3> QED BY <2>2, <3>1
  <2> QED BY <2>2, <2>3, <2>4, <2>5, <2>6
<1> HIDE DEF n
<1>2. 1 \in DOMAIN t
  BY <1>1
<1>3. p \in Bijection(D, E)
  <2>1. p \in [D -> E]
    BY <1>1
  <2>2. \A i, j \in D : p[i] = p[j] => i = j
    BY <1>1
  <2>3. ASSUME NEW i \in E PROVE \E j \in D : p[j] = i
    <3>1. i - 1 \in D /\ (i - 1) + 1 = i
      BY <1>1
    <3> QED BY <3>1
  <2> HIDE DEF p, D, E
  <2> QED BY <2>1, <2>2, <2>3 DEF Bijection, Injection, Surjection, IsInjective
<1>4. \A j \in D : Part(s[j], k) = Part(t[p[j]], k)
  BY <1>1
<1> HIDE DEF p
<1>a. PICK a : a = 1
  OBVIOUS
<1>b. /\ s \in Seq(Lying) /\ t \in Seq(Lying) /\ a \in DOMAIN t
      /\ p \in Bijection(DOMAIN s, DOMAIN t \ {a})
      /\ \A j \in DOMAIN s : Part(s[j], k) = Part(t[p[j]], k)
  BY <1>1, <1>2, <1>3, <1>4, <1>a
<1>c. SumOf(t, k) = Part(t[a], k) + SumOf(s, k)
  BY ONLY <1>b, SumAdded
<1> QED BY <1>1, <1>a, <1>c

\* One item taken out.
LEMMA SumRemoved ==
    ASSUME NEW s \in Seq(Lying), NEW i \in DOMAIN s, NEW r, r = RemoveAt(s, i), NEW k
    PROVE  r \in Seq(Lying) /\ SumOf(s, k) = Part(s[i], k) + SumOf(r, k)
<1> DEFINE D == DOMAIN r
           E == DOMAIN s \ {i}
           p == [j \in D |-> IF j < i THEN j ELSE j + 1]
<1>1. /\ r \in Seq(Lying)
      /\ \A j \in DOMAIN r : /\ j \in Nat
                             /\ j < i => j \in DOMAIN s /\ r[j] = s[j]
                             /\ j >= i => j + 1 \in DOMAIN s /\ r[j] = s[j + 1]
      /\ \A j \in DOMAIN s : /\ j \in Nat
                             /\ j < i => j \in DOMAIN r /\ r[j] = s[j]
                             /\ j > i => j - 1 \in DOMAIN r /\ r[j - 1] = s[j]
  BY RemovedShape
<1>2. i \in Nat
  BY <1>1
<1>3. ASSUME NEW j \in D PROVE p[j] \in E /\ r[j] = s[p[j]]
  <2>1. j \in Nat
    BY <1>1
  <2>2. CASE j < i
    BY <1>1, <1>2, <2>1, <2>2
  <2>3. CASE ~(j < i)
    <3>1. j >= i /\ j + 1 # i
      BY <1>2, <2>1, <2>3
    <3> QED BY <1>1, <2>3, <3>1
  <2> QED BY <2>2, <2>3
<1>4. p \in Bijection(D, E)
  <2>1. p \in [D -> E]
    BY <1>3
  <2>2. \A a, b \in D : p[a] = p[b] => a = b
    <3>1. \A a \in D : a \in Nat
      BY <1>1
    <3> HIDE DEF D
    <3> QED BY <1>2, <3>1
  <2>3. ASSUME NEW j \in E PROVE \E a \in D : p[a] = j
    <3>1. j \in Nat /\ j # i
      BY <1>1
    <3>2. CASE j < i
      BY <1>1, <3>2
    <3>3. CASE j > i
      <4>1. j - 1 \in D /\ ~(j - 1 < i) /\ (j - 1) + 1 = j
        BY <1>1, <1>2, <3>1, <3>3
      <4> QED BY <4>1
    <3> QED BY <1>2, <3>1, <3>2, <3>3
  <2> HIDE DEF p, D, E
  <2> QED BY <2>1, <2>2, <2>3 DEF Bijection, Injection, Surjection, IsInjective
<1>5. \A j \in D : Part(r[j], k) = Part(s[p[j]], k)
  BY <1>3
<1> HIDE DEF p
<1> QED BY <1>1, <1>4, <1>5, SumAdded

\* What is carried may lie on the floor.
LEMMA MayLie == ASSUME NEW s \in Seq(Item) PROVE s \in Seq(Lying) /\ \A i \in DOMAIN s : s[i] \in Item
<1>1. Item \subseteq Lying
  BY DEF Item, Lying
<1>2. \A i \in DOMAIN s : s[i] \in Item
  BY LenProperties, ElementOfSeq
<1> QED BY <1>1, <1>2, SeqMonotonic

\* The numbers of a list's items.
Ids(items) == {items[i].id : i \in DOMAIN items}

\* Nothing gets another number by being one place further on.
LEMMA RemovedIds ==
    ASSUME NEW s \in Seq(Lying), NEW i \in DOMAIN s, NEW r, r = RemoveAt(s, i)
    PROVE  Ids(r) \subseteq Ids(s)
<1>1. /\ \A k \in DOMAIN r : /\ k \in Nat
                             /\ k < i => k \in DOMAIN s /\ r[k] = s[k]
                             /\ k >= i => k + 1 \in DOMAIN s /\ r[k] = s[k + 1]
      /\ \A j \in DOMAIN s : j \in Nat
  BY RemovedShape
<1>2. \A k \in DOMAIN r : \E l \in DOMAIN s : r[k] = s[l]
  <2> TAKE k \in DOMAIN r
  <2>1. k \in Nat /\ i \in Nat
    BY <1>1
  <2>2. k < i \/ k >= i
    BY <2>1
  <2> QED BY <1>1, <2>2
<1> QED BY <1>2 DEF Ids

\* An item of which only the number of its pieces changes.
LEMMA SumCounted ==
    ASSUME NEW s \in Seq(Item), NEW r \in Seq(Item), DOMAIN r = DOMAIN s, NEW i \in DOMAIN s,
           NEW m, r[i].n = m, \A j \in DOMAIN s : j # i => r[j] = s[j],
           r[i].kind = s[i].kind, r[i].id = s[i].id, NEW k
    PROVE  /\ SumOf(s, k) + Portion(s[i], m, k) = SumOf(r, k) + Part(s[i], k)
           /\ Ids(r) = Ids(s)
<1>2. s \in Seq(Lying) /\ r \in Seq(Lying)
  BY MayLie
<1>5. SumOf(s, k) + Part(r[i], k) = SumOf(r, k) + Part(s[i], k)
  BY <1>2, SumChanged
<1>6. Part(r[i], k) = Portion(s[i], m, k)
  BY DEF Part, Portion
<1>7. \A j \in DOMAIN s : r[j].id = s[j].id
  OBVIOUS
<1> QED BY <1>5, <1>6, <1>7 DEF Ids

\* A stack of another height is the same otherwise.
LEMMA CountedShape ==
    ASSUME NEW s \in Seq(Item), NEW i \in DOMAIN s, NEW m \in Nat \ {0}, NEW r, r = Recounted(s, i, m)
    PROVE  /\ r \in Seq(Item) /\ DOMAIN r = DOMAIN s /\ r[i].n = m /\ r[i].kind = s[i].kind
           /\ r[i].id = s[i].id /\ \A j \in DOMAIN s : j # i => r[j] = s[j]
<1>1. r \in Seq(Item) /\ s[i] \in Item
  BY CountedKeeps, MayLie
<1>2. r = [s EXCEPT ![i].n = m]
  BY DEF Recounted
<1>3. r[i] = [s[i] EXCEPT !.n = m] /\ DOMAIN r = DOMAIN s /\ \A j \in DOMAIN s : j # i => r[j] = s[j]
  BY <1>2
<1> QED BY <1>1, <1>3 DEF Item

\* item_remove_from_inv, item_take_from_bank: n of the item are gone, and nothing else is.
LEMMA SumLess ==
    ASSUME NEW s \in Seq(Item), NEW i \in DOMAIN s, NEW n \in Nat \ {0}, n <= s[i].n,
           s[i].kind \in Tool \/ n = s[i].n, NEW r, r = Less(s, i, n), NEW k
    PROVE  /\ SumOf(s, k) = SumOf(r, k) + Portion(s[i], n, k)
           /\ Ids(r) \subseteq Ids(s)
<1> DEFINE some == s[i].kind \in Tool /\ n < s[i].n
<1>0. s[i] \in Item /\ s \in Seq(Lying) /\ SumOf(s, k) \in Nat
  BY MayLie, PartsOf
<1>1. s[i].n \in Nat
  BY <1>0 DEF Item
<1>a. r \in Seq(Item) /\ SumOf(r, k) \in Nat
  <2>1. r \in Seq(Item)
    BY LessKeeps
  <2> QED BY <2>1, MayLie, PartsOf
<1>2. CASE some
  <2> DEFINE m == s[i].n - n
  <2>1. r = Recounted(s, i, m)
    BY <1>2 DEF Less, Recounted
  <2>2. m \in Nat \ {0}
    BY <1>1, <1>2
  <2> HIDE DEF m
  <2>a. /\ r \in Seq(Item) /\ DOMAIN r = DOMAIN s /\ r[i].n = m /\ r[i].kind = s[i].kind
        /\ r[i].id = s[i].id /\ \A j \in DOMAIN s : j # i => r[j] = s[j]
        /\ s \in Seq(Item) /\ i \in DOMAIN s
    BY <2>1, <2>2, CountedShape, SMTT(30)
  <2>3. /\ SumOf(s, k) + Portion(s[i], m, k) = SumOf(r, k) + Part(s[i], k)
        /\ Ids(r) = Ids(s)
    BY ONLY <2>a, SumCounted
  <2>4. CASE s[i].kind = k
    <3>1. Portion(s[i], m, k) = m /\ Part(s[i], k) = s[i].n /\ Portion(s[i], n, k) = n
      BY <2>4 DEF Part, Portion
    <3>2. SumOf(s, k) + m = SumOf(r, k) + s[i].n
      BY <2>3, <3>1
    <3>3. s[i].n = m + n /\ m \in Nat
      BY <1>1, <2>2 DEF m
    <3> DEFINE a == SumOf(s, k)
               b == SumOf(r, k)
               t == s[i].n
    <3>4. a \in Nat /\ b \in Nat /\ t \in Nat /\ m \in Nat /\ n \in Nat /\ t = m + n /\ a + m = b + t
      BY <1>0, <1>1, <1>a, <3>2, <3>3
    <3> HIDE DEF a, b, t
    <3>5. a = b + n
      BY ONLY <3>4
    <3> QED BY <2>3, <3>1, <3>5 DEF a, b
  <2>5. CASE s[i].kind # k
    BY <1>0, <1>a, <2>3, <2>5 DEF Part, Portion
  <2> QED BY <2>3, <2>4, <2>5
<1>3. CASE ~some
  <2>1. r = RemoveAt(s, i)
    BY <1>3 DEF Less
  <2>2. n = s[i].n
    BY <1>1, <1>3
  <2>3. SumOf(s, k) = Part(s[i], k) + SumOf(r, k)
    BY <1>0, <2>1, SumRemoved
  <2>5. Ids(r) \subseteq Ids(s)
    BY <1>0, <2>1, RemovedIds
  <2>6. CASE s[i].kind = k
    BY <1>0, <1>1, <1>a, <2>2, <2>3, <2>5, <2>6 DEF Part, Portion
  <2>7. CASE s[i].kind # k
    BY <1>0, <1>a, <2>3, <2>5, <2>7 DEF Part, Portion
  <2> QED BY <2>6, <2>7
<1> QED BY <1>2, <1>3

\* item_add_to_inv, item_deposit_to_bank: the item is there, in a place of its own or on a stack.
LEMMA SumStacked ==
    ASSUME NEW s \in Seq(Item), NEW it \in Item, NEW r, r = Stacked(s, it), NEW k
    PROVE  /\ SumOf(r, k) = SumOf(s, k) + Part(it, k)
           /\ Ids(r) \subseteq Ids(s) \cup {it.id}
<1>0. /\ s \in Seq(Lying) /\ SumOf(s, k) \in Nat /\ it \in Lying /\ it.n \in Nat
      /\ Len(s) \in Nat /\ DOMAIN s = 1 .. Len(s)
  <2>1. it \in Lying /\ it.n \in Nat
    BY DEF Item, Lying
  <2> QED BY <2>1, MayLie, PartsOf, LenProperties
<1>1. CASE it.kind \in Tool /\ Alike(s, it) # {}
  <2> DEFINE i == Min(Alike(s, it))
  <2>1. Alike(s, it) \in SUBSET Nat
    BY <1>0 DEF Alike
  <2>2. i \in Alike(s, it)
    BY <1>1, <2>1, MinOfNat
  <2>3. s \in Seq(Item) /\ i \in DOMAIN s /\ s[i].kind = it.kind /\ s[i] \in Item
    BY <2>2, MayLie DEF Alike
  <2> DEFINE m == s[i].n + it.n
  <2>4. r = Recounted(s, i, m)
    BY <1>1, <2>3 DEF Stacked, Recounted
  <2> HIDE DEF i
  <2>5. m \in Nat \ {0} /\ s[i].n \in Nat
    BY <1>0, <2>3 DEF Item
  <2> HIDE DEF m
  <2>a. /\ r \in Seq(Item) /\ DOMAIN r = DOMAIN s /\ r[i].n = m /\ r[i].kind = s[i].kind
        /\ r[i].id = s[i].id /\ \A j \in DOMAIN s : j # i => r[j] = s[j]
    BY <2>3, <2>4, <2>5, CountedShape
  <2>6. /\ SumOf(s, k) + Portion(s[i], m, k) = SumOf(r, k) + Part(s[i], k)
        /\ Ids(r) = Ids(s)
    BY <2>3, <2>a, SumCounted
  <2>7. SumOf(r, k) \in Nat
    <3>1. r \in Seq(Item)
      BY <2>3, <2>4, <2>5, CountedKeeps
    <3> QED BY <3>1, MayLie, PartsOf
  <2>8. CASE it.kind = k
    BY <1>0, <2>3, <2>5, <2>6, <2>7, <2>8 DEF Part, Portion, m
  <2>9. CASE it.kind # k
    BY <1>0, <2>3, <2>6, <2>7, <2>9 DEF Part, Portion
  <2> QED BY <2>8, <2>9
<1>2. CASE ~(it.kind \in Tool /\ Alike(s, it) # {})
  <2> DEFINE n == Len(s)
  <2>1. r = Append(s, it)
    BY <1>2 DEF Stacked
  <2>2. SumOf(r, k) = Part(it, k) + SumOf(s, k)
    BY <1>0, <2>1, SumAppended
  <2>3. \A i \in DOMAIN r : r[i] = it \/ \E j \in DOMAIN s : r[i] = s[j]
    <3>1. /\ n \in Nat /\ DOMAIN s = 1 .. n /\ DOMAIN r = 1 .. n + 1
          /\ r[n + 1] = it /\ \A i \in 1 .. n : r[i] = s[i]
      BY <2>1, AppendProperties, LenProperties
    <3> HIDE DEF n
    <3> QED BY <3>1
  <2>4. Ids(r) \subseteq Ids(s) \cup {it.id}
    BY <2>3 DEF Ids
  <2>5. Part(it, k) \in Nat
    BY <1>0 DEF Part
  <2> QED BY <1>0, <2>2, <2>4, <2>5
<1> QED BY <1>1, <1>2

\* Taking units off loses nothing.
LEMMA SumUnitsOff ==
    ASSUME NEW s \in Seq(Item), NEW r, r = UnitsOff(s), NEW k
    PROVE  SumOf(r, k) = SumOf(s, k) /\ Ids(r) = Ids(s)
<1>1. r \in Seq(Lying) /\ s \in Seq(Lying) /\ DOMAIN r = DOMAIN s /\ \A i \in DOMAIN s : s[i] \in Item
  BY UnitsOffKeeps, MayLie
<1>2. \A i \in DOMAIN s : r[i].kind = s[i].kind /\ r[i].n = s[i].n /\ r[i].id = s[i].id
  <2> TAKE i \in DOMAIN s
  <2>1. r[i] = s[i] \/ r[i] = [s[i] EXCEPT !.on = FALSE]
    BY DEF UnitsOff, Unequipped
  <2> QED BY <1>1, <2>1 DEF Item
<1>3. \A i \in DOMAIN s : Part(s[i], k) = Part(r[i], k)
  BY <1>2 DEF Part
<1>4. SumOf(s, k) = SumOf(r, k)
  BY ONLY <1>1, <1>3, SumSame
<1> QED BY <1>1, <1>2, <1>4 DEF Ids

\* handle_bb_sort_inv loses nothing: its list names every item once.
LEMMA SumSorted ==
    ASSUME NEW s \in Seq(Item), NEW order \in Bijection(DOMAIN s, DOMAIN s),
           NEW r, r = [i \in DOMAIN s |-> s[order[i]]], NEW k
    PROVE  SumOf(r, k) = SumOf(s, k) /\ Ids(r) \subseteq Ids(s)
<1>1. r \in Seq(Lying) /\ s \in Seq(Lying)
  BY SortedKeeps, MayLie
<1>2. DOMAIN r = DOMAIN s /\ order \in Bijection(DOMAIN r, DOMAIN s)
  OBVIOUS
<1>3. \A i \in DOMAIN r : r[i] = s[order[i]] /\ order[i] \in DOMAIN s
  BY DEF Bijection, Injection
<1>4. \A i \in DOMAIN r : Part(r[i], k) = Part(s[order[i]], k)
  BY <1>3
<1>5. SumOf(r, k) = SumOf(s, k)
  BY ONLY <1>1, <1>2, <1>4, SumMoved
<1> QED BY <1>3, <1>5 DEF Ids

\* Under new numbers there is as much.
Renumbered(s, f) == [i \in DOMAIN s |-> [s[i] EXCEPT !.id = f[i]]]

LEMMA SumRenumbered ==
    ASSUME NEW s \in Seq(Item), NEW f \in [DOMAIN s -> Int \X Int], NEW k
    PROVE  /\ SumOf(Renumbered(s, f), k) = SumOf(s, k)
           /\ \A i \in DOMAIN Renumbered(s, f) : i \in DOMAIN s /\ Renumbered(s, f)[i].id = f[i]
<1> DEFINE r == [i \in DOMAIN s |-> [s[i] EXCEPT !.id = f[i]]]
<1>1. r \in Seq(Lying) /\ s \in Seq(Lying) /\ DOMAIN r = DOMAIN s /\ \A i \in DOMAIN s : s[i] \in Item
  <2>1. r \in Seq(Item)
    BY RenumberedKeeps
  <2> QED BY <2>1, MayLie
<1>2. \A i \in DOMAIN s : r[i].kind = s[i].kind /\ r[i].n = s[i].n /\ r[i].id = f[i]
  <2> TAKE i \in DOMAIN s
  <2>1. r[i] = [s[i] EXCEPT !.id = f[i]] /\ s[i] \in Item
    BY <1>1
  <2> QED BY <2>1 DEF Item
<1>3. r = Renumbered(s, f)
  BY DEF Renumbered
<1> HIDE DEF r
<1>4. \A i \in DOMAIN s : Part(s[i], k) = Part(r[i], k)
  BY <1>2 DEF Part
<1>5. SumOf(s, k) = SumOf(r, k)
  BY ONLY <1>1, <1>4, SumSame
<1> QED BY <1>1, <1>2, <1>3, <1>5

(***************************************************************************)
(* How much there is in a team, and what a step makes of it.               *)
(***************************************************************************)

Stock ==
    /\ inv \in [Player -> Seq(Item)] /\ bank \in [Player -> Seq(Item)]
    /\ meseta \in [Player -> Nat] /\ banked \in [Player -> Nat]
    /\ floor \in Seq(Lying)

\* What the server is going to drop.
Coming(d, k) == Cardinality({i \in DOMAIN d : d[i] = k})

LEMMA ComingNat ==
    ASSUME NEW S, NEW d \in Seq(S), NEW k
    PROVE  IsFiniteSet({i \in DOMAIN d : d[i] = k}) /\ Coming(d, k) \in Nat
<1> DEFINE n == Len(d)
<1>1. n \in Nat /\ DOMAIN d = 1 .. n
  BY LenProperties
<1>2. IsFiniteSet(1 .. n)
  <2>1. 1 \in Int /\ n \in Int
    BY <1>1
  <2> QED BY <2>1, FS_Interval
<1> DEFINE T == {i \in DOMAIN d : d[i] = k}
<1>3. IsFiniteSet(T) /\ Cardinality(T) \in Nat
  <2>1. T \subseteq 1 .. n
    BY <1>1
  <2> HIDE DEF T, n
  <2> QED BY <1>2, <2>1, FS_Subset, FS_CardinalityType
<1> QED BY <1>3 DEF Coming

\* The first of what is to come does not come again.
LEMMA ComingDropped ==
    ASSUME NEW S, NEW d \in Seq(S), d # <<>>, NEW k
    PROVE  Coming(d, k) = Coming(Tail(d), k) + (IF Head(d) = k THEN 1 ELSE 0)
<1> DEFINE n == Len(d)
<1>1. PICK e : e = Tail(d)
  OBVIOUS
<1>2. /\ n \in Nat \ {0} /\ DOMAIN d = 1 .. n /\ e \in Seq(S) /\ DOMAIN e = 1 .. n - 1
      /\ \A i \in 1 .. n - 1 : e[i] = d[i + 1]
      /\ Head(d) = d[1]
  <2>1. /\ Len(d) \in Nat /\ Len(d) # 0 /\ DOMAIN d = 1 .. Len(d)
    BY LenProperties, EmptySeq
  <2>2. /\ e \in Seq(S) /\ Len(e) = Len(d) - 1 /\ DOMAIN e = 1 .. Len(e)
        /\ \A i \in 1 .. Len(d) - 1 : e[i] = d[i + 1] /\ Head(d) = d[1]
    BY <1>1, HeadTailProperties, LenProperties
  <2>3. Head(d) = d[1]
    BY HeadTailProperties
  <2> QED BY <2>1, <2>2, <2>3
<1> HIDE DEF n
<1> DEFINE A == {i \in DOMAIN e : e[i] = k}
           B == {i \in DOMAIN d : d[i] = k}
           p == [i \in A |-> i + 1]
<1>3. p \in Bijection(A, B \ {1})
  <2>1. ASSUME NEW i \in A PROVE p[i] \in B \ {1}
    <3>1. i \in 1 .. n - 1 /\ e[i] = k
      BY <1>2
    <3>2. i + 1 \in 1 .. n /\ i + 1 # 1 /\ d[i + 1] = k
      BY <1>2, <3>1
    <3> QED BY <1>2, <3>2
  <2>2. \A i, j \in A : p[i] = p[j] => i = j
    BY <1>2
  <2>3. ASSUME NEW j \in B \ {1} PROVE \E i \in A : p[i] = j
    <3>1. j \in 1 .. n /\ j # 1 /\ d[j] = k
      BY <1>2
    <3>2. j - 1 \in 1 .. n - 1 /\ (j - 1) + 1 = j
      BY <1>2, <3>1
    <3>3. e[j - 1] = k
      BY <1>2, <3>1, <3>2
    <3>4. j - 1 \in A
      BY <1>2, <3>2, <3>3
    <3> QED BY <3>2, <3>4
  <2>4. p \in [A -> B \ {1}]
    BY <2>1
  <2> HIDE DEF A, B, p
  <2> QED BY <2>2, <2>3, <2>4 DEF Bijection, Injection, Surjection, IsInjective
<1>4. IsFiniteSet(A) /\ IsFiniteSet(B) /\ Cardinality(A) = Coming(e, k) /\ Cardinality(B) = Coming(d, k)
      /\ Coming(e, k) \in Nat /\ Coming(d, k) \in Nat
  BY <1>2, ComingNat DEF Coming
<1>5. 1 \in B <=> Head(d) = k
  BY <1>2
<1> HIDE DEF A, B, p
<1>6. IsFiniteSet(B \ {1}) /\ Cardinality(B \ {1}) = Cardinality(A)
  <2>1. IsFiniteSet(B \ {1})
    BY <1>4, FS_Subset
  <2> QED BY <1>3, <1>4, <2>1, FS_Bijection DEF ExistsBijection
<1>7. CASE 1 \in B
  <2>1. Cardinality(B \ {1}) = Cardinality(B) - 1
    BY <1>4, <1>7, FS_RemoveElement
  <2>2. Coming(d, k) = Coming(e, k) + 1
    BY <1>4, <1>6, <2>1
  <2> QED BY <1>1, <1>5, <1>7, <2>2
<1>8. CASE 1 \notin B
  <2>1. Cardinality(B \ {1}) = Cardinality(B)
    <3>1. B \ {1} = B
      BY <1>8
    <3> QED BY ONLY <3>1
  <2>2. Coming(d, k) = Coming(e, k) + 0
    BY <1>4, <1>6, <2>1
  <2> QED BY <1>1, <1>5, <1>8, <2>2
<1> QED BY <1>7, <1>8

\* What there was is there, or less of it; and whoever lost goods has lost its connection,
\* or the team has ended.
Accounted(k) ==
    /\ InPlay(k)' + ToCome(k)' <= InPlay(k) + ToCome(k)
    /\ k \in Kind /\ InPlay(k)' < InPlay(k) => gone' \ gone # {} \/ \A s \in Slots : seat'[s] = Nobody

\* Only this client's goods may have changed, and what lies on the floor.
OnlyOf(c) ==
    \A d \in Player \ {c} : /\ inv'[d] = inv[d] /\ bank'[d] = bank[d]
                            /\ meseta'[d] = meseta[d] /\ banked'[d] = banked[d]

LEMMA GoodsAre == ASSUME ItemsInv, ItemsInv' PROVE Stock /\ Stock'
<1>1. Stock
  BY TeamItemsConstants DEF ItemsInv, Carrying, Banking, Rest, Stock
<1>2. Stock'
  BY TeamItemsConstants DEF ItemsInv, Carrying, Banking, Rest, Stock
<1> QED BY <1>1, <1>2

LEMMA HasNat == ASSUME Stock, NEW c \in Player, NEW k PROVE Has(c, k) \in Nat /\ SumOf(floor, k) \in Nat
<1>1. inv[c] \in Seq(Lying) /\ bank[c] \in Seq(Lying) /\ floor \in Seq(Lying)
  BY MayLie DEF Stock
<1>2. SumOf(inv[c], k) \in Nat /\ SumOf(bank[c], k) \in Nat /\ SumOf(floor, k) \in Nat
  BY <1>1, PartsOf
<1>3. meseta[c] \in Nat /\ banked[c] \in Nat
  BY DEF Stock
<1> QED BY <1>2, <1>3 DEF Has

LEMMA HadNat == ASSUME Stock', NEW c \in Player, NEW k PROVE Has(c, k)' \in Nat /\ SumOf(floor', k) \in Nat
<1>1. inv'[c] \in Seq(Lying) /\ bank'[c] \in Seq(Lying) /\ floor' \in Seq(Lying)
  BY MayLie DEF Stock
<1>2. SumOf(inv'[c], k) \in Nat /\ SumOf(bank'[c], k) \in Nat /\ SumOf(floor', k) \in Nat
  BY <1>1, PartsOf
<1>3. meseta'[c] \in Nat /\ banked'[c] \in Nat
  BY DEF Stock
<1> QED BY <1>2, <1>3 DEF Has

\* The team has more by what that client and the floor have more.
LEMMA Balance ==
    ASSUME Stock, Stock', NEW c \in Player, OnlyOf(c), NEW k
    PROVE  /\ InPlay(k) \in Nat /\ InPlay(k)' \in Nat
           /\ InPlay(k)' + Has(c, k) + SumOf(floor, k) = InPlay(k) + Has(c, k)' + SumOf(floor', k)
<1>0. IsFiniteSet(Player)
  BY TeamItemsConstants
<1>1. PICK f : f = [d \in Player |-> Has(d, k)]
  OBVIOUS
<1>2. PICK g : g = [d \in Player |-> Has(d, k)']
  OBVIOUS
<1>3. f \in [Player -> Nat] /\ f[c] = Has(c, k) /\ SumOf(floor, k) \in Nat
  BY <1>1, HasNat
<1>4. g \in [Player -> Nat] /\ g[c] = Has(c, k)' /\ SumOf(floor', k) \in Nat
  BY <1>2, HadNat
<1>5. \A d \in Player : d # c => f[d] = g[d]
  BY <1>1, <1>2 DEF OnlyOf, Has
<1>6. Total(f) + g[c] = Total(g) + f[c] /\ Total(f) \in Nat /\ Total(g) \in Nat
  BY <1>0, <1>3, <1>4, <1>5, TotalChanged, PiecesFinite
<1>7. InPlay(k) = SumOf(floor, k) + Total(f)
  BY <1>1 DEF InPlay
<1>8. InPlay(k)' = SumOf(floor', k) + Total(g)
  BY <1>2 DEF InPlay
<1>9. f[c] \in Nat /\ g[c] \in Nat
  BY <1>3, <1>4
<1> DEFINE a == InPlay(k)
           b == InPlay(k)'
<1>10. a = SumOf(floor, k) + Total(f) /\ b = SumOf(floor', k) + Total(g)
  BY <1>7, <1>8
<1> HIDE DEF a, b
<1>11. a \in Nat /\ b \in Nat /\ b + f[c] + SumOf(floor, k) = a + g[c] + SumOf(floor', k)
  BY <1>3, <1>4, <1>6, <1>9, <1>10
<1> QED BY <1>3, <1>4, <1>11 DEF a, b

\* A step that does not touch what is to come.
LEMMA Accounts ==
    ASSUME ItemsInv, ItemsInv', UNCHANGED drops, NEW c \in Player, OnlyOf(c), NEW k,
           Has(c, k)' + SumOf(floor', k) <= Has(c, k) + SumOf(floor, k),
           \/ k \notin Kind \/ Has(c, k)' + SumOf(floor', k) = Has(c, k) + SumOf(floor, k)
           \/ gone' \ gone # {} \/ \A s \in Slots : seat'[s] = Nobody
    PROVE  Accounted(k)
<1>1. Stock /\ Stock'
  BY GoodsAre
<1>2. /\ InPlay(k) \in Nat /\ InPlay(k)' \in Nat
      /\ InPlay(k)' + Has(c, k) + SumOf(floor, k) = InPlay(k) + Has(c, k)' + SumOf(floor', k)
  BY <1>1, Balance
<1>3. Has(c, k) \in Nat /\ SumOf(floor, k) \in Nat /\ Has(c, k)' \in Nat /\ SumOf(floor', k) \in Nat
  BY <1>1, HasNat, HadNat
<1>4. ToCome(k)' = ToCome(k) /\ ToCome(k) \in Nat
  <2>1. drops \in Seq(Kind \cup {Meseta})
    BY DEF ItemsInv, Rest
  <2> QED BY <2>1, ComingNat DEF ToCome, Coming
<1> DEFINE a == InPlay(k)
           b == InPlay(k)'
           h == Has(c, k)
           g == Has(c, k)'
           x == SumOf(floor, k)
           y == SumOf(floor', k)
<1>5. /\ a \in Nat /\ b \in Nat /\ h \in Nat /\ g \in Nat /\ x \in Nat /\ y \in Nat
      /\ b + h + x = a + g + y /\ g + y <= h + x
  BY <1>2, <1>3
<1>6. (g + y = h + x) \/ k \notin Kind \/ gone' \ gone # {} \/ \A s \in Slots : seat'[s] = Nobody
  OBVIOUS
<1> HIDE DEF a, b, h, g, x, y
<1>7. b <= a /\ (g + y = h + x => b = a)
  BY <1>5
<1>8. b < a => g + y # h + x
  BY <1>5
<1>9. InPlay(k)' + ToCome(k)' <= InPlay(k) + ToCome(k)
  BY <1>4, <1>5, <1>7 DEF a, b
<1> QED BY <1>6, <1>8, <1>9 DEF Accounted, a, b

\* What a step makes of the goods of one client and of the floor, kind by kind.
LEMMA StepAccounts ==
    ASSUME ItemsInv, ItemsInv', UNCHANGED drops, NEW c \in Player, OnlyOf(c),
           \A k \in Kind :
               SumOf(inv'[c], k) + SumOf(bank'[c], k) + SumOf(floor', k)
                   <= SumOf(inv[c], k) + SumOf(bank[c], k) + SumOf(floor, k),
           \/ gone' \ gone # {} \/ \A s \in Slots : seat'[s] = Nobody
           \/ \A k \in Kind :
               SumOf(inv'[c], k) + SumOf(bank'[c], k) + SumOf(floor', k)
                   = SumOf(inv[c], k) + SumOf(bank[c], k) + SumOf(floor, k),
           meseta'[c] + banked'[c] + SumOf(floor', Meseta) <= meseta[c] + banked[c] + SumOf(floor, Meseta)
    PROVE  \A k \in Kind \cup {Meseta} : Accounted(k)
<1>1. ASSUME NEW k \in Kind PROVE Accounted(k)
  <2>1. k # Meseta
    BY TeamItemsConstants
  <2>2. Has(c, k) = SumOf(inv[c], k) + SumOf(bank[c], k)
    BY <2>1 DEF Has
  <2>3. Has(c, k)' = SumOf(inv'[c], k) + SumOf(bank'[c], k)
    BY <2>1 DEF Has
  <2>4. Has(c, k)' + SumOf(floor', k) <= Has(c, k) + SumOf(floor, k)
    BY <2>2, <2>3
  <2>5. \/ Has(c, k)' + SumOf(floor', k) = Has(c, k) + SumOf(floor, k)
        \/ gone' \ gone # {} \/ \A s \in Slots : seat'[s] = Nobody
    BY <2>2, <2>3
  <2> QED BY <2>4, <2>5, Accounts
<1>2. Accounted(Meseta)
  <2>1. Meseta \notin Kind
    BY TeamItemsConstants
  <2>2. Has(c, Meseta) = meseta[c] + banked[c]
    BY DEF Has
  <2>3. Has(c, Meseta)' = meseta'[c] + banked'[c]
    BY DEF Has
  <2>4. Has(c, Meseta)' + SumOf(floor', Meseta) <= Has(c, Meseta) + SumOf(floor, Meseta)
    BY <2>2, <2>3
  <2> QED BY <2>1, <2>4, Accounts
<1> QED BY <1>1, <1>2

\* Whoever plays has items with numbers, and so has what lies on the floor.
Named ==
    /\ \A c \in Player : InTeam(c) => NoId \notin Ids(inv[c])
    /\ NoId \notin Ids(floor)

\* What is announced is there to be dropped, and is what c->items says it is.
Promised ==
    \A c \in Player : drop_item[c] # Nobody =>
        /\ drop_item[c].item = NoId => drop_item[c].amt <= meseta[c]
        /\ drop_item[c].item # NoId => \A i \in DOMAIN inv[c] : inv[c][i].id = drop_item[c].item =>
             drop_item[c].amt <= inv[c][i].n /\ SnapAt(c, i) = inv[c][i].kind

LEMMA NamedKept ==
    ASSUME Named, UNCHANGED seat, NEW c \in Player, \A d \in Player \ {c} : inv'[d] = inv[d],
           InTeam(c) => NoId \notin Ids(inv'[c]), NoId \notin Ids(floor')
    PROVE  Named'
BY DEF Named, InTeam, Ids

\* Nobody else's announcement is touched.
LEMMA PromisesStay ==
    ASSUME Promised, NEW c \in Player, drop_item[c] = Nobody, UNCHANGED <<drop_item, snap>>,
           \A d \in Player \ {c} : inv'[d] = inv[d] /\ meseta'[d] = meseta[d]
    PROVE  Promised'
BY DEF Promised, SnapAt

LEMMA PromisesEnd ==
    ASSUME Promised, Announcing, NEW c \in Player, drop_item' = [drop_item EXCEPT ![c] = Nobody],
           \A d \in Player \ {c} : inv'[d] = inv[d] /\ meseta'[d] = meseta[d] /\ snap'[d] = snap[d]
    PROVE  Promised'
BY DEF Promised, Announcing, SnapAt

\* The number of an item in a list.
LEMMA IdOf == ASSUME NEW s, NEW i \in DOMAIN s PROVE s[i].id \in Ids(s)
BY DEF Ids

\* A list with an item in front has its number too.
LEMMA PushedIds ==
    ASSUME NEW s \in Seq(Lying), NEW e \in Lying, NEW t, t = <<e>> \o s
    PROVE  Ids(t) \subseteq Ids(s) \cup {e.id}
<1> DEFINE n == Len(s)
<1>1. n \in Nat /\ DOMAIN s = 1 .. n /\ DOMAIN t = 1 .. 1 + n
      /\ \A i \in 1 .. 1 + n : t[i] = IF i <= 1 THEN <<e>>[i] ELSE s[i - 1]
  <2>1. <<e>> \in Seq(Lying) /\ Len(<<e>>) = 1
    OBVIOUS
  <2>2. /\ t \in Seq(Lying) /\ Len(t) = 1 + n
        /\ \A i \in 1 .. 1 + n : t[i] = IF i <= 1 THEN <<e>>[i] ELSE s[i - 1]
    BY <2>1, ConcatProperties
  <2> QED BY <2>2, LenProperties
<1> HIDE DEF n
<1>2. ASSUME NEW i \in DOMAIN t PROVE t[i] = e \/ \E j \in DOMAIN s : t[i] = s[j]
  <2>1. CASE i = 1
    <3>1. <<e>>[1] = e
      OBVIOUS
    <3> QED BY <1>1, <2>1, <3>1
  <2>2. CASE i # 1
    <3>1. ~(i <= 1) /\ i - 1 \in DOMAIN s
      BY <1>1, <2>2
    <3> QED BY <1>1, <3>1
  <2> QED BY <2>1, <2>2
<1> QED BY <1>2 DEF Ids

\* The books balance after a step.
Balanced == Named' /\ Promised' /\ \A k \in Kind \cup {Meseta} : Accounted(k)

\* What a client has and what lies there, as numbers.
LEMMA SumsNat ==
    ASSUME ItemsInv, NEW c \in Player, NEW k
    PROVE  /\ SumOf(inv[c], k) \in Nat /\ SumOf(bank[c], k) \in Nat /\ SumOf(floor, k) \in Nat
           /\ meseta[c] \in Nat /\ banked[c] \in Nat
<1>1. inv[c] \in Seq(Lying) /\ bank[c] \in Seq(Lying) /\ floor \in Seq(Lying)
  BY MayLie DEF ItemsInv, Carrying, Banking, Rest
<1>2. meseta[c] \in 0 .. MaxMeseta /\ banked[c] \in 0 .. MaxMeseta
  BY DEF ItemsInv, Rest
<1>3. SumOf(inv[c], k) \in Nat /\ SumOf(bank[c], k) \in Nat /\ SumOf(floor, k) \in Nat
  BY <1>1, PartsOf
<1>4. meseta[c] \in Nat /\ banked[c] \in Nat
  BY <1>2, TeamItemsConstants
<1> QED BY <1>3, <1>4

LEMMA OnlyInv ==
    ASSUME ItemsInv, NEW c \in Player, NEW x, inv' = [inv EXCEPT ![c] = x], UNCHANGED <<meseta, banked, bank>>
    PROVE  OnlyOf(c) /\ inv'[c] = x
BY DEF OnlyOf, ItemsInv, Carrying

\* What a member at leisure does to what it carries, without giving any of it away.
LEMMA OwnSame ==
    ASSUME ItemsInv, Named, Promised, ItemsInv', NEW c \in Player, Idle(c),
           NEW x, inv' = [inv EXCEPT ![c] = x],
           \A k \in Kind : SumOf(x, k) = SumOf(inv[c], k), Ids(x) \subseteq Ids(inv[c]),
           UNCHANGED <<seat, snap, meseta, banked, bank, drop_item, floor, drops>>
    PROVE  Balanced
<1>1. OnlyOf(c) /\ inv'[c] = x
  BY OnlyInv
<1>2. InTeam(c) /\ drop_item[c] = Nobody
  BY AtLeisure
<1>3. Named'
  <2>1. NoId \notin Ids(x) /\ NoId \notin Ids(floor')
    BY <1>2 DEF Named
  <2> QED BY <1>1, <2>1, NamedKept DEF OnlyOf
<1>4. Promised'
  BY <1>1, <1>2, PromisesStay DEF OnlyOf
<1>5. \A k \in Kind : /\ SumOf(inv'[c], k) + SumOf(bank'[c], k) + SumOf(floor', k)
                          = SumOf(inv[c], k) + SumOf(bank[c], k) + SumOf(floor, k)
                      /\ SumOf(inv'[c], k) + SumOf(bank'[c], k) + SumOf(floor', k)
                          <= SumOf(inv[c], k) + SumOf(bank[c], k) + SumOf(floor, k)
  BY <1>1, SumsNat
<1>6. meseta'[c] + banked'[c] + SumOf(floor', Meseta) <= meseta[c] + banked[c] + SumOf(floor, Meseta)
  BY SumsNat
<1>7. \A k \in Kind \cup {Meseta} : Accounted(k)
  BY <1>1, <1>5, <1>6, StepAccounts
<1> QED BY <1>3, <1>4, <1>7 DEF Balanced

LEMMA SortBalances ==
    ASSUME ItemsInv, Named, Promised, ItemsInv', NEW c \in Player,
           NEW order \in Bijection(DOMAIN inv[c], DOMAIN inv[c]), Sort(c, order)
    PROVE  Balanced
<1> DEFINE x == [i \in DOMAIN inv[c] |-> inv[c][order[i]]]
<1>1. /\ Idle(c) /\ inv' = [inv EXCEPT ![c] = x]
      /\ UNCHANGED <<seat, snap, meseta, banked, bank, drop_item, floor, drops>>
  BY DEF Sort, teamVars, purses
<1>2. inv[c] \in Seq(Item)
  BY Carried
<1> HIDE DEF x
<1>3. \A k : SumOf(x, k) = SumOf(inv[c], k) /\ Ids(x) \subseteq Ids(inv[c])
  BY <1>2, SumSorted DEF x
<1> QED BY <1>1, <1>3, OwnSame

\* One item is worn or not: its kind and its pieces are what they were.
Wearing(s, i, b) == [s EXCEPT ![i].on = b]

LEMMA SumWorn ==
    ASSUME NEW s \in Seq(Item), NEW i \in DOMAIN s, NEW b \in BOOLEAN, NEW k
    PROVE  /\ Wearing(s, i, b) \in Seq(Item) /\ SumOf(Wearing(s, i, b), k) = SumOf(s, k)
           /\ Ids(Wearing(s, i, b)) = Ids(s)
<1> DEFINE x == Wearing(s, i, b)
<1>1. s[i] \in Item
  BY MayLie
<1>2. PICK e \in Item : e = [s[i] EXCEPT !.on = b]
  BY <1>1 DEF Item
<1>3. x = [s EXCEPT ![i] = e] /\ e.id = s[i].id /\ e.kind = s[i].kind /\ e.n = s[i].n
  BY <1>1, <1>2 DEF Item, Wearing
<1> HIDE DEF x
<1>4. x \in Seq(Item) /\ DOMAIN x = DOMAIN s /\ x[i] = e /\ \A j \in DOMAIN s : j # i => x[j] = s[j]
  BY <1>3, WornShape
<1>5. \A j \in DOMAIN s : x[j].id = s[j].id /\ x[j].kind = s[j].kind /\ x[j].n = s[j].n
  BY <1>3, <1>4
<1>6. \A j \in DOMAIN s : Part(x[j], k) = Part(s[j], k)
  BY <1>5 DEF Part
<1>a. s \in Seq(Lying) /\ x \in Seq(Lying)
  BY <1>4, MayLie
<1>7. SumOf(x, k) = SumOf(s, k)
  BY ONLY <1>a, <1>4, <1>6, SumSame
<1> QED BY <1>4, <1>5, <1>7 DEF Ids, x

LEMMA EquipBalances ==
    ASSUME ItemsInv, Named, Promised, ItemsInv', NEW c \in Player, NEW i \in DOMAIN inv[c],
           Equip(c, i) \/ Unequip(c, i)
    PROVE  Balanced
<1> DEFINE s == inv[c]
<1>1. s \in Seq(Item)
  BY Carried
<1>2. CASE Equip(c, i)
  <2> DEFINE x == Wearing(s, i, TRUE)
  <2>1. /\ Idle(c) /\ inv' = [inv EXCEPT ![c] = x]
        /\ UNCHANGED <<seat, snap, meseta, banked, bank, drop_item, floor, drops>>
    BY <1>2 DEF Equip, teamVars, purses, Wearing
  <2> HIDE DEF x
  <2>2. \A k : SumOf(x, k) = SumOf(s, k) /\ Ids(x) = Ids(s)
    BY <1>1, SumWorn DEF x
  <2> QED BY <2>1, <2>2, OwnSame
<1>3. CASE Unequip(c, i)
  <2> DEFINE y == Wearing(s, i, FALSE)
             x == IF s[i].kind \in Frame THEN UnitsOff(y) ELSE y
  <2>1. /\ Idle(c) /\ inv' = [inv EXCEPT ![c] = x]
        /\ UNCHANGED <<seat, snap, meseta, banked, bank, drop_item, floor, drops>>
    BY <1>3 DEF Unequip, teamVars, purses, Wearing
  <2>2. ASSUME NEW k PROVE SumOf(x, k) = SumOf(s, k) /\ Ids(x) = Ids(s)
    <3>1. y \in Seq(Item) /\ SumOf(y, k) = SumOf(s, k) /\ Ids(y) = Ids(s)
      BY <1>1, SumWorn
    <3> HIDE DEF y
    <3>2. SumOf(UnitsOff(y), k) = SumOf(y, k) /\ Ids(UnitsOff(y)) = Ids(y)
      BY <3>1, SumUnitsOff
    <3> QED BY <3>1, <3>2
  <2> HIDE DEF x, y
  <2> QED BY <2>1, <2>2, OwnSame
<1> QED BY <1>2, <1>3

\* Goods that go from what a client carries to the floor.
LEMMA OwnDown ==
    ASSUME ItemsInv, Named, Promised, ItemsInv', NEW c \in Player, InTeam(c),
           NEW x, inv' = [inv EXCEPT ![c] = x], NEW new \in Lying, floor' = <<new>> \o floor,
           new.id # NoId, new.kind # Meseta,
           \A k \in Kind : SumOf(inv[c], k) = SumOf(x, k) + Part(new, k), Ids(x) \subseteq Ids(inv[c]),
           UNCHANGED <<seat, meseta, banked, bank, drops>>, Promised'
    PROVE  Balanced
<1>1. OnlyOf(c) /\ inv'[c] = x
  BY OnlyInv
<1>2. floor \in Seq(Lying)
  BY DEF ItemsInv, Rest
<1>3. Named'
  <2>1. NoId \notin Ids(x)
    BY DEF Named
  <2>2. NoId \notin Ids(floor')
    BY <1>2, PushedIds DEF Named
  <2> QED BY <1>1, <2>1, <2>2, NamedKept DEF OnlyOf
<1>4. \A k : SumOf(floor', k) = Part(new, k) + SumOf(floor, k)
  BY <1>2, SumPushed, ZenonT(40)
<1>5. ASSUME NEW k \in Kind
      PROVE  SumOf(inv'[c], k) + SumOf(bank'[c], k) + SumOf(floor', k)
               = SumOf(inv[c], k) + SumOf(bank[c], k) + SumOf(floor, k)
  <2>1. SumOf(x, k) \in Nat /\ SumOf(bank[c], k) \in Nat /\ SumOf(floor, k) \in Nat /\ Part(new, k) \in Nat
    <3>1. SumOf(x, k) \in Nat
      <4>1. inv'[c] \in Seq(Lying)
        BY MayLie DEF ItemsInv, Carrying
      <4> QED BY <1>1, <4>1, PartsOf
    <3>2. Part(new, k) \in Nat
      BY DEF Part, Lying
    <3> QED BY <3>1, <3>2, SumsNat
  <2>2. SumOf(inv[c], k) = SumOf(x, k) + Part(new, k) /\ SumOf(floor', k) = Part(new, k) + SumOf(floor, k)
    BY <1>4
  <2> QED BY <1>1, <2>1, <2>2
<1>6. \A k \in Kind : SumOf(inv'[c], k) + SumOf(bank'[c], k) + SumOf(floor', k)
                        <= SumOf(inv[c], k) + SumOf(bank[c], k) + SumOf(floor, k)
  BY <1>5, SumsNat
<1>7. meseta'[c] + banked'[c] + SumOf(floor', Meseta) <= meseta[c] + banked[c] + SumOf(floor, Meseta)
  <2>1. Part(new, Meseta) = 0
    BY DEF Part
  <2> QED BY <1>4, <2>1, SumsNat
<1>8. \A k \in Kind \cup {Meseta} : Accounted(k)
  BY <1>1, <1>5, <1>6, <1>7, StepAccounts
<1> QED BY <1>3, <1>8 DEF Balanced

\* What is on a list of items is no meseta.
LEMMA NoMoney == ASSUME NEW it \in Item PROVE it.kind # Meseta /\ it \in Lying
BY TeamItemsConstants DEF Item, Lying

LEMMA DropItemBalances ==
    ASSUME ItemsInv, Named, Promised, ItemsInv', NEW c \in Player, NEW i \in DOMAIN inv[c], DropItem(c, i)
    PROVE  Balanced
<1> DEFINE s == inv[c]
           it == inv[c][i]
           new == Unequipped(it)
<1>1. /\ Idle(c) /\ floor' = <<new>> \o floor
      /\ UNCHANGED <<seat, snap, meseta, banked, bank, drop_item, drops>>
  BY DEF DropItem, teamVars, purses
<1>2. PICK isframe \in IF IsWornFrame(it) THEN {TRUE} ELSE BOOLEAN :
         inv' = [inv EXCEPT ![c] = RemoveAt(IF isframe THEN UnitsOff(@) ELSE @, i)]
  BY DEF DropItem
<1> DEFINE base == IF isframe THEN UnitsOff(s) ELSE s
           x == RemoveAt(base, i)
<1>3. inv' = [inv EXCEPT ![c] = x]
  BY <1>2
<1>4. s \in Seq(Item) /\ it \in Item /\ InTeam(c) /\ drop_item[c] = Nobody
  BY <1>1, AtLeisure, Carried
<1>5. base \in Seq(Lying) /\ i \in DOMAIN base /\ Ids(base) = Ids(s) /\ \A k : SumOf(base, k) = SumOf(s, k)
  <2>1. UnitsOff(s) \in Seq(Item) /\ DOMAIN UnitsOff(s) = DOMAIN s /\ Ids(UnitsOff(s)) = Ids(s)
        /\ \A k : SumOf(UnitsOff(s), k) = SumOf(s, k)
    BY <1>4, UnitsOffKeeps, SumUnitsOff
  <2>2. UnitsOff(s) \in Seq(Lying) /\ s \in Seq(Lying)
    BY <1>4, <2>1, MayLie
  <2> QED BY <2>1, <2>2
<1>6. base[i].kind = it.kind /\ base[i].n = it.n /\ new.kind = it.kind /\ new.n = it.n /\ new.id = it.id
  <2>1. base[i] = it \/ base[i] = [it EXCEPT !.on = FALSE]
    BY DEF UnitsOff, Unequipped
  <2>2. new = [it EXCEPT !.on = FALSE]
    BY DEF Unequipped
  <2> HIDE DEF base, new
  <2> QED BY <1>4, <2>1, <2>2 DEF Item
<1>7. new \in Lying /\ new.kind # Meseta
  <2>1. new \in Item
    BY <1>4 DEF Unequipped, Item
  <2> QED BY <2>1, NoMoney
<1>8. new.id # NoId
  BY <1>4, <1>6, IdOf DEF Named
<1> HIDE DEF base, new
<1>9. \A k : SumOf(base, k) = Part(base[i], k) + SumOf(x, k)
  BY <1>5, SumRemoved
<1>10. Ids(x) \subseteq Ids(s)
  BY <1>5, RemovedIds
<1> HIDE DEF x
<1>11. ASSUME NEW k \in Kind PROVE SumOf(s, k) = SumOf(x, k) + Part(new, k)
  <2>1. Part(base[i], k) = Part(new, k)
    BY <1>6 DEF Part
  <2>2. Part(new, k) \in Nat
    BY <1>7 DEF Part, Lying
  <2>3. SumOf(x, k) \in Nat
    <3>1. inv'[c] \in Seq(Lying) /\ inv'[c] = x
      BY <1>1, <1>3, OnlyInv, MayLie DEF ItemsInv, Carrying
    <3> QED BY <3>1, PartsOf
  <2>4. SumOf(s, k) = Part(new, k) + SumOf(x, k)
    BY <1>5, <1>9, <2>1
  <2> QED BY <2>2, <2>3, <2>4
<1>12. Promised'
  BY <1>1, <1>3, <1>4, OnlyInv, PromisesStay DEF OnlyOf
<1> QED BY <1>1, <1>3, <1>4, <1>7, <1>8, <1>10, <1>11, <1>12, OwnDown

\* The numbers a slot gives out are numbers.
LEMMA SplitNamed ==
    ASSUME ItemsInv, NEW c \in Player, InTeam(c), Numbered(c), drop_item[c] # Nobody,
           NEW kind \in Kind \cup {Blank, Meseta}, NEW new, new = Split(c, kind)
    PROVE  new \in Lying /\ new.id # NoId /\ new.kind = kind /\ new.n = drop_item[c].amt /\ new.n \in Nat \ {0}
<1> DEFINE s == SlotOf(c)
           h == highest_item[s] + 1
<1>1. <<s, h>> \in Int \X Int
  BY NumberedFits
<1>2. s \in Nat
  <2>1. SlotOf(c) \in Slots /\ Slots \subseteq Nat
    BY SlotOfMember, SlotNumbers DEF ItemsInv
  <2> QED BY <2>1
<1>3. drop_item[c].amt \in Nat \ {0}
  BY DEF ItemsInv, Announcing, Announcement
<1>4. new = [id |-> <<s, h>>, kind |-> kind, n |-> drop_item[c].amt, on |-> FALSE]
  BY DEF Split
<1> HIDE DEF s, h
<1>5. <<s, h>> # NoId
  <2>1. s # -2
    BY <1>2
  <2> QED BY <2>1 DEF NoId
<1> QED BY <1>1, <1>3, <1>4, <1>5 DEF Lying

LEMMA DropStackBalances ==
    ASSUME ItemsInv, Named, Promised, ItemsInv', NEW c \in Player, DropStack(c)
    PROVE  Balanced
<1> DEFINE s == inv[c]
           found == {i \in DOMAIN s : s[i].id = drop_item[c].item}
           at == Min(found)
           amt == drop_item[c].amt
           x == Less(s, at, amt)
           new == Split(c, SnapAt(c, at))
<1>1. /\ InTeam(c) /\ drop_item[c] # Nobody /\ drop_item[c].item # NoId
      /\ found # {} /\ Numbered(c) /\ floor' = <<new>> \o floor
      /\ inv' = [inv EXCEPT ![c] = x] /\ drop_item' = [drop_item EXCEPT ![c] = Nobody]
      /\ UNCHANGED <<meseta, banked, seat, snap, bank, drops>>
  BY DEF DropStack, Acts, purses
<1>2. s \in Seq(Item) /\ DOMAIN s = 1 .. Len(s) /\ \A i \in DOMAIN s : s[i] \in Item
  BY Carried
<1>3. at \in found
  <2>1. found \in SUBSET Nat
    BY <1>2
  <2> HIDE DEF found
  <2> QED BY <1>1, <2>1, MinOfNat
<1>4. /\ at \in DOMAIN s /\ s[at].kind \in Tool /\ amt <= s[at].n /\ SnapAt(c, at) = s[at].kind
      /\ s[at] \in Item /\ amt \in Nat \ {0}
  <2>1. at \in DOMAIN s /\ s[at].id = drop_item[c].item
    BY <1>3
  <2>2. s[at].kind \in Tool /\ amt \in Nat \ {0}
    BY <1>1, <2>1 DEF ItemsInv, Announcing, Announcement
  <2>3. amt <= s[at].n /\ SnapAt(c, at) = s[at].kind
    BY <1>1, <2>1 DEF Promised
  <2> QED BY <1>2, <2>1, <2>2, <2>3
<1>5. new \in Lying /\ new.id # NoId /\ new.kind = s[at].kind /\ new.n = amt
  <2>1. SnapAt(c, at) \in Kind \cup {Blank, Meseta}
    BY <1>4 DEF Item
  <2> QED BY <1>1, <1>4, <2>1, SplitNamed
<1>6. new.kind # Meseta
  BY <1>4, <1>5, NoMoney
<1> HIDE DEF new, at, found, amt, x, s
<1>7. \A k : SumOf(s, k) = SumOf(x, k) + Portion(s[at], amt, k) /\ Ids(x) \subseteq Ids(s)
  BY <1>2, <1>4, SumLess DEF x
<1>8. \A k : Portion(s[at], amt, k) = Part(new, k)
  BY <1>5 DEF Portion, Part
<1>9. Promised'
  <2>1. OnlyOf(c)
    BY <1>1, OnlyInv
  <2> QED BY <1>1, <2>1, PromisesEnd DEF OnlyOf, ItemsInv
<1>10. \A k \in Kind : SumOf(inv[c], k) = SumOf(x, k) + Part(new, k)
  BY <1>7, <1>8 DEF s
<1>11. Ids(x) \subseteq Ids(inv[c])
  BY <1>7 DEF s
<1> QED BY <1>1, <1>5, <1>6, <1>9, <1>10, <1>11, OwnDown

\* Meseta that changes hands, or is paid.
LEMMA PurseBalances ==
    ASSUME ItemsInv, Named, ItemsInv', NEW c \in Player, Promised',
           NEW a \in Nat, NEW b \in Nat, meseta' = [meseta EXCEPT ![c] = a], banked' = [banked EXCEPT ![c] = b],
           UNCHANGED <<inv, seat, bank, drops>>,
           \A k \in Kind : SumOf(floor', k) = SumOf(floor, k), NoId \notin Ids(floor'),
           a + b + SumOf(floor', Meseta) <= meseta[c] + banked[c] + SumOf(floor, Meseta)
    PROVE  Balanced
<1>1. OnlyOf(c) /\ meseta'[c] = a /\ banked'[c] = b
  BY DEF OnlyOf, ItemsInv, Rest
<1>2. Named'
  BY NamedKept DEF Named
<1>3. \A k \in Kind : /\ SumOf(inv'[c], k) + SumOf(bank'[c], k) + SumOf(floor', k)
                          = SumOf(inv[c], k) + SumOf(bank[c], k) + SumOf(floor, k)
                      /\ SumOf(inv'[c], k) + SumOf(bank'[c], k) + SumOf(floor', k)
                          <= SumOf(inv[c], k) + SumOf(bank[c], k) + SumOf(floor, k)
  BY SumsNat
<1>4. meseta'[c] + banked'[c] + SumOf(floor', Meseta) <= meseta[c] + banked[c] + SumOf(floor, Meseta)
  BY <1>1
<1>5. \A k \in Kind \cup {Meseta} : Accounted(k)
  BY <1>1, <1>3, <1>4, StepAccounts
<1> QED BY <1>2, <1>5 DEF Balanced

LEMMA MoneyBalances ==
    ASSUME ItemsInv, Named, Promised, ItemsInv', NEW c \in Player, NEW n,
           Medic(c) \/ DepositMeseta(c, n) \/ WithdrawMeseta(c, n)
    PROVE  Balanced
<1>1. /\ Idle(c) /\ UNCHANGED <<inv, seat, snap, bank, drop_item, floor, drops>>
  BY DEF Medic, DepositMeseta, WithdrawMeseta, teamVars
<1>2. meseta[c] \in Nat /\ banked[c] \in Nat /\ SumOf(floor, Meseta) \in Nat /\ MaxMeseta \in Nat /\ Fee \in Nat
  BY SumsNat, TeamItemsConstants
<1>3. banked \in [Player -> 0 .. MaxMeseta] /\ meseta \in [Player -> 0 .. MaxMeseta]
  BY DEF ItemsInv, Rest
<1>4. PICK a \in Nat, b \in Nat : /\ meseta' = [meseta EXCEPT ![c] = a] /\ banked' = [banked EXCEPT ![c] = b]
                                  /\ a + b <= meseta[c] + banked[c]
  <2>1. CASE Medic(c)
    <3>1. meseta[c] - Fee \in Nat /\ (meseta[c] - Fee) + banked[c] <= meseta[c] + banked[c]
      BY <1>2, <2>1 DEF Medic
    <3>2. meseta' = [meseta EXCEPT ![c] = meseta[c] - Fee] /\ banked' = [banked EXCEPT ![c] = banked[c]]
      BY <1>3, <2>1 DEF Medic
    <3> QED BY <1>2, <3>1, <3>2
  <2>2. CASE DepositMeseta(c, n)
    <3>1. /\ meseta[c] - n \in Nat /\ banked[c] + n \in Nat
          /\ (meseta[c] - n) + (banked[c] + n) <= meseta[c] + banked[c]
      BY <1>2, <2>2 DEF DepositMeseta
    <3>2. meseta' = [meseta EXCEPT ![c] = meseta[c] - n] /\ banked' = [banked EXCEPT ![c] = banked[c] + n]
      BY <1>3, <2>2 DEF DepositMeseta
    <3> QED BY <3>1, <3>2
  <2>3. CASE WithdrawMeseta(c, n)
    <3>1. /\ meseta[c] + n \in Nat /\ banked[c] - n \in Nat
          /\ (meseta[c] + n) + (banked[c] - n) <= meseta[c] + banked[c]
      BY <1>2, <2>3 DEF WithdrawMeseta
    <3>2. meseta' = [meseta EXCEPT ![c] = meseta[c] + n] /\ banked' = [banked EXCEPT ![c] = banked[c] - n]
      BY <1>3, <2>3 DEF WithdrawMeseta
    <3> QED BY <3>1, <3>2
  <2> QED BY <2>1, <2>2, <2>3
<1>5. Promised'
  <2>1. drop_item[c] = Nobody
    BY <1>1, AtLeisure
  <2>2. \A d \in Player \ {c} : meseta'[d] = meseta[d]
    BY <1>3, <1>4
  <2> QED BY <1>1, <2>1, <2>2, PromisesStay
<1>6. a + b + SumOf(floor', Meseta) <= meseta[c] + banked[c] + SumOf(floor, Meseta)
  BY <1>1, <1>2, <1>4
<1> QED BY <1>1, <1>4, <1>5, <1>6, PurseBalances DEF Named

LEMMA DropMesetaBalances ==
    ASSUME ItemsInv, Named, Promised, ItemsInv', NEW c \in Player, DropMeseta(c)
    PROVE  Balanced
<1> DEFINE amt == drop_item[c].amt
           new == Split(c, Meseta)
           a == meseta[c] - amt
<1>1. /\ InTeam(c) /\ drop_item[c] # Nobody /\ drop_item[c].item = NoId
      /\ Numbered(c) /\ floor' = <<new>> \o floor
      /\ drop_item' = [drop_item EXCEPT ![c] = Nobody]
      /\ IF amt > meseta[c] THEN gone' = gone \cup {c} /\ UNCHANGED meseta
         ELSE meseta' = [meseta EXCEPT ![c] = @ - amt] /\ UNCHANGED gone
      /\ UNCHANGED <<inv, banked, seat, snap, bank, drops>>
  BY DEF DropMeseta, Acts
<1>2. new \in Lying /\ new.id # NoId /\ new.kind = Meseta /\ new.n = amt /\ new.n \in Nat \ {0}
  BY <1>1, SplitNamed
<1>3. amt <= meseta[c] /\ meseta[c] \in Nat /\ banked[c] \in Nat /\ SumOf(floor, Meseta) \in Nat
  BY <1>1, SumsNat DEF Promised
<1>4. a \in Nat /\ ~(amt > meseta[c])
  BY <1>2, <1>3
<1>5. banked \in [Player -> 0 .. MaxMeseta] /\ meseta \in [Player -> 0 .. MaxMeseta] /\ floor \in Seq(Lying)
  BY DEF ItemsInv, Rest
<1>6. meseta' = [meseta EXCEPT ![c] = a] /\ banked' = [banked EXCEPT ![c] = banked[c]]
  BY <1>1, <1>4, <1>5
<1> HIDE DEF new
<1>7. \A k : SumOf(floor', k) = Part(new, k) + SumOf(floor, k)
  BY <1>1, <1>2, <1>5, SumPushed, ZenonT(40)
<1>8. ASSUME NEW k \in Kind PROVE SumOf(floor', k) = SumOf(floor, k)
  <2>1. Part(new, k) = 0
    BY <1>2, TeamItemsConstants DEF Part
  <2>2. SumOf(floor, k) \in Nat
    BY SumsNat
  <2> QED BY <1>7, <2>1, <2>2
<1>9. a + banked[c] + SumOf(floor', Meseta) <= meseta[c] + banked[c] + SumOf(floor, Meseta)
  <2>1. Part(new, Meseta) = amt
    BY <1>2 DEF Part
  <2>2. SumOf(floor', Meseta) = amt + SumOf(floor, Meseta) /\ amt \in Nat
    BY <1>2, <1>7, <2>1
  <2> HIDE DEF amt
  <2> QED BY <1>3, <2>2
<1>10. NoId \notin Ids(floor')
  BY <1>1, <1>2, <1>5, PushedIds DEF Named
<1>11. Promised'
  <2>1. \A d \in Player \ {c} : meseta'[d] = meseta[d]
    BY <1>5, <1>6
  <2> QED BY <1>1, <2>1, PromisesEnd DEF ItemsInv
<1> HIDE DEF a
<1> QED BY <1>1, <1>3, <1>4, <1>6, <1>8, <1>9, <1>10, <1>11, PurseBalances

\* A step that moves nothing.
LEMMA StillBalances ==
    ASSUME ItemsInv, Named, ItemsInv', NEW c \in Player, Promised',
           UNCHANGED <<inv, seat, bank, meseta, banked, floor, drops>>
    PROVE  Balanced
<1>1. OnlyOf(c) /\ Named'
  BY DEF OnlyOf, Named, InTeam
<1>2. \A k \in Kind : /\ SumOf(inv'[c], k) + SumOf(bank'[c], k) + SumOf(floor', k)
                          = SumOf(inv[c], k) + SumOf(bank[c], k) + SumOf(floor, k)
                      /\ SumOf(inv'[c], k) + SumOf(bank'[c], k) + SumOf(floor', k)
                          <= SumOf(inv[c], k) + SumOf(bank[c], k) + SumOf(floor, k)
  BY SumsNat
<1>3. meseta'[c] + banked'[c] + SumOf(floor', Meseta) <= meseta[c] + banked[c] + SumOf(floor, Meseta)
  BY SumsNat
<1>4. \A k \in Kind \cup {Meseta} : Accounted(k)
  BY <1>1, <1>2, <1>3, StepAccounts
<1> QED BY <1>1, <1>4 DEF Balanced

\* What is announced is there, and what c->items has in its place is of its kind.
LEMMA DropPosBalances ==
    ASSUME Splits = "kept", ItemsInv, Named, Promised, ItemsInv', NEW c \in Player, NEW i \in DOMAIN inv[c],
           NEW n \in 1 .. inv[c][i].n, DropPos(c, i, n)
    PROVE  Balanced
<1> DEFINE a == [item |-> inv[c][i].id, amt |-> n]
<1>1. /\ Idle(c) /\ drop_item' = [drop_item EXCEPT ![c] = a] /\ SnapAt(c, i) = inv[c][i].kind
      /\ UNCHANGED <<inv, seat, snap, meseta, banked, bank, floor, drops>>
  BY DEF DropPos, teamVars, purses
<1>2. InTeam(c) /\ Distinct(inv[c]) /\ inv[c][i] \in Item /\ drop_item \in [Player -> {Nobody} \cup Announcement]
  BY <1>1, AtLeisure, Carried DEF ItemsInv, Announcing
<1>3. n <= inv[c][i].n
  BY <1>2 DEF Item
<1>4. inv[c][i].id # NoId
  BY <1>2, IdOf DEF Named
<1>5. drop_item'[c] = a /\ \A d \in Player \ {c} : drop_item'[d] = drop_item[d]
  BY <1>1, <1>2
<1>6. a.item = inv[c][i].id /\ a.amt = n
  OBVIOUS
<1> HIDE DEF a
<1>7. ASSUME NEW d \in Player, drop_item'[d] # Nobody
      PROVE  /\ drop_item'[d].item = NoId => drop_item'[d].amt <= meseta'[d]
             /\ drop_item'[d].item # NoId =>
                  \A j \in DOMAIN inv'[d] : inv'[d][j].id = drop_item'[d].item =>
                      drop_item'[d].amt <= inv'[d][j].n /\ SnapAt(d, j)' = inv'[d][j].kind
  <2>1. CASE d = c
    <3>1. ASSUME NEW j \in DOMAIN inv[c], inv[c][j].id = inv[c][i].id PROVE j = i
      BY <1>2, <3>1 DEF Distinct
    <3>2. SnapAt(c, i)' = SnapAt(c, i)
      BY <1>1 DEF SnapAt
    <3> QED BY <1>1, <1>3, <1>4, <1>5, <1>6, <2>1, <3>1, <3>2
  <2>2. CASE d # c
    <3>1. drop_item'[d] = drop_item[d] /\ drop_item[d] # Nobody
      BY <1>5, <1>7, <2>2
    <3>2. \A j : SnapAt(d, j)' = SnapAt(d, j)
      BY <1>1 DEF SnapAt
    <3> QED BY <1>1, <3>1, <3>2 DEF Promised
  <2> QED BY <2>1, <2>2
<1>8. Promised'
  BY <1>7 DEF Promised
<1> QED BY <1>1, <1>8, StillBalances

LEMMA DropPosMesetaBalances ==
    ASSUME ItemsInv, Named, Promised, ItemsInv', NEW c \in Player, NEW n \in 1 .. MaxMeseta, DropPosMeseta(c, n)
    PROVE  Balanced
<1> DEFINE a == [item |-> NoId, amt |-> n]
<1>1. /\ Idle(c) /\ drop_item' = [drop_item EXCEPT ![c] = a] /\ n \in 1 .. meseta[c]
      /\ UNCHANGED <<inv, seat, snap, meseta, banked, bank, floor, drops>>
  BY DEF DropPosMeseta, teamVars, purses
<1>2. drop_item \in [Player -> {Nobody} \cup Announcement]
  BY DEF ItemsInv, Announcing
<1>3. n <= meseta[c]
  BY <1>1, SumsNat
<1>5. drop_item'[c] = a /\ \A d \in Player \ {c} : drop_item'[d] = drop_item[d]
  BY <1>1, <1>2
<1>6. a.item = NoId /\ a.amt = n
  OBVIOUS
<1> HIDE DEF a
<1>7. Promised'
  <2>1. \A d, j : SnapAt(d, j)' = SnapAt(d, j)
    BY <1>1 DEF SnapAt
  <2> QED BY <1>1, <1>3, <1>5, <1>6, <2>1 DEF Promised
<1> QED BY <1>1, <1>7, StillBalances

LEMMA PickUpBalances ==
    ASSUME ItemsInv, Named, Promised, ItemsInv', NEW c \in Player, NEW id \in {floor[i].id : i \in DOMAIN floor},
           PickUp(c, id)
    PROVE  Balanced
<1> DEFINE s == inv[c]
           spots == {j \in DOMAIN floor : floor[j].id = id}
           at == Min(spots)
           it == floor[at]
           left == RemoveAt(floor, at)
           x == Stacked(s, Unequipped(it))
<1>1. /\ Idle(c) /\ floor' = left
      /\ CASE it.kind = Meseta ->
                /\ meseta' = [meseta EXCEPT ![c] = Min({@ + it.n, MaxMeseta})]
                /\ UNCHANGED <<inv, gone>>
           [] it.kind # Meseta /\ Takes(s, it) -> inv' = [inv EXCEPT ![c] = x] /\ UNCHANGED <<meseta, gone>>
           [] OTHER -> gone' = gone \cup {c} /\ UNCHANGED <<meseta, inv>>
      /\ UNCHANGED <<banked, seat, snap, bank, drop_item, drops>>
  BY DEF PickUp, teamVars
<1>2. InTeam(c) /\ drop_item[c] = Nobody /\ c \notin gone /\ s \in Seq(Item)
  BY <1>1, AtLeisure, Carried
<1>3. /\ floor \in Seq(Lying) /\ DOMAIN floor = 1 .. Len(floor) /\ \A j \in DOMAIN floor : floor[j] \in Lying
  BY LenProperties, ElementOfSeq DEF ItemsInv, Rest
<1>4. at \in DOMAIN floor
  <2>1. spots # {} /\ spots \in SUBSET Nat
    BY <1>3
  <2>2. spots \subseteq DOMAIN floor
    OBVIOUS
  <2> HIDE DEF spots
  <2> QED BY <2>1, <2>2, MinOfNat
<1>5. it \in Lying /\ it.id \in Ids(floor)
  BY <1>3, <1>4, IdOf
<1> HIDE DEF at, spots
<1>6. left \in Seq(Lying) /\ Ids(left) \subseteq Ids(floor) /\ \A k : SumOf(floor, k) = Part(it, k) + SumOf(left, k)
  BY <1>3, <1>4, SumRemoved, RemovedIds
<1>7. NoId \notin Ids(floor') /\ it.id # NoId
  BY <1>1, <1>5, <1>6 DEF Named
<1> HIDE DEF left, it
<1>8. \A k : Part(it, k) \in Nat /\ SumOf(left, k) \in Nat
  <2>1. \A k : Part(it, k) \in Nat
    BY <1>5 DEF Part, Lying
  <2> QED BY <1>6, <2>1, PartsOf
<1>9. meseta[c] \in Nat /\ banked[c] \in Nat /\ MaxMeseta \in Nat
      /\ banked \in [Player -> 0 .. MaxMeseta] /\ meseta \in [Player -> 0 .. MaxMeseta]
  BY SumsNat, TeamItemsConstants DEF ItemsInv, Rest
<1>10. CASE it.kind = Meseta
  <2>1. meseta' = [meseta EXCEPT ![c] = Min({meseta[c] + it.n, MaxMeseta})] /\ UNCHANGED <<inv, gone>>
    BY <1>1, <1>10
  <2> DEFINE m == meseta[c] + it.n
             a == Min({m, MaxMeseta})
  <2>2. m \in Nat /\ it.n \in Nat
    BY <1>5, <1>9 DEF Lying
  <2>3. a \in Nat /\ a <= m
    <3> HIDE DEF m
    <3>1. {m, MaxMeseta} \in SUBSET Nat /\ {m, MaxMeseta} # {}
      BY <1>9, <2>2
    <3>2. a \in {m, MaxMeseta} /\ \A y \in {m, MaxMeseta} : a <= y
      BY <3>1, MinOfNat
    <3> QED BY <1>9, <2>2, <3>2
  <2> HIDE DEF a
  <2>4. ASSUME NEW k \in Kind PROVE SumOf(floor', k) = SumOf(floor, k)
    <3>1. Part(it, k) = 0
      BY <1>10, TeamItemsConstants DEF Part
    <3> QED BY <1>1, <1>6, <1>8, <3>1
  <2>5. a + banked[c] + SumOf(floor', Meseta) <= meseta[c] + banked[c] + SumOf(floor, Meseta)
    <3>1. Part(it, Meseta) = it.n
      BY <1>10 DEF Part
    <3>2. SumOf(floor, Meseta) = it.n + SumOf(left, Meseta) /\ SumOf(left, Meseta) \in Nat /\ floor' = left
      BY <1>1, <1>6, <1>8, <3>1
    <3> QED BY <1>9, <2>2, <2>3, <3>2
  <2>6. meseta' = [meseta EXCEPT ![c] = a] /\ banked' = [banked EXCEPT ![c] = banked[c]]
    BY <1>1, <1>9, <2>1 DEF a
  <2>7. Promised'
    <3>1. \A d \in Player \ {c} : meseta'[d] = meseta[d]
      BY <1>9, <2>6
    <3> QED BY <1>1, <1>2, <2>1, <3>1, PromisesStay
  <2>8. UNCHANGED <<inv, seat, bank, drops>>
    BY <1>1, <2>1
  <2> QED BY <1>7, <1>9, <2>3, <2>4, <2>5, <2>6, <2>7, <2>8, PurseBalances
<1>11. it.kind # Meseta => SumOf(floor', Meseta) = SumOf(floor, Meseta)
  <2>1. it.kind # Meseta => Part(it, Meseta) = 0
    BY DEF Part
  <2> QED BY <1>1, <1>6, <1>8, <2>1
<1>12. CASE it.kind # Meseta /\ Takes(s, it)
  <2>1. inv' = [inv EXCEPT ![c] = x] /\ UNCHANGED <<meseta, gone>>
    BY <1>1, <1>12
  <2>2. PICK e \in Item : e = Unequipped(it) /\ e.id = it.id /\ e.kind = it.kind /\ e.n = it.n
    <3> DEFINE off == [it EXCEPT !.on = FALSE]
    <3>1. off \in Item /\ off.id = it.id /\ off.kind = it.kind /\ off.n = it.n /\ off = Unequipped(it)
      BY <1>5, <1>12 DEF Unequipped, Item, Lying
    <3> HIDE DEF off
    <3> QED BY <3>1
  <2>3. x = Stacked(s, e)
    BY <2>2
  <2> HIDE DEF x
  <2>4. \A k : SumOf(x, k) = SumOf(s, k) + Part(it, k) /\ Ids(x) \subseteq Ids(s) \cup {it.id}
    <3>1. \A k : Part(e, k) = Part(it, k)
      BY <2>2 DEF Part
    <3>2. \A k : SumOf(x, k) = SumOf(s, k) + Part(e, k) /\ Ids(x) \subseteq Ids(s) \cup {e.id}
      BY <1>2, <2>2, <2>3, SumStacked
    <3> QED BY <2>2, <3>1, <3>2
  <2>5. OnlyOf(c) /\ inv'[c] = x
    BY <1>1, <2>1, OnlyInv
  <2>6. Named'
    <3>1. NoId \notin Ids(x)
      BY <1>2, <1>7, <2>4 DEF Named
    <3> QED BY <1>1, <1>7, <2>5, <3>1, NamedKept DEF OnlyOf
  <2>7. Promised'
    BY <1>1, <1>2, <2>5, PromisesStay DEF OnlyOf
  <2>8. \A k \in Kind : SumOf(inv'[c], k) + SumOf(bank'[c], k) + SumOf(floor', k)
                          = SumOf(inv[c], k) + SumOf(bank[c], k) + SumOf(floor, k)
    <3> TAKE k \in Kind
    <3>1. SumOf(s, k) \in Nat /\ SumOf(bank[c], k) \in Nat /\ Part(it, k) \in Nat /\ SumOf(left, k) \in Nat
      BY <1>8, SumsNat
    <3>2. /\ SumOf(inv'[c], k) = SumOf(s, k) + Part(it, k) /\ SumOf(bank'[c], k) = SumOf(bank[c], k)
          /\ SumOf(floor, k) = Part(it, k) + SumOf(left, k) /\ SumOf(floor', k) = SumOf(left, k)
      BY <1>1, <1>6, <2>4, <2>5
    <3> QED BY <3>1, <3>2
  <2>9. \A k \in Kind : SumOf(inv'[c], k) + SumOf(bank'[c], k) + SumOf(floor', k)
                          <= SumOf(inv[c], k) + SumOf(bank[c], k) + SumOf(floor, k)
    BY <2>8, SumsNat
  <2>10. meseta'[c] + banked'[c] + SumOf(floor', Meseta) <= meseta[c] + banked[c] + SumOf(floor, Meseta)
    BY <1>1, <1>11, <1>12, <2>1, SumsNat
  <2>11. \A k \in Kind \cup {Meseta} : Accounted(k)
    BY <1>1, <2>5, <2>8, <2>9, <2>10, StepAccounts
  <2> QED BY <2>6, <2>7, <2>11 DEF Balanced
<1>13. CASE it.kind # Meseta /\ ~Takes(s, it)
  <2>1. gone' = gone \cup {c} /\ UNCHANGED <<meseta, inv>>
    BY <1>1, <1>13
  <2>2. OnlyOf(c) /\ gone' \ gone # {}
    BY <1>1, <1>2, <2>1 DEF OnlyOf
  <2>3. Named'
    BY <1>1, <1>7, <2>1, NamedKept DEF Named
  <2>4. Promised'
    BY <1>1, <1>2, <2>1, PromisesStay
  <2>5. \A k \in Kind : SumOf(inv'[c], k) + SumOf(bank'[c], k) + SumOf(floor', k)
                          <= SumOf(inv[c], k) + SumOf(bank[c], k) + SumOf(floor, k)
    <3> TAKE k \in Kind
    <3>1. SumOf(s, k) \in Nat /\ SumOf(bank[c], k) \in Nat /\ Part(it, k) \in Nat /\ SumOf(left, k) \in Nat
      BY <1>8, SumsNat
    <3>2. /\ SumOf(inv'[c], k) = SumOf(s, k) /\ SumOf(bank'[c], k) = SumOf(bank[c], k)
          /\ SumOf(floor, k) = Part(it, k) + SumOf(left, k) /\ SumOf(floor', k) = SumOf(left, k)
      BY <1>1, <1>6, <2>1
    <3> QED BY <3>1, <3>2
  <2>6. meseta'[c] + banked'[c] + SumOf(floor', Meseta) <= meseta[c] + banked[c] + SumOf(floor, Meseta)
    BY <1>1, <1>11, <1>13, <2>1, SumsNat
  <2>7. \A k \in Kind \cup {Meseta} : Accounted(k)
    BY <1>1, <2>2, <2>5, <2>6, StepAccounts
  <2> QED BY <2>3, <2>4, <2>7 DEF Balanced
<1> QED BY <1>10, <1>12, <1>13

\* Goods that go between what a client carries and its bank, or are lost there with its connection.
LEMMA BankBalances ==
    ASSUME ItemsInv, Named, Promised, ItemsInv', NEW c \in Player, Idle(c),
           UNCHANGED <<seat, snap, meseta, banked, drop_item, floor, drops>>,
           NEW x, NEW y, inv' = [inv EXCEPT ![c] = x], bank' = [bank EXCEPT ![c] = y], NoId \notin Ids(x),
           \A k \in Kind : SumOf(x, k) + SumOf(y, k) <= SumOf(inv[c], k) + SumOf(bank[c], k),
           \/ gone' \ gone # {}
           \/ \A k \in Kind : SumOf(x, k) + SumOf(y, k) = SumOf(inv[c], k) + SumOf(bank[c], k)
    PROVE  Balanced
<1>1. OnlyOf(c) /\ inv'[c] = x /\ bank'[c] = y
  BY DEF OnlyOf, ItemsInv, Carrying, Banking
<1>2. InTeam(c) /\ drop_item[c] = Nobody
  BY AtLeisure
<1>3. Named'
  BY <1>1, NamedKept DEF OnlyOf, Named
<1>4. Promised'
  BY <1>1, <1>2, PromisesStay DEF OnlyOf
<1>5. \A k \in Kind : SumOf(x, k) \in Nat /\ SumOf(y, k) \in Nat /\ SumOf(floor, k) \in Nat
  <2>1. inv'[c] \in Seq(Lying) /\ bank'[c] \in Seq(Lying)
    BY MayLie DEF ItemsInv, Carrying, Banking
  <2> QED BY <1>1, <2>1, PartsOf, SumsNat
<1>6. \A k \in Kind : SumOf(inv'[c], k) + SumOf(bank'[c], k) + SumOf(floor', k)
                        <= SumOf(inv[c], k) + SumOf(bank[c], k) + SumOf(floor, k)
  BY <1>1, <1>5, SumsNat
<1>7. \/ gone' \ gone # {}
      \/ \A k \in Kind : SumOf(inv'[c], k) + SumOf(bank'[c], k) + SumOf(floor', k)
                           = SumOf(inv[c], k) + SumOf(bank[c], k) + SumOf(floor, k)
  BY <1>1
<1>8. meseta'[c] + banked'[c] + SumOf(floor', Meseta) <= meseta[c] + banked[c] + SumOf(floor, Meseta)
  BY SumsNat
<1>9. \A k \in Kind \cup {Meseta} : Accounted(k)
  BY <1>1, <1>6, <1>7, <1>8, StepAccounts
<1> QED BY <1>3, <1>4, <1>9 DEF Balanced

LEMMA DepositBalances ==
    ASSUME ItemsInv, Named, Promised, ItemsInv', NEW c \in Player, NEW i \in DOMAIN inv[c],
           NEW n \in 1 .. inv[c][i].n, Deposit(c, i, n)
    PROVE  Balanced
<1> DEFINE s == inv[c]
           it == s[i]
           left == Less(s, i, n)
           x == IF IsWornFrame(it) THEN UnitsOff(left) ELSE left
           b == bank[c]
           put == [Unequipped(it) EXCEPT !.n = n, !.id = NoId]
           y == Stacked(b, put)
<1>1. /\ Idle(c) /\ inv' = [inv EXCEPT ![c] = x] /\ (it.kind \notin Tool => n = it.n)
      /\ IF BankTakes(b) THEN bank' = [bank EXCEPT ![c] = y] /\ UNCHANGED gone
         ELSE gone' = gone \cup {c} /\ UNCHANGED bank
      /\ UNCHANGED <<meseta, banked, seat, snap, drop_item, floor, drops>>
  BY DEF Deposit, teamVars, purses
<1>2. InTeam(c) /\ c \notin gone /\ s \in Seq(Item) /\ b \in Seq(Item) /\ it \in Item
  BY <1>1, AtLeisure, Carried
<1>3. n \in Nat \ {0} /\ n <= it.n
  BY <1>2 DEF Item
<1>4. put \in Item /\ put.kind = it.kind /\ put.n = n
  <2>1. NoId \in Int \X Int
    BY DEF NoId
  <2> QED BY <1>2, <1>3, <2>1 DEF Unequipped, Item
<1>5. \A k : Part(put, k) = Portion(it, n, k) /\ Portion(it, n, k) \in Nat
  BY <1>3, <1>4 DEF Part, Portion
<1> HIDE DEF put
<1>a. PICK l : l = left
  OBVIOUS
<1>6. l \in Seq(Item)
  BY <1>2, <1>3, <1>a, LessKeeps
<1>7. \A k : SumOf(s, k) = SumOf(l, k) + Portion(it, n, k) /\ Ids(l) \subseteq Ids(s)
  BY <1>1, <1>2, <1>3, <1>a, SumLess
<1>8. \A k : SumOf(x, k) = SumOf(l, k) /\ Ids(x) = Ids(l)
  <2>1. \A k : SumOf(UnitsOff(l), k) = SumOf(l, k) /\ Ids(UnitsOff(l)) = Ids(l)
    BY <1>6, SumUnitsOff
  <2>2. x = IF IsWornFrame(it) THEN UnitsOff(l) ELSE l
    BY <1>a
  <2> HIDE DEF x
  <2> QED BY <2>1, <2>2
<1> HIDE DEF x, left
<1>9. NoId \notin Ids(x)
  BY <1>2, <1>7, <1>8 DEF Named
<1>10. \A k : SumOf(y, k) = SumOf(b, k) + Portion(it, n, k)
  BY <1>2, <1>4, <1>5, SumStacked
<1> HIDE DEF y
<1>11. \A k : SumOf(l, k) \in Nat /\ SumOf(b, k) \in Nat
  BY <1>2, <1>6, MayLie, PartsOf
<1>12. CASE BankTakes(b)
  <2>1. bank' = [bank EXCEPT ![c] = y]
    BY <1>1, <1>12
  <2>2. ASSUME NEW k \in Kind
        PROVE  /\ SumOf(x, k) + SumOf(y, k) = SumOf(s, k) + SumOf(b, k)
               /\ SumOf(x, k) + SumOf(y, k) <= SumOf(s, k) + SumOf(b, k)
    <3>1. /\ SumOf(x, k) = SumOf(l, k) /\ SumOf(y, k) = SumOf(b, k) + Portion(it, n, k)
          /\ SumOf(s, k) = SumOf(l, k) + Portion(it, n, k)
      BY <1>7, <1>8, <1>10
    <3>2. SumOf(l, k) \in Nat /\ SumOf(b, k) \in Nat /\ Portion(it, n, k) \in Nat
      BY <1>5, <1>11
    <3> QED BY <3>1, <3>2
  <2> QED BY <1>1, <1>9, <2>1, <2>2, BankBalances
<1>13. CASE ~BankTakes(b)
  <2>1. gone' \ gone # {} /\ bank' = [bank EXCEPT ![c] = b]
    BY <1>1, <1>2, <1>13 DEF ItemsInv, Banking
  <2>2. ASSUME NEW k \in Kind PROVE SumOf(x, k) + SumOf(b, k) <= SumOf(s, k) + SumOf(b, k)
    <3>1. /\ SumOf(x, k) = SumOf(l, k) /\ SumOf(s, k) = SumOf(l, k) + Portion(it, n, k)
      BY <1>7, <1>8
    <3>2. SumOf(l, k) \in Nat /\ SumOf(b, k) \in Nat /\ Portion(it, n, k) \in Nat
      BY <1>5, <1>11
    <3> QED BY <3>1, <3>2
  <2> QED BY <1>1, <1>9, <2>1, <2>2, BankBalances
<1> QED BY <1>12, <1>13

LEMMA WithdrawBalances ==
    ASSUME ItemsInv, Named, Promised, ItemsInv', NEW c \in Player, NEW j \in DOMAIN bank[c],
           NEW n \in 1 .. bank[c][j].n, Withdraw(c, j, n)
    PROVE  Balanced
<1> DEFINE s == inv[c]
           b == bank[c]
           it == [b[j] EXCEPT !.n = n]
           left == Less(b, j, n)
           new == [it EXCEPT !.id = <<OfTeam, item_id>>]
           x == Stacked(s, new)
           y == Stacked(left, it)
<1>1. /\ Idle(c) /\ (b[j].kind \notin Tool => n = b[j].n)
      /\ IF Takes(s, new)
         THEN inv' = [inv EXCEPT ![c] = x] /\ bank' = [bank EXCEPT ![c] = left] /\ UNCHANGED gone
         ELSE /\ bank' = [bank EXCEPT ![c] = IF BankTakes(left) THEN y ELSE left]
              /\ gone' = gone \cup {c} /\ UNCHANGED inv
      /\ UNCHANGED <<meseta, banked, seat, snap, drop_item, floor, drops>>
  <2>1. it.kind = b[j].kind
    <3>1. b[j] \in Item
      BY Carried
    <3> QED BY <3>1 DEF Item
  <2> QED BY <2>1 DEF Withdraw, purses
<1>2. InTeam(c) /\ c \notin gone /\ s \in Seq(Item) /\ b \in Seq(Item) /\ b[j] \in Item
  BY <1>1, AtLeisure, Carried
<1>3. n \in Nat \ {0} /\ n <= b[j].n /\ item_id \in Nat
  <2>1. item_id \in 0 .. MaxGiven
    BY DEF ItemsInv, Seated
  <2> QED BY <1>2, <2>1, TeamItemsConstants DEF Item
<1>4. it \in Item /\ it.kind = b[j].kind /\ it.n = n
  BY <1>2, <1>3 DEF Item
<1>5. new \in Item /\ new.kind = b[j].kind /\ new.n = n /\ new.id # NoId
  <2>1. <<OfTeam, item_id>> \in Int \X Int /\ <<OfTeam, item_id>> # NoId
    BY <1>3 DEF OfTeam, NoId
  <2> HIDE DEF it
  <2> QED BY <1>4, <2>1 DEF Item
<1>6. \A k : /\ Part(it, k) = Portion(b[j], n, k) /\ Part(new, k) = Portion(b[j], n, k)
             /\ Portion(b[j], n, k) \in Nat
  <2> HIDE DEF it, new
  <2> QED BY <1>3, <1>4, <1>5 DEF Part, Portion
<1>a. PICK l : l = left
  OBVIOUS
<1>7. l \in Seq(Item) /\ \A k : SumOf(b, k) = SumOf(l, k) + Portion(b[j], n, k)
  BY <1>1, <1>2, <1>3, <1>a, LessKeeps, SumLess
<1>b. y = Stacked(l, it)
  BY <1>a
<1> HIDE DEF it, new, left, x, y
<1>8. \A k : SumOf(x, k) = SumOf(s, k) + Portion(b[j], n, k) /\ Ids(x) \subseteq Ids(s) \cup {new.id}
  BY <1>2, <1>5, <1>6, SumStacked DEF x
<1>9. \A k : SumOf(y, k) = SumOf(l, k) + Portion(b[j], n, k)
  BY <1>4, <1>6, <1>7, <1>b, SumStacked
<1>10. NoId \notin Ids(s) /\ NoId \notin Ids(x)
  BY <1>2, <1>5, <1>8 DEF Named
<1>11. \A k : SumOf(s, k) \in Nat /\ SumOf(l, k) \in Nat
  BY <1>2, <1>7, MayLie, PartsOf
<1>12. CASE Takes(s, new)
  <2>1. inv' = [inv EXCEPT ![c] = x] /\ bank' = [bank EXCEPT ![c] = l]
    BY <1>1, <1>12, <1>a
  <2>2. ASSUME NEW k \in Kind
        PROVE  /\ SumOf(x, k) + SumOf(l, k) = SumOf(s, k) + SumOf(b, k)
               /\ SumOf(x, k) + SumOf(l, k) <= SumOf(s, k) + SumOf(b, k)
    <3>1. SumOf(x, k) = SumOf(s, k) + Portion(b[j], n, k) /\ SumOf(b, k) = SumOf(l, k) + Portion(b[j], n, k)
      BY <1>7, <1>8
    <3>2. SumOf(s, k) \in Nat /\ SumOf(l, k) \in Nat /\ Portion(b[j], n, k) \in Nat
      BY <1>6, <1>11
    <3> QED BY <3>1, <3>2
  <2> QED BY <1>1, <1>10, <2>1, <2>2, BankBalances
<1>13. CASE ~Takes(s, new)
  <2>a. PICK z : z = IF BankTakes(l) THEN y ELSE l
    OBVIOUS
  <2>1. gone' \ gone # {} /\ inv' = [inv EXCEPT ![c] = s] /\ bank' = [bank EXCEPT ![c] = z]
    BY <1>1, <1>2, <1>13, <1>a, <2>a DEF ItemsInv, Carrying
  <2>2. ASSUME NEW k \in Kind PROVE SumOf(s, k) + SumOf(z, k) <= SumOf(s, k) + SumOf(b, k)
    <3>1. SumOf(y, k) = SumOf(l, k) + Portion(b[j], n, k) /\ SumOf(b, k) = SumOf(l, k) + Portion(b[j], n, k)
      BY <1>7, <1>9
    <3>2. SumOf(s, k) \in Nat /\ SumOf(l, k) \in Nat /\ Portion(b[j], n, k) \in Nat
      BY <1>6, <1>11
    <3>3. SumOf(z, k) \in {SumOf(y, k), SumOf(l, k)}
      BY <2>a
    <3> QED BY <3>1, <3>2, <3>3
  <2> QED BY <1>1, <1>10, <2>1, <2>2, BankBalances
<1> QED BY <1>12, <1>13

\* A drop of the server's was still to come.
LEMMA ServerDropBalances == ASSUME ItemsInv, Named, Promised, ItemsInv', ServerDrop PROVE Balanced
<1> DEFINE new == [id |-> <<OfTeam, item_id>>, kind |-> Head(drops), n |-> 1, on |-> FALSE]
<1>1. /\ drops # <<>> /\ floor' = <<new>> \o floor /\ drops' = Tail(drops)
      /\ UNCHANGED <<inv, meseta, banked, seat, snap, bank, drop_item>>
  BY DEF ServerDrop, purses
<1>2. PICK c \in Player : TRUE
  <2>1. PICK s \in Slots : seat[s] # Nobody
    BY DEF ServerDrop
  <2> QED BY <2>1 DEF ItemsInv, Seated
<1>3. drops \in Seq(Kind \cup {Meseta}) /\ floor \in Seq(Lying) /\ item_id \in Int
  <2>1. item_id \in 0 .. MaxGiven
    BY DEF ItemsInv, Seated
  <2> QED BY <2>1 DEF ItemsInv, Rest
<1>4. new \in Lying /\ new.id # NoId /\ new.kind = Head(drops) /\ new.n = 1
  <2>1. <<OfTeam, item_id>> \in Int \X Int /\ <<OfTeam, item_id>> # NoId
    BY <1>3 DEF OfTeam, NoId
  <2>2. Head(drops) \in Kind \cup {Meseta}
    BY <1>1, <1>3
  <2> QED BY <2>1, <2>2 DEF Lying
<1> HIDE DEF new
<1>5. \A k : SumOf(floor', k) = Part(new, k) + SumOf(floor, k)
  BY <1>1, <1>3, <1>4, SumPushed
<1>6. Named'
  <2>1. NoId \notin Ids(floor')
    BY <1>1, <1>3, <1>4, PushedIds DEF Named
  <2> QED BY <1>1, <2>1 DEF Named, InTeam
<1>7. Promised'
  BY <1>1 DEF Promised, SnapAt
<1>8. OnlyOf(c) /\ Stock /\ Stock'
  BY <1>1, GoodsAre DEF OnlyOf
<1>9. ASSUME NEW k \in Kind \cup {Meseta} PROVE Accounted(k)
  <2> DEFINE a == InPlay(k)
             b == InPlay(k)'
             h == Has(c, k)
             g == Has(c, k)'
             x == SumOf(floor, k)
             y == SumOf(floor', k)
             d == ToCome(k)
             e == ToCome(k)'
             w == IF Head(drops) = k THEN 1 ELSE 0
  <2>1. a \in Nat /\ b \in Nat /\ b + h + x = a + g + y
    BY <1>8, Balance
  <2>2. h \in Nat /\ x \in Nat /\ g \in Nat /\ y \in Nat
    BY <1>8, HasNat, HadNat
  <2>3. g = h
    BY <1>1 DEF Has
  <2>4. y = w + x
    <3>1. Part(new, k) = w
      BY <1>4 DEF Part
    <3> QED BY <1>5, <3>1
  <2>5. d = Coming(drops, k) /\ e = Coming(drops', k) /\ d = e + w /\ d \in Nat /\ e \in Nat
    <3>1. d = Coming(drops, k)
      BY DEF ToCome, Coming
    <3>2. e = Coming(drops', k)
      BY DEF ToCome, Coming
    <3>3. Coming(drops, k) = Coming(Tail(drops), k) + w
      BY <1>1, <1>3, ComingDropped
    <3>4. Tail(drops) \in Seq(Kind \cup {Meseta})
      BY <1>1, <1>3
    <3>5. Coming(drops, k) \in Nat /\ Coming(Tail(drops), k) \in Nat
      BY <1>3, <3>4, ComingNat
    <3> QED BY <1>1, <3>1, <3>2, <3>3, <3>5
  <2>6. w \in Nat
    OBVIOUS
  <2> HIDE DEF a, b, h, g, x, y, d, e, w
  <2>7. b + e <= a + d /\ ~(b < a)
    BY <2>1, <2>2, <2>3, <2>4, <2>5, <2>6
  <2> QED BY <2>7 DEF Accounted, a, b, d, e
<1> QED BY <1>6, <1>7, <1>9 DEF Balanced

\* A newcomer brings what it has, and has announced nothing.
LEMMA JoinBalances == ASSUME ItemsInv, Named, Promised, ItemsInv', NEW c \in Player, Join(c) PROVE Balanced
<1> DEFINE s == Min({t \in Slots : seat[t] = Nobody})
           founded == \A t \in Slots : seat[t] = Nobody
           high == IF founded THEN 0 ELSE highest_item[s]
           items == inv[c]
           f == [i \in DOMAIN items |-> <<s, high + i - 1>>]
           x == [i \in DOMAIN items |-> [items[i] EXCEPT !.id = f[i]]]
<1>1. /\ ~InTeam(c) /\ seat' = [seat EXCEPT ![s] = c] /\ inv' = [inv EXCEPT ![c] = x]
      /\ UNCHANGED <<meseta, banked, bank, snap, drop_item, floor, gone, drops>>
  <2>1. inv' = [inv EXCEPT ![c] = [i \in DOMAIN @ |-> [@[i] EXCEPT !.id = <<s, high + i - 1>>]]]
    BY DEF Join
  <2>2. inv' = [inv EXCEPT ![c] = x]
    BY <2>1
  <2> QED BY <2>2 DEF Join, purses
<1>2. s \in Slots /\ seat[s] = Nobody /\ s \in Nat
  <2>1. s \in {t \in Slots : seat[t] = Nobody}
    BY <1>1, SlotToTake DEF ItemsInv
  <2> HIDE DEF s
  <2> QED BY <2>1, SlotNumbers
<1>3. items \in Seq(Item) /\ DOMAIN items \subseteq Int
  <2>1. items \in Seq(Item)
    BY Carried
  <2> QED BY <2>1, LenProperties
<1>4. highest_item[s] \in Int
  BY <1>2 DEF ItemsInv, Seated
<1> HIDE DEF s
<1>5. high \in Int
  BY <1>4
<1> HIDE DEF founded, high, items
<1>6. f \in [DOMAIN items -> Int \X Int] /\ \A i \in DOMAIN items : f[i] # NoId
  <2>1. \A i \in DOMAIN items : i \in Int /\ f[i] = <<s, high + i - 1>>
    BY <1>3
  <2>2. \A i \in DOMAIN items : f[i] \in Int \X Int /\ f[i] # NoId
    BY <1>2, <1>5, <2>1 DEF NoId
  <2> QED BY <2>2
<1> HIDE DEF f, x
<1>b. items \in Seq(Item) /\ f \in [DOMAIN items -> Int \X Int] /\ x = Renumbered(items, f)
  BY <1>3, <1>6 DEF x, Renumbered
<1>7. \A k : SumOf(x, k) = SumOf(items, k)
  BY ONLY <1>b, SumRenumbered
<1>8. \A i \in DOMAIN x : i \in DOMAIN items /\ x[i].id = f[i]
  BY ONLY <1>b, SumRenumbered
<1>9. NoId \notin Ids(x)
  BY <1>6, <1>8 DEF Ids
<1>10. OnlyOf(c) /\ inv'[c] = x
  BY <1>1, OnlyInv
<1>11. \A d \in Player : d # c => (InTeam(d)' <=> InTeam(d))
  BY <1>1, <1>2, TeamItemsConstants DEF ItemsInv, Seated, InTeam
<1>12. Named'
  <2>1. \A d \in Player : InTeam(d)' => NoId \notin Ids(inv'[d])
    BY <1>9, <1>10, <1>11 DEF Named, OnlyOf
  <2> QED BY <1>1, <2>1 DEF Named
<1>13. drop_item[c] = Nobody
  BY <1>1 DEF ItemsInv, Announcing
<1>14. Promised'
  BY <1>1, <1>10, <1>13, PromisesStay DEF OnlyOf
<1>15. \A k \in Kind : /\ SumOf(inv'[c], k) + SumOf(bank'[c], k) + SumOf(floor', k)
                           = SumOf(inv[c], k) + SumOf(bank[c], k) + SumOf(floor, k)
                       /\ SumOf(inv'[c], k) + SumOf(bank'[c], k) + SumOf(floor', k)
                           <= SumOf(inv[c], k) + SumOf(bank[c], k) + SumOf(floor, k)
  BY <1>1, <1>7, <1>10, SumsNat DEF items
<1>16. meseta'[c] + banked'[c] + SumOf(floor', Meseta) <= meseta[c] + banked[c] + SumOf(floor, Meseta)
  BY <1>1, SumsNat
<1>17. \A k \in Kind \cup {Meseta} : Accounted(k)
  BY <1>1, <1>10, <1>15, <1>16, StepAccounts
<1> QED BY <1>12, <1>14, <1>17 DEF Balanced

\* Who leaves takes along what it has; what lies on the floor goes with the last one.
LEMMA LeaveBalances == ASSUME ItemsInv, Named, Promised, ItemsInv', NEW c \in Player, Leave(c) PROVE Balanced
<1> DEFINE s == SlotOf(c)
           items == inv[c]
           f == [i \in DOMAIN items |-> NoId]
           x == [i \in DOMAIN items |-> [items[i] EXCEPT !.id = f[i]]]
           ended == \A t \in Slots : seat'[t] = Nobody
<1>1. /\ InTeam(c) /\ seat' = [seat EXCEPT ![s] = Nobody] /\ inv' = [inv EXCEPT ![c] = x]
      /\ floor' = IF ended THEN <<>> ELSE floor
      /\ drop_item' = [drop_item EXCEPT ![c] = Nobody]
      /\ UNCHANGED <<meseta, banked, bank, drops>>
  <2>1. inv' = [inv EXCEPT ![c] = [i \in DOMAIN @ |-> [@[i] EXCEPT !.id = NoId]]]
    BY DEF Leave
  <2>2. inv' = [inv EXCEPT ![c] = x]
    BY <2>1
  <2> QED BY <2>2 DEF Leave, purses
<1>a. \A d \in Player \ {c} : snap'[d] = snap[d]
  BY DEF Leave, ItemsInv, Rest
<1>2. s \in Slots /\ seat[s] = c /\ \A t \in Slots : seat[t] = c => t = s
  BY <1>1, SlotOfMember DEF ItemsInv
<1>3. items \in Seq(Item)
  BY Carried
<1>4. f \in [DOMAIN items -> Int \X Int]
  BY DEF NoId
<1> HIDE DEF s, items, f, x
<1>b. items \in Seq(Item) /\ f \in [DOMAIN items -> Int \X Int] /\ x = Renumbered(items, f)
  BY <1>3, <1>4 DEF x, Renumbered
<1>5. \A k : SumOf(x, k) = SumOf(items, k)
  BY ONLY <1>b, SumRenumbered
<1>6. OnlyOf(c) /\ inv'[c] = x
  BY <1>1, OnlyInv
<1>7. \A d \in Player : InTeam(d)' => d # c /\ InTeam(d)
  BY <1>1, <1>2, TeamItemsConstants DEF ItemsInv, Seated, InTeam
<1>8. NoId \notin Ids(floor')
  <2>1. Ids(<<>>) = {}
    BY DEF Ids
  <2> HIDE DEF ended
  <2> QED BY <1>1, <2>1 DEF Named
<1>9. Named'
  <2>1. \A d \in Player : InTeam(d)' => NoId \notin Ids(inv'[d])
    BY <1>6, <1>7 DEF Named, OnlyOf
  <2> QED BY <1>8, <2>1 DEF Named
<1>10. Promised'
  BY <1>1, <1>6, <1>a, PromisesEnd DEF ItemsInv, OnlyOf
<1>11. \A k : SumOf(floor', k) <= SumOf(floor, k) /\ SumOf(floor', k) \in Nat /\ (~ended => SumOf(floor', k) = SumOf(floor, k))
  <2> TAKE k
  <2>1. SumOf(<<>>, k) = 0 /\ SumOf(floor, k) \in Nat
    BY SumEmpty, SumsNat
  <2> HIDE DEF ended
  <2> QED BY <1>1, <2>1
<1>12. ASSUME NEW k \in Kind
       PROVE  /\ SumOf(inv'[c], k) + SumOf(bank'[c], k) + SumOf(floor', k)
                   <= SumOf(inv[c], k) + SumOf(bank[c], k) + SumOf(floor, k)
              /\ ~ended => SumOf(inv'[c], k) + SumOf(bank'[c], k) + SumOf(floor', k)
                             = SumOf(inv[c], k) + SumOf(bank[c], k) + SumOf(floor, k)
  <2>1. SumOf(inv[c], k) \in Nat /\ SumOf(bank[c], k) \in Nat /\ SumOf(floor, k) \in Nat
    BY SumsNat
  <2>2. SumOf(inv'[c], k) = SumOf(inv[c], k) /\ SumOf(bank'[c], k) = SumOf(bank[c], k)
    BY <1>1, <1>5, <1>6 DEF items
  <2> HIDE DEF ended
  <2> QED BY <1>11, <2>1, <2>2
<1>13. meseta'[c] + banked'[c] + SumOf(floor', Meseta) <= meseta[c] + banked[c] + SumOf(floor, Meseta)
  BY <1>1, <1>11, SumsNat
<1>14. \A k \in Kind \cup {Meseta} : Accounted(k)
  BY <1>1, <1>6, <1>12, <1>13, StepAccounts
<1> QED BY <1>9, <1>10, <1>14 DEF Balanced

\* There is never more of a kind than was brought and dropped, what is still to be dropped included.
Counted ==
    /\ made \in [Kind \cup {Meseta} -> Nat]
    /\ \A k \in Kind \cup {Meseta} : InPlay(k) + ToCome(k) <= made[k]

LEMMA PlayNat ==
    ASSUME ItemsInv, NEW k
    PROVE  InPlay(k) \in Nat /\ ToCome(k) \in Nat
<1>1. Stock
  BY TeamItemsConstants DEF ItemsInv, Carrying, Banking, Rest, Stock
<1>2. PICK f : f = [c \in Player |-> Has(c, k)]
  OBVIOUS
<1>3. f \in [Player -> Nat]
  BY <1>1, <1>2, HasNat
<1>4. Total(f) \in Nat
  BY <1>3, TeamItemsConstants, PiecesFinite
<1>5. SumOf(floor, k) \in Nat
  <2>1. floor \in Seq(Lying)
    BY DEF ItemsInv, Rest
  <2> QED BY <2>1, PartsOf
<1>6. InPlay(k) \in Nat
  <2>1. InPlay(k) = SumOf(floor, k) + Total(f)
    BY <1>2 DEF InPlay
  <2> QED BY <1>4, <1>5, <2>1
<1>7. ToCome(k) \in Nat
  <2>1. drops \in Seq(Kind \cup {Meseta})
    BY DEF ItemsInv, Rest
  <2> QED BY <2>1, ComingNat DEF ToCome, Coming
<1> QED BY <1>6, <1>7

LEMMA PlayedNat ==
    ASSUME ItemsInv', NEW k
    PROVE  InPlay(k)' \in Nat /\ ToCome(k)' \in Nat
<1>1. Stock'
  BY TeamItemsConstants DEF ItemsInv, Carrying, Banking, Rest, Stock
<1>2. PICK f : f = [c \in Player |-> Has(c, k)']
  OBVIOUS
<1>3. f \in [Player -> Nat]
  BY <1>1, <1>2, HadNat
<1>4. Total(f) \in Nat
  BY <1>3, TeamItemsConstants, PiecesFinite
<1>5. SumOf(floor', k) \in Nat
  <2>1. floor' \in Seq(Lying)
    BY DEF ItemsInv, Rest
  <2> QED BY <2>1, PartsOf
<1>6. InPlay(k)' \in Nat
  <2>1. InPlay(k)' = SumOf(floor', k) + Total(f)
    BY <1>2 DEF InPlay
  <2> QED BY <1>4, <1>5, <2>1
<1>7. ToCome(k)' \in Nat
  <2>1. drops' \in Seq(Kind \cup {Meseta})
    BY DEF ItemsInv, Rest
  <2>2. ToCome(k)' = Coming(drops', k)
    BY DEF ToCome, Coming
  <2> QED BY <2>1, <2>2, ComingNat
<1> QED BY <1>6, <1>7

\* Where the books begin: nobody plays, and nothing is announced or on the floor.
LEMMA BooksStart == ItemsInit => Named /\ Promised /\ Counted
<1> SUFFICES ASSUME ItemsInit PROVE Named /\ Promised /\ Counted
  OBVIOUS
<1>1. /\ drop_item = [c \in Player |-> Nobody] /\ seat = [s \in Slots |-> Nobody] /\ floor = <<>>
      /\ made = [k \in Kind \cup {Meseta} |-> InPlay(k) + ToCome(k)]
  BY DEF ItemsInit
<1>2. Named
  <2>1. \A c \in Player : ~InTeam(c)
    BY <1>1, TeamItemsConstants DEF InTeam
  <2> QED BY <1>1, <2>1 DEF Named, Ids
<1>3. Promised
  BY <1>1 DEF Promised
<1>4. Counted
  <2>1. ItemsInv
    BY ItemsStart
  <2>2. \A k \in Kind \cup {Meseta} : InPlay(k) \in Nat /\ ToCome(k) \in Nat
    BY <2>1, PlayNat
  <2>3. ASSUME NEW k \in Kind \cup {Meseta}
        PROVE  InPlay(k) + ToCome(k) \in Nat /\ InPlay(k) + ToCome(k) <= made[k]
    <3> DEFINE a == InPlay(k) + ToCome(k)
    <3>1. a \in Nat /\ made[k] = a
      BY <1>1, <2>2
    <3> HIDE DEF a
    <3>2. a <= made[k]
      BY <3>1
    <3> QED BY <3>1, <3>2 DEF a
  <2> QED BY <1>1, <2>3 DEF Counted
<1> QED BY <1>2, <1>3, <1>4

\* A step that touches none of the goods.
LEMMA StutterBalances == ASSUME ItemsInv, Named, Promised, UNCHANGED itemsVars PROVE Balanced
<1>1. Named' /\ Promised'
  BY DEF Named, Promised, InTeam, SnapAt, itemsVars
<1>2. ASSUME NEW k PROVE Accounted(k)
  <2>1. InPlay(k)' = InPlay(k) /\ ToCome(k)' = ToCome(k)
    BY DEF InPlay, ToCome, Has, itemsVars
  <2>2. InPlay(k) \in Nat /\ ToCome(k) \in Nat
    BY PlayNat
  <2> QED BY <2>1, <2>2 DEF Accounted
<1> QED BY <1>1, <1>2 DEF Balanced

\* No step changes what was brought and dropped.
LEMMA MadeStays == ASSUME [ItemsNext]_itemsVars PROVE made' = made
<1>1. ASSUME NEW c, Join(c) \/ Leave(c) \/ DropStack(c) \/ DropMeseta(c) \/ Medic(c) PROVE made' = made
  <2>1. Join(c) => made' = made
    BY DEF Join
  <2>2. Leave(c) => made' = made
    BY DEF Leave
  <2>3. DropStack(c) => made' = made
    BY DEF DropStack
  <2>4. DropMeseta(c) => made' = made
    BY DEF DropMeseta
  <2>5. Medic(c) => made' = made
    BY DEF Medic
  <2> QED BY <1>1, <2>1, <2>2, <2>3, <2>4, <2>5
<1>2. ASSUME NEW c, NEW i, DropItem(c, i) \/ Equip(c, i) \/ Unequip(c, i) PROVE made' = made
  <2>1. DropItem(c, i) => made' = made
    BY DEF DropItem
  <2>2. Equip(c, i) \/ Unequip(c, i) => made' = made
    BY DEF Equip, Unequip
  <2> QED BY <1>2, <2>1, <2>2
<1>3. ASSUME NEW c, NEW i, NEW n, DropPos(c, i, n) \/ Deposit(c, i, n) \/ Withdraw(c, i, n) PROVE made' = made
  <2>1. DropPos(c, i, n) => made' = made
    BY DEF DropPos
  <2>2. Deposit(c, i, n) => made' = made
    BY DEF Deposit
  <2>3. Withdraw(c, i, n) => made' = made
    BY DEF Withdraw
  <2> QED BY <1>3, <2>1, <2>2, <2>3
<1>4. ASSUME NEW c, NEW id, PickUp(c, id) PROVE made' = made
  BY <1>4 DEF PickUp
<1>5. ASSUME NEW c, NEW n, DropPosMeseta(c, n) \/ DepositMeseta(c, n) \/ WithdrawMeseta(c, n) PROVE made' = made
  BY <1>5 DEF DropPosMeseta, DepositMeseta, WithdrawMeseta
<1>6. ASSUME NEW c, NEW order, Sort(c, order) PROVE made' = made
  BY <1>6 DEF Sort
<1>7. ServerDrop => made' = made
  BY DEF ServerDrop
<1>8. UNCHANGED itemsVars => made' = made
  BY DEF itemsVars
<1> QED BY <1>1, <1>2, <1>3, <1>4, <1>5, <1>6, <1>7, <1>8 DEF ItemsNext

\* Every step balances the books, while stacks are split only where c->items has them.
LEMMA StepBalances ==
    ASSUME Splits = "kept", ItemsInv, Named, Promised, ItemsInv', [ItemsNext]_itemsVars
    PROVE  Balanced
<1>1. ASSUME NEW c \in Player, Join(c) \/ Leave(c) \/ DropStack(c) \/ DropMeseta(c) \/ Medic(c)
      PROVE  Balanced
  BY <1>1, JoinBalances, LeaveBalances, DropStackBalances, DropMesetaBalances, MoneyBalances
<1>2. ASSUME NEW c \in Player, NEW i \in DOMAIN inv[c], DropItem(c, i) \/ Equip(c, i) \/ Unequip(c, i)
      PROVE  Balanced
  BY <1>2, DropItemBalances, EquipBalances
<1>3. ASSUME NEW c \in Player, NEW i \in DOMAIN inv[c], NEW n \in 1 .. inv[c][i].n,
             DropPos(c, i, n) \/ Deposit(c, i, n)
      PROVE  Balanced
  BY <1>3, DropPosBalances, DepositBalances
<1>4. ASSUME NEW c \in Player, NEW id \in {floor[i].id : i \in DOMAIN floor}, PickUp(c, id) PROVE Balanced
  BY <1>4, PickUpBalances
<1>5. ASSUME NEW c \in Player, NEW j \in DOMAIN bank[c], NEW n \in 1 .. bank[c][j].n, Withdraw(c, j, n)
      PROVE  Balanced
  BY <1>5, WithdrawBalances
<1>6. ASSUME NEW c \in Player, NEW n \in 1 .. MaxMeseta,
             DropPosMeseta(c, n) \/ DepositMeseta(c, n) \/ WithdrawMeseta(c, n)
      PROVE  Balanced
  BY <1>6, DropPosMesetaBalances, MoneyBalances
<1>7. ASSUME NEW c \in Player, NEW order \in Bijection(DOMAIN inv[c], DOMAIN inv[c]), Sort(c, order)
      PROVE  Balanced
  BY <1>7, SortBalances
<1>8. CASE ServerDrop
  BY <1>8, ServerDropBalances
<1>9. CASE UNCHANGED itemsVars
  BY <1>9, StutterBalances
<1> QED BY <1>1, <1>2, <1>3, <1>4, <1>5, <1>6, <1>7, <1>8, <1>9 DEF ItemsNext

BooksInv == ItemsInv /\ Named /\ Promised /\ Counted

LEMMA BooksNextKeep == ASSUME Splits = "kept", BooksInv, [ItemsNext]_itemsVars PROVE BooksInv' /\ Balanced
<1>1. ItemsInv'
  BY ItemsNextKeeps DEF BooksInv
<1>2. Balanced
  BY <1>1, StepBalances DEF BooksInv
<1>3. Counted'
  <2>1. made' = made /\ made \in [Kind \cup {Meseta} -> Nat]
    BY MadeStays DEF BooksInv, Counted
  <2>2. ASSUME NEW k \in Kind \cup {Meseta} PROVE InPlay(k)' + ToCome(k)' <= made[k]
    <3> DEFINE a == InPlay(k)
               b == InPlay(k)'
               d == ToCome(k)
               e == ToCome(k)'
    <3>1. a \in Nat /\ d \in Nat /\ b \in Nat /\ e \in Nat /\ made[k] \in Nat
      BY <1>1, <2>1, PlayNat, PlayedNat DEF BooksInv
    <3>2. b + e <= a + d /\ a + d <= made[k]
      BY <1>2 DEF Balanced, Accounted, BooksInv, Counted
    <3> HIDE DEF a, b, d, e
    <3>3. b + e <= made[k]
      BY <3>1, <3>2
    <3> QED BY <3>3 DEF b, e
  <2> QED BY <2>1, <2>2 DEF Counted
<1> QED BY <1>1, <1>2, <1>3 DEF BooksInv, Balanced

\* Nothing is doubled by any way goods take between inventories, purses, banks and the floor, as
\* long as clients split stacks only where c->items is up to date (handle_bb_drop_stack takes
\* what it puts on the floor from there; the run items_split shows what happens otherwise).
THEOREM NothingIsDoubled == ASSUME Splits = "kept" PROVE ItemsSpec => []NothingDoubled
<1>1. ItemsInit => BooksInv
  BY ItemsStart, BooksStart DEF BooksInv
<1>2. BooksInv /\ [ItemsNext]_itemsVars => BooksInv'
  BY BooksNextKeep
<1>3. BooksInv => NothingDoubled
  <2> SUFFICES ASSUME BooksInv, NEW k \in Kind \cup {Meseta} PROVE InPlay(k) <= made[k]
    BY DEF NothingDoubled
  <2>1. InPlay(k) \in Nat /\ ToCome(k) \in Nat /\ made[k] \in Nat /\ InPlay(k) + ToCome(k) <= made[k]
    BY PlayNat DEF BooksInv, Counted
  <2> DEFINE a == InPlay(k)
             d == ToCome(k)
  <2> HIDE DEF a, d
  <2>2. a \in Nat /\ d \in Nat /\ a + d <= made[k]
    BY <2>1 DEF a, d
  <2>3. a <= made[k]
    BY <2>1, <2>2
  <2> QED BY <2>3 DEF a
<1> QED BY <1>1, <1>2, <1>3, PTL DEF ItemsSpec

\* Goods are lost with a connection only, or with a team: whatever handler leaves less of a kind
\* has failed (subcmd.c), or was the last one's way out (lobby_remove_client).
THEOREM LossesEndConnections == ASSUME Splits = "kept" PROVE ItemsSpec => LossesEndSomebody
<1>1. ItemsInit => BooksInv
  BY ItemsStart, BooksStart DEF BooksInv
<1>2. BooksInv /\ [ItemsNext]_itemsVars => BooksInv'
  BY BooksNextKeep
<1>3. BooksInv /\ [ItemsNext]_itemsVars =>
        [(\E k \in Kind : InPlay(k)' < InPlay(k))
          => gone' \ gone # {} \/ \A s \in Slots : seat'[s] = Nobody]_itemsVars
  <2> SUFFICES ASSUME BooksInv, [ItemsNext]_itemsVars, NEW k \in Kind, InPlay(k)' < InPlay(k)
               PROVE  gone' \ gone # {} \/ \A s \in Slots : seat'[s] = Nobody
    OBVIOUS
  <2>1. Accounted(k)
    BY BooksNextKeep DEF Balanced
  <2> QED BY <2>1 DEF Accounted
<1> QED BY <1>1, <1>2, <1>3, PTL DEF ItemsSpec, LossesEndSomebody

(***************************************************************************)
(* All that MCTeam.tla runs.                                               *)
(***************************************************************************)

\* From whichever side a team is looked at, its items, drops, fights, pictures and lists of
\* limits keep their types: the invariant the composed run checks.
THEOREM TeamFits == TeamSpec => []TeamTypesOK
<1>1. TeamSpec => ItemsSpec
  <2>1. TeamInit => ItemsInit
    BY DEF TeamInit
  <2>2. [TeamNext]_teamRunVars => [ItemsNext]_itemsVars
    BY DEF TeamNext, teamRunVars
  <2> QED BY <2>1, <2>2, PTL DEF TeamSpec, ItemsSpec
<1>2. TeamSpec => DropsSpec
  <2>1. TeamInit => DropsInit
    BY DEF TeamInit
  <2>2. [TeamNext]_teamRunVars => [DropsNext]_dropVars
    BY DEF TeamNext, teamRunVars
  <2> QED BY <2>1, <2>2, PTL DEF TeamSpec, DropsSpec
<1>3. TeamSpec => CombatSpec
  <2>1. TeamInit => CombatInit
    BY DEF TeamInit
  <2>2. [TeamNext]_teamRunVars => [CombatNext]_combatVars
    BY DEF TeamNext, teamRunVars
  <2> QED BY <2>1, <2>2, PTL DEF TeamSpec, CombatSpec
<1>4. TeamSpec => ViewsSpec
  <2>1. TeamInit => ViewsInit
    BY DEF TeamInit
  <2>2. [TeamNext]_teamRunVars => [ViewsNext]_viewVars
    BY DEF TeamNext, teamRunVars
  <2> QED BY <2>1, <2>2, PTL DEF TeamSpec, ViewsSpec
<1>5. TeamSpec => LegitSpec
  <2>1. TeamInit => LegitInit
    BY DEF TeamInit
  <2>2. [TeamNext]_teamRunVars => [LegitNext]_legitVars
    BY DEF TeamNext, teamRunVars
  <2> QED BY <2>1, <2>2, PTL DEF TeamSpec, LegitSpec
<1> QED
  BY <1>1, <1>2, <1>3, <1>4, <1>5, ItemsFit, DropsFit, FightersFit, ViewsFit, LegitFits, PTL
  DEF TeamTypesOK

=============================================================================
