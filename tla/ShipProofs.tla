----------------------------- MODULE ShipProofs -----------------------------
(***************************************************************************)
(* What is proved of Talk.tla, QuestStack.tla and QuestLists.tla: who is   *)
(* spared whose words, that the calls of quests are carried out one by one *)
(* and answered in their place, and that a quest chosen at the counter     *)
(* reaches the whole team, for any number of clients, words and quests.    *)
(***************************************************************************)
EXTENDS MCShip, NatMin, FiniteSetTheorems, SequenceTheorems, TLAPS

(***************************************************************************)
(* Talk.                                                                   *)
(***************************************************************************)

\* What is said is for whom, from whom and by what route the route says.
LEMMA SaidIs ==
    ASSUME NEW to, NEW from, NEW via
    PROVE  /\ Said(to, from, via).to = to /\ Said(to, from, via).from = from
           /\ Said(to, from, via).via = via
           /\ Said(to, from, via).silent => from \in stfu
<1>1. ASSUME Said(to, from, via).silent PROVE from \in stfu
  BY <1>1 DEF Said
<1> QED BY <1>1 DEF Said

\* What is said whether or not its speaker is silenced: an answer, or mail from elsewhere.
LEMMA UnsilencedIs ==
    ASSUME NEW to, NEW from, NEW via, NEW h, h = [Said(to, from, via) EXCEPT !.silent = FALSE]
    PROVE  h.to = to /\ h.from = from /\ h.via = via /\ ~h.silent
BY DEF Said

\* What players play stays as it was.
LEMMA SameClientele == [TalkNext]_talkVars => clientele' = clientele
BY DEF TalkNext, talkVars, flagsOf, ProcessChat, SymbolChat, WordSelect, GiveCard, DcNteBroadcast,
       DcNteForward, ProcessMail, GateMail, MailLost, SetAutoreply, DisableAutoreply, Ignore,
       Unignore, UpdateBlacklist, Silence, Unsilence, LoggedIn

\* Every route by which words reach somebody asks for itself whether they are welcome, so
\* that each step makes HeardIsWelcome true, whatever was so before.
LEMMA HeardStep == clientele \in Clienteles /\ TalkNext => HeardIsWelcome'
<1> SUFFICES ASSUME clientele \in Clienteles, TalkNext PROVE HeardIsWelcome'
  OBVIOUS
<1> DEFINE Welcome(h) ==
             h.to # h.from /\ h.via # "nte" =>
               /\ HasIgnored(h.to, h.from) => h.via = "answer"
               /\ HasBlacklisted(h.to, h.from) => h.via # "mail"
               /\ h.silent => h.via = "card"
<1>a. \A c \in Talker : PlatformOf[c] \in {"dc", "pc", "gc", "bb"}
  BY TalkConstants DEF PlatformOf
<1>1. ASSUME UNCHANGED <<clientele, ignore_list, blacklist>>, \A h \in heard' : Welcome(h)
      PROVE  HeardIsWelcome'
  BY <1>1 DEF HeardIsWelcome, HasIgnored, HasBlacklisted, PlatformOf
<1>2. ASSUME heard' = {} PROVE HeardIsWelcome'
  BY <1>2 DEF HeardIsWelcome
<1>3. ASSUME NEW s \in Talker, ProcessChat(s) PROVE HeardIsWelcome'
  <2>1. \A h \in heard' : Welcome(h)
    BY <1>3, SaidIs DEF ProcessChat, LobbyChat, LobbyBbChat
  <2> QED BY <1>1, <1>3, <2>1 DEF ProcessChat, flagsOf, listsOf
<1>4. ASSUME NEW s \in Talker, SymbolChat(s) PROVE HeardIsWelcome'
  <2>1. \A h \in heard' : Welcome(h)
    BY <1>4, SaidIs DEF SymbolChat, MaySign, SendLobbyPacket
  <2> QED BY <1>1, <1>4, <2>1 DEF SymbolChat, flagsOf, listsOf
<1>5. ASSUME NEW s \in Talker, WordSelect(s) PROVE HeardIsWelcome'
  <2>1. ASSUME NEW platforms, NEW h \in ToPlatforms(s, platforms) PROVE Welcome(h)
    BY <1>5, <2>1, SaidIs DEF WordSelect, MaySign, ToPlatforms
  <2>2. \E platforms : heard' = ToPlatforms(s, platforms)
    <3>1. PICK foreign : heard' = CASE PlatformOf[s] = "dc" -> WordSelectDc(s, foreign)
                   [] PlatformOf[s] = "pc" -> WordSelectPc(s, foreign)
                   [] PlatformOf[s] \in {"gc", "bb"} -> WordSelectGc(s, foreign)
      BY <1>5 DEF WordSelect
    <3> QED BY <3>1, <1>a DEF WordSelectDc, WordSelectPc, WordSelectGc
  <2> QED BY <1>1, <1>5, <2>1, <2>2 DEF WordSelect, flagsOf, listsOf
<1>6. ASSUME NEW s \in Talker, NEW d \in Talker, GiveCard(s, d) PROVE HeardIsWelcome'
  <2>1. \A h \in heard' : Welcome(h)
    BY <1>6, SaidIs, <1>a DEF GiveCard, DcCard, PcCard, GcCard, BbCard, Card
  <2> QED BY <1>1, <1>6, <2>1 DEF GiveCard, flagsOf, listsOf
<1>7. ASSUME NEW s \in Talker, NEW d \in Talker, ProcessMail(s, d) PROVE HeardIsWelcome'
  <2>1. ASSUME NEW h \in LocalMail(s, d) PROVE Welcome(h)
    <3>1. s \notin stfu
      BY <1>7 DEF ProcessMail
    <3>2. ~Unwelcome(d, s) /\ (h = Said(d, s, "mail") \/ h \in MailAutoreply(s, d))
      BY <2>1 DEF LocalMail
    <3>3. CASE h = Said(d, s, "mail")
      <4>1. h.to = d /\ h.from = s /\ ~h.silent
        BY <3>1, <3>3, SaidIs
      <4> QED BY <3>2, <4>1 DEF Unwelcome
    <3>4. CASE h \in MailAutoreply(s, d)
      <4>1. h.via = "answer" /\ ~h.silent
        BY <3>4, UnsilencedIs DEF MailAutoreply
      <4> QED BY <4>1
    <3> QED BY <3>2, <3>3, <3>4
  <2>2. heard' = {} \/ heard' = LocalMail(s, d)
    BY <1>7 DEF ProcessMail
  <2> QED BY <1>1, <1>2, <1>7, <2>1, <2>2 DEF ProcessMail, flagsOf, listsOf
<1>8. ASSUME GateMail PROVE HeardIsWelcome'
  <2> DEFINE m == Head(post)
             via == IF m.answer THEN "answer" ELSE "mail"
             said == [Said(m.to, m.from, via) EXCEPT !.silent = FALSE]
  <2>1. heard' = {} \/ (heard' = {said} /\ ~Unwelcome(m.to, m.from))
    BY <1>8 DEF GateMail
  <2>2. said.to = m.to /\ said.from = m.from /\ ~said.silent
    <3> HIDE DEF m, via
    <3> QED BY DEF Said
  <2>3. ASSUME ~Unwelcome(m.to, m.from) PROVE Welcome(said)
    <3> HIDE DEF said
    <3> QED BY <2>2, <2>3 DEF Unwelcome
  <2> QED BY <1>1, <1>2, <1>8, <2>1, <2>3 DEF GateMail, flagsOf, listsOf
<1>9. ASSUME NEW c \in Talker, SetAutoreply(c) \/ DisableAutoreply(c) PROVE HeardIsWelcome'
  BY <1>2, <1>9 DEF SetAutoreply, DisableAutoreply
<1>10. ASSUME NEW c \in Talker, Silence(c) \/ Unsilence(c) \/ LoggedIn(c) PROVE HeardIsWelcome'
  BY <1>2, <1>10 DEF Silence, Unsilence, LoggedIn
<1>11. ASSUME NEW c \in Talker, NEW i, Unignore(c, i) PROVE HeardIsWelcome'
  BY <1>2, <1>11 DEF Unignore
<1>12. ASSUME NEW c \in Talker, NEW d \in Talker, Ignore(c, d) \/ UpdateBlacklist(c, d)
       PROVE  HeardIsWelcome'
  BY <1>2, <1>12 DEF Ignore, UpdateBlacklist
<1>13. ASSUME MailLost PROVE HeardIsWelcome'
  BY <1>2, <1>13 DEF MailLost
<1>14. ASSUME NEW s \in Talker, NEW d \in Talker, DcNteBroadcast(s) \/ DcNteForward(s, d)
       PROVE  HeardIsWelcome'
  <2>1. \A h \in heard' : h.via = "nte"
    BY <1>14, SaidIs DEF DcNteBroadcast, DcNteForward
  <2> QED BY <2>1 DEF HeardIsWelcome
<1> QED
  BY <1>3, <1>4, <1>5, <1>6, <1>7, <1>8, <1>9, <1>10, <1>11, <1>12, <1>13, <1>14 DEF TalkNext

\* Nobody hears a player it ignores, mail of one on its blacklist, or one that is silenced
\* when it says it, whatever way the words take: chat, symbols, word select, guild cards, or
\* mail of this ship and of the shipgate (client_has_ignored, asked on every route by itself),
\* but for the packets of the Dreamcast trial edition, of which nothing is asked
\* (subcmd_dcnte_handle_bcast, subcmd_dcnte_handle_one).
THEOREM OnlyWelcomeHeard == TalkSpec => []HeardIsWelcome
<1>1. TalkInit => clientele \in Clienteles /\ HeardIsWelcome
  BY DEF TalkInit, HeardIsWelcome
<1>2. HeardIsWelcome /\ UNCHANGED talkVars => HeardIsWelcome'
  BY DEF talkVars, HeardIsWelcome, HasIgnored, HasBlacklisted, PlatformOf
<1>3. clientele \in Clienteles /\ [TalkNext]_talkVars => (clientele \in Clienteles)'
  BY SameClientele
<1> QED BY <1>1, <1>2, <1>3, HeardStep, PTL DEF TalkSpec

\* The first element of a sequence, and the rest.
LEMMA HeadAndTail ==
    ASSUME NEW S, NEW s \in Seq(S), s # <<>>
    PROVE  /\ Head(s) \in S /\ Head(s) = s[1] /\ Tail(s) \in Seq(S)
           /\ Len(s) \in Nat \ {0} /\ Len(Tail(s)) = Len(s) - 1
           /\ \A i \in 1 .. Len(Tail(s)) : Tail(s)[i] = s[i + 1]
OBVIOUS

\* Mail on its way has a sender and a receiver.
Mail == [from : Talker, to : Talker, answer : BOOLEAN]
TalkInv ==
    /\ clientele \in Clienteles
    /\ stfu \subseteq Near /\ protected \subseteq Near
    /\ ignore_list \in [Talker -> [IgnoreSlot -> Talker \cup {NoOne}]]
    /\ blacklist \in [Talker -> SUBSET Talker]
    /\ autoreply_on \subseteq autoreply /\ autoreply \subseteq Talker
    /\ post \in Seq(Mail) /\ \A i \in DOMAIN post : ~SameShip(post[i].from, post[i].to)
    /\ \A h \in heard : {h.to, h.from} \subseteq Talker

\* Mail is taken in order.
LEMMA PostTaken ==
    ASSUME TalkInv, post # <<>>
    PROVE  /\ Head(post) \in Mail /\ ~SameShip(Head(post).from, Head(post).to)
           /\ Tail(post) \in Seq(Mail)
           /\ \A i \in DOMAIN Tail(post) : ~SameShip(Tail(post)[i].from, Tail(post)[i].to)
<1> DEFINE t == Tail(post)
<1>1. /\ Head(post) \in Mail /\ Head(post) = post[1] /\ t \in Seq(Mail)
      /\ Len(post) \in Nat \ {0} /\ Len(t) = Len(post) - 1
      /\ \A i \in 1 .. Len(t) : t[i] = post[i + 1]
  BY HeadAndTail DEF TalkInv
<1>2. DOMAIN post = 1 .. Len(post) /\ DOMAIN t = 1 .. Len(t)
  BY <1>1, LenProperties DEF TalkInv
<1>3. \A i \in DOMAIN post : ~SameShip(post[i].from, post[i].to)
  BY DEF TalkInv
<1> HIDE DEF t
<1>4. 1 \in DOMAIN post /\ \A i \in DOMAIN t : i + 1 \in DOMAIN post /\ t[i] = post[i + 1]
  BY <1>1, <1>2
<1> QED BY <1>1, <1>3, <1>4 DEF t

\* Mail between the ships is added at the end.
LEMMA PostSent ==
    ASSUME NEW p \in Seq(Mail), \A i \in DOMAIN p : ~SameShip(p[i].from, p[i].to),
           NEW m \in Mail, ~SameShip(m.from, m.to), NEW q, q = Append(p, m)
    PROVE  q \in Seq(Mail) /\ \A i \in DOMAIN q : ~SameShip(q[i].from, q[i].to)
<1>1. q \in Seq(Mail) /\ Len(q) = Len(p) + 1 /\ Len(p) \in Nat /\ q[Len(p) + 1] = m
      /\ \A i \in 1 .. Len(p) : q[i] = p[i]
  BY AppendProperties, LenProperties
<1>2. DOMAIN p = 1 .. Len(p) /\ DOMAIN q = 1 .. Len(q)
  BY <1>1, LenProperties
<1> QED BY <1>1, <1>2

\* The type invariant of talk is kept.
LEMMA TalkKeeps == TalkInv /\ [TalkNext]_talkVars => TalkInv'
<1> SUFFICES ASSUME TalkInv, [TalkNext]_talkVars PROVE TalkInv'
  OBVIOUS
<1> DEFINE Heard(h) == {h.to, h.from} \subseteq Talker
<1>a. \A c \in Talker : PlatformOf[c] \in {"dc", "pc", "gc", "bb"}
  BY TalkConstants DEF TalkInv, PlatformOf
<1>1. ASSUME UNCHANGED <<clientele, stfu, protected, ignore_list, blacklist, autoreply_on, autoreply, post>>,
             \A h \in heard' : Heard(h)
      PROVE  TalkInv'
  BY <1>1 DEF TalkInv, Near, SameShip
<1>2. ASSUME UNCHANGED <<clientele, stfu, protected, ignore_list, blacklist, autoreply_on, autoreply>>,
             \A h \in heard' : Heard(h), post' \in Seq(Mail),
             \A i \in DOMAIN post' : ~SameShip(post'[i].from, post'[i].to)
      PROVE  TalkInv'
  BY <1>2 DEF TalkInv
<1>3. \A to \in Talker, from \in Talker : \A via : Heard(Said(to, from, via))
  BY SaidIs
<1>4. ASSUME NEW s \in Talker, ProcessChat(s) PROVE TalkInv'
  <2>1. \A h \in heard' : Heard(h)
    BY <1>3, <1>4 DEF ProcessChat, LobbyChat, LobbyBbChat, Near
  <2> QED BY <1>1, <1>4, <2>1 DEF ProcessChat, flagsOf, listsOf, answers
<1>5. ASSUME NEW s \in Talker, SymbolChat(s) PROVE TalkInv'
  <2>1. \A h \in heard' : Heard(h)
    BY <1>3, <1>5 DEF SymbolChat, SendLobbyPacket, Near
  <2> QED BY <1>1, <1>5, <2>1 DEF SymbolChat, flagsOf, listsOf, answers
<1>6. ASSUME NEW s \in Talker, WordSelect(s) PROVE TalkInv'
  <2>1. ASSUME NEW platforms, NEW h \in ToPlatforms(s, platforms) PROVE Heard(h)
    BY <1>3, <2>1 DEF ToPlatforms, Near
  <2>2. \E platforms : heard' = ToPlatforms(s, platforms)
    <3>1. PICK foreign : heard' = CASE PlatformOf[s] = "dc" -> WordSelectDc(s, foreign)
                   [] PlatformOf[s] = "pc" -> WordSelectPc(s, foreign)
                   [] PlatformOf[s] \in {"gc", "bb"} -> WordSelectGc(s, foreign)
      BY <1>6 DEF WordSelect
    <3> QED BY <3>1, <1>a DEF WordSelectDc, WordSelectPc, WordSelectGc
  <2> QED BY <1>1, <1>6, <2>1, <2>2 DEF WordSelect, flagsOf, listsOf, answers
<1>7. ASSUME NEW s \in Talker, NEW d \in Talker, GiveCard(s, d) PROVE TalkInv'
  <2>1. heard' = {} \/ heard' = Card(d, d) \/ heard' = Card(s, d)
    BY <1>7, <1>a DEF GiveCard, DcCard, PcCard, GcCard, BbCard
  <2>2. \A h \in heard' : Heard(h)
    BY <1>3, <2>1 DEF Card
  <2> QED BY <1>1, <1>7, <2>2 DEF GiveCard, flagsOf, listsOf, answers
<1>8. ASSUME NEW s \in Talker, NEW d \in Talker, ProcessMail(s, d) PROVE TalkInv'
  <2>1. CASE SameShip(s, d)
    <3>1. heard' = LocalMail(s, d) /\ post' = post
      BY <1>8, <2>1 DEF ProcessMail
    <3>2. ASSUME NEW h \in LocalMail(s, d) PROVE Heard(h)
      <4>1. h = Said(d, s, "mail") \/ h = [Said(s, d, "answer") EXCEPT !.silent = FALSE]
        BY <3>2 DEF LocalMail, MailAutoreply
      <4>2. CASE h = Said(d, s, "mail")
        BY <1>3, <4>2
      <4>3. CASE h = [Said(s, d, "answer") EXCEPT !.silent = FALSE]
        BY <4>3 DEF Said
      <4> QED BY <4>1, <4>2, <4>3
    <3> QED BY <1>1, <1>8, <3>1, <3>2 DEF ProcessMail, flagsOf, listsOf, answers
  <2>2. CASE ~SameShip(s, d)
    <3> DEFINE m == [from |-> s, to |-> d, answer |-> FALSE]
    <3>1. heard' = {} /\ post' = Append(post, m)
      BY <1>8, <2>2 DEF ProcessMail
    <3>2. m \in Mail /\ ~SameShip(m.from, m.to)
      BY <2>2 DEF Mail
    <3>3. post \in Seq(Mail) /\ \A i \in DOMAIN post : ~SameShip(post[i].from, post[i].to)
      BY DEF TalkInv
    <3> HIDE DEF m
    <3>4. post' \in Seq(Mail) /\ \A i \in DOMAIN post' : ~SameShip(post'[i].from, post'[i].to)
      BY ONLY <3>1, <3>2, <3>3, PostSent
    <3> QED BY <1>2, <1>8, <3>1, <3>4 DEF ProcessMail, flagsOf, listsOf, answers
  <2> QED BY <2>1, <2>2
<1>9. ASSUME GateMail PROVE TalkInv'
  <2> DEFINE m == Head(post)
             via == IF m.answer THEN "answer" ELSE "mail"
             said == [Said(m.to, m.from, via) EXCEPT !.silent = FALSE]
             back == [from |-> m.to, to |-> m.from, answer |-> TRUE]
  <2>1. post # <<>> /\ (heard' = {} \/ heard' = {said})
    BY <1>9 DEF GateMail
  <2>2. /\ m \in Mail /\ ~SameShip(m.from, m.to)
        /\ Tail(post) \in Seq(Mail)
        /\ \A i \in DOMAIN Tail(post) : ~SameShip(Tail(post)[i].from, Tail(post)[i].to)
    BY <2>1, PostTaken
  <2>3. m.from \in Talker /\ m.to \in Talker
    BY <2>2 DEF Mail
  <2>4. Heard(said)
    <3> HIDE DEF m, via
    <3>1. said.to = m.to /\ said.from = m.from
      BY DEF Said
    <3> QED BY <2>3, <3>1
  <2>5. post' = Tail(post) \/ post' = Tail(post) \o <<back>>
    <3>1. post' = Tail(post) \/ post' = Tail(post) \o <<back>> \/ post' = Tail(post) \o <<>>
      BY <1>9 DEF GateMail, ForwardAnswer
    <3>2. Tail(post) \o <<>> = Tail(post)
      BY <2>2, ConcatEmptySeq
    <3> QED BY <3>1, <3>2
  <2>6. back \in Mail /\ ~SameShip(back.from, back.to)
    BY <2>2, <2>3 DEF SameShip, Mail
  <2>7. Tail(post) \o <<back>> = Append(Tail(post), back)
    <3> HIDE DEF back
    <3> QED BY <2>2, <2>6, AppendIsConcat
  <2> HIDE DEF back, m, said
  <2>8. post' \in Seq(Mail) /\ \A i \in DOMAIN post' : ~SameShip(post'[i].from, post'[i].to)
    <3>1. CASE post' = Tail(post)
      BY <2>2, <3>1
    <3>2. CASE post' = Append(Tail(post), back)
      BY ONLY <2>2, <2>6, <3>2, PostSent
    <3> QED BY <2>5, <2>7, <3>1, <3>2
  <2> QED BY <1>2, <1>9, <2>1, <2>4, <2>8 DEF GateMail, flagsOf, listsOf, answers
<1>10. ASSUME MailLost PROVE TalkInv'
  <2>1. post # <<>> /\ post' = Tail(post) /\ heard' = {}
    BY <1>10 DEF MailLost
  <2> QED BY <1>2, <1>10, <2>1, PostTaken DEF MailLost, flagsOf, listsOf, answers
<1>11. ASSUME NEW c \in Talker, SetAutoreply(c) \/ DisableAutoreply(c) PROVE TalkInv'
  BY <1>11 DEF SetAutoreply, DisableAutoreply, flagsOf, listsOf, TalkInv
<1>12. ASSUME NEW c \in Talker, Silence(c) \/ Unsilence(c) \/ LoggedIn(c) PROVE TalkInv'
  BY <1>12 DEF Silence, Unsilence, LoggedIn, listsOf, answers, TalkInv
<1>13. ASSUME NEW c \in Talker, NEW d \in Talker \cup {NoOne}, NEW i \in IgnoreSlot,
              ignore_list' = [ignore_list EXCEPT ![c][i] = d], heard' = {},
              UNCHANGED <<clientele, stfu, protected, blacklist, autoreply_on, autoreply, post>>
       PROVE  TalkInv'
  <2>1. ignore_list' \in [Talker -> [IgnoreSlot -> Talker \cup {NoOne}]]
    BY <1>13 DEF TalkInv
  <2> QED BY <1>13, <2>1 DEF TalkInv
<1>14. ASSUME NEW c \in Talker, NEW i \in IgnoreSlot, Unignore(c, i) PROVE TalkInv'
  BY <1>13, <1>14 DEF Unignore, flagsOf, answers
<1>15. ASSUME NEW c \in Talker, NEW d \in Talker, Ignore(c, d) PROVE TalkInv'
  BY <1>13, <1>15 DEF Ignore, flagsOf, answers
<1>16. ASSUME NEW c \in Talker, NEW d \in Talker, UpdateBlacklist(c, d) PROVE TalkInv'
  <2>1. blacklist' \in [Talker -> SUBSET Talker] /\ heard' = {}
    BY <1>16 DEF UpdateBlacklist, TalkInv
  <2> QED BY <1>16, <2>1 DEF UpdateBlacklist, TalkInv, flagsOf, answers
<1>18. ASSUME NEW s \in Talker, NEW d \in Talker, DcNteBroadcast(s) \/ DcNteForward(s, d)
       PROVE  TalkInv'
  <2>1. \A h \in heard' : Heard(h)
    BY <1>3, <1>18 DEF DcNteBroadcast, DcNteForward, Near
  <2> QED BY <1>1, <1>18, <2>1 DEF DcNteBroadcast, DcNteForward, flagsOf, listsOf, answers
<1>17. CASE UNCHANGED talkVars
  BY <1>17 DEF talkVars, TalkInv
<1> QED
  BY <1>4, <1>5, <1>6, <1>7, <1>8, <1>9, <1>10, <1>11, <1>12, <1>14, <1>15, <1>16, <1>17, <1>18
  DEF TalkNext

\* What players have set, and what is on its way, is of their kinds: an answer that is on has
\* been set (SetAutoreply), and the mail of the shipgate goes from one ship to the other.
THEOREM TalkFits == TalkSpec => []TalkTypeOK
<1>1. TalkInit => TalkInv
  <2>1. <<>> \in Seq(Mail) /\ DOMAIN <<>> = {}
    OBVIOUS
  <2> QED BY <2>1 DEF TalkInit, TalkInv
<1>2. TalkInv => TalkTypeOK
  BY DEF TalkInv, TalkTypeOK
<1> QED BY <1>1, <1>2, TalkKeeps, PTL DEF TalkSpec

(***************************************************************************)
(* The calls of quests.                                                    *)
(***************************************************************************)

OnePlaceEach == \A s, t \in Seats : place[s] = place[t] /\ place[s] # None => s = t
OutsideTeam == \A c \in limbo : ~In(c)

Asked == [by : Member, set : BOOLEAN, del : BOOLEAN, direct : BOOLEAN, reg : AnyWord, here : BOOLEAN]

QuestShape ==
    /\ quest \in Quest
    /\ place \in [Seats -> Member \cup {None}] /\ OnePlaceEach
    /\ q_stack \in [Member -> [1 .. MaxQ -> AnyWord]]
    /\ q_stack_top \in [Member -> 0 .. MaxQ]
    /\ todo \in [Member -> Seq(AnyWord)]
    /\ told = [c \in Member |-> told[c]]
    /\ locked \subseteq Member /\ lost \subseteq Member /\ mixed \subseteq Member
    /\ limbo \subseteq Member /\ OutsideTeam
    /\ qpos \in [Seats -> [Seats -> Reg]] /\ qcount \in [Seats -> Reg]
    /\ shown = [s \in Seats |-> shown[s]]
    /\ gate \in Seq(Asked)

\* The words on the stack are the first of a call, and those to come the rest of it.
Begun(c, w) ==
    /\ w \in quest.calls[c] /\ Len(w) = q_stack_top[c] + Len(todo[c])
    /\ \A k \in 1 .. q_stack_top[c] : q_stack[c][k] = w[k]
    /\ \A k \in 1 .. Len(todo[c]) : todo[c][k] = w[q_stack_top[c] + k]

\* As long as the stack is not full: then nothing is put on it before it is reset.  While it is
\* locked a quest may try its next call, of which no word gets onto it.
CallUnderWay ==
    \A c \in Member :
        /\ c \in locked => todo[c] = <<>> \/ todo[c] \in quest.calls[c]
        /\ c \notin locked /\ q_stack_top[c] < MaxQ =>
              IF todo[c] = <<>> THEN q_stack_top[c] = 0 ELSE \E w \in quest.calls[c] : Begun(c, w)

\* A function from the first numbers is a sequence.
LEMMA FunctionIsSeq == ASSUME NEW S, NEW n \in Nat, NEW f \in [1 .. n -> S] PROVE f \in Seq(S)
BY SeqDef

\* The words of calls are numbers, and a call has a header of three.
LEMMA CallWords ==
    ASSUME NEW q \in Quest, NEW c \in Member, NEW w \in q.calls[c]
    PROVE  /\ w \in AnyCall /\ w \in Seq(AnyWord) /\ w \in Seq(Nat)
           /\ Len(w) \in Nat /\ Len(w) >= 3 /\ w[2] \in Nat /\ w[3] \in Nat
           /\ Len(w) = 3 + w[2] + w[3]
<1>1. w \in AnyCall
  <2>1. q.calls[c] \in Range(q.calls)
    BY QuestStackConstants DEF Range
  <2> QED BY <2>1 DEF AnyCall
<1>2. w \in Seq(Nat) /\ Len(w) >= 3 /\ Len(w) = 3 + w[2] + w[3]
  BY <1>1, QuestStackConstants
<1>3. \A i \in 1 .. Len(w) : w[i] \in AnyWord
  <2>1. \A i \in 1 .. Len(w) : w[i] \in Range(w)
    BY <1>2 DEF Range
  <2> QED BY <1>1, <2>1 DEF AnyWord
<1>4. w \in Seq(AnyWord)
  <2>1. w \in [1 .. Len(w) -> Nat] /\ Len(w) \in Nat
    BY <1>2, LenProperties
  <2>2. w \in [1 .. Len(w) -> AnyWord]
    BY <1>3, <2>1
  <2> QED BY <2>1, <2>2, SeqDef
<1>5. w[2] \in Nat /\ w[3] \in Nat
  BY <1>2
<1> QED BY <1>1, <1>2, <1>4, <1>5

\* The words of a call are numbers.
LEMMA WordsAreNumbers == AnyWord \subseteq Nat
<1>1. ASSUME NEW w \in AnyCall, NEW i \in DOMAIN w PROVE w[i] \in Nat
  BY QuestStackConstants
<1>2. ASSUME NEW w \in AnyCall, NEW x \in Range(w) PROVE x \in Nat
  BY <1>1, <1>2 DEF Range
<1>3. ASSUME NEW x \in AnyWord PROVE x \in Nat
  BY <1>2, <1>3 DEF AnyWord
<1> QED BY <1>3

\* What a call has on the stack after one more word (handle_sync_reg): the call so far, and it
\* is complete when all of its words are there.
LEMMA WordPushed ==
    ASSUME QuestShape, CallUnderWay, NEW c \in Member, Push(c),
           NEW w, w = [q_stack[c] EXCEPT ![q_stack_top[c] + 1] = Head(todo[c])]
    PROVE  /\ w \in [1 .. MaxQ -> AnyWord] /\ q_stack_top[c] + 1 \in 1 .. MaxQ
           /\ Tail(todo[c]) \in Seq(AnyWord)
           /\ \E v \in quest.calls[c] :
                /\ \A k \in 1 .. q_stack_top[c] + 1 : w[k] = v[k]
                /\ Len(v) = q_stack_top[c] + 1 + Len(Tail(todo[c]))
                /\ \A k \in 1 .. Len(Tail(todo[c])) : Tail(todo[c])[k] = v[q_stack_top[c] + 1 + k]
                /\ Complete(w, q_stack_top[c] + 1) <=> Tail(todo[c]) = <<>>
<1> DEFINE top == q_stack_top[c]
           rest == Tail(todo[c])
<1>1. /\ c \notin locked /\ top \in 0 .. MaxQ /\ top < MaxQ /\ todo[c] # <<>> /\ todo[c] \in Seq(AnyWord)
      /\ q_stack[c] \in [1 .. MaxQ -> AnyWord] /\ MaxQ \in Nat
  BY QuestStackConstants DEF Push, Room, QuestShape
<1>2. PICK v \in quest.calls[c] : Begun(c, v)
  BY <1>1 DEF CallUnderWay
<1>3. /\ Head(todo[c]) \in AnyWord /\ Head(todo[c]) = todo[c][1] /\ rest \in Seq(AnyWord)
      /\ Len(todo[c]) \in Nat \ {0} /\ Len(rest) = Len(todo[c]) - 1
      /\ \A i \in 1 .. Len(rest) : rest[i] = todo[c][i + 1]
  BY <1>1, HeadAndTail
<1>4. /\ Len(v) \in Nat /\ Len(v) >= 3 /\ v[2] \in Nat /\ v[3] \in Nat /\ Len(v) = 3 + v[2] + v[3]
  BY CallWords DEF QuestShape
<1>5. w \in [1 .. MaxQ -> AnyWord] /\ top + 1 \in 1 .. MaxQ
  BY <1>1, <1>3
<1> HIDE DEF rest
<1>6. /\ Len(v) = top + Len(todo[c]) /\ \A k \in 1 .. top : q_stack[c][k] = v[k]
      /\ \A k \in 1 .. Len(todo[c]) : todo[c][k] = v[top + k]
  BY <1>2 DEF Begun
<1> HIDE DEF top
<1>7. ASSUME NEW k \in 1 .. top + 1 PROVE w[k] = v[k]
  <2>1. CASE k = top + 1
    <3>1. w[k] = todo[c][1]
      BY <1>1, <1>3, <1>5, <2>1 DEF top
    <3> QED BY <1>1, <1>3, <1>6, <2>1, <3>1
  <2>2. CASE k # top + 1
    <3>1. k \in 1 .. top /\ w[k] = q_stack[c][k]
      BY <1>1, <1>5, <2>2 DEF top
    <3> QED BY <1>6, <3>1
  <2> QED BY <2>1, <2>2
<1> DEFINE n == Len(todo[c])
           m == Len(rest)
           size == Len(v)
<1>t. top \in Nat /\ n \in Nat /\ m \in Nat /\ n = m + 1 /\ size \in Nat /\ size = top + n
      /\ size >= 3 /\ size = 3 + v[2] + v[3]
  <2>1. top \in Nat /\ size \in Nat /\ size = top + n
    BY <1>1, <1>4, <1>6
  <2>2. n \in Nat \ {0} /\ m = n - 1
    BY <1>3
  <2>3. size >= 3 /\ size = 3 + v[2] + v[3]
    BY <1>4
  <2> HIDE DEF n, m, size
  <2> QED BY <2>1, <2>2, <2>3
<1> HIDE DEF n, m, size
<1>8. size = top + 1 + m
  BY <1>t
<1>9. ASSUME NEW k \in 1 .. m PROVE rest[k] = v[top + 1 + k]
  <2>1. k + 1 \in 1 .. n /\ top + (k + 1) = top + 1 + k
    BY <1>t
  <2>2. rest[k] = todo[c][k + 1]
    BY <1>3 DEF m
  <2>3. todo[c][k + 1] = v[top + (k + 1)]
    BY <1>6, <2>1 DEF n
  <2> QED BY <2>1, <2>2, <2>3
<1>10. Complete(w, top + 1) <=> rest = <<>>
  <2>1. rest = <<>> <=> m = 0
    <3>1. rest \in Seq(AnyWord)
      BY <1>3
    <3> QED BY <3>1, EmptySeq DEF m
  <2>2. ASSUME top + 1 >= 3 PROVE At(w, 1) = v[2] /\ At(w, 2) = v[3]
    BY <1>7, <1>t, <2>2 DEF At
  <2>3. ASSUME Complete(w, top + 1) PROVE m = 0
    <3>1. top + 1 >= 3 /\ top + 1 = 3 + At(w, 1) + At(w, 2)
      BY <2>3 DEF Complete
    <3>2. top + 1 = size
      BY <1>t, <2>2, <3>1
    <3> QED BY <1>t, <3>2
  <2>4. ASSUME m = 0 PROVE Complete(w, top + 1)
    <3>1. top + 1 = size /\ top + 1 >= 3
      BY <1>t, <2>4
    <3>2. top + 1 = 3 + At(w, 1) + At(w, 2)
      BY <1>t, <2>2, <3>1
    <3> QED BY <3>1, <3>2 DEF Complete
  <2> QED BY <2>1, <2>3, <2>4
<1>11. /\ Len(v) = top + 1 + Len(rest)
       /\ \A k \in 1 .. Len(rest) : rest[k] = v[top + 1 + k]
  BY <1>8, <1>9 DEF m, size
<1> QED BY <1>3, <1>5, <1>7, <1>10, <1>11 DEF top, rest

\* handle_sync_reg: what a word does that a quest pushes, and that what its call comes to is what
\* its function says, unless that is to wait and the shipgate cannot be asked.
LEMMA PushCases ==
    ASSUME NEW c \in Member, Push(c),
           NEW w, w = [q_stack[c] EXCEPT ![q_stack_top[c] + 1] = Head(todo[c])]
    PROVE  /\ In(c) /\ c \notin locked /\ todo[c] # <<>> /\ UNCHANGED <<quest, place, limbo>>
           /\ q_stack' = [q_stack EXCEPT ![c] = w] /\ todo' = [todo EXCEPT ![c] = Tail(todo[c])]
           /\ \E result :
                /\ result = Waiting => Dispatch(w) = Waiting
                /\ result.status = "ok" => Dispatch(w).status = "ok"
                /\ IF ~Complete(w, q_stack_top[c] + 1)
                   THEN /\ q_stack_top' = [q_stack_top EXCEPT ![c] = q_stack_top[c] + 1]
                        /\ UNCHANGED <<told, locked, gateVars, qpos, qcount, shown>>
                   ELSE /\ told' = [told EXCEPT ![c] = result]
                        /\ IF result = Waiting
                           THEN /\ locked' = locked \cup {c}
                                /\ Ask(c, Question(c, w))
                                /\ q_stack_top' = [q_stack_top EXCEPT ![c] = q_stack_top[c] + 1]
                           ELSE /\ q_stack_top' = [q_stack_top EXCEPT ![c] = 0]
                                /\ UNCHANGED <<locked, gateVars>>
                        /\ IF result.status = "ok" THEN Subscribe(c, w)
                           ELSE UNCHANGED <<qpos, qcount, shown>>
<1>1. w = WithWord(c)
  BY DEF WithWord
<1>2. /\ In(c) /\ c \notin locked /\ todo[c] # <<>> /\ UNCHANGED <<quest, place, limbo>>
      /\ q_stack' = [q_stack EXCEPT ![c] = w] /\ todo' = [todo EXCEPT ![c] = Tail(todo[c])]
  BY <1>1 DEF Push
<1>3. CASE ~Complete(w, q_stack_top[c] + 1)
  <2>1. /\ q_stack_top' = [q_stack_top EXCEPT ![c] = q_stack_top[c] + 1]
        /\ UNCHANGED <<told, locked, gateVars, qpos, qcount, shown>>
    BY <1>1, <1>3, Zenon DEF Push
  <2> QED BY <1>2, <1>3, <2>1, Zenon
<1>4. CASE Complete(w, q_stack_top[c] + 1)
  <2>0. Complete(WithWord(c), q_stack_top[c] + 1)
    BY <1>1, <1>4
  <2>1. PICK result \in Verdicts(WithWord(c)) :
          /\ told' = [told EXCEPT ![c] = result]
          /\ IF result = Waiting
             THEN /\ locked' = locked \cup {c}
                  /\ Ask(c, Question(c, WithWord(c)))
                  /\ q_stack_top' = [q_stack_top EXCEPT ![c] = q_stack_top[c] + 1]
             ELSE /\ q_stack_top' = [q_stack_top EXCEPT ![c] = 0]
                  /\ UNCHANGED <<locked, gateVars>>
          /\ IF result.status = "ok" THEN Subscribe(c, WithWord(c))
             ELSE UNCHANGED <<qpos, qcount, shown>>
    BY <2>0, Zenon DEF Push
  <2>2. result = Dispatch(w) \/ result = Err("shipgate error")
    BY <1>1 DEF Verdicts
  <2>3. Err("shipgate error").status # "ok" /\ Waiting.status # Err("shipgate error").status
    BY DEF Err, Waiting
  <2>4. /\ result = Waiting => Dispatch(w) = Waiting
        /\ result.status = "ok" => Dispatch(w).status = "ok"
    BY <2>2, <2>3
  <2> QED BY <1>1, <1>2, <1>4, <2>1, <2>4
<1> QED BY <1>3, <1>4

\* The slot of a member is one it is in.
LEMMA PlaceOfMember ==
    ASSUME NEW c, In(c) PROVE PlaceOf(c) \in Seats /\ place[PlaceOf(c)] = c
BY DEF In, PlaceOf

\* lobby_add_client: who joins gets a slot that was free.
LEMMA JoinPlace ==
    ASSUME QuestShape, NEW c \in Member, JoinQuest(c)
    PROVE  \E s \in Seats : place[s] = None /\ place' = [place EXCEPT ![s] = c]
<1> DEFINE S == {t \in Seats : place[t] = None}
<1>1. S # {}
  <2> SUFFICES ASSUME S = {} PROVE FALSE
    OBVIOUS
  <2>1. {s \in Seats : place[s] # None} = Seats
    OBVIOUS
  <2>2. Cardinality(Seats) = Places
    <3>1. Places \in Nat \ {0} /\ 0 \in Int /\ Places - 1 \in Int /\ 0 <= Places - 1
      BY QuestStackConstants
    <3>2. \A a, b \in Int : a <= b => Cardinality(a .. b) = b - a + 1
      BY FS_Interval
    <3>3. Cardinality(0 .. Places - 1) = (Places - 1) - 0 + 1
      BY <3>1, <3>2
    <3> QED BY <3>1, <3>3 DEF Seats
  <2>3. NumClients < Places
    BY DEF JoinQuest
  <2>4. NumClients = Places
    BY <2>1, <2>2 DEF NumClients
  <2> HIDE DEF S
  <2> QED BY <2>3, <2>4, QuestStackConstants
<1>2. S \in SUBSET Nat
  BY QuestStackConstants DEF Seats
<1>3. Min(S) \in S
  <2> HIDE DEF S
  <2> QED BY <1>1, <1>2, MinOfNat
<1>4. place' = [place EXCEPT ![Min(S)] = c]
  BY DEF JoinQuest
<1> QED BY <1>3, <1>4

\* Joining and leaving keep everybody to one slot, and say how many there are.
LEMMA JoinShape ==
    ASSUME QuestShape, NEW c \in Member, JoinQuest(c)
    PROVE  QuestShape'
<1> USE DEF QuestShape
<1>1. PICK s \in Seats : place[s] = None /\ place' = [place EXCEPT ![s] = c]
  BY JoinPlace
<1>2. place' \in [Seats -> Member \cup {None}] /\ OnePlaceEach'
  <2>1. \A t \in Seats : place[t] # c
    BY DEF JoinQuest, In
  <2>2. place' \in [Seats -> Member \cup {None}]
    BY <1>1
  <2> QED BY <1>1, <2>1, <2>2 DEF OnePlaceEach, OutsideTeam, In
<1>3. /\ q_stack' \in [Member -> [1 .. MaxQ -> AnyWord]] /\ q_stack_top' \in [Member -> 0 .. MaxQ]
      /\ todo' \in [Member -> Seq(AnyWord)] /\ told' = [d \in Member |-> told'[d]]
  <2>1. 0 \in AnyWord /\ 0 \in 0 .. MaxQ /\ <<>> \in Seq(AnyWord)
    BY QuestStackConstants DEF AnyWord
  <2>2. /\ q_stack' = [q_stack EXCEPT ![c] = [k \in 1 .. MaxQ |-> 0]]
        /\ q_stack_top' = [q_stack_top EXCEPT ![c] = 0]
        /\ todo' = [todo EXCEPT ![c] = <<>>] /\ told' = [told EXCEPT ![c] = Err("none")]
    BY DEF JoinQuest
  <2>3. q_stack' \in [Member -> [1 .. MaxQ -> AnyWord]]
    BY <2>1, <2>2
  <2>4. q_stack_top' \in [Member -> 0 .. MaxQ]
    BY <2>1, <2>2
  <2>5. todo' \in [Member -> Seq(AnyWord)]
    BY <2>1, <2>2
  <2>6. told' = [d \in Member |-> told'[d]]
    BY <2>2
  <2> QED BY <2>3, <2>4, <2>5, <2>6
<1>4. gate' \in Seq(Asked)
  <2>1. gate' = [i \in DOMAIN gate |-> [gate[i] EXCEPT !.here = @ /\ gate[i].by # c]]
    BY DEF JoinQuest
  <2>2. Len(gate) \in Nat /\ DOMAIN gate = 1 .. Len(gate)
    BY LenProperties
  <2>3. ASSUME NEW i \in 1 .. Len(gate) PROVE [gate[i] EXCEPT !.here = @ /\ gate[i].by # c] \in Asked
    <3>1. gate[i] \in Asked
      BY ElementOfSeq
    <3> DEFINE h == gate[i].here /\ gate[i].by # c
    <3>2. h \in BOOLEAN
      OBVIOUS
    <3> HIDE DEF h
    <3>3. [gate[i] EXCEPT !.here = h] \in Asked
      BY <3>1, <3>2 DEF Asked
    <3> QED BY <3>3 DEF h
  <2>4. gate' \in [1 .. Len(gate) -> Asked]
    BY <2>1, <2>2, <2>3
  <2> QED BY <2>2, <2>4, FunctionIsSeq
<1>5. shown' = [t \in Seats |-> shown'[t]]
  BY DEF JoinQuest, SendCounts
<1>6. UNCHANGED <<quest, limbo, locked, lost, mixed, qpos, qcount>>
  BY DEF JoinQuest
<1>7. OutsideTeam'
  <2>1. c \notin limbo
    BY DEF JoinQuest
  <2>2. \A d : In(d)' => In(d) \/ d = c
    BY <1>1 DEF In
  <2> QED BY <1>6, <2>1, <2>2 DEF OutsideTeam
<1> QED BY <1>2, <1>3, <1>4, <1>5, <1>6, <1>7

\* A client that leaves the quest's team keeps the shape.
LEMMA LeaveShape ==
    ASSUME QuestShape, NEW c \in Member, LeaveQuest(c)
    PROVE  QuestShape'
<1> USE DEF QuestShape
<1>1. PlaceOf(c) \in Seats /\ place[PlaceOf(c)] = c /\ place' = [place EXCEPT ![PlaceOf(c)] = None]
  BY PlaceOfMember DEF LeaveQuest
<1>2. place' \in [Seats -> Member \cup {None}] /\ OnePlaceEach'
  BY <1>1 DEF OnePlaceEach, OutsideTeam, In
<1>3. NoReg \in Reg
  BY QuestStackConstants DEF NoReg, Reg
<1>4. qpos' \in [Seats -> [Seats -> Reg]] /\ qcount' \in [Seats -> Reg]
  BY <1>1, <1>3 DEF LeaveQuest, Forgotten
<1>5. shown' = [t \in Seats |-> shown'[t]]
  BY DEF LeaveQuest, SendCounts
<1>6. UNCHANGED <<quest, q_stack, q_stack_top, todo, told, locked, gate, linked, lost>>
  BY DEF LeaveQuest, stackVars, gateVars
<1>7. mixed' = mixed /\ limbo' \subseteq limbo \cup {c}
  BY DEF LeaveQuest, gateVars
<1>8. OutsideTeam'
  <2>1. ~In(c)'
    <3>1. c # None
      BY QuestStackConstants
    <3> QED BY <1>1, <3>1 DEF In, OnePlaceEach
  <2>2. \A d \in Member : In(d)' => In(d)
    <3>1. \A d \in Member : d # None
      BY QuestStackConstants
    <3> QED BY <1>1, <3>1 DEF In
  <2> QED BY <1>7, <2>1, <2>2 DEF OutsideTeam
<1> QED BY <1>2, <1>4, <1>5, <1>6, <1>7, <1>8

\* A client that enters a lobby keeps the shape.
LEMMA EnterShape ==
    ASSUME QuestShape, NEW c \in Member, EnterLobby(c)
    PROVE  QuestShape'
<1>1. /\ limbo' = limbo \ {c}
      /\ UNCHANGED <<quest, place, qpos, qcount, shown, q_stack, q_stack_top, todo, told, locked,
                     gate, linked, lost, mixed>>
  BY DEF EnterLobby, stackVars, gateVars
<1>2. OutsideTeam'
  BY <1>1 DEF QuestShape, OutsideTeam, In
<1>3. OnePlaceEach'
  BY <1>1 DEF QuestShape, OnePlaceEach
<1> QED BY <1>1, <1>2, <1>3 DEF QuestShape

\* What the functions say (quest_functions.c): only those that ask the shipgate are not done
\* at once, and those that are done have looked at their registers.
LEMMA StatusOfVerdicts ==
    /\ \A regs : Ok(regs).status = "ok" /\ Ok(regs) # Waiting
    /\ \A why : why # "not yet" => Err(why) # Waiting
    /\ \A why : Err(why).status = why
<1>1. \A regs : Ok(regs).status = "ok"
  BY DEF Ok
<1>2. \A why : Err(why).status = why
  BY DEF Err
<1>3. Waiting.status = "not yet"
  BY DEF Waiting
<1> QED BY <1>1, <1>2, <1>3

\* What is asked of the members is answered at once.
LEMMA NotAskedOfMembers == ASSUME NEW w PROVE GetOfMembers(w) # Waiting
BY StatusOfVerdicts DEF GetOfMembers

\* A fact about the team is answered at once.
LEMMA NotAskedFacts == ASSUME NEW w, NEW room PROVE GetFact(w, room) # Waiting
BY StatusOfVerdicts DEF GetFact

\* A random number is answered at once.
LEMMA NotAskedRandom == ASSUME NEW w PROVE GetRandom(w) # Waiting
BY StatusOfVerdicts DEF GetRandom

\* The word filter answers at once.
LEMMA NotAskedCensors == ASSUME NEW w PROVE CensorCheck(w) # Waiting
BY StatusOfVerdicts DEF CensorCheck

\* A script answers at once.
LEMMA NotAskedScripts == ASSUME NEW w PROVE RunScript(w) # Waiting
BY StatusOfVerdicts DEF RunScript

\* A function is of one kind: the scripts of a team cannot take the number of one that the
\* server has (quest_functions.h, QUEST_SCRIPT_START).
LEMMA OneKind ==
    ASSUME NEW f
    PROVE  /\ f \in OfMembers => f \notin Facts /\ f \notin Names /\ f # 9 /\ f \notin Flags
                                   /\ f \notin Censors /\ f \notin DOMAIN ScriptFunction
           /\ f \in Facts => f \notin Names /\ f # 9 /\ f \notin Flags
                               /\ f \notin Censors /\ f \notin DOMAIN ScriptFunction
           /\ f \in Names => f # 9 /\ f \notin Flags /\ f \notin Censors /\ f \notin DOMAIN ScriptFunction
           /\ f = 9 => f \notin Flags /\ f \notin Censors /\ f \notin DOMAIN ScriptFunction
           /\ f \in Flags => f \notin Censors /\ f \notin DOMAIN ScriptFunction
           /\ f \in Censors => f \notin DOMAIN ScriptFunction
<1>1. f \in DOMAIN ScriptFunction => f \notin 0 .. 26
  BY QuestStackConstants
<1>2. f \in OfMembers \/ f \in Facts \/ f \in Names \/ f = 9 \/ f \in Flags \/ f \in Censors => f \in 0 .. 26
  BY DEF OfMembers, Facts, Counts, Names, Flags, Censors
<1>3. /\ f \in OfMembers => f \notin Facts /\ f \notin Names /\ f # 9 /\ f \notin Flags /\ f \notin Censors
      /\ f \in Facts => f \notin Names /\ f # 9 /\ f \notin Flags /\ f \notin Censors
      /\ f \in Names => f # 9 /\ f \notin Flags /\ f \notin Censors
      /\ f = 9 => f \notin Flags /\ f \notin Censors
      /\ f \in Flags => f \notin Censors
  BY DEF OfMembers, Facts, Counts, Names, Flags, Censors
<1> QED BY <1>1, <1>2, <1>3

\* Only the functions that get or set flags wait for the shipgate, and their call has its arguments.
LEMMA AskedOnlyForFlags ==
    ASSUME NEW w, Dispatch(w) = Waiting
    PROVE  /\ At(w, 0) \in Flags /\ At(w, 1) = FlagArgs(At(w, 0)) /\ At(w, 2) = 1
           /\ FlagReg(w, At(w, 0) \in SetFlags \cup DelFlags) \in Reg
<1> DEFINE f == At(w, 0)
<1>1. f \in Flags /\ AskGate(w) = Waiting
  <2>1. Err("invalid func") # Waiting
    BY StatusOfVerdicts
  <2>2. CASE f \in OfMembers
    <3>1. Dispatch(w) = GetOfMembers(w)
      BY <2>2, OneKind, Zenon DEF Dispatch
    <3> QED BY <3>1, NotAskedOfMembers
  <2>3. CASE f \in Facts
    <3>1. Dispatch(w) = GetFact(w, 0)
      BY <2>3, OneKind, Zenon DEF Dispatch
    <3> QED BY <3>1, NotAskedFacts
  <2>4. CASE f \in Names
    <3>1. Dispatch(w) = GetFact(w, Width(f) - 1)
      BY <2>4, OneKind, Zenon DEF Dispatch
    <3> QED BY <3>1, NotAskedFacts
  <2>5. CASE f = 9
    <3>1. Dispatch(w) = GetRandom(w)
      BY <2>5, OneKind, Zenon DEF Dispatch
    <3> QED BY <3>1, NotAskedRandom
  <2>6. CASE f \in Flags
    <3>1. Dispatch(w) = AskGate(w)
      BY <2>6, OneKind, Zenon DEF Dispatch
    <3> QED BY <2>6, <3>1
  <2>7. CASE f \in Censors
    <3>1. Dispatch(w) = CensorCheck(w)
      BY <2>7, OneKind, Zenon DEF Dispatch
    <3> QED BY <3>1, NotAskedCensors
  <2>8. CASE f \in DOMAIN ScriptFunction
    <3>1. Dispatch(w) = RunScript(w)
      BY <2>8, OneKind, Zenon DEF Dispatch
    <3> QED BY <3>1, NotAskedScripts
  <2>9. CASE ~(f \in OfMembers \/ f \in Facts \/ f \in Names \/ f = 9 \/ f \in Flags
                 \/ f \in Censors \/ f \in DOMAIN ScriptFunction)
    BY <2>1, <2>9 DEF Dispatch
  <2> QED BY <2>2, <2>3, <2>4, <2>5, <2>6, <2>7, <2>8, <2>9
<1>2. /\ Err("bad arg count") # Waiting /\ Err("bad ret count") # Waiting
      /\ Err("invalid register") # Waiting /\ Err("invalid arg") # Waiting
  BY StatusOfVerdicts
<1> QED BY <1>1, <1>2 DEF AskGate

\* A call for updates that went well names registers there are.
LEMMA UpdateRegisters ==
    ASSUME NEW w, Dispatch(w).status = "ok"
    PROVE  /\ At(w, 0) = 21 => \A s \in AskedSlots(w) : RegFor(w, s) \in Reg
           /\ At(w, 0) = 26 => At(w, 1) = 0 /\ At(w, 2) = 1 /\ ~(At(w, 3) > MaxReg)
<1>1. /\ Err("bad arg count").status # "ok" /\ Err("bad ret count").status # "ok"
      /\ Err("invalid register").status # "ok" /\ Err("invalid arg").status # "ok"
  BY DEF Err
<1>2. ASSUME At(w, 0) = 21 PROVE \A s \in AskedSlots(w) : RegFor(w, s) \in Reg
  <2>0. At(w, 0) \in OfMembers
    BY <1>2 DEF OfMembers
  <2>1. Dispatch(w) = GetOfMembers(w)
    BY <2>0, OneKind, Zenon DEF Dispatch
  <2> QED BY <1>1, <2>1 DEF GetOfMembers
<1>3. ASSUME At(w, 0) = 26 PROVE At(w, 1) = 0 /\ At(w, 2) = 1 /\ ~(At(w, 3) > MaxReg)
  <2>0. At(w, 0) \in Facts
    BY <1>3 DEF Facts, Counts
  <2>1. Dispatch(w) = GetFact(w, 0)
    BY <2>0, OneKind, Zenon DEF Dispatch
  <2>2. MaxReg - 0 = MaxReg
    BY QuestStackConstants
  <2> QED BY <1>1, <2>1, <2>2 DEF GetFact
<1> QED BY <1>2, <1>3

\* A call that begins keeps the shape.
LEMMA BeginShape ==
    ASSUME QuestShape, NEW c \in Member, NEW w \in AnyCall, Begin(c, w)
    PROVE  QuestShape'
<1> USE DEF QuestShape
<1>1. w \in quest.calls[c] /\ todo' = [todo EXCEPT ![c] = w] /\ told' = [told EXCEPT ![c] = Waiting]
  BY DEF Begin
<1>2. w \in Seq(AnyWord)
  BY <1>1, CallWords
<1>3. todo' \in [Member -> Seq(AnyWord)]
  BY <1>1, <1>2
<1>4. told' = [d \in Member |-> told'[d]]
  BY <1>1
<1>5. UNCHANGED <<quest, place, qpos, qcount, shown, q_stack, q_stack_top, locked, gate, linked, lost, mixed, limbo>>
  BY DEF Begin, seatVars, gateVars
<1> QED BY <1>3, <1>4, <1>5 DEF OnePlaceEach, OutsideTeam, In

\* A call that is refused keeps the shape.
LEMMA RefuseShape ==
    ASSUME QuestShape, NEW c \in Member, Refuse(c)
    PROVE  QuestShape'
<1> USE DEF QuestShape
<1>1. todo' = [todo EXCEPT ![c] = <<>>] /\ told' = [d \in Member |-> told'[d]]
  BY DEF Refuse
<1>2. <<>> \in Seq(AnyWord)
  OBVIOUS
<1>3. todo' \in [Member -> Seq(AnyWord)]
  BY <1>1, <1>2
<1>4. UNCHANGED <<quest, place, qpos, qcount, shown, q_stack, q_stack_top, locked, gate, linked, lost, mixed, limbo>>
  BY DEF Refuse, seatVars, gateVars
<1> QED BY <1>1, <1>3, <1>4 DEF OnePlaceEach, OutsideTeam, In

\* A reset keeps the shape.
LEMMA ResetShape ==
    ASSUME QuestShape, NEW c \in Member, Reset(c)
    PROVE  QuestShape'
<1> USE DEF QuestShape
<1>1. q_stack_top' = [q_stack_top EXCEPT ![c] = 0] /\ told' = [d \in Member |-> told'[d]]
  BY DEF Reset
<1>2. q_stack_top' \in [Member -> 0 .. MaxQ]
  BY <1>1, QuestStackConstants
<1>3. UNCHANGED <<quest, place, qpos, qcount, shown, q_stack, todo, locked, gate, linked, lost, mixed, limbo>>
  BY DEF Reset, seatVars, gateVars
<1> QED BY <1>1, <1>2, <1>3 DEF OnePlaceEach, OutsideTeam, In

\* shipgate_send_qflag: asking adds a question, and it is the last, or it is lost.
LEMMA AskShape ==
    ASSUME QuestShape, NEW c \in Member, NEW q \in Asked, Ask(c, q)
    PROVE  gate' \in Seq(Asked) /\ lost' \subseteq Member /\ mixed' \subseteq Member
<1> USE DEF QuestShape
<1>1. Append(gate, q) \in Seq(Asked)
  OBVIOUS
<1> QED BY <1>1 DEF Ask

\* The short flag register, which asks without the stack, keeps the shape.
LEMMA FlagRegisterShape ==
    ASSUME QuestShape, NEW c \in Member, SetFlagRegister(c)
    PROVE  QuestShape'
<1> USE DEF QuestShape
<1>1. PICK set \in BOOLEAN : Ask(c, [by |-> c, set |-> set, del |-> FALSE, direct |-> TRUE, reg |-> NoReg,
                                     here |-> TRUE])
  BY DEF SetFlagRegister
<1>2. NoReg \in AnyWord
  BY DEF NoReg, AnyWord
<1>3. [by |-> c, set |-> set, del |-> FALSE, direct |-> TRUE, reg |-> NoReg, here |-> TRUE] \in Asked
  BY <1>2 DEF Asked
<1>4. gate' \in Seq(Asked) /\ lost' \subseteq Member /\ mixed' \subseteq Member
  BY <1>1, <1>3, AskShape
<1>5. UNCHANGED <<quest, place, limbo, qpos, qcount, shown, q_stack, q_stack_top, todo, told, locked>>
  BY DEF SetFlagRegister, seatVars, stackVars
<1> QED BY <1>4, <1>5 DEF OnePlaceEach, OutsideTeam, In

\* The shipgate's answer keeps the shape.
LEMMA ReplyShape ==
    ASSUME QuestShape, Reply
    PROVE  QuestShape'
<1> USE DEF QuestShape
<1>1. gate # <<>> /\ gate' = Tail(gate)
  BY DEF Reply
<1>2. Head(gate) \in Asked /\ gate' \in Seq(Asked)
  BY <1>1, HeadAndTail
<1>3. /\ UNCHANGED <<quest, place, limbo, qpos, qcount, shown, q_stack, todo, linked>>
      /\ mixed' \subseteq mixed
  BY DEF Reply, seatVars
<1>l. lost' \subseteq Member
  <2>1. Head(gate).by \in Member
    BY <1>2 DEF Asked
  <2>2. lost' = lost \/ lost' = lost \cup {Head(gate).by}
    BY DEF Reply
  <2> QED BY <2>1, <2>2
<1>4. /\ q_stack_top' \in [Member -> 0 .. MaxQ] /\ locked' \subseteq Member
      /\ told' = [d \in Member |-> told'[d]]
  <2>1. CASE Head(gate).by \notin limbo /\ Head(gate).by \in locked
    <3>1. PICK failed \in BOOLEAN : FlagReply(Head(gate).by, Head(gate), failed)
      BY <2>1 DEF Reply, Answer
    <3> DEFINE c == Head(gate).by
    <3> DEFINE x == [status |-> IF failed THEN "retval error" ELSE "ok",
                     wrote |-> {FlagReg(q_stack[c], Head(gate).set)}]
    <3>2. /\ q_stack_top' = [q_stack_top EXCEPT ![c] = 0] /\ locked' = locked \ {c}
          /\ told' = [told EXCEPT ![c] = x]
      BY <3>1, Zenon DEF FlagReply
    <3>c. c \in Member
      BY <2>1
    <3> HIDE DEF x
    <3> HIDE DEF c
    <3>3. q_stack_top' \in [Member -> 0 .. MaxQ]
      BY <3>2, <3>c, QuestStackConstants
    <3>4. told' = [d \in Member |-> told'[d]]
      BY <3>2
    <3> QED BY <3>2, <3>3, <3>4
  <2>2. CASE Head(gate).by \in limbo \/ Head(gate).by \notin locked
    BY <2>2 DEF Reply, Answer
  <2> QED BY <2>1, <2>2
<1> QED BY <1>2, <1>3, <1>l, <1>4 DEF OnePlaceEach, OutsideTeam, In

\* The shipgate goes and comes back: the shape is kept.
LEMMA LinkShape ==
    ASSUME QuestShape, LinkLost \/ LinkBack
    PROVE  QuestShape'
<1> USE DEF QuestShape
<1>1. CASE LinkLost
  <2>1. /\ gate' = <<>> /\ mixed' = {}
        /\ lost' = lost \cup {gate[i].by : i \in {j \in DOMAIN gate : ~gate[j].direct}}
    BY <1>1 DEF LinkLost
  <2>2. gate' \in Seq(Asked)
    BY <2>1
  <2>3. ASSUME NEW i \in DOMAIN gate PROVE gate[i].by \in Member
    <3>1. DOMAIN gate = 1 .. Len(gate)
      BY LenProperties
    <3>2. gate[i] \in Asked
      BY <2>3, <3>1, ElementOfSeq
    <3> QED BY <3>2 DEF Asked
  <2>4. lost' \subseteq Member
    BY <2>1, <2>3
  <2>5. UNCHANGED <<quest, place, limbo, qpos, qcount, shown, q_stack, q_stack_top, todo, told, locked>>
    BY <1>1 DEF LinkLost, seatVars, stackVars
  <2> QED BY <2>1, <2>2, <2>4, <2>5 DEF OnePlaceEach, OutsideTeam, In
<1>2. CASE LinkBack
  BY <1>2 DEF LinkBack, seatVars, stackVars, OnePlaceEach, OutsideTeam, In
<1> QED BY <1>1, <1>2

\* get_pos_updates, get_client_count_updates: the registers that are kept are registers.
LEMMA SubscribeShape ==
    ASSUME QuestShape, NEW c \in Member, In(c), NEW w \in [1 .. MaxQ -> AnyWord],
           NEW top \in 1 .. MaxQ, Complete(w, top), Dispatch(w).status = "ok", Subscribe(c, w)
    PROVE  /\ qpos' \in [Seats -> [Seats -> Reg]] /\ qcount' \in [Seats -> Reg]
           /\ shown' = [s \in Seats |-> shown'[s]]
<1> USE DEF QuestShape
<1>1. PlaceOf(c) \in Seats
  BY PlaceOfMember
<1>2. qpos' \in [Seats -> [Seats -> Reg]]
  <2>1. CASE At(w, 0) = 21
    <3>1. \A s \in AskedSlots(w) : RegFor(w, s) \in Reg
      BY <2>1, UpdateRegisters
    <3>2. qpos' = [s \in Seats |-> IF s \in AskedSlots(w)
                        THEN [qpos[s] EXCEPT ![PlaceOf(c)] = RegFor(w, s)] ELSE qpos[s]]
      BY <2>1 DEF Subscribe
    <3>3. ASSUME NEW s \in Seats, s \in AskedSlots(w)
          PROVE  [qpos[s] EXCEPT ![PlaceOf(c)] = RegFor(w, s)] \in [Seats -> Reg]
      BY <1>1, <3>1, <3>3
    <3> QED BY <3>2, <3>3
  <2>2. CASE At(w, 0) # 21
    BY <2>2 DEF Subscribe
  <2> QED BY <2>1, <2>2
<1>3. qcount' \in [Seats -> Reg]
  <2>1. CASE At(w, 0) = 26
    <3>1. At(w, 1) = 0 /\ At(w, 2) = 1 /\ ~(At(w, 3) > MaxReg)
      BY <2>1, UpdateRegisters
    <3>2. top = 4
      BY <3>1 DEF Complete
    <3>3. At(w, 3) \in AnyWord
      <4>1. w[4] \in AnyWord
        BY <3>2
      <4>2. At(w, 3) = w[4]
        BY DEF At
      <4> QED BY <4>1, <4>2
    <3>4. At(w, 3) \in Nat
      BY <3>3, WordsAreNumbers
    <3>5. At(w, 3) \in Reg
      BY <3>1, <3>4, QuestStackConstants DEF Reg
    <3>6. qcount' = [qcount EXCEPT ![PlaceOf(c)] = At(w, 3)]
      BY <2>1 DEF Subscribe
    <3> DEFINE r == At(w, 3)
    <3> HIDE DEF r
    <3>7. qcount' = [qcount EXCEPT ![PlaceOf(c)] = r] /\ r \in Reg
      BY <3>5, <3>6 DEF r
    <3> QED BY <3>7
  <2>2. CASE At(w, 0) # 26
    BY <2>2 DEF Subscribe
  <2> QED BY <2>1, <2>2
<1>4. shown' = [s \in Seats |-> shown'[s]]
  BY DEF Subscribe
<1> QED BY <1>2, <1>3, <1>4

\* get_quest_sflag and its like: the question names a register of the call.
LEMMA QuestionShape ==
    ASSUME NEW c \in Member, NEW w \in [1 .. MaxQ -> AnyWord],
           NEW top \in 1 .. MaxQ, Complete(w, top), Dispatch(w) = Waiting
    PROVE  Question(c, w) \in Asked
<1>1. At(w, 0) \in Flags /\ At(w, 1) = FlagArgs(At(w, 0)) /\ At(w, 2) = 1
  BY AskedOnlyForFlags
<1>2. FlagArgs(At(w, 0)) \in {1, 2}
  BY DEF FlagArgs
<1>3. top = 4 + At(w, 1) /\ At(w, 1) \in {1, 2}
  BY <1>1, <1>2 DEF Complete
<1>4. 3 + At(w, 1) + 1 \in 1 .. MaxQ
  BY <1>3, QuestStackConstants
<1>5. At(w, 3 + At(w, 1)) \in AnyWord
  <2> DEFINE k == 3 + At(w, 1) + 1
  <2>1. w[k] \in AnyWord
    BY <1>4
  <2> QED BY <2>1 DEF At
<1> QED BY <1>5 DEF Question, Asked

\* A word that is pushed, and the call it completes, keep the shape.
LEMMA PushShape ==
    ASSUME QuestShape, CallUnderWay, NEW c \in Member, Push(c)
    PROVE  QuestShape'
<1> USE DEF QuestShape
<1> DEFINE w == [q_stack[c] EXCEPT ![q_stack_top[c] + 1] = Head(todo[c])]
           top == q_stack_top[c] + 1
<1>1. w \in [1 .. MaxQ -> AnyWord] /\ top \in 1 .. MaxQ /\ Tail(todo[c]) \in Seq(AnyWord)
  BY WordPushed
<1>2. /\ In(c) /\ q_stack' = [q_stack EXCEPT ![c] = w] /\ todo' = [todo EXCEPT ![c] = Tail(todo[c])]
      /\ UNCHANGED <<quest, place, limbo>>
  BY PushCases
<1>3. PICK result :
      /\ result = Waiting => Dispatch(w) = Waiting
      /\ result.status = "ok" => Dispatch(w).status = "ok"
      /\ IF ~Complete(w, top)
         THEN /\ q_stack_top' = [q_stack_top EXCEPT ![c] = top]
              /\ UNCHANGED <<told, locked, gateVars, qpos, qcount, shown>>
         ELSE /\ told' = [told EXCEPT ![c] = result]
              /\ IF result = Waiting
                 THEN /\ locked' = locked \cup {c}
                      /\ Ask(c, Question(c, w))
                      /\ q_stack_top' = [q_stack_top EXCEPT ![c] = top]
                 ELSE /\ q_stack_top' = [q_stack_top EXCEPT ![c] = 0]
                      /\ UNCHANGED <<locked, gateVars>>
              /\ IF result.status = "ok" THEN Subscribe(c, w)
                 ELSE UNCHANGED <<qpos, qcount, shown>>
  BY PushCases, Zenon
<1> HIDE DEF w, top
<1>4. top \in 0 .. MaxQ /\ 0 \in 0 .. MaxQ
  BY <1>1, QuestStackConstants
<1>5. q_stack' \in [Member -> [1 .. MaxQ -> AnyWord]]
  BY <1>1, <1>2
<1>6. todo' \in [Member -> Seq(AnyWord)]
  BY <1>1, <1>2
<1>7. q_stack_top' \in [Member -> 0 .. MaxQ]
  <2>1. q_stack_top' = [q_stack_top EXCEPT ![c] = top] \/ q_stack_top' = [q_stack_top EXCEPT ![c] = 0]
    BY <1>3
  <2> QED BY <1>4, <2>1
<1>8. told' = [d \in Member |-> told'[d]]
  <2>1. told' = told \/ told' = [told EXCEPT ![c] = result]
    BY <1>3
  <2> QED BY <2>1
<1>9. /\ locked' \subseteq Member /\ lost' \subseteq Member /\ mixed' \subseteq Member
      /\ gate' \in Seq(Asked)
  <2>1. CASE Complete(w, top) /\ result = Waiting
    <3>1. Question(c, w) \in Asked
      BY <1>1, <1>3, <2>1, QuestionShape
    <3>2. gate' \in Seq(Asked) /\ lost' \subseteq Member /\ mixed' \subseteq Member
      BY <1>3, <2>1, <3>1, AskShape
    <3> QED BY <1>3, <2>1, <3>2
  <2>2. CASE ~(Complete(w, top) /\ result = Waiting)
    BY <1>3, <2>2 DEF gateVars
  <2> QED BY <2>1, <2>2
<1>10. /\ qpos' \in [Seats -> [Seats -> Reg]] /\ qcount' \in [Seats -> Reg]
       /\ shown' = [s \in Seats |-> shown'[s]]
  <2>1. CASE Complete(w, top) /\ result.status = "ok"
    <3>1. Subscribe(c, w) /\ Dispatch(w).status = "ok"
      BY <1>3, <2>1
    <3> QED BY <1>1, <1>2, <2>1, <3>1, SubscribeShape
  <2>2. CASE ~(Complete(w, top) /\ result.status = "ok")
    BY <1>3, <2>2
  <2> QED BY <2>1, <2>2
<1>11. /\ place' \in [Seats -> Member \cup {None}] /\ OnePlaceEach' /\ quest' \in Quest
       /\ limbo' \subseteq Member /\ OutsideTeam'
  BY <1>2 DEF OnePlaceEach, OutsideTeam, In
<1> QED BY <1>5, <1>6, <1>7, <1>8, <1>9, <1>10, <1>11

\* The stack holds what the quest has pushed of its call, whatever happens to the others.
LEMMA PushUnderWay ==
    ASSUME QuestShape, CallUnderWay, NEW c \in Member, Push(c)
    PROVE  CallUnderWay'
<1> USE DEF QuestShape
<1> DEFINE w == [q_stack[c] EXCEPT ![q_stack_top[c] + 1] = Head(todo[c])]
           top == q_stack_top[c] + 1
           rest == Tail(todo[c])
<1>1. /\ w \in [1 .. MaxQ -> AnyWord] /\ top \in 1 .. MaxQ /\ rest \in Seq(AnyWord)
      /\ \E v \in quest.calls[c] :
            /\ \A k \in 1 .. top : w[k] = v[k]
            /\ Len(v) = top + Len(rest)
            /\ \A k \in 1 .. Len(rest) : rest[k] = v[top + k]
            /\ Complete(w, top) <=> rest = <<>>
  BY WordPushed
<1>2. /\ c \notin locked /\ quest' = quest /\ q_stack' = [q_stack EXCEPT ![c] = w]
      /\ todo' = [todo EXCEPT ![c] = rest]
  BY PushCases
<1>3. IF ~Complete(w, top)
      THEN q_stack_top' = [q_stack_top EXCEPT ![c] = top] /\ locked' = locked
      ELSE \/ locked' = locked \cup {c}
           \/ q_stack_top' = [q_stack_top EXCEPT ![c] = 0] /\ locked' = locked
  BY PushCases, Zenon DEF gateVars
<1>o. \A d \in Member : d # c => q_stack_top'[d] = q_stack_top[d]
  <2>1. \/ q_stack_top' = [q_stack_top EXCEPT ![c] = q_stack_top[c] + 1]
        \/ q_stack_top' = [q_stack_top EXCEPT ![c] = 0]
    BY PushCases, Zenon
  <2> QED BY <2>1
<1> HIDE DEF w, top, rest
<1>4. ASSUME NEW d \in Member, d # c
      PROVE  /\ d \in locked' => todo'[d] = <<>> \/ todo'[d] \in quest'.calls[d]
             /\ d \notin locked' /\ q_stack_top'[d] < MaxQ =>
                   IF todo'[d] = <<>> THEN q_stack_top'[d] = 0
                   ELSE \E v \in quest'.calls[d] : Begun(d, v)'
  <2>1. /\ q_stack'[d] = q_stack[d] /\ todo'[d] = todo[d] /\ quest' = quest
        /\ q_stack_top'[d] = q_stack_top[d] /\ (d \in locked' <=> d \in locked)
    BY <1>2, <1>3, <1>4, <1>o
  <2>2. \A v : Begun(d, v)' <=> Begun(d, v)
    BY <2>1 DEF Begun
  <2> QED BY <2>1, <2>2 DEF CallUnderWay
<1>5. /\ c \in locked' => todo'[c] = <<>> \/ todo'[c] \in quest'.calls[c]
      /\ c \notin locked' /\ q_stack_top'[c] < MaxQ =>
            IF todo'[c] = <<>> THEN q_stack_top'[c] = 0
            ELSE \E v \in quest'.calls[c] : Begun(c, v)'
  <2>1. q_stack'[c] = w /\ todo'[c] = rest
    BY <1>2
  <2>2. CASE Complete(w, top)
    <3>1. rest = <<>>
      BY <1>1, <2>2
    <3>2. c \notin locked' => q_stack_top'[c] = 0
      BY <1>3, <2>2
    <3> QED BY <2>1, <3>1, <3>2
  <2>3. CASE ~Complete(w, top)
    <3>1. rest # <<>> /\ q_stack_top'[c] = top /\ locked' = locked
      BY <1>1, <1>3, <2>3
    <3>2. PICK v \in quest.calls[c] :
            /\ \A k \in 1 .. top : w[k] = v[k]
            /\ Len(v) = top + Len(rest)
            /\ \A k \in 1 .. Len(rest) : rest[k] = v[top + k]
      BY <1>1
    <3>3. Begun(c, v)'
      BY <1>2, <2>1, <3>1, <3>2 DEF Begun
    <3> QED BY <1>2, <2>1, <3>1, <3>3
  <2> QED BY <2>2, <2>3
<1> QED BY <1>4, <1>5 DEF CallUnderWay

\* What touches nobody's stack leaves every call under way.
LEMMA StacksUntouched ==
    ASSUME CallUnderWay, UNCHANGED <<quest, q_stack, q_stack_top, todo, locked>>
    PROVE  CallUnderWay'
BY DEF CallUnderWay, Begun

\* What touches the stack of one client leaves the calls of the others under way.
LEMMA OneStackTouched ==
    ASSUME QuestShape, CallUnderWay, NEW c \in Member, quest' = quest,
           \A d \in Member : d # c =>
               /\ q_stack'[d] = q_stack[d] /\ q_stack_top'[d] = q_stack_top[d]
               /\ todo'[d] = todo[d] /\ (d \in locked' <=> d \in locked),
           c \in locked' => todo'[c] = <<>> \/ todo'[c] \in quest.calls[c],
           c \notin locked' /\ q_stack_top'[c] < MaxQ =>
              IF todo'[c] = <<>> THEN q_stack_top'[c] = 0
              ELSE todo'[c] \in quest.calls[c] /\ q_stack_top'[c] = 0
    PROVE  CallUnderWay'
<1>1. ASSUME NEW d \in Member, d # c
      PROVE  /\ d \in locked' => todo'[d] = <<>> \/ todo'[d] \in quest'.calls[d]
             /\ d \notin locked' /\ q_stack_top'[d] < MaxQ =>
                   IF todo'[d] = <<>> THEN q_stack_top'[d] = 0
                   ELSE \E v \in quest'.calls[d] : Begun(d, v)'
  <2>1. /\ q_stack'[d] = q_stack[d] /\ todo'[d] = todo[d] /\ quest' = quest
        /\ q_stack_top'[d] = q_stack_top[d] /\ (d \in locked' <=> d \in locked)
    BY <1>1
  <2>2. \A v : Begun(d, v)' <=> Begun(d, v)
    BY <2>1 DEF Begun
  <2> QED BY <2>1, <2>2 DEF CallUnderWay
<1>2. ASSUME c \notin locked', q_stack_top'[c] < MaxQ, todo'[c] # <<>>
      PROVE  \E v \in quest'.calls[c] : Begun(c, v)'
  <2>1. todo'[c] \in quest.calls[c] /\ q_stack_top'[c] = 0
    BY <1>2
  <2>2. PICK v \in quest.calls[c] : v = todo'[c]
    BY <2>1
  <2>3. v \in quest'.calls[c] /\ v = todo'[c] /\ q_stack_top'[c] = 0
    BY <2>1, <2>2
  <2>4. Begun(c, v)'
    <3> DEFINE n == Len(v)
    <3>1. n \in Nat
      BY <2>2, CallWords DEF QuestShape
    <3> HIDE DEF n
    <3>2. n = 0 + n /\ \A k \in 1 .. n : 0 + k = k
      BY <3>1
    <3>3. \A k \in 1 .. 0 : FALSE
      OBVIOUS
    <3>4. /\ Len(v) = q_stack_top'[c] + Len(todo'[c])
          /\ \A k \in 1 .. q_stack_top'[c] : q_stack'[c][k] = v[k]
      BY <2>3, <3>2, <3>3 DEF n
    <3>5. \A k \in 1 .. Len(todo'[c]) : todo'[c][k] = v[q_stack_top'[c] + k]
      BY <2>3, <3>2 DEF n
    <3> QED BY <2>3, <3>4, <3>5 DEF Begun
  <2> QED BY <2>3, <2>4
<1> QED BY <1>1, <1>2 DEF CallUnderWay

\* Nothing is on the stacks of those who have not joined.
LEMMA QuestStarts == ASSUME QuestInit PROVE QuestShape /\ CallUnderWay
<1> USE DEF QuestInit
<1>1. NoReg \in Reg /\ 0 \in AnyWord /\ 0 \in 0 .. MaxQ /\ <<>> \in Seq(AnyWord) /\ <<>> \in Seq(Asked)
  BY QuestStackConstants DEF NoReg, Reg, AnyWord
<1>2. place \in [Seats -> Member \cup {None}] /\ OnePlaceEach
  BY DEF OnePlaceEach, OutsideTeam, In
<1>3. /\ q_stack \in [Member -> [1 .. MaxQ -> AnyWord]] /\ q_stack_top \in [Member -> 0 .. MaxQ]
      /\ todo \in [Member -> Seq(AnyWord)] /\ gate \in Seq(Asked)
  BY <1>1
<1>4. told = [c \in Member |-> told[c]] /\ shown = [s \in Seats |-> shown[s]]
  OBVIOUS
<1>5. qpos \in [Seats -> [Seats -> Reg]] /\ qcount \in [Seats -> Reg]
  BY <1>1
<1>6. QuestShape
  BY <1>2, <1>3, <1>4, <1>5 DEF QuestShape, OutsideTeam
<1>7. CallUnderWay
  BY DEF CallUnderWay
<1> QED BY <1>6, <1>7

\* Every step keeps the shape and the call under way.
LEMMA CallsGoOn ==
    ASSUME QuestShape, CallUnderWay, QuestNext
    PROVE  QuestShape' /\ CallUnderWay'
<1>1. ASSUME NEW c \in Member, JoinQuest(c) PROVE QuestShape' /\ CallUnderWay'
  <2>1. /\ quest' = quest /\ q_stack' = [q_stack EXCEPT ![c] = [k \in 1 .. MaxQ |-> 0]]
        /\ q_stack_top' = [q_stack_top EXCEPT ![c] = 0] /\ todo' = [todo EXCEPT ![c] = <<>>]
        /\ locked' = locked
    BY <1>1 DEF JoinQuest
  <2>2. /\ q_stack_top'[c] = 0 /\ todo'[c] = <<>>
        /\ \A d \in Member : d # c => q_stack'[d] = q_stack[d] /\ q_stack_top'[d] = q_stack_top[d]
                                      /\ todo'[d] = todo[d]
    BY <2>1 DEF QuestShape
  <2> QED BY <1>1, <2>1, <2>2, JoinShape, OneStackTouched
<1>2. ASSUME NEW c \in Member, LeaveQuest(c) PROVE QuestShape' /\ CallUnderWay'
  <2>1. UNCHANGED <<quest, q_stack, q_stack_top, todo, locked>>
    BY <1>2 DEF LeaveQuest, stackVars
  <2> QED BY <1>2, <2>1, LeaveShape, StacksUntouched
<1>e. ASSUME NEW c \in Member, EnterLobby(c) PROVE QuestShape' /\ CallUnderWay'
  <2>1. UNCHANGED <<quest, q_stack, q_stack_top, todo, locked>>
    BY <1>e DEF EnterLobby, stackVars
  <2> QED BY <1>e, <2>1, EnterShape, StacksUntouched
<1>3. ASSUME NEW c \in Member, Push(c) PROVE QuestShape' /\ CallUnderWay'
  BY <1>3, PushShape, PushUnderWay
<1>4. ASSUME NEW c \in Member, Refuse(c) PROVE QuestShape' /\ CallUnderWay'
  <2>1. /\ ~Room(c) \/ c \in locked
        /\ UNCHANGED <<quest, q_stack, q_stack_top, locked>> /\ todo' = [todo EXCEPT ![c] = <<>>]
    BY <1>4 DEF Refuse, seatVars
  <2>2. todo'[c] = <<>> /\ \A d \in Member : d # c => todo'[d] = todo[d]
    BY <2>1 DEF QuestShape
  <2>3. c \in locked \/ ~(q_stack_top[c] < MaxQ)
    BY <2>1 DEF Room
  <2> QED BY <1>4, <2>1, <2>2, <2>3, RefuseShape, OneStackTouched
<1>5. ASSUME NEW c \in Member, Reset(c) PROVE QuestShape' /\ CallUnderWay'
  <2>1. /\ todo[c] = <<>> /\ q_stack_top' = [q_stack_top EXCEPT ![c] = 0]
        /\ UNCHANGED <<quest, q_stack, locked, todo>>
    BY <1>5 DEF Reset, seatVars
  <2>2. q_stack_top'[c] = 0 /\ \A d \in Member : d # c => q_stack_top'[d] = q_stack_top[d]
    BY <2>1 DEF QuestShape
  <2> QED BY <1>5, <2>1, <2>2, ResetShape, OneStackTouched
<1>6. ASSUME NEW c \in Member, SetFlagRegister(c) PROVE QuestShape' /\ CallUnderWay'
  <2>1. UNCHANGED <<quest, q_stack, q_stack_top, todo, locked>>
    BY <1>6 DEF SetFlagRegister, seatVars, stackVars
  <2> QED BY <1>6, <2>1, FlagRegisterShape, StacksUntouched
<1>7. ASSUME NEW c \in Member, NEW w \in AnyCall, Begin(c, w) PROVE QuestShape' /\ CallUnderWay'
  <2>1. /\ w \in quest.calls[c] /\ todo[c] = <<>> /\ todo' = [todo EXCEPT ![c] = w]
        /\ UNCHANGED <<quest, q_stack, q_stack_top, locked>>
    BY <1>7 DEF Begin, seatVars
  <2>2. todo'[c] = w /\ \A d \in Member : d # c => todo'[d] = todo[d]
    BY <2>1 DEF QuestShape
  <2>3. c \notin locked /\ q_stack_top[c] < MaxQ => q_stack_top[c] = 0
    BY <2>1 DEF CallUnderWay
  <2> QED BY <1>7, <2>1, <2>2, <2>3, BeginShape, OneStackTouched
<1>8. ASSUME Reply PROVE QuestShape' /\ CallUnderWay'
  <2> DEFINE c == Head(gate).by
  <2>1. CASE c \notin limbo /\ c \in locked
    <3>1. PICK failed \in BOOLEAN : FlagReply(c, Head(gate), failed)
      BY <1>8, <2>1 DEF Reply, Answer
    <3>2. /\ q_stack_top' = [q_stack_top EXCEPT ![c] = 0] /\ locked' = locked \ {c}
          /\ UNCHANGED <<quest, q_stack, todo>>
      BY <1>8, <3>1 DEF FlagReply, Reply, seatVars
    <3>3. c \in Member
      BY <2>1 DEF QuestShape
    <3> HIDE DEF c
    <3>4. q_stack_top'[c] = 0 /\ \A d \in Member : d # c => q_stack_top'[d] = q_stack_top[d]
      BY <3>2, <3>3 DEF QuestShape
    <3>5. todo[c] = <<>> \/ todo[c] \in quest.calls[c]
      BY <2>1, <3>3 DEF CallUnderWay
    <3> QED BY <1>8, <3>2, <3>3, <3>4, <3>5, ReplyShape, OneStackTouched
  <2>2. CASE c \in limbo \/ c \notin locked
    <3>1. UNCHANGED <<quest, q_stack, q_stack_top, todo, locked>>
      BY <1>8, <2>2 DEF Reply, Answer, seatVars
    <3> QED BY <1>8, <3>1, ReplyShape, StacksUntouched
  <2> QED BY <2>1, <2>2
<1>9. ASSUME LinkLost \/ LinkBack PROVE QuestShape' /\ CallUnderWay'
  <2>1. UNCHANGED <<quest, q_stack, q_stack_top, todo, locked>>
    BY <1>9 DEF LinkLost, LinkBack, seatVars, stackVars
  <2> QED BY <1>9, <2>1, LinkShape, StacksUntouched
<1> QED BY <1>1, <1>2, <1>e, <1>3, <1>4, <1>5, <1>6, <1>7, <1>8, <1>9 DEF QuestNext

\* Both always hold.
LEMMA StepsQuest == QuestInit /\ [][QuestNext]_questVars => [](QuestShape /\ CallUnderWay)
<1>1. QuestInit => QuestShape /\ CallUnderWay
  BY QuestStarts
<1>2. (QuestShape /\ CallUnderWay) /\ UNCHANGED questVars => (QuestShape /\ CallUnderWay)'
  BY DEF questVars, QuestShape, CallUnderWay, OnePlaceEach, OutsideTeam, In, Begun
<1>3. (QuestShape /\ CallUnderWay) /\ [QuestNext]_questVars => (QuestShape /\ CallUnderWay)'
  BY <1>2, CallsGoOn
<1> QED BY <1>1, <1>3, PTL

LEMMA SpecQuest == QuestSpec => [](QuestShape /\ CallUnderWay)
BY StepsQuest, PTL DEF QuestSpec

\* What is kept implies the type invariant, with or without the shipgate's answers.
LEMMA QuestSteps == QuestInit /\ [][QuestNext]_questVars => []QuestTypeOK
<1>1. QuestShape => QuestTypeOK
  <2> SUFFICES ASSUME QuestShape PROVE QuestTypeOK
    OBVIOUS
  <2> USE DEF QuestShape
  <2>1. ASSUME NEW c \in Member PROVE Range(q_stack[c]) \subseteq AnyWord
    <3> DEFINE f == q_stack[c]
    <3>1. f \in [1 .. MaxQ -> AnyWord]
      OBVIOUS
    <3> HIDE DEF f
    <3>2. Range(f) \subseteq AnyWord
      BY <3>1 DEF Range
    <3> QED BY <3>2 DEF f
  <2>2. ASSUME NEW c \in Member PROVE Cardinality({s \in Seats : place[s] = c}) <= 1
    <3> DEFINE S == {s \in Seats : place[s] = c}
    <3>0. c # None
      BY QuestStackConstants
    <3>1. \A s, t \in S : s = t
      <4>1. \A s, t \in Seats : place[s] = place[t] /\ place[s] # None => s = t
        BY DEF OnePlaceEach, OutsideTeam, In
      <4>2. \A s \in S : s \in Seats /\ place[s] = c
        OBVIOUS
      <4> HIDE DEF S, QuestShape
      <4> QED BY <3>0, <4>1, <4>2
    <3> HIDE DEF S, QuestShape
    <3>2. S = {} \/ \E s : S = {s}
      BY <3>1
    <3>3. Cardinality(S) = 0 \/ Cardinality(S) = 1
      BY <3>2, FS_EmptySet, FS_Singleton
    <3> QED BY <3>3 DEF S
  <2>3. \A s, t \in Seats : qpos[s][t] \in Reg /\ qcount[s] \in Reg
    OBVIOUS
  <2>4. limbo \subseteq {c \in Member : ~In(c)}
    BY DEF OutsideTeam
  <2> QED BY <2>1, <2>2, <2>3, <2>4 DEF QuestTypeOK
<1> QED BY <1>1, StepsQuest, PTL

\* A stack never grows past its end, a client has one place in its team, and the registers that
\* the server keeps up are registers (handle_sync_reg, lobby_add_client, get_pos_updates).
THEOREM QuestsFit == QuestSpec => []QuestTypeOK
BY QuestSteps, PTL DEF QuestSpec

\* A function runs on the words of one call, whole, whatever calls failed, were refused or were
\* answered late before it (handle_sync_reg).
THEOREM CallsRunWhole == QuestSpec => CallsAreWhole
<1>1. ASSUME QuestShape, CallUnderWay, NEW c \in Member, Push(c), told'[c] # told[c]
      PROVE  \E w \in quest.calls[c] : SubSeq(q_stack'[c], 1, Len(w)) = w
  <2> USE DEF QuestShape
  <2> DEFINE w == [q_stack[c] EXCEPT ![q_stack_top[c] + 1] = Head(todo[c])]
             top == q_stack_top[c] + 1
  <2>1. /\ w \in [1 .. MaxQ -> AnyWord] /\ top \in 1 .. MaxQ
        /\ \E v \in quest.calls[c] :
              /\ \A k \in 1 .. top : w[k] = v[k]
              /\ Len(v) = top + Len(Tail(todo[c]))
              /\ \A k \in 1 .. Len(Tail(todo[c])) : Tail(todo[c])[k] = v[top + k]
              /\ Complete(w, top) <=> Tail(todo[c]) = <<>>
    BY <1>1, WordPushed
  <2>2. Complete(w, top) /\ q_stack'[c] = w
    <3>1. q_stack' = [q_stack EXCEPT ![c] = w]
      BY <1>1, PushCases
    <3>2. ~Complete(w, top) => told' = told
      BY <1>1, PushCases, Zenon
    <3> QED BY <1>1, <3>1, <3>2
  <2> HIDE DEF w, top
  <2>3. PICK v \in quest.calls[c] : /\ \A k \in 1 .. top : w[k] = v[k]
                                    /\ Len(v) = top + Len(Tail(todo[c])) /\ Tail(todo[c]) = <<>>
    BY <2>1, <2>2
  <2>4. Len(v) = top /\ top \in Nat /\ top <= MaxQ /\ MaxQ \in Nat
    <3>1. top \in Nat /\ top <= MaxQ /\ MaxQ \in Nat
      BY <2>1, QuestStackConstants
    <3>2. Len(Tail(todo[c])) = 0
      BY <2>3, EmptySeq
    <3>3. Len(v) = top + 0
      BY <2>3, <3>2
    <3> QED BY <3>1, <3>3
  <2>5. v \in Seq(AnyWord)
    <3>1. quest \in Quest
      BY <1>1
    <3> QED BY <3>1, CallWords
  <2>6. w \in Seq(AnyWord) /\ Len(w) = MaxQ
    <3>1. w \in Seq(AnyWord)
      BY <2>1, <2>4, FunctionIsSeq
    <3>2. DOMAIN w = 1 .. MaxQ
      BY <2>1
    <3> QED BY <2>4, <3>1, <3>2, LenProperties
  <2>7. SubSeq(w, 1, top) = v
    <3> DEFINE u == SubSeq(w, 1, top)
    <3>1. u \in Seq(AnyWord) /\ Len(u) = top /\ \A i \in 1 .. top : u[i] = w[i]
      <4>1. /\ 1 \in 1 .. Len(w) + 1 /\ top \in 0 .. Len(w)
        BY <2>1, <2>4, <2>6
      <4> QED BY <2>1, <2>4, <2>6, <4>1, SubSeqProperties
    <3> HIDE DEF u
    <3>2. \A i \in 1 .. Len(v) : u[i] = v[i]
      BY <2>3, <2>4, <3>1
    <3>3. u = v
      BY <2>4, <2>5, <3>1, <3>2, SeqEqual
    <3> QED BY <3>3 DEF u
  <2> QED BY <2>2, <2>3, <2>4, <2>7
<1>2. QuestShape /\ CallUnderWay =>
        [\A c \in Member : Push(c) /\ told'[c] # told[c]
           => \E w \in quest.calls[c] : SubSeq(q_stack'[c], 1, Len(w)) = w]_questVars
  BY <1>1
<1> QED BY <1>2, SpecQuest, PTL DEF CallsAreWhole

(***************************************************************************)
(* The lock of a stack.                                                    *)
(***************************************************************************)

\* shipgate_send_qflag: who has asked is waiting for the shipgate, or its question is lost, and
\* what the others wait for is still to come.
LEMMA AskedIsPending ==
    ASSUME QuestShape, NEW c \in Member, NEW q \in Asked, q.by = c, Ask(c, q)
    PROVE  /\ q.direct \/ Pending(c)' \/ c \in lost'
           /\ \A d \in Member : Pending(d) \/ d \in lost => Pending(d)' \/ d \in lost'
<1>1. CASE linked
  <2>0. q.direct \in BOOLEAN
    BY DEF Asked
  <2>1. /\ gate' = Append(gate, q)
        /\ q.direct => lost' = lost
        /\ ~q.direct => lost' = lost \ {c}
    BY <1>1, <2>0 DEF Ask
  <2>2. gate \in Seq(Asked)
    BY DEF QuestShape
  <2> DEFINE n == Len(gate)
  <2>3. /\ n \in Nat /\ DOMAIN gate = 1 .. n /\ DOMAIN gate' = 1 .. n + 1
        /\ gate'[n + 1] = q /\ \A i \in 1 .. n : gate'[i] = gate[i]
    BY <2>1, <2>2, AppendProperties, LenProperties
  <2> HIDE DEF n
  <2>4. n + 1 \in DOMAIN gate' /\ gate'[n + 1] = q
    BY <2>3
  <2>5. \A i \in DOMAIN gate : i \in DOMAIN gate' /\ gate'[i] = gate[i]
    BY <2>3
  <2> QED BY <2>1, <2>4, <2>5 DEF Pending
<1>2. CASE ~linked
  BY <1>2 DEF Ask, Pending
<1> QED BY <1>1, <1>2

\* handle_qflag: the answer to the first question leaves what the others wait for to come.
LEMMA AnsweredOnlyFirst ==
    ASSUME QuestShape, Reply, NEW d \in Member, d # Head(gate).by \/ Head(gate).direct, Pending(d)
    PROVE  Pending(d)'
<1>1. gate # <<>> /\ gate' = Tail(gate) /\ gate \in Seq(Asked)
  BY DEF Reply, QuestShape
<1> DEFINE n == Len(gate)
           m == Len(Tail(gate))
<1>2. /\ Head(gate) = gate[1] /\ Tail(gate) \in Seq(Asked) /\ n \in Nat \ {0} /\ m = n - 1
      /\ \A i \in 1 .. m : Tail(gate)[i] = gate[i + 1]
  BY <1>1, HeadAndTail
<1>3. DOMAIN gate = 1 .. n /\ DOMAIN Tail(gate) = 1 .. m
  BY <1>1, <1>2, LenProperties
<1>4. PICK i \in DOMAIN gate : gate[i].by = d /\ ~gate[i].direct
  BY DEF Pending
<1>5. i # 1
  BY <1>2, <1>4
<1> HIDE DEF n, m
<1>6. i - 1 \in 1 .. m /\ (i - 1) + 1 = i
  BY <1>2, <1>3, <1>5
<1>7. i - 1 \in DOMAIN gate' /\ gate'[i - 1] = gate[i]
  BY <1>1, <1>2, <1>3, <1>6
<1> QED BY <1>4, <1>7 DEF Pending

\* A stack is locked while its client waits for the shipgate, or its question or the answer was
\* lost: no answer to somebody else, or to the flag register, takes the wait away and leaves the
\* lock.
LEMMA LockStep ==
    ASSUME QuestShape, CallUnderWay, LockAwaitsAnswer, QuestNext
    PROVE  LockAwaitsAnswer'
<1>0. locked \subseteq Member
  BY DEF QuestShape
<1>u. ASSUME UNCHANGED <<locked, gate, lost>> PROVE LockAwaitsAnswer'
  BY <1>u DEF LockAwaitsAnswer, Pending
<1>1. ASSUME NEW c \in Member, JoinQuest(c) PROVE LockAwaitsAnswer'
  <2>1. /\ gate' = [i \in DOMAIN gate |-> [gate[i] EXCEPT !.here = @ /\ gate[i].by # c]]
        /\ UNCHANGED <<locked, lost>>
    BY <1>1 DEF JoinQuest
  <2>2. ASSUME NEW i \in DOMAIN gate PROVE gate[i] \in Asked
    BY LenProperties, ElementOfSeq DEF QuestShape
  <2>3. ASSUME NEW i \in DOMAIN gate
        PROVE  i \in DOMAIN gate' /\ gate'[i].by = gate[i].by /\ gate'[i].direct = gate[i].direct
    <3> DEFINE h == gate[i].here /\ gate[i].by # c
    <3>1. gate'[i] = [gate[i] EXCEPT !.here = h] /\ i \in DOMAIN gate'
      BY <2>1
    <3> HIDE DEF h
    <3> QED BY <2>2, <3>1 DEF Asked
  <2>4. ASSUME NEW d \in Member, Pending(d) PROVE Pending(d)'
    BY <2>3, <2>4 DEF Pending
  <2> QED BY <1>0, <2>1, <2>4 DEF LockAwaitsAnswer
<1>2. ASSUME NEW c \in Member, LeaveQuest(c) \/ EnterLobby(c) \/ Refuse(c) \/ Reset(c)
      PROVE  LockAwaitsAnswer'
  BY <1>2, <1>u DEF LeaveQuest, EnterLobby, Refuse, Reset, gateVars
<1>3. ASSUME NEW c \in Member, Push(c) PROVE LockAwaitsAnswer'
  <2> DEFINE w == [q_stack[c] EXCEPT ![q_stack_top[c] + 1] = Head(todo[c])]
             top == q_stack_top[c] + 1
  <2>1. \/ UNCHANGED <<locked, gate, lost>>
        \/ /\ Complete(w, top) /\ Dispatch(w) = Waiting
           /\ locked' = locked \cup {c} /\ Ask(c, Question(c, w))
    BY <1>3, PushCases, Zenon DEF gateVars
  <2>2. w \in [1 .. MaxQ -> AnyWord] /\ top \in 1 .. MaxQ
    BY <1>3, WordPushed
  <2> HIDE DEF w, top
  <2>3. CASE /\ Complete(w, top) /\ Dispatch(w) = Waiting
             /\ locked' = locked \cup {c} /\ Ask(c, Question(c, w))
    <3>1. Question(c, w) \in Asked
      BY <2>2, <2>3, QuestionShape
    <3>2. Question(c, w).by = c /\ ~Question(c, w).direct
      BY DEF Question
    <3>3. /\ Pending(c)' \/ c \in lost'
          /\ \A d \in Member : Pending(d) \/ d \in lost => Pending(d)' \/ d \in lost'
      BY <2>3, <3>1, <3>2, AskedIsPending
    <3> QED BY <1>0, <2>3, <3>3 DEF LockAwaitsAnswer
  <2> QED BY <1>u, <2>1, <2>3
<1>4. ASSUME NEW c \in Member, SetFlagRegister(c) PROVE LockAwaitsAnswer'
  <2>1. PICK set \in BOOLEAN : Ask(c, [by |-> c, set |-> set, del |-> FALSE, direct |-> TRUE,
                                       reg |-> NoReg, here |-> TRUE])
    BY <1>4 DEF SetFlagRegister
  <2>2. NoReg \in AnyWord
    BY DEF NoReg, AnyWord
  <2> DEFINE q == [by |-> c, set |-> set, del |-> FALSE, direct |-> TRUE, reg |-> NoReg, here |-> TRUE]
  <2>3. q \in Asked /\ q.by = c
    BY <2>2 DEF Asked
  <2>4. Ask(c, q) /\ locked' = locked
    BY <1>4, <2>1 DEF SetFlagRegister
  <2> HIDE DEF q
  <2>5. \A d \in Member : Pending(d) \/ d \in lost => Pending(d)' \/ d \in lost'
    BY <2>3, <2>4, AskedIsPending
  <2> QED BY <1>0, <2>4, <2>5 DEF LockAwaitsAnswer
<1>5. ASSUME NEW c \in Member, NEW w \in AnyCall, Begin(c, w) PROVE LockAwaitsAnswer'
  BY <1>5, <1>u DEF Begin, gateVars
<1>6. ASSUME Reply PROVE LockAwaitsAnswer'
  <2>1. lost \subseteq lost' /\ locked' \subseteq locked
    BY <1>6 DEF Reply, Answer, FlagReply
  <2>2. \/ Head(gate).by \notin locked' \/ Head(gate).direct \/ Head(gate).by \in lost'
    BY <1>6 DEF Reply, Answer, FlagReply
  <2>3. ASSUME NEW d \in locked' PROVE Pending(d)' \/ d \in lost'
    <3>1. d \in Member /\ (Pending(d) \/ d \in lost)
      BY <1>0, <2>1, <2>3 DEF LockAwaitsAnswer
    <3>2. CASE d \in lost
      BY <2>1, <3>2
    <3>3. CASE d = Head(gate).by /\ ~Head(gate).direct
      BY <2>2, <2>3, <3>3
    <3>4. CASE Pending(d) /\ (d # Head(gate).by \/ Head(gate).direct)
      BY <1>6, <3>1, <3>4, AnsweredOnlyFirst
    <3> QED BY <3>1, <3>2, <3>3, <3>4
  <2> QED BY <2>3 DEF LockAwaitsAnswer
<1>7. ASSUME LinkLost PROVE LockAwaitsAnswer'
  <2>1. /\ locked' = locked
        /\ lost' = lost \cup {gate[i].by : i \in {j \in DOMAIN gate : ~gate[j].direct}}
    BY <1>7 DEF LinkLost
  <2>2. \A d : Pending(d) => d \in lost'
    BY <2>1 DEF Pending
  <2> QED BY <2>1, <2>2 DEF LockAwaitsAnswer
<1>8. ASSUME LinkBack PROVE LockAwaitsAnswer'
  BY <1>8, <1>u DEF LinkBack
<1> QED BY <1>1, <1>2, <1>3, <1>4, <1>5, <1>6, <1>7, <1>8 DEF QuestNext

\* A stack is locked only while an answer of the shipgate is to come, unless the shipgate was or
\* went away, or its answer came when the client was in no lobby (CLIENT_FLAG_QSTACK_LOCK;
\* handle_qflag, handle_qflag_err).
THEOREM LocksAwaitAnswers == QuestSpec => []LockAwaitsAnswer
<1>1. QuestInit => LockAwaitsAnswer
  BY DEF QuestInit, LockAwaitsAnswer
<1>2. LockAwaitsAnswer /\ UNCHANGED questVars => LockAwaitsAnswer'
  BY DEF questVars, LockAwaitsAnswer, Pending
<1> QED BY <1>1, <1>2, SpecQuest, LockStep, PTL DEF QuestSpec

(***************************************************************************)
(* The registers the server keeps up.                                      *)
(***************************************************************************)

Kept == UpdatesReachMembers /\ CountsFollow

\* lobby_add_client, lobby_remove_client: who has asked for the number of clients is sent it
\* again, and nobody is kept up to date in a place that was left.
LEMMA KeptOverJoin ==
    ASSUME QuestShape, Kept, NEW c \in Member, JoinQuest(c) PROVE Kept'
<1> USE DEF QuestShape
<1>1. PICK s \in Seats : place[s] = None /\ place' = [place EXCEPT ![s] = c]
  BY JoinPlace
<1>2. c # None /\ UNCHANGED <<qpos, qcount>> /\ SendCounts
  BY QuestStackConstants DEF JoinQuest
<1>3. \A t \in Seats : place[t] # None => place'[t] # None
  BY <1>1, <1>2
<1>4. UpdatesReachMembers'
  BY <1>2, <1>3 DEF UpdatesReachMembers, Kept
<1>5. CountsFollow'
  BY <1>2 DEF SendCounts, CountsFollow, NumClients
<1> QED BY <1>4, <1>5 DEF Kept

\* Who leaves makes its place no longer kept up to date; the others are sent the new count.
LEMMA KeptOverLeave ==
    ASSUME QuestShape, Kept, NEW c \in Member, LeaveQuest(c) PROVE Kept'
<1> USE DEF QuestShape
<1> DEFINE s == PlaceOf(c)
<1>1. s \in Seats /\ place' = [place EXCEPT ![s] = None]
  BY PlaceOfMember DEF LeaveQuest
<1>2. /\ qpos' = [t \in Seats |-> [qpos[t] EXCEPT ![s] = NoReg]]
      /\ qcount' = [qcount EXCEPT ![s] = NoReg] /\ SendCounts
  BY DEF LeaveQuest, Forgotten
<1> HIDE DEF s
<1>3. \A t, u \in Seats : u # s => place'[u] = place[u] /\ qpos'[t][u] = qpos[t][u] /\ qcount'[u] = qcount[u]
  BY <1>1, <1>2
<1>4. \A t \in Seats : qpos'[t][s] = NoReg /\ qcount'[s] = NoReg
  BY <1>1, <1>2
<1>5. UpdatesReachMembers'
  BY <1>3, <1>4 DEF UpdatesReachMembers, Kept
<1>6. CountsFollow'
  BY <1>2 DEF SendCounts, CountsFollow, NumClients
<1> QED BY <1>5, <1>6 DEF Kept

\* get_pos_updates, get_client_count_updates: who asks is there, and has the number at once.
LEMMA KeptOverSubscribe ==
    ASSUME QuestShape, Kept, NEW c \in Member, In(c), NEW w, Subscribe(c, w), place' = place
    PROVE  Kept'
<1> USE DEF QuestShape
<1> DEFINE s == PlaceOf(c)
<1>1. s \in Seats /\ place[s] = c /\ c # None
  BY PlaceOfMember, QuestStackConstants
<1>2. \A t, u \in Seats : u # s => qpos'[t][u] = qpos[t][u] /\ qcount'[u] = qcount[u]
  <2>1. ASSUME NEW t \in Seats, NEW u \in Seats, u # s PROVE qpos'[t][u] = qpos[t][u]
    BY <1>1, <2>1 DEF Subscribe
  <2>2. ASSUME NEW u \in Seats, u # s PROVE qcount'[u] = qcount[u]
    BY <1>1, <2>2 DEF Subscribe
  <2> QED BY <2>1, <2>2
<1>3. UpdatesReachMembers'
  BY <1>1, <1>2 DEF UpdatesReachMembers, Kept
<1>4. CountsFollow'
  <2>1. NumClients' = NumClients
    BY DEF NumClients
  <2>2. CASE At(w, 0) = 26
    <3>1. qcount' = [qcount EXCEPT ![s] = At(w, 3)] /\ shown' = [shown EXCEPT ![s] = NumClients]
      BY <2>2 DEF Subscribe
    <3> HIDE DEF s
    <3>2. shown'[s] = NumClients /\ \A u \in Seats : u # s => shown'[u] = shown[u]
      BY <1>1, <3>1
    <3> QED BY <1>2, <2>1, <3>2 DEF CountsFollow, Kept
  <2>3. CASE At(w, 0) # 26
    BY <2>1, <2>3 DEF Subscribe, CountsFollow, Kept
  <2> QED BY <2>2, <2>3
<1> QED BY <1>3, <1>4 DEF Kept

\* Every step keeps the registers current.
LEMMA KeptStep ==
    ASSUME QuestShape, CallUnderWay, Kept, QuestNext PROVE Kept'
<1>u. ASSUME UNCHANGED <<place, qpos, qcount, shown>> PROVE Kept'
  BY <1>u DEF Kept, UpdatesReachMembers, CountsFollow, NumClients
<1>1. ASSUME NEW c \in Member, Push(c) PROVE Kept'
  <2> DEFINE w == [q_stack[c] EXCEPT ![q_stack_top[c] + 1] = Head(todo[c])]
  <2>1. In(c) /\ place' = place
    BY <1>1, PushCases
  <2>2. UNCHANGED <<qpos, qcount, shown>> \/ Subscribe(c, w)
    BY <1>1, PushCases, Zenon
  <2> HIDE DEF w
  <2> QED BY <1>u, <2>1, <2>2, KeptOverSubscribe
<1>2. ASSUME NEW c \in Member, EnterLobby(c) \/ Refuse(c) \/ Reset(c) \/ SetFlagRegister(c) PROVE Kept'
  BY <1>2, <1>u DEF EnterLobby, Refuse, Reset, SetFlagRegister, seatVars
<1>3. ASSUME NEW c \in Member, NEW w \in AnyCall, Begin(c, w) PROVE Kept'
  BY <1>3, <1>u DEF Begin, seatVars
<1>4. ASSUME Reply \/ LinkLost \/ LinkBack PROVE Kept'
  BY <1>4, <1>u DEF Reply, LinkLost, LinkBack, seatVars
<1> QED BY <1>1, <1>2, <1>3, <1>4, KeptOverJoin, KeptOverLeave DEF QuestNext

\* They always are.
LEMMA SpecKept == QuestSpec => []Kept
<1>1. QuestInit => Kept
  BY DEF QuestInit, Kept, UpdatesReachMembers, CountsFollow
<1>2. Kept /\ UNCHANGED questVars => Kept'
  BY DEF questVars, Kept, UpdatesReachMembers, CountsFollow, NumClients
<1> QED BY <1>1, <1>2, SpecQuest, KeptStep, PTL DEF QuestSpec

\* Positions and counts are sent to members of the team only: update_qpos and
\* lobby_add_client_locked do not look whether anybody is in the slot they send to.
THEOREM UpdatesFindMembers == QuestSpec => []UpdatesReachMembers
BY SpecKept, PTL DEF Kept

\* Who asked for the number of clients was sent the number there is, whoever joined or left
\* since (lobby_add_client_locked, lobby_remove_client_locked, get_client_count_updates).
THEOREM CountsAreCurrent == QuestSpec => []CountsFollow
BY SpecKept, PTL DEF Kept

(***************************************************************************)
(* The answers of the shipgate.                                            *)
(***************************************************************************)

\* What the shipgate is asked for by a call is what the locked stack of the client says; and what
\* a client has asked for is one call, or for the flag register, unless it mixed the two.
AnswerFits(i) ==
    gate[i].by \notin mixed /\ ~gate[i].direct =>
        /\ gate[i].by \in locked
        /\ ~gate[i].del /\ gate[i].here => FlagReg(q_stack[gate[i].by], gate[i].set) = gate[i].reg
OneSort ==
    \A i, j \in DOMAIN gate : gate[i].by = gate[j].by /\ gate[i].by \notin mixed =>
        /\ gate[i].direct = gate[j].direct
        /\ ~gate[i].direct => i = j
AnswersFit == OneSort /\ \A i \in DOMAIN gate : AnswerFits(i)

\* get_quest_sflag, set_quest_sflag: the register of the question is that of the reply.
LEMMA RegisterAsked ==
    ASSUME NEW c \in Member, NEW w, Dispatch(w) = Waiting, ~Question(c, w).del
    PROVE  FlagReg(w, Question(c, w).set) = Question(c, w).reg
<1>1. At(w, 0) \in Flags /\ At(w, 1) = FlagArgs(At(w, 0))
  BY AskedOnlyForFlags
<1>2. /\ Question(c, w).del = (At(w, 0) \in DelFlags) /\ Question(c, w).reg = At(w, 3 + At(w, 1))
      /\ Question(c, w).set = (At(w, 0) \in SetFlags \cup DelFlags)
  BY DEF Question
<1>3. At(w, 0) \notin DelFlags
  BY <1>2
<1>4. CASE At(w, 0) \in SetFlags
  <2>1. At(w, 1) = 2
    BY <1>1, <1>4 DEF FlagArgs
  <2>2. Question(c, w).set = TRUE
    BY <1>2, <1>4
  <2>3. Question(c, w).reg = At(w, 5)
    BY <1>2, <2>1
  <2> QED BY <2>2, <2>3 DEF FlagReg
<1>5. CASE At(w, 0) \notin SetFlags
  <2>1. At(w, 1) = 1
    BY <1>1, <1>5 DEF FlagArgs
  <2>2. Question(c, w).set = FALSE
    BY <1>2, <1>3, <1>5
  <2>3. Question(c, w).reg = At(w, 4)
    BY <1>2, <2>1
  <2> QED BY <2>2, <2>3 DEF FlagReg
<1> QED BY <1>4, <1>5

\* shipgate_send_qflag: a question more, of a client that had no call that waits; if it had used
\* the flag register, it has mixed the two.
LEMMA AskedFits ==
    ASSUME QuestShape, AnswersFit, NEW c \in Member, NEW q \in Asked, q.by = c, Ask(c, q),
           locked \subseteq locked',
           ~q.direct => /\ c \notin locked /\ c \in locked'
                        /\ ~q.del => FlagReg(q_stack'[c], q.set) = q.reg,
           \A d \in Member : d \in locked => q_stack'[d] = q_stack[d]
    PROVE  AnswersFit'
<1>a. ASSUME NEW i \in DOMAIN gate PROVE gate[i] \in Asked /\ gate[i].by \in Member
  <2>1. gate[i] \in Asked
    BY LenProperties, ElementOfSeq DEF QuestShape
  <2> QED BY <2>1 DEF Asked
<1>b. mixed \subseteq mixed'
  BY DEF Ask
<1>2. ASSUME NEW i \in DOMAIN gate, gate'[i] = gate[i] PROVE AnswerFits(i)'
  <2>1. AnswerFits(i)
    BY DEF AnswersFit
  <2> QED BY <1>a, <1>b, <1>2, <2>1 DEF AnswerFits
<1>3. CASE linked
  <2>1. gate' = Append(gate, q) /\ gate \in Seq(Asked)
    BY <1>3 DEF Ask, QuestShape
  <2> DEFINE n == Len(gate)
  <2>2. /\ n \in Nat /\ DOMAIN gate = 1 .. n /\ DOMAIN gate' = 1 .. n + 1
        /\ gate'[n + 1] = q /\ \A i \in 1 .. n : gate'[i] = gate[i]
    BY <2>1, AppendProperties, LenProperties
  <2> HIDE DEF n
  <2>3. \A i \in DOMAIN gate' : (i \in DOMAIN gate /\ gate'[i] = gate[i]) \/ (i = n + 1 /\ gate'[i] = q)
    <3>1. \A i \in 1 .. n + 1 : i \in 1 .. n \/ i = n + 1
      BY <2>2
    <3> QED BY <2>2, <3>1
  <2>4. ASSUME NEW i \in DOMAIN gate' PROVE AnswerFits(i)'
    <3>1. CASE gate'[i] = q
      BY <3>1 DEF AnswerFits
    <3> QED BY <1>2, <2>3, <3>1
  <2>5. ASSUME NEW i \in DOMAIN gate, gate[i].by = c, c \notin mixed'
        PROVE  gate[i].direct = q.direct /\ gate[i].direct
    <3>1. gate[i].direct = q.direct
      BY <1>3, <2>5 DEF Ask
    <3>2. gate[i].direct
      <4>1. ~gate[i].direct => c \in locked
        BY <1>b, <2>5 DEF AnswersFit, AnswerFits
      <4>2. gate[i].direct \in BOOLEAN /\ q.direct \in BOOLEAN
        BY <1>a DEF Asked
      <4> QED BY <3>1, <4>1, <4>2
    <3> QED BY <3>1, <3>2
  <2>6. OneSort'
    <3> SUFFICES ASSUME NEW i \in DOMAIN gate', NEW j \in DOMAIN gate', gate'[i].by = gate'[j].by,
                        gate'[i].by \notin mixed'
                 PROVE  gate'[i].direct = gate'[j].direct /\ (~gate'[i].direct => i = j)
      BY DEF OneSort
    <3>1. CASE i \in DOMAIN gate /\ gate'[i] = gate[i] /\ j \in DOMAIN gate /\ gate'[j] = gate[j]
      BY <1>b, <3>1 DEF AnswersFit, OneSort
    <3>2. CASE i \in DOMAIN gate /\ gate'[i] = gate[i] /\ j = n + 1 /\ gate'[j] = q
      BY <2>5, <3>2
    <3>3. CASE i = n + 1 /\ gate'[i] = q /\ j \in DOMAIN gate /\ gate'[j] = gate[j]
      BY <2>5, <3>3
    <3>4. CASE i = n + 1 /\ j = n + 1
      BY <3>4
    <3> QED BY <2>3, <3>1, <3>2, <3>3, <3>4
  <2> QED BY <2>4, <2>6 DEF AnswersFit
<1>4. CASE ~linked
  <2>1. gate' = gate
    BY <1>4 DEF Ask
  <2>2. \A i \in DOMAIN gate : AnswerFits(i)'
    BY <1>2, <2>1
  <2>3. OneSort'
    BY <1>b, <2>1 DEF AnswersFit, OneSort
  <2> QED BY <2>1, <2>2, <2>3 DEF AnswersFit
<1> QED BY <1>3, <1>4

\* Every step keeps the answers fit for their registers.
LEMMA AnswersStep ==
    ASSUME QuestShape, CallUnderWay, AnswersFit, QuestNext PROVE AnswersFit'
<1>m. ASSUME NEW i \in DOMAIN gate PROVE gate[i] \in Asked
  BY LenProperties, ElementOfSeq DEF QuestShape
<1>u. ASSUME UNCHANGED <<locked, gate, mixed, q_stack>> PROVE AnswersFit'
  BY <1>u DEF AnswersFit, AnswerFits, OneSort
<1>1. ASSUME NEW c \in Member, JoinQuest(c) PROVE AnswersFit'
  <2>1. /\ gate' = [i \in DOMAIN gate |-> [gate[i] EXCEPT !.here = @ /\ gate[i].by # c]]
        /\ UNCHANGED <<locked, mixed>> /\ q_stack' = [q_stack EXCEPT ![c] = [k \in 1 .. MaxQ |-> 0]]
    BY <1>1 DEF JoinQuest
  <2>2. DOMAIN gate' = DOMAIN gate
    BY <2>1
  <2>3. ASSUME NEW i \in DOMAIN gate
        PROVE  /\ gate'[i].by = gate[i].by /\ gate'[i].direct = gate[i].direct /\ gate'[i].del = gate[i].del
               /\ gate'[i].set = gate[i].set /\ gate'[i].reg = gate[i].reg
               /\ gate'[i].here => gate[i].here /\ gate[i].by # c
    <3> DEFINE h == gate[i].here /\ gate[i].by # c
    <3>1. gate'[i] = [gate[i] EXCEPT !.here = h]
      BY <2>1
    <3>2. gate[i] \in Asked
      BY <1>m
    <3> HIDE DEF h
    <3>3. /\ gate'[i].by = gate[i].by /\ gate'[i].direct = gate[i].direct /\ gate'[i].del = gate[i].del
          /\ gate'[i].set = gate[i].set /\ gate'[i].reg = gate[i].reg /\ gate'[i].here = h
      BY <3>1, <3>2 DEF Asked
    <3> QED BY <3>3 DEF h
  <2>4. \A d \in Member : d # c => q_stack'[d] = q_stack[d]
    BY <2>1 DEF QuestShape
  <2>5. ASSUME NEW i \in DOMAIN gate PROVE AnswerFits(i)'
    <3>1. AnswerFits(i) /\ gate[i].by \in Member
      BY <1>m DEF AnswersFit, Asked
    <3>2. UNCHANGED <<locked, mixed>>
      BY <2>1
    <3> QED BY <2>3, <2>4, <3>1, <3>2 DEF AnswerFits
  <2>6. OneSort'
    <3>1. mixed' = mixed
      BY <2>1
    <3>2. \A i \in DOMAIN gate : gate'[i].by = gate[i].by /\ gate'[i].direct = gate[i].direct
      BY <2>3
    <3>3. OneSort
      BY DEF AnswersFit
    <3> QED BY <2>2, <3>1, <3>2, <3>3 DEF OneSort
  <2> QED BY <2>2, <2>5, <2>6 DEF AnswersFit
<1>2. ASSUME NEW c \in Member, LeaveQuest(c) \/ EnterLobby(c) \/ Refuse(c) \/ Reset(c) PROVE AnswersFit'
  BY <1>2, <1>u DEF LeaveQuest, EnterLobby, Refuse, Reset, seatVars, stackVars, gateVars
<1>3. ASSUME NEW c \in Member, Push(c) PROVE AnswersFit'
  <2> DEFINE w == [q_stack[c] EXCEPT ![q_stack_top[c] + 1] = Head(todo[c])]
             top == q_stack_top[c] + 1
  <2>1. \/ UNCHANGED <<locked, gate, mixed>>
        \/ /\ Complete(w, top) /\ Dispatch(w) = Waiting
           /\ locked' = locked \cup {c} /\ Ask(c, Question(c, w))
    BY <1>3, PushCases, Zenon DEF gateVars
  <2>2. w \in [1 .. MaxQ -> AnyWord] /\ top \in 1 .. MaxQ
    BY <1>3, WordPushed
  <2>3. c \notin locked /\ q_stack' = [q_stack EXCEPT ![c] = w]
    BY <1>3, PushCases
  <2> HIDE DEF w, top
  <2>4. q_stack'[c] = w /\ \A d \in Member : d # c => q_stack'[d] = q_stack[d]
    BY <2>3 DEF QuestShape
  <2>5. CASE UNCHANGED <<locked, gate, mixed>>
    <3>1. ASSUME NEW i \in DOMAIN gate PROVE AnswerFits(i)'
      <4>1. AnswerFits(i) /\ gate[i].by \in Member
        BY <1>m DEF AnswersFit, Asked
      <4> QED BY <2>3, <2>4, <2>5, <4>1 DEF AnswerFits
    <3>2. OneSort'
      BY <2>5 DEF AnswersFit, OneSort
    <3> QED BY <2>5, <3>1, <3>2 DEF AnswersFit
  <2>6. CASE /\ Complete(w, top) /\ Dispatch(w) = Waiting
             /\ locked' = locked \cup {c} /\ Ask(c, Question(c, w))
    <3>1. Question(c, w) \in Asked
      BY <2>2, <2>6, QuestionShape
    <3>2. Question(c, w).by = c /\ Question(c, w).direct = FALSE
      BY DEF Question
    <3>4. ~Question(c, w).del => FlagReg(w, Question(c, w).set) = Question(c, w).reg
      BY <2>6, RegisterAsked
    <3>5. locked \subseteq locked' /\ c \in locked' /\ \A d \in Member : d \in locked => q_stack'[d] = q_stack[d]
      BY <2>3, <2>4, <2>6
    <3> DEFINE q == Question(c, w)
    <3>6. q \in Asked /\ q.by = c /\ ~q.direct /\ Ask(c, q) /\ (~q.del => FlagReg(q_stack'[c], q.set) = q.reg)
      BY <2>4, <2>6, <3>1, <3>2, <3>4
    <3> HIDE DEF q
    <3> QED BY <2>3, <3>5, <3>6, AskedFits
  <2> QED BY <2>1, <2>5, <2>6
<1>4. ASSUME NEW c \in Member, SetFlagRegister(c) PROVE AnswersFit'
  <2>1. PICK set \in BOOLEAN : Ask(c, [by |-> c, set |-> set, del |-> FALSE, direct |-> TRUE,
                                       reg |-> NoReg, here |-> TRUE])
    BY <1>4 DEF SetFlagRegister
  <2>2. NoReg \in AnyWord
    BY DEF NoReg, AnyWord
  <2> DEFINE q == [by |-> c, set |-> set, del |-> FALSE, direct |-> TRUE, reg |-> NoReg, here |-> TRUE]
  <2>3. q \in Asked /\ q.by = c /\ q.direct
    BY <2>2 DEF Asked
  <2>4. Ask(c, q) /\ UNCHANGED <<locked, q_stack>>
    BY <1>4, <2>1 DEF SetFlagRegister, stackVars
  <2> HIDE DEF q
  <2> QED BY <2>3, <2>4, AskedFits
<1>5. ASSUME NEW c \in Member, NEW w \in AnyCall, Begin(c, w) PROVE AnswersFit'
  BY <1>5, <1>u DEF Begin, seatVars, gateVars
<1>6. ASSUME Reply PROVE AnswersFit'
  <2>1. gate # <<>> /\ gate' = Tail(gate) /\ gate \in Seq(Asked) /\ q_stack' = q_stack
    BY <1>6 DEF Reply, QuestShape
  <2> DEFINE n == Len(gate)
             m == Len(Tail(gate))
  <2>2. /\ Head(gate) = gate[1] /\ Tail(gate) \in Seq(Asked) /\ n \in Nat \ {0} /\ m = n - 1
        /\ \A i \in 1 .. m : Tail(gate)[i] = gate[i + 1]
    BY <2>1, HeadAndTail
  <2>3. DOMAIN gate = 1 .. n /\ DOMAIN Tail(gate) = 1 .. m
    BY <2>1, <2>2, LenProperties
  <2> HIDE DEF n, m
  <2>4. \A i \in DOMAIN gate' : i + 1 \in DOMAIN gate /\ gate'[i] = gate[i + 1] /\ i \in Int /\ i # 0
    BY <2>1, <2>2, <2>3
  <2>5. 1 \in DOMAIN gate
    BY <2>2, <2>3
  <2>6. \A d : d \in locked /\ d # gate[1].by => d \in locked'
    BY <1>6, <2>2 DEF Reply, Answer, FlagReply
  <2>m. ASSUME NEW i \in DOMAIN gate', gate'[i].by \notin mixed' PROVE gate'[i].by \notin mixed
    BY <1>6, <2>m DEF Reply
  <2>7. ASSUME NEW i \in DOMAIN gate' PROVE AnswerFits(i)'
    <3> SUFFICES ASSUME gate'[i].by \notin mixed', ~gate'[i].direct
                 PROVE  /\ gate'[i].by \in locked'
                        /\ gate'[i].by \in locked /\ (~gate'[i].del /\ gate'[i].here =>
                              FlagReg(q_stack[gate'[i].by], gate'[i].set) = gate'[i].reg)
      BY <2>1 DEF AnswerFits
    <3>1. AnswerFits(i + 1) /\ gate'[i] = gate[i + 1] /\ i + 1 # 1 /\ gate[i + 1].by \notin mixed
      BY <2>4, <2>m DEF AnswersFit
    <3>2. gate'[i].by # gate[1].by
      <4> SUFFICES ASSUME gate[i + 1].by = gate[1].by PROVE FALSE
        BY <3>1
      <4>1. ~gate[i + 1].direct => i + 1 = 1
        BY <2>4, <2>5, <3>1 DEF AnswersFit, OneSort
      <4> QED BY <3>1, <4>1
    <3> QED BY <2>6, <3>1, <3>2 DEF AnswerFits
  <2>8. OneSort'
    <3> SUFFICES ASSUME NEW i \in DOMAIN gate', NEW j \in DOMAIN gate', gate'[i].by = gate'[j].by,
                        gate'[i].by \notin mixed'
                 PROVE  gate'[i].direct = gate'[j].direct /\ (~gate'[i].direct => i = j)
      BY DEF OneSort
    <3>1. gate[i + 1].by \notin mixed
      BY <2>4, <2>m
    <3>2. gate[i + 1].direct = gate[j + 1].direct /\ (~gate[i + 1].direct => i + 1 = j + 1)
      BY <2>4, <3>1 DEF AnswersFit, OneSort
    <3> QED BY <2>4, <3>2
  <2> QED BY <2>7, <2>8 DEF AnswersFit
<1>7. ASSUME LinkLost PROVE AnswersFit'
  <2>1. DOMAIN gate' = {}
    BY <1>7 DEF LinkLost
  <2> QED BY <2>1 DEF AnswersFit, OneSort
<1>8. ASSUME LinkBack PROVE AnswersFit'
  BY <1>8, <1>u DEF LinkBack, stackVars
<1> QED BY <1>1, <1>2, <1>3, <1>4, <1>5, <1>6, <1>7, <1>8 DEF QuestNext

\* The answer to a call goes to the register that the call named, whatever its client did while
\* it waited (quest_flag_reply reads the register from the stack again), unless the client has
\* gone to another team since or is in no lobby, or has used the flag register at the same time.
THEOREM AnswersFindRegisters == QuestSpec => AnswerInItsRegister
<1>1. QuestInit => AnswersFit
  BY DEF QuestInit, AnswersFit, OneSort
<1>2. AnswersFit /\ UNCHANGED questVars => AnswersFit'
  BY DEF questVars, AnswersFit, AnswerFits, OneSort
<1>3. QuestShape /\ CallUnderWay /\ AnswersFit /\ [QuestNext]_questVars => AnswersFit'
  BY <1>2, AnswersStep
<1>4. QuestSpec => [](QuestShape /\ AnswersFit)
  BY <1>1, <1>3, SpecQuest, PTL DEF QuestSpec
<1>5. ASSUME QuestShape, AnswersFit, Reply,
             NEW q, q = Head(gate), ~q.direct, ~q.del, q.here, q.by \notin limbo \cup mixed
      PROVE  told'[q.by].wrote = {q.reg}
  <2>1. gate # <<>> /\ gate \in Seq(Asked)
    BY <1>5 DEF Reply, QuestShape
  <2>2. q = gate[1] /\ 1 \in DOMAIN gate /\ q \in Asked
    BY <1>5, <2>1, HeadAndTail, LenProperties
  <2>3. AnswerFits(1)
    BY <1>5, <2>2 DEF AnswersFit
  <2>5. q.by \in locked /\ FlagReg(q_stack[q.by], q.set) = q.reg
    BY <1>5, <2>2, <2>3 DEF AnswerFits
  <2>6. PICK failed \in BOOLEAN : FlagReply(q.by, q, failed)
    BY <1>5, <2>5 DEF Reply, Answer
  <2>7. q.by \in Member
    BY <2>2 DEF Asked
  <2> DEFINE answer == [status |-> IF failed THEN "retval error" ELSE "ok",
                        wrote |-> {FlagReg(q_stack[q.by], q.set)}]
  <2>8. told' = [told EXCEPT ![q.by] = answer]
    BY <2>6, Zenon DEF FlagReply
  <2>9. answer.wrote = {q.reg}
    BY <2>5
  <2> HIDE DEF answer
  <2> QED BY <1>5, <2>7, <2>8, <2>9 DEF QuestShape
<1>6. QuestShape /\ AnswersFit =>
        [Reply =>
           LET q == Head(gate) IN
           ~q.direct /\ ~q.del /\ q.here /\ q.by \notin limbo \cup mixed
             => told'[q.by].wrote = {q.reg}]_questVars
  BY <1>5
<1> QED BY <1>4, <1>6, PTL DEF AnswerInItsRegister

(***************************************************************************)
(* QuestLists: what is chosen at the quest counter.                        *)
(***************************************************************************)

\* A list has a last element that has some property, if any has.
LEMMA LastPlace ==
    ASSUME NEW s, IsList(s), NEW T \in SUBSET DOMAIN s, T # {}
    PROVE  Max(T) \in T
<1> DEFINE n == Len(s)
<1>1. n \in Nat /\ DOMAIN s = 1 .. n
  <2>1. s \in Seq(Range(s))
    BY DEF IsList
  <2> QED BY <2>1, LenProperties
<1> HIDE DEF n
<1>2. T \in SUBSET (0 .. n)
  BY <1>1
<1> QED BY <1>1, <1>2, MaxOfNat

\* quest_map finds nothing, or one of the quests it went through.
LEMMA LastOfIs ==
    ASSUME NEW cats, IsList(cats), \A i \in DOMAIN cats : IsList(cats[i].quests), NEW qid
    PROVE  LastOf(cats, qid) = Nobody \/ LastOf(cats, qid) \in Quests(cats)
<1> DEFINE shelves == {i \in DOMAIN cats : PlacesOf(cats[i], qid) # {}}
           a == Max(shelves)
           last == cats[a]
           b == Max(PlacesOf(last, qid))
<1>1. CASE shelves = {}
  BY <1>1 DEF LastOf
<1>2. CASE shelves # {}
  <2>1. a \in shelves
    <3>1. shelves \in SUBSET DOMAIN cats
      OBVIOUS
    <3> HIDE DEF shelves
    <3> QED BY <1>2, <3>1, LastPlace
  <2>2. a \in DOMAIN cats /\ PlacesOf(last, qid) # {}
    BY <2>1
  <2> HIDE DEF a
  <2>3. IsList(last.quests) /\ PlacesOf(last, qid) \in SUBSET DOMAIN last.quests
    BY <2>2 DEF PlacesOf
  <2>4. b \in PlacesOf(last, qid)
    <3> HIDE DEF last
    <3> QED BY <2>2, <2>3, LastPlace
  <2>5. b \in DOMAIN last.quests
    BY <2>3, <2>4
  <2> HIDE DEF b
  <2>6. last.quests[b] \in Quests(cats)
    BY <2>2, <2>5 DEF Quests, Range
  <2>7. LastOf(cats, qid) = last.quests[b]
    BY <1>2 DEF LastOf, a, b
  <2> QED BY <2>6, <2>7
<1> QED BY <1>1, <1>2

\* What is looked up is nothing, or a quest of a format its version has.
LEMMA QuestIs ==
    ASSUME books \in DOMAIN Collection, NEW v \in Version, NEW lang \in Lang, NEW qid \in QuestIds,
           QPtr(qid, v, lang) # Nobody
    PROVE  QPtr(qid, v, lang).format = "qst" \/ (QPtr(qid, v, lang).format = "bindat" /\ v # "BB")
<1> DEFINE cats == Collection[books][v][lang]
<1>1. QPtr(qid, v, lang) = LastOf(cats, qid)
  BY DEF QPtr, QuestMap
<1>2. IsList(cats) /\ \A i \in DOMAIN cats : IsList(cats[i].quests)
  BY CollectionAssumption
<1>3. \A q \in Quests(cats) : q.format = "qst" \/ (q.format = "bindat" /\ v # "BB")
  BY CollectionAssumption
<1> HIDE DEF cats
<1> QED BY <1>1, <1>2, <1>3, LastOfIs

\* Every member can be sent the quest of an entry.
Ready(e) == e.qid \in QuestIds /\ \A m \in here : Playable(m, e.qid, e.lang)

\* The entries of a category are in a language the ship has, and the ones that were looked up for the
\* members can be sent to all.
LEMMA EntriesAre ==
    ASSUME books \in DOMAIN Collection, NEW c, NEW v \in Version, NEW asked \in Lang, NEW cn \in Nat \ {0},
           Len(qlist[v][asked]) >= cn \/ Len(qlist[v][English]) >= cn, NEW stages, NEW platforms,
           NEW e \in QuestList(c, v, cn, asked, stages, platforms)
    PROVE  e.lang \in Lang /\ (e.first => Ready(e))
<1> DEFINE lang == IF Len(qlist[v][asked]) < cn THEN English ELSE asked
           Shown(l) == {q \in {qlist[v][l][cn].quests[i] :
                            i \in {i \in DOMAIN qlist[v][l][cn].quests : i - 1 \in stages}} :
                        Offered(c, q, platforms)}
           A == {q \in Shown(lang) : \A m \in here : Playable(m, q.qid, lang)}
           B == {q \in Shown(English) : QPtr(q.qid, v, lang) = Nobody}
<1>1. \/ \E q \in A : e = [qid |-> q.qid, lang |-> lang, first |-> TRUE]
      \/ \E q \in B : e = [qid |-> q.qid, lang |-> lang, first |-> FALSE]
  BY DEF QuestList
<1>2. lang \in Lang
  BY PersonsAssumption
<1>3. cn \in DOMAIN qlist[v][lang]
  <2> DEFINE n == Len(qlist[v][lang])
  <2>1. IsList(qlist[v][lang])
    <3> HIDE DEF lang
    <3> QED BY <1>2, CollectionAssumption DEF qlist
  <2>2. n \in Nat /\ DOMAIN qlist[v][lang] = 1 .. n
    <3> HIDE DEF lang
    <3> QED BY <2>1, LenProperties DEF IsList
  <2>3. IsList(qlist[v][asked])
    BY CollectionAssumption DEF qlist
  <2>4. Len(qlist[v][asked]) \in Nat
    BY <2>3, LenProperties DEF IsList
  <2>5. n >= cn
    BY <2>4
  <2> HIDE DEF n, lang
  <2> QED BY <2>2, <2>5
<1>4. ASSUME NEW q \in A PROVE q.qid \in QuestIds /\ \A m \in here : Playable(m, q.qid, lang)
  <2> HIDE DEF lang
  <2>1. PICK i \in DOMAIN qlist[v][lang][cn].quests : q = qlist[v][lang][cn].quests[i]
    OBVIOUS
  <2>2. q \in Quests(qlist[v][lang])
    BY <1>3, <2>1 DEF Quests, Range
  <2>3. q.qid \in QuestIds
    BY <1>2, <2>2 DEF QuestIds, qlist
  <2> QED BY <2>3
<1> HIDE DEF lang, A, B
<1> QED BY <1>1, <1>2, <1>4 DEF Ready

\* A category is one of a list, and names the language of the list.
LEMMA CategoriesAre ==
    ASSUME books \in DOMAIN Collection, NEW c, NEW v \in Version, NEW lang \in Lang,
           NEW e \in Categories(c, v, lang)
    PROVE  e.cn \in Nat \ {0} /\ e.lang \in Lang
<1>1. PICK i \in DOMAIN qlist[v][lang] : e = [cn |-> i, lang |-> lang]
  BY DEF Categories
<1>2. IsList(qlist[v][lang])
  BY CollectionAssumption DEF qlist
<1>3. i \in Nat \ {0}
  BY <1>2, LenProperties DEF IsList
<1> QED BY <1>1, <1>3

Persona == \A c \in Visitor : who[c].version \in Version \cup {"XBOX"} /\ who[c].own \in Lang

LEMMA DcListsIs == DcLists \in Version
BY DEF DcLists, Version

\* Whatever a client's version, its categories are from a list of the ship's.
LEMMA CategoriesFit ==
    ASSUME books \in DOMAIN Collection, Persona, NEW c \in Visitor, NEW lang \in Lang,
           NEW e \in QuestCategories(c, lang)
    PROVE  e.cn \in Nat \ {0} /\ e.lang \in Lang
<1>0. /\ English \in Lang /\ DcLists \in Version
      /\ "GC" \in Version /\ "BB" \in Version /\ "DCV1" \in Version /\ "DCV2" \in Version /\ "PC" \in Version
  BY PersonsAssumption, DcListsIs DEF Version
<1>1. CASE who[c].version \in {"DCV1", "DCV2", "GC"}
  <2>1. e \in DcCategories(c, lang)
    BY <1>1 DEF QuestCategories
  <2> DEFINE l == IF qlist[DcLists][lang] = <<>> THEN English ELSE lang
  <2>2. e \in Categories(c, DcLists, l) /\ l \in Lang
    BY <1>0, <2>1 DEF DcCategories
  <2> HIDE DEF l
  <2> QED BY <1>0, <2>2, CategoriesAre
<1>2. CASE who[c].version = "PC"
  <2>1. e \in PcCategories(c, lang)
    BY <1>2 DEF QuestCategories
  <2>2. PICK v \in Version, l \in Lang : e \in Categories(c, v, l)
    BY <1>0, <2>1 DEF PcCategories
  <2> QED BY <2>2, CategoriesAre
<1>3. CASE who[c].version = "XBOX"
  <2>1. e \in XboxCategories(c, lang)
    BY <1>3 DEF QuestCategories
  <2>2. PICK l \in Lang : e \in Categories(c, "GC", l)
    BY <1>0, <2>1 DEF XboxCategories
  <2> QED BY <1>0, <2>2, CategoriesAre
<1>4. CASE who[c].version = "BB"
  <2>1. e \in BbCategories(c, lang)
    BY <1>4 DEF QuestCategories
  <2>2. PICK l \in Lang : e \in Categories(c, "BB", l)
    BY <1>0, <2>1 DEF BbCategories
  <2> QED BY <1>0, <2>2, CategoriesAre
<1> QED BY <1>1, <1>2, <1>3, <1>4 DEF Persona, Version

\* And so are its quests.
LEMMA ChosenFit ==
    ASSUME books \in DOMAIN Collection, Persona, NEW c \in Visitor, NEW lang \in Lang, NEW cn \in Nat \ {0},
           Len(qlist[ListsOf(c)][lang]) >= cn \/ Len(qlist[ListsOf(c)][English]) >= cn,
           NEW e \in QuestsOf(c, cn, lang)
    PROVE  e.lang \in Lang /\ (e.first => Ready(e))
<1>0. DcLists \in Version /\ who[c].version \in {"DCV1", "DCV2", "PC", "GC", "XBOX", "BB"}
  BY DcListsIs DEF Persona, Version
<1>1. ListsOf(c) \in Version
  BY <1>0 DEF ListsOf, Version
<1>2. \E stages, platforms : e \in QuestList(c, ListsOf(c), cn, lang, stages, platforms)
  <2>1. CASE who[c].version \in {"DCV1", "DCV2"}
    BY <2>1 DEF QuestsOf, ListsOf, DcQuestList
  <2>2. CASE who[c].version = "PC"
    BY <2>2 DEF QuestsOf, ListsOf, PcQuestList
  <2>3. CASE who[c].version \in {"GC", "XBOX"}
    BY <2>3 DEF QuestsOf, ListsOf, GcQuestList, XboxQuestList
  <2>4. CASE who[c].version = "BB"
    BY <2>4 DEF QuestsOf, ListsOf, BbQuestList
  <2> QED BY <1>0, <2>1, <2>2, <2>3, <2>4
<1> QED BY <1>1, <1>2, EntriesAre

\* What a menu shows can still be chosen; and whoever has seen its list since anything that
\* bears on it changed sees what everybody can be sent.
MenuFits(c) ==
    /\ menu[c].shows = "categories" => \A e \in menu[c].entries : e.cn \in Nat \ {0} /\ e.lang \in Lang
    /\ menu[c].shows = "quests" =>
         \A e \in menu[c].entries : e.lang \in Lang /\ (e.first /\ c \in fresh => Ready(e))

CounterInv ==
    /\ books \in DOMAIN Collection /\ who \in Persons /\ q_lang \in [Visitor -> Lang]
    /\ here \subseteq Visitor /\ DOMAIN menu = Visitor
    /\ \A c \in Visitor : MenuFits(c)

LEMMA PersonaIs == ASSUME who \in Persons PROVE Persona
BY PersonsAssumption DEF Persona

LEMMA CounterStart == ListsInit => CounterInv
<1> SUFFICES ASSUME ListsInit PROVE CounterInv
  OBVIOUS
<1>1. /\ books \in DOMAIN Collection /\ who \in Persons /\ q_lang = [c \in Visitor |-> who[c].own]
      /\ here \subseteq Visitor /\ menu = [c \in Visitor |-> NoMenu]
  BY DEF ListsInit
<1>2. q_lang \in [Visitor -> Lang]
  BY <1>1, PersonaIs DEF Persona
<1>3. \A c \in Visitor : MenuFits(c)
  BY <1>1 DEF MenuFits, NoMenu
<1> QED BY <1>1, <1>2, <1>3 DEF CounterInv

\* Another menu for one client, and nobody's list is any newer.
LEMMA OneMenu ==
    ASSUME CounterInv, UNCHANGED <<books, who, q_lang, here>>, NEW c \in Visitor, NEW x,
           menu' = [menu EXCEPT ![c] = x], fresh' \ {c} \subseteq fresh,
           x.shows = "categories" => \A e \in x.entries : e.cn \in Nat \ {0} /\ e.lang \in Lang,
           x.shows = "quests" => \A e \in x.entries : e.lang \in Lang /\ (e.first => Ready(e))
    PROVE  CounterInv'
<1>1. \A e : Ready(e)' <=> Ready(e)
  BY DEF Ready, Playable, QPtr
<1>2. menu'[c] = x /\ \A d \in Visitor : d # c => menu'[d] = menu[d]
  BY DEF CounterInv
<1>3. ASSUME NEW d \in Visitor PROVE MenuFits(d)'
  <2>1. CASE d = c
    BY <1>1, <1>2, <2>1 DEF MenuFits
  <2>2. CASE d # c
    <3>1. d \in fresh' => d \in fresh
      BY <2>2
    <3>2. MenuFits(d) /\ menu'[d] = menu[d]
      BY <1>2, <2>2 DEF CounterInv
    <3> QED BY <1>1, <3>1, <3>2 DEF MenuFits
  <2> QED BY <2>1, <2>2
<1> QED BY <1>3 DEF CounterInv

\* Whatever becomes of the lists and the members, when nobody's list is new any more.
LEMMA NobodySure ==
    ASSUME CounterInv, fresh' = {}, books' \in DOMAIN Collection, who' = who, q_lang' \in [Visitor -> Lang],
           here' \subseteq Visitor, DOMAIN menu' = Visitor,
           \A c \in Visitor : menu'[c] = menu[c] \/ menu'[c] = NoMenu
    PROVE  CounterInv'
<1>1. ASSUME NEW c \in Visitor PROVE MenuFits(c)'
  <2>1. MenuFits(c) /\ (menu'[c] = menu[c] \/ menu'[c] = NoMenu)
    BY DEF CounterInv
  <2> QED BY <2>1 DEF MenuFits, NoMenu
<1> QED BY <1>1 DEF CounterInv

LEMMA CounterKeeps == CounterInv /\ [ListsNext]_listVars => CounterInv'
<1> SUFFICES ASSUME CounterInv, [ListsNext]_listVars PROVE CounterInv'
  OBVIOUS
<1>0. Persona /\ \A c \in Visitor : q_lang[c] \in Lang
  BY PersonaIs DEF CounterInv
<1>1. ASSUME NEW c \in Visitor, OpenCounter(c) PROVE CounterInv'
  <2> DEFINE none == who[c].version = "BB" /\ \A lang \in {q_lang[c], English} : qlist["BB"][lang] = <<>>
             x == [shows |-> IF none THEN "none" ELSE "categories", entries |-> QuestCategories(c, q_lang[c])]
  <2>1. menu' = [menu EXCEPT ![c] = x] /\ UNCHANGED <<books, who, q_lang, here, fresh>>
    BY <1>1 DEF OpenCounter, Shows, ground
  <2>2. \A e \in x.entries : e.cn \in Nat \ {0} /\ e.lang \in Lang
    BY <1>0, CategoriesFit DEF CounterInv
  <2>3. x.shows # "quests"
    OBVIOUS
  <2> HIDE DEF x
  <2> QED BY <2>1, <2>2, <2>3, OneMenu
<1>2. ASSUME NEW c \in Visitor, CloseCounter(c) PROVE CounterInv'
  <2>1. NoMenu.shows = "none"
    BY DEF NoMenu
  <2> QED BY <1>2, <2>1, OneMenu DEF CloseCounter, ground
<1>3. ASSUME NEW c \in Visitor, ChooseCategory(c) PROVE CounterInv'
  <2>1. menu[c].shows = "categories" /\ UNCHANGED <<books, who, q_lang, here>>
    BY <1>3 DEF ChooseCategory, ground
  <2>2. PICK e \in menu[c].entries :
           LET there == \E lang \in {e.lang, English} : Len(qlist[ListsOf(c)][lang]) >= e.cn
           IN /\ IF there THEN Shows(c, "quests", QuestsOf(c, e.cn, e.lang))
                 ELSE menu' = [menu EXCEPT ![c] = NoMenu]
              /\ fresh' = IF there THEN fresh \cup {c} ELSE fresh
    BY <1>3 DEF ChooseCategory
  <2>3. e.cn \in Nat \ {0} /\ e.lang \in Lang
    BY <2>1 DEF CounterInv, MenuFits
  <2> DEFINE there == \E lang \in {e.lang, English} : Len(qlist[ListsOf(c)][lang]) >= e.cn
  <2>4. CASE there
    <3> DEFINE x == [shows |-> "quests", entries |-> QuestsOf(c, e.cn, e.lang)]
    <3>1. menu' = [menu EXCEPT ![c] = x] /\ fresh' = fresh \cup {c}
      BY <2>2, <2>4 DEF Shows
    <3>2. \A q \in x.entries : q.lang \in Lang /\ (q.first => Ready(q))
      BY <1>0, <2>3, <2>4, ChosenFit DEF CounterInv
    <3>3. x.shows # "categories"
      OBVIOUS
    <3>4. fresh' \ {c} \subseteq fresh
      BY <3>1
    <3> HIDE DEF x
    <3> QED BY <2>1, <3>1, <3>2, <3>3, <3>4, OneMenu
  <2>5. CASE ~there
    <3>1. NoMenu.shows = "none"
      BY DEF NoMenu
    <3>2. menu' = [menu EXCEPT ![c] = NoMenu] /\ fresh' = fresh
      BY <2>2, <2>5
    <3> QED BY <2>1, <3>1, <3>2, OneMenu
  <2> QED BY <2>4, <2>5
<1>4. ASSUME NEW c \in Visitor, PickQuest(c) PROVE CounterInv'
  <2>1. NoMenu.shows = "none"
    BY DEF NoMenu
  <2> QED BY <1>4, <2>1, OneMenu DEF PickQuest, ground
<1>5. ASSUME UNCHANGED <<books, who, q_lang, here, menu, fresh>> PROVE CounterInv'
  <2>1. \A e : Ready(e)' <=> Ready(e)
    BY <1>5 DEF Ready, Playable, QPtr
  <2>2. \A c \in Visitor : MenuFits(c)'
    BY <1>5, <2>1 DEF CounterInv, MenuFits
  <2> QED BY <1>5, <2>2 DEF CounterInv
<1>6. ASSUME NEW c \in Visitor, QuestCommand(c) PROVE CounterInv'
  BY <1>5, <1>6 DEF QuestCommand, ground
<1>7. ASSUME NEW c \in Visitor, NEW lang \in Lang, SetQuestLanguage(c, lang) PROVE CounterInv'
  <2>1. /\ q_lang' \in [Visitor -> Lang] /\ fresh' = {}
        /\ UNCHANGED <<books, who, here, menu>>
    BY <1>7 DEF SetQuestLanguage, ground, CounterInv
  <2> QED BY <2>1, NobodySure DEF CounterInv
<1>8. ASSUME NEW c \in Visitor, JoinTeam(c) PROVE CounterInv'
  <2>1. here' = here \cup {c} /\ fresh' = {} /\ UNCHANGED <<books, who, q_lang, menu>>
    BY <1>8 DEF JoinTeam, ground
  <2> QED BY <2>1, NobodySure DEF CounterInv
<1>9. ASSUME NEW c \in Visitor, LeaveTeam(c) PROVE CounterInv'
  <2>1. here' = here \ {c} /\ fresh' = {} /\ menu' = [menu EXCEPT ![c] = NoMenu] /\ UNCHANGED <<books, who, q_lang>>
    BY <1>9 DEF LeaveTeam, ground
  <2>2. DOMAIN menu' = Visitor /\ \A d \in Visitor : menu'[d] = menu[d] \/ menu'[d] = NoMenu
    BY <2>1 DEF CounterInv
  <2> QED BY <2>1, <2>2, NobodySure DEF CounterInv
<1>10. ASSUME NEW c \in Visitor, LoadQuests(c) PROVE CounterInv'
  <2>1. books' \in DOMAIN Collection /\ fresh' = {} /\ UNCHANGED <<who, q_lang, here, menu>>
    BY <1>10 DEF LoadQuests, ground
  <2> QED BY <2>1, NobodySure DEF CounterInv
<1>11. CASE UNCHANGED listVars
  BY <1>5, <1>11 DEF listVars
<1> QED BY <1>1, <1>2, <1>3, <1>4, <1>6, <1>7, <1>8, <1>9, <1>10, <1>11 DEF ListsNext

\* A member that can be sent a quest is sent it, if its file can be read.
LEMMA GetsIt ==
    ASSUME CounterInv, NEW m \in here, NEW qid \in QuestIds, NEW lc \in Lang, Playable(m, qid, lc),
           ~(V1Team /\ who[m].version = "DCV2"),
           \A v \in Version, lang \in Lang : QPtr(qid, v, lang) # Nobody => QPtr(qid, v, lang).readable
    PROVE  Gets(m, qid, lc)
<1> DEFINE v == VersionSent(m)
           tongues == <<q_lang[m], who[m].own, English, lc>>
           there == {i \in 1 .. 4 : QPtr(qid, v, tongues[i]) # Nobody}
           lang == SentIn(m, qid, v, lc)
           file == FileOf(m, qid, v, lang)
<1>1. m \in Visitor /\ books \in DOMAIN Collection /\ who[m].own \in Lang /\ q_lang[m] \in Lang /\ English \in Lang
      /\ who[m].version \in {"DCV1", "DCV2", "PC", "GC", "XBOX", "BB"}
  BY PersonaIs, PersonsAssumption DEF CounterInv, Persona, Version
<1>2. v = AsGamecube(who[m].version)
  BY DEF VersionSent
<1>3. v \in Version
  BY <1>1, <1>2 DEF AsGamecube, Version
<1>a. \A i \in 1 .. 4 : tongues[i] \in Lang
  BY <1>1
<1>4. there # {}
  <2>1. PICK tongue \in {q_lang[m], who[m].own, English, lc} : QPtr(qid, v, tongue) # Nobody
    BY <1>2 DEF Playable
  <2>2. PICK i \in 1 .. 4 : tongues[i] = tongue
    <3>1. tongues[1] = q_lang[m] /\ tongues[2] = who[m].own /\ tongues[3] = English /\ tongues[4] = lc
      OBVIOUS
    <3> HIDE DEF tongues
    <3> QED BY <3>1
  <2> HIDE DEF v, tongues
  <2> QED BY <2>1, <2>2
<1>5. lang = tongues[Min(there)]
  BY <1>4 DEF SentIn
<1>6. Min(there) \in there
  <2>1. there \in SUBSET Nat
    OBVIOUS
  <2> HIDE DEF there
  <2> QED BY <1>4, <2>1, MinOfNat
<1> HIDE DEF tongues, v
<1>7. lang \in Lang /\ QPtr(qid, v, lang) # Nobody
  <2>1. Min(there) \in 1 .. 4 /\ QPtr(qid, v, tongues[Min(there)]) # Nobody
    BY <1>6
  <2> HIDE DEF there, lang
  <2> QED BY <1>5, <1>a, <2>1
<1> HIDE DEF there, lang
<1>8. QPtr(qid, v, lang).format = "qst" \/ (QPtr(qid, v, lang).format = "bindat" /\ v # "BB")
  BY <1>1, <1>3, <1>7, QuestIs
<1>9. file = QPtr(qid, v, lang)
  <2>1. CASE QPtr(qid, v, lang).format = "qst"
    BY <2>1 DEF FileOf, QstFile
  <2>2. CASE QPtr(qid, v, lang).format = "bindat" /\ v # "BB"
    <3>1. v \in {"DCV1", "DCV2", "PC", "GC"}
      BY <1>3, <2>2 DEF Version
    <3>2. v # "GC" => who[m].version = v
      BY <1>2 DEF AsGamecube
    <3>3. CASE v = "DCV1"
      BY <2>2, <3>2, <3>3 DEF FileOf, DcV1File
    <3>4. CASE v = "DCV2"
      BY <2>2, <3>2, <3>4 DEF FileOf, DcV2File
    <3>5. CASE v = "PC"
      BY <2>2, <3>2, <3>5 DEF FileOf, PcFile
    <3>6. CASE v = "GC"
      BY <1>2, <2>2, <3>6 DEF FileOf, GcFile
    <3> QED BY <3>1, <3>3, <3>4, <3>5, <3>6
  <2> QED BY <1>8, <2>1, <2>2
<1>10. file # Nobody /\ file.readable /\ lang # Nobody
  <2> HIDE DEF file
  <2> QED BY <1>3, <1>7, <1>9, PersonsAssumption
<1> QED BY <1>10 DEF Gets, v, lang, file

\* A quest chosen from a list that still holds reaches every member (send_quest, "That has to
\* be there"), whatever the members' versions and languages, and whatever the lists.
THEOREM ListedQuestsArrive == ListsInit /\ [][ListsNext]_listVars => ListedQuestReachesAll
<1>1. ASSUME CounterInv, ListsNext, playing' # playing /\ sure', NEW m \in gone' \ gone,
             ~(V1Team /\ who[m].version = "DCV2")
      PROVE  \E v \in Version, lang \in Lang :
                 QPtr(playing', v, lang) # Nobody /\ ~QPtr(playing', v, lang).readable
  <2>1. PICK c \in Visitor : PickQuest(c) \/ QuestCommand(c)
    BY <1>1 DEF ListsNext, OpenCounter, CloseCounter, ChooseCategory, SetQuestLanguage, JoinTeam, LeaveTeam, LoadQuests
  <2>2. ~QuestCommand(c)
    BY <1>1 DEF QuestCommand, SetupQuest
  <2>3. PICK e \in menu[c].entries : menu[c].shows = "quests" /\ SetupQuest(e.qid, e.lang, e.first /\ c \in fresh)
    BY <2>1, <2>2 DEF PickQuest
  <2>4. /\ playing' = e.qid /\ e.first /\ c \in fresh
        /\ gone' = gone \cup {p \in here : ~Gets(p, e.qid, e.lang)}
    BY <1>1, <2>3 DEF SetupQuest, SendQuest
  <2>5. e.lang \in Lang /\ Ready(e)
    BY <1>1, <2>3, <2>4 DEF CounterInv, MenuFits
  <2>6. m \in here /\ ~Gets(m, e.qid, e.lang)
    BY <1>1, <2>4
  <2>7. e.qid \in QuestIds /\ Playable(m, e.qid, e.lang)
    BY <2>5, <2>6 DEF Ready
  <2> QED BY <1>1, <2>4, <2>5, <2>6, <2>7, GetsIt
<1>2. CounterInv /\ [ListsNext]_listVars =>
        [playing' # playing /\ sure' =>
           \A m \in gone' \ gone :
              \/ V1Team /\ who[m].version = "DCV2"
              \/ \E v \in Version, lang \in Lang :
                     QPtr(playing', v, lang) # Nobody /\ ~QPtr(playing', v, lang).readable]_listVars
  BY <1>1
<1> QED BY <1>2, CounterStart, CounterKeeps, PTL DEF ListedQuestReachesAll

Kinds == {"none", "categories", "quests"}

\* What CounterInv leaves open of the types.
CounterShape ==
    /\ qroom \in QuestTeam /\ qlang \in Lang /\ here # {}
    /\ gone \subseteq Visitor /\ fresh \subseteq Visitor /\ selecting \in BOOLEAN /\ sure \in BOOLEAN
    /\ \A c \in Visitor : menu[c].shows \in Kinds

\* A quest set up is in a language of its entry, for those who are in the team.
LEMMA SetUp ==
    ASSUME CounterInv, CounterShape, NEW qid, NEW lang \in Lang, NEW listed, SetupQuest(qid, lang, listed)
    PROVE  qlang' \in Lang /\ gone' \subseteq Visitor /\ selecting' \in BOOLEAN /\ sure' \in BOOLEAN
BY DEF SetupQuest, SendQuest, CounterInv, CounterShape

\* Another menu for one client, and all show something.
LEMMA OneShown ==
    ASSUME CounterInv, CounterShape, NEW c \in Visitor, NEW x, x.shows \in Kinds, menu' = [menu EXCEPT ![c] = x]
    PROVE  \A d \in Visitor : menu'[d].shows \in Kinds
<1>1. menu'[c] = x /\ \A d \in Visitor : d # c => menu'[d] = menu[d]
  BY DEF CounterInv
<1>2. ASSUME NEW d \in Visitor PROVE menu'[d].shows \in Kinds
  <2>1. CASE d = c
    BY <1>1, <2>1
  <2>2. CASE d # c
    BY <1>1, <2>2 DEF CounterShape
  <2> QED BY <2>1, <2>2
<1> QED BY <1>2

LEMMA CounterShapeKept == CounterInv /\ CounterShape /\ [ListsNext]_listVars => CounterShape'
<1> SUFFICES ASSUME CounterInv, CounterShape, [ListsNext]_listVars PROVE CounterShape'
  OBVIOUS
<1>2. NoMenu.shows \in Kinds
  BY DEF NoMenu, Kinds
<1>3. \A c : Acts(c) => c \in Visitor
  BY DEF Acts, CounterInv
<1>4. ASSUME NEW c \in Visitor, OpenCounter(c) PROVE CounterShape'
  <2>1. \E none \in BOOLEAN :
          /\ menu' = [menu EXCEPT ![c] = [shows |-> IF none THEN "none" ELSE "categories",
                                          entries |-> QuestCategories(c, q_lang[c])]]
          /\ gone' = IF none THEN gone \cup {c} ELSE gone
    BY <1>4 DEF OpenCounter, Shows
  <2>2. PICK none \in BOOLEAN :
          /\ menu' = [menu EXCEPT ![c] = [shows |-> IF none THEN "none" ELSE "categories",
                                          entries |-> QuestCategories(c, q_lang[c])]]
          /\ gone' = IF none THEN gone \cup {c} ELSE gone
    BY <2>1
  <2> DEFINE x == [shows |-> IF none THEN "none" ELSE "categories", entries |-> QuestCategories(c, q_lang[c])]
  <2>3. x.shows \in Kinds /\ menu' = [menu EXCEPT ![c] = x]
    BY <2>2 DEF Kinds
  <2> HIDE DEF x
  <2>4. \A d \in Visitor : menu'[d].shows \in Kinds
    BY OneShown, <2>3
  <2> QED BY <1>4, <2>2, <2>4 DEF OpenCounter, ground, CounterShape
<1>5. ASSUME NEW c \in Visitor, CloseCounter(c) PROVE CounterShape'
  <2>1. \A d \in Visitor : menu'[d].shows \in Kinds
    BY OneShown, <1>2, <1>5 DEF CloseCounter
  <2> QED BY <1>5, <2>1 DEF CloseCounter, ground, CounterShape
<1>6. ASSUME NEW c \in Visitor, ChooseCategory(c) PROVE CounterShape'
  <2>1. PICK entries : \E there \in BOOLEAN :
          /\ menu' = [menu EXCEPT ![c] = IF there THEN [shows |-> "quests", entries |-> entries] ELSE NoMenu]
          /\ fresh' \subseteq fresh \cup {c} /\ gone' \subseteq gone \cup {c}
    BY <1>6 DEF ChooseCategory, Shows
  <2>2. PICK there \in BOOLEAN :
          /\ menu' = [menu EXCEPT ![c] = IF there THEN [shows |-> "quests", entries |-> entries] ELSE NoMenu]
          /\ fresh' \subseteq fresh \cup {c} /\ gone' \subseteq gone \cup {c}
    BY <2>1
  <2> DEFINE x == IF there THEN [shows |-> "quests", entries |-> entries] ELSE NoMenu
  <2>3. x.shows \in Kinds /\ menu' = [menu EXCEPT ![c] = x]
    BY <1>2, <2>2 DEF Kinds
  <2> HIDE DEF x
  <2>4. \A d \in Visitor : menu'[d].shows \in Kinds
    BY OneShown, <2>3
  <2> QED BY <1>6, <2>2, <2>4 DEF ChooseCategory, ground, CounterShape
<1>7. ASSUME NEW c \in Visitor, PickQuest(c) PROVE CounterShape'
  <2>1. PICK e \in menu[c].entries : menu[c].shows = "quests" /\ SetupQuest(e.qid, e.lang, e.first /\ c \in fresh)
    BY <1>7 DEF PickQuest
  <2>2. e.lang \in Lang
    BY <2>1 DEF CounterInv, MenuFits
  <2>3. qlang' \in Lang /\ gone' \subseteq Visitor /\ selecting' \in BOOLEAN /\ sure' \in BOOLEAN
    BY <2>1, <2>2, SetUp
  <2>4. \A d \in Visitor : menu'[d].shows \in Kinds
    BY OneShown, <1>2, <1>7 DEF PickQuest
  <2> QED BY <1>7, <2>3, <2>4 DEF PickQuest, ground, CounterShape
<1>8. ASSUME NEW c \in Visitor, QuestCommand(c) PROVE CounterShape'
  <2>1. PICK qid : SetupQuest(qid, English, FALSE)
    BY <1>8 DEF QuestCommand
  <2>2. qlang' \in Lang /\ gone' \subseteq Visitor /\ selecting' \in BOOLEAN /\ sure' \in BOOLEAN
    BY <2>1, SetUp, PersonsAssumption
  <2> QED BY <1>8, <2>2 DEF QuestCommand, ground, CounterShape
<1>9. ASSUME NEW c \in Visitor, NEW lang \in Lang, SetQuestLanguage(c, lang) PROVE CounterShape'
  BY <1>9 DEF SetQuestLanguage, ground, CounterShape
<1>10. ASSUME NEW c \in Visitor, JoinTeam(c) PROVE CounterShape'
  <2>1. gone' \subseteq gone \cup {c}
    BY <1>10 DEF JoinTeam, SendQuestOne
  <2> QED BY <1>10, <2>1 DEF JoinTeam, ground, CounterShape
<1>11. ASSUME NEW c \in Visitor, LeaveTeam(c) PROVE CounterShape'
  <2>1. \A d \in Visitor : menu'[d].shows \in Kinds
    BY OneShown, <1>2, <1>11 DEF LeaveTeam
  <2>2. here' # {}
    BY <1>11 DEF LeaveTeam
  <2> QED BY <1>11, <2>1, <2>2 DEF LeaveTeam, ground, CounterShape
<1>12. ASSUME NEW c \in Visitor, LoadQuests(c) PROVE CounterShape'
  BY <1>12 DEF LoadQuests, ground, CounterShape
<1>13. CASE UNCHANGED listVars
  BY <1>13 DEF listVars, CounterShape
<1> QED
  BY <1>4, <1>5, <1>6, <1>7, <1>8, <1>9, <1>10, <1>11, <1>12, <1>13 DEF ListsNext

\* The type invariant of the quest counter: the team is never without a member, a menu shows
\* one of three things, and a quest is in a language the ship has.
THEOREM CounterFits == ListsInit /\ [][ListsNext]_listVars => []ListsTypeOK
<1>1. ListsInit => CounterShape
  <2> SUFFICES ASSUME ListsInit PROVE CounterShape
    OBVIOUS
  <2>1. menu = [c \in Visitor |-> NoMenu] /\ NoMenu.shows \in Kinds
    BY DEF ListsInit, NoMenu, Kinds
  <2>2. \A c \in Visitor : menu[c].shows \in Kinds
    BY <2>1
  <2>3. English \in Lang
    BY PersonsAssumption
  <2> QED BY <2>2, <2>3 DEF ListsInit, CounterShape
<1>2. CounterInv /\ CounterShape => ListsTypeOK
  BY DEF CounterInv, CounterShape, ListsTypeOK, Kinds
<1> QED BY <1>1, <1>2, CounterStart, CounterKeeps, CounterShapeKept, PTL

(***************************************************************************)
(* All of the ship's parts that MCShip.tla runs.                           *)
(***************************************************************************)

\* In whatever part a ship moves, the stack of calls, the quest counter and talk keep their
\* types: the invariant the composed run checks.
THEOREM ShipFits == ShipSpec => []ShipTypesOK
<1>1. ShipSpec => ListsInit /\ [][ListsNext]_listVars
  <2>1. ShipInit => ListsInit
    BY DEF ShipInit
  <2>2. [ShipNext]_shipRunVars => [ListsNext]_listVars
    BY DEF ShipNext, shipRunVars
  <2> QED BY <2>1, <2>2, PTL DEF ShipSpec
<1>2. ShipSpec => TalkSpec
  <2>1. ShipInit => TalkInit
    BY DEF ShipInit
  <2>2. [ShipNext]_shipRunVars => [TalkNext]_talkVars
    BY DEF ShipNext, shipRunVars
  <2> QED BY <2>1, <2>2, PTL DEF ShipSpec, TalkSpec
<1>3. ShipSpec => []QuestTypeOK
  <2>1. ShipInit => QuestInit
    BY DEF ShipInit
  <2>2. [ShipNext]_shipRunVars => [QuestNext]_questVars
    BY DEF ShipNext, shipRunVars
  <2> QED BY <2>1, <2>2, QuestSteps, PTL DEF ShipSpec
<1> QED BY <1>1, <1>2, <1>3, CounterFits, TalkFits, PTL DEF ShipTypesOK

=============================================================================
