-------------------------------- MODULE Talk --------------------------------
(***************************************************************************)
(* What players say to each other, and who is spared it: chat, symbol      *)
(* chat, word select, guild cards and mail, against /ignore, the           *)
(* blacklist, /stfu of a GM and the guild card protection.                 *)
(*                                                                         *)
(* Some of the talkers are in one lobby of this ship, the others are on    *)
(* another ship, which runs the same code: only mail reaches them, through *)
(* the shipgate (post).  heard is what the last step let somebody hear.    *)
(***************************************************************************)
EXTENDS Naturals, Sequences, FiniteSets

CONSTANTS Talker,
          FarTalker,        \* the ones on the other ship
          Clienteles,       \* what they may play: their platforms, and who has a trial
                            \* edition of the game (CLIENT_FLAG_IS_NTE)
          NoOne,
          IgnoreSlot,       \* 0 .. CLIENT_IGNORE_LIST_SIZE - 1
          MaxBlacklist,     \* entries of a blacklist (28 or 30)
          MaxPost           \* bound on the mail on its way

ASSUME TalkConstants ==
    /\ FarTalker \subseteq Talker
    /\ Clienteles \subseteq [platform : [Talker -> {"dc", "pc", "gc", "bb"}], trial : SUBSET Talker]

Near == Talker \ FarTalker
SameShip(a, b) == (a \in FarTalker) = (b \in FarTalker)

VARIABLES
    clientele,      \* the one of Clienteles that is here
    stfu,           \* CLIENT_FLAG_STFU
    protected,      \* CLIENT_FLAG_GC_PROTECT: has yet to log in
    ignore_list,
    blacklist,      \* kept by the game itself
    autoreply_on,
    autoreply,      \* the answer that was set last is kept when it is switched off
    post,           \* mail on its way through the shipgate
    heard

talkVars == <<clientele, stfu, protected, ignore_list, blacklist, autoreply_on, autoreply, post, heard>>
listsOf == <<ignore_list, blacklist>>
answers == <<autoreply_on, autoreply>>
flagsOf == <<clientele, stfu, protected>>

PlatformOf == clientele.platform
Trial(platform) == {c \in clientele.trial : PlatformOf[c] = platform}

HasIgnored(c, s) == \E i \in IgnoreSlot : ignore_list[c][i] = s
HasBlacklisted(c, s) == PlatformOf[c] # "dc" /\ s \in blacklist[c]

Said(to, from, via) == [to |-> to, from |-> from, via |-> via, silent |-> from \in stfu]

-----------------------------------------------------------------------------
(* In the lobby.                                                           *)

\* A silenced client gets to see what it says, and nobody else does.
LobbyChat(s) ==
    IF s \in stfu THEN {Said(s, s, "chat")}
    ELSE {Said(c, s, "chat") : c \in {c \in Near : ~HasIgnored(c, s)}}
LobbyBbChat(s) ==
    IF s \in stfu THEN {Said(s, s, "chat")}
    ELSE {Said(c, s, "chat") : c \in {c \in Near : ~HasIgnored(c, s)}}

MayTalk(s) == s \in Near \ protected
MaySign(s) == MayTalk(s) /\ s \notin stfu \cup Trial("dc")

ProcessChat(s) ==
    /\ MayTalk(s)
    /\ heard' = IF PlatformOf[s] = "bb" THEN LobbyBbChat(s) ELSE LobbyChat(s)
    /\ UNCHANGED <<flagsOf, listsOf, answers, post>>

\* A symbol chat is a packet like any other that is sent on, but for the ignore lists.  The
\* Dreamcast trial edition has no such packet, and is sent none.
SendLobbyPacket_All(s, via, igcheck) == {Said(c, s, via) : c \in Near \ (Trial("dc") \cup {s})}
SendLobbyPacket(s, via, igcheck) ==
    {Said(c, s, via) : c \in {c \in Near \ (Trial("dc") \cup {s}) : ~(igcheck /\ HasIgnored(c, s))}}

SymbolChat(s) ==
    /\ MaySign(s)
    /\ heard' = SendLobbyPacket(s, "symbol", TRUE)
    /\ UNCHANGED <<flagsOf, listsOf, answers, post>>

\* Word select: other platforms get the words their own list has.  foreign is the set of
\* platforms without one of the words.
ToPlatforms(s, platforms) ==
    {Said(c, s, "words") : c \in {c \in Near \ {s} : PlatformOf[c] \in platforms
                                                      /\ ~HasIgnored(c, s)}}
WordSelectDc(s, foreign) == ToPlatforms(s, {"dc"} \cup ({"pc", "gc", "bb"} \ foreign))
WordSelectPc(s, foreign) == ToPlatforms(s, {"pc"} \cup ({"dc", "gc", "bb"} \ foreign))
WordSelectGc(s, foreign) == ToPlatforms(s, {"gc", "bb"} \cup ({"dc", "pc"} \ foreign))

WordSelect(s) ==
    /\ MaySign(s)
    /\ \E foreign \in {{}, {"pc", "gc", "bb"} \ {PlatformOf[s]}} :
        heard' = CASE PlatformOf[s] = "dc" -> WordSelectDc(s, foreign)
                   [] PlatformOf[s] = "pc" -> WordSelectPc(s, foreign)
                   [] PlatformOf[s] \in {"gc", "bb"} -> WordSelectGc(s, foreign)
    /\ UNCHANGED <<flagsOf, listsOf, answers, post>>

\* A guild card is handed over in every platform's own form; a silenced or protected
\* client may still do it.  The PC trial edition has no guild cards.
Card(s, d) == IF d \in Trial("pc") THEN {} ELSE {Said(d, s, "card")}
DcCard(s, d) == Card(s, d)
PcCard(s, d) == Card(s, d)
GcCard(s, d) == Card(s, d)
BbCard(s, d) == Card(s, d)
GiveCard(s, d) ==
    /\ {s, d} \subseteq Near /\ s # d /\ s \notin Trial("dc")
    /\ heard' = CASE HasIgnored(d, s) -> {}
                  [] ~HasIgnored(d, s) /\ PlatformOf[s] = "dc" -> DcCard(s, d)
                  [] ~HasIgnored(d, s) /\ PlatformOf[s] = "pc" -> PcCard(s, d)
                  [] ~HasIgnored(d, s) /\ PlatformOf[s] = "gc" -> GcCard(s, d)
                  [] ~HasIgnored(d, s) /\ PlatformOf[s] = "bb" -> BbCard(s, d)
    /\ UNCHANGED <<flagsOf, listsOf, answers, post>>

\* The packets of the Dreamcast trial edition have a handler of their own.  What it does not
\* know, symbols and words and cards among it, goes on to the others of that edition, or to
\* the one it is for, and nobody's lists or flags are asked.
DcNteBroadcast(s) ==
    /\ s \in Near \cap Trial("dc")
    /\ heard' = {Said(c, s, "nte") : c \in (Near \cap Trial("dc")) \ {s}}
    /\ UNCHANGED <<flagsOf, listsOf, answers, post>>
DcNteForward(s, d) ==
    /\ s \in Near \cap Trial("dc") /\ d \in Near \ {s}
    /\ heard' = {Said(d, s, "nte")}
    /\ UNCHANGED <<flagsOf, listsOf, answers, post>>

-----------------------------------------------------------------------------
(* Mail.                                                                   *)

Unwelcome(d, s) == HasBlacklisted(d, s) \/ HasIgnored(d, s)

\* The answer goes straight to the sender: it is no mail that could be answered again.
MailAutoreply(s, d) == {[Said(s, d, "answer") EXCEPT !.silent = FALSE]}

LocalMail(s, d) ==
    IF Unwelcome(d, s) THEN {}
    ELSE {Said(d, s, "mail")} \cup (IF d \in autoreply_on THEN MailAutoreply(s, d) ELSE {})

\* Every platform has its own handler of mail; they do the same.
ProcessMail(s, d) ==
    /\ s \notin protected \cup stfu /\ s # d
    /\ IF SameShip(s, d)
       THEN heard' = LocalMail(s, d) /\ post' = post
       ELSE /\ Len(post) < MaxPost
            /\ post' = Append(post, [from |-> s, to |-> d, answer |-> FALSE])
            /\ heard' = {}
    /\ UNCHANGED <<flagsOf, listsOf, answers>>

\* A mail of the shipgate.  That of a Dreamcast or Gamecube asks whether the answer is on,
\* those of the others only whether there is one; and the answer is mail like any other.
DcAnswers(d) == d \in autoreply_on
PcAnswers(d) == d \in autoreply
BbAnswers(d) == d \in autoreply
ShipAnswers(d, s) ==
    CASE PlatformOf[s] \in {"dc", "gc"} -> DcAnswers(d)
      [] PlatformOf[s] = "pc" -> PcAnswers(d)
      [] PlatformOf[s] = "bb" -> BbAnswers(d)

ForwardAnswer(s, d) ==
    IF PlatformOf[d] # "dc" THEN <<[from |-> d, to |-> s, answer |-> TRUE]>> ELSE <<>>

GateMail ==
    /\ post # <<>>
    /\ LET m == Head(post)
           said == [Said(m.to, m.from, IF m.answer THEN "answer" ELSE "mail")
                       EXCEPT !.silent = FALSE]
       IN IF Unwelcome(m.to, m.from)
          THEN post' = Tail(post) /\ heard' = {}
          ELSE /\ heard' = {said}
               /\ post' = Tail(post) \o (IF ShipAnswers(m.to, m.from)
                                         THEN ForwardAnswer(m.from, m.to) ELSE <<>>)
    /\ UNCHANGED <<flagsOf, listsOf, answers>>

\* The shipgate, or the other ship, is gone.
MailLost ==
    /\ post # <<>> /\ post' = Tail(post) /\ heard' = {}
    /\ UNCHANGED <<flagsOf, listsOf, answers>>

SetAutoreply(c) ==
    /\ autoreply' = autoreply \cup {c}
    /\ autoreply_on' = IF PlatformOf[c] # "dc" THEN autoreply_on \cup {c} ELSE autoreply_on
    /\ heard' = {}
    /\ UNCHANGED <<flagsOf, listsOf, post>>

DisableAutoreply(c) ==
    /\ autoreply_on' = autoreply_on \ {c}
    /\ heard' = {}
    /\ UNCHANGED <<flagsOf, listsOf, autoreply, post>>

-----------------------------------------------------------------------------
(* Being spared.                                                           *)

\* /ignore takes the first free entry, also when that client is in the list already.
Ignore(c, s) ==
    /\ {c, s} \subseteq Near /\ c \notin protected
    /\ \E i \in IgnoreSlot :
        /\ ignore_list[c][i] = NoOne
        /\ \A j \in IgnoreSlot : j < i => ignore_list[c][j] # NoOne
        /\ ignore_list' = [ignore_list EXCEPT ![c][i] = s]
    /\ heard' = {}
    /\ UNCHANGED <<flagsOf, blacklist, answers, post>>

Unignore(c, i) ==
    /\ c \in Near \ protected
    /\ ignore_list' = [ignore_list EXCEPT ![c][i] = NoOne]
    /\ heard' = {}
    /\ UNCHANGED <<flagsOf, blacklist, answers, post>>

UpdateBlacklist(c, s) ==
    /\ PlatformOf[c] # "dc" /\ c # s
    /\ s \in blacklist[c] \/ Cardinality(blacklist[c]) < MaxBlacklist
    /\ blacklist' = [blacklist EXCEPT ![c] = IF s \in @ THEN @ \ {s} ELSE @ \cup {s}]
    /\ heard' = {}
    /\ UNCHANGED <<flagsOf, ignore_list, answers, post>>

Silence(c) ==
    /\ c \in Near /\ stfu' = stfu \cup {c} /\ heard' = {}
    /\ UNCHANGED <<clientele, protected, listsOf, answers, post>>
Unsilence(c) ==
    /\ stfu' = stfu \ {c} /\ heard' = {}
    /\ UNCHANGED <<clientele, protected, listsOf, answers, post>>

\* The client logs in, and is no longer protected.
LoggedIn(c) ==
    /\ c \in protected /\ protected' = protected \ {c} /\ heard' = {}
    /\ UNCHANGED <<clientele, stfu, listsOf, answers, post>>

TalkInit ==
    /\ clientele \in Clienteles /\ stfu = {} /\ protected \in SUBSET Near
    /\ ignore_list = [c \in Talker |-> [i \in IgnoreSlot |-> NoOne]]
    /\ blacklist = [c \in Talker |-> {}]
    /\ autoreply_on = {} /\ autoreply = {} /\ post = <<>> /\ heard = {}

TalkNext ==
    \/ GateMail \/ MailLost
    \/ \E c \in Talker :
        \/ ProcessChat(c) \/ SymbolChat(c) \/ WordSelect(c) \/ DcNteBroadcast(c)
        \/ SetAutoreply(c) \/ DisableAutoreply(c)
        \/ Silence(c) \/ Unsilence(c) \/ LoggedIn(c)
        \/ \E i \in IgnoreSlot : Unignore(c, i)
        \/ \E d \in Talker :
            \/ ProcessMail(c, d) \/ GiveCard(c, d) \/ DcNteForward(c, d)
            \/ Ignore(c, d) \/ UpdateBlacklist(c, d)

TalkSpec == TalkInit /\ [][TalkNext]_talkVars

-----------------------------------------------------------------------------
(* Properties.                                                             *)

TalkTypeOK ==
    /\ clientele \in Clienteles
    /\ stfu \subseteq Near /\ protected \subseteq Near
    /\ ignore_list \in [Talker -> [IgnoreSlot -> Talker \cup {NoOne}]]
    /\ blacklist \in [Talker -> SUBSET Talker]
    /\ autoreply_on \subseteq autoreply /\ autoreply \subseteq Talker
    /\ \A i \in DOMAIN post : ~SameShip(post[i].from, post[i].to)
    /\ \A h \in heard : {h.to, h.from} \subseteq Talker

\* Whatever way a player's words take, nobody hears a player it ignores, mail of one on its
\* blacklist, or one that is silenced when it says it; but the answer a ship gives of
\* itself to a mail of its own goes round both, the guild card round the second, and all that
\* the handler of the Dreamcast trial edition's own packets sends on (subcmd-dcnte.c) round
\* everything.  (client_has_ignored and CLIENT_FLAG_STFU, asked on every other route by itself.)
HeardIsWelcome ==
    \A h \in heard : h.to # h.from /\ h.via # "nte" =>
        /\ HasIgnored(h.to, h.from) => h.via = "answer"
        /\ HasBlacklisted(h.to, h.from) => h.via # "mail"
        /\ h.silent => h.via = "card"
=============================================================================
