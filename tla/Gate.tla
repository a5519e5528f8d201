-------------------------------- MODULE Gate --------------------------------
(***************************************************************************)
(* The connection to the shipgate, and what the shipgate knows of the      *)
(* ship's players (shipgate.c).                                            *)
(*                                                                         *)
(* The ship's thread connects, greets, reads what the shipgate sends, and  *)
(* connects again when the connection is lost.  The threads of the blocks  *)
(* write to the same connection whenever a player comes, goes or asks for  *)
(* something; what is written while there is no connection is dropped      *)
(* without a word.  After each greeting the ship's thread therefore tells  *)
(* the shipgate who is there, block by block, while they come and go.      *)
(*                                                                         *)
(* The shipgate is no part of the ship: coming, known and the actions that *)
(* begin with Gate are what the ship makes of it.                          *)
(***************************************************************************)
EXTENDS Naturals, Sequences, SequencesExt, FiniteSets

CONSTANTS Player,           \* each with a guild card of its own
          Blue,             \* those who play Blue Burst
          BlockNo,          \* the blocks, counted from 1
          MaxComing         \* how many packets may be on their way

ASSUME GateAssumption ==
    Blue \subseteq Player /\ BlockNo \subseteq Nat \ {0} /\ MaxComing \in Nat

CharacterState == {"none", "asked", "come", "denied", "missed"}
Question == {"save", "load", "ban", "befriend", "unfriend", "login", "friends", "options"}

VARIABLES
    sg,         \* the connection: "none", "open", "keyed" (has_key), or "cut": gone,
                \* and the ship's thread has not noticed
    run,        \* FALSE once the shipgate has refused the ship
    here,       \* block_t.clients
    named,      \* the clients whose character is known: they have a name
    busy,       \* those whose mutex their block's thread holds
    going,      \* CLIENT_FLAG_DISCONNECTED
    guarded,    \* CLIENT_FLAG_GC_PROTECT
    ready,      \* the Blue Burst players whose options have come
    character,  \* those players' characters: "asked", "come", "denied" (an error came), or
                \* "missed": not asked for, or the answer was lost with the connection
    waits,      \* what each client has asked by command and not been answered
    listing,    \* send_clients: the blocks that are left, the block that is being
                \* listed (or 0), its clients left to look at, and those found
    coming,     \* what the shipgate has sent
    known       \* by block: those the shipgate knows to be there

gateVars == <<sg, run, here, named, busy, going, guarded, ready, character, waits, listing, coming, known>>
linkVars == <<sg, run, listing>>
playerVars == <<here, named, busy, going, guarded, ready, character, waits>>

NoListing == [left |-> {}, at |-> 0, look |-> {}, found |-> {}, locked |-> FALSE]
NobodyOn == [b \in BlockNo |-> {}]
ShipIdle == run /\ listing = NoListing

HasRoom == Len(coming) < MaxComing
RoomToCome == Len(coming) <= MaxComing          \* for one who comes, and asks two
RoomForOptions == Len(coming) <= MaxComing + 1  \* questions one after the other
Note(kind, c, b, ok) == [kind |-> kind, who |-> c, block |-> b, ok |-> ok]

\* What a question says of who asks comes back in its answer: some name the block, some
\* only the guild card (block 0 here).
CharRequest(c) == Note("load", c, 0, TRUE)
CharData(c) == Note("save", c, 0, TRUE)
BanRequest(c) == Note("ban", c, 0, TRUE)
FriendAdd(c) == Note("befriend", c, 0, TRUE)
FriendDel(c) == Note("unfriend", c, 0, TRUE)
UserLogin(c, b) == Note("login", c, b, TRUE)
FriendList(c, b) == Note("friends", c, b, TRUE)
OptionRequest(c, b) == Note("options", c, b, TRUE)

\* send_raw: without a key, or a connection, nothing is written and no error returned.
Written_AfterList == sg = "keyed" /\ listing = NoListing
Written == sg = "keyed"

-----------------------------------------------------------------------------
(* The ship's thread and the connection.                                   *)

\* shipgate_reconnect: whatever was read or was to be written is forgotten.
Reconnect ==
    /\ run /\ sg = "none"
    /\ sg' = "open"
    /\ coming' = <<Note("welcome", 0, 0, TRUE)>>
    /\ known' = NobodyOn
    /\ UNCHANGED <<run, listing, playerVars>>

\* The connection is lost; what the clients asked will not be answered.
GateLost ==
    /\ sg \in {"open", "keyed"}
    /\ sg' = "cut" /\ coming' = <<>>
    /\ known' = NobodyOn
    /\ waits' = [c \in Player |-> {}]
    /\ character' = [c \in Player |-> IF character[c] = "asked" THEN "missed" ELSE character[c]]
    /\ UNCHANGED <<run, listing, here, named, busy, going, guarded, ready>>

NoticeLost ==
    /\ ShipIdle /\ sg = "cut"
    /\ sg' = "none"
    /\ UNCHANGED <<run, listing, coming, known, playerVars>>

Next1 == Head(coming)
Take1(kind) == ShipIdle /\ sg # "cut" /\ coming # <<>> /\ Next1.kind = kind

\* handle_login: the ship answers the shipgate's greeting with what it is; the shipgate
\* takes it or not.
Welcome ==
    /\ Take1("welcome") /\ sg = "open"
    /\ \E ok \in BOOLEAN : coming' = <<Note("taken", 0, 0, ok)>>
    /\ UNCHANGED <<sg, run, listing, known, playerVars>>

\* handle_login_reply: from here on the blocks' threads get through; then the list.
LoginReply ==
    /\ Take1("taken") /\ Next1.ok
    /\ sg' = "keyed"
    /\ listing' = [NoListing EXCEPT !.left = BlockNo]
    /\ coming' = Tail(coming)
    /\ UNCHANGED <<run, known, playerVars>>

\* Any error at all ends the ship.
LoginRefused ==
    /\ Take1("taken") /\ ~Next1.ok
    /\ run' = FALSE /\ sg' = "none" /\ coming' = <<>> /\ known' = NobodyOn
    /\ UNCHANGED <<listing, playerVars>>

\* shipgate_send_clients: one block after the other, under its lock, and the packet
\* after that.
ListBlock ==
    LET b == Min(listing.left) IN
    /\ run /\ listing.at = 0 /\ listing.left # {}
    /\ listing' = [left |-> listing.left \ {b}, at |-> b,
                   look |-> here[b], found |-> {}, locked |-> TRUE]
    /\ UNCHANGED <<sg, run, coming, known, playerVars>>

\* Only those who have a name, each under its own mutex.
Listed(c) == c \in named
ListClient(c) ==
    /\ listing.locked /\ c \in listing.look /\ c \notin busy
    /\ listing' = [listing EXCEPT !.look = @ \ {c},
                                  !.found = IF Listed(c) THEN @ \cup {c} ELSE @]
    /\ UNCHANGED <<sg, run, coming, known, playerVars>>

ListUnlocked ==
    /\ listing.locked /\ listing.look = {}
    /\ listing' = [listing EXCEPT !.locked = FALSE]
    /\ UNCHANGED <<sg, run, coming, known, playerVars>>

SendList ==
    /\ listing.at # 0 /\ ~listing.locked
    /\ known' = IF sg = "keyed" THEN [known EXCEPT ![listing.at] = @ \cup listing.found] ELSE known
    /\ listing' = [NoListing EXCEPT !.left = listing.left]
    /\ UNCHANGED <<sg, run, coming, playerVars>>

-----------------------------------------------------------------------------
(* The blocks' threads.                                                    *)

BlockFree(b) == \A c \in here[b] : c \notin busy
Listening(b) == ~(listing.at = b /\ listing.locked)     \* the lock of b can be taken for writing

\* bb_process_login: a Blue Burst client's character and options are asked for as it comes,
\* one after the other, and its mutex is held meanwhile.
BlueRequests_OptionsFirst(c, b) == <<OptionRequest(c, b), CharRequest(c)>>
BlueRequests(c, b) == <<CharRequest(c), OptionRequest(c, b)>>

Connect(c, b) ==
    /\ run /\ BlockFree(b) /\ Listening(b)
    /\ \A a \in BlockNo : c \notin here[a]
    /\ here' = [here EXCEPT ![b] = @ \cup {c}]
    /\ busy' = busy \cup ({c} \cap Blue)
    /\ IF c \in Blue /\ Written
       THEN /\ RoomToCome
            /\ \E ok \in BOOLEAN :
                  coming' = Append(coming, [BlueRequests(c, b)[1] EXCEPT !.ok = ok])
            /\ character' = [character EXCEPT ![c] = "asked"]
       ELSE /\ character' = [character EXCEPT ![c] = IF c \in Blue THEN "missed" ELSE @]
            /\ UNCHANGED coming
    /\ UNCHANGED <<linkVars, known, named, going, guarded, ready, waits>>

RequestOptions(c, b) ==
    /\ c \in busy \ named /\ c \in here[b]
    /\ busy' = busy \ {c}
    /\ IF Written
       THEN RoomForOptions /\ coming' = Append(coming, BlueRequests(c, b)[2])
       ELSE UNCHANGED coming
    /\ UNCHANGED <<linkVars, known, here, named, going, guarded, ready, character, waits>>

\* dc_process_char, bb_process_char: the name is there first, the shipgate is told last,
\* and the client is locked meanwhile.
ProcessChar(c, b) ==
    /\ run /\ c \in here[b] \ (named \cup going) /\ BlockFree(b)
    /\ c \in Blue => c \in ready
    /\ named' = named \cup {c} /\ busy' = busy \cup {c}
    /\ UNCHANGED <<linkVars, here, going, guarded, ready, character, waits, coming, known>>

\* The shipgate may refuse a player, or have the guild card's owner asked to log in.
BlockLogin(c, b) ==
    /\ c \in busy \cap named /\ c \in here[b]
    /\ busy' = busy \ {c}
    /\ IF Written
       THEN \/ known' = [known EXCEPT ![b] = @ \cup {c}] /\ UNCHANGED coming
            \/ /\ HasRoom /\ \E k \in {"refused", "guard"} :
                  /\ coming' = Append(coming, Note(k, c, b, FALSE))
                  /\ known' = IF k = "guard" THEN [known EXCEPT ![b] = @ \cup {c}] ELSE known
       ELSE UNCHANGED <<coming, known>>
    /\ UNCHANGED <<linkVars, here, named, going, guarded, ready, character, waits>>

\* What a player may ask, by the commands: /login and /tlogin at any time, the others not
\* before a guild card that has an owner is logged in.  /save and /restore are not for
\* Blue Burst, which keeps its character otherwise.
LoginCommand(c, b) == {UserLogin(c, b)}
TokenLogin(c, b) == {UserLogin(c, b)}
FriendCommands(c) == {FriendAdd(c), FriendDel(c)}
Friends(c, b) == {FriendList(c, b)}
SaveOrRestore(c) == IF c \in Blue THEN {} ELSE {CharData(c), CharRequest(c)}

Questions(c, b) ==
    LoginCommand(c, b) \cup TokenLogin(c, b) \cup
    IF c \in guarded THEN {} ELSE FriendCommands(c) \cup Friends(c, b) \cup SaveOrRestore(c)

AtHand(c, b) ==
    /\ run /\ c \in here[b] \cap named /\ c \notin busy \cup going /\ BlockFree(b)

\* What cannot be written is taken for sent.  Of the answers only those to a login and a ban
\* do anything more if they are good or bad than word what they tell the player.
Outcomes(q) == IF q.kind \in {"login", "ban"} THEN BOOLEAN ELSE {TRUE}
Sent(c, q) ==
    IF Written
    THEN /\ HasRoom /\ q.kind \notin waits[c]
         /\ \E ok \in Outcomes(q) : coming' = Append(coming, [q EXCEPT !.ok = ok])
         /\ waits' = [waits EXCEPT ![c] = @ \cup {q.kind}]
    ELSE UNCHANGED <<coming, waits>>

Ask(c, b) ==
    /\ AtHand(c, b) /\ \E q \in Questions(c, b) : Sent(c, q)
    /\ UNCHANGED <<linkVars, known, here, named, busy, going, guarded, ready, character>>

\* A GM's commands mark a player who is on this ship and no greater GM, under its mutex:
\* kill_guildcard, and global_ban, which tells the shipgate first.
Present == UNION {here[b] : b \in BlockNo}
KillGuildcard(c, b, d) ==
    /\ AtHand(c, b) /\ d \in Present \ busy
    /\ going' = going \cup {d}
    /\ UNCHANGED <<linkVars, coming, known, here, named, busy, guarded, ready, character, waits>>

GlobalBan(c, b, d) ==
    /\ AtHand(c, b) /\ d \notin busy /\ Sent(c, BanRequest(c))
    /\ going' \in {going, going \cup ({d} \cap Present)}
    /\ UNCHANGED <<linkVars, known, here, named, busy, guarded, ready, character>>

\* The client breaks off, or says nothing for too long.
BreakOff(c, b) ==
    /\ run /\ c \in here[b] \ (busy \cup going) /\ BlockFree(b)
    /\ going' = going \cup {c}
    /\ UNCHANGED <<linkVars, here, named, busy, guarded, ready, character, waits, coming, known>>

\* A client that was asked to log in has done nothing of the kind for a minute.
GuardEnds(c, b) ==
    /\ c \in guarded /\ BreakOff(c, b)

\* client_destroy_connection, under the lock of the block.
BlockLogout(c, b) ==
    /\ c \in going /\ c \in here[b] /\ BlockFree(b) /\ Listening(b)
    /\ here' = [here EXCEPT ![b] = @ \ {c}]
    /\ known' = IF c \in named /\ Written THEN [known EXCEPT ![b] = @ \ {c}] ELSE known
    /\ named' = named \ {c} /\ going' = going \ {c} /\ guarded' = guarded \ {c}
    /\ ready' = ready \ {c} /\ waits' = [waits EXCEPT ![c] = {}]
    /\ character' = [character EXCEPT ![c] = "none"]
    /\ UNCHANGED <<linkVars, busy, coming>>

-----------------------------------------------------------------------------
(* The ship's thread again: what the shipgate sends.  Those it is about are *)
(* looked for, and may have gone.                                          *)

FoundAnywhere(m) == {m.who} \cap Present
FoundOnBlock(m) == {m.who} \cap here[m.block]

\* Some handlers lock the client, and wait for the thread that serves it; others do not.
Unlocked(found) == found \cap busy = {}
Answered(k, found) == [c \in Player |-> IF c \in found THEN waits[c] \ {k} ELSE waits[c]]

Takes(k, found) ==
    /\ Take1(k) /\ sg = "keyed"
    /\ coming' = Tail(coming)
    /\ waits' = Answered(k, found)
    /\ UNCHANGED <<linkVars, known, here, named, busy>>

\* handle_cdata
SaveAnswer ==
    LET found == FoundAnywhere(Next1)
    IN /\ Takes("save", found) /\ Unlocked(found)
       /\ UNCHANGED <<going, guarded, ready, character>>

\* handle_creq; after an error (handle_creq_err) a Blue Burst player is not even told.
LoadAnswer ==
    LET found == FoundAnywhere(Next1)
    IN /\ Takes("load", found) /\ Unlocked(found)
       /\ character' = [c \in Player |->
                          IF c \in found \cap Blue THEN IF Next1.ok THEN "come" ELSE "denied"
                          ELSE character[c]]
       /\ UNCHANGED <<going, guarded, ready>>

\* handle_ban: one who is no GM after all is thrown out.
BanAnswer ==
    LET found == FoundAnywhere(Next1)
    IN /\ Takes("ban", found) /\ Unlocked(found)
       /\ going' \in IF Next1.ok THEN {going} ELSE {going, going \cup found}
       /\ UNCHANGED <<guarded, ready, character>>

\* handle_addfriend
FriendAddAnswer ==
    LET found == FoundAnywhere(Next1)
    IN /\ Takes("befriend", found) /\ Unlocked(found)
       /\ UNCHANGED <<going, guarded, ready, character>>

\* handle_delfriend
FriendDelAnswer ==
    LET found == FoundAnywhere(Next1)
    IN /\ Takes("unfriend", found) /\ Unlocked(found)
       /\ UNCHANGED <<going, guarded, ready, character>>

\* handle_usrlogin, handle_usrlogin_err: without the client's mutex.
LoginAnswer ==
    LET found == FoundOnBlock(Next1)
    IN /\ Takes("login", found)
       /\ guarded' = IF Next1.ok THEN guarded \ found ELSE guarded
       /\ UNCHANGED <<going, ready, character>>

\* handle_frlist
FriendListAnswer ==
    LET found == FoundOnBlock(Next1)
    IN /\ Takes("friends", found) /\ Unlocked(found)
       /\ UNCHANGED <<going, guarded, ready, character>>

\* handle_bbopts: with its options the client is sent its character, whatever it holds.
BBOptions ==
    LET found == FoundOnBlock(Next1)
    IN /\ Takes("options", found) /\ Unlocked(found)
       /\ ready' = ready \cup found
       /\ UNCHANGED <<going, guarded, character>>

\* handle_blogin_err: the client is marked, its own thread will remove it.
LoginDenied ==
    /\ Take1("refused") /\ going' = going \cup FoundOnBlock(Next1)
    /\ coming' = Tail(coming)
    /\ UNCHANGED <<linkVars, known, here, named, busy, guarded, ready, character, waits>>

\* handle_kick
Kicked ==
    /\ Take1("kick") /\ going' = going \cup FoundOnBlock(Next1)
    /\ coming' = Tail(coming)
    /\ UNCHANGED <<linkVars, known, here, named, busy, guarded, ready, character, waits>>

\* handle_useropt
UserOptions ==
    /\ Take1("guard") /\ Unlocked(FoundOnBlock(Next1))
    /\ coming' = Tail(coming)
    /\ guarded' = guarded \cup FoundOnBlock(Next1)
    /\ UNCHANGED <<linkVars, known, here, named, busy, going, ready, character, waits>>

\* A GM on another ship has somebody kicked.
GateKicks(c, b) ==
    /\ sg = "keyed" /\ c \in known[b] /\ HasRoom
    /\ coming' = Append(coming, Note("kick", c, b, TRUE))
    /\ UNCHANGED <<linkVars, known, playerVars>>

GateInit ==
    /\ sg = "none" /\ run = TRUE
    /\ here = NobodyOn /\ named = {} /\ busy = {} /\ going = {} /\ guarded = {} /\ ready = {}
    /\ waits = [c \in Player |-> {}] /\ character = [c \in Player |-> "none"]
    /\ listing = NoListing /\ coming = <<>> /\ known = NobodyOn

GateNext ==
    \/ Reconnect \/ GateLost \/ NoticeLost \/ Welcome \/ LoginReply \/ LoginRefused
    \/ ListBlock \/ ListUnlocked \/ SendList
    \/ SaveAnswer \/ LoadAnswer \/ BanAnswer \/ FriendAddAnswer \/ FriendDelAnswer
    \/ LoginAnswer \/ FriendListAnswer \/ BBOptions \/ LoginDenied \/ Kicked \/ UserOptions
    \/ \E c \in Player : ListClient(c)
    \/ \E c \in Player, b \in BlockNo :
        \/ Connect(c, b) \/ RequestOptions(c, b) \/ ProcessChar(c, b) \/ BlockLogin(c, b) \/ BreakOff(c, b)
        \/ GuardEnds(c, b) \/ BlockLogout(c, b) \/ GateKicks(c, b) \/ Ask(c, b)
        \/ \E d \in Player : KillGuildcard(c, b, d) \/ GlobalBan(c, b, d)

GateSpec == GateInit /\ [][GateNext]_gateVars

-----------------------------------------------------------------------------
(* Properties.                                                             *)

GateTypeOK ==
    /\ sg \in {"none", "open", "keyed", "cut"} /\ run \in BOOLEAN
    /\ here \in [BlockNo -> SUBSET Player] /\ known \in [BlockNo -> SUBSET Player]
    /\ named \subseteq Player /\ busy \subseteq named \cup Blue /\ going \subseteq Player
    /\ guarded \subseteq Player /\ ready \subseteq Blue
    /\ character \in [Player -> CharacterState]
    /\ waits \in [Player -> SUBSET Question] /\ Len(coming) <= MaxComing + 2

Refused(c) == \E i \in DOMAIN coming : coming[i].kind = "refused" /\ coming[i].who = c
ToBeListed(b) == listing.at = b \/ b \in listing.left

\* When the shipgate has been told who is on a block it misses nobody: whoever came while
\* the connection was away, or while the list was made, is known to it, unless the client
\* is about to be removed or the shipgate itself has refused it.
GateMissesNobody ==
    \A b \in BlockNo : sg = "keyed" /\ ~ToBeListed(b) =>
        \A c \in (here[b] \cap named) \ (busy \cup going) : c \in known[b] \/ Refused(c)

\* A Blue Burst player's own options are not answered before its own character: handle_bbopts
\* sends the character and does not look, so the order of the two questions, and of the
\* answers, is all there is to rely on.  The options of an earlier connection may come first,
\* when the player has come back to its block meanwhile; both of its own answers are on
\* their way then.  Without a character are those whom the order does not help: "missed",
\* whose first question found no connection, or lost it before the answer, where the second
\* found one; and "denied", who were sent an error.
OwnAnswersComing(c) ==
    \E i, j \in DOMAIN coming : \E b \in BlockNo :
        /\ c \in here[b] /\ i < j
        /\ coming[i].kind = "load" /\ coming[i].who = c
        /\ coming[j] = OptionRequest(c, b)
CharacterFirst ==
    \A c \in ready : character[c] \in {"come", "missed", "denied"} \/ OwnAnswersComing(c)
=============================================================================
