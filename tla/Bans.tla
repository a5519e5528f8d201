-------------------------------- MODULE Bans --------------------------------
(***************************************************************************)
(* The ship's own bans: the lists in memory, the file they are kept in,    *)
(* and the logins that ask them (bans.c; the commands that set and lift    *)
(* bans in commands.c; the logins in ship.c and block.c).                  *)
(*                                                                         *)
(* GMs on any block set and lift bans, the ship's thread removes those     *)
(* that have ended once a day.  The lists are changed under the ban lock;  *)
(* then they are copied into a document under the lock, the document is    *)
(* written without it, and at last those who are banned are looked for on  *)
(* the blocks.  The file is read when the ship starts.                     *)
(*                                                                         *)
(* A player comes to the ship, which reads its guild card and asks for     *)
(* bans of the card and of the address; it then chooses a block and logs   *)
(* in there anew.  The block asks for bans before it has read the card.    *)
(*                                                                         *)
(* A document that fails under the lock for want of memory (bans.c:110,    *)
(* 138) keeps the lock, and is no part of this.                            *)
(***************************************************************************)
EXTENDS Naturals, FiniteSets

CONSTANTS BanThread,    \* those who change the lists
          Card, Address,    \* what may be banned
          Visitor,      \* those who come
          CardOf, AddressOf,
          Caught,       \* by address: those a ban of it covers once address and netmask
                        \* have changed places
          Closed,       \* the platforms the ship refuses
          Length,       \* how long a ban may last
          MaxNow,       \* how long we look
          MaxBans       \* how many bans there may be

Forever == MaxNow + 100
ASSUME BansAssumption ==
    /\ MaxNow \in Nat /\ MaxBans \in Nat /\ Length \subseteq 1 .. 99
    /\ AddressOf \in [Visitor -> Address] /\ Caught \in [Address -> SUBSET Address]

VARIABLES up,           \* the ship runs
          now,
          bans,         \* guildcard_bans and ip_bans
          saved,        \* the bans file
          doing,        \* what each thread is about to do: nothing, copy the lists, write
                        \* its copy, or look for those it has banned
          behind,       \* a thread has changed the lists while another was busy with the
                        \* file, or could not write it
          at,           \* where each visitor is: away, at the ship, sent from there to a
                        \* block, or on one
          marked,       \* CLIENT_FLAG_DISCONNECTED
          early,        \* those who had passed the ship when their card was banned, or who
                        \* have come to a block without passing it
          spared        \* those on a block when the command that banned them failed
bansVars == <<up, now, bans, saved, doing, behind, at, marked, early, spared>>
fileVars == <<up, now, bans, saved, doing, behind>>
visitorVars == <<at, marked, early, spared>>

Idle == [step |-> "nothing", copy |-> {}, kick |-> {}]
Busy(t) == doing[t].step \in {"copy", "write"}
Quiet == \A t \in BanThread : ~Busy(t)

\* An address ban is wide when its address and netmask have changed places.
Covers(b) == IF b.wide THEN Caught[b.who] ELSE {b.who}

Runs(b) == b.until >= now \/ b.until = Forever
Ended(b) == ~Runs(b)

-----------------------------------------------------------------------------
(* The lists and the file.                                                 *)

\* Whether others are busy with the file is remembered, for the property below.
Changes(t, kick) ==
    /\ up /\ doing[t] = Idle
    /\ doing' = [doing EXCEPT ![t] = [step |-> "copy", copy |-> {}, kick |-> kick]]
    /\ behind' = ~Quiet
    /\ UNCHANGED <<up, now, saved, at, marked, spared>>

\* The bounds; a ban of the last moment would not end within them.
CanBan == Cardinality(bans) < MaxBans /\ now < MaxNow
Until == {now + l : l \in Length}

\* ban_guildcard: /ban:d, /ban:w, /ban:m and /ban:p.
BanGuildcard(t, c) ==
    /\ CanBan
    /\ \E until \in Until \cup {Forever} :
        bans' = bans \cup {[kind |-> "card", who |-> c, until |-> until, wide |-> FALSE]}
    /\ early' = early \cup {p \in Visitor : CardOf[p] = c /\ at[p] # "away"}
    /\ Changes(t, {p \in Visitor : CardOf[p] = c})

\* ban_ip: /ib, with a netmask of all ones.
BanIP(t, a) ==
    /\ CanBan
    /\ \E until \in Until :
        bans' = bans \cup {[kind |-> "address", who |-> a, until |-> until, wide |-> FALSE]}
    /\ Changes(t, {p \in Visitor : AddressOf[p] = a})
    /\ UNCHANGED early

\* ban_lift_guildcard_ban: the card's bans go, and any that have ended.  An entry that is
\* both is freed twice, after which the ship may or may not still run.
Lifted(c) == {b \in bans : b.kind = "card" /\ (b.who = c \/ Ended(b))}

LiftBan(t, c) ==
    /\ Lifted(c) # {}
    /\ bans' = bans \ Lifted(c)
    /\ Changes(t, {})
    /\ UNCHANGED early

\* ban_sweep, by the ship's thread.
Sweep(t) ==
    /\ \E b \in bans : Ended(b)
    /\ bans' = {b \in bans : ~Ended(b)}
    /\ Changes(t, {})
    /\ UNCHANGED early

\* write_bans_list: those that have ended are left out; an address is written as the
\* netmask and the netmask as the address.
Exchanged(b) == [b EXCEPT !.wide = (b.kind = "address" /\ ~b.wide)]
Copied_ForeverLost == {Exchanged(b) : b \in {x \in bans : x.until >= now /\ x.until # Forever}}
Copied == {Exchanged(b) : b \in {x \in bans : ~Ended(x)}}

CopyBans(t) ==
    /\ doing[t].step = "copy"
    /\ doing' = [doing EXCEPT ![t].step = "write", ![t].copy = Copied]
    /\ UNCHANGED <<up, now, bans, saved, behind, visitorVars>>

\* There is no document, and the lists in memory stay as they are: no bans file is
\* configured, or there is no memory.  The command says so and looks for nobody.
NoDocument(t) ==
    /\ doing[t].step = "copy"
    /\ doing' = [doing EXCEPT ![t] = Idle]
    /\ spared' = spared \cup {p \in doing[t].kick : at[p] = "block"}
    /\ behind' = TRUE
    /\ UNCHANGED <<up, now, bans, saved, at, marked, early>>

\* Nothing looks whether the document could be written: if not, the old file is left, or
\* one that cannot be read.
WriteBans(t) ==
    /\ doing[t].step = "write"
    /\ \/ saved' = doing[t].copy /\ UNCHANGED behind
       \/ saved' \in {saved, {}} /\ behind' = TRUE
    /\ doing' = [doing EXCEPT ![t].step = "kick", ![t].copy = {}]
    /\ UNCHANGED <<up, now, bans, visitorVars>>

\* The rest of the command: those who are on a block are marked.
KickBanned(t) ==
    /\ doing[t].step = "kick"
    /\ marked' = marked \cup {p \in doing[t].kick : at[p] = "block"}
    /\ doing' = [doing EXCEPT ![t] = Idle]
    /\ UNCHANGED <<up, now, bans, saved, behind, at, early, spared>>

Down ==
    /\ up' = FALSE /\ bans' = {} /\ doing' = [t \in BanThread |-> Idle]
    /\ at' = [p \in Visitor |-> "away"] /\ marked' = {} /\ early' = {} /\ spared' = {}
    /\ UNCHANGED <<now, saved, behind>>

\* The second time an entry is freed.
FreedTwice(t, c) ==
    /\ up /\ doing[t] = Idle
    /\ \E b \in bans : b.kind = "card" /\ b.who = c /\ Ended(b)
    /\ Down

\* The ship ends, in whatever it was doing (ban_list_clear).
ShipEnds == up /\ Down

\* ban_list_read: what ends this very second is over.
BanListRead ==
    /\ ~up
    /\ up' = TRUE /\ behind' = FALSE
    /\ bans' = {b \in saved : b.until = Forever \/ b.until > now}
    /\ UNCHANGED <<now, saved, doing, visitorVars>>

Tick ==
    /\ now < MaxNow /\ now' = now + 1
    /\ UNCHANGED <<up, bans, saved, doing, behind, visitorVars>>

-----------------------------------------------------------------------------
(* Those who come.  Who is refused is not let in; that it is marked and    *)
(* sent away changes nothing here.                                         *)

\* is_guildcard_banned, is_ip_banned
CardBanned(p) == \E b \in bans : b.kind = "card" /\ b.who = CardOf[p] /\ Runs(b)
AddressBanned(p) == \E b \in bans : b.kind = "address" /\ Runs(b) /\ AddressOf[p] \in Covers(b)

Move1(p, place) ==
    /\ at' = [at EXCEPT ![p] = place] /\ spared' = spared \ {p}
    /\ UNCHANGED fileVars

ShipLogin_CardUnread(p) ==
    /\ up /\ at[p] = "away"
    /\ ~AddressBanned(p)
    /\ Move1(p, "ship") /\ UNCHANGED <<marked, early>>
ShipLogin(p) ==
    /\ up /\ at[p] = "away"
    /\ ~CardBanned(p) /\ ~AddressBanned(p)
    /\ Move1(p, "ship") /\ UNCHANGED <<marked, early>>

\* The platforms, by the login they send: the Dreamcast's trial and version 1, version 2
\* and the PC with its trial, the Gamecube, the Xbox and Blue Burst.
V1Open == "dcnte" \notin Closed \/ "v1" \notin Closed
V2Open == \E trial \in BOOLEAN :
    "v2" \notin Closed \/ ("pc" \notin Closed /\ (trial => "pcnte" \notin Closed))
LaterOpen == {"gc", "ep3", "xbox", "bb"} \ Closed # {}

ShipLoginV1(p) == V1Open /\ ShipLogin(p)
ShipLoginV2(p) == V2Open /\ ShipLogin(p)
ShipLoginLater(p) == LaterOpen /\ ShipLogin(p)

\* dc_process_block_sel, and a block's own list of blocks
ChooseBlock(p) ==
    /\ at[p] = "ship" \/ (at[p] = "block" /\ p \notin marked)
    /\ Move1(p, "sent") /\ UNCHANGED <<marked, early>>

\* On the block c->guildcard is read after the question for bans.  Who follows a guild
\* card search comes here from another ship.
NewOnBlock(p) ==
    /\ up /\ at[p] \in {"away", "sent"}
    /\ ~AddressBanned(p)
    /\ Move1(p, "block") /\ UNCHANGED marked
    /\ early' = IF at[p] = "away" THEN early \cup {p} ELSE early

BlockLoginV1(p) == V1Open /\ NewOnBlock(p)
BlockLoginV2(p) == V2Open /\ NewOnBlock(p)
BlockLoginGc(p) == {"gc", "ep3"} \ Closed # {} /\ NewOnBlock(p)
BlockLoginLater(p) == {"xbox", "bb"} \ Closed # {} /\ NewOnBlock(p)

\* The player leaves, for another ship or for good, or is removed.
Leaves(p) ==
    /\ at[p] # "away"
    /\ Move1(p, "away")
    /\ marked' = marked \ {p} /\ early' = early \ {p}

BansInit ==
    /\ up = TRUE /\ now = 0 /\ bans = {} /\ saved = {} /\ behind = FALSE
    /\ doing = [t \in BanThread |-> Idle]
    /\ at = [p \in Visitor |-> "away"] /\ marked = {} /\ early = {} /\ spared = {}

BansNext ==
    \/ ShipEnds \/ BanListRead \/ Tick
    \/ \E t \in BanThread :
        \/ CopyBans(t) \/ NoDocument(t) \/ WriteBans(t) \/ KickBanned(t) \/ Sweep(t)
        \/ \E c \in Card : BanGuildcard(t, c) \/ LiftBan(t, c) \/ FreedTwice(t, c)
        \/ \E a \in Address : BanIP(t, a)
    \/ \E p \in Visitor :
        \/ ShipLoginV1(p) \/ ShipLoginV2(p) \/ ShipLoginLater(p) \/ ChooseBlock(p)
        \/ BlockLoginV1(p) \/ BlockLoginV2(p) \/ BlockLoginGc(p) \/ BlockLoginLater(p)
        \/ Leaves(p)
BansSpec == BansInit /\ [][BansNext]_bansVars

-----------------------------------------------------------------------------
(* Properties.                                                             *)

Ban == [kind : {"card"}, who : Card, until : Nat, wide : {FALSE}]
       \cup [kind : {"address"}, who : Address, until : Nat, wide : BOOLEAN]
Doing == [step : {"nothing", "copy", "write", "kick"}, copy : SUBSET Ban, kick : SUBSET Visitor]
BansTypeOK ==
    /\ up \in BOOLEAN /\ now \in 0 .. MaxNow /\ bans \subseteq Ban /\ saved \subseteq Ban
    /\ behind \in BOOLEAN /\ doing \in [BanThread -> Doing]
    /\ at \in [Visitor -> {"away", "ship", "sent", "block"}]
    /\ marked \subseteq Visitor /\ early \subseteq Visitor /\ spared \subseteq Visitor

\* Who is banned and until when, of those bans that do not end now.
AheadAt(list, n) == {<<b.kind, b.who, b.until>> : b \in {x \in list : x.until > n}}
Ahead(list) == AheadAt(list, now)

\* When nobody is writing, the file has just the bans that run, so that none is forgotten
\* and none comes back with the next start of the ship, whatever ended, was lifted or was
\* swept meanwhile; unless two threads changed the lists at a time, when the older copy
\* may be written last, or the file could not be written.  Whoever next changes the lists
\* alone, and can write them, makes up for either.
SavedBansHold == up /\ Quiet /\ ~behind => Ahead(bans) = Ahead(saved)

\* On a block nobody is banned by its address, nor by its card unless it had passed the
\* ship before or come around it, but for those who are marked or about to be, and those
\* who were on a block when the command that banned them failed, until they change blocks:
\* between setting a ban and looking for whom it hits everybody may come, go and change
\* blocks.
ToBeKicked(p) == \E t \in BanThread : p \in doing[t].kick
BannedStayOut ==
    \A p \in Visitor : at[p] = "block" /\ p \notin marked \cup spared /\ ~ToBeKicked(p) =>
        ~AddressBanned(p) /\ (CardBanned(p) => p \in early)

\* A ban holds, in the file and at the door.
BansHold == SavedBansHold /\ BannedStayOut
=============================================================================
