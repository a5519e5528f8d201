---------------------------- MODULE ServerProofs ----------------------------
(***************************************************************************)
(* What is proved of the parts of MCServer.tla other than the locks:       *)
(* Gate.tla, that the shipgate misses nobody who is on the ship, whatever  *)
(* comes and goes while it is told, and that a player's own answers come   *)
(* in their order; Bans.tla, that a ban holds in the file and at the door; *)
(* ShipMenu.tla, that the menu of ships is complete and leads somewhere;   *)
(* for any number of players, blocks, packets on their way, threads,       *)
(* cards, addresses, ships and codes.                                      *)
(***************************************************************************)
EXTENDS MCServer, NatMin, SequenceTheorems, TLAPS

-----------------------------------------------------------------------------
(* The connection to the shipgate (Gate.tla)                               *)

GatePacket == [kind : Question \cup {"welcome", "taken", "refused", "kick", "guard"},
           who : Player \cup {0}, block : BlockNo \cup {0}, ok : BOOLEAN]

\* Those that are about a client of a block name it, and only Blue Burst clients have options.
Addressed(m) ==
    /\ m.kind \in {"login", "friends", "options", "refused", "kick", "guard"} => m.block \in BlockNo
    /\ m.kind = "options" => m.who \in Blue
Greeting == {"welcome", "taken"}

\* Who is on the ship: each on one block, those who have a name among them, and those whose
\* options have come, which do not come between a client's two questions.
Places ==
    /\ here \in [BlockNo -> SUBSET Player]
    /\ \A a, b \in BlockNo : \A c \in here[a] \cap here[b] : a = b
    /\ named \subseteq Present /\ busy \subseteq Present /\ busy \subseteq named \cup Blue
    /\ going \subseteq Player /\ guarded \subseteq Player /\ ready \subseteq Blue
    /\ ready \subseteq Present /\ ready \cap busy \subseteq named
    /\ character \in [Player -> CharacterState]

\* The connection: before the ship is taken only greetings pass, and after that none.
Mail ==
    /\ sg \in {"none", "open", "keyed", "cut"} /\ run \in BOOLEAN
    /\ coming \in Seq(GatePacket) /\ Len(coming) <= MaxComing + 2
    /\ \A i \in DOMAIN coming : Addressed(coming[i])
    /\ waits \in [Player -> SUBSET Question]
    /\ sg \in {"none", "cut"} => coming = <<>>
    /\ sg = "open" => Len(coming) = 1 /\ coming[1].kind \in Greeting
    /\ sg = "keyed" => \A i \in DOMAIN coming : coming[i].kind \notin Greeting
    /\ sg # "keyed" => waits = [c \in Player |-> {}]

\* The list that is being made.
Lists ==
    /\ known \in [BlockNo -> SUBSET Player]
    /\ listing \in [left : SUBSET BlockNo, at : BlockNo \cup {0}, look : SUBSET Player,
                    found : SUBSET Player, locked : BOOLEAN]
    /\ ~listing.locked => listing.look = {}

GateShape == Places /\ Mail /\ Lists

\* Who is on some block is a player.
LEMMA PresentPlayers == ASSUME Places PROVE Present \subseteq Player
BY DEF Places, Present

\* Two ways in which what is on its way changes: the first packet is taken, ...
LEMMA FirstTaken ==
    ASSUME NEW S, NEW s \in Seq(S), s # <<>>
    PROVE  /\ Head(s) = s[1] /\ Head(s) \in S /\ 1 \in DOMAIN s
           /\ Tail(s) \in Seq(S) /\ Len(Tail(s)) = Len(s) - 1 /\ Len(s) \in Nat \ {0}
           /\ \A i \in DOMAIN Tail(s) : i \in Nat \ {0} /\ i + 1 \in DOMAIN s /\ Tail(s)[i] = s[i + 1]
           /\ \A i \in DOMAIN s : i \in Nat \ {0} /\ (i = 1 \/ (i - 1 \in DOMAIN Tail(s) /\ Tail(s)[i - 1] = s[i]))
<1>1. /\ Head(s) = s[1] /\ Head(s) \in S /\ Tail(s) \in Seq(S)
      /\ Len(s) \in Nat \ {0} /\ Len(Tail(s)) = Len(s) - 1
      /\ \A i \in 1 .. Len(Tail(s)) : Tail(s)[i] = s[i + 1]
  OBVIOUS
<1>2. DOMAIN s = 1 .. Len(s) /\ DOMAIN Tail(s) = 1 .. Len(Tail(s))
  BY <1>1, LenProperties
<1> DEFINE n == Len(s)
           m == Len(Tail(s))
<1>3. n \in Nat \ {0} /\ m = n - 1
  BY <1>1
<1>4. DOMAIN s = 1 .. n /\ DOMAIN Tail(s) = 1 .. m /\ \A i \in 1 .. m : Tail(s)[i] = s[i + 1]
  BY <1>1, <1>2
<1> HIDE DEF n, m
<1>5. \A i \in 1 .. m : i \in Nat \ {0} /\ i + 1 \in 1 .. n
  BY <1>3
<1>6. \A i \in 1 .. n : i \in Nat \ {0} /\ (i = 1 \/ (i - 1 \in 1 .. m /\ (i - 1) + 1 = i))
  BY <1>3
<1>7. 1 \in 1 .. n
  BY <1>3
<1>8. \A i \in DOMAIN s : i \in Nat \ {0} /\ (i = 1 \/ (i - 1 \in DOMAIN Tail(s) /\ Tail(s)[i - 1] = s[i]))
  BY <1>4, <1>6
<1>9. \A i \in DOMAIN Tail(s) : i \in Nat \ {0} /\ i + 1 \in DOMAIN s /\ Tail(s)[i] = s[i + 1]
  BY <1>4, <1>5
<1> QED BY <1>1, <1>4, <1>7, <1>8, <1>9

\* ... or one is added at the end.
LEMMA OneAdded ==
    ASSUME NEW S, NEW s \in Seq(S), NEW x \in S
    PROVE  /\ Append(s, x) \in Seq(S) /\ Len(Append(s, x)) = Len(s) + 1 /\ Len(s) \in Nat
           /\ \A i \in DOMAIN s : i \in DOMAIN Append(s, x) /\ Append(s, x)[i] = s[i]
           /\ \A i \in DOMAIN Append(s, x) : i \in DOMAIN s \/ Append(s, x)[i] = x
           /\ Len(s) + 1 \in DOMAIN Append(s, x) /\ Append(s, x)[Len(s) + 1] = x
           /\ \A i \in DOMAIN s : i < Len(s) + 1
<1> DEFINE n == Len(s)
           t == Append(s, x)
<1>1. /\ n \in Nat /\ t \in Seq(S) /\ Len(t) = n + 1 /\ DOMAIN s = 1 .. n /\ DOMAIN t = 1 .. n + 1
      /\ t[n + 1] = x /\ \A i \in 1 .. n : t[i] = s[i]
  BY AppendProperties, LenProperties
<1> HIDE DEF n, t
<1>2. \A i \in 1 .. n : i \in 1 .. n + 1
  BY <1>1
<1>3. \A i \in 1 .. n + 1 : i \in 1 .. n \/ i = n + 1
  BY <1>1
<1>4. n + 1 \in 1 .. n + 1
  BY <1>1
<1>5. \A i \in DOMAIN s : i \in DOMAIN t /\ t[i] = s[i]
  BY <1>1, <1>2
<1>6. \A i \in DOMAIN t : i \in DOMAIN s \/ t[i] = x
  BY <1>1, <1>3
<1>7. n + 1 \in DOMAIN t /\ t[n + 1] = x
  BY <1>1, <1>4
<1>8. \A i \in DOMAIN s : i < n + 1
  BY <1>1
<1> QED BY <1>1, <1>5, <1>6, <1>7, <1>8 DEF n, t

\* What is not a greeting is taken from a connection that is open to it (handle_pkt).
LEMMA TakenIsKeyed ==
    ASSUME Mail, NEW k, k \notin Greeting, Take1(k) PROVE sg = "keyed"
<1>1. sg # "cut" /\ coming # <<>> /\ Next1.kind = k /\ Next1 = Head(coming) /\ coming \in Seq(GatePacket)
  BY DEF Take1, Next1, Mail
<1>2. Head(coming) = coming[1]
  BY <1>1, FirstTaken
<1> QED BY <1>1, <1>2 DEF Mail

\* The packet that is read next is one, and addressed.
LEMMA NextPacket ==
    ASSUME Mail, coming # <<>> PROVE Next1 \in GatePacket /\ Addressed(Next1) /\ Next1 = coming[1]
<1>1. coming \in Seq(GatePacket)
  BY DEF Mail
<1> QED BY <1>1, FirstTaken DEF Mail, Next1

\* The packet that is read is taken off the front.
LEMMA MailTaken ==
    ASSUME Mail, sg = "keyed", coming # <<>>, coming' = Tail(coming), UNCHANGED <<sg, run>>,
           waits' \in [Player -> SUBSET Question]
    PROVE  Mail'
<1>1. coming \in Seq(GatePacket) /\ Len(coming) <= MaxComing + 2
  BY DEF Mail
<1>2. /\ coming' \in Seq(GatePacket) /\ Len(coming') = Len(coming) - 1 /\ Len(coming) \in Nat
      /\ \A i \in DOMAIN coming' : i + 1 \in DOMAIN coming /\ coming'[i] = coming[i + 1]
  BY <1>1, FirstTaken
<1> DEFINE n == Len(coming)
           m == Len(coming')
<1>3. m <= MaxComing + 2
  <2>1. n \in Nat /\ m = n - 1 /\ n <= MaxComing + 2 /\ MaxComing \in Nat
    BY <1>1, <1>2, GateAssumption
  <2> HIDE DEF n, m
  <2> QED BY <2>1
<1>4. \A i \in DOMAIN coming' : Addressed(coming'[i]) /\ coming'[i].kind \notin Greeting
  BY <1>2 DEF Mail
<1> QED BY <1>2, <1>3, <1>4 DEF Mail, Addressed

\* One packet more, that is no greeting, is on its way.
LEMMA MailAdded ==
    ASSUME Mail, sg = "keyed", NEW p \in GatePacket, Addressed(p), p.kind \notin Greeting,
           coming' = Append(coming, p), Len(coming) <= MaxComing + 1, UNCHANGED <<sg, run>>,
           waits' \in [Player -> SUBSET Question]
    PROVE  Mail'
<1>1. coming \in Seq(GatePacket)
  BY DEF Mail
<1>2. /\ coming' \in Seq(GatePacket) /\ Len(coming') = Len(coming) + 1 /\ Len(coming) \in Nat
      /\ \A i \in DOMAIN coming : coming'[i] = coming[i]
      /\ \A i \in DOMAIN coming' : i \in DOMAIN coming \/ coming'[i] = p
  BY <1>1, OneAdded
<1> DEFINE n == Len(coming)
           m == Len(coming')
<1>3. m <= MaxComing + 2
  <2>1. n \in Nat /\ m = n + 1 /\ n <= MaxComing + 1 /\ MaxComing \in Nat
    BY <1>2, GateAssumption
  <2> HIDE DEF n, m
  <2> QED BY <2>1
<1>4. \A i \in DOMAIN coming' : Addressed(coming'[i]) /\ coming'[i].kind \notin Greeting
  BY <1>2 DEF Mail
<1> QED BY <1>2, <1>3, <1>4 DEF Mail, Addressed

\* Nothing is sent or read.
LEMMA MailKept ==
    ASSUME Mail, UNCHANGED <<sg, run, coming, waits>> PROVE Mail'
BY DEF Mail, Addressed

\* The bounds under which an action sends are within the one of the types.
LEMMA RoomIsRoom ==
    ASSUME Mail, HasRoom \/ RoomToCome \/ RoomForOptions PROVE Len(coming) <= MaxComing + 1
<1> DEFINE n == Len(coming)
<1>0. coming \in Seq(GatePacket)
  BY DEF Mail
<1>a. n \in Nat
  BY <1>0, LenProperties
<1>1. n \in Nat /\ MaxComing \in Nat /\ (n < MaxComing \/ n <= MaxComing \/ n <= MaxComing + 1)
  BY <1>a, GateAssumption DEF HasRoom, RoomToCome, RoomForOptions
<1> HIDE DEF n
<1>2. n <= MaxComing + 1
  BY <1>1
<1> QED BY <1>2 DEF n

\* Notes are packets.
LEMMA NoteIs ==
    ASSUME NEW k, NEW c, NEW b, NEW ok
    PROVE  /\ Note(k, c, b, ok).kind = k /\ Note(k, c, b, ok).who = c /\ Note(k, c, b, ok).block = b
           /\ Note(k, c, b, ok).ok = ok
BY DEF Note

\* What the model sends is a packet.
LEMMA NotePacket ==
    ASSUME NEW k \in Question \cup {"welcome", "taken", "refused", "kick", "guard"},
           NEW c \in Player \cup {0}, NEW b \in BlockNo \cup {0}, NEW ok \in BOOLEAN
    PROVE  Note(k, c, b, ok) \in GatePacket
BY DEF Note, GatePacket

\* The connection breaks, comes back and is greeted, with its mail in order.
LEMMA LinkMail ==
    ASSUME Mail, Reconnect \/ GateLost \/ NoticeLost \/ Welcome \/ LoginReply \/ LoginRefused
    PROVE  Mail'
<1> DEFINE w == Note("welcome", 0, 0, TRUE)
<1>1. CASE Reconnect
  <2>0. w.kind = "welcome"
    BY DEF Note
  <2>a. w \in GatePacket
    BY NotePacket
  <2>1. w \in GatePacket /\ Addressed(w) /\ w.kind = "welcome"
    BY <2>0, <2>a DEF Addressed
  <2>2. sg' = "open" /\ coming' = <<w>> /\ UNCHANGED <<run, waits>> /\ sg = "none"
    BY <1>1 DEF Reconnect, playerVars
  <2> HIDE DEF w
  <2>3. coming' \in Seq(GatePacket) /\ Len(coming') = 1 /\ DOMAIN coming' = {1} /\ coming'[1] = w
    BY <2>1, <2>2
  <2>4. 1 <= MaxComing + 2
    BY GateAssumption
  <2> QED BY <2>1, <2>2, <2>3, <2>4 DEF Mail, Greeting, Addressed
<1>2. CASE GateLost
  <2>1. coming' = <<>> /\ Len(coming') = 0 /\ DOMAIN coming' = {} /\ coming' \in Seq(GatePacket)
    BY <1>2 DEF GateLost
  <2>2. 0 <= MaxComing + 2
    BY GateAssumption
  <2>3. waits' = [c \in Player |-> {}] /\ sg' = "cut" /\ run' = run
    BY <1>2 DEF GateLost
  <2>4. waits' \in [Player -> SUBSET Question]
    BY <2>3
  <2> QED BY <2>1, <2>2, <2>3, <2>4 DEF Mail, Addressed
<1>3. CASE NoticeLost
  BY <1>3 DEF NoticeLost, Mail, playerVars, Addressed
<1>4. CASE Welcome
  <2>1. PICK ok \in BOOLEAN : coming' = <<Note("taken", 0, 0, ok)>>
    BY <1>4 DEF Welcome
  <2> DEFINE t == Note("taken", 0, 0, ok)
  <2>2. t \in GatePacket /\ Addressed(t) /\ t.kind = "taken"
    BY NotePacket, NoteIs DEF Addressed
  <2>3. sg = "open" /\ coming' = <<t>> /\ UNCHANGED <<run, waits, sg>>
    BY <1>4, <2>1 DEF Welcome, playerVars
  <2> HIDE DEF t
  <2>4. coming' \in Seq(GatePacket) /\ Len(coming') = 1 /\ DOMAIN coming' = {1} /\ coming'[1] = t
    BY <2>2, <2>3
  <2>5. 1 <= MaxComing + 2
    BY GateAssumption
  <2> QED BY <2>2, <2>3, <2>4, <2>5 DEF Mail, Greeting, Addressed
<1>5. CASE LoginReply
  <2>1. sg # "cut" /\ coming # <<>> /\ coming' = Tail(coming) /\ sg' = "keyed" /\ UNCHANGED <<run, waits>>
        /\ Next1.kind = "taken"
    BY <1>5 DEF LoginReply, Take1, playerVars
  <2>2. coming \in Seq(GatePacket) /\ Next1 = coming[1] /\ 1 \in DOMAIN coming
    BY <2>1, NextPacket, FirstTaken DEF Mail
  <2>3. sg = "open" /\ Len(coming) = 1
    BY <2>1, <2>2 DEF Mail, Greeting
  <2>4. Tail(coming) = <<>>
    <3>1. Tail(coming) \in Seq(GatePacket) /\ Len(Tail(coming)) = Len(coming) - 1
      BY <2>1, <2>2, FirstTaken
    <3> DEFINE rest == Tail(coming)
               n == Len(coming)
               m == Len(rest)
    <3>2. rest \in Seq(GatePacket) /\ m = n - 1 /\ n = 1
      BY <2>3, <3>1
    <3> HIDE DEF n, rest
    <3>3. rest # <<>> => m \in Nat \ {0}
      BY <3>2, EmptySeq
    <3> HIDE DEF m
    <3>4. rest = <<>>
      BY <3>2, <3>3
    <3> QED BY <3>4 DEF rest
  <2>a. coming' = <<>>
    BY <2>1, <2>4
  <2>5. coming' = <<>> /\ Len(coming') = 0 /\ DOMAIN coming' = {} /\ coming' \in Seq(GatePacket)
    BY <2>a
  <2>6. 0 <= MaxComing + 2
    BY GateAssumption
  <2> QED BY <2>1, <2>5, <2>6 DEF Mail, Addressed
<1>6. CASE LoginRefused
  <2>1. sg # "cut" /\ coming # <<>> /\ sg' = "none" /\ coming' = <<>> /\ run' = FALSE /\ waits' = waits
        /\ Next1.kind = "taken"
    BY <1>6 DEF LoginRefused, Take1, playerVars
  <2>2. coming \in Seq(GatePacket) /\ Next1 = coming[1] /\ 1 \in DOMAIN coming
    BY <2>1, NextPacket, FirstTaken DEF Mail
  <2>3. sg = "open"
    BY <2>1, <2>2 DEF Mail, Greeting
  <2>5. coming' = <<>> /\ Len(coming') = 0 /\ DOMAIN coming' = {} /\ coming' \in Seq(GatePacket)
    BY <2>1
  <2>6. 0 <= MaxComing + 2
    BY GateAssumption
  <2> QED BY <2>1, <2>3, <2>5, <2>6 DEF Mail, Addressed
<1> QED BY <1>1, <1>2, <1>3, <1>4, <1>5, <1>6

\* What is asked, by whom, and for whom (the senders of shipgate.c).
LEMMA QuestionPackets ==
    ASSUME Places, NEW c \in Player, NEW b \in BlockNo, NEW q \in Questions(c, b)
    PROVE  /\ q \in GatePacket /\ Addressed(q) /\ q.kind \in Question /\ q.who = c
           /\ q.kind \notin {"options", "refused"} /\ (q.kind = "load" => c \notin Blue)
<1>1. \/ q = UserLogin(c, b) \/ q = FriendAdd(c) \/ q = FriendDel(c) \/ q = FriendList(c, b)
      \/ (c \notin Blue /\ (q = CharData(c) \/ q = CharRequest(c)))
  BY DEF Questions, LoginCommand, TokenLogin, FriendCommands, Friends, SaveOrRestore
<1>2. CASE q = UserLogin(c, b)
  BY <1>2 DEF UserLogin, Note, GatePacket, Addressed, Question
<1>3. CASE q = FriendAdd(c)
  BY <1>3 DEF FriendAdd, Note, GatePacket, Addressed, Question
<1>4. CASE q = FriendDel(c)
  BY <1>4 DEF FriendDel, Note, GatePacket, Addressed, Question
<1>5. CASE q = FriendList(c, b)
  BY <1>5 DEF FriendList, Note, GatePacket, Addressed, Question
<1>6. CASE c \notin Blue /\ q = CharData(c)
  BY <1>6 DEF CharData, Note, GatePacket, Addressed, Question
<1>7. CASE c \notin Blue /\ q = CharRequest(c)
  BY <1>7 DEF CharRequest, Note, GatePacket, Addressed, Question
<1> QED BY <1>1, <1>2, <1>3, <1>4, <1>5, <1>6, <1>7

\* shipgate_send_global_ban, shipgate_send_creq, shipgate_send_bb_opt_req.
LEMMA BanPacket ==
    ASSUME NEW c \in Player
    PROVE  /\ BanRequest(c) \in GatePacket /\ Addressed(BanRequest(c)) /\ BanRequest(c).kind = "ban"
           /\ BanRequest(c).who = c
BY DEF BanRequest, Note, GatePacket, Addressed, Question

\* A Blue Burst login's two questions are packets about that player and block.
LEMMA BluePackets ==
    ASSUME NEW c \in Blue, NEW b \in BlockNo, NEW ok \in BOOLEAN
    PROVE  /\ BlueRequests(c, b)[1] = CharRequest(c) /\ BlueRequests(c, b)[2] = OptionRequest(c, b)
           /\ [CharRequest(c) EXCEPT !.ok = ok] \in GatePacket
           /\ Addressed([CharRequest(c) EXCEPT !.ok = ok])
           /\ [CharRequest(c) EXCEPT !.ok = ok].kind = "load"
           /\ OptionRequest(c, b) \in GatePacket /\ Addressed(OptionRequest(c, b))
           /\ OptionRequest(c, b).kind = "options"
           /\ [CharRequest(c) EXCEPT !.ok = ok].who = c
<1>1. c \in Player
  BY GateAssumption
<1> DEFINE p == [CharRequest(c) EXCEPT !.ok = ok]
<1>2. p \in GatePacket /\ Addressed(p) /\ p.kind = "load" /\ p.who = c
  BY <1>1 DEF CharRequest, Note, GatePacket, Addressed, Question
<1>3. /\ OptionRequest(c, b) \in GatePacket /\ Addressed(OptionRequest(c, b))
      /\ OptionRequest(c, b).kind = "options"
  BY <1>1 DEF OptionRequest, Note, GatePacket, Addressed, Question
<1>4. BlueRequests(c, b)[1] = CharRequest(c) /\ BlueRequests(c, b)[2] = OptionRequest(c, b)
  BY DEF BlueRequests
<1> HIDE DEF p
<1> QED BY <1>2, <1>3, <1>4 DEF p

\* send_raw: what is asked is on its way, or nothing happens.
LEMMA SentMail ==
    ASSUME Mail, NEW c \in Player, NEW q \in GatePacket, Addressed(q), q.kind \in Question, q.kind # "options",
           Sent(c, q), UNCHANGED <<sg, run>>
    PROVE  /\ Mail'
           /\ \/ UNCHANGED <<coming, waits>>
              \/ /\ sg = "keyed" /\ waits' = [waits EXCEPT ![c] = @ \cup {q.kind}]
                 /\ \E p \in GatePacket : p.kind = q.kind /\ p.who = q.who /\ coming' = Append(coming, p)
<1>1. CASE ~Written
  BY <1>1, MailKept DEF Sent
<1>2. CASE Written
  <2>1. PICK ok \in BOOLEAN : coming' = Append(coming, [q EXCEPT !.ok = ok])
    BY <1>2 DEF Sent, Outcomes
  <2> DEFINE p == [q EXCEPT !.ok = ok]
  <2>2. p \in GatePacket /\ Addressed(p) /\ p.kind = q.kind /\ p.who = q.who
    BY DEF GatePacket, Addressed
  <2>3. /\ sg = "keyed" /\ HasRoom /\ coming' = Append(coming, p)
        /\ waits' = [waits EXCEPT ![c] = @ \cup {q.kind}]
    BY <1>2, <2>1 DEF Sent, Written
  <2> HIDE DEF p
  <2>4. waits' \in [Player -> SUBSET Question]
    BY <2>3 DEF Mail
  <2>5. p.kind \notin Greeting
    BY <2>2 DEF Question, Greeting
  <2>6. Len(coming) <= MaxComing + 1
    BY <2>3, RoomIsRoom
  <2> QED BY <2>2, <2>3, <2>4, <2>5, <2>6, MailAdded
<1> QED BY <1>1, <1>2

\* What players and the shipgate do with them keeps the mail in order.
LEMMA PlayerMail ==
    ASSUME GateShape, NEW c \in Player, NEW b \in BlockNo, NEW d \in Player,
           \/ Connect(c, b) \/ RequestOptions(c, b) \/ ProcessChar(c, b) \/ BlockLogin(c, b) \/ BreakOff(c, b)
           \/ BlockLogout(c, b) \/ GateKicks(c, b) \/ Ask(c, b)
           \/ KillGuildcard(c, b, d) \/ GlobalBan(c, b, d)
    PROVE  Mail'
<1> USE DEF GateShape
<1>1. CASE Connect(c, b)
  <2>1. UNCHANGED <<sg, run>>
    BY <1>1 DEF Connect, linkVars
  <2>2. CASE c \in Blue /\ Written
    <3>1. PICK ok \in BOOLEAN : coming' = Append(coming, [BlueRequests(c, b)[1] EXCEPT !.ok = ok])
      BY <1>1, <2>2 DEF Connect
    <3>2. sg = "keyed" /\ RoomToCome /\ waits' = waits
      BY <1>1, <2>2 DEF Connect, Written
    <3> DEFINE p == [CharRequest(c) EXCEPT !.ok = ok]
    <3>3. p \in GatePacket /\ Addressed(p) /\ p.kind \notin Greeting /\ coming' = Append(coming, p)
      BY <2>2, <3>1, BluePackets DEF Greeting
    <3> HIDE DEF p
    <3>4. Len(coming) <= MaxComing + 1 /\ waits' \in [Player -> SUBSET Question]
      BY <3>2, RoomIsRoom DEF Mail
    <3> QED BY <2>1, <3>2, <3>3, <3>4, MailAdded
  <2>3. CASE ~(c \in Blue /\ Written)
    BY <1>1, <2>1, <2>3, MailKept DEF Connect
  <2> QED BY <2>2, <2>3
<1>8. CASE RequestOptions(c, b)
  <2>1. UNCHANGED <<sg, run, waits>> /\ c \in busy \ named
    BY <1>8 DEF RequestOptions, linkVars
  <2>2. CASE Written
    <3>1. sg = "keyed" /\ RoomForOptions /\ coming' = Append(coming, BlueRequests(c, b)[2])
      BY <1>8, <2>2 DEF RequestOptions, Written
    <3> DEFINE p == OptionRequest(c, b)
    <3>2. c \in Blue
      BY <2>1 DEF Places
    <3>3. p \in GatePacket /\ Addressed(p) /\ p.kind \notin Greeting /\ coming' = Append(coming, p)
      BY <3>1, <3>2, BluePackets DEF Greeting
    <3> HIDE DEF p
    <3>4. Len(coming) <= MaxComing + 1 /\ waits' \in [Player -> SUBSET Question]
      BY <2>1, <3>1, RoomIsRoom DEF Mail
    <3> QED BY <2>1, <3>1, <3>3, <3>4, MailAdded
  <2>3. CASE ~Written
    BY <1>8, <2>1, <2>3, MailKept DEF RequestOptions
  <2> QED BY <2>2, <2>3
<1>2. CASE ProcessChar(c, b) \/ BreakOff(c, b) \/ KillGuildcard(c, b, d)
  <2>1. UNCHANGED <<sg, run, coming, waits>>
    BY <1>2 DEF ProcessChar, BreakOff, KillGuildcard, linkVars
  <2> QED BY <2>1, MailKept
<1>3. CASE BlockLogin(c, b)
  <2>1. UNCHANGED <<sg, run, waits>>
    BY <1>3 DEF BlockLogin, linkVars
  <2>2. \/ UNCHANGED coming
        \/ /\ sg = "keyed" /\ HasRoom
           /\ \E k \in {"refused", "guard"} : coming' = Append(coming, Note(k, c, b, FALSE))
    BY <1>3 DEF BlockLogin, Written
  <2>3. CASE UNCHANGED coming
    BY <2>1, <2>3, MailKept
  <2>4. ASSUME NEW k \in {"refused", "guard"}, sg = "keyed", HasRoom, coming' = Append(coming, Note(k, c, b, FALSE))
        PROVE Mail'
    <3>1. Note(k, c, b, FALSE) \in GatePacket /\ Addressed(Note(k, c, b, FALSE)) /\ Note(k, c, b, FALSE).kind \notin Greeting
      BY <2>4 DEF Note, GatePacket, Addressed, Greeting
    <3>2. Len(coming) <= MaxComing + 1 /\ waits' \in [Player -> SUBSET Question]
      BY <2>1, <2>4, RoomIsRoom DEF Mail
    <3> QED BY <2>1, <2>4, <3>1, <3>2, MailAdded
  <2> QED BY <2>2, <2>3, <2>4
<1>4. CASE BlockLogout(c, b)
  <2>1. UNCHANGED <<sg, run, coming>> /\ waits' = [waits EXCEPT ![c] = {}]
    BY <1>4 DEF BlockLogout, linkVars
  <2>2. waits' \in [Player -> SUBSET Question]
    BY <2>1 DEF Mail
  <2>3. sg # "keyed" => waits' = [e \in Player |-> {}]
    BY <2>1 DEF Mail
  <2> QED BY <2>1, <2>2, <2>3 DEF Mail, Addressed
<1>5. CASE GateKicks(c, b)
  <2> DEFINE p == Note("kick", c, b, TRUE)
  <2>1. p \in GatePacket /\ Addressed(p) /\ p.kind \notin Greeting
    BY DEF Note, GatePacket, Addressed, Greeting
  <2>2. sg = "keyed" /\ HasRoom /\ coming' = Append(coming, p) /\ UNCHANGED <<sg, run, waits>>
    BY <1>5 DEF GateKicks, linkVars, playerVars
  <2> HIDE DEF p
  <2>3. Len(coming) <= MaxComing + 1 /\ waits' \in [Player -> SUBSET Question]
    BY <2>2, RoomIsRoom DEF Mail
  <2> QED BY <2>1, <2>2, <2>3, MailAdded
<1>6. CASE Ask(c, b)
  <2>1. PICK q \in Questions(c, b) : Sent(c, q)
    BY <1>6 DEF Ask
  <2>2. UNCHANGED <<sg, run>>
    BY <1>6 DEF Ask, linkVars
  <2> QED BY <2>1, <2>2, QuestionPackets, SentMail
<1>7. CASE GlobalBan(c, b, d)
  <2>1. Sent(c, BanRequest(c)) /\ UNCHANGED <<sg, run>>
    BY <1>7 DEF GlobalBan, linkVars
  <2>2. BanRequest(c).kind \in Question /\ BanRequest(c).kind # "options"
    BY BanPacket DEF Question
  <2> QED BY <2>1, <2>2, BanPacket, SentMail
<1> QED BY <1>1, <1>2, <1>3, <1>4, <1>5, <1>6, <1>7, <1>8

-----------------------------------------------------------------------------
(* The ship's thread reads one packet (process_shipgate_pkt).              *)

Answers ==
    \/ SaveAnswer \/ LoadAnswer \/ BanAnswer \/ FriendAddAnswer \/ FriendDelAnswer
    \/ LoginAnswer \/ FriendListAnswer \/ BBOptions

Reads == Answers \/ LoginDenied \/ Kicked \/ UserOptions

\* Whoever is found is on the ship, and an answer to a question about options finds only
\* Blue Burst clients.
LEMMA Findable ==
    ASSUME GateShape, coming # <<>>
    PROVE  /\ FoundAnywhere(Next1) \subseteq Present
           /\ Next1.block \in BlockNo => FoundOnBlock(Next1) \subseteq Present
           /\ Next1.kind = "options" => FoundOnBlock(Next1) \subseteq Blue
           /\ Present \subseteq Player
           /\ Addressed(Next1) /\ Next1 \in GatePacket /\ Next1 = coming[1]
<1> USE DEF GateShape
<1>1. Next1 \in GatePacket /\ Addressed(Next1) /\ Next1 = coming[1]
  BY NextPacket
<1>2. Present \subseteq Player
  BY PresentPlayers
<1>3. ASSUME Next1.block \in BlockNo PROVE FoundOnBlock(Next1) \subseteq Present
  BY <1>3 DEF FoundOnBlock, Present
<1>4. ASSUME Next1.kind = "options" PROVE FoundOnBlock(Next1) \subseteq Blue
  BY <1>1, <1>4 DEF FoundOnBlock, Addressed
<1>5. FoundAnywhere(Next1) \subseteq Present
  BY DEF FoundAnywhere
<1> QED BY <1>1, <1>2, <1>3, <1>4, <1>5

\* What every such step does: one packet is gone, a question may have its answer, marks are
\* set on who is found, and nobody comes or goes.
LEMMA ReadShape ==
    ASSUME GateShape, Reads
    PROVE  /\ sg = "keyed" /\ coming # <<>> /\ coming' = Tail(coming)
           /\ UNCHANGED <<sg, run, listing, known, here, named, busy>>
           /\ going \subseteq going' /\ going' \subseteq Player
           /\ guarded' \subseteq Player /\ ready' \subseteq Blue
           /\ ready' \subseteq ready \cup (Present \ busy)
           /\ waits' \in [Player -> SUBSET Question]
           /\ Next1.kind = "refused" => going' = going \cup FoundOnBlock(Next1)
           /\ character' \in [Player -> CharacterState]
           /\ \A c \in Player : character[c] # "none" => character'[c] # "none"
           /\ \A c \in Player : character'[c] = "asked" => character[c] = "asked"
           /\ Next1.kind = "load" =>
                  /\ FoundAnywhere(Next1) \cap busy = {}
                  /\ \A c \in FoundAnywhere(Next1) \cap Blue : character'[c] # "asked"
<1> USE DEF GateShape
<1> DEFINE Kept == UNCHANGED <<sg, run, listing, known, here, named, busy>>
<1>0. /\ waits \in [Player -> SUBSET Question] /\ going \subseteq Player /\ guarded \subseteq Player
      /\ ready \subseteq Blue /\ character \in [Player -> CharacterState]
  BY DEF Mail, Places
<1>1. ASSUME NEW k \in Question, NEW found, Takes(k, found)
      PROVE  /\ sg = "keyed" /\ coming # <<>> /\ coming' = Tail(coming) /\ Kept
             /\ Next1.kind = k /\ waits' = Answered(k, found)
             /\ waits' \in [Player -> SUBSET Question]
  <2>1. /\ sg = "keyed" /\ coming # <<>> /\ coming' = Tail(coming) /\ Kept
        /\ Next1.kind = k /\ waits' = Answered(k, found)
    BY <1>1 DEF Takes, Take1, linkVars
  <2>2. waits' \in [Player -> SUBSET Question]
    BY <2>1, <1>0 DEF Answered
  <2> QED BY <2>1, <2>2
<1>2. ASSUME NEW k, k \notin Greeting, Take1(k)
      PROVE  sg = "keyed" /\ coming # <<>> /\ Next1.kind = k
  BY <1>2, TakenIsKeyed DEF Take1
<1> DEFINE A == FoundAnywhere(Next1)
           B == FoundOnBlock(Next1)
<1>3. coming # <<>> => /\ A \subseteq Player
                       /\ Next1.block \in BlockNo => B \subseteq Player
                       /\ Next1.kind = "options" => B \subseteq Blue /\ B \subseteq Present
                       /\ Addressed(Next1)
  BY Findable DEF Addressed
<1>4. CASE SaveAnswer
  <2>1. Takes("save", A) /\ UNCHANGED <<going, guarded, ready, character>>
    BY <1>4 DEF SaveAnswer
  <2> QED BY <2>1, <1>0, <1>1 DEF Question
<1>5. CASE LoadAnswer
  <2>1. /\ Takes("load", A) /\ Unlocked(A) /\ UNCHANGED <<going, guarded, ready>>
        /\ character' = [c \in Player |-> IF c \in A \cap Blue THEN IF Next1.ok THEN "come" ELSE "denied"
                                         ELSE character[c]]
    BY <1>5 DEF LoadAnswer
  <2>2. A \cap busy = {} /\ FoundAnywhere(Next1) \cap busy = {}
    BY <2>1 DEF Unlocked
  <2>3. /\ character' \in [Player -> CharacterState]
        /\ \A c \in Player : character[c] # "none" => character'[c] # "none"
        /\ \A c \in Player : character'[c] = "asked" => character[c] = "asked"
    BY <2>1, <1>0 DEF CharacterState
  <2>4. \A c \in FoundAnywhere(Next1) \cap Blue : character'[c] # "asked"
    BY <2>1, GateAssumption
  <2> HIDE DEF A
  <2> QED BY <2>1, <2>2, <2>3, <2>4, <1>0, <1>1 DEF Question
<1>6. CASE BanAnswer
  <2>1. Takes("ban", A) /\ going' \in {going, going \cup A} /\ UNCHANGED <<guarded, ready, character>>
    BY <1>6 DEF BanAnswer
  <2> HIDE DEF A
  <2> QED BY <2>1, <1>0, <1>1, <1>3 DEF Question
<1>7. CASE FriendAddAnswer
  <2>1. Takes("befriend", A) /\ UNCHANGED <<going, guarded, ready, character>>
    BY <1>7 DEF FriendAddAnswer
  <2> QED BY <2>1, <1>0, <1>1 DEF Question
<1>8. CASE FriendDelAnswer
  <2>1. Takes("unfriend", A) /\ UNCHANGED <<going, guarded, ready, character>>
    BY <1>8 DEF FriendDelAnswer
  <2> QED BY <2>1, <1>0, <1>1 DEF Question
<1>9. CASE LoginAnswer
  <2>1. Takes("login", B) /\ guarded' \in {guarded, guarded \ B} /\ UNCHANGED <<going, ready, character>>
    BY <1>9 DEF LoginAnswer
  <2> QED BY <2>1, <1>0, <1>1 DEF Question
<1>10. CASE FriendListAnswer
  <2>1. Takes("friends", B) /\ UNCHANGED <<going, guarded, ready, character>>
    BY <1>10 DEF FriendListAnswer
  <2> QED BY <2>1, <1>0, <1>1 DEF Question
<1>11. CASE BBOptions
  <2>1. Takes("options", B) /\ Unlocked(B) /\ ready' = ready \cup B /\ UNCHANGED <<going, guarded, character>>
    BY <1>11 DEF BBOptions
  <2>2. B \cap busy = {}
    BY <2>1 DEF Unlocked
  <2> HIDE DEF B
  <2> QED BY <2>1, <2>2, <1>0, <1>1, <1>3 DEF Question
<1>12. CASE LoginDenied
  <2>1. Take1("refused") /\ going' = going \cup B /\ coming' = Tail(coming)
        /\ UNCHANGED <<sg, run, listing, known, here, named, busy, guarded, ready, character, waits>>
    BY <1>12 DEF LoginDenied, linkVars
  <2>2. sg = "keyed" /\ coming # <<>> /\ Next1.kind = "refused"
    BY <2>1, <1>2 DEF Greeting
  <2>3. B \subseteq Player
    BY <2>2, <1>3 DEF Addressed
  <2>4. going' = going \cup FoundOnBlock(Next1)
    BY <2>1
  <2> HIDE DEF B
  <2> QED BY <2>1, <2>2, <2>3, <2>4, <1>0
<1>13. CASE Kicked
  <2>1. Take1("kick") /\ going' = going \cup B /\ coming' = Tail(coming)
        /\ UNCHANGED <<sg, run, listing, known, here, named, busy, guarded, ready, character, waits>>
    BY <1>13 DEF Kicked, linkVars
  <2>2. sg = "keyed" /\ coming # <<>> /\ Next1.kind = "kick"
    BY <2>1, <1>2 DEF Greeting
  <2>3. B \subseteq Player
    BY <2>2, <1>3 DEF Addressed
  <2> HIDE DEF B
  <2> QED BY <2>1, <2>2, <2>3, <1>0
<1>14. CASE UserOptions
  <2>1. Take1("guard") /\ guarded' = guarded \cup B /\ coming' = Tail(coming)
        /\ UNCHANGED <<sg, run, listing, known, here, named, busy, going, ready, character, waits>>
    BY <1>14 DEF UserOptions, linkVars
  <2>2. sg = "keyed" /\ coming # <<>> /\ Next1.kind = "guard"
    BY <2>1, <1>2 DEF Greeting
  <2>3. B \subseteq Player
    BY <2>2, <1>3 DEF Addressed
  <2> HIDE DEF B
  <2> QED BY <2>1, <2>2, <2>3, <1>0
<1> QED BY <1>4, <1>5, <1>6, <1>7, <1>8, <1>9, <1>10, <1>11, <1>12, <1>13, <1>14 DEF Reads, Answers

\* Reading keeps the mail in order.
LEMMA ReadMail ==
    ASSUME GateShape, Reads PROVE Mail'
BY ReadShape, MailTaken DEF GateShape

\* Reading keeps players in one place.
LEMMA ReadPlaces ==
    ASSUME GateShape, Reads PROVE Places'
<1>1. /\ UNCHANGED <<here, named, busy>> /\ going' \subseteq Player /\ guarded' \subseteq Player
      /\ ready' \subseteq Blue /\ ready' \subseteq ready \cup (Present \ busy)
      /\ character' \in [Player -> CharacterState]
  BY ReadShape
<1>2. Present' = Present
  BY <1>1 DEF Present
<1> QED BY <1>1, <1>2 DEF GateShape, Places

-----------------------------------------------------------------------------
(* The list, and the threads of the blocks.                                *)

ListSteps == ListBlock \/ ListUnlocked \/ SendList \/ \E c \in Player : ListClient(c)
LinkSteps == Reconnect \/ GateLost \/ NoticeLost \/ Welcome \/ LoginReply \/ LoginRefused
PlayerSteps(c, b, d) ==
    \/ Connect(c, b) \/ RequestOptions(c, b) \/ ProcessChar(c, b) \/ BlockLogin(c, b) \/ BreakOff(c, b)
    \/ BlockLogout(c, b) \/ GateKicks(c, b) \/ Ask(c, b)
    \/ KillGuildcard(c, b, d) \/ GlobalBan(c, b, d)

\* Every step is one of these.
LEMMA FourKinds ==
    ASSUME GateNext
    PROVE  \/ LinkSteps \/ Reads \/ ListSteps
           \/ \E c, d \in Player, b \in BlockNo : PlayerSteps(c, b, d)
<1>1. ASSUME NEW c \in Player, NEW b \in BlockNo, GuardEnds(c, b) PROVE BreakOff(c, b)
  BY <1>1 DEF GuardEnds
<1> QED BY <1>1 DEF GateNext, LinkSteps, Reads, Answers, ListSteps, PlayerSteps

\* The block the list takes next is one of those left.
LEMMA ListBlockShape ==
    ASSUME Lists, ListBlock
    PROVE  \E b \in listing.left :
               /\ b \in BlockNo /\ listing.at = 0
               /\ listing' = [left |-> listing.left \ {b}, at |-> b,
                              look |-> here[b], found |-> {}, locked |-> TRUE]
<1>1. listing.left \subseteq BlockNo /\ listing.left # {}
  BY DEF ListBlock, Lists
<1>2. listing.left \subseteq Nat
  BY <1>1, GateAssumption
<1>3. Min(listing.left) \in listing.left
  BY <1>1, <1>2, MinOfNat
<1> QED BY <1>1, <1>3 DEF ListBlock

\* The walk over the blocks keeps the lists in shape.
LEMMA ListingLists ==
    ASSUME GateShape, ListSteps
    PROVE  Lists'
<1> USE DEF GateShape
<1>0. /\ listing \in [left : SUBSET BlockNo, at : BlockNo \cup {0}, look : SUBSET Player,
                      found : SUBSET Player, locked : BOOLEAN]
      /\ known \in [BlockNo -> SUBSET Player] /\ here \in [BlockNo -> SUBSET Player]
      /\ ~listing.locked => listing.look = {}
  BY DEF Lists, Places
<1>1. CASE ListBlock
  <2>1. PICK b \in listing.left :
               /\ b \in BlockNo /\ listing.at = 0
               /\ listing' = [left |-> listing.left \ {b}, at |-> b,
                              look |-> here[b], found |-> {}, locked |-> TRUE]
    BY <1>1, ListBlockShape
  <2>2. known' = known
    BY <1>1 DEF ListBlock
  <2> QED BY <1>0, <2>1, <2>2 DEF Lists
<1>2. CASE ListUnlocked
  BY <1>0, <1>2 DEF ListUnlocked, Lists
<1>3. CASE SendList
  <2>1. known' \in [BlockNo -> SUBSET Player]
    BY <1>0, <1>3 DEF SendList
  <2>2. listing' = [left |-> listing.left, at |-> 0, look |-> {}, found |-> {}, locked |-> FALSE]
    BY <1>3 DEF SendList, NoListing
  <2> QED BY <1>0, <2>1, <2>2 DEF Lists
<1>4. ASSUME NEW c \in Player, ListClient(c) PROVE Lists'
  <2>1. /\ listing.locked /\ known' = known
        /\ listing' = [listing EXCEPT !.look = @ \ {c},
                                      !.found = IF Listed(c) THEN @ \cup {c} ELSE @]
    BY <1>4 DEF ListClient
  <2> QED BY <1>0, <2>1 DEF Lists
<1> QED BY <1>1, <1>2, <1>3, <1>4 DEF ListSteps

\* The connection breaks, comes back and is greeted: the lists keep their shape.
LEMMA LinkLists ==
    ASSUME Lists, LinkSteps PROVE Lists'
<1>1. NobodyOn \in [BlockNo -> SUBSET Player]
  BY DEF NobodyOn
<1>2. CASE LoginReply
  <2>1. listing' = [left |-> BlockNo, at |-> 0, look |-> {}, found |-> {}, locked |-> FALSE]
        /\ known' = known
    BY <1>2 DEF LoginReply, NoListing
  <2> QED BY <2>1 DEF Lists
<1>3. CASE Reconnect \/ GateLost \/ NoticeLost \/ Welcome \/ LoginRefused
  <2>1. listing' = listing /\ known' \in {known, NobodyOn}
    BY <1>3 DEF Reconnect, GateLost, NoticeLost, Welcome, LoginRefused
  <2> QED BY <1>1, <2>1 DEF Lists
<1> QED BY <1>2, <1>3 DEF LinkSteps

\* What players do keeps the lists in shape.
LEMMA PlayerLists ==
    ASSUME GateShape, NEW c \in Player, NEW b \in BlockNo, NEW d \in Player, PlayerSteps(c, b, d)
    PROVE  Lists'
<1> USE DEF GateShape
<1>1. listing' = listing
  BY Zenon DEF PlayerSteps, Connect, RequestOptions, ProcessChar, BlockLogin, BreakOff, BlockLogout, GateKicks, Ask,
               KillGuildcard, GlobalBan, linkVars
<1>2. known' = known \/ known' = [known EXCEPT ![b] = @ \cup {c}] \/ known' = [known EXCEPT ![b] = @ \ {c}]
  BY Zenon DEF PlayerSteps, Connect, RequestOptions, ProcessChar, BlockLogin, BreakOff, BlockLogout, GateKicks, Ask,
               KillGuildcard, GlobalBan, linkVars
<1>3. known \in [BlockNo -> SUBSET Player]
  BY DEF Lists
<1>4. known' \in [BlockNo -> SUBSET Player]
  BY <1>2, <1>3
<1> QED BY <1>1, <1>4 DEF Lists

\* What players do keeps them in one place.
LEMMA PlayerPlaces ==
    ASSUME GateShape, NEW c \in Player, NEW b \in BlockNo, NEW d \in Player, PlayerSteps(c, b, d)
    PROVE  Places'
<1> USE DEF GateShape
<1>0. /\ here \in [BlockNo -> SUBSET Player]
      /\ \A x, y \in BlockNo : \A e \in here[x] \cap here[y] : x = y
      /\ named \subseteq Present /\ busy \subseteq Present /\ busy \subseteq named \cup Blue
      /\ going \subseteq Player /\ guarded \subseteq Player /\ ready \subseteq Blue
      /\ ready \subseteq Present /\ ready \cap busy \subseteq named
      /\ character \in [Player -> CharacterState]
  BY DEF Places
<1>1. CASE Connect(c, b)
  <2>1. /\ here' = [here EXCEPT ![b] = @ \cup {c}] /\ \A a \in BlockNo : c \notin here[a]
        /\ busy' = busy \cup ({c} \cap Blue) /\ UNCHANGED <<named, going, guarded, ready>>
    BY <1>1 DEF Connect
  <2>a. c \notin Present /\ c \in Present'
    BY <1>0, <2>1 DEF Present
  <2>b. character' \in [Player -> CharacterState]
    BY <1>0, <1>1 DEF Connect, CharacterState
  <2>2. here' \in [BlockNo -> SUBSET Player] /\ \A x \in BlockNo : here[x] \subseteq here'[x]
    BY <1>0, <2>1
  <2>3. \A x \in BlockNo : \A e \in here'[x] : e \in here[x] \/ (e = c /\ x = b)
    BY <1>0, <2>1
  <2>4. \A x, y \in BlockNo : \A e \in here'[x] \cap here'[y] : x = y
    BY <1>0, <2>1, <2>3
  <2>5. Present \subseteq Present'
    BY <2>2 DEF Present
  <2> QED BY <1>0, <2>1, <2>2, <2>4, <2>5, <2>a, <2>b DEF Places
<1>2. CASE BlockLogout(c, b)
  <2>1. /\ here' = [here EXCEPT ![b] = @ \ {c}] /\ c \in here[b] /\ BlockFree(b)
        /\ named' = named \ {c} /\ going' = going \ {c} /\ guarded' = guarded \ {c}
        /\ ready' = ready \ {c} /\ busy' = busy /\ character' = [character EXCEPT ![c] = "none"]
    BY <1>2 DEF BlockLogout
  <2>a. character' \in [Player -> CharacterState]
    BY <1>0, <2>1 DEF CharacterState
  <2>2. c \notin busy
    BY <2>1 DEF BlockFree
  <2>3. here' \in [BlockNo -> SUBSET Player] /\ \A x \in BlockNo : here'[x] \subseteq here[x]
    BY <1>0, <2>1
  <2>4. \A x \in BlockNo : \A e \in here[x] : e \in here'[x] \/ e = c
    BY <1>0, <2>1
  <2>5. Present \ {c} \subseteq Present'
    BY <2>4 DEF Present
  <2>6. \A x, y \in BlockNo : \A e \in here'[x] \cap here'[y] : x = y
    BY <1>0, <2>3
  <2> QED BY <1>0, <2>1, <2>2, <2>3, <2>5, <2>6, <2>a DEF Places
<1>3. CASE ProcessChar(c, b)
  <2>1. /\ here' = here /\ c \in here[b] /\ named' = named \cup {c} /\ busy' = busy \cup {c}
        /\ UNCHANGED <<going, guarded, ready, character>>
    BY <1>3 DEF ProcessChar
  <2>2. c \in Present /\ Present' = Present
    BY <2>1 DEF Present
  <2> QED BY <1>0, <2>1, <2>2 DEF Places
<1>4. CASE \/ RequestOptions(c, b) \/ BlockLogin(c, b) \/ BreakOff(c, b) \/ GateKicks(c, b) \/ Ask(c, b)
           \/ KillGuildcard(c, b, d) \/ GlobalBan(c, b, d)
  <2>1. /\ here' = here /\ named' = named /\ busy' \subseteq busy
        /\ going' \subseteq going \cup {c, d} /\ UNCHANGED <<guarded, ready, character>>
    <3>7. CASE RequestOptions(c, b)
      BY <3>7 DEF RequestOptions
    <3>1. CASE BlockLogin(c, b)
      BY <3>1 DEF BlockLogin
    <3>2. CASE BreakOff(c, b)
      BY <3>2 DEF BreakOff
    <3>3. CASE GateKicks(c, b)
      BY <3>3 DEF GateKicks, playerVars
    <3>4. CASE Ask(c, b)
      BY <3>4 DEF Ask
    <3>5. CASE KillGuildcard(c, b, d)
      BY <3>5 DEF KillGuildcard
    <3>6. CASE GlobalBan(c, b, d)
      BY <3>6 DEF GlobalBan
    <3> QED BY <1>4, <3>1, <3>2, <3>3, <3>4, <3>5, <3>6, <3>7
  <2>2. Present' = Present
    BY <2>1 DEF Present
  <2> QED BY <1>0, <2>1, <2>2 DEF Places
<1> QED BY <1>1, <1>2, <1>3, <1>4 DEF PlayerSteps

\* The walk over the blocks leaves connection, mail and characters alone.
LEMMA ListingQuiet ==
    ASSUME ListSteps PROVE UNCHANGED <<sg, run, coming, waits, character>>
BY DEF ListSteps, ListBlock, ListUnlocked, SendList, ListClient, playerVars

\* The ship's thread moves nobody.
LEMMA QuietPlaces ==
    ASSUME GateShape, LinkSteps \/ ListSteps
    PROVE  Places' /\ UNCHANGED <<here, named, busy, going, guarded, ready>>
<1>1. UNCHANGED <<here, named, busy, going, guarded, ready>>
  BY DEF ListSteps, LinkSteps, Reconnect, GateLost, NoticeLost, Welcome, LoginReply, LoginRefused, ListBlock,
         ListUnlocked, SendList, ListClient, playerVars
<1>2. Present' = Present
  BY <1>1 DEF Present
<1>3. character' \in [Player -> CharacterState]
  <2>1. character \in [Player -> CharacterState]
    BY DEF GateShape, Places
  <2>2. CASE GateLost
    BY <2>1, <2>2 DEF GateLost, CharacterState
  <2>3. CASE Reconnect \/ NoticeLost \/ Welcome \/ LoginReply \/ LoginRefused
    <3>1. character' = character
      BY <2>3 DEF Reconnect, NoticeLost, Welcome, LoginReply, LoginRefused, playerVars
    <3> QED BY <2>1, <3>1
  <2>4. CASE ListSteps
    BY <2>1, <2>4, ListingQuiet
  <2> QED BY <2>2, <2>3, <2>4 DEF LinkSteps
<1> QED BY <1>1, <1>2, <1>3 DEF GateShape, Places

\* The walk over the blocks leaves connection and mail alone.
LEMMA ListingMail ==
    ASSUME Mail, ListSteps
    PROVE  Mail' /\ UNCHANGED <<sg, run, coming, waits>>
<1>1. UNCHANGED <<sg, run, coming, waits>>
  BY ListingQuiet
<1> QED BY <1>1, MailKept

\* The shape of the states holds initially and in every step.
LEMMA ShapeInit == GateInit => GateShape
<1> SUFFICES ASSUME GateInit PROVE GateShape
  OBVIOUS
<1>1. NobodyOn \in [BlockNo -> SUBSET Player] /\ \A b \in BlockNo : NobodyOn[b] = {}
  BY DEF NobodyOn
<1>2. Places
  BY <1>1 DEF GateInit, Places, CharacterState, Present
<1>3. coming = <<>> /\ coming \in Seq(GatePacket) /\ Len(coming) = 0 /\ DOMAIN coming = {}
  BY DEF GateInit
<1>4. 0 <= MaxComing + 2
  BY GateAssumption
<1>5. Mail
  BY <1>3, <1>4 DEF GateInit, Mail, Addressed
<1>6. Lists
  BY <1>1 DEF GateInit, Lists, NoListing
<1> QED BY <1>2, <1>5, <1>6 DEF GateShape

\* Every step keeps the shape of places, mail and lists.
LEMMA ShapeNext == GateShape /\ [GateNext]_gateVars => GateShape'
<1> SUFFICES ASSUME GateShape, [GateNext]_gateVars PROVE GateShape'
  OBVIOUS
<1>1. CASE LinkSteps
  <2>1. Lists'
    BY <1>1, LinkLists DEF GateShape
  <2>2. Mail'
    BY <1>1, LinkMail DEF GateShape, LinkSteps
  <2> QED BY <1>1, <2>1, <2>2, QuietPlaces DEF GateShape
<1>2. CASE Reads
  <2>1. Lists'
    BY <1>2, ReadShape DEF GateShape, Lists
  <2> QED BY <1>2, <2>1, ReadMail, ReadPlaces DEF GateShape
<1>3. CASE ListSteps
  <2>1. Mail'
    BY <1>3, ListingMail DEF GateShape
  <2> QED BY <1>3, <2>1, ListingLists, QuietPlaces DEF GateShape
<1>4. ASSUME NEW c \in Player, NEW b \in BlockNo, NEW d \in Player, PlayerSteps(c, b, d)
      PROVE  GateShape'
  <2>1. Mail'
    BY <1>4, PlayerMail DEF PlayerSteps
  <2> QED BY <1>4, <2>1, PlayerPlaces, PlayerLists DEF GateShape
<1>5. CASE UNCHANGED gateVars
  <2>1. Lists' /\ Mail' /\ Present' = Present
    BY <1>5 DEF gateVars, GateShape, Lists, Mail, Addressed, Present
  <2>2. Places'
    BY <1>5, <2>1 DEF gateVars, GateShape, Places
  <2> QED BY <2>1, <2>2 DEF GateShape
<1> QED BY <1>1, <1>2, <1>3, <1>4, <1>5, FourKinds

\* That shape always holds.
LEMMA SpecShape == GateSpec => []GateShape
<1>1. GateInit => GateShape
  BY ShapeInit
<1> QED BY <1>1, ShapeNext, PTL DEF GateSpec

\* The connection's state keeps its types: whose mutex is held has a name or is asking for
\* its character and options, and no more is on its way than two packets over the bound
\* (shipgate_conn_t, block_t.clients).
THEOREM GateFits == GateSpec => []GateTypeOK
<1>1. GateShape => GateTypeOK
  BY PresentPlayers DEF GateShape, Places, Mail, Lists, GateTypeOK
<1> QED BY <1>1, SpecShape, PTL

-----------------------------------------------------------------------------
(* The shipgate misses nobody.                                             *)

\* The blocks' threads have nothing taken from what is on its way.
LEMMA NothingOvertaken ==
    ASSUME GateShape, NEW c \in Player, NEW b \in BlockNo, NEW d \in Player, PlayerSteps(c, b, d)
    PROVE  \A i \in DOMAIN coming : i \in DOMAIN coming' /\ coming'[i] = coming[i]
<1> USE DEF GateShape
<1>0. coming \in Seq(GatePacket)
  BY DEF Mail
<1>1. ASSUME NEW p \in GatePacket, coming' = Append(coming, p)
      PROVE  \A i \in DOMAIN coming : i \in DOMAIN coming' /\ coming'[i] = coming[i]
  BY <1>0, <1>1, OneAdded
<1>2. ASSUME NEW q \in GatePacket, Addressed(q), q.kind \in Question, q.kind # "options", Sent(c, q), UNCHANGED <<sg, run>>
      PROVE  \A i \in DOMAIN coming : i \in DOMAIN coming' /\ coming'[i] = coming[i]
  <2>1. UNCHANGED <<coming, waits>> \/ \E p \in GatePacket : coming' = Append(coming, p)
    BY <1>2, SentMail
  <2> QED BY <1>1, <2>1
<1>3. CASE Connect(c, b)
  <2>1. CASE c \in Blue /\ Written
    <3>1. PICK ok \in BOOLEAN : coming' = Append(coming, [BlueRequests(c, b)[1] EXCEPT !.ok = ok])
      BY <1>3, <2>1 DEF Connect
    <3>2. coming' = Append(coming, [CharRequest(c) EXCEPT !.ok = ok]) /\ [CharRequest(c) EXCEPT !.ok = ok] \in GatePacket
      BY <2>1, <3>1, BluePackets
    <3> QED BY <1>1, <3>2
  <2>2. CASE ~(c \in Blue /\ Written)
    BY <1>3, <2>2 DEF Connect
  <2> QED BY <2>1, <2>2
<1>9. CASE RequestOptions(c, b)
  <2>1. CASE Written
    <3>1. c \in Blue /\ coming' = Append(coming, BlueRequests(c, b)[2])
      BY <1>9, <2>1 DEF RequestOptions, Places
    <3>2. coming' = Append(coming, OptionRequest(c, b)) /\ OptionRequest(c, b) \in GatePacket
      BY <3>1, BluePackets
    <3> QED BY <1>1, <3>2
  <2>2. CASE ~Written
    BY <1>9, <2>2 DEF RequestOptions
  <2> QED BY <2>1, <2>2
<1>4. CASE ProcessChar(c, b) \/ BreakOff(c, b) \/ BlockLogout(c, b) \/ KillGuildcard(c, b, d)
  BY <1>4 DEF ProcessChar, BreakOff, BlockLogout, KillGuildcard
<1>5. CASE BlockLogin(c, b)
  <2>1. UNCHANGED coming \/ \E k \in {"refused", "guard"} : coming' = Append(coming, Note(k, c, b, FALSE))
    BY <1>5 DEF BlockLogin
  <2>2. \A k \in {"refused", "guard"} : Note(k, c, b, FALSE) \in GatePacket
    BY DEF Note, GatePacket
  <2> QED BY <1>1, <2>1, <2>2
<1>6. CASE GateKicks(c, b)
  <2>1. coming' = Append(coming, Note("kick", c, b, TRUE)) /\ Note("kick", c, b, TRUE) \in GatePacket
    BY <1>6 DEF GateKicks, Note, GatePacket
  <2> QED BY <1>1, <2>1
<1>7. CASE Ask(c, b)
  <2>1. PICK q \in Questions(c, b) : Sent(c, q)
    BY <1>7 DEF Ask
  <2>2. UNCHANGED <<sg, run>>
    BY <1>7 DEF Ask, linkVars
  <2>3. q \in GatePacket /\ Addressed(q) /\ q.kind \in Question /\ q.kind # "options"
    BY <2>1, QuestionPackets
  <2> QED BY <1>2, <2>1, <2>2, <2>3
<1>8. CASE GlobalBan(c, b, d)
  <2>1. Sent(c, BanRequest(c)) /\ UNCHANGED <<sg, run>>
    BY <1>8 DEF GlobalBan, linkVars
  <2>2. BanRequest(c) \in GatePacket /\ Addressed(BanRequest(c)) /\ BanRequest(c).kind = "ban"
    BY BanPacket
  <2>3. BanRequest(c).kind \in Question /\ BanRequest(c).kind # "options"
    BY <2>2 DEF Question
  <2> QED BY <1>2, <2>1, <2>2, <2>3
<1> QED BY <1>3, <1>4, <1>5, <1>6, <1>7, <1>8, <1>9 DEF PlayerSteps

\* The strengthening: of the blocks that are not left, whoever is there and has not been
\* told of is still to be looked at or just found; and a refusal is for the block as well.
RefusedOn(c, b) ==
    \E i \in DOMAIN coming : coming[i].kind = "refused" /\ coming[i].who = c /\ coming[i].block = b
Due(b) == (here[b] \cap named) \ (busy \cup going)
Underway(b) == IF listing.at = b THEN listing.look \cup listing.found ELSE {}
Told ==
    sg = "keyed" => \A b \in BlockNo \ listing.left : \A c \in Due(b) :
                        c \in known[b] \cup Underway(b) \/ RefusedOn(c, b)

\* Reading leaves nobody untold.
LEMMA ReadTold == ASSUME GateShape, Told, Reads PROVE Told'
<1>0. /\ sg = "keyed" /\ coming # <<>> /\ coming' = Tail(coming)
      /\ UNCHANGED <<sg, run, listing, known, here, named, busy>>
      /\ going \subseteq going'
      /\ Next1.kind = "refused" => going' = going \cup FoundOnBlock(Next1)
  BY ReadShape
<1> SUFFICES ASSUME NEW b \in BlockNo, b \notin listing.left, NEW c \in Due(b)'
             PROVE  c \in known[b] \cup Underway(b) \/ RefusedOn(c, b)'
  BY <1>0 DEF Told, Underway
<1>1. c \in Due(b) /\ c \in here[b] /\ c \notin going'
  BY <1>0 DEF Due
<1>2. c \in known[b] \cup Underway(b) \/ RefusedOn(c, b)
  BY <1>0, <1>1 DEF Told
<1>3. CASE RefusedOn(c, b)
  <2>1. PICK i \in DOMAIN coming : coming[i].kind = "refused" /\ coming[i].who = c /\ coming[i].block = b
    BY <1>3 DEF RefusedOn
  <2>2. coming \in Seq(GatePacket) /\ Next1 = coming[1]
    BY <1>0, NextPacket DEF GateShape, Mail
  <2>3. i # 1
    <3>1. SUFFICES ASSUME i = 1 PROVE FALSE
      OBVIOUS
    <3>2. c \in FoundOnBlock(Next1) /\ Next1.kind = "refused"
      BY <1>1, <2>1, <2>2, <3>1 DEF FoundOnBlock
    <3> QED BY <1>0, <1>1, <3>2
  <2>4. i - 1 \in DOMAIN coming' /\ coming'[i - 1] = coming[i]
    BY <1>0, <2>2, <2>3, FirstTaken
  <2> QED BY <2>1, <2>4 DEF RefusedOn
<1> QED BY <1>2, <1>3

\* The walk over the blocks leaves nobody untold.
LEMMA ListTold ==
    ASSUME GateShape, Told, ListSteps
    PROVE  Told'
<1>0. /\ UNCHANGED <<here, named, busy, going, sg, coming>>
      /\ 0 \notin BlockNo
      /\ \A b, c : RefusedOn(c, b)' = RefusedOn(c, b)
      /\ \A b \in BlockNo : Due(b)' = Due(b)
  <2>1. UNCHANGED <<here, named, busy, going, sg, coming>>
    BY QuietPlaces, ListingMail DEF GateShape
  <2> QED BY <2>1, GateAssumption DEF RefusedOn, Due
<1>a. /\ listing \in [left : SUBSET BlockNo, at : BlockNo \cup {0}, look : SUBSET Player,
                      found : SUBSET Player, locked : BOOLEAN]
      /\ known \in [BlockNo -> SUBSET Player]
      /\ ~listing.locked => listing.look = {}
  BY DEF GateShape, Lists
<1> SUFFICES ASSUME sg = "keyed", NEW b \in BlockNo, b \notin listing'.left, NEW c \in Due(b)
             PROVE  c \in known'[b] \cup Underway(b)' \/ RefusedOn(c, b)
  BY <1>0 DEF Told
<1>1. CASE ListBlock
  <2>1. PICK x \in listing.left :
               /\ x \in BlockNo /\ listing.at = 0
               /\ listing' = [left |-> listing.left \ {x}, at |-> x,
                              look |-> here[x], found |-> {}, locked |-> TRUE]
    BY <1>1, ListBlockShape DEF GateShape
  <2>2. known' = known
    BY <1>1 DEF ListBlock
  <2>3. CASE b = x
    BY <2>1, <2>3 DEF Underway, Due
  <2>4. CASE b # x
    <3>1. b \notin listing.left /\ Underway(b) = {}
      BY <1>0, <2>1, <2>4 DEF Underway
    <3> QED BY <2>2, <3>1 DEF Told
  <2> QED BY <2>3, <2>4
<1>2. CASE ListUnlocked
  <2>1. listing'.left = listing.left /\ listing'.at = listing.at /\ known' = known
        /\ listing'.look = listing.look /\ listing'.found = listing.found
    BY <1>a, <1>2 DEF ListUnlocked
  <2>2. Underway(b)' = Underway(b)
    BY <2>1 DEF Underway
  <2> QED BY <2>1, <2>2 DEF Told
<1>3. CASE SendList
  <2>1. listing'.left = listing.left /\ listing.look = {}
    BY <1>a, <1>3 DEF SendList, NoListing
  <2>2. listing.at \in BlockNo
    BY <1>a, <1>3 DEF SendList
  <2>3. known' = [known EXCEPT ![listing.at] = @ \cup listing.found]
    BY <1>3 DEF SendList
  <2>4. c \in known[b] \cup Underway(b) \/ RefusedOn(c, b)
    BY <2>1 DEF Told
  <2>5. CASE listing.at = b
    <3>1. known'[b] = known[b] \cup listing.found /\ Underway(b) = listing.found
      BY <1>a, <2>1, <2>2, <2>3, <2>5 DEF Underway
    <3> QED BY <2>4, <3>1
  <2>6. CASE listing.at # b
    <3>1. known'[b] = known[b] /\ Underway(b) = {}
      BY <1>a, <2>2, <2>3, <2>6 DEF Underway
    <3> QED BY <2>4, <3>1
  <2> QED BY <2>5, <2>6
<1>4. ASSUME NEW e \in Player, ListClient(e)
      PROVE  c \in known'[b] \cup Underway(b)' \/ RefusedOn(c, b)
  <2>1. /\ known' = known /\ listing'.left = listing.left /\ listing'.at = listing.at
        /\ listing'.look = listing.look \ {e}
        /\ listing'.found = IF e \in named THEN listing.found \cup {e} ELSE listing.found
    BY <1>a, <1>4 DEF ListClient, Listed
  <2>2. c \in known[b] \cup Underway(b) \/ RefusedOn(c, b)
    BY <2>1 DEF Told
  <2>3. c \in Underway(b) => c \in Underway(b)'
    <3>1. c \in named
      BY DEF Due
    <3> QED BY <2>1, <3>1 DEF Underway
  <2> QED BY <2>1, <2>2, <2>3
<1> QED BY <1>1, <1>2, <1>3, <1>4 DEF ListSteps

\* Whoever comes while blocks are counted is counted or tells so itself.
LEMMA PlayerTold ==
    ASSUME GateShape, Told, NEW c \in Player, NEW b \in BlockNo, NEW d \in Player, PlayerSteps(c, b, d)
    PROVE  Told'
<1>0. /\ here \in [BlockNo -> SUBSET Player] /\ known \in [BlockNo -> SUBSET Player]
      /\ \A x, y \in BlockNo : \A e \in here[x] \cap here[y] : x = y
      /\ named \subseteq Present
  BY DEF GateShape, Places, Lists
<1>a. sg' = sg /\ listing' = listing
  BY Zenon DEF PlayerSteps, Connect, RequestOptions, ProcessChar, BlockLogin, BreakOff, BlockLogout, GateKicks, Ask,
               KillGuildcard, GlobalBan, linkVars
<1> SUFFICES ASSUME sg = "keyed", NEW x \in BlockNo, x \notin listing.left, NEW e \in Due(x)'
             PROVE  e \in known'[x] \cup Underway(x) \/ RefusedOn(e, x)'
  BY <1>a DEF Told, Underway
<1>b. RefusedOn(e, x) => RefusedOn(e, x)'
  BY NothingOvertaken DEF RefusedOn
<1>c. e \in Due(x) => e \in known[x] \cup Underway(x) \/ RefusedOn(e, x)
  BY DEF Told
<1>d. e \in here'[x] /\ e \in named' /\ e \notin busy' /\ e \notin going'
  BY DEF Due
<1>1. ASSUME e \in Due(x), known' = known PROVE e \in known'[x] \cup Underway(x) \/ RefusedOn(e, x)'
  BY <1>b, <1>c, <1>1
<1>2. CASE Connect(c, b)
  <2>1. /\ here' = [here EXCEPT ![b] = @ \cup {c}] /\ \A a \in BlockNo : c \notin here[a]
        /\ busy \subseteq busy' /\ UNCHANGED <<named, going, known>>
    BY <1>2 DEF Connect
  <2>2. e # c
    BY <1>0, <1>d, <2>1 DEF Present
  <2>3. e \in here[x]
    BY <1>0, <1>d, <2>1, <2>2
  <2> QED BY <1>1, <1>d, <2>1, <2>3 DEF Due
<1>7. CASE RequestOptions(c, b)
  <2>1. busy' = busy \ {c} /\ c \notin named /\ UNCHANGED <<here, named, going, known>>
    BY <1>7 DEF RequestOptions
  <2> QED BY <1>1, <1>d, <2>1 DEF Due
<1>3. CASE ProcessChar(c, b)
  <2>1. here' = here /\ named' = named \cup {c} /\ busy' = busy \cup {c} /\ UNCHANGED <<going, known>>
    BY <1>3 DEF ProcessChar
  <2> QED BY <1>1, <1>d, <2>1 DEF Due
<1>4. CASE BlockLogin(c, b)
  <2>1. /\ c \in here[b] /\ busy' = busy \ {c} /\ UNCHANGED <<here, named, going>>
        /\ \/ known' = [known EXCEPT ![b] = @ \cup {c}]
           \/ known' = known /\ coming' = Append(coming, Note("refused", c, b, FALSE))
    BY <1>4 DEF BlockLogin, Written
  <2>2. CASE e = c
    <3>1. x = b
      BY <1>0, <1>d, <2>1, <2>2
    <3>2. CASE known' = [known EXCEPT ![b] = @ \cup {c}]
      BY <1>0, <2>2, <3>1, <3>2
    <3>3. CASE coming' = Append(coming, Note("refused", c, b, FALSE))
      <4> DEFINE p == Note("refused", c, b, FALSE)
      <4>1. p \in GatePacket /\ p.kind = "refused" /\ p.who = c /\ p.block = b
        BY DEF Note, GatePacket
      <4>2. coming' = Append(coming, p) /\ coming \in Seq(GatePacket)
        BY <3>3 DEF GateShape, Mail
      <4> HIDE DEF p
      <4>3. \E i \in DOMAIN coming' : coming'[i] = p
        <5>1. Len(coming) + 1 \in DOMAIN Append(coming, p) /\ Append(coming, p)[Len(coming) + 1] = p
          BY <4>1, <4>2, OneAdded
        <5> QED BY <4>2, <5>1
      <4> QED BY <2>2, <3>1, <4>1, <4>3 DEF RefusedOn
    <3> QED BY <2>1, <3>2, <3>3
  <2>3. CASE e # c
    <3>1. e \in Due(x)
      BY <1>d, <2>1, <2>3 DEF Due
    <3>2. known[x] \subseteq known'[x]
      BY <1>0, <2>1
    <3> QED BY <1>b, <1>c, <3>1, <3>2
  <2> QED BY <2>2, <2>3
<1>5. CASE BreakOff(c, b) \/ GateKicks(c, b) \/ Ask(c, b) \/ KillGuildcard(c, b, d) \/ GlobalBan(c, b, d)
  <2>1. UNCHANGED <<here, named, busy, known>> /\ going \subseteq going'
    <3>2. CASE BreakOff(c, b)
      BY <3>2 DEF BreakOff
    <3>3. CASE GateKicks(c, b)
      BY <3>3 DEF GateKicks, playerVars
    <3>4. CASE Ask(c, b)
      BY <3>4 DEF Ask
    <3>5. CASE KillGuildcard(c, b, d)
      BY <3>5 DEF KillGuildcard
    <3>6. CASE GlobalBan(c, b, d)
      BY <3>6 DEF GlobalBan
    <3> QED BY <1>5, <3>2, <3>3, <3>4, <3>5, <3>6
  <2> QED BY <1>1, <1>d, <2>1 DEF Due
<1>6. CASE BlockLogout(c, b)
  <2>1. /\ here' = [here EXCEPT ![b] = @ \ {c}] /\ c \in here[b] /\ busy' = busy
        /\ named' = named \ {c} /\ going' = going \ {c}
        /\ known' = [known EXCEPT ![b] = @ \ {c}] \/ known' = known
    BY <1>6 DEF BlockLogout
  <2>2. e # c
    BY <1>d, <2>1
  <2>3. e \in Due(x)
    BY <1>0, <1>d, <2>1, <2>2 DEF Due
  <2>4. e \in known[x] => e \in known'[x]
    BY <1>0, <2>1, <2>2
  <2> QED BY <1>b, <1>c, <2>3, <2>4
<1> QED BY <1>2, <1>3, <1>4, <1>5, <1>6, <1>7 DEF PlayerSteps

\* Nobody is there to be told of at the start.
LEMMA ToldInit == GateInit => Told
BY DEF GateInit, Told

\* Every step leaves nobody untold.
LEMMA ToldNext == GateShape /\ Told /\ [GateNext]_gateVars => Told'
<1> SUFFICES ASSUME GateShape, Told, [GateNext]_gateVars PROVE Told'
  OBVIOUS
<1>1. CASE LinkSteps
  <2>1. CASE LoginReply
    <3>1. listing'.left = BlockNo
      BY <2>1 DEF LoginReply, NoListing
    <3> QED BY <3>1 DEF Told
  <2>2. CASE Reconnect \/ GateLost \/ NoticeLost \/ Welcome \/ LoginRefused
    <3>1. sg' # "keyed"
      BY <2>2 DEF Reconnect, GateLost, NoticeLost, Welcome, LoginRefused
    <3> QED BY <3>1 DEF Told
  <2> QED BY <1>1, <2>1, <2>2 DEF LinkSteps
<1>2. CASE UNCHANGED gateVars
  BY <1>2 DEF gateVars, Told, Due, Underway, RefusedOn
<1> QED BY <1>1, <1>2, ReadTold, ListTold, PlayerTold, FourKinds

\* Once the shipgate has been told who is on a block it misses nobody who is there and has a
\* name, whoever came, went, was marked or refused while the ship's thread walked the block's
\* list (shipgate_send_clients, shipgate_send_block_login, client_destroy_connection).
THEOREM NobodyMissed == GateSpec => []GateMissesNobody
<1>1. GateInit => GateShape /\ Told
  BY ShapeInit, ToldInit
<1>2. GateShape /\ Told /\ [GateNext]_gateVars => (GateShape /\ Told)'
  BY ShapeNext, ToldNext
<1>3. GateShape /\ Told => GateMissesNobody
  <2> SUFFICES ASSUME GateShape, Told, NEW b \in BlockNo, sg = "keyed", ~ToBeListed(b),
                      NEW c \in (here[b] \cap named) \ (busy \cup going)
               PROVE  c \in known[b] \/ Refused(c)
    BY DEF GateMissesNobody
  <2>1. b \notin listing.left /\ Underway(b) = {} /\ c \in Due(b)
    BY DEF ToBeListed, Underway, Due
  <2>2. c \in known[b] \/ RefusedOn(c, b)
    BY <2>1 DEF Told
  <2> QED BY <2>2 DEF RefusedOn, Refused
<1> QED BY <1>1, <1>2, <1>3, PTL DEF GateSpec

-----------------------------------------------------------------------------
(* A player's own character comes before its own options.                  *)

\* The strengthening does not ask whether the options have come: as long as a Blue Burst
\* player's character is awaited the connection is there and both of its own answers are on
\* their way in their order, or the first of them while the second question is still to be
\* asked; and whoever is on the ship has had its character asked for, or missed.
AnswerComing(c) == \E i \in DOMAIN coming : coming[i].kind = "load" /\ coming[i].who = c
OwnOrder ==
    \A c \in Blue :
        /\ c \in Present => character[c] # "none"
        /\ character[c] = "asked" =>
               /\ sg = "keyed"
               /\ OwnAnswersComing(c) \/ (c \in busy \ named /\ AnswerComing(c))

\* An answer that is not the one read is still on its way.
LEMMA NotRead ==
    ASSUME GateShape, coming # <<>>, coming' = Tail(coming), NEW i \in DOMAIN coming, i # 1
    PROVE  i \in Nat /\ i - 1 \in DOMAIN coming' /\ coming'[i - 1] = coming[i]
<1>1. coming \in Seq(GatePacket)
  BY DEF GateShape, Mail
<1> QED BY <1>1, FirstTaken

\* Reading keeps a connection's own answers in order.
LEMMA ReadOrder == ASSUME GateShape, OwnOrder, Reads PROVE OwnOrder'
<1>0. /\ coming # <<>> /\ coming' = Tail(coming) /\ UNCHANGED <<sg, here, named, busy>>
      /\ \A c \in Player : character[c] # "none" => character'[c] # "none"
      /\ \A c \in Player : character'[c] = "asked" => character[c] = "asked"
      /\ Next1.kind = "load" => /\ FoundAnywhere(Next1) \cap busy = {}
                                /\ \A c \in FoundAnywhere(Next1) \cap Blue : character'[c] # "asked"
  BY ReadShape
<1>1. coming \in Seq(GatePacket) /\ Next1 = coming[1] /\ Blue \subseteq Player
  BY <1>0, NextPacket, GateAssumption DEF GateShape, Mail
<1>2. Present' = Present
  BY <1>0 DEF Present
<1>a. busy \subseteq Present
  BY DEF GateShape, Places
<1> SUFFICES ASSUME NEW c \in Blue, character'[c] = "asked"
             PROVE  OwnAnswersComing(c)' \/ (c \in busy' \ named' /\ AnswerComing(c)')
  BY <1>0, <1>1, <1>2 DEF OwnOrder
<1>3. OwnAnswersComing(c) \/ (c \in busy \ named /\ AnswerComing(c))
  BY <1>0, <1>1 DEF OwnOrder
<1>4. ASSUME NEW i \in DOMAIN coming, coming[i].kind = "load", coming[i].who = c, c \in Present PROVE i # 1
  <2> SUFFICES ASSUME i = 1 PROVE FALSE
    OBVIOUS
  <2>1. Next1.kind = "load" /\ Next1.who = c
    BY <1>1, <1>4
  <2>2. c \in FoundAnywhere(Next1)
    BY <1>4, <2>1 DEF FoundAnywhere
  <2> QED BY <1>0, <2>1, <2>2
<1>5. CASE OwnAnswersComing(c)
  <2>1. PICK i, j \in DOMAIN coming : \E b \in BlockNo :
          /\ c \in here[b] /\ i < j /\ coming[i].kind = "load" /\ coming[i].who = c
          /\ coming[j] = OptionRequest(c, b)
    BY <1>5 DEF OwnAnswersComing
  <2>2. PICK b \in BlockNo :
          /\ c \in here[b] /\ i < j /\ coming[i].kind = "load" /\ coming[i].who = c
          /\ coming[j] = OptionRequest(c, b)
    BY <2>1
  <2>3. i # 1
    BY <1>4, <2>2 DEF Present
  <2>4. i \in Nat \ {0} /\ j \in Nat \ {0}
    BY <1>0, <1>1, FirstTaken
  <2>5. j # 1 /\ i - 1 < j - 1
    BY <2>2, <2>3, <2>4
  <2>6. /\ i - 1 \in DOMAIN coming' /\ coming'[i - 1] = coming[i]
        /\ j - 1 \in DOMAIN coming' /\ coming'[j - 1] = coming[j]
    BY <1>0, <2>3, <2>5, NotRead
  <2>7. \E i2, j2 \in DOMAIN coming' : \E b2 \in BlockNo :
          /\ c \in here'[b2] /\ i2 < j2 /\ coming'[i2].kind = "load" /\ coming'[i2].who = c
          /\ coming'[j2] = OptionRequest(c, b2)
    BY <1>0, <2>2, <2>5, <2>6
  <2> QED BY <2>7 DEF OwnAnswersComing
<1>6. CASE c \in busy \ named /\ AnswerComing(c)
  <2>1. PICK i \in DOMAIN coming : coming[i].kind = "load" /\ coming[i].who = c
    BY <1>6 DEF AnswerComing
  <2>2. i - 1 \in DOMAIN coming' /\ coming'[i - 1] = coming[i]
    BY <1>0, <1>4, <1>6, <1>a, <2>1, NotRead
  <2> QED BY <1>0, <1>6, <2>1, <2>2 DEF AnswerComing
<1> QED BY <1>3, <1>5, <1>6

\* What the blocks' threads do leaves those answers on their way.
LEMMA OrderKept ==
    ASSUME GateShape, NEW c \in Player, NEW b \in BlockNo, NEW d \in Player, PlayerSteps(c, b, d),
           NEW e \in Blue, \A x \in BlockNo : e \in here[x] => e \in here'[x]
    PROVE  /\ OwnAnswersComing(e) => OwnAnswersComing(e)'
           /\ AnswerComing(e) => AnswerComing(e)'
BY NothingOvertaken DEF OwnAnswersComing, AnswerComing

\* Who asks for a Blue Burst player's character and its options (bb_process_login), and that
\* nobody else changes what is asked or who is between the two questions.
LEMMA NotAskedOtherwise ==
    ASSUME GateShape, NEW c \in Player, NEW b \in BlockNo, NEW d \in Player, PlayerSteps(c, b, d),
           ~Connect(c, b), ~RequestOptions(c, b), NEW e \in Blue
    PROVE  \/ e \notin Present' /\ character'[e] = "none"
           \/ /\ character'[e] = character[e] /\ (e \in Present' => e \in Present)
              /\ \A x \in BlockNo : e \in here[x] => e \in here'[x]
              /\ e \in busy \ named => e \in busy' \ named'
<1>0. /\ here \in [BlockNo -> SUBSET Player] /\ e \in Player /\ character \in [Player -> CharacterState]
      /\ \A x, y \in BlockNo : \A p \in here[x] \cap here[y] : x = y
  BY GateAssumption DEF GateShape, Places
<1>1. CASE BlockLogout(c, b)
  <2>1. /\ here' = [here EXCEPT ![b] = @ \ {c}] /\ character' = [character EXCEPT ![c] = "none"]
        /\ named' = named \ {c} /\ busy' = busy /\ c \in here[b]
    BY <1>1 DEF BlockLogout
  <2>2. CASE e = c
    <3>1. \A x \in BlockNo : e \notin here'[x]
      BY <1>0, <2>1, <2>2
    <3> QED BY <1>0, <2>1, <2>2, <3>1 DEF Present
  <2>3. CASE e # c
    <3>1. \A x \in BlockNo : (e \in here[x]) = (e \in here'[x])
      BY <1>0, <2>1, <2>3
    <3>2. e \in Present' => e \in Present
      BY <3>1 DEF Present
    <3> QED BY <1>0, <2>1, <2>3, <3>1, <3>2
  <2> QED BY <2>2, <2>3
<1>2. CASE ProcessChar(c, b)
  <2>1. UNCHANGED <<here, character>> /\ named' = named \cup {c} /\ busy' = busy \cup {c} /\ c \notin busy
    BY <1>2 DEF ProcessChar, BlockFree
  <2> QED BY <2>1 DEF Present
<1>3. CASE BlockLogin(c, b)
  <2>1. UNCHANGED <<here, character, named>> /\ busy' = busy \ {c} /\ c \in named
    BY <1>3 DEF BlockLogin
  <2> QED BY <2>1 DEF Present
<1>4. CASE \/ BreakOff(c, b) \/ GateKicks(c, b) \/ Ask(c, b) \/ KillGuildcard(c, b, d) \/ GlobalBan(c, b, d)
  <2>1. UNCHANGED <<here, character, named, busy>>
    <3>2. CASE BreakOff(c, b)
      BY <3>2 DEF BreakOff
    <3>3. CASE GateKicks(c, b)
      BY <3>3 DEF GateKicks, playerVars
    <3>4. CASE Ask(c, b)
      BY <3>4 DEF Ask
    <3>5. CASE KillGuildcard(c, b, d)
      BY <3>5 DEF KillGuildcard
    <3>6. CASE GlobalBan(c, b, d)
      BY <3>6 DEF GlobalBan
    <3> QED BY <1>4, <3>2, <3>3, <3>4, <3>5, <3>6
  <2> QED BY <2>1 DEF Present
<1> QED BY <1>1, <1>2, <1>3, <1>4 DEF PlayerSteps

\* A client comes, and asks for its character.
LEMMA ConnectOrder ==
    ASSUME GateShape, OwnOrder, NEW c \in Player, NEW b \in BlockNo, Connect(c, b), NEW e \in Blue
    PROVE  /\ e \in Present' => character'[e] # "none"
           /\ character'[e] = "asked" =>
                  /\ sg' = "keyed"
                  /\ OwnAnswersComing(e)' \/ (e \in busy' \ named' /\ AnswerComing(e)')
<1>0. /\ here \in [BlockNo -> SUBSET Player] /\ character \in [Player -> CharacterState] /\ e \in Player
      /\ coming \in Seq(GatePacket) /\ named \subseteq Present
  BY GateAssumption DEF GateShape, Places, Mail
<1>1. /\ here' = [here EXCEPT ![b] = @ \cup {c}] /\ \A a \in BlockNo : c \notin here[a]
      /\ busy' = busy \cup ({c} \cap Blue) /\ UNCHANGED <<sg, named>>
  BY DEF Connect, linkVars
<1>2. \A x \in BlockNo : e \in here[x] => e \in here'[x]
  BY <1>0, <1>1
<1>3. PlayerSteps(c, b, c)
  BY DEF PlayerSteps
<1>4. CASE e # c
  <2>1. character'[e] = character[e]
    BY <1>0, <1>4 DEF Connect
  <2>2. \A x \in BlockNo : e \in here'[x] => e \in here[x]
    BY <1>0, <1>1, <1>4
  <2>3. e \in Present' => e \in Present
    BY <2>2 DEF Present
  <2>4. e \in busy \ named => e \in busy' \ named'
    BY <1>1
  <2> QED BY <1>1, <1>2, <1>3, <2>1, <2>3, <2>4, OrderKept DEF OwnOrder
<1>5. CASE e = c /\ Written
  <2>1. PICK ok \in BOOLEAN : coming' = Append(coming, [BlueRequests(c, b)[1] EXCEPT !.ok = ok])
    BY <1>5 DEF Connect
  <2> DEFINE p == [CharRequest(c) EXCEPT !.ok = ok]
  <2>2. p \in GatePacket /\ p.kind = "load" /\ p.who = c /\ coming' = Append(coming, p)
    BY <1>5, <2>1, BluePackets
  <2> HIDE DEF p
  <2>3. Len(coming) + 1 \in DOMAIN coming' /\ coming'[Len(coming) + 1] = p
    <3>1. Len(coming) + 1 \in DOMAIN Append(coming, p) /\ Append(coming, p)[Len(coming) + 1] = p
      BY <1>0, <2>2, OneAdded
    <3> QED BY <2>2, <3>1
  <2>4. AnswerComing(e)'
    BY <1>5, <2>2, <2>3 DEF AnswerComing
  <2>5. c \notin named' /\ c \in busy'
    BY <1>0, <1>1, <1>5 DEF Present
  <2>6. character'[e] = "asked" /\ sg' = "keyed"
    BY <1>0, <1>1, <1>5 DEF Connect, Written
  <2> QED BY <1>5, <2>4, <2>5, <2>6
<1>6. CASE e = c /\ ~Written
  BY <1>0, <1>6 DEF Connect
<1> QED BY <1>4, <1>5, <1>6

\* It asks for its options.
LEMMA OptionsOrder ==
    ASSUME GateShape, OwnOrder, NEW c \in Player, NEW b \in BlockNo, RequestOptions(c, b), NEW e \in Blue
    PROVE  /\ e \in Present' => character'[e] # "none"
           /\ character'[e] = "asked" =>
                  /\ sg' = "keyed"
                  /\ OwnAnswersComing(e)' \/ (e \in busy' \ named' /\ AnswerComing(e)')
<1>0. coming \in Seq(GatePacket)
  BY DEF GateShape, Mail
<1>1. /\ UNCHANGED <<sg, here, named, character>> /\ busy' = busy \ {c} /\ c \in here[b]
  BY DEF RequestOptions, linkVars
<1>2. Present' = Present
  BY <1>1 DEF Present
<1>3. PlayerSteps(c, b, c)
  BY DEF PlayerSteps
<1>4. /\ OwnAnswersComing(e) => OwnAnswersComing(e)'
      /\ AnswerComing(e) => AnswerComing(e)'
  BY <1>1, <1>3, OrderKept
<1> SUFFICES ASSUME character[e] = "asked", e = c, AnswerComing(e), sg = "keyed"
             PROVE  OwnAnswersComing(e)'
  BY <1>1, <1>2, <1>4 DEF OwnOrder
<1> DEFINE q == OptionRequest(c, b)
           n == Len(coming)
<1>5. q \in GatePacket /\ coming' = Append(coming, q)
  <2>1. coming' = Append(coming, BlueRequests(c, b)[2])
    BY DEF RequestOptions, Written
  <2>2. c \in Blue /\ TRUE \in BOOLEAN
    OBVIOUS
  <2>3. BlueRequests(c, b)[2] = q /\ q \in GatePacket
    BY <2>2, BluePackets
  <2> QED BY <2>1, <2>3
<1>6. PICK i \in DOMAIN coming : coming[i].kind = "load" /\ coming[i].who = c
  BY DEF AnswerComing
<1> HIDE DEF q
<1>7. /\ n + 1 \in DOMAIN coming' /\ coming'[n + 1] = q /\ i < n + 1
      /\ i \in DOMAIN coming' /\ coming'[i] = coming[i]
  BY <1>0, <1>5, OneAdded
<1> HIDE DEF n
<1>8. \E i2, j2 \in DOMAIN coming' : \E b2 \in BlockNo :
        /\ c \in here'[b2] /\ i2 < j2 /\ coming'[i2].kind = "load" /\ coming'[i2].who = c
        /\ coming'[j2] = OptionRequest(c, b2)
  BY <1>1, <1>6, <1>7 DEF q
<1> QED BY <1>8 DEF OwnAnswersComing

\* What players do keeps a connection's own answers in order.
LEMMA PlayerOrder ==
    ASSUME GateShape, OwnOrder, NEW c \in Player, NEW b \in BlockNo, NEW d \in Player, PlayerSteps(c, b, d)
    PROVE  OwnOrder'
<1>1. CASE Connect(c, b)
  BY <1>1, ConnectOrder DEF OwnOrder
<1>2. CASE RequestOptions(c, b)
  BY <1>2, OptionsOrder DEF OwnOrder
<1>3. ASSUME ~Connect(c, b), ~RequestOptions(c, b), NEW e \in Blue
      PROVE  /\ e \in Present' => character'[e] # "none"
             /\ character'[e] = "asked" =>
                    /\ sg' = "keyed"
                    /\ OwnAnswersComing(e)' \/ (e \in busy' \ named' /\ AnswerComing(e)')
  <2>1. sg' = sg
    BY Zenon DEF PlayerSteps, Connect, RequestOptions, ProcessChar, BlockLogin, BreakOff, BlockLogout,
                 GateKicks, Ask, KillGuildcard, GlobalBan, linkVars
  <2>2. CASE e \notin Present' /\ character'[e] = "none"
    BY <2>2
  <2>3. CASE /\ character'[e] = character[e] /\ (e \in Present' => e \in Present)
             /\ \A x \in BlockNo : e \in here[x] => e \in here'[x]
             /\ e \in busy \ named => e \in busy' \ named'
    BY <2>1, <2>3, OrderKept DEF OwnOrder
  <2> QED BY <1>3, <2>2, <2>3, NotAskedOtherwise
<1> QED BY <1>1, <1>2, <1>3 DEF OwnOrder

\* No answer is on its way at the start.
LEMMA OrderInit == GateInit => OwnOrder
BY GateAssumption DEF GateInit, OwnOrder, Present, NobodyOn

\* Every step keeps a connection's own answers in order.
LEMMA OrderNext == GateShape /\ OwnOrder /\ [GateNext]_gateVars => OwnOrder'
<1> SUFFICES ASSUME GateShape, OwnOrder, [GateNext]_gateVars PROVE OwnOrder'
  OBVIOUS
<1>0. character \in [Player -> CharacterState] /\ Blue \subseteq Player
  BY GateAssumption DEF GateShape, Places
<1>1. CASE LinkSteps
  <2>1. Present' = Present
    BY <1>1, QuietPlaces DEF Present
  <2>2. CASE GateLost
    <3>1. character' = [c \in Player |-> IF character[c] = "asked" THEN "missed" ELSE character[c]]
      BY <2>2 DEF GateLost
    <3> QED BY <1>0, <2>1, <3>1 DEF OwnOrder
  <2>3. CASE Reconnect \/ NoticeLost \/ Welcome \/ LoginReply \/ LoginRefused
    <3>1. character' = character
      BY <2>3 DEF Reconnect, NoticeLost, Welcome, LoginReply, LoginRefused, playerVars
    <3>2. sg # "keyed"
      <4>1. CASE Reconnect \/ NoticeLost \/ Welcome
        BY <4>1 DEF Reconnect, NoticeLost, Welcome
      <4>2. CASE LoginReply \/ LoginRefused
        <5>1. coming # <<>> /\ Next1.kind = "taken"
          BY <4>2 DEF LoginReply, LoginRefused, Take1
        <5>2. 1 \in DOMAIN coming /\ coming[1].kind = "taken"
          BY <5>1, FirstTaken, NextPacket DEF GateShape, Mail
        <5> QED BY <5>2 DEF GateShape, Mail, Greeting
      <4> QED BY <2>3, <4>1, <4>2
    <3> QED BY <2>1, <3>1, <3>2 DEF OwnOrder
  <2> QED BY <1>1, <2>2, <2>3 DEF LinkSteps
<1>2. CASE ListSteps
  <2>1. UNCHANGED <<here, named, busy, coming, sg, character>>
    BY <1>2, QuietPlaces, ListingQuiet
  <2> QED BY <2>1 DEF OwnOrder, OwnAnswersComing, AnswerComing, Present
<1>3. CASE UNCHANGED gateVars
  BY <1>3 DEF gateVars, OwnOrder, OwnAnswersComing, AnswerComing, Present
<1> QED BY <1>1, <1>2, <1>3, ReadOrder, PlayerOrder, FourKinds

\* A Blue Burst player's character is never overtaken by its own options: whoever is moved on
\* by handle_bbopts has its character, or both answers are on their way in this order and it
\* was the options of an earlier connection that were early, or it is one of those whom the
\* order of bb_process_login does not help: its character was not asked for, lost with the
\* connection, or denied (shipgate.c).
THEOREM CharactersFirst == GateSpec => []CharacterFirst
<1>1. GateInit => GateShape /\ OwnOrder
  BY ShapeInit, OrderInit
<1>2. GateShape /\ OwnOrder /\ [GateNext]_gateVars => (GateShape /\ OwnOrder)'
  BY ShapeNext, OrderNext
<1>3. GateShape /\ OwnOrder => CharacterFirst
  <2> SUFFICES ASSUME GateShape, OwnOrder, NEW c \in ready
               PROVE  character[c] \in {"come", "missed", "denied"} \/ OwnAnswersComing(c)
    BY DEF CharacterFirst
  <2>1. /\ c \in Blue /\ c \in Present /\ c \in Player /\ c \notin busy \ named
        /\ character[c] \in CharacterState
    BY GateAssumption DEF GateShape, Places
  <2>2. character[c] # "none" /\ (character[c] = "asked" => OwnAnswersComing(c))
    BY <2>1 DEF OwnOrder
  <2> QED BY <2>1, <2>2 DEF CharacterState
<1> QED BY <1>1, <1>2, <1>3, PTL DEF GateSpec

-----------------------------------------------------------------------------
(* The bans (Bans.tla)                                                     *)
(*                                                                         *)
(* SavedBansHold is not inductive by itself.  It is with what the threads  *)
(* are in the middle of: as long as no two were busy with the file at a    *)
(* time, and none failed, at most one is, and the copy it writes holds the *)
(* bans of the list.                                                       *)
(* BannedStayOut is with what is known of those who are not on a block     *)
(* yet, and with everybody being away when the ship does not run.          *)

\* One that is busy with the file, unless it may be behind, and its copy.
OneIsBusy ==
    up /\ ~behind => \A t, u \in BanThread : Busy(t) /\ Busy(u) => t = u
CopyIsRight ==
    up /\ ~behind => \A t \in BanThread : doing[t].step = "write" => Ahead(doing[t].copy) = Ahead(bans)
DownIsQuiet ==
    ~up => /\ \A t \in BanThread : doing[t] = Idle
           /\ \A p \in Visitor : at[p] = "away"
CardsKnown == \A p \in Visitor : at[p] # "away" /\ CardBanned(p) => p \in early
AddressesKept ==
    \A p \in Visitor : at[p] = "block" /\ AddressBanned(p) => p \in marked \cup spared \/ ToBeKicked(p)

FileInv == OneIsBusy /\ CopyIsRight /\ DownIsQuiet /\ SavedBansHold
DoorInv == DownIsQuiet /\ CardsKnown /\ AddressesKept

-----------------------------------------------------------------------------
\* What a step of each kind does to one thread's record.
LEMMA ExchangedType ==
    ASSUME NEW b \in Ban
    PROVE  /\ Exchanged(b) \in Ban
           /\ Exchanged(b).kind = b.kind /\ Exchanged(b).who = b.who /\ Exchanged(b).until = b.until
<1>1. CASE b \in [kind : {"card"}, who : Card, until : Nat, wide : {FALSE}]
  BY <1>1 DEF Exchanged, Ban
<1>2. CASE b \in [kind : {"address"}, who : Address, until : Nat, wide : BOOLEAN]
  BY <1>2 DEF Exchanged, Ban
<1>3. QED
  BY <1>1, <1>2 DEF Ban

\* A ban ends at a time.
LEMMA BanType ==
    ASSUME NEW b \in Ban
    PROVE  b.until \in Nat
BY DEF Ban

\* What a thread copies for the file is bans.
LEMMA CopiedType ==
    ASSUME bans \subseteq Ban
    PROVE  Copied \in SUBSET Ban
BY ExchangedType DEF Copied

\* A thread may be idle.
LEMMA IdleType == Idle \in Doing
<1>1. {} \in SUBSET Ban /\ {} \in SUBSET Visitor
  OBVIOUS
<1>2. QED
  BY <1>1 DEF Idle, Doing

\* The types hold at the start.
LEMMA TypeInit == BansInit => BansTypeOK
<1> SUFFICES ASSUME BansInit PROVE BansTypeOK
  OBVIOUS
<1>1. doing \in [BanThread -> Doing]
  BY IdleType DEF BansInit
<1>2. now \in 0 .. MaxNow
  BY BansAssumption DEF BansInit
<1>3. at \in [Visitor -> {"away", "ship", "sent", "block"}]
  BY DEF BansInit
<1>4. QED
  BY <1>1, <1>2, <1>3 DEF BansInit, BansTypeOK

\* A command on the lists keeps the types, whoever it removes.
LEMMA ChangesType ==
    ASSUME BansTypeOK, NEW t \in BanThread, NEW kick \in SUBSET Visitor, Changes(t, kick)
    PROVE  /\ up' \in BOOLEAN /\ now' \in 0 .. MaxNow /\ saved' \subseteq Ban /\ behind' \in BOOLEAN
           /\ doing' \in [BanThread -> Doing]
           /\ at' \in [Visitor -> {"away", "ship", "sent", "block"}] /\ marked' \subseteq Visitor
           /\ spared' \subseteq Visitor
BY DEF BansTypeOK, Changes, Doing, Quiet

\* The end of the ship keeps the types.
LEMMA Down_Type ==
    ASSUME BansTypeOK, Down
    PROVE  BansTypeOK'
BY DEF BansTypeOK, Down, Doing, Idle

\* A visitor that moves keeps the types.
LEMMA MoveType ==
    ASSUME BansTypeOK, NEW p \in Visitor, NEW place \in {"away", "ship", "sent", "block"},
           Move1(p, place), marked' \subseteq Visitor, early' \subseteq Visitor
    PROVE  BansTypeOK'
BY DEF BansTypeOK, Move1, fileVars

\* The end of a ban is a time, whether it is given in minutes from now or as for ever.
LEMMA UntilNat ==
    ASSUME BansTypeOK, NEW until \in Until \cup {Forever}
    PROVE  until \in Nat
<1>1. now \in Nat
  BY BansAssumption DEF BansTypeOK
<1>2. CASE until \in Until
  BY <1>1, <1>2, BansAssumption DEF Until
<1>3. CASE until = Forever
  BY <1>3, BansAssumption DEF Forever
<1>4. QED
  BY <1>2, <1>3

\* Every step keeps the types.
LEMMA TypeStep == BansTypeOK /\ [BansNext]_bansVars => BansTypeOK'
<1> SUFFICES ASSUME BansTypeOK, [BansNext]_bansVars PROVE BansTypeOK'
  OBVIOUS
<1>1. CASE UNCHANGED bansVars
  BY <1>1 DEF bansVars, BansTypeOK
<1>2. CASE ShipEnds
  BY <1>2, Down_Type DEF ShipEnds
<1>3. CASE BanListRead
  BY <1>3 DEF BanListRead, BansTypeOK, visitorVars
<1>4. CASE Tick
  BY <1>4, BansAssumption DEF Tick, BansTypeOK, visitorVars
<1>5. ASSUME NEW t \in BanThread, CopyBans(t) PROVE BansTypeOK'
  BY <1>5, CopiedType DEF CopyBans, BansTypeOK, visitorVars, Doing
<1>18. ASSUME NEW t \in BanThread, NoDocument(t) PROVE BansTypeOK'
  BY <1>18, IdleType DEF NoDocument, BansTypeOK, Doing
<1>6. ASSUME NEW t \in BanThread, WriteBans(t) PROVE BansTypeOK'
  BY <1>6 DEF WriteBans, BansTypeOK, visitorVars, Doing
<1>7. ASSUME NEW t \in BanThread, KickBanned(t) PROVE BansTypeOK'
  BY <1>7 DEF KickBanned, BansTypeOK, Doing, Idle
<1>8. ASSUME NEW t \in BanThread, Sweep(t) PROVE BansTypeOK'
  BY <1>8, ChangesType DEF Sweep, BansTypeOK
<1>9. ASSUME NEW t \in BanThread, NEW c \in Card, BanGuildcard(t, c) PROVE BansTypeOK'
  <2>1. PICK until \in Until \cup {Forever} :
          bans' = bans \cup {[kind |-> "card", who |-> c, until |-> until, wide |-> FALSE]}
    BY <1>9 DEF BanGuildcard
  <2>2. until \in Nat
    BY <2>1, UntilNat
  <2>3. bans' \subseteq Ban /\ early' \subseteq Visitor
    <3>1. [kind |-> "card", who |-> c, until |-> until, wide |-> FALSE] \in Ban
      BY <2>2 DEF Ban
    <3>2. QED
      BY <1>9, <2>1, <3>1 DEF BansTypeOK, BanGuildcard
  <2>4. QED
    BY <1>9, <2>3, ChangesType DEF BanGuildcard, BansTypeOK
<1>10. ASSUME NEW t \in BanThread, NEW a \in Address, BanIP(t, a) PROVE BansTypeOK'
  <2>1. PICK until \in Until :
          bans' = bans \cup {[kind |-> "address", who |-> a, until |-> until, wide |-> FALSE]}
    BY <1>10 DEF BanIP
  <2>2. until \in Nat
    BY <2>1, UntilNat
  <2>3. bans' \subseteq Ban /\ early' \subseteq Visitor
    <3>1. [kind |-> "address", who |-> a, until |-> until, wide |-> FALSE] \in Ban
      BY <2>2 DEF Ban
    <3>2. QED
      BY <1>10, <2>1, <3>1 DEF BansTypeOK, BanIP, Changes
  <2>4. QED
    BY <1>10, <2>3, ChangesType DEF BanIP, BansTypeOK
<1>11. ASSUME NEW t \in BanThread, NEW c \in Card, LiftBan(t, c) PROVE BansTypeOK'
  BY <1>11, ChangesType DEF LiftBan, BansTypeOK
<1>12. ASSUME NEW t \in BanThread, NEW c \in Card, FreedTwice(t, c) PROVE BansTypeOK'
  BY <1>12, Down_Type DEF FreedTwice
<1>13. ASSUME NEW p \in Visitor, ShipLogin(p) PROVE BansTypeOK'
  BY <1>13, MoveType DEF ShipLogin, BansTypeOK
<1>14. ASSUME NEW p \in Visitor, ChooseBlock(p) PROVE BansTypeOK'
  BY <1>14, MoveType DEF ChooseBlock, BansTypeOK
<1>15. ASSUME NEW p \in Visitor, NewOnBlock(p) PROVE BansTypeOK'
  BY <1>15, MoveType DEF NewOnBlock, BansTypeOK
<1>16. ASSUME NEW p \in Visitor, Leaves(p) PROVE BansTypeOK'
  BY <1>16, MoveType DEF Leaves, BansTypeOK
<1>17. QED
  BY <1>1, <1>2, <1>3, <1>4, <1>5, <1>6, <1>7, <1>8, <1>9, <1>10, <1>11, <1>12, <1>13, <1>14,
     <1>15, <1>16, <1>18
     DEF BansNext, ShipLoginV1, ShipLoginV2, ShipLoginLater, BlockLoginV1, BlockLoginV2,
         BlockLoginGc, BlockLoginLater

\* The lists, the file and what the threads and the visitors do are always what their
\* types say, whatever interleaving of commands, sweeps, logins and ends of the ship.
THEOREM BansTypeCorrect == BansSpec => []BansTypeOK
BY TypeInit, TypeStep, PTL DEF BansSpec

-----------------------------------------------------------------------------
(* The bans that lie ahead.                                                *)

\* What lies ahead of a later time is part of what lies ahead of an earlier one.
LEMMA AheadLater ==
    ASSUME NEW A \in SUBSET Ban, NEW B \in SUBSET Ban, NEW k \in Nat, NEW n \in Nat, k <= n,
           AheadAt(A, k) = AheadAt(B, k)
    PROVE  AheadAt(A, n) = AheadAt(B, n)
<1>1. ASSUME NEW C \in SUBSET Ban, NEW D \in SUBSET Ban, AheadAt(C, k) \subseteq AheadAt(D, k)
      PROVE  AheadAt(C, n) \subseteq AheadAt(D, n)
  <2> SUFFICES ASSUME NEW x \in C, x.until > n
               PROVE  \E y \in D : y.until > n /\ <<y.kind, y.who, y.until>> = <<x.kind, x.who, x.until>>
    BY DEF AheadAt
  <2>1. x.until \in Nat
    BY BanType
  <2>2. <<x.kind, x.who, x.until>> \in AheadAt(C, k)
    BY <2>1 DEF AheadAt
  <2>3. PICK y \in D : y.until > k /\ <<y.kind, y.who, y.until>> = <<x.kind, x.who, x.until>>
    BY <1>1, <2>2 DEF AheadAt
  <2>4. y.until = x.until
    BY <2>3
  <2>5. QED
    BY <2>3, <2>4
<1>2. QED
  BY <1>1

\* The copy holds what lies ahead, whatever has changed places in it.
LEMMA CopyAhead ==
    ASSUME BansTypeOK
    PROVE  Ahead(Copied) = Ahead(bans)
<1>1. now \in Nat /\ bans \subseteq Ban
  BY BansAssumption DEF BansTypeOK
<1>2. ASSUME NEW x \in bans, x.until > now
      PROVE  \E y \in Copied : y.until > now /\ <<y.kind, y.who, y.until>> = <<x.kind, x.who, x.until>>
  <2>1. x \in Ban /\ x.until \in Nat
    BY <1>1, <1>2, BanType
  <2>2. ~Ended(x)
    BY <1>1, <1>2, <2>1 DEF Ended, Runs
  <2>3. Exchanged(x) \in Copied
    BY <1>2, <2>2 DEF Copied
  <2>4. QED
    BY <1>2, <2>1, <2>3, ExchangedType
<1>3. ASSUME NEW y \in Copied, y.until > now
      PROVE  \E x \in bans : x.until > now /\ <<x.kind, x.who, x.until>> = <<y.kind, y.who, y.until>>
  <2>1. PICK x \in bans : y = Exchanged(x)
    BY DEF Copied
  <2>2. x \in Ban
    BY <1>1
  <2>3. QED
    BY <1>3, <2>1, <2>2, ExchangedType
<1>4. QED
  BY <1>2, <1>3 DEF Ahead, AheadAt

-----------------------------------------------------------------------------
(* The file.                                                               *)

\* A change of the lists starts with the file as it was; if it is the only one that is
\* busy it will copy, if it is not the file may be behind.
LEMMA ChangesFile ==
    ASSUME BansTypeOK, FileInv, NEW t \in BanThread, NEW kick, Changes(t, kick)
    PROVE  FileInv'
<1>1. up /\ up' /\ doing[t] = Idle /\ behind' = ~Quiet
      /\ doing' = [doing EXCEPT ![t] = [step |-> "copy", copy |-> {}, kick |-> kick]]
  BY DEF Changes
<1>2. \A u \in BanThread \ {t} : doing'[u] = doing[u]
  BY <1>1
<1>3. behind' \/ \A u \in BanThread : ~Busy(u)
  BY <1>1 DEF Quiet
<1>4. CASE behind'
  <2>1. ~(\A u \in BanThread : ~Busy(u))
    BY <1>1, <1>4 DEF Quiet
  <2>2. QED
    BY <1>1, <1>4 DEF FileInv, OneIsBusy, CopyIsRight, DownIsQuiet, SavedBansHold
<1>5. CASE ~behind'
  <2>1. \A u \in BanThread : Busy(u)' => u = t
    BY <1>2, <1>3, <1>5 DEF Busy
  <2>2. (doing[t].step = "copy")'
    BY <1>1 DEF BansTypeOK
  <2>3. ~Quiet'
    BY <2>2 DEF Quiet, Busy
  <2>4. \A u \in BanThread : (doing[u].step # "write")'
    BY <2>1, <2>2 DEF Busy
  <2>5. QED
    BY <1>1, <2>1, <2>3, <2>4 DEF FileInv, OneIsBusy, CopyIsRight, DownIsQuiet, SavedBansHold
<1>6. QED
  BY <1>4, <1>5

\* A ship that goes down leaves both invariants true.
LEMMA DownFile ==
    ASSUME Down
    PROVE  FileInv' /\ DoorInv'
BY DEF Down, FileInv, DoorInv, OneIsBusy, CopyIsRight, DownIsQuiet, SavedBansHold, CardsKnown,
       AddressesKept

\* Every step keeps what is true of the file.
LEMMA FileStep == BansTypeOK /\ BansTypeOK' /\ FileInv /\ [BansNext]_bansVars => FileInv'
<1> SUFFICES ASSUME BansTypeOK, BansTypeOK', FileInv, [BansNext]_bansVars PROVE FileInv'
  OBVIOUS
<1> USE DEF FileInv
<1>1. ASSUME UNCHANGED fileVars, up PROVE FileInv'
  BY <1>1 DEF fileVars, OneIsBusy, CopyIsRight, DownIsQuiet, SavedBansHold, Quiet, Busy, Ahead
<1>2. CASE ShipEnds \/ \E t \in BanThread, c \in Card : FreedTwice(t, c)
  BY <1>2, DownFile DEF ShipEnds, FreedTwice
<1>3. CASE BanListRead
  <2>1. \A t \in BanThread : doing'[t] = Idle
    BY <1>3 DEF BanListRead, DownIsQuiet
  <2>2. Ahead(bans)' = Ahead(saved)'
    BY <1>3 DEF BanListRead, Ahead, AheadAt
  <2>3. \A t \in BanThread : ~Busy(t)' /\ (doing[t].step # "write")'
    BY <2>1 DEF Idle, Busy
  <2>4. QED
    BY <1>3, <2>2, <2>3 DEF BanListRead, OneIsBusy, CopyIsRight, DownIsQuiet, SavedBansHold
<1>4. CASE Tick
  <2>1. now \in Nat /\ now' \in Nat /\ now <= now'
    BY <1>4, BansAssumption DEF Tick, BansTypeOK
  <2>2. ASSUME NEW A \in SUBSET Ban, NEW B \in SUBSET Ban, AheadAt(A, now) = AheadAt(B, now)
        PROVE  AheadAt(A, now') = AheadAt(B, now')
    BY <2>1, <2>2, AheadLater
  <2>3. bans \in SUBSET Ban /\ saved \in SUBSET Ban /\ \A t \in BanThread : doing[t].copy \in SUBSET Ban
    BY DEF BansTypeOK, Doing
  <2>4. CopyIsRight'
    BY <1>4, <2>2, <2>3 DEF Tick, CopyIsRight, Ahead
  <2>5. SavedBansHold'
    BY <1>4, <2>2, <2>3 DEF Tick, SavedBansHold, Quiet, Busy, Ahead
  <2>6. QED
    BY <1>4, <2>4, <2>5 DEF Tick, visitorVars, OneIsBusy, DownIsQuiet, Busy
<1>5. ASSUME NEW t \in BanThread, CopyBans(t) PROVE FileInv'
  <2>1. /\ doing'[t].step = "write" /\ doing'[t].copy = Copied
        /\ \A u \in BanThread \ {t} : doing'[u] = doing[u]
    BY <1>5 DEF CopyBans, BansTypeOK, Doing
  <2>2. \A u \in BanThread : Busy(u)' <=> Busy(u)
    BY <1>5, <2>1 DEF CopyBans, Busy
  <2>3. Ahead(Copied) = Ahead(bans)
    BY CopyAhead
  <2>4. UNCHANGED <<up, now, bans, saved, behind, at>>
    BY <1>5 DEF CopyBans, visitorVars
  <2>5. CopyIsRight'
    BY <2>1, <2>3, <2>4 DEF CopyIsRight, Ahead
  <2>6. up
    BY <1>5 DEF CopyBans, DownIsQuiet, Idle
  <2>7. QED
    BY <2>2, <2>4, <2>5, <2>6 DEF OneIsBusy, DownIsQuiet, SavedBansHold, Quiet, Ahead
<1>15. ASSUME NEW t \in BanThread, NoDocument(t) PROVE FileInv'
  <2>1. behind' /\ UNCHANGED <<up, at>>
    BY <1>15 DEF NoDocument
  <2>2. up
    BY <1>15 DEF NoDocument, DownIsQuiet, Idle
  <2>3. QED
    BY <2>1, <2>2 DEF OneIsBusy, CopyIsRight, DownIsQuiet, SavedBansHold
<1>6. ASSUME NEW t \in BanThread, WriteBans(t) PROVE FileInv'
  <2>1. /\ doing'[t].step = "kick"
        /\ (saved' = doing[t].copy /\ behind' = behind) \/ behind'
        /\ \A u \in BanThread \ {t} : doing'[u] = doing[u]
    BY <1>6 DEF WriteBans, BansTypeOK, Doing
  <2>2. /\ ~Busy(t)' /\ Busy(t)
        /\ \A u \in BanThread \ {t} : Busy(u)' <=> Busy(u)
    BY <1>6, <2>1 DEF WriteBans, Busy
  <2>3. UNCHANGED <<up, now, bans, at>>
    BY <1>6 DEF WriteBans, visitorVars
  <2>4. up
    BY <1>6 DEF WriteBans, DownIsQuiet, Idle
  <2>5. ~behind' => Ahead(bans)' = Ahead(saved)'
    BY <1>6, <2>1, <2>3, <2>4 DEF WriteBans, CopyIsRight, Ahead
  <2>6. OneIsBusy'
    BY <2>1, <2>2, <2>3, <2>4 DEF OneIsBusy
  <2>7. CopyIsRight'
    BY <2>1, <2>3 DEF CopyIsRight, Ahead
  <2>8. QED
    BY <2>3, <2>4, <2>5, <2>6, <2>7 DEF DownIsQuiet, SavedBansHold
<1>7. ASSUME NEW t \in BanThread, KickBanned(t) PROVE FileInv'
  <2>1. /\ doing'[t] = Idle /\ \A u \in BanThread \ {t} : doing'[u] = doing[u]
    BY <1>7 DEF KickBanned, BansTypeOK
  <2>2. \A u \in BanThread : (Busy(u)' <=> Busy(u)) /\ ((doing[u].step = "write")' => doing'[u] = doing[u])
    BY <1>7, <2>1 DEF KickBanned, Busy, Idle
  <2>3. UNCHANGED <<up, now, bans, saved, behind, at>>
    BY <1>7 DEF KickBanned
  <2>4. up
    BY <1>7 DEF KickBanned, DownIsQuiet, Idle
  <2>5. CopyIsRight'
    BY <2>2, <2>3, <2>4 DEF CopyIsRight, Ahead
  <2>6. QED
    BY <2>2, <2>3, <2>4, <2>5 DEF OneIsBusy, DownIsQuiet, SavedBansHold, Quiet, Ahead
<1>8. ASSUME NEW t \in BanThread, Sweep(t) PROVE FileInv'
  BY <1>8, ChangesFile DEF Sweep
<1>9. ASSUME NEW t \in BanThread, NEW c \in Card, BanGuildcard(t, c) \/ LiftBan(t, c) PROVE FileInv'
  BY <1>9, ChangesFile DEF BanGuildcard, LiftBan
<1>10. ASSUME NEW t \in BanThread, NEW a \in Address, BanIP(t, a) PROVE FileInv'
  BY <1>10, ChangesFile DEF BanIP
<1>11. ASSUME NEW p \in Visitor, ShipLogin(p) \/ NewOnBlock(p) PROVE FileInv'
  BY <1>1, <1>11 DEF ShipLogin, NewOnBlock, Move1
<1>12. ASSUME NEW p \in Visitor, ChooseBlock(p) \/ Leaves(p) PROVE FileInv'
  <2>1. up /\ UNCHANGED fileVars
    BY <1>12 DEF ChooseBlock, Leaves, Move1, DownIsQuiet
  <2>2. QED
    BY <1>1, <2>1
<1>13. CASE UNCHANGED bansVars
  BY <1>13 DEF bansVars, OneIsBusy, CopyIsRight, DownIsQuiet, SavedBansHold, Quiet, Busy, Ahead
<1>14. QED
  BY <1>2, <1>3, <1>4, <1>5, <1>6, <1>7, <1>8, <1>9, <1>10, <1>11, <1>12, <1>13, <1>15
     DEF BansNext, ShipLoginV1, ShipLoginV2, ShipLoginLater, BlockLoginV1, BlockLoginV2,
         BlockLoginGc, BlockLoginLater

-----------------------------------------------------------------------------
(* The door.                                                               *)

\* Who is banned does not change for those a step leaves the bans and the time to.
LEMMA SameBans ==
    ASSUME UNCHANGED <<bans, now>>
    PROVE  \A p \in Visitor : (CardBanned(p)' <=> CardBanned(p)) /\ (AddressBanned(p)' <=> AddressBanned(p))
BY DEF CardBanned, AddressBanned, Runs

\* Nobody is banned anew when bans go or time passes.
LEMMA FewerBans ==
    ASSUME BansTypeOK, bans' \subseteq bans, now' \in Nat, now <= now'
    PROVE  \A p \in Visitor : (CardBanned(p)' => CardBanned(p)) /\ (AddressBanned(p)' => AddressBanned(p))
<1>1. \A b \in bans : Runs(b)' => Runs(b)
  <2> SUFFICES ASSUME NEW b \in bans, Runs(b)' PROVE Runs(b)
    OBVIOUS
  <2>1. b.until \in Nat /\ now \in Nat
    BY BanType, BansAssumption DEF BansTypeOK
  <2>2. QED
    BY <2>1 DEF Runs
<1>2. QED
  BY <1>1 DEF CardBanned, AddressBanned

\* Nobody stops being looked for when a thread takes up something new.
LEMMA StillKicked ==
    ASSUME BansTypeOK, NEW t \in BanThread, NEW kick, Changes(t, kick)
    PROVE  \A p \in Visitor : (ToBeKicked(p) => ToBeKicked(p)') /\ (p \in kick => ToBeKicked(p)')
BY DEF BansTypeOK, Changes, ToBeKicked, Idle

\* A change that adds no ban.
LEMMA RemovalDoor ==
    ASSUME BansTypeOK, DoorInv, NEW t \in BanThread, Changes(t, {}), bans' \subseteq bans,
           UNCHANGED early
    PROVE  DoorInv'
<1>1. now' = now /\ now \in Nat /\ up' /\ UNCHANGED <<at, marked, spared>>
  BY BansAssumption DEF Changes, BansTypeOK
<1>2. QED
  BY <1>1, FewerBans, StillKicked DEF DoorInv, DownIsQuiet, CardsKnown, AddressesKept

\* A step of a thread that leaves the lists and the visitors alone.
LEMMA FileDoor ==
    ASSUME DoorInv, UNCHANGED <<up, now, bans>>, UNCHANGED visitorVars,
           up, \A p \in Visitor : ToBeKicked(p) => ToBeKicked(p)'
    PROVE  DoorInv'
BY SameBans DEF DoorInv, DownIsQuiet, CardsKnown, AddressesKept, visitorVars

\* A visitor's step: it goes where its bans let it, the others stay.
LEMMA MoveDoor ==
    ASSUME BansTypeOK, DoorInv, NEW p \in Visitor, NEW place, Move1(p, place), place = "away" \/ up,
           marked \ {p} \subseteq marked', early \ {p} \subseteq early',
           place # "away" /\ CardBanned(p) => p \in early',
           place = "block" => ~AddressBanned(p)
    PROVE  DoorInv'
<1>1. UNCHANGED <<up, now, bans, doing>>
  BY DEF Move1, fileVars
<1>2. at'[p] = place /\ spared' = spared \ {p} /\ \A q \in Visitor \ {p} : at'[q] = at[q]
  BY DEF Move1, BansTypeOK
<1>3. \A q \in Visitor : ToBeKicked(q)' <=> ToBeKicked(q)
  BY <1>1 DEF ToBeKicked
<1>4. DownIsQuiet'
  BY <1>1, <1>2 DEF DoorInv, DownIsQuiet
<1>5. CardsKnown'
  BY <1>1, <1>2, SameBans DEF DoorInv, CardsKnown
<1>6. AddressesKept'
  BY <1>1, <1>2, <1>3, SameBans DEF DoorInv, AddressesKept
<1>7. QED
  BY <1>4, <1>5, <1>6 DEF DoorInv

\* Every step keeps what is true of those let in.
LEMMA DoorStep == BansTypeOK /\ DoorInv /\ [BansNext]_bansVars => DoorInv'
<1> SUFFICES ASSUME BansTypeOK, DoorInv, [BansNext]_bansVars PROVE DoorInv'
  OBVIOUS
<1>1. CASE UNCHANGED bansVars
  BY <1>1, SameBans DEF bansVars, DoorInv, DownIsQuiet, CardsKnown, AddressesKept, ToBeKicked
<1>2. CASE ShipEnds \/ \E t \in BanThread, c \in Card : FreedTwice(t, c)
  BY <1>2, DownFile DEF ShipEnds, FreedTwice
<1>3. CASE BanListRead
  <2>1. \A p \in Visitor : at'[p] = "away"
    BY <1>3 DEF BanListRead, visitorVars, DoorInv, DownIsQuiet
  <2>2. QED
    BY <1>3, <2>1 DEF BanListRead, DoorInv, DownIsQuiet, CardsKnown, AddressesKept
<1>4. CASE Tick
  <2>1. now' \in Nat /\ now <= now' /\ bans' = bans
    BY <1>4, BansAssumption DEF Tick, BansTypeOK
  <2>2. QED
    BY <1>4, <2>1, FewerBans
       DEF Tick, visitorVars, DoorInv, DownIsQuiet, CardsKnown, AddressesKept, ToBeKicked
<1>5. ASSUME NEW t \in BanThread, CopyBans(t) \/ WriteBans(t) PROVE DoorInv'
  <2>1. UNCHANGED <<up, now, bans>> /\ UNCHANGED visitorVars
    BY <1>5 DEF CopyBans, WriteBans
  <2>2. up
    BY <1>5 DEF CopyBans, WriteBans, DoorInv, DownIsQuiet, Idle
  <2>3. \A u \in BanThread : doing'[u].kick = doing[u].kick
    BY <1>5 DEF CopyBans, WriteBans, BansTypeOK, Doing
  <2>4. QED
    BY <2>1, <2>2, <2>3, FileDoor DEF ToBeKicked
<1>16. ASSUME NEW t \in BanThread, NoDocument(t) PROVE DoorInv'
  <2>1. UNCHANGED <<up, now, bans, at, early, marked>> /\ up
    BY <1>16 DEF NoDocument, DoorInv, DownIsQuiet, Idle
  <2>2. \A u \in BanThread \ {t} : doing'[u] = doing[u]
    BY <1>16 DEF NoDocument, BansTypeOK
  <2>3. \A p \in Visitor : at[p] = "block" /\ (p \in marked \cup spared \/ ToBeKicked(p))
                             => p \in marked \cup spared' \/ ToBeKicked(p)'
    BY <1>16, <2>2 DEF NoDocument, ToBeKicked
  <2>4. QED
    BY <2>1, <2>3, SameBans DEF DoorInv, DownIsQuiet, CardsKnown, AddressesKept
<1>6. ASSUME NEW t \in BanThread, KickBanned(t) PROVE DoorInv'
  <2>1. UNCHANGED <<up, now, bans, at, early, spared>> /\ up
    BY <1>6 DEF KickBanned, DoorInv, DownIsQuiet, Idle
  <2>2. \A u \in BanThread \ {t} : doing'[u] = doing[u]
    BY <1>6 DEF KickBanned, BansTypeOK
  <2>3. \A p \in Visitor : at[p] = "block" /\ (p \in marked \cup spared \/ ToBeKicked(p))
                             => p \in marked' \cup spared \/ ToBeKicked(p)'
    BY <1>6, <2>2 DEF KickBanned, ToBeKicked
  <2>4. QED
    BY <2>1, <2>3, SameBans DEF DoorInv, DownIsQuiet, CardsKnown, AddressesKept
<1>7. ASSUME NEW t \in BanThread, Sweep(t) PROVE DoorInv'
  BY <1>7, RemovalDoor DEF Sweep
<1>8. ASSUME NEW t \in BanThread, NEW c \in Card, LiftBan(t, c) PROVE DoorInv'
  BY <1>8, RemovalDoor DEF LiftBan
<1>9. ASSUME NEW t \in BanThread, NEW c \in Card, BanGuildcard(t, c) PROVE DoorInv'
  <2>1. PICK until :
          bans' = bans \cup {[kind |-> "card", who |-> c, until |-> until, wide |-> FALSE]}
    BY <1>9 DEF BanGuildcard
  <2>2. up' /\ UNCHANGED <<now, at, marked, spared>>
        /\ early' = early \cup {p \in Visitor : CardOf[p] = c /\ at[p] # "away"}
    BY <1>9 DEF BanGuildcard, Changes
  <2>3. \A p \in Visitor : /\ CardBanned(p)' => CardBanned(p) \/ CardOf[p] = c
                           /\ AddressBanned(p)' => AddressBanned(p)
    BY <2>1, <2>2 DEF CardBanned, AddressBanned, Runs
  <2>4. \A p \in Visitor : ToBeKicked(p) => ToBeKicked(p)'
    BY <1>9, StillKicked DEF BanGuildcard
  <2>5. QED
    BY <2>2, <2>3, <2>4 DEF DoorInv, DownIsQuiet, CardsKnown, AddressesKept
<1>10. ASSUME NEW t \in BanThread, NEW a \in Address, BanIP(t, a) PROVE DoorInv'
  <2>1. PICK until :
          bans' = bans \cup {[kind |-> "address", who |-> a, until |-> until, wide |-> FALSE]}
    BY <1>10 DEF BanIP
  <2>2. up' /\ UNCHANGED <<now, at, marked, early, spared>>
    BY <1>10 DEF BanIP, Changes
  <2>3. \A p \in Visitor : /\ CardBanned(p)' => CardBanned(p)
                           /\ AddressBanned(p)' => AddressBanned(p) \/ AddressOf[p] = a
    <3>1. \A b : Runs(b)' <=> Runs(b)
      BY <2>2 DEF Runs
    <3>2. \A b \in bans' \ bans : b.kind = "address" /\ Covers(b) = {a}
      BY <2>1 DEF Covers
    <3>3. \A p \in Visitor : CardBanned(p)' => CardBanned(p)
      BY <3>1, <3>2 DEF CardBanned
    <3>4. \A p \in Visitor : AddressBanned(p)' => AddressBanned(p) \/ AddressOf[p] = a
      BY <3>1, <3>2 DEF AddressBanned
    <3>5. QED
      BY <3>3, <3>4
  <2>4. \A p \in Visitor : /\ ToBeKicked(p) => ToBeKicked(p)'
                           /\ AddressOf[p] = a => ToBeKicked(p)'
    BY <1>10, StillKicked DEF BanIP
  <2>5. QED
    BY <2>2, <2>3, <2>4 DEF DoorInv, DownIsQuiet, CardsKnown, AddressesKept
<1>11. ASSUME NEW p \in Visitor, ShipLogin(p) PROVE DoorInv'
  BY <1>11, MoveDoor DEF ShipLogin
<1>12. ASSUME NEW p \in Visitor, ChooseBlock(p) PROVE DoorInv'
  <2>1. at[p] # "away" /\ up
    BY <1>12 DEF ChooseBlock, DoorInv, DownIsQuiet
  <2>2. QED
    BY <1>12, <2>1, MoveDoor DEF ChooseBlock, DoorInv, CardsKnown
<1>13. ASSUME NEW p \in Visitor, NewOnBlock(p) PROVE DoorInv'
  BY <1>13, MoveDoor DEF NewOnBlock, DoorInv, CardsKnown
<1>14. ASSUME NEW p \in Visitor, Leaves(p) PROVE DoorInv'
  BY <1>14, MoveDoor DEF Leaves
<1>15. QED
  BY <1>1, <1>2, <1>3, <1>4, <1>5, <1>6, <1>7, <1>8, <1>9, <1>10, <1>11, <1>12, <1>13, <1>14,
     <1>16
     DEF BansNext, ShipLoginV1, ShipLoginV2, ShipLoginLater, BlockLoginV1, BlockLoginV2,
         BlockLoginGc, BlockLoginLater

-----------------------------------------------------------------------------
\* Both hold at the start.
LEMMA BansInitHolds == BansInit => FileInv /\ DoorInv
<1> SUFFICES ASSUME BansInit PROVE FileInv /\ DoorInv
  OBVIOUS
<1>1. \A t \in BanThread : ~Busy(t) /\ doing[t].step # "write"
  BY DEF BansInit, Busy, Idle
<1>2. FileInv
  BY <1>1 DEF BansInit, FileInv, OneIsBusy, CopyIsRight, DownIsQuiet, SavedBansHold, Ahead, AheadAt
<1>3. DoorInv
  BY DEF BansInit, DoorInv, DownIsQuiet, CardsKnown, AddressesKept
<1>4. QED
  BY <1>2, <1>3

\* A ban holds in the file, whatever ends, is lifted, swept or read back, unless two threads
\* changed the lists at a time or the file could not be written; and at the door, for all who
\* come by the ship after it was set, and, by their address, for all but those about to be
\* removed and those who were on a block when the command that banned them failed
\* (write_bans_list, handle_ban_d, is_ip_banned).
THEOREM BansHoldCorrect == BansSpec => []BansHold
<1>1. BansTypeOK /\ BansTypeOK' /\ FileInv /\ DoorInv /\ [BansNext]_bansVars => FileInv' /\ DoorInv'
  BY FileStep, DoorStep
<1>2. FileInv /\ DoorInv => BansHold
  BY DEF FileInv, DoorInv, BansHold, BannedStayOut, CardsKnown, AddressesKept
<1>3. QED
  BY BansTypeCorrect, BansInitHolds, <1>1, <1>2, PTL DEF BansSpec

-----------------------------------------------------------------------------
(* The menu of ships (ShipMenu.tla)                                        *)
(*                                                                         *)
(* First the lists: the search by halves finds what is there, the sort     *)
(* leaves a list that is in order as it was but for what is new, and the   *)
(* place of a ship is where its number belongs.                            *)

\* Codes in order, each once.
Sorted(list) == \A i, j \in DOMAIN list : i < j => list[i] < list[j]

\* Where code is, or would be put: all that is before is smaller, all from there on is not.
PartsAt(list, code, m) ==
    /\ m \in 0 .. Len(list)
    /\ \A x \in 0 .. Len(list) - 1 : (list[x + 1] < code) <=> x < m

LEMMA PartsExist ==
    ASSUME NEW list \in Seq(Nat), Sorted(list), NEW code \in Nat
    PROVE  \E m : PartsAt(list, code, m)
<1> DEFINE n == Len(list)
           Low == {x \in 0 .. n : \A y \in 0 .. n - 1 : y < x => list[y + 1] < code}
           m == Max(Low)
<1>1. n \in Nat /\ DOMAIN list = 1 .. n /\ \A x \in 0 .. n - 1 : x + 1 \in 1 .. n /\ list[x + 1] \in Nat
  OBVIOUS
<1>2. Low \in SUBSET (0 .. n) /\ Low # {}
  <2>1. 0 \in Low
    BY <1>1
  <2> QED BY <2>1
<1>3. m \in Low /\ \A x \in Low : x <= m
  <2> HIDE DEF Low, n
  <2> QED BY <1>1, <1>2, MaxOfNat
<1> HIDE DEF m
<1>4. m \in 0 .. n /\ \A y \in 0 .. n - 1 : y < m => list[y + 1] < code
  BY <1>3
<1>5. ASSUME NEW x \in 0 .. n - 1, list[x + 1] < code PROVE x < m
  <2>1. ASSUME NEW y \in 0 .. n - 1, y < x + 1 PROVE list[y + 1] < code
    <3>1. y = x \/ list[y + 1] < list[x + 1]
      <4>1. y + 1 \in DOMAIN list /\ x + 1 \in DOMAIN list /\ (y # x => y + 1 < x + 1)
        BY <2>1, <1>1
      <4> QED BY <4>1 DEF Sorted
    <3>2. list[y + 1] \in Nat /\ list[x + 1] \in Nat
      BY <1>1
    <3> HIDE DEF n
    <3> QED BY <3>1, <3>2, <1>5
  <2>2. x + 1 \in 0 .. n
    BY <1>1
  <2>3. x + 1 \in Low
    BY <2>1, <2>2
  <2> HIDE DEF Low
  <2>4. x + 1 <= m
    BY <2>3, <1>3
  <2> QED BY <2>4, <1>4, <1>1
<1> QED BY <1>4, <1>5 DEF PartsAt

\* The middle of what is looked through.
Half(a, b) == a + (b - a) \div 2

LEMMA Middle ==
    ASSUME NEW a \in Nat, NEW b \in Nat, a < b
    PROVE  Half(a, b) \in a .. b - 1
<1> DEFINE d == b - a
<1>1. d \in Nat \ {0} /\ d = b - a
  OBVIOUS
<1> HIDE DEF d
<1>2. d \div 2 \in 0 .. d - 1
  BY <1>1
<1> QED BY <1>1, <1>2 DEF Half

\* The equation of the search by halves.
Halves(list, code, F) ==
    F = [p \in (0 .. Len(list)) \X (0 .. Len(list)) |->
            IF p[1] >= p[2] THEN p[1]
            ELSE IF list[Half(p[1], p[2]) + 1] < code
                 THEN F[<<Half(p[1], p[2]) + 1, p[2]>>]
                 ELSE F[<<p[1], Half(p[1], p[2])>>]]

\* Where the search ends: at the place itself, or at the end of the part that is nearest to it.
Ends(m, a, b) == IF a >= b THEN a ELSE IF m < a THEN a ELSE IF m > b THEN b ELSE m

LEMMA EndsHalves ==
    ASSUME NEW list \in Seq(Nat), NEW code \in Nat, NEW m, PartsAt(list, code, m),
           NEW a \in 0 .. Len(list), NEW b \in 0 .. Len(list), a < b
    PROVE  /\ Half(a, b) \in 0 .. Len(list) /\ Half(a, b) + 1 \in 0 .. Len(list)
           /\ a <= Half(a, b) /\ Half(a, b) < b
           /\ Ends(m, a, b) = IF list[Half(a, b) + 1] < code THEN Ends(m, Half(a, b) + 1, b)
                              ELSE Ends(m, a, Half(a, b))
<1> DEFINE k == Half(a, b)
<1>1. Len(list) \in Nat /\ a \in Nat /\ b \in Nat
  OBVIOUS
<1>2. k \in a .. b - 1
  BY <1>1, Middle
<1> HIDE DEF k
<1>3. k \in 0 .. Len(list) - 1 /\ m \in 0 .. Len(list) /\ ((list[k + 1] < code) <=> k < m)
  <2>1. k \in 0 .. Len(list) - 1
    BY <1>1, <1>2
  <2> QED BY <2>1 DEF PartsAt
<1>4. CASE k < m
  <2>1. Ends(m, a, b) = Ends(m, k + 1, b)
    BY <1>1, <1>2, <1>3, <1>4 DEF Ends
  <2>2. k \in 0 .. Len(list) /\ k + 1 \in 0 .. Len(list) /\ a <= k /\ k < b /\ list[k + 1] < code
    BY <1>1, <1>2, <1>3, <1>4
  <2> QED BY <2>1, <2>2 DEF k
<1>5. CASE ~(k < m)
  <2>1. Ends(m, a, b) = Ends(m, a, k)
    BY <1>1, <1>2, <1>3, <1>5 DEF Ends
  <2>2. k \in 0 .. Len(list) /\ k + 1 \in 0 .. Len(list) /\ a <= k /\ k < b /\ ~(list[k + 1] < code)
    BY <1>1, <1>2, <1>3, <1>5
  <2> QED BY <2>1, <2>2 DEF k
<1> QED BY <1>4, <1>5

\* The equation has a solution, ...
LEMMA HalvesExist ==
    ASSUME NEW list \in Seq(Nat), NEW code \in Nat, NEW m, PartsAt(list, code, m)
    PROVE  \E F : Halves(list, code, F)
<1> DEFINE n == Len(list)
           P == (0 .. n) \X (0 .. n)
           F == [p \in P |-> Ends(m, p[1], p[2])]
           OneHalf(p) == IF p[1] >= p[2] THEN p[1]
                      ELSE IF list[Half(p[1], p[2]) + 1] < code
                           THEN F[<<Half(p[1], p[2]) + 1, p[2]>>]
                           ELSE F[<<p[1], Half(p[1], p[2])>>]
<1>1. ASSUME NEW p \in P PROVE F[p] = OneHalf(p)
  <2> DEFINE a == p[1]
             b == p[2]
  <2>1. a \in 0 .. n /\ b \in 0 .. n /\ F[p] = Ends(m, a, b) /\ a \in Nat /\ b \in Nat
    OBVIOUS
  <2>2. CASE a >= b
    BY <2>1, <2>2 DEF Ends
  <2>3. CASE ~(a >= b)
    <3>1. a < b
      BY <2>1, <2>3
    <3>2. /\ Half(a, b) \in 0 .. n /\ Half(a, b) + 1 \in 0 .. n
          /\ Ends(m, a, b) = IF list[Half(a, b) + 1] < code THEN Ends(m, Half(a, b) + 1, b)
                             ELSE Ends(m, a, Half(a, b))
      <4> HIDE DEF a, b
      <4> QED BY <3>1, <2>1, EndsHalves
    <3>3. /\ F[<<Half(a, b) + 1, b>>] = Ends(m, Half(a, b) + 1, b)
          /\ F[<<a, Half(a, b)>>] = Ends(m, a, Half(a, b))
      BY <3>2, <2>1
    <3> QED BY <3>2, <3>3, <2>1, <2>3
  <2> QED BY <2>2, <2>3
<1>2. F = [p \in P |-> OneHalf(p)]
  <2>1. [p \in P |-> F[p]] = [p \in P |-> OneHalf(p)]
    BY <1>1
  <2> QED BY <2>1
<1>3. Halves(list, code, F)
  BY <1>2 DEF Halves
<1> QED BY <1>3

\* ... and each solution ends there, however wide the part: no narrowest part does not.
LEMMA HalvesEnd ==
    ASSUME NEW list \in Seq(Nat), NEW code \in Nat, NEW m, PartsAt(list, code, m),
           NEW F, Halves(list, code, F),
           NEW a \in 0 .. Len(list), NEW b \in 0 .. Len(list), a <= b
    PROVE  F[<<a, b>>] = Ends(m, a, b)
<1> DEFINE n == Len(list)
           Bad == {d \in 0 .. n : \E x, y \in 0 .. n : x <= y /\ d = y - x /\ F[<<x, y>>] # Ends(m, x, y)}
<1>0. ASSUME NEW x \in 0 .. Len(list), NEW y \in 0 .. Len(list), x < y
      PROVE  /\ Half(x, y) \in 0 .. Len(list) /\ Half(x, y) + 1 \in 0 .. Len(list)
             /\ x <= Half(x, y) /\ Half(x, y) < y
             /\ Ends(m, x, y) = IF list[Half(x, y) + 1] < code THEN Ends(m, Half(x, y) + 1, y)
                                ELSE Ends(m, x, Half(x, y))
  <2> HIDE DEF Bad
  <2> QED BY <1>0, EndsHalves
<1>1. n \in Nat
  OBVIOUS
<1>2. ASSUME NEW x \in 0 .. n, NEW y \in 0 .. n
      PROVE  F[<<x, y>>] = IF x >= y THEN x
                           ELSE IF list[Half(x, y) + 1] < code THEN F[<<Half(x, y) + 1, y>>]
                           ELSE F[<<x, Half(x, y)>>]
  <2>1. <<x, y>> \in (0 .. n) \X (0 .. n) /\ <<x, y>>[1] = x /\ <<x, y>>[2] = y
    OBVIOUS
  <2> QED BY <2>1 DEF Halves
<1> HIDE DEF n
<1>3. Bad = {}
  <2> SUFFICES ASSUME Bad # {} PROVE FALSE
    OBVIOUS
  <2> DEFINE d == Min(Bad)
  <2>1. d \in Bad /\ \A i \in Bad : d <= i
    <3>1. Bad \in SUBSET Nat
      BY <1>1
    <3> HIDE DEF Bad
    <3> QED BY <3>1, MinOfNat
  <2> HIDE DEF d
  <2>2. PICK x \in 0 .. n, y \in 0 .. n : x <= y /\ d = y - x /\ F[<<x, y>>] # Ends(m, x, y)
    BY <2>1
  <2>3. ASSUME NEW u \in 0 .. n, NEW v \in 0 .. n, u <= v, v - u < d PROVE F[<<u, v>>] = Ends(m, u, v)
    <3>1. v - u \in 0 .. n /\ ~(d <= v - u)
      BY <1>1, <2>2, <2>3
    <3>2. v - u \notin Bad
      <4> HIDE DEF Bad
      <4> QED BY <3>1, <2>1
    <3> QED BY <3>1, <3>2, <2>3
  <2>4. CASE x >= y
    BY <1>2, <2>2, <2>4 DEF Ends
  <2>5. CASE ~(x >= y)
    <3> DEFINE k == Half(x, y)
    <3>1. x < y /\ x \in 0 .. Len(list) /\ y \in 0 .. Len(list)
      BY <2>5, <1>1 DEF n
    <3>2. /\ k \in 0 .. n /\ k + 1 \in 0 .. n /\ x <= k /\ k < y
          /\ Ends(m, x, y) = IF list[k + 1] < code THEN Ends(m, k + 1, y) ELSE Ends(m, x, k)
      <4>1. /\ Half(x, y) \in 0 .. Len(list) /\ Half(x, y) + 1 \in 0 .. Len(list)
            /\ x <= Half(x, y) /\ Half(x, y) < y
            /\ Ends(m, x, y) = IF list[Half(x, y) + 1] < code THEN Ends(m, Half(x, y) + 1, y)
                               ELSE Ends(m, x, Half(x, y))
        BY <3>1, <1>0
      <4> QED BY <4>1 DEF n
    <3>3. F[<<x, y>>] = IF list[k + 1] < code THEN F[<<k + 1, y>>] ELSE F[<<x, k>>]
      BY <1>2, <2>5
    <3> HIDE DEF k
    <3>4. k + 1 <= y /\ y - (k + 1) < d /\ k - x < d
      <4>1. x <= k /\ k < y /\ d = y - x /\ k \in Int /\ x \in Int /\ y \in Int
        BY <3>2, <2>2, <1>1
      <4> HIDE <2>2
      <4> QED BY <4>1
    <3>5. F[<<k + 1, y>>] = Ends(m, k + 1, y) /\ F[<<x, k>>] = Ends(m, x, k)
      BY <2>3, <3>2, <3>4
    <3> QED BY <2>2, <3>2, <3>3, <3>5
  <2> QED BY <2>4, <2>5
<1>4. b - a \in 0 .. n /\ a \in 0 .. n /\ b \in 0 .. n
  BY <1>1 DEF n
<1> QED BY <1>3, <1>4

\* The search by halves finds what is there, in a list that is in order.
LEMMA CodeFound ==
    ASSUME NEW list \in Seq(Nat), Sorted(list), NEW code \in Nat
    PROVE  CodeExists(list, code) <=> code \in ToSet(list)
<1>1. PICK m : PartsAt(list, code, m)
  BY PartsExist
<1> DEFINE F == CHOOSE f : Halves(list, code, f)
           spot == F[<<0, Len(list)>>]
<1>2. CodeExists(list, code) <=> spot < Len(list) /\ list[spot + 1] = code
  BY DEF CodeExists, Halves, Half
<1>3. Halves(list, code, F)
  BY <1>1, HalvesExist
<1> HIDE DEF F
<1>4. Len(list) \in Nat /\ 0 \in 0 .. Len(list) /\ Len(list) \in 0 .. Len(list) /\ 0 <= Len(list)
      /\ DOMAIN list = 1 .. Len(list) /\ \A i \in 1 .. Len(list) : list[i] \in Nat
  OBVIOUS
<1>5. spot = Ends(m, 0, Len(list))
  BY <1>1, <1>3, <1>4, HalvesEnd
<1>6. m \in 0 .. Len(list)
  BY <1>1 DEF PartsAt
<1>7. spot = m
  <2>1. /\ Len(list) \in Nat /\ m \in Nat /\ m <= Len(list)
        /\ spot = IF 0 >= Len(list) THEN 0 ELSE IF m < 0 THEN 0 ELSE IF m > Len(list) THEN Len(list) ELSE m
    BY <1>4, <1>5, <1>6 DEF Ends
  <2> HIDE DEF spot
  <2> QED BY <2>1
<1> HIDE DEF spot
<1>8. ASSUME m < Len(list), list[m + 1] = code PROVE code \in ToSet(list)
  <2>1. m + 1 \in DOMAIN list
    BY <1>4, <1>6, <1>8
  <2> QED BY <2>1, <1>8 DEF ToSet
<1>9. ASSUME code \in ToSet(list) PROVE m < Len(list) /\ list[m + 1] = code
  <2>1. PICK i \in 1 .. Len(list) : list[i] = code
    BY <1>9, <1>4 DEF ToSet
  <2>2. ~(list[(i - 1) + 1] < code) /\ i - 1 \in 0 .. Len(list) - 1
    BY <2>1, <1>4
  <2>3. ~(i - 1 < m)
    BY <2>2, <1>1 DEF PartsAt
  <2>4. m \in 0 .. Len(list) - 1 /\ m + 1 \in 1 .. Len(list) /\ m + 1 <= i
    BY <2>3, <1>6, <1>4
  <2>5. ~(list[m + 1] < code)
    BY <2>4, <1>1, <1>6 DEF PartsAt
  <2>6. m + 1 < i => list[m + 1] < list[i]
    BY <2>4, <1>4 DEF Sorted
  <2>7. m + 1 = i
    BY <2>1, <2>4, <2>5, <2>6, <1>6, <1>4
  <2> QED BY <2>1, <2>4, <2>7, <1>4, <1>6
<1> QED BY <1>2, <1>7, <1>8, <1>9

\* A new code is put where it belongs, whatever order the sort leaves it to.
LEMMA CodeSorted ==
    ASSUME NEW S \in SUBSET Nat, NEW list \in Seq(S), Sorted(list), NEW c \in S, c \notin ToSet(list),
           NEW new, new = MenuCodeSort(Append(list, c))
    PROVE  new \in Seq(S) /\ Sorted(new) /\ ToSet(new) = ToSet(list) \cup {c}
<1> DEFINE n == Len(list)
           long == Append(list, c)
           D == 1 .. n + 1
           Arranged == {[i \in D |-> long[p[i]]] : p \in Bijection(D, D)}
           InOrder(s) == \A i, j \in D : i < j => s[i] <= s[j]
<1>1. /\ n \in Nat /\ DOMAIN list = 1 .. n /\ DOMAIN long = D /\ long \in Seq(S)
      /\ long[n + 1] = c /\ \A i \in 1 .. n : long[i] = list[i] /\ list[i] \in S /\ i \in D
  OBVIOUS
<1>2. list \in Seq(Nat) /\ c \in Nat
  BY SeqMonotonic
<1>3. PICK m : PartsAt(list, c, m)
  BY <1>2, PartsExist
<1>4. /\ m \in 0 .. n
      /\ \A i \in 1 .. n : i <= m => list[i] < c
      /\ \A i \in 1 .. n : i > m => c < list[i]
  <2>1. m \in 0 .. n /\ \A x \in 0 .. n - 1 : (list[x + 1] < c) <=> x < m
    BY <1>3 DEF PartsAt
  <2>2. ASSUME NEW i \in 1 .. n PROVE (i <= m => list[i] < c) /\ (i > m => c < list[i])
    <3>1. i - 1 \in 0 .. n - 1 /\ (i - 1) + 1 = i
      BY <1>1
    <3>2. (list[i] < c) <=> i - 1 < m
      BY <2>1, <3>1
    <3>3. list[i] # c
      BY <1>1 DEF ToSet
    <3>4. list[i] \in Nat /\ i \in Nat /\ m \in Nat
      <4>1. list[i] \in S
        BY <1>1
      <4>2. i \in Nat /\ m \in Nat
        BY <1>1, <2>1
      <4> QED BY <4>1, <4>2
    <3> HIDE DEF n
    <3> QED BY <1>2, <3>2, <3>3, <3>4
  <2> QED BY <2>1, <2>2
<1> DEFINE q == [i \in D |-> IF i <= m THEN i ELSE IF i = m + 1 THEN n + 1 ELSE i - 1]
           s0 == [i \in D |-> long[q[i]]]
<1> HIDE DEF long
<1>5. q \in Bijection(D, D)
  <2> HIDE DEF n
  <2>1. q \in [D -> D]
    BY <1>1, <1>4
  <2>2. \A a, b \in D : q[a] = q[b] => a = b
    BY <1>1, <1>4
  <2>3. \A t \in D : \E a \in D : q[a] = t
    <3> TAKE t \in D
    <3>1. CASE t = n + 1
      <4>1. m + 1 \in D /\ q[m + 1] = t
        BY <3>1, <1>1, <1>4
      <4> QED BY <4>1
    <3>2. CASE t # n + 1 /\ t <= m
      <4>1. q[t] = t
        BY <3>2
      <4> QED BY <4>1
    <3>3. CASE t # n + 1 /\ ~(t <= m)
      <4>1. t + 1 \in D /\ q[t + 1] = t
        BY <3>3, <1>1, <1>4
      <4> QED BY <4>1
    <3> QED BY <3>1, <3>2, <3>3
  <2> HIDE DEF q
  <2> QED BY <2>1, <2>2, <2>3 DEF Bijection, Injection, Surjection, IsInjective
<1>6. InOrder(s0)
  <2> HIDE DEF n
  <2> SUFFICES ASSUME NEW i \in D, NEW j \in D, i < j PROVE s0[i] <= s0[j]
    OBVIOUS
  <2> DEFINE v(k) == IF k <= m THEN list[k] ELSE IF k = m + 1 THEN c ELSE list[k - 1]
  <2>1. ASSUME NEW k \in D PROVE s0[k] = v(k)
    <3>1. CASE k <= m
      BY <3>1, <1>1, <1>4
    <3>2. CASE k = m + 1
      BY <3>2, <1>1, <1>4
    <3>3. CASE ~(k <= m) /\ k # m + 1
      <4>1. k - 1 \in 1 .. n
        BY <3>3, <1>1, <1>4
      <4> QED BY <3>3, <4>1, <1>1
    <3> QED BY <3>1, <3>2, <3>3
  <2>2. \A x, y \in 1 .. n : x < y => list[x] < list[y]
    BY <1>1 DEF Sorted
  <2>3. \A x \in 1 .. n : list[x] \in Nat
    BY <1>1
  <2> HIDE DEF s0
  <2>4. v(i) <= v(j)
    <3>1. CASE j <= m
      BY <3>1, <2>2, <2>3, <1>1, <1>4
    <3>2. CASE j = m + 1
      BY <3>2, <2>2, <2>3, <1>1, <1>2, <1>4
    <3>3. CASE ~(j <= m) /\ j # m + 1
      <4>1. j - 1 \in 1 .. n /\ j - 1 > m
        BY <3>3, <1>1, <1>4
      <4>2. CASE i <= m
        BY <3>3, <4>1, <4>2, <2>2, <2>3, <1>1, <1>4
      <4>3. CASE i = m + 1
        BY <3>3, <4>1, <4>3, <2>3, <1>1, <1>2, <1>4
      <4>4. CASE ~(i <= m) /\ i # m + 1
        <5>1. i - 1 \in 1 .. n /\ i - 1 < j - 1
          BY <4>4, <1>1, <1>4
        <5> QED BY <3>3, <4>1, <4>4, <5>1, <2>2, <2>3
      <4> QED BY <4>2, <4>3, <4>4
    <3> QED BY <3>1, <3>2, <3>3
  <2> QED BY <2>1, <2>4
<1>7. s0 \in Arranged
  <2> HIDE DEF q
  <2> QED BY <1>5
<1>8. new = CHOOSE s \in Arranged : InOrder(s)
  BY <1>1 DEF MenuCodeSort, long
<1>9. new \in Arranged /\ InOrder(new)
  <2> HIDE DEF Arranged, InOrder, s0
  <2> QED BY <1>6, <1>7, <1>8
<1>10. PICK p \in Bijection(D, D) : new = [i \in D |-> long[p[i]]]
  BY <1>9
<1>11. /\ p \in [D -> D] /\ \A a, b \in D : p[a] = p[b] => a = b
       /\ \A t \in D : \E a \in D : p[a] = t
  BY <1>10 DEF Bijection, Injection, Surjection, IsInjective
<1>12. DOMAIN new = D /\ \A i \in D : new[i] = long[p[i]] /\ p[i] \in D /\ new[i] \in S
  <2>1. \A j \in D : long[j] \in S
    BY <1>1
  <2>2. \A i \in D : p[i] \in D
    BY <1>11
  <2> HIDE DEF D
  <2> QED BY <2>1, <2>2, <1>10
<1>13. new \in Seq(S)
  BY <1>1, <1>10, <1>12
<1>14. \A i, j \in D : i # j => long[i] # long[j]
  <2> SUFFICES ASSUME NEW i \in D, NEW j \in D, i # j PROVE long[i] # long[j]
    OBVIOUS
  <2> HIDE DEF n
  <2>1. \A x \in 1 .. n : list[x] # c
    BY <1>1 DEF ToSet
  <2>2. \A x, y \in 1 .. n : x # y => list[x] # list[y]
    <3>1. ASSUME NEW x \in 1 .. n, NEW y \in 1 .. n, x # y PROVE list[x] # list[y]
      <4>1. x < y \/ y < x
        BY <3>1
      <4>2. list[x] < list[y] \/ list[y] < list[x]
        BY <4>1, <1>1 DEF Sorted
      <4>3. list[x] \in Nat /\ list[y] \in Nat
        BY <1>1
      <4> QED BY <4>2, <4>3
    <3> QED BY <3>1
  <2>3. (i = n + 1 \/ i \in 1 .. n) /\ (j = n + 1 \/ j \in 1 .. n)
    BY <1>1
  <2> QED BY <2>1, <2>2, <2>3, <1>1
<1>15. Sorted(new)
  <2> SUFFICES ASSUME NEW i \in D, NEW j \in D, i < j PROVE new[i] < new[j]
    BY <1>12 DEF Sorted
  <2>1. new[i] <= new[j]
    BY <1>9
  <2>2. i # j
    BY <1>1
  <2>3. new[i] # new[j]
    <3>1. p[i] # p[j] /\ p[i] \in D /\ p[j] \in D
      BY <2>2, <1>11
    <3> QED BY <3>1, <1>12, <1>14
  <2>4. new[i] \in Nat /\ new[j] \in Nat
    BY <1>12
  <2> QED BY <2>1, <2>3, <2>4
<1>16. ToSet(new) = ToSet(list) \cup {c}
  <2>1. ToSet(new) = {long[i] : i \in D}
    <3>1. {long[p[i]] : i \in D} = {long[i] : i \in D}
      <4> HIDE DEF D
      <4> QED BY <1>11
    <3>2. ToSet(new) = {new[i] : i \in D}
      BY <1>12 DEF ToSet
    <3>3. {new[i] : i \in D} = {long[p[i]] : i \in D}
      <4> HIDE DEF D
      <4> QED BY <1>12
    <3> QED BY <3>1, <3>2, <3>3
  <2>2. {long[i] : i \in D} = {list[i] : i \in 1 .. n} \cup {c}
    <3> HIDE DEF n
    <3>1. \A i \in D : i = n + 1 \/ i \in 1 .. n
      BY <1>1
    <3>2. n + 1 \in D
      BY <1>1
    <3> HIDE DEF D
    <3> QED BY <3>1, <3>2, <1>1
  <2>3. ToSet(list) = {list[i] : i \in 1 .. n}
    BY <1>1 DEF ToSet
  <2> QED BY <2>1, <2>2, <2>3
<1> QED BY <1>13, <1>15, <1>16

-----------------------------------------------------------------------------
\* Ships in the order of their numbers, each once.
Filed(list) ==
    \A i, j \in DOMAIN list : i < j => list[i].id # list[j].id /\ list[i].number <= list[j].number

\* What is left of a list that is in order is in order, and was there before.
LEMMA FiledLeft ==
    ASSUME NEW list \in Seq(ShipInfo), Filed(list), NEW K \in SUBSET DOMAIN list,
           NEW out \in Seq(ShipInfo), NEW m, Picks(list, K, out, m)
    PROVE  Filed(out) /\ \A j \in DOMAIN out : \E i \in K : out[j] = list[i]
<1>1. DOMAIN out = 1 .. Len(out) /\ DOMAIN list = 1 .. Len(list)
  OBVIOUS
<1>2. \A j \in DOMAIN out : m[j] \in K /\ m[j] \in DOMAIN list /\ out[j] = list[m[j]]
  BY <1>1 DEF Picks
<1>3. \A j, k \in DOMAIN out : j < k => m[j] < m[k]
  BY <1>1 DEF Picks
<1> QED BY <1>2, <1>3 DEF Filed

LEMMA ShipsLeft ==
    ASSUME NEW id, ShipMenuSound
    PROVE  /\ Without(id) \in Seq(ShipInfo) /\ Filed(Without(id))
           /\ \A j \in DOMAIN Without(id) :
                Without(id)[j].id # id /\ \E i \in DOMAIN ships : Without(id)[j] = ships[i]
<1> DEFINE K == {i \in DOMAIN ships : ships[i].id # id}
           parts == [i \in DOMAIN ships |-> IF i \in K THEN <<ships[i]>> ELSE <<>>]
           out == FlattenSeq(parts)
<1>1. ships \in Seq(ShipInfo) /\ Filed(ships)
  BY DEF ShipMenuSound, Filed
<1>2. Without(id) = out
  <2>1. parts = [i \in DOMAIN ships |-> IF ships[i].id # id THEN <<ships[i]>> ELSE <<>>]
    OBVIOUS
  <2> HIDE DEF parts
  <2> QED BY <2>1 DEF Without, Those
<1>3. K \in SUBSET DOMAIN ships /\ \A i \in K : ships[i].id # id
  OBVIOUS
<1> HIDE DEF K
<1>4. out \in Seq(ShipInfo) /\ \E m : Picks(ships, K, out, m)
  <2>1. parts = [i \in DOMAIN ships |-> IF i \in K THEN <<ships[i]>> ELSE <<>>]
    OBVIOUS
  <2> HIDE DEF parts
  <2> QED BY <2>1, <1>1, <1>3, Picked
<1> HIDE DEF out
<1>5. Filed(out) /\ \A j \in DOMAIN out : \E i \in K : out[j] = ships[i]
  BY <1>1, <1>3, <1>4, FiledLeft
<1> QED BY <1>2, <1>3, <1>4, <1>5

\* What stands in the middle of two sequences.
LEMMA Between ==
    ASSUME NEW S, NEW a \in Seq(S), NEW e \in S, NEW b \in Seq(S)
    PROVE  /\ a \o <<e>> \o b \in Seq(S) /\ Len(a \o <<e>> \o b) = Len(a) + 1 + Len(b)
           /\ \A i \in 1 .. Len(a) : (a \o <<e>> \o b)[i] = a[i]
           /\ (a \o <<e>> \o b)[Len(a) + 1] = e
           /\ \A i \in 1 .. Len(b) : (a \o <<e>> \o b)[Len(a) + 1 + i] = b[i]
<1> DEFINE ae == a \o <<e>>
<1>1. /\ ae \in Seq(S) /\ Len(ae) = Len(a) + 1 /\ ae[Len(a) + 1] = e
      /\ \A i \in 1 .. Len(a) : ae[i] = a[i]
  OBVIOUS
<1> HIDE DEF ae
<1>2. /\ ae \o b \in Seq(S) /\ Len(ae \o b) = Len(ae) + Len(b)
      /\ \A i \in 1 .. Len(ae) : (ae \o b)[i] = ae[i]
      /\ \A i \in 1 .. Len(b) : (ae \o b)[Len(ae) + i] = b[i]
  <2>1. /\ ae \o b \in Seq(S) /\ Len(ae \o b) = Len(ae) + Len(b)
        /\ \A i \in 1 .. Len(ae) + Len(b) :
              (ae \o b)[i] = IF i <= Len(ae) THEN ae[i] ELSE b[i - Len(ae)]
    BY <1>1, ConcatProperties
  <2>2. Len(ae) \in Nat /\ Len(b) \in Nat
    BY <1>1
  <2>3. ASSUME NEW i \in 1 .. Len(b) PROVE (ae \o b)[Len(ae) + i] = b[i]
    <3>1. Len(ae) + i \in 1 .. Len(ae) + Len(b) /\ ~(Len(ae) + i <= Len(ae)) /\ (Len(ae) + i) - Len(ae) = i
      BY <2>2
    <3> QED BY <2>1, <3>1
  <2>4. ASSUME NEW i \in 1 .. Len(ae) PROVE (ae \o b)[i] = ae[i]
    <3>1. i \in 1 .. Len(ae) + Len(b) /\ i <= Len(ae)
      BY <2>2
    <3> QED BY <2>1, <3>1
  <2> QED BY <2>1, <2>3, <2>4
<1>3. Len(a) \in Nat /\ Len(a) + 1 \in 1 .. Len(ae) /\ \A i \in 1 .. Len(a) : i \in 1 .. Len(ae)
  BY <1>1
<1> QED BY <1>1, <1>2, <1>3 DEF ae

\* A ship is put among others whose numbers are in order.
LEMMA ShipPlaced ==
    ASSUME NEW list \in Seq(ShipInfo), Filed(list), NEW s \in ShipInfo,
           \A i \in DOMAIN list : list[i].id # s.id, NEW new, new = Placed(list, s)
    PROVE  new \in Seq(ShipInfo) /\ Filed(new) /\ ToSet(new) = ToSet(list) \cup {s}
<1> DEFINE n == Len(list)
           before == {i \in 0 .. n : \A j \in 1 .. i : list[j].number < s.number}
           spot == CHOOSE i \in before : \A j \in before : j <= i
<1>1. n \in Nat /\ DOMAIN list = 1 .. n /\ \A i \in 1 .. n : list[i] \in ShipInfo
  OBVIOUS
<1>2. s.number \in Nat /\ \A i \in 1 .. n : list[i].number \in Nat
  BY <1>1, ShipMenuAssumption
<1>3. spot \in before /\ \A j \in before : j <= spot
  <2>1. before \in SUBSET (0 .. n) /\ 0 \in before
    BY <1>1
  <2>2. Max(before) \in before /\ \A j \in before : j <= Max(before)
    <3> HIDE DEF before, n
    <3> QED BY <2>1, <1>1, MaxOfNat
  <2> HIDE DEF before
  <2> QED BY <2>2
<1>4. new = SubSeq(list, 1, (1 + spot) - 1) \o <<s>> \o SubSeq(list, 1 + spot, n)
  BY DEF Placed, InsertAt
<1> HIDE DEF spot
<1>5. spot \in 0 .. n /\ \A j \in 1 .. spot : list[j].number < s.number
  BY <1>3
<1>6. \A j \in 1 .. n : j > spot => s.number <= list[j].number
  <2> SUFFICES ASSUME NEW j \in 1 .. n, j > spot, list[j].number < s.number PROVE FALSE
    BY <1>2
  <2>1. ASSUME NEW x \in 1 .. j PROVE list[x].number < s.number
    <3>1. x \in 1 .. n /\ (x = j \/ x < j)
      BY <2>1, <1>1
    <3>2. list[x].number <= list[j].number
      BY <3>1, <1>1, <1>2 DEF Filed
    <3>3. list[x].number \in Nat /\ list[j].number \in Nat
      BY <3>1, <1>2
    <3> QED BY <3>2, <3>3, <1>2
  <2>2. j \in before
    BY <2>1, <1>1
  <2> HIDE DEF before
  <2> QED BY <2>2, <1>3, <1>5, <1>1
<1> HIDE DEF before
<1> DEFINE a == SubSeq(list, 1, spot)
           b == SubSeq(list, 1 + spot, n)
<1>7. /\ a \in Seq(ShipInfo) /\ Len(a) = spot /\ \A i \in 1 .. spot : a[i] = list[i]
      /\ b \in Seq(ShipInfo) /\ Len(b) = n - spot /\ \A i \in 1 .. n - spot : b[i] = list[spot + i]
  <2>1. 1 \in 1 .. n + 1 /\ spot \in 0 .. n /\ 1 + spot \in 1 .. n + 1 /\ n \in 0 .. n /\ (1 <= spot \/ spot = 0)
        /\ spot \in Nat /\ spot - 1 + 1 = spot /\ n - (1 + spot) + 1 = n - spot
    BY <1>1, <1>5
  <2>2. a \in Seq(ShipInfo) /\ Len(a) = spot /\ \A i \in 1 .. spot : a[i] = list[1 + i - 1]
    BY <2>1, SubSeqProperties
  <2>3. b \in Seq(ShipInfo) /\ Len(b) = n - spot /\ \A i \in 1 .. n - spot : b[i] = list[(1 + spot) + i - 1]
    <3>1. (1 + spot <= n => Len(b) = n - (1 + spot) + 1) /\ (~(1 + spot <= n) => Len(b) = 0)
          /\ b \in Seq(ShipInfo)
          /\ \A i \in 1 .. n - (1 + spot) + 1 : b[i] = list[(1 + spot) + i - 1]
      <4>1. 1 + spot \in Int /\ n \in Int /\ \A i \in 1 + spot .. n : list[i] \in ShipInfo
        BY <1>1, <1>5
      <4>2. /\ SubSeq(list, 1 + spot, n) \in Seq(ShipInfo)
            /\ Len(SubSeq(list, 1 + spot, n)) = IF 1 + spot <= n THEN n - (1 + spot) + 1 ELSE 0
            /\ \A i \in 1 .. n - (1 + spot) + 1 : SubSeq(list, 1 + spot, n)[i] = list[(1 + spot) + i - 1]
        <5> HIDE DEF n
        <5> QED BY <4>1, SubSeqProperties
      <4> QED BY <4>2
    <3>2. ~(1 + spot <= n) => n - spot = 0
      <4> HIDE DEF n
      <4> QED BY <2>1
    <3> HIDE DEF b, n
    <3> QED BY <3>1, <3>2, <2>1
  <2>4. \A i \in 1 .. spot : 1 + i - 1 = i
    OBVIOUS
  <2>5. \A i \in 1 .. n - spot : (1 + spot) + i - 1 = spot + i
    BY <2>1
  <2> HIDE DEF a, b, n
  <2> QED BY <2>2, <2>3, <2>4, <2>5
<1>8. new = a \o <<s>> \o b
  <2>1. (1 + spot) - 1 = spot
    BY <1>5
  <2> QED BY <1>4, <2>1
<1> HIDE DEF a, b, n
<1>9. /\ new \in Seq(ShipInfo) /\ Len(new) = Len(a) + 1 + Len(b)
      /\ \A i \in 1 .. Len(a) : new[i] = a[i]
      /\ new[Len(a) + 1] = s
      /\ \A i \in 1 .. Len(b) : new[Len(a) + 1 + i] = b[i]
  <2>1. a \in Seq(ShipInfo) /\ b \in Seq(ShipInfo) /\ s \in ShipInfo
    BY <1>7
  <2>2. /\ a \o <<s>> \o b \in Seq(ShipInfo) /\ Len(a \o <<s>> \o b) = Len(a) + 1 + Len(b)
        /\ \A i \in 1 .. Len(a) : (a \o <<s>> \o b)[i] = a[i]
        /\ (a \o <<s>> \o b)[Len(a) + 1] = s
        /\ \A i \in 1 .. Len(b) : (a \o <<s>> \o b)[Len(a) + 1 + i] = b[i]
    BY <2>1, Between
  <2> QED BY <1>8, <2>2
<1>10. /\ Len(new) = n + 1 /\ new[spot + 1] = s
       /\ \A i \in 1 .. spot : new[i] = list[i]
       /\ \A i \in spot + 2 .. n + 1 : new[i] = list[i - 1]
  <2>1. spot + 1 + (n - spot) = n + 1
    BY <1>1, <1>5
  <2>2. ASSUME NEW i \in spot + 2 .. n + 1 PROVE new[i] = list[i - 1]
    <3>1. /\ i - (spot + 1) \in 1 .. n - spot
          /\ spot + 1 + (i - (spot + 1)) = i /\ spot + (i - (spot + 1)) = i - 1
      <4>1. n \in Int /\ spot \in Int /\ i \in Int /\ spot + 2 <= i /\ i <= n + 1
        BY <1>1, <1>5
      <4> HIDE DEF n
      <4> QED BY <4>1
    <3>2. new[spot + 1 + (i - (spot + 1))] = b[i - (spot + 1)]
      BY <1>7, <1>9, <3>1
    <3>3. b[i - (spot + 1)] = list[spot + (i - (spot + 1))]
      BY <1>7, <3>1
    <3> QED BY <3>1, <3>2, <3>3
  <2> QED BY <1>7, <1>9, <2>1, <2>2
<1> DEFINE from(i) == IF i <= spot THEN i ELSE i - 1
<1>11. DOMAIN new = 1 .. n + 1
  BY <1>9, <1>10
<1>12. ASSUME NEW i \in 1 .. n + 1
       PROVE  \/ i = spot + 1 /\ new[i] = s
              \/ i # spot + 1 /\ from(i) \in 1 .. n /\ new[i] = list[from(i)]
  <2>1. CASE i <= spot
    BY <2>1, <1>1, <1>5, <1>10
  <2>2. CASE i = spot + 1
    BY <2>2, <1>10
  <2>3. CASE ~(i <= spot) /\ i # spot + 1
    <3>1. i \in spot + 2 .. n + 1 /\ i - 1 \in 1 .. n
      BY <2>3, <1>1, <1>5
    <3> QED BY <2>3, <3>1, <1>10
  <2> QED BY <2>1, <2>2, <2>3
<1>13. Filed(new)
  <2> SUFFICES ASSUME NEW i \in 1 .. n + 1, NEW j \in 1 .. n + 1, i < j
               PROVE  new[i].id # new[j].id /\ new[i].number <= new[j].number
    BY <1>11 DEF Filed
  <2>1. CASE i = spot + 1
    <3>1. j # spot + 1 /\ from(j) > spot
      BY <2>1, <1>1, <1>5
    <3> HIDE DEF from
    <3>2. new[i] = s /\ from(j) \in 1 .. n /\ new[j] = list[from(j)]
      BY <2>1, <3>1, <1>12
    <3> QED BY <3>1, <3>2, <1>1, <1>6
  <2>2. CASE j = spot + 1
    <3>1. i # spot + 1 /\ from(i) \in 1 .. spot
      BY <2>2, <1>1, <1>5
    <3> HIDE DEF from
    <3>2. new[j] = s /\ from(i) \in 1 .. n /\ new[i] = list[from(i)]
      BY <2>2, <3>1, <1>12
    <3>3. list[from(i)].number \in Nat /\ list[from(i)].number < s.number
      BY <3>1, <3>2, <1>2, <1>5
    <3> QED BY <3>2, <3>3, <1>1, <1>2
  <2>3. CASE i # spot + 1 /\ j # spot + 1
    <3>1. from(i) < from(j)
      BY <2>3, <1>1, <1>5
    <3> HIDE DEF from
    <3>2. from(i) \in 1 .. n /\ new[i] = list[from(i)] /\ from(j) \in 1 .. n /\ new[j] = list[from(j)]
      BY <2>3, <1>12
    <3> QED BY <3>1, <3>2, <1>1 DEF Filed
  <2> QED BY <2>1, <2>2, <2>3
<1>14. ToSet(new) = ToSet(list) \cup {s}
  <2>1. ASSUME NEW x \in ToSet(new) PROVE x \in ToSet(list) \cup {s}
    <3>1. PICK i \in 1 .. n + 1 : x = new[i]
      BY <1>11 DEF ToSet
    <3> HIDE DEF from
    <3> QED BY <3>1, <1>12, <1>1 DEF ToSet
  <2>2. ASSUME NEW x \in ToSet(list) PROVE x \in ToSet(new)
    <3>1. PICK k \in 1 .. n : x = list[k]
      BY <1>1 DEF ToSet
    <3>2. CASE k <= spot
      <4>1. k \in 1 .. n + 1 /\ new[k] = x
        BY <3>1, <3>2, <1>1, <1>5, <1>10
      <4> QED BY <4>1, <1>11 DEF ToSet
    <3>3. CASE ~(k <= spot)
      <4>1. k + 1 \in spot + 2 .. n + 1 /\ (k + 1) - 1 = k /\ k + 1 \in 1 .. n + 1
        BY <3>3, <1>1, <1>5
      <4>2. new[k + 1] = x
        BY <3>1, <4>1, <1>10
      <4> QED BY <4>1, <4>2, <1>11 DEF ToSet
    <3> QED BY <3>2, <3>3
  <2>3. s \in ToSet(new)
    <3>1. spot + 1 \in 1 .. n + 1
      BY <1>1, <1>5
    <3> QED BY <3>1, <1>10, <1>11 DEF ToSet
  <2> QED BY <2>1, <2>2, <2>3
<1> QED BY <1>9, <1>13, <1>14

-----------------------------------------------------------------------------
\* ShipMenuSound, with its parts named.
LEMMA SoundParts ==
    ShipMenuSound <=> /\ ships \in Seq(ShipInfo) /\ codes \in Seq(AllCodes)
                      /\ Sorted(codes) /\ Filed(ships)
                      /\ \A s \in ToSet(ships) : s.code \in ToSet(codes)
BY DEF ShipMenuSound, AllCodes, Sorted, Filed, ToSet

LEMMA SoundNext ==
    ASSUME ships' \in Seq(ShipInfo), codes' \in Seq(AllCodes), Sorted(codes'), Filed(ships'),
           \A s \in ToSet(ships') : s.code \in ToSet(codes')
    PROVE  ShipMenuSound'
BY DEF ShipMenuSound, AllCodes, Sorted, Filed, ToSet

LEMMA CodesAreNumbers == AllCodes \in SUBSET Nat
BY ShipMenuAssumption DEF AllCodes

\* What is left of the codes when one goes.
OtherCodes(c) == FlattenSeq([i \in DOMAIN codes |-> IF codes[i] # c THEN <<codes[i]>> ELSE <<>>])

LEMMA CodesLeft ==
    ASSUME ShipMenuSound, NEW c, NEW left, left = OtherCodes(c)
    PROVE  left \in Seq(AllCodes) /\ Sorted(left) /\ ToSet(left) = ToSet(codes) \ {c}
<1> DEFINE K == {i \in DOMAIN codes : codes[i] # c}
           parts == [i \in DOMAIN codes |-> IF i \in K THEN <<codes[i]>> ELSE <<>>]
<1>1. codes \in Seq(AllCodes) /\ Sorted(codes)
  BY SoundParts
<1>2. left = FlattenSeq(parts)
  <2>1. parts = [i \in DOMAIN codes |-> IF codes[i] # c THEN <<codes[i]>> ELSE <<>>]
    OBVIOUS
  <2> HIDE DEF parts
  <2> QED BY <2>1 DEF OtherCodes
<1>3. K \in SUBSET DOMAIN codes /\ {codes[i] : i \in K} = ToSet(codes) \ {c}
  BY DEF ToSet
<1> HIDE DEF K
<1>4. left \in Seq(AllCodes) /\ \E m : Picks(codes, K, left, m)
  <2>1. parts = [i \in DOMAIN codes |-> IF i \in K THEN <<codes[i]>> ELSE <<>>]
    OBVIOUS
  <2> HIDE DEF parts
  <2>2. FlattenSeq(parts) \in Seq(AllCodes) /\ \E m : Picks(codes, K, FlattenSeq(parts), m)
    BY <2>1, <1>1, <1>3, Picked
  <2> QED BY <2>2, <1>2
<1>5. PICK m : Picks(codes, K, left, m)
  BY <1>4
<1>6. ToSet(left) = ToSet(codes) \ {c}
  BY <1>1, <1>3, <1>4, <1>5, PickedSet
<1>7. Sorted(left)
  <2>1. DOMAIN left = 1 .. Len(left) /\ DOMAIN codes = 1 .. Len(codes)
    BY <1>1, <1>4
  <2>2. \A j \in DOMAIN left : m[j] \in DOMAIN codes /\ left[j] = codes[m[j]]
    BY <2>1, <1>3, <1>5 DEF Picks
  <2>3. \A j, k \in DOMAIN left : j < k => m[j] < m[k]
    BY <2>1, <1>5 DEF Picks
  <2> QED BY <2>2, <2>3, <1>1 DEF Sorted
<1> QED BY <1>4, <1>6, <1>7

\* A ship comes: its old entry is taken out, its new one is put where its number belongs,
\* and its code is among the codes, old or new.
LEMMA ShipUpSound ==
    ASSUME ShipMenuSound, NEW s \in ShipInfo, ShipUp(s)
    PROVE  ShipMenuSound'
<1>1. /\ ships \in Seq(ShipInfo) /\ codes \in Seq(AllCodes) /\ Sorted(codes) /\ Filed(ships)
      /\ \A x \in ToSet(ships) : x.code \in ToSet(codes)
  BY SoundParts
<1>2. s.code \in AllCodes /\ s.code \in Nat /\ AllCodes \in SUBSET Nat
  BY CodesAreNumbers DEF AllCodes
<1>3. codes \in Seq(Nat)
  BY <1>1, <1>2, SeqMonotonic
<1>4. CodeExists(codes, s.code) <=> s.code \in ToSet(codes)
  BY <1>1, <1>2, <1>3, CodeFound
<1>5. codes' \in Seq(AllCodes) /\ Sorted(codes') /\ ToSet(codes') = ToSet(codes) \cup {s.code}
  <2>1. CASE s.code \in ToSet(codes)
    <3>1. codes' = codes
      BY <2>1, <1>4 DEF ShipUp
    <3>2. ToSet(codes) = ToSet(codes) \cup {s.code}
      BY <2>1
    <3> QED BY <3>1, <3>2, <1>1
  <2>2. CASE s.code \notin ToSet(codes)
    <3>1. PICK new : new = MenuCodeSort(Append(codes, s.code))
      OBVIOUS
    <3>2. new \in Seq(AllCodes) /\ Sorted(new) /\ ToSet(new) = ToSet(codes) \cup {s.code}
      BY <2>2, <3>1, <1>1, <1>2, CodeSorted
    <3>3. codes' = new
      BY <2>2, <3>1, <1>4 DEF ShipUp
    <3> QED BY <3>2, <3>3
  <2> QED BY <2>1, <2>2
<1> DEFINE left == Without(s.id)
<1>6. /\ left \in Seq(ShipInfo) /\ Filed(left)
      /\ \A j \in DOMAIN left : left[j].id # s.id /\ \E i \in DOMAIN ships : left[j] = ships[i]
  BY ShipsLeft
<1> HIDE DEF left
<1>7. PICK placed : placed = Placed(left, s)
  OBVIOUS
<1>8. placed \in Seq(ShipInfo) /\ Filed(placed) /\ ToSet(placed) = ToSet(left) \cup {s}
  BY <1>6, <1>7, ShipPlaced
<1>9. ships' = placed
  BY <1>7 DEF ShipUp, left
<1>10. ToSet(left) \subseteq ToSet(ships)
  BY <1>6 DEF ToSet
<1>11. \A x \in ToSet(placed) : x.code \in ToSet(codes')
  BY <1>1, <1>5, <1>8, <1>10
<1> QED BY <1>5, <1>8, <1>9, <1>11, SoundNext

\* A ship goes; its code goes when no other is filed under it.
LEMMA ShipDownSound ==
    ASSUME ShipMenuSound, NEW id \in ShipIds, ShipDown(id)
    PROVE  ShipMenuSound'
<1>1. /\ ships \in Seq(ShipInfo) /\ codes \in Seq(AllCodes) /\ Sorted(codes) /\ Filed(ships)
      /\ \A x \in ToSet(ships) : x.code \in ToSet(codes)
  BY SoundParts
<1> DEFINE left == Without(id)
           c == (CHOOSE s \in ToSet(ships) : s.id = id).code
<1>2. ships' = left /\ codes' = IF InUse(c, left) THEN codes ELSE OtherCodes(c)
  BY DEF ShipDown, Those, OtherCodes
<1>3. /\ left \in Seq(ShipInfo) /\ Filed(left)
      /\ \A j \in DOMAIN left : \E i \in DOMAIN ships : left[j] = ships[i]
  BY ShipsLeft
<1> HIDE DEF left, c
<1>4. \A x \in ToSet(left) : x.code \in ToSet(codes)
  BY <1>1, <1>3 DEF ToSet
<1>5. CASE InUse(c, left)
  <2>1. codes' = codes
    BY <1>2, <1>5
  <2> QED BY <1>1, <1>2, <1>3, <1>4, <2>1, SoundNext
<1>6. CASE ~InUse(c, left)
  <2>1. PICK rest : rest = OtherCodes(c)
    OBVIOUS
  <2>2. rest \in Seq(AllCodes) /\ Sorted(rest) /\ ToSet(rest) = ToSet(codes) \ {c}
    BY <2>1, CodesLeft
  <2>3. codes' = rest
    BY <2>1, <1>2, <1>6
  <2>4. \A x \in ToSet(left) : x.code # c
    BY <1>6 DEF InUse, ToSet
  <2>5. \A x \in ToSet(left) : x.code \in ToSet(rest)
    BY <2>2, <2>4, <1>4
  <2> QED BY <2>2, <2>3, <2>5, <1>2, <1>3, SoundNext
<1> QED BY <1>5, <1>6

\* The search finds every code that is filed, and every ship is under a code that is filed,
\* in the order of the numbers and once, whatever comes, goes and is forgotten.
THEOREM ShipMenuCorrect == MenuSpec => []ShipMenuSound
<1>1. MenuInit => ShipMenuSound
  BY DEF MenuInit, ShipMenuSound
<1>2. ShipMenuSound /\ [MenuNext]_menuVars => ShipMenuSound'
  <2> SUFFICES ASSUME ShipMenuSound, [MenuNext]_menuVars PROVE ShipMenuSound'
    OBVIOUS
  <2>1. ASSUME NEW s \in ShipInfo, ShipUp(s) PROVE ShipMenuSound'
    BY <2>1, ShipUpSound
  <2>2. ASSUME NEW id \in ShipIds, ShipDown(id) PROVE ShipMenuSound'
    BY <2>2, ShipDownSound
  <2>3. ASSUME ForgetShips PROVE ShipMenuSound'
    BY <2>3 DEF ForgetShips, ShipMenuSound
  <2>4. ASSUME UNCHANGED menuVars PROVE ShipMenuSound'
    BY <2>4 DEF menuVars, ShipMenuSound
  <2> QED BY <2>1, <2>2, <2>3, <2>4 DEF MenuNext
<1> QED BY <1>1, <1>2, PTL DEF MenuSpec

\* Whoever is counted behind a menu is in it, but on the Dreamcast NTE.
LEMMA SeenIsListed ==
    ASSUME NEW v, ~(v.nte /\ v.dc), NEW s, SeenBehind(v, s)
    PROVE  IF v.dc THEN ListedDC(v, s) ELSE ListedPC(v, s)
BY DEF SeenBehind, ListedDC, ListedPC, Platform, GlobalGM

\* The codes and the ships of a menu are those that pass.
LEMMA CodesOffered ==
    ASSUME ShipMenuSound, NEW v, NEW code
    PROVE  ToSet(CodeList(v, code)) =
               {k \in ToSet(codes) : k # code /\ Spelt(k) /\ ~IsShipMenuEmpty(v, k)}
<1> DEFINE Passes(k) == k # code /\ Spelt(k) /\ ~IsShipMenuEmpty(v, k)
           K == {i \in DOMAIN codes : Passes(codes[i])}
           parts == [i \in DOMAIN codes |-> IF i \in K THEN <<codes[i]>> ELSE <<>>]
           out == FlattenSeq(parts)
<1>1. codes \in Seq(AllCodes)
  BY SoundParts
<1>2. CodeList(v, code) = out
  <2>1. CodeList(v, code) =
            FlattenSeq([i \in DOMAIN codes |-> IF Passes(codes[i]) THEN <<codes[i]>> ELSE <<>>])
    BY DEF CodeList, Those
  <2>2. parts = [i \in DOMAIN codes |-> IF Passes(codes[i]) THEN <<codes[i]>> ELSE <<>>]
    <3> HIDE DEF Passes
    <3> QED OBVIOUS
  <2> HIDE DEF parts
  <2> QED BY <2>1, <2>2
<1> HIDE DEF Passes
<1>3. K \in SUBSET DOMAIN codes /\ {codes[i] : i \in K} = {k \in ToSet(codes) : Passes(k)}
  BY DEF ToSet
<1> HIDE DEF K
<1>4. out \in Seq(AllCodes) /\ \E m : Picks(codes, K, out, m)
  <2>1. parts = [i \in DOMAIN codes |-> IF i \in K THEN <<codes[i]>> ELSE <<>>]
    OBVIOUS
  <2> HIDE DEF parts
  <2> QED BY <2>1, <1>1, <1>3, Picked
<1> HIDE DEF out
<1>5. ToSet(out) = {codes[i] : i \in K}
  BY <1>1, <1>3, <1>4, PickedSet
<1> QED BY <1>2, <1>3, <1>5 DEF Passes

LEMMA ShipsOffered ==
    ASSUME ShipMenuSound, NEW v, NEW code, NEW i \in DOMAIN ships, ships[i].code = code,
           IF v.dc THEN ListedDC(v, ships[i]) ELSE ListedPC(v, ships[i])
    PROVE  ShipList(v, code) # <<>>
<1> DEFINE Passes(s) == s.code = code /\ IF v.dc THEN ListedDC(v, s) ELSE ListedPC(v, s)
           K == {j \in DOMAIN ships : Passes(ships[j])}
           parts == [j \in DOMAIN ships |-> IF j \in K THEN <<ships[j]>> ELSE <<>>]
           out == FlattenSeq(parts)
<1>1. ships \in Seq(ShipInfo)
  BY SoundParts
<1>2. ShipList(v, code) = out
  <2>1. ShipList(v, code) =
            FlattenSeq([j \in DOMAIN ships |-> IF Passes(ships[j]) THEN <<ships[j]>> ELSE <<>>])
    BY DEF ShipList, Those
  <2>2. parts = [j \in DOMAIN ships |-> IF Passes(ships[j]) THEN <<ships[j]>> ELSE <<>>]
    <3> HIDE DEF Passes
    <3> QED OBVIOUS
  <2> HIDE DEF parts
  <2> QED BY <2>1, <2>2
<1>3. K \in SUBSET DOMAIN ships /\ i \in K
  OBVIOUS
<1> HIDE DEF K
<1>4. out \in Seq(ShipInfo) /\ \E m : Picks(ships, K, out, m)
  <2>1. parts = [j \in DOMAIN ships |-> IF j \in K THEN <<ships[j]>> ELSE <<>>]
    OBVIOUS
  <2> HIDE DEF parts
  <2> QED BY <2>1, <1>1, <1>3, Picked
<1> HIDE DEF out
<1>5. \E j \in 1 .. Len(out) : TRUE
  BY <1>3, <1>4 DEF Picks
<1>6. Len(<<>>) = 0
  OBVIOUS
<1> QED BY <1>2, <1>5, <1>6

\* Every menu that is offered leads somewhere, and leads to every ship that may be seen.
THEOREM MenusLeadCorrect == MenuSpec => []MenusLead
<1>1. ShipMenuSound => MenusLead
  <2> SUFFICES ASSUME ShipMenuSound, NEW v \in Viewer, ~(v.nte /\ v.dc), NEW code \in ToSet(codes)
               PROVE  /\ \A k \in ToSet(CodeList(v, code)) : ShipList(v, k) # <<>>
                      /\ \A i \in DOMAIN ships :
                            SeenBehind(v, ships[i]) /\ ships[i].code # code /\ Spelt(ships[i].code) =>
                                ships[i].code \in ToSet(CodeList(v, code))
    BY DEF MenusLead
  <2>1. ASSUME NEW k \in ToSet(CodeList(v, code)) PROVE ShipList(v, k) # <<>>
    <3>1. ~IsShipMenuEmpty(v, k)
      BY CodesOffered
    <3>2. PICK i \in DOMAIN ships : ships[i].code = k /\ SeenBehind(v, ships[i])
      BY <3>1 DEF IsShipMenuEmpty
    <3>3. IF v.dc THEN ListedDC(v, ships[i]) ELSE ListedPC(v, ships[i])
      BY <3>2, SeenIsListed
    <3> QED BY <3>2, <3>3, ShipsOffered
  <2>2. ASSUME NEW i \in DOMAIN ships, SeenBehind(v, ships[i]), ships[i].code # code, Spelt(ships[i].code)
        PROVE  ships[i].code \in ToSet(CodeList(v, code))
    <3>1. ships[i].code \in ToSet(codes)
      BY DEF ShipMenuSound
    <3>2. ~IsShipMenuEmpty(v, ships[i].code)
      BY <2>2 DEF IsShipMenuEmpty
    <3> QED BY <2>2, <3>1, <3>2, CodesOffered
  <2> QED BY <2>1, <2>2
<1> QED BY <1>1, ShipMenuCorrect, PTL

(***************************************************************************)
(* All that MCServer.tla runs.                                             *)
(***************************************************************************)

\* Whichever part a server moves in, the shipgate's connection and the bans keep their types
\* and the menu is sound: the invariant the composed run checks.
THEOREM ServerFits == ServerSpec => []ServerTypesOK
<1>1. ServerSpec => GateSpec
  <2>1. ServerInit => GateInit
    BY DEF ServerInit
  <2>2. [ServerNext]_serverVars => [GateNext]_gateVars
    BY DEF ServerNext, serverVars
  <2> QED BY <2>1, <2>2, PTL DEF ServerSpec, GateSpec
<1>2. ServerSpec => MenuSpec
  <2>1. ServerInit => MenuInit
    BY DEF ServerInit
  <2>2. [ServerNext]_serverVars => [MenuNext]_menuVars
    BY DEF ServerNext, serverVars
  <2> QED BY <2>1, <2>2, PTL DEF ServerSpec, MenuSpec
<1>3. ServerSpec => BansSpec
  <2>1. ServerInit => BansInit
    BY DEF ServerInit
  <2>2. [ServerNext]_serverVars => [BansNext]_bansVars
    BY DEF ServerNext, serverVars
  <2> QED BY <2>1, <2>2, PTL DEF ServerSpec, BansSpec
<1> QED BY <1>1, <1>2, <1>3, GateFits, ShipMenuCorrect, BansTypeCorrect, PTL DEF ServerTypesOK

=============================================================================
