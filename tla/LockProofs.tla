----------------------------- MODULE LockProofs -----------------------------
(***************************************************************************)
(* What is proved of BlockLocks.tla: that a handler gives back every lock  *)
(* it takes, and that threads never wait for one another in a circle while *)
(* the handlers keep to one order; for any number of blocks, lobbies and   *)
(* clients.                                                                *)
(***************************************************************************)
EXTENDS BlockLocks, NatMin, SequenceTheorems, TLAPS

Lock ==
    {Clients(b) : b \in Block} \cup {Lobbies(b) : b \in Block} \cup {ScriptMutex}
    \cup {LobbyMutex(l) : l \in ListedLobby} \cup {ClientMutex(c) : c \in ListedClient}
Deed == [do : {"read", "write", "lock", "release"}, lock : Lock]

\* The handlers that are served keep to the order of locks: none of those that do not,
\* and nothing that locks a mutex twice if that hangs.
Ordered ==
    /\ {"event", "flag", "stray flag", "quest script", "hacked character", "unknown legit"} \cap Served = {}
    /\ "search" \in Served => \E b \in Block : Block = {b}
    /\ Relock = "hangs" => {"held back", "bb drop"} \cap Served = {}

\* What a thread takes of its own accord: a block's what belongs to the block, the ship's
\* no lobby and nothing for writing.
Own(t) ==
    {Take("lock", ScriptMutex)} \cup
    IF t = Ship
    THEN {Take("read", Clients(b)) : b \in Block} \cup {Take("lock", ClientMutex(c)) : c \in ListedClient}
    ELSE {Take("read", Clients(t)), Take("write", Clients(t)),
          Take("read", Lobbies(t)), Take("write", Lobbies(t))}
         \cup {Take("lock", LobbyMutex(l)) : l \in ToSet(Lobby[t])}
         \cup {Take("lock", ClientMutex(c)) : c \in ToSet(List[t])}

\* The order: nothing is taken under the mutex of the scripts, by the ship's thread nothing
\* under a client's; a block's list of clients is taken for writing with nothing held, and
\* what is the thread's alone is not taken twice.
Obeys(t, H, s) ==
    /\ s \in Own(t)
    /\ \A e \in H : e.lock # ScriptMutex
    /\ t = Ship => \A e \in H : e.lock[1] # "ship_client_t.mutex"
    /\ s.lock[1] = "block_t.lock" /\ s.do = "write" => H = {}
    /\ s.lock[1] = "block_t.lock" /\ s.do = "read" => Take("write", s.lock) \notin H
    /\ s.lock[1] = "block_t.lobby_lock" => \A e \in H : e.lock # s.lock
    /\ s.lock[1] = "lobby_t.mutex" /\ Relock = "hangs" => \A e \in H : e.lock # s.lock
May(t, h, s) == Ordered /\ s.do # "release" => Obeys(t, ToSet(h), s)

\* These steps lead a thread that holds h to hold g.
Follows(t, h, steps, g) ==
    \E f \in [0 .. Len(steps) -> Seq(Deed)] :
        /\ f[0] = h /\ f[Len(steps)] = g
        /\ \A i \in 1 .. Len(steps) :
              May(t, f[i - 1], steps[i]) /\ f[i] = HeldAfter(f[i - 1], steps[i])

-----------------------------------------------------------------------------
\* Sequences

\* What is in a sequence that grows at its end.
LEMMA AppendedSet ==
    ASSUME NEW S, NEW h \in Seq(S), NEW e \in S
    PROVE  ToSet(Append(h, e)) = ToSet(h) \cup {e}
<1>1. /\ DOMAIN Append(h, e) = 1 .. Len(h) + 1 /\ DOMAIN h = 1 .. Len(h) /\ Len(h) \in Nat
      /\ Append(h, e)[Len(h) + 1] = e
      /\ \A i \in 1 .. Len(h) : Append(h, e)[i] = h[i]
  OBVIOUS
<1>2. ASSUME NEW x \in ToSet(Append(h, e)) PROVE x \in ToSet(h) \cup {e}
  BY <1>1 DEF ToSet
<1>3. ASSUME NEW x \in ToSet(h) \cup {e} PROVE x \in ToSet(Append(h, e))
  BY <1>1 DEF ToSet
<1> QED BY <1>2, <1>3

\* What was appended last is what is removed at the end.
LEMMA LastRemoved ==
    ASSUME NEW S, NEW h \in Seq(S), NEW e \in S
    PROVE  RemoveAt(Append(h, e), Len(h) + 1) = h
<1>1. Append(h, e) \in Seq(S) /\ Len(Append(h, e)) = Len(h) + 1 /\ Len(h) \in Nat
      /\ \A i \in 1 .. Len(h) : Append(h, e)[i] = h[i]
  OBVIOUS
<1>2. SubSeq(Append(h, e), 1, Len(h) + 1 - 1) = h
  <2>1. SubSeq(Append(h, e), 1, Len(h)) \in Seq(S) /\ Len(SubSeq(Append(h, e), 1, Len(h))) = Len(h)
        /\ \A i \in 1 .. Len(h) : SubSeq(Append(h, e), 1, Len(h))[i] = Append(h, e)[i]
    BY <1>1
  <2>2. SubSeq(Append(h, e), 1, Len(h)) = h
    BY <2>1, <1>1, SeqEqual
  <2>3. Len(h) + 1 - 1 = Len(h)
    BY <1>1
  <2> QED BY <2>2, <2>3
<1>3. SubSeq(Append(h, e), Len(h) + 1 + 1, Len(Append(h, e))) = <<>>
  <2>1. Len(h) + 1 + 1 > Len(Append(h, e))
    BY <1>1
  <2> QED BY <2>1, <1>1, SubSeqEmpty
<1> QED BY <1>2, <1>3, ConcatEmptySeq DEF RemoveAt

\* Something removed leaves a sequence, of some of the elements.
LEMMA RemovedSet ==
    ASSUME NEW S, NEW h \in Seq(S), NEW k \in 1 .. Len(h)
    PROVE  RemoveAt(h, k) \in Seq(S) /\ ToSet(RemoveAt(h, k)) \subseteq ToSet(h)
<1> DEFINE R == ToSet(h)
<1>1. h \in Seq(R)
  <2>1. h \in [1 .. Len(h) -> R] /\ Len(h) \in Nat
    BY DEF ToSet
  <2> QED BY <2>1
<1>2. ASSUME NEW T, h \in Seq(T) PROVE RemoveAt(h, k) \in Seq(T)
  <2>1. SubSeq(h, 1, k - 1) \in Seq(T) /\ SubSeq(h, k + 1, Len(h)) \in Seq(T)
    BY <1>2
  <2> QED BY <2>1 DEF RemoveAt
<1>3. RemoveAt(h, k) \in Seq(R)
  BY <1>1, <1>2
<1>4. ToSet(RemoveAt(h, k)) \subseteq R
  <2> HIDE DEF R
  <2> QED BY <1>3 DEF ToSet
<1> QED BY <1>2, <1>4

-----------------------------------------------------------------------------
\* What a thread holds after a step

LEMMA TakenHeld ==
    ASSUME NEW h \in Seq(Deed), NEW s \in Deed, s.do # "release",
           s.lock[1] \notin NotRecursive \/ \A e \in ToSet(h) : e.lock # s.lock
    PROVE  HeldAfter(h, s) = Append(h, s)
BY DEF HeldAfter, ToSet

\* What is given back is what was taken last, if it was that lock.
LEMMA GivenBack ==
    ASSUME NEW h \in Seq(Deed), NEW s \in Deed, NEW r \in Deed, r.do = "release", r.lock = s.lock
    PROVE  HeldAfter(Append(h, s), r) = h
<1> DEFINE g == Append(h, s)
           at == {i \in DOMAIN g : g[i].lock = r.lock}
<1>1. DOMAIN g = 1 .. Len(h) + 1 /\ Len(h) \in Nat /\ g[Len(h) + 1] = s
  OBVIOUS
<1>2. at # {} /\ Max(at) = Len(h) + 1
  <2> HIDE DEF g
  <2>1. Len(h) + 1 \in at /\ at \in SUBSET (0 .. Len(h) + 1)
    BY <1>1
  <2>2. Len(h) + 1 \in Nat
    BY <1>1
  <2> HIDE DEF at
  <2>3. Max(at) \in at /\ \A i \in at : i <= Max(at)
    BY <2>1, <2>2, MaxOfNat
  <2>4. Max(at) \in 0 .. Len(h) + 1 /\ Len(h) + 1 <= Max(at)
    BY <2>1, <2>3
  <2> QED BY <2>1, <2>4, <1>1
<1>3. RemoveAt(g, Len(h) + 1) = h
  BY LastRemoved
<1> HIDE DEF g
<1>4. HeldAfter(g, r) = RemoveAt(g, Max(at))
  BY <1>2 DEF HeldAfter
<1> QED BY <1>2, <1>3, <1>4 DEF g

LEMMA NotHeldBefore ==
    ASSUME NEW h \in Seq(Deed), NEW r \in Deed, r.do = "release", \A e \in ToSet(h) : e.lock # r.lock
    PROVE  HeldAfter(h, r) = h
BY DEF HeldAfter, ToSet

\* After a step a thread holds what it held, or less, and what it took.
LEMMA HeldType ==
    ASSUME NEW h \in Seq(Deed), NEW s \in Deed
    PROVE  /\ HeldAfter(h, s) \in Seq(Deed)
           /\ \A e \in ToSet(HeldAfter(h, s)) : e \in ToSet(h) \/ (e = s /\ s.do # "release")
<1> DEFINE at == {i \in DOMAIN h : h[i].lock = s.lock}
<1>1. CASE s.do = "release" /\ at # {}
  <2>1. at \in SUBSET (0 .. Len(h)) /\ Len(h) \in Nat /\ at \subseteq 1 .. Len(h)
    OBVIOUS
  <2>2. Max(at) \in 1 .. Len(h)
    <3> HIDE DEF at
    <3> QED BY <2>1, <1>1, MaxOfNat
  <2>3. HeldAfter(h, s) = RemoveAt(h, Max(at))
    BY <1>1 DEF HeldAfter
  <2> HIDE DEF at
  <2> QED BY <2>2, <2>3, RemovedSet
<1>2. CASE s.do # "release" /\ HeldAfter(h, s) = Append(h, s)
  <2>1. Append(h, s) \in Seq(Deed)
    OBVIOUS
  <2> QED BY <1>2, <2>1, AppendedSet
<1>3. CASE HeldAfter(h, s) = h
  BY <1>3
<1> QED BY <1>1, <1>2, <1>3 DEF HeldAfter

-----------------------------------------------------------------------------
\* Steps that follow one another

LEMMA NothingFollows ==
    ASSUME NEW t, NEW h \in Seq(Deed)
    PROVE  Follows(t, h, <<>>, h)
<1> DEFINE f == [i \in 0 .. 0 |-> h]
<1>1. f \in [0 .. Len(<<>>) -> Seq(Deed)] /\ f[0] = h /\ f[Len(<<>>)] = h
  OBVIOUS
<1>2. \A i \in 1 .. Len(<<>>) : FALSE
  OBVIOUS
<1> QED BY <1>1, <1>2 DEF Follows

LEMMA OneFollows ==
    ASSUME NEW t, NEW h \in Seq(Deed), NEW s \in Deed, May(t, h, s)
    PROVE  Follows(t, h, <<s>>, HeldAfter(h, s))
<1> DEFINE g == HeldAfter(h, s)
           f == [i \in 0 .. 1 |-> IF i = 0 THEN h ELSE g]
<1>1. g \in Seq(Deed)
  BY HeldType
<1>2. Len(<<s>>) = 1 /\ <<s>>[1] = s
  OBVIOUS
<1>3. f \in [0 .. 1 -> Seq(Deed)] /\ f[0] = h /\ f[1] = g
  <2> HIDE DEF g
  <2> QED BY <1>1
<1>4. \A i \in 1 .. 1 : i = 1 /\ i - 1 = 0
  OBVIOUS
<1> HIDE DEF f
<1> QED BY <1>2, <1>3, <1>4 DEF Follows

\* One after another.
LEMMA BothFollow ==
    ASSUME NEW t, NEW h, NEW k, NEW g, NEW a \in Seq(Deed), NEW b \in Seq(Deed),
           Follows(t, h, a, k), Follows(t, k, b, g)
    PROVE  Follows(t, h, a \o b, g)
<1>1. PICK fa \in [0 .. Len(a) -> Seq(Deed)] :
        /\ fa[0] = h /\ fa[Len(a)] = k
        /\ \A i \in 1 .. Len(a) : May(t, fa[i - 1], a[i]) /\ fa[i] = HeldAfter(fa[i - 1], a[i])
  BY DEF Follows
<1>2. PICK fb \in [0 .. Len(b) -> Seq(Deed)] :
        /\ fb[0] = k /\ fb[Len(b)] = g
        /\ \A i \in 1 .. Len(b) : May(t, fb[i - 1], b[i]) /\ fb[i] = HeldAfter(fb[i - 1], b[i])
  BY DEF Follows
<1> DEFINE n == Len(a) + Len(b)
           f == [i \in 0 .. n |-> IF i <= Len(a) THEN fa[i] ELSE fb[i - Len(a)]]
<1>3. /\ Len(a) \in Nat /\ Len(b) \in Nat /\ a \o b \in Seq(Deed) /\ Len(a \o b) = n
      /\ \A i \in 1 .. Len(a) : (a \o b)[i] = a[i]
      /\ \A i \in 1 .. Len(b) : (a \o b)[Len(a) + i] = b[i]
  BY ConcatProperties
<1>4. f \in [0 .. n -> Seq(Deed)]
  <2> SUFFICES ASSUME NEW i \in 0 .. n
               PROVE  (IF i <= Len(a) THEN fa[i] ELSE fb[i - Len(a)]) \in Seq(Deed)
    OBVIOUS
  <2>1. CASE i <= Len(a)
    <3>1. i \in 0 .. Len(a)
      BY <2>1, <1>3
    <3> QED BY <2>1, <3>1
  <2>2. CASE ~(i <= Len(a))
    <3>1. i - Len(a) \in 0 .. Len(b)
      BY <2>2, <1>3
    <3> QED BY <2>2, <3>1
  <2> QED BY <2>1, <2>2
<1>5. /\ \A i \in 0 .. Len(a) : f[i] = fa[i]
      /\ \A i \in 0 .. Len(b) : f[Len(a) + i] = fb[i]
  <2>1. \A i \in 0 .. Len(a) : f[i] = fa[i]
    BY <1>3
  <2>2. ASSUME NEW i \in 0 .. Len(b) PROVE f[Len(a) + i] = fb[i]
    <3>1. CASE i = 0
      BY <3>1, <2>1, <1>1, <1>2, <1>3
    <3>2. CASE i # 0
      <4>1. Len(a) + i \in 0 .. n /\ ~(Len(a) + i <= Len(a)) /\ Len(a) + i - Len(a) = i
        BY <3>2, <1>3
      <4> QED BY <4>1
    <3> QED BY <3>1, <3>2
  <2> QED BY <2>1, <2>2
<1> HIDE DEF f
<1>6. ASSUME NEW i \in 1 .. n
      PROVE  May(t, f[i - 1], (a \o b)[i]) /\ f[i] = HeldAfter(f[i - 1], (a \o b)[i])
  <2>1. CASE i <= Len(a)
    <3>1. i \in 1 .. Len(a) /\ i \in 0 .. Len(a) /\ i - 1 \in 0 .. Len(a)
      BY <2>1, <1>3
    <3> QED BY <3>1, <1>1, <1>3, <1>5
  <2>2. CASE ~(i <= Len(a))
    <3>1. PICK j \in 1 .. Len(b) : i = Len(a) + j
      <4>1. i - Len(a) \in 1 .. Len(b) /\ i = Len(a) + (i - Len(a))
        BY <2>2, <1>3
      <4> QED BY <4>1
    <3>2. j \in 0 .. Len(b) /\ j - 1 \in 0 .. Len(b) /\ i - 1 = Len(a) + (j - 1)
      BY <3>1, <1>3
    <3>3. f[i] = fb[j] /\ f[i - 1] = fb[j - 1] /\ (a \o b)[i] = b[j]
      BY <3>1, <3>2, <1>5, <1>3
    <3> QED BY <3>1, <3>3, <1>2
  <2> QED BY <2>1, <2>2
<1>7. f[0] = h /\ f[n] = g
  <2>1. 0 \in 0 .. Len(a) /\ Len(b) \in 0 .. Len(b)
    BY <1>3
  <2> QED BY <2>1, <1>5, <1>1, <1>2
<1> HIDE DEF n
<1> QED BY <1>3, <1>4, <1>6, <1>7 DEF Follows

\* The first step, and what follows it.
LEMMA RestFollows ==
    ASSUME NEW t, NEW h \in Seq(Deed), NEW g, NEW a \in Seq(Deed), a # <<>>, Follows(t, h, a, g)
    PROVE  /\ Head(a) \in Deed /\ Tail(a) \in Seq(Deed)
           /\ May(t, h, Head(a)) /\ Follows(t, HeldAfter(h, Head(a)), Tail(a), g)
<1>1. PICK fa \in [0 .. Len(a) -> Seq(Deed)] :
        /\ fa[0] = h /\ fa[Len(a)] = g
        /\ \A i \in 1 .. Len(a) : May(t, fa[i - 1], a[i]) /\ fa[i] = HeldAfter(fa[i - 1], a[i])
  BY DEF Follows
<1> DEFINE n == Len(a) - 1
           f == [i \in 0 .. n |-> fa[i + 1]]
<1>2. /\ Len(a) \in Nat \ {0} /\ Head(a) = a[1] /\ Head(a) \in Deed
      /\ Tail(a) \in Seq(Deed) /\ Len(Tail(a)) = n
      /\ \A i \in 1 .. n : Tail(a)[i] = a[i + 1]
  OBVIOUS
<1>3. n \in Nat /\ 1 \in 1 .. Len(a) /\ n + 1 = Len(a) /\ 0 \in 0 .. n /\ n \in 0 .. n
      /\ \A i \in 0 .. n : i + 1 \in 0 .. Len(a)
  BY <1>2
<1>4. f \in [0 .. n -> Seq(Deed)] /\ f[0] = fa[1] /\ f[n] = g
  BY <1>1, <1>3
<1>5. ASSUME NEW i \in 1 .. n
      PROVE  May(t, f[i - 1], Tail(a)[i]) /\ f[i] = HeldAfter(f[i - 1], Tail(a)[i])
  <2>1. i + 1 \in 1 .. Len(a) /\ i + 1 - 1 = i /\ i - 1 + 1 = i /\ i \in 0 .. n /\ i - 1 \in 0 .. n
    BY <1>2
  <2>2. f[i - 1] = fa[i] /\ f[i] = fa[i + 1]
    BY <2>1
  <2> QED BY <2>1, <2>2, <1>1, <1>2
<1>6. May(t, h, Head(a)) /\ fa[1] = HeldAfter(h, Head(a))
  <2>1. 1 - 1 = 0
    OBVIOUS
  <2> QED BY <2>1, <1>1, <1>2, <1>3
<1> HIDE DEF f, n
<1> QED BY <1>2, <1>4, <1>5, <1>6 DEF Follows

\* A lock is held for some steps, which give back what they take themselves.
LEMMA WithinFollows ==
    ASSUME NEW t, NEW h \in Seq(Deed), NEW mode \in {"read", "write", "lock"}, NEW lock \in Lock,
           NEW body \in Seq(Deed), May(t, h, Take(mode, lock)),
           lock[1] \notin NotRecursive \/ \A e \in ToSet(h) : e.lock # lock,
           Follows(t, Append(h, Take(mode, lock)), body, Append(h, Take(mode, lock)))
    PROVE  Within(mode, lock, body) \in Seq(Deed) /\ Follows(t, h, Within(mode, lock, body), h)
<1> DEFINE s == Take(mode, lock)
           r == Take("release", lock)
           g == Append(h, s)
<1>1. s \in Deed /\ r \in Deed /\ s.do # "release" /\ r.do = "release"
      /\ s.lock = lock /\ r.lock = lock
  BY DEF Take, Deed
<1> HIDE DEF s, r
<1>2. g \in Seq(Deed) /\ HeldAfter(h, s) = g /\ HeldAfter(g, r) = h
  BY <1>1, TakenHeld, GivenBack
<1> HIDE DEF g
<1>3. Follows(t, h, <<s>>, g)
  BY <1>1, <1>2, OneFollows DEF s
<1>4. Follows(t, g, body, g)
  BY DEF g, s
<1>5. May(t, g, r)
  BY <1>1 DEF May
<1>6. Follows(t, g, <<r>>, h)
  BY <1>1, <1>2, <1>5, OneFollows
<1>7. <<s>> \in Seq(Deed) /\ <<r>> \in Seq(Deed)
  BY <1>1
<1>8. <<s>> \o body \in Seq(Deed) /\ Follows(t, h, <<s>> \o body, g)
  BY <1>3, <1>4, <1>7, BothFollow, ConcatProperties
<1>9. <<s>> \o body \o <<r>> \in Seq(Deed) /\ Follows(t, h, <<s>> \o body \o <<r>>, h)
  BY <1>6, <1>7, <1>8, BothFollow, ConcatProperties
<1> QED BY <1>9 DEF Within, s, r

\* The same of a mutex that is not recursive and is held already, if that fails: it is free
\* afterwards.
LEMMA AgainFollows ==
    ASSUME NEW t, NEW h \in Seq(Deed), NEW l \in ListedLobby,
           \A e \in ToSet(h) : e.lock # LobbyMutex(l),
           May(t, h, Take("lock", LobbyMutex(l))),
           May(t, Append(h, Take("lock", LobbyMutex(l))), Take("lock", LobbyMutex(l)))
    PROVE  HeldBack(l) \in Seq(Deed) /\ Follows(t, h, HeldBack(l), h)
<1> DEFINE lock == LobbyMutex(l)
           s == Take("lock", lock)
           r == Take("release", lock)
           g == Append(h, s)
<1>1. s \in Deed /\ r \in Deed /\ s.do # "release" /\ r.do = "release"
      /\ s.lock = lock /\ r.lock = lock /\ lock[1] \in NotRecursive
  BY DEF Take, Deed, Lock, LobbyMutex, NotRecursive
<1>2. May(t, h, s) /\ May(t, g, s) /\ \A e \in ToSet(h) : e.lock # lock
  OBVIOUS
<1>3. HeldBack(l) = (<<s>> \o ((<<s>> \o <<>>) \o <<r>>)) \o <<r>>
  BY DEF HeldBack, Packet, Within
<1> HIDE DEF s, r, lock
<1>4. g \in Seq(Deed) /\ HeldAfter(h, s) = g /\ HeldAfter(g, r) = h /\ HeldAfter(h, r) = h
  BY <1>1, <1>2, TakenHeld, GivenBack, NotHeldBefore
<1>5. HeldAfter(g, s) = g
  <2>1. g[Len(h) + 1] = s /\ Len(h) + 1 \in DOMAIN g
    OBVIOUS
  <2> HIDE DEF g
  <2> QED BY <2>1, <1>1 DEF HeldAfter
<1> HIDE DEF g
<1>6. May(t, g, r) /\ May(t, h, r)
  BY <1>1 DEF May
<1>7. /\ Follows(t, h, <<s>>, g) /\ Follows(t, g, <<s>>, g)
      /\ Follows(t, g, <<r>>, h) /\ Follows(t, h, <<r>>, h)
  BY <1>1, <1>2, <1>4, <1>5, <1>6, OneFollows
<1>8. <<s>> \in Seq(Deed) /\ <<r>> \in Seq(Deed) /\ <<>> \in Seq(Deed) /\ Follows(t, g, <<>>, g)
  BY <1>1, <1>4, NothingFollows
<1>9. <<s>> \o <<>> \in Seq(Deed) /\ Follows(t, g, <<s>> \o <<>>, g)
  BY <1>7, <1>8, BothFollow, ConcatProperties
<1>10. (<<s>> \o <<>>) \o <<r>> \in Seq(Deed) /\ Follows(t, g, (<<s>> \o <<>>) \o <<r>>, h)
  BY <1>7, <1>8, <1>9, BothFollow, ConcatProperties
<1>11. /\ <<s>> \o ((<<s>> \o <<>>) \o <<r>>) \in Seq(Deed)
       /\ Follows(t, h, <<s>> \o ((<<s>> \o <<>>) \o <<r>>), h)
  BY <1>7, <1>8, <1>10, BothFollow, ConcatProperties
<1>12. /\ (<<s>> \o ((<<s>> \o <<>>) \o <<r>>)) \o <<r>> \in Seq(Deed)
       /\ Follows(t, h, (<<s>> \o ((<<s>> \o <<>>) \o <<r>>)) \o <<r>>, h)
  BY <1>7, <1>8, <1>11, BothFollow, ConcatProperties
<1> QED BY <1>3, <1>12

-----------------------------------------------------------------------------
\* Steps for each member of a list

\* If the steps for each member give back what they take, so do all of them together.
LEMMA EachFollows ==
    ASSUME NEW t, NEW h \in Seq(Deed), NEW n \in Nat, NEW seqs, DOMAIN seqs = 1 .. n,
           Len(seqs) = n, n = 0 => seqs = <<>>,
           \A i \in 1 .. n : seqs[i] \in Seq(Deed) /\ Follows(t, h, seqs[i], h)
    PROVE  FlattenSeq(seqs) \in Seq(Deed) /\ Follows(t, h, FlattenSeq(seqs), h)
<1>1. CASE n = 0
  <2>1. FlattenSeq(seqs) = <<>>
    BY <1>1 DEF FlattenSeq
  <2> QED BY <2>1, NothingFollows
<1>2. CASE n # 0
  <2>1. PICK F : /\ F = [i \in 1 .. n |-> IF i = 1 THEN seqs[i] ELSE F[i - 1] \o seqs[i]]
                 /\ FlattenSeq(seqs) = F[n]
    <3>1. \A i \in 1 .. n : seqs[i] \in Seq(Deed)
      OBVIOUS
    <3> QED BY <3>1, <1>2, Flattened
  <2> DEFINE Bad == {i \in 1 .. n : ~(F[i] \in Seq(Deed) /\ Follows(t, h, F[i], h))}
  <2>3. Bad = {}
    <3> SUFFICES ASSUME Bad # {} PROVE FALSE
      OBVIOUS
    <3> DEFINE m == Min(Bad)
    <3>1. m \in Bad /\ \A k \in Bad : m <= k
      <4>1. Bad \in SUBSET Nat /\ Bad # {}
        OBVIOUS
      <4> HIDE DEF Bad
      <4> QED BY <4>1, MinOfNat
    <3> HIDE DEF m
    <3>2. m \in 1 .. n /\ ~(F[m] \in Seq(Deed) /\ Follows(t, h, F[m], h))
      BY <3>1
    <3>3. F[m] = IF m = 1 THEN seqs[m] ELSE F[m - 1] \o seqs[m]
      BY <2>1, <3>2
    <3>4. CASE m = 1
      BY <3>2, <3>3, <3>4
    <3>5. CASE m # 1
      <4>1. m - 1 \in 1 .. n /\ ~(m <= m - 1)
        BY <3>2, <3>5
      <4>2. m - 1 \notin Bad
        <5> HIDE DEF Bad
        <5> QED BY <4>1, <3>1
      <4>3. F[m - 1] \in Seq(Deed) /\ Follows(t, h, F[m - 1], h)
        BY <4>1, <4>2
      <4>4. seqs[m] \in Seq(Deed) /\ Follows(t, h, seqs[m], h)
        BY <3>2
      <4>5. F[m - 1] \o seqs[m] \in Seq(Deed) /\ Follows(t, h, F[m - 1] \o seqs[m], h)
        BY <4>3, <4>4, BothFollow, ConcatProperties
      <4> QED BY <4>5, <3>2, <3>3, <3>5
    <3> QED BY <3>4, <3>5
  <2>4. n \in 1 .. n /\ n \notin Bad
    BY <1>2, <2>3
  <2>5. F[n] \in Seq(Deed) /\ Follows(t, h, F[n], h)
    BY <2>4
  <2> QED BY <2>1, <2>5
<1> QED BY <1>1, <1>2

-----------------------------------------------------------------------------
\* Which locks a thread may take, by the kinds of those it holds

Kinds(h) == {e.lock[1] : e \in ToSet(h)}
Outer(h) == Kinds(h) \subseteq {"block_t.lock", "ship_client_t.mutex"}

LEMMA KindsGrow ==
    ASSUME NEW h \in Seq(Deed), NEW s \in Deed
    PROVE  Append(h, s) \in Seq(Deed) /\ Kinds(Append(h, s)) = Kinds(h) \cup {s.lock[1]}
<1>1. ToSet(Append(h, s)) = ToSet(h) \cup {s}
  BY AppendedSet
<1>2. Append(h, s) \in Seq(Deed)
  OBVIOUS
<1> QED BY <1>1, <1>2 DEF Kinds

LEMMA KindsOfNothing == Kinds(<<>>) = {} /\ ToSet(<<>>) = {} /\ <<>> \in Seq(Deed)
BY DEF Kinds, ToSet

LEMMA Deeds ==
    ASSUME NEW lock \in Lock
    PROVE  /\ \A mode \in {"read", "write", "lock", "release"} : Take(mode, lock) \in Deed
           /\ \A mode : Take(mode, lock).do = mode /\ Take(mode, lock).lock = lock
BY DEF Take, Deed

LEMMA BlockLocksAre ==
    ASSUME NEW b \in Block
    PROVE  /\ Clients(b) \in Lock /\ Lobbies(b) \in Lock /\ ScriptMutex \in Lock
           /\ \A l \in ToSet(Lobby[b]) : l \in ListedLobby /\ LobbyMutex(l) \in Lock
           /\ \A c \in ToSet(List[b]) : c \in ListedClient /\ ClientMutex(c) \in Lock
           /\ \A l \in ToSet(Lobby[b]) : ToSet(In[l]) \subseteq ToSet(List[b]) /\ In[l] \in Seq(ToSet(List[b]))
<1>1. \A l \in ToSet(Lobby[b]) : l \in ListedLobby
  BY DEF ListedLobby
<1>2. \A c \in ToSet(List[b]) : c \in ListedClient
  BY DEF ListedClient
<1>3. ASSUME NEW l \in ToSet(Lobby[b])
      PROVE  ToSet(In[l]) \subseteq ToSet(List[b]) /\ In[l] \in Seq(ToSet(List[b]))
  <2>1. ToSet(In[l]) \subseteq ToSet(List[b]) /\ In[l] \in Seq(ListedClient)
    BY <1>1, BlockLocksConstants
  <2>2. Len(In[l]) \in Nat /\ DOMAIN In[l] = 1 .. Len(In[l]) /\ \A i \in DOMAIN In[l] : In[l][i] \in ToSet(In[l])
    BY <2>1 DEF ToSet
  <2>3. In[l] \in [1 .. Len(In[l]) -> ToSet(List[b])]
    BY <2>1, <2>2
  <2> QED BY <2>1, <2>2, <2>3
<1> QED BY <1>1, <1>2, <1>3 DEF Lock

LEMMA BlockMay ==
    ASSUME NEW b \in Block, NEW h \in Seq(Deed), "script_mutex" \notin Kinds(h)
    PROVE  /\ May(b, h, Take("lock", ScriptMutex))
           /\ \A c \in ToSet(List[b]) : May(b, h, Take("lock", ClientMutex(c)))
           /\ \A l \in ToSet(Lobby[b]) : (\A e \in ToSet(h) : e.lock # LobbyMutex(l)) \/ Relock = "fails"
                => May(b, h, Take("lock", LobbyMutex(l)))
           /\ "block_t.lobby_lock" \notin Kinds(h)
                => May(b, h, Take("read", Lobbies(b))) /\ May(b, h, Take("write", Lobbies(b)))
<1>1. b # Ship /\ \A e \in ToSet(h) : e.lock[1] # "script_mutex" /\ e.lock # ScriptMutex
  BY BlockLocksConstants DEF Kinds, ScriptMutex
<1>2. "block_t.lobby_lock" \notin Kinds(h) => \A e \in ToSet(h) : e.lock # Lobbies(b)
  BY DEF Kinds, Lobbies
<1>3. /\ Take("lock", ScriptMutex) \in Own(b)
      /\ Take("read", Lobbies(b)) \in Own(b) /\ Take("write", Lobbies(b)) \in Own(b)
      /\ \A c \in ToSet(List[b]) : Take("lock", ClientMutex(c)) \in Own(b)
      /\ \A l \in ToSet(Lobby[b]) : Take("lock", LobbyMutex(l)) \in Own(b)
  BY <1>1 DEF Own
<1>4. May(b, h, Take("lock", ScriptMutex))
  BY <1>1, <1>3 DEF May, Obeys, Take, ScriptMutex
<1>5. ASSUME NEW c \in ToSet(List[b]) PROVE May(b, h, Take("lock", ClientMutex(c)))
  BY <1>1, <1>3 DEF May, Obeys, Take, ClientMutex
<1>6. ASSUME NEW l \in ToSet(Lobby[b]), (\A e \in ToSet(h) : e.lock # LobbyMutex(l)) \/ Relock = "fails"
      PROVE  May(b, h, Take("lock", LobbyMutex(l)))
  BY <1>1, <1>3, <1>6 DEF May, Obeys, Take, LobbyMutex
<1>7. ASSUME "block_t.lobby_lock" \notin Kinds(h)
      PROVE  May(b, h, Take("read", Lobbies(b))) /\ May(b, h, Take("write", Lobbies(b)))
  BY <1>1, <1>2, <1>3, <1>7 DEF May, Obeys, Take, Lobbies
<1> QED BY <1>4, <1>5, <1>6, <1>7

-----------------------------------------------------------------------------
\* The parts the handlers are made of

LEMMA TakenAndGiven ==
    ASSUME NEW t, NEW h \in Seq(Deed), NEW mode \in {"read", "write", "lock"}, NEW lock \in Lock,
           May(t, h, Take(mode, lock)),
           lock[1] \notin NotRecursive \/ \A e \in ToSet(h) : e.lock # lock
    PROVE  /\ Within(mode, lock, <<>>) \in Seq(Deed)
           /\ Follows(t, h, Within(mode, lock, <<>>), h)
<1> DEFINE g == Append(h, Take(mode, lock))
<1>1. g \in Seq(Deed)
  BY Deeds
<1>2. <<>> \in Seq(Deed) /\ Follows(t, g, <<>>, g)
  <2> HIDE DEF g
  <2> QED BY <1>1, NothingFollows
<1> QED BY <1>2, WithinFollows

LEMMA HandlerParts ==
    ASSUME NEW t, NEW h \in Seq(Deed)
    PROVE  /\ \A c \in ListedClient : May(t, h, Take("lock", ClientMutex(c)))
                => Visit(c) \in Seq(Deed) /\ Follows(t, h, Visit(c), h)
           /\ \A l \in ListedLobby :
                May(t, h, Take("lock", LobbyMutex(l))) /\ (\A e \in ToSet(h) : e.lock # LobbyMutex(l))
                => Packet(l) \in Seq(Deed) /\ Follows(t, h, Packet(l), h)
           /\ May(t, h, Take("lock", ScriptMutex)) /\ "script_mutex" \notin Kinds(h)
                => Script \in Seq(Deed) /\ Follows(t, h, Script, h)
<1>1. ASSUME NEW c \in ListedClient, May(t, h, Take("lock", ClientMutex(c)))
      PROVE  Visit(c) \in Seq(Deed) /\ Follows(t, h, Visit(c), h)
  <2>1. ClientMutex(c) \in Lock /\ ClientMutex(c)[1] \notin NotRecursive
    BY DEF Lock, ClientMutex, NotRecursive
  <2> QED BY <2>1, <1>1, TakenAndGiven DEF Visit
<1>2. ASSUME NEW l \in ListedLobby, May(t, h, Take("lock", LobbyMutex(l))),
             \A e \in ToSet(h) : e.lock # LobbyMutex(l)
      PROVE  Packet(l) \in Seq(Deed) /\ Follows(t, h, Packet(l), h)
  <2>1. LobbyMutex(l) \in Lock
    BY DEF Lock
  <2> QED BY <2>1, <1>2, TakenAndGiven DEF Packet
<1>3. ASSUME May(t, h, Take("lock", ScriptMutex)), "script_mutex" \notin Kinds(h)
      PROVE  Script \in Seq(Deed) /\ Follows(t, h, Script, h)
  <2>1. ScriptMutex \in Lock /\ \A e \in ToSet(h) : e.lock # ScriptMutex
    BY <1>3 DEF Lock, Kinds, ScriptMutex
  <2> QED BY <2>1, <1>3, TakenAndGiven DEF Script
<1> QED BY <1>1, <1>2, <1>3

\* The same for each of a list, some of whom may be left out.
LEMMA ListFollows ==
    ASSUME NEW t, NEW h \in Seq(Deed), NEW S, NEW list \in Seq(S), NEW seqs,
           seqs = [i \in DOMAIN list |-> seqs[i]],
           \A i \in DOMAIN list : seqs[i] \in Seq(Deed) /\ Follows(t, h, seqs[i], h)
    PROVE  FlattenSeq(seqs) \in Seq(Deed) /\ Follows(t, h, FlattenSeq(seqs), h)
<1> DEFINE n == Len(list)
<1>1. n \in Nat /\ DOMAIN list = 1 .. n
  OBVIOUS
<1>2. DOMAIN seqs = 1 .. n
  BY <1>1
<1>3. Len(seqs) = n
  BY <1>1, <1>2
<1>4. n = 0 => seqs = <<>>
  BY <1>1
<1> HIDE DEF n
<1> QED BY <1>1, <1>2, <1>3, <1>4, EachFollows

LEMMA VisitsFollow ==
    ASSUME NEW t, NEW h \in Seq(Deed), NEW list \in Seq(ListedClient), NEW seqs,
           seqs = [i \in DOMAIN list |-> seqs[i]],
           \A i \in DOMAIN list : seqs[i] \in {<<>>, Visit(list[i])},
           \A c \in ToSet(list) : May(t, h, Take("lock", ClientMutex(c)))
    PROVE  FlattenSeq(seqs) \in Seq(Deed) /\ Follows(t, h, FlattenSeq(seqs), h)
<1>1. ASSUME NEW i \in DOMAIN list PROVE seqs[i] \in Seq(Deed) /\ Follows(t, h, seqs[i], h)
  <2>1. list[i] \in ListedClient /\ list[i] \in ToSet(list)
    BY DEF ToSet
  <2>2. Visit(list[i]) \in Seq(Deed) /\ Follows(t, h, Visit(list[i]), h)
    BY <2>1, HandlerParts
  <2>3. <<>> \in Seq(Deed) /\ Follows(t, h, <<>>, h)
    BY NothingFollows
  <2> QED BY <2>2, <2>3
<1> QED BY <1>1, ListFollows

-----------------------------------------------------------------------------
\* The handlers of a block

LEMMA PacketsFollow ==
    ASSUME NEW b \in Block, NEW h \in Seq(Deed), Outer(h), NEW l \in ToSet(Lobby[b])
    PROVE  /\ Packet(l) \in Seq(Deed) /\ Follows(b, h, Packet(l), h)
           /\ Script \in Seq(Deed) /\ Follows(b, h, Script, h)
           /\ ScriptInLobby(l) \in Seq(Deed) /\ Follows(b, h, ScriptInLobby(l), h)
           /\ (Ordered => Relock = "fails") =>
                HeldBack(l) \in Seq(Deed) /\ Follows(b, h, HeldBack(l), h)
<1> DEFINE s == Take("lock", LobbyMutex(l))
           g == Append(h, s)
<1>1. l \in ListedLobby /\ LobbyMutex(l) \in Lock /\ s \in Deed
  BY BlockLocksAre, Deeds
<1>2. "script_mutex" \notin Kinds(h) /\ \A e \in ToSet(h) : e.lock # LobbyMutex(l)
  <2>1. "script_mutex" \notin Kinds(h) /\ "lobby_t.mutex" \notin Kinds(h)
    BY DEF Outer
  <2>2. LobbyMutex(l)[1] = "lobby_t.mutex"
    BY DEF LobbyMutex
  <2> QED BY <2>1, <2>2 DEF Kinds
<1>3. g \in Seq(Deed) /\ "script_mutex" \notin Kinds(g)
  <2>1. g \in Seq(Deed) /\ Kinds(g) = Kinds(h) \cup {s.lock[1]}
    BY <1>1, KindsGrow
  <2>2. s.lock[1] = "lobby_t.mutex"
    BY DEF Take, LobbyMutex
  <2> HIDE DEF g, s
  <2> QED BY <2>1, <2>2, <1>2
<1>4. May(b, h, s) /\ May(b, h, Take("lock", ScriptMutex)) /\ May(b, g, Take("lock", ScriptMutex))
  <2> HIDE DEF g
  <2> QED BY <1>2, <1>3, BlockMay
<1>5. Packet(l) \in Seq(Deed) /\ Follows(b, h, Packet(l), h)
  BY <1>1, <1>2, <1>4, HandlerParts
<1>6. Script \in Seq(Deed) /\ Follows(b, h, Script, h) /\ Follows(b, g, Script, g)
  <2> HIDE DEF g
  <2> QED BY <1>2, <1>3, <1>4, HandlerParts
<1>7. ScriptInLobby(l) \in Seq(Deed) /\ Follows(b, h, ScriptInLobby(l), h)
  BY <1>1, <1>2, <1>4, <1>6, WithinFollows DEF ScriptInLobby
<1>8. ASSUME Ordered => Relock = "fails"
      PROVE  HeldBack(l) \in Seq(Deed) /\ Follows(b, h, HeldBack(l), h)
  <2>1. May(b, g, s)
    <3> HIDE DEF g
    <3>1. CASE Ordered
      BY <3>1, <1>3, <1>8, BlockMay
    <3>2. CASE ~Ordered
      BY <3>2 DEF May
    <3> QED BY <3>1, <3>2
  <2> QED BY <2>1, <1>1, <1>2, <1>4, AgainFollows
<1> QED BY <1>5, <1>6, <1>7, <1>8

LEMMA GameListFollows ==
    ASSUME NEW b \in Block, NEW h \in Seq(Deed), Outer(h)
    PROVE  GameList(b) \in Seq(Deed) /\ Follows(b, h, GameList(b), h)
<1> DEFINE s == Take("read", Lobbies(b))
           g == Append(h, s)
           seqs == [i \in DOMAIN Lobby[b] |-> Packet(Lobby[b][i])]
<1>1. Lobbies(b) \in Lock /\ s \in Deed /\ s.lock[1] = "block_t.lobby_lock" /\ Lobbies(b)[1] \notin NotRecursive
  BY BlockLocksAre, Deeds DEF Take, Lobbies, NotRecursive
<1>2. "script_mutex" \notin Kinds(h) /\ "block_t.lobby_lock" \notin Kinds(h) /\ May(b, h, s)
  BY BlockMay DEF Outer
<1>3. g \in Seq(Deed) /\ Kinds(g) = Kinds(h) \cup {s.lock[1]}
  BY <1>1, KindsGrow
<1>4. "script_mutex" \notin Kinds(g) /\ "lobby_t.mutex" \notin Kinds(g)
  <2> HIDE DEF g, s
  <2> QED BY <1>1, <1>2, <1>3 DEF Outer
<1>5. ASSUME NEW i \in DOMAIN Lobby[b] PROVE seqs[i] \in Seq(Deed) /\ Follows(b, g, seqs[i], g)
  <2> DEFINE l == Lobby[b][i]
  <2>1. l \in ToSet(Lobby[b]) /\ l \in ListedLobby
    BY BlockLocksAre DEF ToSet
  <2> HIDE DEF g
  <2>2. \A e \in ToSet(g) : e.lock # LobbyMutex(l)
    BY <1>4 DEF Kinds, LobbyMutex
  <2>3. May(b, g, Take("lock", LobbyMutex(l)))
    BY <1>3, <1>4, <2>1, <2>2, BlockMay
  <2>4. Packet(l) \in Seq(Deed) /\ Follows(b, g, Packet(l), g)
    BY <1>3, <2>1, <2>2, <2>3, HandlerParts
  <2> QED BY <2>4
<1>6. Lobby[b] \in Seq(ListedLobby)
  BY BlockLocksConstants
<1>7. FlattenSeq(seqs) \in Seq(Deed) /\ Follows(b, g, FlattenSeq(seqs), g)
  <2>1. seqs = [i \in DOMAIN Lobby[b] |-> seqs[i]]
    OBVIOUS
  <2> HIDE DEF seqs, g
  <2> QED BY <2>1, <1>3, <1>5, <1>6, ListFollows
<1>8. GameList(b) = Within("read", Lobbies(b), FlattenSeq(seqs))
  BY DEF GameList, Each
<1> HIDE DEF seqs
<1>9. /\ Within("read", Lobbies(b), FlattenSeq(seqs)) \in Seq(Deed)
      /\ Follows(b, h, Within("read", Lobbies(b), FlattenSeq(seqs)), h)
  BY <1>1, <1>2, <1>7, WithinFollows
<1> QED BY <1>8, <1>9

LEMMA OthersFollow ==
    ASSUME NEW b \in Block, NEW h \in Seq(Deed), "script_mutex" \notin Kinds(h),
           NEW l \in ToSet(Lobby[b]), NEW c
    PROVE  Others(l, c) \in Seq(Deed) /\ Follows(b, h, Others(l, c), h)
<1> DEFINE seqs == [i \in DOMAIN In[l] |-> IF In[l][i] = c THEN <<>> ELSE Visit(In[l][i])]
<1>1. In[l] \in Seq(ListedClient)
  BY BlockLocksAre, BlockLocksConstants
<1>2. \A d \in ToSet(In[l]) : May(b, h, Take("lock", ClientMutex(d)))
  BY BlockLocksAre, BlockMay
<1>3. seqs = [i \in DOMAIN In[l] |-> seqs[i]] /\ \A i \in DOMAIN In[l] : seqs[i] \in {<<>>, Visit(In[l][i])}
  OBVIOUS
<1>4. Others(l, c) = FlattenSeq(seqs)
  BY DEF Others, Each
<1> HIDE DEF seqs
<1>5. FlattenSeq(seqs) \in Seq(Deed) /\ Follows(b, h, FlattenSeq(seqs), h)
  BY <1>1, <1>2, <1>3, VisitsFollow
<1> QED BY <1>4, <1>5

\* From one lobby to another, under the mutexes of both.
LEMMA MoveFollows ==
    ASSUME NEW b \in Block, NEW h \in Seq(Deed), "script_mutex" \notin Kinds(h), "lobby_t.mutex" \notin Kinds(h),
           NEW l \in ToSet(Lobby[b]), NEW m \in ToSet(Lobby[b]), l # m, NEW c \in ToSet(List[b]),
           NEW check \in {<<>>, LegitCheck(c)}
    PROVE  Move(c, l, m, check) \in Seq(Deed) /\ Follows(b, h, Move(c, l, m, check), h)
<1> DEFINE s == Take("lock", LobbyMutex(l))
           r == Take("lock", LobbyMutex(m))
           g == Append(h, s)
           k == Append(g, r)
<1>1. /\ LobbyMutex(l) \in Lock /\ LobbyMutex(m) \in Lock /\ s \in Deed /\ r \in Deed
      /\ s.lock = LobbyMutex(l) /\ r.lock = LobbyMutex(m) /\ LobbyMutex(l) # LobbyMutex(m)
      /\ LobbyMutex(l)[1] = "lobby_t.mutex" /\ LobbyMutex(m)[1] = "lobby_t.mutex"
  BY BlockLocksAre, Deeds DEF LobbyMutex
<1>2. \A e \in ToSet(h) : e.lock # LobbyMutex(l) /\ e.lock # LobbyMutex(m)
  BY <1>1 DEF Kinds
<1>3. g \in Seq(Deed) /\ ToSet(g) = ToSet(h) \cup {s} /\ "script_mutex" \notin Kinds(g)
  <2>1. g \in Seq(Deed) /\ ToSet(g) = ToSet(h) \cup {s} /\ Kinds(g) = Kinds(h) \cup {s.lock[1]}
    BY <1>1, KindsGrow, AppendedSet
  <2> HIDE DEF g, s
  <2> QED BY <2>1, <1>1
<1>4. k \in Seq(Deed) /\ "script_mutex" \notin Kinds(k)
  <2> HIDE DEF g, r
  <2>1. k \in Seq(Deed) /\ Kinds(k) = Kinds(g) \cup {r.lock[1]}
    BY <1>1, <1>3, KindsGrow
  <2> HIDE DEF k
  <2> QED BY <2>1, <1>1, <1>3
<1>5. \A e \in ToSet(g) : e.lock # LobbyMutex(m)
  <2> HIDE DEF g, s
  <2> QED BY <1>1, <1>2, <1>3
<1>6. May(b, h, s) /\ May(b, g, r)
  <2> HIDE DEF g
  <2> QED BY <1>2, <1>3, <1>5, BlockMay
<1> DEFINE body == check \o Others(l, c) \o Others(m, c)
<1>7. body \in Seq(Deed) /\ Follows(b, k, body, k)
  <2> HIDE DEF k
  <2>1. /\ Others(l, c) \in Seq(Deed) /\ Follows(b, k, Others(l, c), k)
        /\ Others(m, c) \in Seq(Deed) /\ Follows(b, k, Others(m, c), k)
    BY <1>4, OthersFollow
  <2>2. check \in Seq(Deed) /\ Follows(b, k, check, k)
    <3>1. Visit(c) \in Seq(Deed) /\ Follows(b, k, Visit(c), k)
      BY <1>4, BlockLocksAre, BlockMay, HandlerParts
    <3>2. <<>> \in Seq(Deed) /\ Follows(b, k, <<>>, k)
      BY <1>4, NothingFollows
    <3> QED BY <3>1, <3>2 DEF LegitCheck
  <2>3. check \o Others(l, c) \in Seq(Deed) /\ Follows(b, k, check \o Others(l, c), k)
    BY <2>1, <2>2, BothFollow, ConcatProperties
  <2> QED BY <2>1, <2>3, BothFollow, ConcatProperties
<1> HIDE DEF body
<1> DEFINE inner == Within("lock", LobbyMutex(m), body)
<1>8. inner \in Seq(Deed) /\ Follows(b, g, inner, g)
  <2> HIDE DEF g
  <2> QED BY <1>1, <1>3, <1>5, <1>6, <1>7, WithinFollows
<1>9. Move(c, l, m, check) = Within("lock", LobbyMutex(l), inner)
  BY DEF Move, body
<1> HIDE DEF inner
<1>10. /\ Within("lock", LobbyMutex(l), inner) \in Seq(Deed)
       /\ Follows(b, h, Within("lock", LobbyMutex(l), inner), h)
  BY <1>1, <1>2, <1>6, <1>8, WithinFollows
<1> QED BY <1>9, <1>10

\* Lobby_lock is taken and given back around such a move, or before it.
LEMMA ListTaken ==
    ASSUME NEW b \in Block, NEW h \in Seq(Deed), "script_mutex" \notin Kinds(h), "block_t.lobby_lock" \notin Kinds(h),
           NEW mode \in {"read", "write"}
    PROVE  /\ Lobbies(b) \in Lock /\ Lobbies(b)[1] \notin NotRecursive /\ May(b, h, Take(mode, Lobbies(b)))
           /\ Append(h, Take(mode, Lobbies(b))) \in Seq(Deed)
           /\ Kinds(Append(h, Take(mode, Lobbies(b)))) = Kinds(h) \cup {"block_t.lobby_lock"}
           /\ Within(mode, Lobbies(b), <<>>) \in Seq(Deed) /\ Follows(b, h, Within(mode, Lobbies(b), <<>>), h)
<1>1. Lobbies(b) \in Lock /\ Lobbies(b)[1] \notin NotRecursive
  BY BlockLocksAre DEF Lobbies, NotRecursive
<1>2. May(b, h, Take(mode, Lobbies(b)))
  BY BlockMay
<1>3. Take(mode, Lobbies(b)) \in Deed /\ Take(mode, Lobbies(b)).lock[1] = "block_t.lobby_lock"
  BY <1>1, Deeds DEF Lobbies
<1>4. /\ Append(h, Take(mode, Lobbies(b))) \in Seq(Deed)
      /\ Kinds(Append(h, Take(mode, Lobbies(b)))) = Kinds(h) \cup {"block_t.lobby_lock"}
  BY <1>3, KindsGrow
<1>5. Within(mode, Lobbies(b), <<>>) \in Seq(Deed) /\ Follows(b, h, Within(mode, Lobbies(b), <<>>), h)
  BY <1>1, <1>2, TakenAndGiven
<1> QED BY <1>1, <1>2, <1>4, <1>5

LEMMA MovesFollow ==
    ASSUME NEW b \in Block, NEW h \in Seq(Deed), Outer(h),
           NEW l \in ToSet(Lobby[b]), NEW m \in ToSet(Lobby[b]), l # m, NEW c \in ToSet(List[b]),
           NEW check \in {<<>>, LegitCheck(c)}
    PROVE  /\ Move(c, l, m, check) \in Seq(Deed) /\ Follows(b, h, Move(c, l, m, check), h)
           /\ ChangeLobby(b, c, l, m, check) \in Seq(Deed) /\ Follows(b, h, ChangeLobby(b, c, l, m, check), h)
           /\ CreateTeam(b, c, l, m, check) \in Seq(Deed) /\ Follows(b, h, CreateTeam(b, c, l, m, check), h)
<1> DEFINE g == Append(h, Take("read", Lobbies(b)))
<1>1. "script_mutex" \notin Kinds(h) /\ "lobby_t.mutex" \notin Kinds(h) /\ "block_t.lobby_lock" \notin Kinds(h)
  BY DEF Outer
<1>2. Move(c, l, m, check) \in Seq(Deed) /\ Follows(b, h, Move(c, l, m, check), h)
  BY <1>1, MoveFollows
<1>3. /\ Lobbies(b) \in Lock /\ Lobbies(b)[1] \notin NotRecursive /\ May(b, h, Take("read", Lobbies(b)))
      /\ g \in Seq(Deed) /\ Kinds(g) = Kinds(h) \cup {"block_t.lobby_lock"}
  BY <1>1, ListTaken
<1>4. Follows(b, g, Move(c, l, m, check), g)
  <2> HIDE DEF g
  <2>1. "script_mutex" \notin Kinds(g) /\ "lobby_t.mutex" \notin Kinds(g)
    BY <1>1, <1>3
  <2> QED BY <2>1, <1>3, MoveFollows
<1>5. ChangeLobby(b, c, l, m, check) \in Seq(Deed) /\ Follows(b, h, ChangeLobby(b, c, l, m, check), h)
  BY <1>2, <1>3, <1>4, WithinFollows DEF ChangeLobby
<1>6. Within("write", Lobbies(b), <<>>) \in Seq(Deed) /\ Follows(b, h, Within("write", Lobbies(b), <<>>), h)
  BY <1>1, ListTaken
<1>7. CreateTeam(b, c, l, m, check) \in Seq(Deed) /\ Follows(b, h, CreateTeam(b, c, l, m, check), h)
  BY <1>2, <1>6, BothFollow, ConcatProperties DEF CreateTeam
<1> QED BY <1>2, <1>5, <1>7

\* Out of a lobby, which may be the end of a team.
LEMMA LeaveFollows ==
    ASSUME NEW b \in Block, NEW h \in Seq(Deed), Outer(h), NEW l \in ToSet(Lobby[b]), NEW c
    PROVE  Leave(b, c, l) \in Seq(Deed) /\ Follows(b, h, Leave(b, c, l), h)
<1> DEFINE s == Take("lock", LobbyMutex(l))
           g == Append(h, s)
           last == IF ToSet(In[l]) \subseteq {c} THEN Within("write", Lobbies(b), <<>>) ELSE <<>>
           body == Others(l, c) \o last
<1>1. /\ LobbyMutex(l) \in Lock /\ s \in Deed /\ s.lock[1] = "lobby_t.mutex" /\ LobbyMutex(l)[1] = "lobby_t.mutex"
  BY BlockLocksAre, Deeds DEF LobbyMutex
<1>2. "script_mutex" \notin Kinds(h) /\ "lobby_t.mutex" \notin Kinds(h) /\ "block_t.lobby_lock" \notin Kinds(h)
  BY DEF Outer
<1>3. \A e \in ToSet(h) : e.lock # LobbyMutex(l)
  BY <1>1, <1>2 DEF Kinds
<1>4. g \in Seq(Deed) /\ "script_mutex" \notin Kinds(g) /\ "block_t.lobby_lock" \notin Kinds(g)
  <2>1. g \in Seq(Deed) /\ Kinds(g) = Kinds(h) \cup {s.lock[1]}
    BY <1>1, KindsGrow
  <2> HIDE DEF g, s
  <2> QED BY <2>1, <1>1, <1>2
<1>5. May(b, h, s)
  BY <1>2, <1>3, BlockMay
<1>6. body \in Seq(Deed) /\ Follows(b, g, body, g)
  <2> HIDE DEF g
  <2>1. Others(l, c) \in Seq(Deed) /\ Follows(b, g, Others(l, c), g)
    BY <1>4, OthersFollow
  <2>2. last \in Seq(Deed) /\ Follows(b, g, last, g)
    <3>1. Within("write", Lobbies(b), <<>>) \in Seq(Deed) /\ Follows(b, g, Within("write", Lobbies(b), <<>>), g)
      BY <1>4, ListTaken
    <3>2. <<>> \in Seq(Deed)
      OBVIOUS
    <3>3. Follows(b, g, <<>>, g)
      BY <1>4, NothingFollows
    <3> QED BY <3>1, <3>2, <3>3
  <2> HIDE DEF last
  <2> QED BY <2>1, <2>2, BothFollow, ConcatProperties
<1>7. Leave(b, c, l) = Within("lock", LobbyMutex(l), body)
  BY DEF Leave
<1> HIDE DEF body
<1>8. /\ Within("lock", LobbyMutex(l), body) \in Seq(Deed)
      /\ Follows(b, h, Within("lock", LobbyMutex(l), body), h)
  BY <1>1, <1>3, <1>5, <1>6, WithinFollows
<1> QED BY <1>7, <1>8

\* Out of a team for good, once the character has been copied.
LEMMA LeaveGameFollows ==
    ASSUME NEW b \in Block, NEW h \in Seq(Deed), Outer(h), NEW l \in ToSet(Lobby[b]), NEW c \in ToSet(List[b])
    PROVE  LeaveGame(b, c, l) \in Seq(Deed) /\ Follows(b, h, LeaveGame(b, c, l), h)
<1>1. Leave(b, c, l) \in Seq(Deed) /\ Follows(b, h, Leave(b, c, l), h)
  BY LeaveFollows
<1>2. "script_mutex" \notin Kinds(h)
  BY DEF Outer
<1>3. Visit(c) \in Seq(Deed) /\ Follows(b, h, Visit(c), h)
  BY <1>2, BlockLocksAre, BlockMay, HandlerParts
<1> QED BY <1>1, <1>3, BothFollow, ConcatProperties DEF LeaveGame

\* Into a lobby, from none.
LEMMA ArriveFollows ==
    ASSUME NEW b \in Block, NEW h \in Seq(Deed), "script_mutex" \notin Kinds(h), "lobby_t.mutex" \notin Kinds(h),
           NEW l \in ToSet(Lobby[b]), NEW c
    PROVE  Arrive(b, c, l) \in Seq(Deed) /\ Follows(b, h, Arrive(b, c, l), h)
<1> DEFINE n == CHOOSE i \in DOMAIN Lobby[b] : Lobby[b][i] = l
           list == UpTo(b, l)
           seqs == [i \in DOMAIN list |-> Packet(list[i])]
<1>1. Lobby[b] \in Seq(ListedLobby) /\ n \in DOMAIN Lobby[b]
  BY BlockLocksConstants DEF ToSet
<1>2. list \in Seq(ListedLobby) /\ \A i \in DOMAIN list : list[i] \in ToSet(Lobby[b])
  <2>1. list = SubSeq(Lobby[b], 1, n)
    BY DEF UpTo
  <2>2. n \in 1 .. Len(Lobby[b]) /\ Len(Lobby[b]) \in Nat /\ \A i \in 1 .. Len(Lobby[b]) : Lobby[b][i] \in ToSet(Lobby[b])
    BY <1>1 DEF ToSet
  <2> HIDE DEF n, list
  <2>3. DOMAIN list = 1 .. n /\ \A i \in 1 .. n : list[i] = Lobby[b][i]
    BY <1>1, <2>1, <2>2
  <2>4. list \in Seq(ListedLobby)
    BY <1>1, <2>1, <2>2
  <2> QED BY <2>2, <2>3, <2>4
<1> HIDE DEF list
<1>3. ASSUME NEW i \in DOMAIN list PROVE seqs[i] \in Seq(Deed) /\ Follows(b, h, seqs[i], h)
  <2>1. list[i] \in ToSet(Lobby[b]) /\ list[i] \in ListedLobby
    BY <1>2, BlockLocksAre
  <2>2. \A e \in ToSet(h) : e.lock # LobbyMutex(list[i])
    <3>1. LobbyMutex(list[i])[1] = "lobby_t.mutex"
      BY DEF LobbyMutex
    <3> QED BY <3>1 DEF Kinds
  <2>3. May(b, h, Take("lock", LobbyMutex(list[i])))
    BY <2>1, <2>2, BlockMay
  <2> QED BY <2>1, <2>2, <2>3, HandlerParts
<1>4. seqs = [i \in DOMAIN list |-> seqs[i]]
  OBVIOUS
<1>5. Arrive(b, c, l) = FlattenSeq(seqs) \o Others(l, c)
  BY DEF Arrive, Each, list
<1> HIDE DEF seqs
<1>6. FlattenSeq(seqs) \in Seq(Deed) /\ Follows(b, h, FlattenSeq(seqs), h)
  BY <1>2, <1>3, <1>4, ListFollows
<1>7. Others(l, c) \in Seq(Deed) /\ Follows(b, h, Others(l, c), h)
  BY OthersFollow
<1> QED BY <1>5, <1>6, <1>7, BothFollow, ConcatProperties

LEMMA ArrivalsFollow ==
    ASSUME NEW b \in Block, NEW h \in Seq(Deed), Outer(h), NEW l \in ToSet(Lobby[b]), NEW c \in ToSet(List[b])
    PROVE  /\ ArriveAgain(b, c, l) \in Seq(Deed) /\ Follows(b, h, ArriveAgain(b, c, l), h)
           /\ \A script \in {<<>>, Script} :
                Character(b, c, l, script) \in Seq(Deed) /\ Follows(b, h, Character(b, c, l, script), h)
<1> DEFINE s == Take("lock", ClientMutex(c))
           g == Append(h, s)
           k == Append(h, Take("read", Lobbies(b)))
<1>1. "script_mutex" \notin Kinds(h) /\ "lobby_t.mutex" \notin Kinds(h) /\ "block_t.lobby_lock" \notin Kinds(h)
  BY DEF Outer
<1>2. /\ Lobbies(b) \in Lock /\ Lobbies(b)[1] \notin NotRecursive /\ May(b, h, Take("read", Lobbies(b)))
      /\ k \in Seq(Deed) /\ Kinds(k) = Kinds(h) \cup {"block_t.lobby_lock"}
  BY <1>1, ListTaken
<1>3. Arrive(b, c, l) \in Seq(Deed) /\ Follows(b, k, Arrive(b, c, l), k)
  <2> HIDE DEF k
  <2>1. "script_mutex" \notin Kinds(k) /\ "lobby_t.mutex" \notin Kinds(k)
    BY <1>1, <1>2
  <2> QED BY <2>1, <1>2, ArriveFollows
<1>4. ArriveAgain(b, c, l) \in Seq(Deed) /\ Follows(b, h, ArriveAgain(b, c, l), h)
  BY <1>2, <1>3, WithinFollows DEF ArriveAgain
<1>5. /\ ClientMutex(c) \in Lock /\ s \in Deed /\ s.lock[1] = "ship_client_t.mutex"
      /\ ClientMutex(c)[1] \notin NotRecursive /\ May(b, h, s)
  BY <1>1, BlockLocksAre, BlockMay, Deeds DEF ClientMutex, NotRecursive
<1>6. g \in Seq(Deed) /\ Outer(g) /\ "script_mutex" \notin Kinds(g) /\ "lobby_t.mutex" \notin Kinds(g)
  <2>1. g \in Seq(Deed) /\ Kinds(g) = Kinds(h) \cup {s.lock[1]}
    BY <1>5, KindsGrow
  <2> HIDE DEF g, s
  <2> QED BY <2>1, <1>1, <1>5 DEF Outer
<1>7. ASSUME NEW script \in {<<>>, Script}
      PROVE  Character(b, c, l, script) \in Seq(Deed) /\ Follows(b, h, Character(b, c, l, script), h)
  <2> DEFINE body == Arrive(b, c, l) \o script
  <2>1. body \in Seq(Deed) /\ Follows(b, g, body, g)
    <3> HIDE DEF g
    <3>1. Arrive(b, c, l) \in Seq(Deed) /\ Follows(b, g, Arrive(b, c, l), g)
      BY <1>6, ArriveFollows
    <3>2. Script \in Seq(Deed) /\ Follows(b, g, Script, g)
      BY <1>6, PacketsFollow
    <3>3. <<>> \in Seq(Deed) /\ Follows(b, g, <<>>, g)
      BY <1>6, NothingFollows
    <3>4. script \in Seq(Deed) /\ Follows(b, g, script, g)
      BY <3>2, <3>3
    <3> QED BY <3>1, <3>4, BothFollow, ConcatProperties
  <2>2. Character(b, c, l, script) = Within("lock", ClientMutex(c), body)
    BY DEF Character
  <2> HIDE DEF body
  <2>3. /\ Within("lock", ClientMutex(c), body) \in Seq(Deed)
        /\ Follows(b, h, Within("lock", ClientMutex(c), body), h)
    BY <1>5, <2>1, WithinFollows
  <2> QED BY <2>2, <2>3
<1> QED BY <1>4, <1>7

\* A finite set can be put in a sequence.
LEMMA BlocksListed == Blocks \in Seq(Block)
<1> DEFINE n == Cardinality(Block)
<1>1. n \in Nat /\ \E f \in [1 .. n -> Block] : IsInjective(f)
  <2>1. n \in Nat /\ ExistsBijection(1 .. n, Block)
    BY BlockLocksConstants, FS_CardinalityType
  <2>2. PICK f \in Bijection(1 .. n, Block) : TRUE
    BY <2>1 DEF ExistsBijection
  <2>3. f \in [1 .. n -> Block] /\ IsInjective(f)
    BY <2>2 DEF Bijection, Injection, Surjection, IsInjective
  <2> QED BY <2>1, <2>3
<1>2. Blocks \in [1 .. n -> Block]
  BY <1>1 DEF Blocks, SetToSeq
<1> HIDE DEF n
<1> QED BY <1>1, <1>2

\* A search, which looks into the lists of all the blocks.
LEMMA SearchFollows ==
    ASSUME NEW b \in Block, NEW h \in Seq(Deed), Outer(h), Take("write", Clients(b)) \notin ToSet(h),
           Ordered => Block = {b}, NEW found
    PROVE  Search(found) \in Seq(Deed) /\ Follows(b, h, Search(found), h)
<1> DEFINE Look(a) == Within("read", Clients(a),
                Each(List[a], LAMBDA d : IF d \in found THEN Visit(d) ELSE <<>>))
<1>1. ASSUME NEW a \in Block PROVE Look(a) \in Seq(Deed) /\ Follows(b, h, Look(a), h)
  <2> DEFINE s == Take("read", Clients(a))
             g == Append(h, s)
             seqs == [i \in DOMAIN List[a] |-> IF List[a][i] \in found THEN Visit(List[a][i]) ELSE <<>>]
  <2>1. /\ Clients(a) \in Lock /\ s \in Deed /\ s.lock[1] = "block_t.lock" /\ Clients(a)[1] \notin NotRecursive
        /\ s.do = "read" /\ s.lock = Clients(a)
    BY BlockLocksAre, Deeds DEF Clients, NotRecursive
  <2>2. "script_mutex" \notin Kinds(h)
    BY DEF Outer
  <2>3. May(b, h, s)
    <3>1. CASE Ordered
      <4>1. a = b /\ b # Ship /\ s \in Own(b)
        BY <3>1, BlockLocksConstants DEF Own
      <4>2. \A e \in ToSet(h) : e.lock # ScriptMutex
        BY <2>2 DEF Kinds, ScriptMutex
      <4> HIDE DEF s
      <4> QED BY <4>1, <4>2, <2>1 DEF May, Obeys
    <3>2. CASE ~Ordered
      BY <3>2 DEF May
    <3> QED BY <3>1, <3>2
  <2>4. g \in Seq(Deed) /\ "script_mutex" \notin Kinds(g)
    <3>1. g \in Seq(Deed) /\ Kinds(g) = Kinds(h) \cup {s.lock[1]}
      BY <2>1, KindsGrow
    <3> HIDE DEF g, s
    <3> QED BY <3>1, <2>1, <2>2
  <2>5. ASSUME NEW c \in ToSet(List[a]) PROVE May(b, g, Take("lock", ClientMutex(c)))
    <3> HIDE DEF g
    <3>1. CASE Ordered
      <4>1. a = b
        BY <3>1
      <4> QED BY <4>1, <2>4, BlockMay
    <3>2. CASE ~Ordered
      BY <3>2 DEF May
    <3> QED BY <3>1, <3>2
  <2>6. List[a] \in Seq(ListedClient)
    BY BlockLocksConstants
  <2>7. seqs = [i \in DOMAIN List[a] |-> seqs[i]] /\ \A i \in DOMAIN List[a] : seqs[i] \in {<<>>, Visit(List[a][i])}
    OBVIOUS
  <2>8. Look(a) = Within("read", Clients(a), FlattenSeq(seqs))
    BY DEF Each
  <2> HIDE DEF seqs, Look
  <2>9. FlattenSeq(seqs) \in Seq(Deed) /\ Follows(b, g, FlattenSeq(seqs), g)
    <3> HIDE DEF g
    <3> QED BY <2>4, <2>5, <2>6, <2>7, VisitsFollow
  <2>10. /\ Within("read", Clients(a), FlattenSeq(seqs)) \in Seq(Deed)
         /\ Follows(b, h, Within("read", Clients(a), FlattenSeq(seqs)), h)
    BY <2>1, <2>3, <2>9, WithinFollows
  <2> QED BY <2>8, <2>10
<1> DEFINE all == [i \in DOMAIN Blocks |-> Look(Blocks[i])]
<1>2. Search(found) = FlattenSeq(all)
  BY DEF Search, Each
<1> HIDE DEF Look
<1>3. \A i \in DOMAIN Blocks : all[i] \in Seq(Deed) /\ Follows(b, h, all[i], h)
  <2> SUFFICES ASSUME NEW i \in DOMAIN Blocks PROVE all[i] \in Seq(Deed) /\ Follows(b, h, all[i], h)
    OBVIOUS
  <2>1. Blocks[i] \in Block
    BY BlocksListed
  <2> QED BY <2>1, <1>1
<1>4. all = [i \in DOMAIN Blocks |-> all[i]]
  OBVIOUS
<1> HIDE DEF all
<1> QED BY <1>2, <1>3, <1>4, BlocksListed, ListFollows

\* The lobby event changes: out of order, but everything is given back.
LEMMA EventFollows ==
    ASSUME NEW t, NEW h \in Seq(Deed), Outer(h), ~Ordered
    PROVE  Event \in Seq(Deed) /\ Follows(t, h, Event, h)
<1> DEFINE InLobby(l) == Within("lock", LobbyMutex(l), Each(In[l], Visit))
           InBlock(b) == Within("read", Lobbies(b), Each(Lobby[b], LAMBDA l : InLobby(l)))
<1>1. \A k, s : May(t, k, s)
  BY DEF May
<1>2. ASSUME NEW l \in ListedLobby, NEW g \in Seq(Deed), "lobby_t.mutex" \notin Kinds(g)
      PROVE  InLobby(l) \in Seq(Deed) /\ Follows(t, g, InLobby(l), g)
  <2> DEFINE k == Append(g, Take("lock", LobbyMutex(l)))
             seqs == [i \in DOMAIN In[l] |-> Visit(In[l][i])]
  <2>1. LobbyMutex(l) \in Lock /\ LobbyMutex(l)[1] = "lobby_t.mutex"
    BY DEF Lock, LobbyMutex
  <2>2. \A e \in ToSet(g) : e.lock # LobbyMutex(l)
    BY <1>2, <2>1 DEF Kinds
  <2>3. k \in Seq(Deed)
    BY <2>1, Deeds
  <2>4. In[l] \in Seq(ListedClient)
    BY BlockLocksConstants
  <2>5. seqs = [i \in DOMAIN In[l] |-> seqs[i]] /\ \A i \in DOMAIN In[l] : seqs[i] \in {<<>>, Visit(In[l][i])}
    OBVIOUS
  <2>6. InLobby(l) = Within("lock", LobbyMutex(l), FlattenSeq(seqs))
    BY DEF Each
  <2> HIDE DEF seqs, InLobby
  <2>7. FlattenSeq(seqs) \in Seq(Deed) /\ Follows(t, k, FlattenSeq(seqs), k)
    <3> HIDE DEF k
    <3> QED BY <1>1, <2>3, <2>4, <2>5, VisitsFollow
  <2>8. /\ Within("lock", LobbyMutex(l), FlattenSeq(seqs)) \in Seq(Deed)
        /\ Follows(t, g, Within("lock", LobbyMutex(l), FlattenSeq(seqs)), g)
    BY <1>1, <2>1, <2>2, <2>7, WithinFollows
  <2> QED BY <2>6, <2>8
<1>3. ASSUME NEW b \in Block PROVE InBlock(b) \in Seq(Deed) /\ Follows(t, h, InBlock(b), h)
  <2> DEFINE s == Take("read", Lobbies(b))
             g == Append(h, s)
             seqs == [i \in DOMAIN Lobby[b] |-> InLobby(Lobby[b][i])]
  <2>1. Lobbies(b) \in Lock /\ Lobbies(b)[1] \notin NotRecursive /\ s \in Deed /\ s.lock[1] = "block_t.lobby_lock"
    BY BlockLocksAre, Deeds DEF Lobbies, NotRecursive
  <2>2. g \in Seq(Deed) /\ "lobby_t.mutex" \notin Kinds(g)
    <3>1. g \in Seq(Deed) /\ Kinds(g) = Kinds(h) \cup {s.lock[1]}
      BY <2>1, KindsGrow
    <3> HIDE DEF g, s
    <3> QED BY <3>1, <2>1 DEF Outer
  <2>3. Lobby[b] \in Seq(ListedLobby)
    BY BlockLocksConstants
  <2>4. InBlock(b) = Within("read", Lobbies(b), FlattenSeq(seqs))
    BY DEF Each
  <2> HIDE DEF InLobby, InBlock
  <2>5. ASSUME NEW i \in DOMAIN Lobby[b] PROVE seqs[i] \in Seq(Deed) /\ Follows(t, g, seqs[i], g)
    <3> HIDE DEF g
    <3>1. Lobby[b][i] \in ListedLobby
      BY <2>3
    <3> QED BY <3>1, <2>2, <1>2
  <2>6. seqs = [i \in DOMAIN Lobby[b] |-> seqs[i]]
    OBVIOUS
  <2> HIDE DEF seqs
  <2>7. FlattenSeq(seqs) \in Seq(Deed) /\ Follows(t, g, FlattenSeq(seqs), g)
    <3> HIDE DEF g
    <3> QED BY <2>2, <2>3, <2>5, <2>6, ListFollows
  <2>8. /\ Within("read", Lobbies(b), FlattenSeq(seqs)) \in Seq(Deed)
        /\ Follows(t, h, Within("read", Lobbies(b), FlattenSeq(seqs)), h)
    BY <1>1, <2>1, <2>7, WithinFollows
  <2> QED BY <2>4, <2>8
<1> DEFINE all == [i \in DOMAIN Blocks |-> InBlock(Blocks[i])]
<1>4. Event = FlattenSeq(all)
  BY DEF Event, Each
<1> HIDE DEF InLobby, InBlock
<1>5. \A i \in DOMAIN Blocks : all[i] \in Seq(Deed) /\ Follows(t, h, all[i], h)
  <2> SUFFICES ASSUME NEW i \in DOMAIN Blocks PROVE all[i] \in Seq(Deed) /\ Follows(t, h, all[i], h)
    OBVIOUS
  <2>1. Blocks[i] \in Block
    BY BlocksListed
  <2> QED BY <2>1, <1>3
<1>6. all = [i \in DOMAIN Blocks |-> all[i]]
  OBVIOUS
<1> HIDE DEF all
<1> QED BY <1>4, <1>5, <1>6, BlocksListed, ListFollows

\* The handlers that are served have no way out that keeps a lock (shipgate.c:2021, 2031
\* and 2101, scripts.c:921, block.c:1385, lobby.c:1644).
NoneStray ==
    {"stray flag", "quest script", "hacked character", "unknown legit"} \cap Served = {}

\* What block_thd does for a packet, under the locks it has taken for it.
LEMMA ClientFollows ==
    ASSUME NoneStray, NEW b \in Block, NEW h \in Seq(Deed), Outer(h), Take("write", Clients(b)) \notin ToSet(h),
           NEW c \in ToSet(List[b]), NEW l \in ToSet(Lobby[b]), NEW hd \in OfClient(b, c, l), hd[1] \in Served
    PROVE  hd[2] \in Seq(Deed) /\ Follows(b, h, hd[2], h)
<1>1. CASE \/ hd = <<"packet", Packet(l)>> \/ hd = <<"script", Script>>
            \/ hd = <<"script", ScriptPacket>> \/ hd = <<"script", ScriptInLobby(l)>>
  <2>1. hd[2] \in {Packet(l), Script, ScriptInLobby(l)}
    BY <1>1 DEF ScriptPacket
  <2> QED BY <2>1, PacketsFollow
<1>2. CASE hd = <<"held back", HeldBack(l)>> \/ hd = <<"bb drop", BBDrop(l)>>
  <2>1. BBDrop(l) = HeldBack(l)
    BY DEF BBDrop, HeldBack
  <2>2. CASE hd = <<"held back", HeldBack(l)>>
    <3>1. Ordered => Relock = "fails"
      BY <2>2, BlockLocksConstants DEF Ordered
    <3> QED BY <2>2, <3>1, PacketsFollow
  <2>3. CASE hd = <<"bb drop", BBDrop(l)>>
    <3>1. Ordered => Relock = "fails"
      BY <2>3, BlockLocksConstants DEF Ordered
    <3> QED BY <2>1, <2>3, <3>1, PacketsFollow
  <2> QED BY <1>2, <2>2, <2>3
<1>3. CASE hd = <<"game list", GameList(b)>>
  BY <1>3, GameListFollows
<1>4. CASE hd = <<"leave", LeaveGame(b, c, l)>>
  BY <1>4, LeaveGameFollows
<1>5. CASE hd = <<"event", Event>>
  <2>1. ~Ordered
    BY <1>5 DEF Ordered
  <2> QED BY <1>5, <2>1, EventFollows
<1>6. CASE hd = <<"quest script", QuestScript(l)>>
  BY <1>6 DEF NoneStray
<1>7. ASSUME NEW found, hd = <<"search", Search(found)>>
      PROVE  hd[2] \in Seq(Deed) /\ Follows(b, h, hd[2], h)
  <2>1. Ordered => Block = {b}
    BY <1>7 DEF Ordered
  <2> QED BY <1>7, <2>1, SearchFollows
<1>8. ASSUME NEW m \in ToSet(Lobby[b]) \ {l}, NEW check \in {<<>>, LegitCheck(c)},
             hd \in {<<"move", Move(c, l, m, check)>>, <<"move", ChangeLobby(b, c, l, m, check)>>,
                     <<"move", CreateTeam(b, c, l, m, check)>>}
      PROVE  hd[2] \in Seq(Deed) /\ Follows(b, h, hd[2], h)
  BY <1>8, MovesFollow
<1>9. CASE hd = <<"hacked character", HackedCharacter(c)>>
  BY <1>9 DEF NoneStray
<1>10. CASE \/ hd = <<"character", Character(b, c, l, <<>>)>> \/ hd = <<"character", Character(b, c, l, Script)>>
             \/ hd = <<"character", ArriveAgain(b, c, l)>>
  BY <1>10, ArrivalsFollow
<1>11. ASSUME NEW m \in ToSet(Lobby[b]) \ {l}, hd = <<"unknown legit", Move(c, l, m, LegitUnknown(c))>>
       PROVE  FALSE
  BY <1>11 DEF NoneStray
<1>12. CASE hd \in Moves(b, c, l)
  <2>1. PICK m \in ToSet(Lobby[b]) \ {l} :
          \/ hd = <<"unknown legit", Move(c, l, m, LegitUnknown(c))>>
          \/ \E check \in {<<>>, LegitCheck(c)} :
                hd \in {<<"move", Move(c, l, m, check)>>, <<"move", ChangeLobby(b, c, l, m, check)>>,
                        <<"move", CreateTeam(b, c, l, m, check)>>}
    BY <1>12 DEF Moves
  <2> QED BY <2>1, <1>8, <1>11
<1> QED BY <1>1, <1>2, <1>3, <1>4, <1>5, <1>6, <1>7, <1>9, <1>10, <1>12 DEF OfClient

\* A thread begins with nothing held and reads a block's list of clients, or writes it.
LEMMA ListOfClients ==
    ASSUME NEW b \in Block, NEW mode \in {"read", "write"}
    PROVE  /\ Clients(b) \in Lock /\ Clients(b)[1] \notin NotRecursive /\ Take(mode, Clients(b)) \in Deed
           /\ May(b, <<>>, Take(mode, Clients(b))) /\ May(Ship, <<>>, Take("read", Clients(b)))
           /\ Append(<<>>, Take(mode, Clients(b))) \in Seq(Deed)
           /\ ToSet(Append(<<>>, Take(mode, Clients(b)))) = {Take(mode, Clients(b))}
           /\ Kinds(Append(<<>>, Take(mode, Clients(b)))) = {"block_t.lock"}
<1> DEFINE s == Take(mode, Clients(b))
           r == Take("read", Clients(b))
<1>1. /\ Clients(b) \in Lock /\ Clients(b)[1] = "block_t.lock" /\ s \in Deed /\ s.lock[1] = "block_t.lock"
      /\ s.lock = Clients(b) /\ s.do = mode
      /\ r \in Deed /\ r.lock[1] = "block_t.lock" /\ r.do = "read"
  BY BlockLocksAre, Deeds DEF Clients
<1>2. b # Ship /\ s \in Own(b) /\ r \in Own(Ship)
  BY BlockLocksConstants DEF Own
<1> HIDE DEF s, r
<1>3. May(b, <<>>, s) /\ May(Ship, <<>>, r)
  BY <1>1, <1>2, KindsOfNothing DEF May, Obeys
<1>4. /\ Append(<<>>, s) \in Seq(Deed) /\ ToSet(Append(<<>>, s)) = {s}
      /\ Kinds(Append(<<>>, s)) = {"block_t.lock"}
  <2>1. <<>> \in Seq(Deed)
    OBVIOUS
  <2>2. Append(<<>>, s) \in Seq(Deed) /\ Kinds(Append(<<>>, s)) = Kinds(<<>>) \cup {s.lock[1]}
    BY <1>1, <2>1, KindsGrow
  <2>3. \A h \in Seq(Deed) : ToSet(Append(h, s)) = ToSet(h) \cup {s}
    BY <1>1, AppendedSet
  <2>4. ToSet(Append(<<>>, s)) = {s}
    BY <2>1, <2>3, KindsOfNothing
  <2> QED BY <1>1, <2>2, <2>4, KindsOfNothing
<1>5. Clients(b)[1] \notin NotRecursive
  BY <1>1 DEF NotRecursive
<1> QED BY <1>1, <1>3, <1>4, <1>5 DEF s, r

\* What a block's thread does, from nothing held to nothing held.
LEMMA BlockFollows ==
    ASSUME NoneStray, NEW b \in Block, NEW hd \in OfBlock(b), hd[1] \in Served
    PROVE  hd[2] \in Seq(Deed) /\ Follows(b, <<>>, hd[2], <<>>)
<1>1. CASE hd = <<"accept", Accept(b)>>
  <2>1. <<>> \in Seq(Deed)
    OBVIOUS
  <2>2. Accept(b) \in Seq(Deed) /\ Follows(b, <<>>, Accept(b), <<>>)
    BY <2>1, ListOfClients, TakenAndGiven DEF Accept
  <2> QED BY <1>1, <2>2
<1>2. ASSUME NEW cl \in Seated(b), hd = <<"clean up", CleanUp(b, cl[1], cl[2])>>
      PROVE  hd[2] \in Seq(Deed) /\ Follows(b, <<>>, hd[2], <<>>)
  <2> DEFINE g == Append(<<>>, Take("write", Clients(b)))
  <2>1. cl[2] \in ToSet(Lobby[b])
    BY DEF Seated
  <2>2. /\ Clients(b) \in Lock /\ Clients(b)[1] \notin NotRecursive /\ May(b, <<>>, Take("write", Clients(b)))
        /\ g \in Seq(Deed) /\ Outer(g)
    BY ListOfClients DEF Outer
  <2>3. Leave(b, cl[1], cl[2]) \in Seq(Deed) /\ Follows(b, g, Leave(b, cl[1], cl[2]), g)
    <3> HIDE DEF g
    <3> QED BY <2>1, <2>2, LeaveFollows
  <2>4. <<>> \in Seq(Deed)
    OBVIOUS
  <2>5. CleanUp(b, cl[1], cl[2]) \in Seq(Deed) /\ Follows(b, <<>>, CleanUp(b, cl[1], cl[2]), <<>>)
    BY <2>2, <2>3, <2>4, WithinFollows DEF CleanUp
  <2> QED BY <1>2, <2>5
<1>3. ASSUME NEW cl \in Seated(b), NEW k \in OfClient(b, cl[1], cl[2]), hd = <<k[1], Request(b, cl[1], k[2])>>
      PROVE  hd[2] \in Seq(Deed) /\ Follows(b, <<>>, hd[2], <<>>)
  <2> DEFINE c == cl[1]
             r == Take("read", Clients(b))
             g == Append(<<>>, r)
             s == Take("lock", ClientMutex(c))
             h == Append(g, s)
             inner == Within("lock", ClientMutex(c), k[2])
  <2>1. c \in ToSet(List[b]) /\ cl[2] \in ToSet(Lobby[b]) /\ k[1] \in Served
    BY <1>3 DEF Seated
  <2>2. /\ Clients(b) \in Lock /\ Clients(b)[1] \notin NotRecursive /\ May(b, <<>>, r)
        /\ g \in Seq(Deed) /\ ToSet(g) = {r} /\ Kinds(g) = {"block_t.lock"}
    BY ListOfClients
  <2>3. /\ ClientMutex(c) \in Lock /\ s \in Deed /\ s.lock[1] = "ship_client_t.mutex"
        /\ s.do = "lock" /\ ClientMutex(c)[1] \notin NotRecursive
    BY <2>1, BlockLocksAre, Deeds DEF ClientMutex, NotRecursive
  <2>4. h \in Seq(Deed) /\ ToSet(h) = {r, s} /\ Outer(h)
    <3> HIDE DEF g, r, s
    <3>1. h \in Seq(Deed) /\ ToSet(h) = ToSet(g) \cup {s} /\ Kinds(h) = Kinds(g) \cup {s.lock[1]}
      BY <2>2, <2>3, KindsGrow, AppendedSet
    <3> HIDE DEF h
    <3> QED BY <3>1, <2>2, <2>3 DEF Outer
  <2>5. Take("write", Clients(b)) \notin ToSet(h)
    <3>1. Take("write", Clients(b)).do = "write" /\ r.do = "read"
      BY DEF Take
    <3> HIDE DEF h, r, s
    <3> QED BY <3>1, <2>3, <2>4
  <2>6. May(b, g, s)
    <3> HIDE DEF g
    <3> QED BY <2>1, <2>2, BlockMay
  <2>7. k[2] \in Seq(Deed) /\ Follows(b, h, k[2], h)
    <3> HIDE DEF h
    <3> QED BY <2>1, <2>4, <2>5, ClientFollows
  <2>8. inner \in Seq(Deed) /\ Follows(b, g, inner, g)
    <3> HIDE DEF g
    <3> QED BY <2>2, <2>3, <2>6, <2>7, WithinFollows
  <2>9. <<>> \in Seq(Deed)
    OBVIOUS
  <2>10. Request(b, c, k[2]) = Within("read", Clients(b), inner)
    BY DEF Request
  <2> HIDE DEF inner
  <2>11. /\ Within("read", Clients(b), inner) \in Seq(Deed)
         /\ Follows(b, <<>>, Within("read", Clients(b), inner), <<>>)
    BY <2>2, <2>8, <2>9, WithinFollows
  <2> QED BY <1>3, <2>10, <2>11
<1> QED BY <1>1, <1>2, <1>3 DEF OfBlock

-----------------------------------------------------------------------------
\* The handlers of the ship's thread

LEMMA ShipMay ==
    ASSUME NEW h \in Seq(Deed), Kinds(h) \subseteq {"block_t.lock"}
    PROVE  /\ May(Ship, h, Take("lock", ScriptMutex))
           /\ \A c \in ListedClient : May(Ship, h, Take("lock", ClientMutex(c)))
<1>1. /\ \A e \in ToSet(h) : e.lock[1] = "block_t.lock"
      /\ \A e \in ToSet(h) : e.lock # ScriptMutex
  <2>1. \A e \in ToSet(h) : e.lock[1] = "block_t.lock"
    BY DEF Kinds
  <2>2. ScriptMutex[1] = "script_mutex"
    BY DEF ScriptMutex
  <2> QED BY <2>1, <2>2
<1>2. /\ Take("lock", ScriptMutex) \in Own(Ship)
      /\ \A c \in ListedClient : Take("lock", ClientMutex(c)) \in Own(Ship)
  BY DEF Own
<1>3. May(Ship, h, Take("lock", ScriptMutex))
  BY <1>1, <1>2 DEF May, Obeys, Take, ScriptMutex
<1>4. ASSUME NEW c \in ListedClient PROVE May(Ship, h, Take("lock", ClientMutex(c)))
  BY <1>1, <1>2 DEF May, Obeys, Take, ClientMutex
<1> QED BY <1>3, <1>4

LEMMA ReplyFollows ==
    ASSUME NEW b \in Block, NEW n \in 1 .. Len(List[b])
    PROVE  /\ Reply(b, SubSeq(List[b], 1, n)) \in Seq(Deed)
           /\ Follows(Ship, <<>>, Reply(b, SubSeq(List[b], 1, n)), <<>>)
<1> DEFINE seen == SubSeq(List[b], 1, n)
           g == Append(<<>>, Take("read", Clients(b)))
<1>1. seen \in Seq(ListedClient)
  <2>1. List[b] \in Seq(ListedClient)
    BY BlockLocksConstants
  <2> QED BY <2>1
<1>2. /\ Clients(b) \in Lock /\ Clients(b)[1] \notin NotRecursive /\ May(Ship, <<>>, Take("read", Clients(b)))
      /\ g \in Seq(Deed) /\ Kinds(g) = {"block_t.lock"}
  BY ListOfClients
<1> HIDE DEF seen
<1> DEFINE seqs == [i \in DOMAIN seen |-> Visit(seen[i])]
<1>3. seqs = [i \in DOMAIN seen |-> seqs[i]] /\ \A i \in DOMAIN seen : seqs[i] \in {<<>>, Visit(seen[i])}
  OBVIOUS
<1>4. Reply(b, seen) = Within("read", Clients(b), FlattenSeq(seqs))
  BY DEF Reply, Each
<1>5. FlattenSeq(seqs) \in Seq(Deed) /\ Follows(Ship, g, FlattenSeq(seqs), g)
  <2> HIDE DEF g, seqs
  <2>1. \A c \in ToSet(seen) : May(Ship, g, Take("lock", ClientMutex(c)))
    <3>1. \A c \in ToSet(seen) : c \in ListedClient
      BY <1>1 DEF ToSet
    <3> QED BY <1>2, <3>1, ShipMay
  <2> QED BY <1>1, <1>2, <1>3, <2>1, VisitsFollow
<1> HIDE DEF seqs
<1>6. <<>> \in Seq(Deed)
  OBVIOUS
<1>7. /\ Within("read", Clients(b), FlattenSeq(seqs)) \in Seq(Deed)
      /\ Follows(Ship, <<>>, Within("read", Clients(b), FlattenSeq(seqs)), <<>>)
  BY <1>2, <1>5, <1>6, WithinFollows
<1> QED BY <1>4, <1>7 DEF seen

\* A quest flag from the shipgate: out of order, but everything is given back.
LEMMA FlagFollows ==
    ASSUME ~Ordered, NEW b \in Block, NEW c \in ToSet(List[b]), NEW l \in ToSet(Lobby[b])
    PROVE  FlagReply(b, c, l) \in Seq(Deed) /\ Follows(Ship, <<>>, FlagReply(b, c, l), <<>>)
<1> DEFINE g == Append(<<>>, Take("read", Clients(b)))
           s == Take("lock", ClientMutex(c))
           h == Append(g, s)
           inner == Within("lock", ClientMutex(c), Packet(l))
<1>1. \A t, k, d : May(t, k, d)
  BY DEF May
<1>2. /\ Clients(b) \in Lock /\ Clients(b)[1] \notin NotRecursive
      /\ g \in Seq(Deed) /\ Kinds(g) = {"block_t.lock"}
  BY ListOfClients
<1>3. ClientMutex(c) \in Lock /\ s \in Deed /\ s.lock[1] = "ship_client_t.mutex" /\ ClientMutex(c)[1] \notin NotRecursive
  BY BlockLocksAre, Deeds DEF ClientMutex, NotRecursive
<1>4. h \in Seq(Deed) /\ \A e \in ToSet(h) : e.lock # LobbyMutex(l)
  <2> HIDE DEF g, s
  <2>1. h \in Seq(Deed) /\ Kinds(h) = {"block_t.lock", "ship_client_t.mutex"}
    BY <1>2, <1>3, KindsGrow
  <2> HIDE DEF h
  <2>2. LobbyMutex(l)[1] = "lobby_t.mutex"
    BY DEF LobbyMutex
  <2> QED BY <2>1, <2>2 DEF Kinds
<1>5. Packet(l) \in Seq(Deed) /\ Follows(Ship, h, Packet(l), h)
  <2> HIDE DEF h
  <2> QED BY <1>1, <1>4, BlockLocksAre, HandlerParts
<1>6. inner \in Seq(Deed) /\ Follows(Ship, g, inner, g)
  <2> HIDE DEF g
  <2> QED BY <1>1, <1>2, <1>3, <1>5, WithinFollows
<1>7. <<>> \in Seq(Deed)
  OBVIOUS
<1>8. FlagReply(b, c, l) = Within("read", Clients(b), inner)
  BY DEF FlagReply
<1> HIDE DEF inner
<1>9. /\ Within("read", Clients(b), inner) \in Seq(Deed)
      /\ Follows(Ship, <<>>, Within("read", Clients(b), inner), <<>>)
  BY <1>1, <1>2, <1>6, <1>7, WithinFollows
<1> QED BY <1>8, <1>9

LEMMA ShipFollows ==
    ASSUME NoneStray, NEW hd \in OfShip, hd[1] \in Served
    PROVE  hd[2] \in Seq(Deed) /\ Follows(Ship, <<>>, hd[2], <<>>)
<1> DEFINE none == <<>>
<1>1. none \in Seq(Deed) /\ Kinds(none) = {}
  BY KindsOfNothing
<1>2. CASE hd = <<"event", Event>>
  <2>1. ~Ordered
    BY <1>2 DEF Ordered
  <2>2. Outer(none)
    BY <1>1 DEF Outer
  <2> HIDE DEF none
  <2>3. Event \in Seq(Deed) /\ Follows(Ship, none, Event, none)
    BY <1>1, <2>1, <2>2, EventFollows
  <2> QED BY <1>2, <2>3 DEF none
<1>3. CASE hd = <<"script", ScriptAdded>>
  <2> HIDE DEF none
  <2>1. May(Ship, none, Take("lock", ScriptMutex)) /\ "script_mutex" \notin Kinds(none)
    BY <1>1, ShipMay
  <2>2. Script \in Seq(Deed) /\ Follows(Ship, none, Script, none)
    BY <1>1, <2>1, HandlerParts
  <2> QED BY <1>3, <2>2 DEF none, ScriptAdded
<1>4. ASSUME NEW b \in Block, NEW n \in 1 .. Len(List[b]), hd = <<"reply", Reply(b, SubSeq(List[b], 1, n))>>
      PROVE  hd[2] \in Seq(Deed) /\ Follows(Ship, <<>>, hd[2], <<>>)
  BY <1>4, ReplyFollows
<1>5. ASSUME NEW b \in Block, NEW cl \in Seated(b), hd = <<"flag", FlagReply(b, cl[1], cl[2])>>
      PROVE  hd[2] \in Seq(Deed) /\ Follows(Ship, <<>>, hd[2], <<>>)
  <2>1. ~Ordered
    BY <1>5 DEF Ordered
  <2>2. cl[1] \in ToSet(List[b]) /\ cl[2] \in ToSet(Lobby[b])
    BY DEF Seated
  <2> QED BY <1>5, <2>1, <2>2, FlagFollows
<1>6. ASSUME NEW b \in Block, NEW cl \in Seated(b), hd = <<"stray flag", StrayFlagReply(b, cl[1])>>
      PROVE  FALSE
  BY <1>6 DEF NoneStray
<1> QED BY <1>2, <1>3, <1>4, <1>5, <1>6 DEF OfShip

-----------------------------------------------------------------------------
\* Every lock is given back

\* Every thread is on its way back to holding nothing, and holds what it may take.
InHandler ==
    \A t \in Thread :
        /\ held[t] \in Seq(Deed) /\ todo[t] \in Seq(Deed)
        /\ Follows(t, held[t], todo[t], <<>>)
        /\ Ordered => ToSet(held[t]) \subseteq Own(t)
LocksType == todo \in [Thread -> Seq(Deed)] /\ held \in [Thread -> Seq(Deed)]
LocksInv == LocksType /\ InHandler

LEMMA LocksInit == Init => LocksInv
<1> SUFFICES ASSUME Init PROVE LocksInv
  OBVIOUS
<1>1. LocksType
  BY DEF Init, LocksType
<1>2. ASSUME NEW t \in Thread
      PROVE  /\ held[t] \in Seq(Deed) /\ todo[t] \in Seq(Deed)
             /\ Follows(t, held[t], todo[t], <<>>)
             /\ Ordered => ToSet(held[t]) \subseteq Own(t)
  <2>1. held[t] = <<>> /\ todo[t] = <<>>
    BY DEF Init
  <2>2. \A h \in Seq(Deed) : Follows(t, h, <<>>, h)
    BY NothingFollows
  <2> QED BY <2>1, <2>2, KindsOfNothing
<1> QED BY <1>1, <1>2 DEF LocksInv, InHandler

LEMMA LocksNext == NoneStray /\ LocksInv /\ [Next]_vars => LocksInv'
<1> SUFFICES ASSUME NoneStray, LocksInv, [Next]_vars PROVE LocksInv'
  OBVIOUS
<1> USE DEF LocksInv
<1>1. ASSUME NEW t \in Thread, NEW x, NEW y, x \in Seq(Deed), y \in Seq(Deed),
             todo' = [todo EXCEPT ![t] = x], held' = [held EXCEPT ![t] = y],
             Follows(t, y, x, <<>>), Ordered => ToSet(y) \subseteq Own(t)
      PROVE  LocksInv'
  <2>1. LocksType'
    BY <1>1 DEF LocksType
  <2>2. ASSUME NEW u \in Thread
        PROVE  /\ held'[u] \in Seq(Deed) /\ todo'[u] \in Seq(Deed)
               /\ Follows(u, held'[u], todo'[u], <<>>)
               /\ Ordered => ToSet(held'[u]) \subseteq Own(u)
    <3>1. CASE u = t
      <4>1. held'[u] = y /\ todo'[u] = x
        BY <1>1, <3>1 DEF LocksType
      <4> QED BY <4>1, <1>1, <3>1
    <3>2. CASE u # t
      <4>1. held'[u] = held[u] /\ todo'[u] = todo[u]
        BY <1>1, <3>2 DEF LocksType
      <4> QED BY <4>1 DEF InHandler
    <3> QED BY <3>1, <3>2
  <2> QED BY <2>1, <2>2 DEF InHandler
<1>2. ASSUME NEW t \in Thread, Start(t) PROVE LocksInv'
  <2>1. PICK hd \in IF t = Ship THEN OfShip ELSE OfBlock(t) :
          hd[1] \in Served /\ todo' = [todo EXCEPT ![t] = hd[2]] /\ held' = held /\ todo[t] = <<>>
    BY <1>2 DEF Start
  <2>2. hd[2] \in Seq(Deed) /\ Follows(t, <<>>, hd[2], <<>>)
    <3>1. CASE t = Ship
      BY <2>1, <3>1, ShipFollows
    <3>2. CASE t # Ship
      BY <2>1, <3>2, BlockFollows DEF Thread
    <3> QED BY <3>1, <3>2
  <2>3. held[t] = <<>>
    <3>1. Follows(t, held[t], <<>>, <<>>)
      BY <2>1 DEF InHandler
    <3> QED BY <3>1 DEF Follows
  <2>4. held' = [held EXCEPT ![t] = held[t]] /\ held[t] \in Seq(Deed) /\ (Ordered => ToSet(held[t]) \subseteq Own(t))
    BY <2>1 DEF LocksType, InHandler
  <2>5. Follows(t, held[t], hd[2], <<>>)
    BY <2>2, <2>3
  <2> QED BY <1>1, <2>1, <2>2, <2>4, <2>5
<1>3. ASSUME NEW t \in Thread, Step(t) PROVE LocksInv'
  <2> DEFINE s == Head(todo[t])
             h == held[t]
  <2>1. /\ todo[t] # <<>> /\ todo[t] \in Seq(Deed) /\ h \in Seq(Deed) /\ Follows(t, h, todo[t], <<>>)
        /\ held' = [held EXCEPT ![t] = HeldAfter(h, s)] /\ todo' = [todo EXCEPT ![t] = Tail(todo[t])]
    BY <1>3 DEF Step, InHandler
  <2>2. s \in Deed /\ Tail(todo[t]) \in Seq(Deed) /\ May(t, h, s) /\ Follows(t, HeldAfter(h, s), Tail(todo[t]), <<>>)
    BY <2>1, RestFollows
  <2>3. /\ HeldAfter(h, s) \in Seq(Deed)
        /\ \A e \in ToSet(HeldAfter(h, s)) : e \in ToSet(h) \/ (e = s /\ s.do # "release")
    BY <2>1, <2>2, HeldType
  <2>4. Ordered => ToSet(HeldAfter(h, s)) \subseteq Own(t)
    <3>1. ASSUME Ordered, NEW e \in ToSet(HeldAfter(h, s)) PROVE e \in Own(t)
      <4>1. ToSet(h) \subseteq Own(t)
        BY <3>1 DEF InHandler
      <4>2. s.do # "release" => s \in Own(t)
        BY <3>1, <2>2 DEF May, Obeys
      <4> HIDE DEF s, h
      <4> QED BY <3>1, <4>1, <4>2, <2>3
    <3> QED BY <3>1
  <2> HIDE DEF s, h
  <2> QED BY <1>1, <2>1, <2>2, <2>3, <2>4
<1>4. CASE UNCHANGED vars
  BY <1>4 DEF vars, LocksType, InHandler
<1> QED BY <1>2, <1>3, <1>4 DEF Next

\* Whatever handlers run, but for those that leave by a way out that keeps a lock
\* (NoneStray), a thread that has finished one holds nothing.
THEOREM NothingIsKept == ASSUME NoneStray PROVE Spec => []NothingKept
<1>1. Init => LocksInv
  BY LocksInit
<1>2. LocksInv /\ [Next]_vars => LocksInv'
  BY LocksNext
<1>3. LocksInv => NothingKept
  <2> SUFFICES ASSUME LocksInv, NEW t \in Thread, todo[t] = <<>> PROVE held[t] = <<>>
    BY DEF NothingKept
  <2>1. Follows(t, held[t], <<>>, <<>>)
    BY DEF LocksInv, InHandler
  <2> QED BY <2>1 DEF Follows
<1> QED BY <1>1, <1>2, <1>3, PTL DEF Spec

-----------------------------------------------------------------------------
\* Nobody waits in a circle

\* Who is in the way of a thread holds the lock it wants.
LEMMA InTheWay ==
    ASSUME NEW t \in Thread, NEW s, NEW u \in Blockers(t, s)
    PROVE  /\ u \in Thread /\ s.do \in {"read", "write", "lock"}
           /\ \E e \in ToSet(held[u]) : e.lock = s.lock
           /\ s.do = "read" => Take("write", s.lock) \in ToSet(held[u])
           /\ s.do = "lock" /\ u = t => s.lock[1] \in NotRecursive /\ Relock = "hangs"
<1>1. CASE s.do = "read"
  <2>1. u \in Thread /\ Writes(u, s.lock)
    BY <1>1 DEF Blockers
  <2>2. Take("write", s.lock) \in ToSet(held[u]) /\ Take("write", s.lock).lock = s.lock
    BY <2>1 DEF Writes, ToSet, Take
  <2> QED BY <1>1, <2>1, <2>2
<1>2. CASE s.do # "read"
  <2>1. /\ u \in Thread /\ Holds(u, s.lock) /\ s.do \in {"write", "lock"}
        /\ s.do = "lock" /\ u = t => s.lock[1] \in NotRecursive /\ Relock = "hangs"
    BY <1>2 DEF Blockers
  <2>2. \E e \in ToSet(held[u]) : e.lock = s.lock
    BY <2>1 DEF Holds, ToSet
  <2> QED BY <1>2, <2>1, <2>2
<1> QED BY <1>1, <1>2

\* What thread t wants, if it keeps to the order and has to wait.
LEMMA Wants ==
    ASSUME LocksInv, Ordered, NEW t \in Thread, Waiting(t)
    PROVE  /\ Head(todo[t]).do # "release" /\ Obeys(t, ToSet(held[t]), Head(todo[t]))
           /\ \A u \in Thread : ToSet(held[u]) \subseteq Own(u)
<1>1. todo[t] # <<>> /\ todo[t] \in Seq(Deed) /\ held[t] \in Seq(Deed) /\ Follows(t, held[t], todo[t], <<>>)
  BY DEF Waiting, LocksInv, InHandler
<1>2. May(t, held[t], Head(todo[t]))
  BY <1>1, RestFollows
<1>3. PICK u : u \in Blockers(t, Head(todo[t]))
  BY DEF Waiting
<1>4. Head(todo[t]).do # "release"
  BY <1>3, InTheWay
<1>5. \A v \in Thread : ToSet(held[v]) \subseteq Own(v)
  BY DEF LocksInv, InHandler
<1> QED BY <1>2, <1>4, <1>5 DEF May

\* What the locks of a thread look like.
LEMMA OwnKinds ==
    ASSUME NEW t \in Thread, NEW e \in Own(t)
    PROVE  \/ e = Take("lock", ScriptMutex)
           \/ \E c \in ListedClient : e = Take("lock", ClientMutex(c)) /\ (t # Ship => c \in ToSet(List[t]))
           \/ \E b \in Block : e = Take("read", Clients(b)) /\ t \in {Ship, b}
           \/ t # Ship /\ e = Take("write", Clients(t))
           \/ t # Ship /\ e \in {Take("read", Lobbies(t)), Take("write", Lobbies(t))}
           \/ t # Ship /\ \E l \in ToSet(Lobby[t]) : e = Take("lock", LobbyMutex(l))
<1>1. CASE t = Ship
  BY <1>1 DEF Own
<1>2. CASE t # Ship
  <2>1. t \in Block /\ \A c \in ToSet(List[t]) : c \in ListedClient
    BY <1>2 DEF Thread, ListedClient
  <2> QED BY <1>2, <2>1 DEF Own
<1> QED BY <1>1, <1>2

\* Two threads want the same only where the ship's thread is one of them, or it is the
\* scripts' mutex.
LEMMA Shared ==
    ASSUME NEW t \in Block, NEW u \in Thread, NEW s \in Own(t), NEW e \in Own(u), e.lock = s.lock,
           s.lock # ScriptMutex
    PROVE  u = t \/ (u = Ship /\ s.lock[1] \in {"block_t.lock", "ship_client_t.mutex"} /\ e.do # "write")
<1>1. CASE u = Ship
  <2>1. e.lock[1] \in {"block_t.lock", "ship_client_t.mutex", "script_mutex"} /\ e.do # "write"
    BY <1>1 DEF Own, Take, Clients, ClientMutex, ScriptMutex
  <2>2. e.lock[1] # "script_mutex"
    <3>1. e = Take("lock", ScriptMutex) \/ e.lock[1] \in {"block_t.lock", "ship_client_t.mutex"}
      BY <1>1 DEF Own, Take, Clients, ClientMutex
    <3>2. Take("lock", ScriptMutex).lock = ScriptMutex
      BY DEF Take
    <3> QED BY <3>1, <3>2
  <2> QED BY <1>1, <2>1, <2>2
<1>2. CASE u # Ship /\ u # t
  <2>1. u \in Block /\ t # Ship
    BY <1>2, BlockLocksConstants DEF Thread
  <2>2. ToSet(Lobby[t]) \cap ToSet(Lobby[u]) = {} /\ ToSet(List[t]) \cap ToSet(List[u]) = {}
    BY <1>2, <2>1, BlockLocksConstants
  <2>3. \/ \E c \in ToSet(List[t]) : s.lock = ClientMutex(c)
        \/ s.lock = Clients(t) \/ s.lock = Lobbies(t)
        \/ \E l \in ToSet(Lobby[t]) : s.lock = LobbyMutex(l)
    BY <2>1 DEF Own, Take
  <2>4. \/ \E c \in ToSet(List[u]) : e.lock = ClientMutex(c)
        \/ e.lock = Clients(u) \/ e.lock = Lobbies(u)
        \/ \E l \in ToSet(Lobby[u]) : e.lock = LobbyMutex(l)
    BY <2>1, <1>2 DEF Own, Take
  <2> QED BY <1>2, <2>2, <2>3, <2>4 DEF Clients, Lobbies, LobbyMutex, ClientMutex
<1> QED BY <1>1, <1>2

\* A block's thread that waits for one of some threads that all wait has nothing in its
\* hands, and waits for the ship's.
LEMMA BlockWaits ==
    ASSUME LocksInv, Ordered, NEW b \in Block, Waiting(b),
           NEW u \in Blockers(b, Head(todo[b])), Waiting(u)
    PROVE  u = Ship /\ ToSet(held[b]) = {}
<1> DEFINE s == Head(todo[b])
           H == ToSet(held[b])
<1>1. b \in Thread /\ b # Ship /\ u \in Thread
  BY InTheWay, BlockLocksConstants DEF Thread
<1>2. Obeys(b, H, s) /\ s \in Own(b)
  BY <1>1, Wants DEF Obeys
<1>3. PICK e \in ToSet(held[u]) : e.lock = s.lock
  BY <1>1, InTheWay
<1>4. e \in Own(u) /\ e.lock # ScriptMutex /\ (u = Ship => e.lock[1] # "ship_client_t.mutex")
  BY <1>1, <1>3, Wants DEF Obeys
<1>5. /\ s.do = "read" => Take("write", s.lock) \in ToSet(held[u])
      /\ s.do = "lock" /\ u = b => s.lock[1] \in NotRecursive /\ Relock = "hangs"
  BY <1>1, InTheWay
<1>6. u = b \/ (u = Ship /\ s.lock[1] \in {"block_t.lock", "ship_client_t.mutex"})
  BY <1>1, <1>2, <1>3, <1>4, Shared
<1>7. \/ s.lock = ScriptMutex
      \/ s.lock[1] = "block_t.lock" /\ s.do \in {"read", "write"}
      \/ s.lock[1] = "block_t.lobby_lock" /\ s.do \in {"read", "write"}
      \/ s.lock[1] \in {"lobby_t.mutex", "ship_client_t.mutex"} /\ s.do = "lock"
  <2> HIDE DEF s
  <2>1. CASE s = Take("lock", ScriptMutex)
    BY <2>1 DEF Take
  <2>2. CASE s # Take("lock", ScriptMutex)
    BY <1>1, <1>2, <2>2, OwnKinds DEF Take, Clients, Lobbies, LobbyMutex, ClientMutex
  <2> QED BY <2>1, <2>2
<1> HIDE DEF s
<1>8. CASE u = b
  <2>1. e \in H
    BY <1>3, <1>8
  <2>2. s.lock[1] = "lobby_t.mutex" => FALSE
    BY <1>2, <1>3, <1>5, <1>7, <1>8, <2>1, <1>4 DEF Obeys
  <2>3. s.lock[1] = "ship_client_t.mutex" => FALSE
    BY <1>5, <1>7, <1>8, <1>3, <1>4 DEF NotRecursive
  <2>4. s.lock[1] = "block_t.lobby_lock" => FALSE
    BY <1>2, <1>3, <2>1 DEF Obeys
  <2>5. s.lock[1] = "block_t.lock" => FALSE
    BY <1>2, <1>3, <1>4, <1>5, <1>7, <1>8, <2>1 DEF Obeys
  <2> QED BY <2>2, <2>3, <2>4, <2>5, <1>7, <1>3, <1>4
<1>9. CASE u = Ship
  <2>1. s.lock[1] = "block_t.lock" /\ s.do \in {"read", "write"}
    BY <1>3, <1>4, <1>6, <1>7, <1>9, <1>1
  <2>2. s.do # "read"
    <3> SUFFICES ASSUME s.do = "read" PROVE FALSE
      OBVIOUS
    <3> DEFINE w == Take("write", s.lock)
    <3>1. w \in ToSet(held[u]) /\ w.lock = s.lock /\ w.do = "write"
      BY <1>5 DEF Take
    <3>2. w \in Own(u)
      BY <1>1, <3>1, Wants
    <3> HIDE DEF w
    <3>3. u = b \/ w.do # "write"
      BY <1>1, <1>2, <1>3, <1>4, <3>1, <3>2, Shared
    <3> QED BY <3>1, <3>3, <1>1, <1>9
  <2>3. H = {}
    BY <1>2, <2>1, <2>2 DEF Obeys
  <2> QED BY <1>9, <2>3
<1> QED BY <1>6, <1>8, <1>9

\* The ship's thread waits for nobody who waits.
LEMMA ShipWaits ==
    ASSUME LocksInv, Ordered, Waiting(Ship), NEW u \in Blockers(Ship, Head(todo[Ship])), Waiting(u),
           u \in Block => ToSet(held[u]) = {}
    PROVE  FALSE
<1> DEFINE s == Head(todo[Ship])
<1>1. Ship \in Thread /\ u \in Thread
  BY InTheWay DEF Thread
<1>2. Obeys(Ship, ToSet(held[Ship]), s) /\ s \in Own(Ship) /\ ToSet(held[Ship]) \subseteq Own(Ship)
  BY <1>1, Wants DEF Obeys
<1>3. PICK e \in ToSet(held[u]) : e.lock = s.lock
  BY <1>1, InTheWay
<1>4. u = Ship
  BY <1>1, <1>3 DEF Thread
<1>5. /\ s.do = "read" => Take("write", s.lock) \in ToSet(held[u])
      /\ s.do = "lock" /\ u = Ship => s.lock[1] \in NotRecursive /\ Relock = "hangs"
      /\ s.do \in {"read", "write", "lock"}
  BY <1>1, InTheWay
<1>6. e.lock # ScriptMutex
  BY <1>2, <1>3, <1>4 DEF Obeys
<1>7. s = Take("lock", ScriptMutex)
      \/ (\E b \in Block : s = Take("read", Clients(b))) \/ (\E c \in ListedClient : s = Take("lock", ClientMutex(c)))
  BY <1>2 DEF Own
<1> HIDE DEF s
<1>8. s # Take("lock", ScriptMutex)
  BY <1>3, <1>6 DEF Take
<1>9. ASSUME NEW b \in Block, s = Take("read", Clients(b)) PROVE FALSE
  <2>1. Take("write", Clients(b)) \in Own(Ship)
    BY <1>2, <1>4, <1>5, <1>9 DEF Take
  <2> QED BY <2>1 DEF Own, Take
<1>10. ASSUME NEW c \in ListedClient, s = Take("lock", ClientMutex(c)) PROVE FALSE
  BY <1>4, <1>5, <1>10 DEF Take, ClientMutex, NotRecursive
<1> QED BY <1>7, <1>8, <1>9, <1>10

\* Whoever holds what, some thread of any set of threads can go on: for any number of
\* blocks, if the handlers that are served keep to the order (block.c, lobby.c, shipgate.c).
THEOREM NeverStuck == ASSUME Ordered PROVE Spec => []Unstuck
<1>1. Init => LocksInv
  BY LocksInit
<1>2. NoneStray
  BY DEF Ordered, NoneStray
<1>3. LocksInv /\ [Next]_vars => LocksInv'
  BY <1>2, LocksNext
<1>4. LocksInv => Unstuck
  <2> SUFFICES ASSUME LocksInv, NEW S \in (SUBSET Thread) \ {{}},
                      \A t \in S : Waiting(t) /\ Blockers(t, Head(todo[t])) \cap S # {}
               PROVE  FALSE
    BY DEF Unstuck
  <2>1. ASSUME NEW b \in S \cap Block PROVE Ship \in S /\ ToSet(held[b]) = {}
    <3>1. PICK u \in S : u \in Blockers(b, Head(todo[b]))
      OBVIOUS
    <3> QED BY <3>1, BlockWaits
  <2>2. Ship \in S
    BY <2>1 DEF Thread
  <2>3. PICK u \in S : u \in Blockers(Ship, Head(todo[Ship]))
    BY <2>2
  <2> QED BY <2>1, <2>2, <2>3, ShipWaits
<1> QED BY <1>1, <1>3, <1>4, PTL DEF Spec

\* In particular nobody waits for a mutex of its own.
THEOREM NobodyLocksOut == ASSUME Ordered PROVE Spec => []NobodyWaitsForItself
<1>1. Unstuck => NobodyWaitsForItself
  <2> SUFFICES ASSUME Unstuck, NEW t \in Thread, Waiting(t) PROVE t \notin Blockers(t, Head(todo[t]))
    BY DEF NobodyWaitsForItself
  <2>1. {t} \in (SUBSET Thread) \ {{}}
    OBVIOUS
  <2>2. \E v \in {t} : ~Waiting(v) \/ Blockers(v, Head(todo[v])) \cap {t} = {}
    BY <2>1 DEF Unstuck
  <2>3. Blockers(t, Head(todo[t])) \cap {t} = {}
    BY <2>2
  <2> QED BY <2>3
<1>2. Spec => []Unstuck
  BY NeverStuck
<1> QED BY <1>1, <1>2, PTL
=============================================================================
