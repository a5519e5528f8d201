----------------------------- MODULE TeamItems -----------------------------
(***************************************************************************)
(* The items of a Blue Burst team: what its members carry and keep in the  *)
(* bank (bb_pl), what lies on the floor (lobby_t.item_queue), the meseta,  *)
(* and the numbers that name items (subcmd.c, items.c, lobby.c, block.c).  *)
(*                                                                         *)
(* The server keeps its own account of every inventory; a client that asks *)
(* for what that account does not have is disconnected.  The clients here  *)
(* ask for what the game lets them do: they move what they have, and take  *)
(* up what they have room for, a stack they already carry included.        *)
(*                                                                         *)
(* An item number is a pair: the range it is from (a slot of the team, or  *)
(* the team's own lobby_t.item_id), and the count within the range.        *)
(***************************************************************************)
EXTENDS Integers, FiniteSets, Sequences, SequencesExt, Functions, FiniteSetsExt

CONSTANTS
    Player,         \* the Blue Burst clients
    Kind,           \* data_l[0]: what an item is
    Tool,           \* the kinds for which item_is_stackable holds
    Frame, Unit,    \* the kinds that are frames, and the units that go in one
    Meseta,         \* Item_Meseta
    Nobody,         \* NULL
    Blank,          \* data of an unused place in c->items
    Start,          \* what a run may begin with: what the clients first arrive with
                    \* (inv, meseta), and what the server is going to drop (drops)
    MaxInv,         \* 30
    MaxBank,        \* 200
    MaxMeseta,      \* 999999
    Fee,            \* 10, for the medical center
    Splits,         \* when clients drop part of a stack (0x29): "always", or while
                    \* c->items has it where they have it ("kept")
    MaxId,          \* bound: item numbers given out for one slot
    MaxGiven        \* bound: item numbers given out for the team

Slots == 0 .. Cardinality(Player) - 1
OfTeam == -1        \* the range of lobby_t.item_id
NoId == <<-2, 0>>

ASSUME TeamItemsConstants ==
    /\ IsFiniteSet(Player) /\ Nobody \notin Player
    /\ Tool \subseteq Kind /\ Frame \subseteq Kind /\ Unit \subseteq Kind
    /\ Tool \cap Frame = {}
    /\ Meseta \notin Kind /\ Blank \notin Kind /\ Blank # Meseta
    /\ MaxInv \in Nat \ {0} /\ MaxBank \in Nat \ {0} /\ Fee \in Nat
    /\ MaxMeseta \in Nat
    /\ Splits \in {"always", "kept"}
    /\ MaxId \in Nat /\ MaxGiven \in Nat

\* What clients arrive with (CLIENT_SEND_CHARACTER, 0x61) is what the game lets them have.
ASSUME StartAssumption ==
    \A first \in Start :
        /\ first.drops \in Seq(Kind \cup {Meseta})
        /\ first.meseta \in [Player -> 0 .. MaxMeseta]
        /\ first.inv \in [Player -> Seq([id : {NoId}, kind : Kind, n : Nat \ {0}, on : BOOLEAN])]
        /\ \A c \in Player :
            /\ Len(first.inv[c]) <= MaxInv
            /\ (\E i \in DOMAIN first.inv[c] : first.inv[c][i].kind \in Unit /\ first.inv[c][i].on)
                => \E i \in DOMAIN first.inv[c] : first.inv[c][i].kind \in Frame /\ first.inv[c][i].on

VARIABLES
    inv,            \* by client: bb_pl->inv
    bank,           \* by client: bb_pl->bank
    meseta,         \* by client: bb_pl->character.meseta
    banked,         \* by client: bb_pl->bank.meseta
    snap,           \* by client: c->items, the inventory it last sent as a whole
    drop_item,      \* by client: what it announced with 0xC3, or Nobody
    seat,           \* by slot of the team: its client, or Nobody
    highest_item,   \* by slot: the last number given out for it
    item_id,        \* the next number of the team's own
    floor,          \* lobby_t.item_queue
    gone,           \* clients whose handler failed, not yet cleaned up
    drops,          \* what the server is going to drop
    made            \* by kind: how much was brought, or is dropped by the server

itemsVars == <<inv, bank, meseta, banked, snap, drop_item, seat, highest_item,
               item_id, floor, gone, drops, made>>
teamVars == <<seat, highest_item, item_id, snap>>
purses == <<meseta, banked>>

-----------------------------------------------------------------------------
\* Inventories and banks: sequences of items

\* item_remove_from_inv, item_take_from_bank: n of a stack, or the item as a whole.
Less_Uncounted(items, i, n) ==
    IF items[i].kind \in Tool /\ n < items[i].n THEN items ELSE RemoveAt(items, i)
Less(items, i, n) ==
    IF items[i].kind \in Tool /\ n < items[i].n
    THEN [items EXCEPT ![i].n = @ - n]
    ELSE RemoveAt(items, i)

Alike(items, it) == {i \in DOMAIN items : items[i].kind = it.kind}

\* Both lists put a stack on top of the first one of its kind.
Stacked_Replaced(items, it) ==
    IF it.kind \in Tool /\ Alike(items, it) # {}
    THEN [items EXCEPT ![Min(Alike(items, it))].n = it.n]
    ELSE Append(items, it)
Stacked(items, it) ==
    IF it.kind \in Tool /\ Alike(items, it) # {}
    THEN [items EXCEPT ![Min(Alike(items, it))].n = @ + it.n]
    ELSE Append(items, it)

\* item_add_to_inv and item_deposit_to_bank refuse before they look for a stack.
Takes_Unnumbered(items, it) == Len(items) # MaxInv
Takes(items, it) ==
    /\ Len(items) # MaxInv
    /\ \A i \in DOMAIN items : items[i].id # it.id
BankTakes_Unchecked(items) == TRUE
BankTakes(items) == Len(items) # MaxBank

Unequipped(it) == [it EXCEPT !.on = FALSE]
UnitsOff_FromSecond(items) ==
    [i \in DOMAIN items |->
        IF i > 1 /\ items[i].kind \in Unit THEN Unequipped(items[i]) ELSE items[i]]
UnitsOff(items) ==
    [i \in DOMAIN items |-> IF items[i].kind \in Unit THEN Unequipped(items[i]) ELSE items[i]]

IsWornFrame(it) == it.kind \in Frame /\ it.on

\* What a client's own game shows of an inventory.
Contents(items) == [i \in DOMAIN items |-> [kind |-> items[i].kind, n |-> items[i].n]]
HasRoom(c, kind) ==
    Len(inv[c]) < MaxInv \/ (kind \in Tool /\ \E i \in DOMAIN inv[c] : inv[c][i].kind = kind)

\* How much there is of a kind, in inventories, banks and purses and on the floor; and
\* how often the server is going to drop it.
Total(f) == Cardinality(UNION {{x} \X (1 .. f[x]) : x \in DOMAIN f})
SumOf(items, k) == Total([i \in DOMAIN items |-> IF items[i].kind = k THEN items[i].n ELSE 0])
Has(c, k) ==
    IF k = Meseta THEN meseta[c] + banked[c] ELSE SumOf(inv[c], k) + SumOf(bank[c], k)
InPlay(k) == SumOf(floor, k) + Total([c \in Player |-> Has(c, k)])
ToCome(k) == Cardinality({i \in DOMAIN drops : drops[i] = k})

-----------------------------------------------------------------------------
\* Joining and leaving

InTeam(c) == \E s \in Slots : seat[s] = c
SlotOf(c) == CHOOSE s \in Slots : seat[s] = c
Acts(c) == InTeam(c) /\ c \notin gone
Idle(c) == Acts(c) /\ drop_item[c] = Nobody

ItemsInit ==
    /\ \E first \in Start :
        /\ inv = first.inv /\ meseta = first.meseta /\ drops = first.drops
    /\ bank = [c \in Player |-> <<>>]
    /\ banked = [c \in Player |-> 0]
    /\ snap = [c \in Player |-> Contents(inv[c])]
    /\ drop_item = [c \in Player |-> Nobody]
    /\ seat = [s \in Slots |-> Nobody]
    /\ highest_item = [s \in Slots |-> 0]
    /\ item_id = 0
    /\ floor = <<>>
    /\ gone = {}
    /\ made = [k \in Kind \cup {Meseta} |-> InPlay(k) + ToCome(k)]

\* lobby_create_game clears the team, and join_game numbers the inventory from the
\* number its slot has come to: an empty one takes that back by one.  (From -1 the
\* count would go on at 0xFFFF, beyond MaxId.)
Join(c) ==
    LET s == Min({t \in Slots : seat[t] = Nobody})
        founded == \A t \in Slots : seat[t] = Nobody
        high == IF founded THEN 0 ELSE highest_item[s]
    IN  /\ ~InTeam(c)
        /\ high >= 0 /\ high + Len(inv[c]) - 1 <= MaxId
        /\ seat' = [seat EXCEPT ![s] = c]
        /\ inv' = [inv EXCEPT ![c] =
                     [i \in DOMAIN @ |-> [@[i] EXCEPT !.id = <<s, high + i - 1>>]]]
        /\ highest_item' = [t \in Slots |-> CASE t = s -> high + Len(inv[c]) - 1
                                              [] t # s /\ founded -> 0
                                              [] OTHER -> highest_item[t]]
        /\ item_id' = IF founded THEN 0 ELSE item_id
        /\ UNCHANGED <<purses, bank, snap, drop_item, floor, gone, drops, made>>

\* 0x98, or the clean-up after a failed handler.  Either way the client sends its
\* inventory as a whole before it plays again; the numbers of its items mean nothing
\* from here on.  The last one out ends the team.
Leave(c) ==
    /\ InTeam(c)
    /\ seat' = [seat EXCEPT ![SlotOf(c)] = Nobody]
    /\ floor' = IF \A s \in Slots : seat'[s] = Nobody THEN <<>> ELSE floor
    /\ snap' = [snap EXCEPT ![c] = Contents(inv[c])]
    /\ drop_item' = [drop_item EXCEPT ![c] = Nobody]
    /\ gone' = gone \ {c}
    /\ inv' = [inv EXCEPT ![c] = [i \in DOMAIN @ |-> [@[i] EXCEPT !.id = NoId]]]
    /\ UNCHANGED <<purses, bank, highest_item, item_id, drops, made>>

-----------------------------------------------------------------------------
\* The floor

\* handle_bb_drop_item.  isframe is never cleared, so that the units may come off
\* whatever is dropped.
DropItem(c, i) ==
    LET it == inv[c][i] IN
    /\ Idle(c)
    /\ floor' = <<Unequipped(it)>> \o floor
    /\ \E isframe \in IF IsWornFrame(it) THEN {TRUE} ELSE BOOLEAN :
          inv' = [inv EXCEPT ![c] = RemoveAt(IF isframe THEN UnitsOff(@) ELSE @, i)]
    /\ UNCHANGED <<teamVars, purses, bank, drop_item, gone, drops, made>>

\* What c->items has at a place of the inventory; no handler here keeps it up.
SnapAt(c, i) == IF i \in DOMAIN snap[c] THEN snap[c][i].kind ELSE Blank

\* handle_bb_drop_pos: some of an item, or of the meseta, is about to be dropped.
DropPos(c, i, n) ==
    /\ Idle(c) /\ (Splits = "always" \/ SnapAt(c, i) = inv[c][i].kind)
    /\ inv[c][i].kind \in Tool /\ n \in 1 .. inv[c][i].n
    /\ drop_item' = [drop_item EXCEPT ![c] = [item |-> inv[c][i].id, amt |-> n]]
    /\ UNCHANGED <<inv, teamVars, purses, bank, floor, gone, drops, made>>

DropPosMeseta(c, n) ==
    /\ Idle(c)
    /\ n \in 1 .. meseta[c]
    /\ drop_item' = [drop_item EXCEPT ![c] = [item |-> NoId, amt |-> n]]
    /\ UNCHANGED <<inv, teamVars, purses, bank, floor, gone, drops, made>>

\* handle_bb_drop_stack puts on the floor what c->items has where the inventory has
\* the item, under a new number.
Split(c, kind) ==
    [id |-> <<SlotOf(c), highest_item[SlotOf(c)] + 1>>, kind |-> kind,
     n |-> drop_item[c].amt, on |-> FALSE]
Numbered(c) ==
    /\ highest_item[SlotOf(c)] < MaxId
    /\ highest_item' = [highest_item EXCEPT ![SlotOf(c)] = @ + 1]

DropStack(c) ==
    LET found == {i \in DOMAIN inv[c] : inv[c][i].id = drop_item[c].item} IN
    /\ Acts(c) /\ drop_item[c] # Nobody /\ drop_item[c].item # NoId
    /\ found # {}
    /\ Numbered(c)
    /\ floor' = <<Split(c, SnapAt(c, Min(found)))>> \o floor
    /\ inv' = [inv EXCEPT ![c] = Less(@, Min(found), drop_item[c].amt)]
    /\ drop_item' = [drop_item EXCEPT ![c] = Nobody]
    /\ UNCHANGED <<purses, seat, item_id, snap, bank, gone, drops, made>>

DropMeseta(c) ==
    /\ Acts(c) /\ drop_item[c] # Nobody /\ drop_item[c].item = NoId
    /\ Numbered(c)
    /\ floor' = <<Split(c, Meseta)>> \o floor
    /\ IF drop_item[c].amt > meseta[c]
       THEN gone' = gone \cup {c} /\ UNCHANGED meseta
       ELSE meseta' = [meseta EXCEPT ![c] = @ - drop_item[c].amt] /\ UNCHANGED gone
    /\ drop_item' = [drop_item EXCEPT ![c] = Nobody]
    /\ UNCHANGED <<inv, banked, seat, item_id, snap, bank, drops, made>>

\* handle_bb_pick_up: the item leaves the floor first.  (A request for one that
\* somebody else has taken changes nothing.)
PickUp(c, id) ==
    LET at == Min({j \in DOMAIN floor : floor[j].id = id})
        it == floor[at]
    IN  /\ Idle(c)
        /\ it.kind = Meseta \/ HasRoom(c, it.kind)
        /\ floor' = RemoveAt(floor, at)
        /\ CASE it.kind = Meseta ->
                  /\ meseta' = [meseta EXCEPT ![c] = Min({@ + it.n, MaxMeseta})]
                  /\ UNCHANGED <<inv, gone>>
             [] it.kind # Meseta /\ Takes(inv[c], it) ->
                  /\ inv' = [inv EXCEPT ![c] = Stacked(@, Unequipped(it))]
                  /\ UNCHANGED <<meseta, gone>>
             [] OTHER -> gone' = gone \cup {c} /\ UNCHANGED <<meseta, inv>>
        /\ UNCHANGED <<banked, teamVars, bank, drop_item, drops, made>>

\* lobby_add_item_locked: a drop of the server's, or one a GM asked for.
ServerDrop ==
    /\ \E s \in Slots : seat[s] # Nobody
    /\ drops # <<>> /\ item_id < MaxGiven
    /\ floor' = <<[id |-> <<OfTeam, item_id>>, kind |-> Head(drops), n |-> 1, on |-> FALSE]>> \o floor
    /\ item_id' = item_id + 1
    /\ drops' = Tail(drops)
    /\ UNCHANGED <<inv, purses, seat, highest_item, snap, bank, drop_item, gone, made>>

-----------------------------------------------------------------------------
\* The bank

\* handle_bb_bank_action.  The numbers of what is in the bank are new each time it
\* is opened (handle_bb_bank, cleanup_bb_bank): its places stand for them.  An item
\* is out of the inventory before the bank may refuse it.
Deposit(c, i, n) ==
    LET it == inv[c][i]
        left == Less(inv[c], i, n)
    IN  /\ Idle(c)
        /\ n \in 1 .. it.n /\ (it.kind \notin Tool => n = it.n)
        /\ inv' = [inv EXCEPT ![c] = IF IsWornFrame(it) THEN UnitsOff(left) ELSE left]
        /\ IF BankTakes(bank[c])
           THEN /\ bank' = [bank EXCEPT ![c] =
                              Stacked(@, [Unequipped(it) EXCEPT !.n = n, !.id = NoId])]
                /\ UNCHANGED gone
           ELSE gone' = gone \cup {c} /\ UNCHANGED bank
        /\ UNCHANGED <<purses, teamVars, drop_item, floor, drops, made>>

\* What is taken out gets a new number; what the inventory refuses goes back, if
\* the bank takes it.
Withdraw(c, j, n) ==
    LET it == [bank[c][j] EXCEPT !.n = n]
        left == Less(bank[c], j, n)
        new == [it EXCEPT !.id = <<OfTeam, item_id>>]
    IN  /\ Idle(c) /\ HasRoom(c, it.kind) /\ item_id < MaxGiven
        /\ n \in 1 .. bank[c][j].n /\ (it.kind \notin Tool => n = bank[c][j].n)
        /\ item_id' = item_id + 1
        /\ IF Takes(inv[c], new)
           THEN /\ inv' = [inv EXCEPT ![c] = Stacked(@, new)]
                /\ bank' = [bank EXCEPT ![c] = left]
                /\ UNCHANGED gone
           ELSE /\ bank' = [bank EXCEPT ![c] = IF BankTakes(left) THEN Stacked(left, it) ELSE left]
                /\ gone' = gone \cup {c}
                /\ UNCHANGED inv
        /\ UNCHANGED <<purses, seat, highest_item, snap, drop_item, floor, drops, made>>

\* Meseta goes either way, up to what either side may hold.
DepositMeseta(c, n) ==
    /\ Idle(c)
    /\ n \in 1 .. meseta[c] /\ n + banked[c] <= MaxMeseta
    /\ meseta' = [meseta EXCEPT ![c] = @ - n]
    /\ banked' = [banked EXCEPT ![c] = @ + n]
    /\ UNCHANGED <<inv, bank, teamVars, drop_item, floor, gone, drops, made>>

WithdrawMeseta(c, n) ==
    /\ Idle(c)
    /\ n \in 1 .. banked[c] /\ n + meseta[c] <= MaxMeseta
    /\ meseta' = [meseta EXCEPT ![c] = @ + n]
    /\ banked' = [banked EXCEPT ![c] = @ - n]
    /\ UNCHANGED <<inv, bank, teamVars, drop_item, floor, gone, drops, made>>

-----------------------------------------------------------------------------
\* The inventory

\* handle_bb_equip checks nothing; the game puts on one frame, and units into it.
Equip(c, i) ==
    LET worn == \E j \in DOMAIN inv[c] : IsWornFrame(inv[c][j]) IN
    /\ Idle(c)
    /\ inv[c][i].kind \notin Tool
    /\ inv[c][i].kind \in Frame => ~worn
    /\ inv[c][i].kind \in Unit => worn
    /\ inv' = [inv EXCEPT ![c][i].on = TRUE]
    /\ UNCHANGED <<purses, bank, teamVars, drop_item, floor, gone, drops, made>>

\* handle_bb_unequip
Unequip(c, i) ==
    /\ Idle(c) /\ inv[c][i].on
    /\ inv' = [inv EXCEPT ![c] =
                 IF @[i].kind \in Frame THEN UnitsOff([@ EXCEPT ![i].on = FALSE])
                 ELSE [@ EXCEPT ![i].on = FALSE]]
    /\ UNCHANGED <<purses, bank, teamVars, drop_item, floor, gone, drops, made>>

\* handle_bb_medic does not look whether the client can pay; the game does.
Medic(c) ==
    /\ Idle(c) /\ meseta[c] >= Fee
    /\ meseta' = [meseta EXCEPT ![c] = @ - Fee]
    /\ UNCHANGED <<inv, banked, bank, teamVars, drop_item, floor, gone, drops, made>>

\* handle_bb_sort_inv: a list that names every item once.
Sort(c, order) ==
    /\ Idle(c)
    /\ inv' = [inv EXCEPT ![c] = [i \in DOMAIN @ |-> @[order[i]]]]
    /\ UNCHANGED <<purses, bank, teamVars, drop_item, floor, gone, drops, made>>

ItemsNext ==
    \/ \E c \in Player :
        \/ Join(c) \/ Leave(c) \/ DropStack(c) \/ DropMeseta(c) \/ Medic(c)
        \/ \E i \in DOMAIN inv[c] :
              \/ DropItem(c, i) \/ Equip(c, i) \/ Unequip(c, i)
              \/ \E n \in 1 .. inv[c][i].n : DropPos(c, i, n) \/ Deposit(c, i, n)
        \/ \E id \in {floor[i].id : i \in DOMAIN floor} : PickUp(c, id)
        \/ \E j \in DOMAIN bank[c] : \E n \in 1 .. bank[c][j].n : Withdraw(c, j, n)
        \/ \E n \in 1 .. MaxMeseta :
              DropPosMeseta(c, n) \/ DepositMeseta(c, n) \/ WithdrawMeseta(c, n)
        \/ \E order \in Bijection(DOMAIN inv[c], DOMAIN inv[c]) : Sort(c, order)
    \/ ServerDrop

ItemsSpec == ItemsInit /\ [][ItemsNext]_itemsVars

-----------------------------------------------------------------------------
\* Properties

ItemOK(it) == it.kind \in Kind \cup {Blank} /\ it.n \in Nat \ {0} /\ it.on \in BOOLEAN

\* The inventories and the bank stay within their arrays, the meseta within its
\* limit, a client sits in one place, and only members have handlers that failed.
ItemsTypeOK ==
    /\ \A c \in Player :
        /\ Len(inv[c]) <= MaxInv /\ \A i \in DOMAIN inv[c] : ItemOK(inv[c][i])
        /\ Len(bank[c]) <= MaxBank /\ \A i \in DOMAIN bank[c] : ItemOK(bank[c][i])
        /\ meseta[c] \in 0 .. MaxMeseta /\ banked[c] \in 0 .. MaxMeseta
        /\ Cardinality({s \in Slots : seat[s] = c}) <= 1
    /\ seat \in [Slots -> Player \cup {Nobody}]
    /\ gone \subseteq {seat[s] : s \in Slots}
    /\ item_id \in 0 .. MaxGiven /\ highest_item \in [Slots -> -1 .. MaxId]

\* No member carries two items of one number, though a number may be given out
\* twice: join_game counts on from the last one of the slot, which an item on the
\* floor may have, and item_add_to_inv is what keeps the two apart.
InventoryIdsUnique ==
    \A c \in Player : InTeam(c) =>
        \A i, j \in DOMAIN inv[c] : inv[c][i].id = inv[c][j].id => i = j

\* Nothing is doubled: there is never more of a kind, or more meseta, than was brought
\* and dropped by the server, whatever way it takes between inventories, purses, banks
\* and the floor ("Grab the item from the client's inventory and set up the split",
\* handle_bb_drop_stack).
NothingDoubled == \A k \in Kind \cup {Meseta} : InPlay(k) <= made[k]

\* Goods are lost with a connection only: a step after which there is less of a
\* kind has failed the handler of somebody, or ended the team.
LossesEndSomebody ==
    [][(\E k \in Kind : InPlay(k)' < InPlay(k))
         => gone' \ gone # {} \/ \A s \in Slots : seat'[s] = Nobody]_itemsVars

\* Whoever wears a unit wears a frame: a frame that is dropped, banked or taken
\* off takes the units along.
UnitsNeedFrame ==
    \A c \in Player :
        (\E i \in DOMAIN inv[c] : inv[c][i].kind \in Unit /\ inv[c][i].on)
            => \E i \in DOMAIN inv[c] : IsWornFrame(inv[c][i])
=============================================================================
