------------------------------ MODULE ShipMenu ------------------------------
(***************************************************************************)
(* The ships the shipgate has told this ship of, the menu codes they are   *)
(* filed under, and the menu a player chooses from (shipgate.c, ship.c,    *)
(* ship_packets.c).                                                        *)
(*                                                                         *)
(* The two lists are kept apart: a reconnection empties the one and leaves *)
(* the other, a ship that changes its code leaves the old code behind, and *)
(* a code goes when the last ship filed under it does.  What is told of a  *)
(* submenu before it is opened is worked out by another function than the  *)
(* one that fills it.                                                      *)
(***************************************************************************)
EXTENDS Naturals, Sequences, SequencesExt, Functions

CONSTANTS ShipInfo,     \* what the shipgate may say of a ship, this one's own included
          OwnShip,      \* what it says of this one
          Unspelt,      \* the codes that are not two letters, which are never shown
          Viewer        \* the players who look: platform, privileges, logged in or not

ASSUME ShipMenuAssumption ==
    /\ OwnShip \in ShipInfo
    /\ \A s \in ShipInfo : s.id \in Nat \ {0} /\ s.number \in Nat /\ s.code \in Nat

VARIABLES ships,        \* ship_t.ships
          codes         \* ship_t.menu_codes
menuVars == <<ships, codes>>

ShipIds == {ships[i].id : i \in DOMAIN ships}

\* 0 is the main menu.
Spelt(code) == code \notin Unspelt

-----------------------------------------------------------------------------
(* The lists.                                                              *)

\* menu_code_exists, the search by halves with its bounds counted from 0.
CodeExists_Off(list, code) ==
    LET n == Len(list)
        Find[p \in (0 .. n) \X (0 .. n)] ==
            IF p[1] >= p[2] THEN p[1]
            ELSE LET k == p[1] + (p[2] - p[1]) \div 2
                 IN IF list[k + 1] <= code THEN Find[<<k + 1, p[2]>>] ELSE Find[<<p[1], k>>]
        at == Find[<<0, n>>]
    IN at < n /\ list[at + 1] = code

CodeExists(list, code) ==
    LET n == Len(list)
        Find[p \in (0 .. n) \X (0 .. n)] ==
            IF p[1] >= p[2] THEN p[1]
            ELSE LET k == p[1] + (p[2] - p[1]) \div 2
                 IN IF list[k + 1] < code THEN Find[<<k + 1, p[2]>>] ELSE Find[<<p[1], k>>]
        at == Find[<<0, n>>]
    IN at < n /\ list[at + 1] = code

\* menu_code_sort
MenuCodeSort(list) ==
    CHOOSE s \in {[i \in DOMAIN list |-> list[p[i]]] : p \in Bijection(DOMAIN list, DOMAIN list)} :
        \A i, j \in DOMAIN list : i < j => s[i] <= s[j]

\* Those of a list that pass, in their order.
Those(list, Passes(_)) ==
    FlattenSeq([i \in DOMAIN list |-> IF Passes(list[i]) THEN <<list[i]>> ELSE <<>>])

Without(id) == Those(ships, LAMBDA s : s.id # id)

\* Before the first ship whose number is not smaller.
Placed(list, s) ==
    LET before == {i \in 0 .. Len(list) : \A j \in 1 .. i : list[j].number < s.number}
    IN InsertAt(list, 1 + (CHOOSE i \in before : \A j \in before : j <= i), s)

\* handle_sstatus: a ship comes, or says something new of itself.
ShipUp(s) ==
    /\ OwnShip.id \in ShipIds \/ s = OwnShip
    /\ s.id = OwnShip.id => s = OwnShip
    /\ codes' = IF CodeExists(codes, s.code) THEN codes ELSE MenuCodeSort(Append(codes, s.code))
    /\ ships' = Placed(Without(s.id), s)

\* A ship goes, and its code with it unless another ship is filed under it.
InUse(code, left) == \E i \in DOMAIN left : left[i].code = code

ShipDown(id) ==
    /\ id \in ShipIds \ {OwnShip.id}
    /\ ships' = Without(id)
    /\ LET gone == CHOOSE s \in ToSet(ships) : s.id = id
       IN codes' = IF InUse(gone.code, Without(id)) THEN codes
                   ELSE Those(codes, LAMBDA k : k # gone.code)

\* shipgate_conn: the ships are forgotten, their codes are not.
ForgetShips ==
    /\ ships # <<>> /\ ships' = <<>>
    /\ UNCHANGED codes

-----------------------------------------------------------------------------
(* The menus.  A viewer is [nte, dc, gm, privs, loggedIn]; a ship refuses  *)
(* the platforms in closed ("dcnte", "pcnte", "dc", "pc"), those without   *)
(* all of its privs, and, if gmonly, those who are no GMs.                 *)

GlobalGM(v) == v.gm /\ v.loggedIn
Platform(v) == IF v.nte THEN IF v.dc THEN "dcnte" ELSE "pcnte"
               ELSE IF v.dc THEN "dc" ELSE "pc"

\* is_ship_menu_empty
SeenBehind_NoPrivileges(v, s) ==
    /\ s.gmonly => GlobalGM(v)
    /\ Platform(v) \notin s.closed
SeenBehind(v, s) ==
    /\ s.gmonly => GlobalGM(v)
    /\ Platform(v) \notin s.closed
    /\ s.privs \subseteq v.privs \/ GlobalGM(v)
IsShipMenuEmpty(v, code) ==
    \A i \in DOMAIN ships : ships[i].code = code => ~SeenBehind(v, ships[i])

\* send_dc_ship_list: the NTE is also refused where version 1 is.
ListedDC(v, s) ==
    /\ s.gmonly => v.gm
    /\ IF v.nte THEN "dcnte" \notin s.closed
       ELSE s.privs \subseteq v.privs \/ GlobalGM(v)
    /\ "dc" \notin s.closed

\* send_pc_ship_list: the NTE's privileges are not asked for.
ListedPC(v, s) ==
    /\ s.gmonly => v.gm
    /\ IF v.nte THEN "pcnte" \notin s.closed
       ELSE "pc" \notin s.closed /\ (s.privs \subseteq v.privs \/ GlobalGM(v))

\* send_ship_list: the ships filed under the code, then the other codes.
ShipList(v, code) ==
    Those(ships, LAMBDA s : s.code = code /\ IF v.dc THEN ListedDC(v, s) ELSE ListedPC(v, s))
CodeList(v, code) ==
    Those(codes, LAMBDA k : k # code /\ Spelt(k) /\ ~IsShipMenuEmpty(v, k))

MenuInit == ships = <<>> /\ codes = <<>>
MenuNext ==
    \/ \E s \in ShipInfo : ShipUp(s)
    \/ \E id \in ShipIds : ShipDown(id)
    \/ ForgetShips
MenuSpec == MenuInit /\ [][MenuNext]_menuVars

-----------------------------------------------------------------------------
(* Properties.                                                             *)

AllCodes == {s.code : s \in ShipInfo}

\* The search by halves needs the codes in order and once each, and the menu needs every
\* ship's code among them, through reconnections and changes of code that leave codes
\* behind; the ships are in the order of their numbers, each once.
ShipMenuSound ==
    /\ ships \in Seq(ShipInfo) /\ codes \in Seq(AllCodes)
    /\ \A i, j \in DOMAIN codes : i < j => codes[i] < codes[j]
    /\ \A i \in DOMAIN ships : ships[i].code \in ToSet(codes)
    /\ \A i, j \in DOMAIN ships : i < j =>
        ships[i].id # ships[j].id /\ ships[i].number <= ships[j].number

\* A submenu that is offered leads to a ship ("If we get here, then we found a ship the
\* user can see, so the menu isn't empty"), and every ship is behind a menu that is
\* offered to whoever may see it.  The Dreamcast NTE is left out: ships closed to version
\* 1 are counted and then not listed.
MenusLead ==
    \A v \in Viewer : ~(v.nte /\ v.dc) =>
        \A code \in ToSet(codes) :
            /\ \A k \in ToSet(CodeList(v, code)) : ShipList(v, k) # <<>>
            /\ \A i \in DOMAIN ships :
                SeenBehind(v, ships[i]) /\ ships[i].code # code /\ Spelt(ships[i].code) =>
                    ships[i].code \in ToSet(CodeList(v, code))
=============================================================================
