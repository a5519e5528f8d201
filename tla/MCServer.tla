------------------------------ MODULE MCServer ------------------------------
(***************************************************************************)
(* For TLC: the locks of a block (MCBlockLocks.tla), the connection to the *)
(* shipgate (Gate.tla), the menu of ships (ShipMenu.tla) and the bans      *)
(* (Bans.tla).  They have no variable in common, and a behaviour is one of *)
(* the part it has chosen at the start.                                    *)
(***************************************************************************)
EXTENDS MCBlockLocks, Gate, ShipMenu, Bans

CONSTANTS p1, p2, card1, addr1, addr2,
          Parts         \* those to choose from

VARIABLE part

serverVars == <<part, vars, gateVars, menuVars, bansVars>>

\* ShipMenu: this ship, and two others that may have each other's numbers and codes, one
\* of the codes no two letters.
AShip(id, number, code, closed, gmonly, privs) ==
    [id |-> id, number |-> number, code |-> code, closed |-> closed, gmonly |-> gmonly, privs |-> privs]
ThisShip == AShip(1, 2, 20, {}, FALSE, {})
SomeShips ==
    {ThisShip} \cup
    UNION {{AShip(id, n, code, {}, FALSE, {}), AShip(id, n, code, {"dc"}, FALSE, {}),
            AShip(id, n, code, {"pcnte"}, FALSE, {}), AShip(id, n, code, {}, TRUE, {}),
            AShip(id, n, code, {}, FALSE, {"p"})}
           : id \in {2, 3}, n \in {1, 3}, code \in {0, 20, 30}}
    \cup {AShip(2, 1, 90, {}, FALSE, {})}
SomeViewers ==
    [nte : BOOLEAN, dc : BOOLEAN, gm : BOOLEAN, privs : {{}, {"p"}}, loggedIn : BOOLEAN]

\* Bans: a ban of the second address, once exchanged with its netmask, covers both.
SomeCards == p1 :> card1
SomeAddresses == p1 :> addr1
SomeCaught == (addr1 :> {addr1}) @@ (addr2 :> {addr1, addr2})

\* The threads that change the bans are alike.
BanSymmetry == Permutations(BanThread)

ServerInit ==
    /\ part \in Parts
    /\ Init /\ GateInit /\ MenuInit /\ BansInit

ServerNext ==
    \/ part = "locks" /\ Next /\ UNCHANGED <<part, gateVars, menuVars, bansVars>>
    \/ part = "gate" /\ GateNext /\ UNCHANGED <<part, vars, menuVars, bansVars>>
    \/ part = "menu" /\ MenuNext /\ UNCHANGED <<part, vars, gateVars, bansVars>>
    \/ part = "bans" /\ BansNext /\ UNCHANGED <<part, vars, gateVars, menuVars>>
    \/ part = "gate" /\ ~run /\ UNCHANGED serverVars        \* the ship has ended
ServerSpec == ServerInit /\ [][ServerNext]_serverVars

\* The type invariants.
ServerTypesOK == GateTypeOK /\ ShipMenuSound /\ BansTypeOK
=============================================================================
