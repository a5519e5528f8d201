\* The block and the ship's thread, every handler but those that show up below; the
\* connection to the shipgate; the menu of ships; the bans, with two commands or sweeps at
\* a time, a player that comes, goes and chooses blocks, and the end of the ship.
SPECIFICATION ServerSpec
CONSTANTS
    Parts = {"locks", "gate", "menu", "bans"}
    b1 = b1
    c1 = c1  c2 = c2  c3 = c3
    l1 = l1  l2 = l2
    Block = {b1}
    Ship = ship
    List <- ListOf
    Lobby <- LobbiesOf
    In <- MembersIn
    Relock = "fails"
    Served = {"packet", "held back", "bb drop", "game list", "leave", "search", "move", "character", "accept", "clean up", "reply", "script"}
    p1 = p1  p2 = p2
    Player = {p1, p2}
    Blue = {p2}
    BlockNo = {1, 2}
    MaxComing = 1
    ShipInfo <- SomeShips
    OwnShip <- ThisShip
    Unspelt = {90}
    Viewer <- SomeViewers
    card1 = card1  addr1 = addr1  addr2 = addr2
    BanThread = {gm, sweeper}
    Card = {card1}
    Address = {addr1, addr2}
    Visitor = {p1}
    CardOf <- SomeCards
    AddressOf <- SomeAddresses
    Caught <- SomeCaught
    Closed = {"dcnte", "pcnte"}
    Length = {1}
    MaxNow = 2
    MaxBans = 2
SYMMETRY BanSymmetry
INVARIANTS
    Unstuck
    NothingKept
    ServerTypesOK
    GateMissesNobody
    CharacterFirst
    MenusLead
    BansHold
