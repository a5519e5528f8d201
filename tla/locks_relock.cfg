\* A packet held back, with the mutexes the ship is built with.
SPECIFICATION Spec
CONSTANTS
    b1 = b1
    c1 = c1  c2 = c2  c3 = c3
    l1 = l1  l2 = l2
    Block = {b1}
    Ship = ship
    List <- ListOf
    Lobby <- LobbiesOf
    In <- MembersIn
    Relock = "hangs"
    Served = {"held back", "bb drop"}
INVARIANT NobodyWaitsForItself
