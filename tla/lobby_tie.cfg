\* lobby_leader.cfg with joins and departures in one second: somebody leads?
SPECIFICATION Spec
CONSTANTS
    d1 = d1  d2 = d2  g1 = g1
    None = None
    Client = {d1, d2, g1}
    PreGC = {d1, d2}
    Default = {1, 2}
    Team = {32, 33}
    MaxInLobby = 2
    MaxInTeam = 3
    Quest = {}
    Joinable = {}
    MaxQueue = 0
    MaxSecond = 3
    SameSecond = TRUE
INVARIANT LeaderPresent
