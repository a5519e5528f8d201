\* Is the source of a packet held back still in the team when it is handled?
SPECIFICATION Spec
CONSTANTS
    g1 = g1  g2 = g2  g3 = g3
    None = None
    q1 = q1  q2 = q2
    Client = {g1, g2, g3}
    PreGC = {}
    Default = {1}
    Team = {32}
    MaxInLobby = 3
    MaxInTeam = 3
    Quest = {q1, q2}
    Joinable = {q1}
    MaxQueue = 1
    MaxSecond = 0
    SameSecond = TRUE
INVARIANT QueuedSourcesStay
