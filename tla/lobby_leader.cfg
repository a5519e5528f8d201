\* Membership and leadership: three clients of two kinds, no quests, no packets;
\* nobody leaves a lobby in the second in which somebody joined it.
SPECIFICATION Spec
CONSTANTS
    d1 = d1  d2 = d2  g1 = g1
    None = None
    Client = {d1, d2, g1}
    PreGC = {d1, d2}
    Default = {1, 2}
    Team = {32, 33}
    MaxInLobby = 2
    MaxInTeam = 3
    Quest = {}
    Joinable = {}
    MaxQueue = 0
    MaxSecond = 3
    SameSecond = FALSE
SYMMETRY Interchangeable
INVARIANTS
    TypeOK
    MembershipAgrees
    TeamsAccounted
    LeaderPresent
    GamecubeTeams
PROPERTIES
    LeaderStable
    SeniorSucceeds
