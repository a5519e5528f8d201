\* Two clients of a team: their items, what enemies and boxes drop, and their kills.
\* A team may empty for good, with nobody able to take another step.
SPECIFICATION TeamSpec
CONSTANTS
    list1 = list1  list2 = list2
    Entrant = {p1, p2}  LoggedIn = {p1}  LocalGm = {p1}
    LateClass = {p2}  Goods = {"odd"}
    Limits = {list1, list2}  FirstLimits = list1  NoLimits = none
    Allows <- SomeAllows  MaxRefs = 2
    w1 = w1  w2 = w2  w3 = w3
    Guest = {w1, w2, w3}  Vacant = vacant  Hall = {hall}  Party = {party}  OneFirst = {party}
    Seat = {0, 1, 2}  Nowhere = nowhere  Speaks <- SomeVersions
    p1 = p1  p2 = p2
    Player = {p1, p2}
    Kind = {"tool", "frame", "unit"}
    Tool = {"tool"}  Frame = {"frame"}  Unit = {"unit"}
    Meseta = "meseta"  Nobody = nobody  Blank = "blank"
    Start <- Starts
    MaxInv = 2  MaxBank = 1  MaxMeseta = 2  Fee = 1
    Splits = "kept"  MaxId = 1  MaxGiven = 1
    Asker = {p1, p2}
    Enemy = {"e"}  Box = {"b1", "b2"}
    FixedItem <- BoxItems  FixedKind <- BoxKinds
    Setup <- Teams  Quests <- SomeQuests
    ShipRares = TRUE  ShipSemis = FALSE  Sides = 3  Areas = {0, 15}
    PT <- PTTables  RT <- RTItems  Unsure = TRUE  PMT <- PMTStars  PlusMinus = {}
    Illegal <- NotLegit
    Fighter = {p1, p2}  Empty = nobody  Spots = 2
    Foe = {"e"}  Crate = {"b1"}  Versions = {"v2", "bb"}
    FoeExp = 2  LevelExp <- Levels  MaxQuests = 1  MaxExp = 4
INVARIANTS
    TeamTypesOK
    InventoryIdsUnique
    NothingDoubled
    UnitsNeedFrame
    AnswersOnce
    KillsCountedOnce
    ExpOnce
    LevelMatchesExp
    PictureTrue
    LegitHolds
PROPERTIES
    LossesEndSomebody
    QuestKept
CHECK_DEADLOCK FALSE
