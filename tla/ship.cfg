\* Quest calls, quest lists and talk.
SPECIFICATION ShipSpec
CONSTANTS
    m1 = m1  m2 = m2  v1 = v1  v2 = v2  t1 = t1  t2 = t2  t3 = t3
    Member = {m1, m2}  None = none
    Places = 2  MaxReg = 3  MaxFlag = 4  MaxShort = 5  MaxQ = 6  MaxAsked = 2  Everyone <- All
    Quest <- SomeQuests  ScriptFunction <- TeamScripts
    Visitor = {v1, v2}  Nobody = nobody
    Lang = {"E", "J"}  English = "E"
    Collection <- SomeBooks  QuestTeam <- SomeTeams  Persons <- SomePersons  Script <- Says
    Talker = {t1, t2, t3}  FarTalker = {t3}  Clienteles <- SomeClienteles
    NoOne = noone  IgnoreSlot = {0}  MaxBlacklist = 1  MaxPost = 1
INVARIANTS
    ShipTypesOK
    LockAwaitsAnswer
    UpdatesReachMembers
    CountsFollow
    HeardIsWelcome
PROPERTIES
    CallsAreWhole
    AnswerInItsRegister
    LockEnds
    ListedQuestReachesAll
CHECK_DEADLOCK FALSE
