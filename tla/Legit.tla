------------------------------- MODULE Legit -------------------------------
(***************************************************************************)
(* Legit mode: a team that was founded in it is closed to items that its   *)
(* list of limits does not allow.  A client asks for the mode in a lobby   *)
(* (/legit, or by an option of its account), its team takes the list over, *)
(* and what members bring in, draw from the bank and find is checked.      *)
(*                                                                         *)
(* Lists are counted references: the ship holds the one it checks with,    *)
(* which a GM may read anew, each client one from the time it has passed,  *)
(* and the team the one it was founded with.                               *)
(*                                                                         *)
(* One team at a time, and the clients that are checked: those of Episode  *)
(* III and Blue Burst pass every check.                                    *)
(***************************************************************************)
EXTENDS Naturals, FiniteSets

CONSTANTS Entrant,      \* the clients
          LoggedIn,     \* those with an account: it may have the option
          LocalGm,
          LateClass,    \* those of a class that PSOv1 does not have
          Goods,        \* sorts of items
          Limits,       \* lists: the first, and those a GM reads
          FirstLimits,
          NoLimits,     \* NULL
          Allows,       \* sylverant_limits_check_item
          MaxRefs       \* bound on the references to a list

ASSUME LegitConstants ==
    /\ IsFiniteSet(Entrant) /\ LoggedIn \subseteq Entrant /\ LocalGm \subseteq LoggedIn /\ LateClass \subseteq Entrant
    /\ FirstLimits \in Limits /\ NoLimits \notin Limits
    /\ Allows \in [Limits -> SUBSET Goods] /\ MaxRefs \in Nat

VARIABLES
    place,          \* "away", "lobby" or "team"
    carries,        \* what a character has
    pl,             \* and what it had when the server was last told
    legit,          \* CLIENT_FLAG_LEGIT
    always_legit,   \* CLIENT_FLAG_ALWAYS_LEGIT
    override,       \* CLIENT_FLAG_OVERRIDE_GAME
    limits,         \* c->limits
    given_back,     \* clients whose c->limits has been released already
    chief,          \* the team's leader,
    legit_mode,     \* LOBBY_FLAG_LEGIT_MODE,
    limits_list,
    v1_team,
    lying,          \* what lies about in it,
    let_in,         \* and what a GM has brought in
    def_limits,
    refs,
    read,           \* the lists there have been
    overdrawn       \* a list has been released once too often

legitOfTeam == <<chief, legit_mode, limits_list, v1_team, lying, let_in>>
legitFlags == <<legit, always_legit, override>>
legitRefs == <<limits, given_back, refs, overdrawn>>
legitShip == <<def_limits, read>>
legitVars == <<place, carries, pl, legitFlags, legitOfTeam, legitRefs, legitShip>>

In == {c \in Entrant : place[c] = "team"}
Passes(c, list) == pl[c] \subseteq Allows[list]

Retained(list) == [refs EXCEPT ![list] = @ + 1]
Released(counts, list) ==
    [x \in Limits |-> IF x = list /\ counts[x] > 0 THEN counts[x] - 1 ELSE counts[x]]

-----------------------------------------------------------------------------
(* Asking for it.                                                          *)

LegitConnect(c) ==
    /\ place[c] = "away"
    /\ place' = [place EXCEPT ![c] = "lobby"]
    /\ pl' = [pl EXCEPT ![c] = carries[c]]
    /\ UNCHANGED <<carries, legitFlags, legitOfTeam, legitRefs, legitShip>>

\* A client that has a list already keeps its reference to it for good.
Grant(c) ==
    /\ refs[def_limits] < MaxRefs
    /\ legit' = legit \cup {c}
    /\ limits' = [limits EXCEPT ![c] = def_limits]
    /\ refs' = Retained(def_limits)
    /\ given_back' = given_back \ {c}

LegitCommand(c) ==
    /\ place[c] = "lobby" /\ def_limits # NoLimits /\ Passes(c, def_limits)
    /\ Grant(c)
    /\ UNCHANGED <<place, carries, pl, always_legit, override, legitOfTeam, overdrawn, legitShip>>

LegitOff(c) ==
    /\ place[c] = "lobby"
    /\ legit' = legit \ {c}
    /\ UNCHANGED <<place, carries, pl, always_legit, override, legitOfTeam, legitRefs, legitShip>>

\* The account's option arrives when the client is already in a lobby.
LegitOption(c) ==
    /\ c \in LoggedIn /\ place[c] # "away"
    /\ always_legit' = always_legit \cup {c}
    /\ UNCHANGED <<place, carries, pl, legit, override, legitOfTeam, legitRefs, legitShip>>

AlwaysCheck(c) ==
    IF def_limits # NoLimits /\ Passes(c, def_limits)
    THEN Grant(c) /\ always_legit' = always_legit \cup {c}
    ELSE always_legit' = always_legit \ {c} /\ UNCHANGED <<legit, limits, refs, given_back>>

\* Whoever has the option is checked when a ping is answered, in a team also, and also
\* against what the client had when it came there.
LegitPing(c) ==
    /\ place[c] # "away" /\ c \in always_legit \ legit
    /\ AlwaysCheck(c)
    /\ UNCHANGED <<place, carries, pl, override, legitOfTeam, overdrawn, legitShip>>

AutoLegit(c) ==
    /\ c \in LoggedIn /\ place[c] # "away"
    /\ AlwaysCheck(c)
    /\ UNCHANGED <<place, carries, pl, override, legitOfTeam, overdrawn, legitShip>>

AutoLegitOff(c) ==
    /\ c \in LoggedIn /\ place[c] # "away"
    /\ always_legit' = always_legit \ {c}
    /\ UNCHANGED <<place, carries, pl, legit, override, legitOfTeam, legitRefs, legitShip>>

Override(c) ==
    /\ c \in LocalGm /\ place[c] = "lobby"
    /\ override' = override \cup {c}
    /\ UNCHANGED <<place, carries, pl, legit, always_legit, legitOfTeam, legitRefs, legitShip>>

-----------------------------------------------------------------------------
(* Founding, joining and leaving a team.                                   *)

\* lobby_check_client_legit, and what an override lets in.
MayEnter(c, mode, list) == (mode /\ list # NoLimits) => c \in override \/ Passes(c, list)
Brought(c, mode, list) ==
    IF mode /\ c \in override THEN carries[c] \ Allows[list] ELSE {}

Steals(c) == c \in legit /\ limits[c] # NoLimits
Enter(c) == place' = [place EXCEPT ![c] = "team"] /\ override' = override \ {c}

\* The team takes the client's reference over ...
FoundTeam(c) ==
    /\ place[c] = "lobby" /\ In = {}
    /\ MayEnter(c, Steals(c), limits[c])
    /\ v1_team' \in BOOLEAN /\ ~(v1_team' /\ c \in LateClass)
    /\ Enter(c)
    /\ chief' = c /\ legit_mode' = Steals(c) /\ lying' = {}
    /\ limits_list' = IF Steals(c) THEN limits[c] ELSE NoLimits
    /\ let_in' = Brought(c, Steals(c), limits[c])
    /\ legit' = legit \ {c}
    /\ limits' = [limits EXCEPT ![c] = IF Steals(c) THEN NoLimits ELSE @]
    /\ UNCHANGED <<carries, pl, always_legit, given_back, refs, overdrawn, legitShip>>

\* ... and lets it go with the team when that cannot be set up or entered.
FoundingFails(c) ==
    /\ place[c] = "lobby" /\ Steals(c)
    /\ legit' = legit \ {c} /\ override' \in {override, override \ {c}}
    /\ limits' = [limits EXCEPT ![c] = NoLimits]
    /\ refs' = Released(refs, limits[c])
    /\ UNCHANGED <<place, carries, pl, always_legit, given_back, overdrawn, legitOfTeam, legitShip>>

\* The end of join_game: the flag goes, and the reference with it, but c->limits stays.
GiveBack(c) ==
    /\ legit' = legit \ {c}
    /\ refs' = IF Steals(c) THEN Released(refs, limits[c]) ELSE refs
    /\ given_back' = IF Steals(c) THEN given_back \cup {c} ELSE given_back

ClassRefused(c) == v1_team /\ c \in LateClass

JoinLegitTeam(c) ==
    /\ place[c] = "lobby" /\ In # {} /\ ~ClassRefused(c)
    /\ MayEnter(c, legit_mode, limits_list)
    /\ Enter(c) /\ GiveBack(c)
    /\ let_in' = let_in \cup Brought(c, legit_mode, limits_list)
    /\ UNCHANGED <<carries, pl, always_legit, limits, chief, legit_mode, limits_list, v1_team, lying,
                   overdrawn, legitShip>>

\* A class that may not join passes for one that has.
ClassIsRefused(c) ==
    /\ place[c] = "lobby" /\ In # {} /\ ClassRefused(c)
    /\ GiveBack(c) /\ override' = override \ {c}
    /\ UNCHANGED <<place, carries, pl, always_legit, limits, legitOfTeam, overdrawn, legitShip>>

\* The team without a client.  Any other member may be its leader then; the last one out
\* ends it, and counts is what the references come to.
TeamWithout(c, counts) ==
    IF In = {c}
    THEN /\ refs' = Released(counts, limits_list)
         /\ legit_mode' = FALSE /\ limits_list' = NoLimits
         /\ lying' = {} /\ let_in' = {} /\ UNCHANGED <<chief, v1_team>>
    ELSE /\ refs' = counts
         /\ IF c = chief THEN chief' \in In \ {c} ELSE chief' = chief
         /\ UNCHANGED <<legit_mode, limits_list, v1_team, lying, let_in>>

\* 0x98 brings the character as it is.
LeaveTeam_OldData(c) ==
    /\ place[c] = "team"
    /\ place' = [place EXCEPT ![c] = "lobby"]
    /\ legit' = legit \ {c}
    /\ TeamWithout(c, refs)
    /\ UNCHANGED <<pl, carries, always_legit, override, limits, given_back, overdrawn, legitShip>>
LeaveTeam(c) ==
    /\ place[c] = "team"
    /\ place' = [place EXCEPT ![c] = "lobby"]
    /\ pl' = [pl EXCEPT ![c] = carries[c]]
    /\ legit' = legit \ {c}
    /\ TeamWithout(c, refs)
    /\ UNCHANGED <<carries, always_legit, override, limits, given_back, overdrawn, legitShip>>

\* A client goes; it releases its list, a second time if it has given it back.
Gone(c) ==
    /\ place' = [place EXCEPT ![c] = "away"]
    /\ legit' = legit \ {c} /\ always_legit' = always_legit \ {c} /\ override' = override \ {c}
    /\ limits' = [limits EXCEPT ![c] = NoLimits]
    /\ given_back' = given_back \ {c}
    /\ overdrawn' = (overdrawn \/ c \in given_back)
    /\ IF place[c] = "team" THEN TeamWithout(c, Released(refs, limits[c]))
       ELSE refs' = Released(refs, limits[c]) /\ UNCHANGED legitOfTeam

LegitDisconnect(c) ==
    /\ place[c] # "away" /\ Gone(c)
    /\ UNCHANGED <<carries, pl, legitShip>>

-----------------------------------------------------------------------------
(* What gets into it.                                                      *)

Allowed(g) == legit_mode /\ limits_list # NoLimits => g \in Allows[limits_list]
Gets(c, g) == carries' = [carries EXCEPT ![c] = @ \cup {g}]

\* handle_take_item: what may not be taken out of the bank ends the connection.
TakeItem(c, g) ==
    /\ place[c] = "team"
    /\ \/ /\ Allowed(g) /\ Gets(c, g)
          /\ UNCHANGED <<place, legitFlags, legitOfTeam, legitRefs>>
       \/ ~Allowed(g) /\ Gone(c) /\ UNCHANGED carries
    /\ UNCHANGED <<pl, legitShip>>

\* handle_itemdrop: the leader's game drops something, and everybody is told to destroy it
\* if it may not be.
Lies(g) ==
    /\ lying' = lying \cup {g}
    /\ UNCHANGED <<place, carries, pl, legitFlags, chief, legit_mode, limits_list, v1_team, let_in,
                   legitRefs, legitShip>>
ItemDrop(c, g) == place[c] = "team" /\ c = chief /\ Allowed(g) /\ Lies(g)

\* check_and_send asks the list of a team that has left the mode, too.
ServerItem(g) ==
    /\ In # {} /\ (limits_list # NoLimits => g \in Allows[limits_list])
    /\ Lies(g)

\* handle_makeitem checks nothing.
MakeItem(c, g) ==
    /\ c \in LocalGm /\ place[c] = "team"
    /\ lying' = lying \cup {g} /\ let_in' = let_in \cup {g}
    /\ UNCHANGED <<place, carries, pl, legitFlags, chief, legit_mode, limits_list, v1_team,
                   legitRefs, legitShip>>

LayDown(c, g) ==
    /\ place[c] = "team" /\ g \in carries[c]
    /\ carries' = [carries EXCEPT ![c] = @ \ {g}]
    /\ lying' = lying \cup {g}
    /\ UNCHANGED <<place, pl, legitFlags, chief, legit_mode, limits_list, v1_team, let_in,
                   legitRefs, legitShip>>

TakeUp(c, g) ==
    /\ place[c] = "team" /\ g \in lying
    /\ Gets(c, g) /\ lying' = lying \ {g}
    /\ UNCHANGED <<place, pl, legitFlags, chief, legit_mode, limits_list, v1_team, let_in,
                   legitRefs, legitShip>>

LeaveMode(c) ==
    /\ place[c] = "team" /\ c = chief /\ legit_mode
    /\ legit_mode' = FALSE
    /\ UNCHANGED <<place, carries, pl, legitFlags, chief, limits_list, v1_team, lying, let_in,
                   legitRefs, legitShip>>

\* refresh_limits, after which the ship checks with the list that says "enforce", or with
\* none.
RefreshLimits(c) ==
    /\ c \in LocalGm /\ place[c] # "away"
    /\ \E list \in Limits \ read, enforced \in BOOLEAN :
        /\ read' = read \cup {list}
        /\ def_limits' = IF enforced THEN list ELSE NoLimits
        /\ refs' = [Released(refs, def_limits) EXCEPT ![list] = IF enforced THEN 1 ELSE 0]
    /\ UNCHANGED <<place, carries, pl, legitFlags, legitOfTeam, limits, given_back, overdrawn>>

LegitInit ==
    /\ place = [c \in Entrant |-> "away"]
    /\ carries \in [Entrant -> SUBSET Goods]
    /\ pl = [c \in Entrant |-> {}] /\ limits = [c \in Entrant |-> NoLimits]
    /\ legit = {} /\ always_legit = {} /\ override = {} /\ given_back = {}
    /\ chief \in Entrant /\ legit_mode = FALSE /\ limits_list = NoLimits
    /\ v1_team = FALSE /\ lying = {} /\ let_in = {}
    /\ def_limits = FirstLimits /\ read = {FirstLimits} /\ overdrawn = FALSE
    /\ refs = [x \in Limits |-> IF x = FirstLimits THEN 1 ELSE 0]

\* What the ship does once a list was released too often is anybody's guess: that memory
\* may be used for something else.
LegitNext ==
    /\ ~overdrawn
    /\ \/ \E c \in Entrant :
            \/ LegitConnect(c) \/ LegitCommand(c) \/ LegitOff(c) \/ LegitOption(c)
            \/ LegitPing(c) \/ AutoLegit(c) \/ AutoLegitOff(c) \/ Override(c)
            \/ FoundTeam(c) \/ FoundingFails(c) \/ JoinLegitTeam(c) \/ ClassIsRefused(c)
            \/ LeaveTeam(c) \/ LegitDisconnect(c) \/ LeaveMode(c) \/ RefreshLimits(c)
            \/ \E g \in Goods :
                \/ TakeItem(c, g) \/ ItemDrop(c, g) \/ MakeItem(c, g)
                \/ LayDown(c, g) \/ TakeUp(c, g)
       \/ \E g \in Goods : ServerItem(g)

LegitSpec == LegitInit /\ [][LegitNext]_legitVars

-----------------------------------------------------------------------------
(* Properties.                                                             *)

LegitTypeOK ==
    /\ place \in [Entrant -> {"away", "lobby", "team"}]
    /\ carries \in [Entrant -> SUBSET Goods] /\ pl \in [Entrant -> SUBSET Goods]
    /\ legit \subseteq Entrant /\ always_legit \subseteq Entrant /\ override \subseteq LocalGm
    /\ limits \in [Entrant -> Limits \cup {NoLimits}] /\ given_back \subseteq Entrant
    /\ chief \in Entrant /\ (In # {} => chief \in In)
    /\ legit_mode \in BOOLEAN /\ limits_list \in Limits \cup {NoLimits}
    /\ v1_team \in BOOLEAN /\ lying \subseteq Goods /\ let_in \subseteq Goods
    /\ def_limits \in Limits \cup {NoLimits} /\ read \subseteq Limits
    /\ refs \in [Limits -> Nat] /\ overdrawn \in BOOLEAN

\* As long as a team is in legit mode nothing is in it that its list does not allow, in
\* nobody's hands and nowhere on the floor, but what a GM has brought in; whatever lists
\* are read meanwhile, and whoever asked for the mode when.
LegitTeamsStayLegit ==
    legit_mode =>
        lying \cup UNION {carries[c] : c \in In} \subseteq Allows[limits_list] \cup let_in

\* The ship, the team and the clients have a reference each to the list they use, so that
\* it is there when they do: as long as nobody has left that had entered another's team in
\* legit mode, and released its list then already.
LimitsLive ==
    ~overdrawn => \A x \in Limits :
        refs[x] >= Cardinality({c \in Entrant \ given_back : limits[c] = x})
                   + Cardinality({y \in {def_limits} : y = x})
                   + Cardinality({y \in {limits_list} : y = x})

\* A legit team stays legit, by lists that are there.  (handle_legit, join_game,
\* handle_take_item, handle_itemdrop, refresh_limits.)
LegitHolds == LegitTeamsStayLegit /\ LimitsLive
=============================================================================
