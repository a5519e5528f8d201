# The Sylverant ship server in TLA+

A specification of `ship_server`, the game server of the Sylverant project: what
its blocks do with clients, lobbies and teams, checked with TLC on small
instances, and most of its safety properties proved for every size with TLAPS,
among them that the detailed model of a block implements the abstract one.
Around the blocks it models the items, drops, kills and
quest calls of a team, what players are shown and told, and the ship's dealings
with the shipgate. Source files are named as in `src/src/`.

## 1. The system

A *ship* is one process. Its clients are game consoles and PCs of several
versions (Dreamcast V1/V2, PC, Gamecube, Episode 3, Xbox, Blue Burst). A client
first meets the ship's own thread, chooses a *block*, and connects to it; each
block is a thread of its own with default *lobbies*, where players meet, and
*teams* (games), which players create and leave. The *shipgate* is a remote
service the ship talks to over one connection.

| component | state | operations | talks to |
|---|---|---|---|
| lobbies and teams (`lobby.c`) | slots, `num_clients`, `leader_id`, flags, `pkt_queue`, `burst_queue`, quest registers | create, destroy, add, remove, change lobby, elect a leader, start a quest, hold packets back | block handlers, subcommands |
| block server (`block.c`) | clients, lobbies, `num_games`, sockets | `block_thd`; some 60 packet handlers; start, stop | everything else |
| clients (`clients.c`) | `cur_lobby`, `client_id`, `join_time`, flags, buffers, limits | connect, read packets, destroy | block and ship threads |
| game subcommands (`subcmd.c`, `subcmd-dcnte.c`) | items, positions, registers, monsters | one handler per 0x60/0x62/0x6D subcommand | lobbies |
| chat commands (`commands.c`) | flags of clients and teams | some 90 `/` commands | lobbies, bans, shipgate |
| outgoing packets (`ship_packets.c`) | send buffers | one function per packet, per version | clients |
| shipgate connection (`shipgate.c`) | the connection, its buffers | login, and a handler per packet | all clients of all blocks |
| ship server (`ship.c`) | blocks, client and game counts, event, limits | `ship_thd`, start, stop | blocks, shipgate |
| bans (`bans.c`) | the lists of guild cards and addresses, the file | ban, lift, sweep, write, read; questions at login | ship and blocks |
| administration (`admin.c`, `gm.c`) | GM list, limits | kick, global ban, refresh, shutdown | clients, shipgate |
| quests and quest functions (`quests.c`, `quest_functions.c`) | quest map and lists; calls through registers | lookup, call, reply | lobbies, shipgate |
| scripts (`scripts.c`) | event table, the mutex of the interpreter | add, remove, execute | everything, through Lua |
| items and drops (`items.c`, `ptdata.c`, `pmtdata.c`, `rtdata.c`) | inventories; tables read at start | generate, take, give, stack | subcommands |
| maps (`mapdata.c`) | enemies and boxes of a team | copy for a team or a quest | subcommands, drops |
| word select and filter (`word_select.c`, `smutdata.c`) | tables | translate, censor | subcommands |
| player data, start-up (`player.h`, `ship_server.c`, ...) | layouts; the process | process start | |

### What is hard here

- *Interleaving of clients.* Handlers of one block run one after the other, but
  protocols take several packets (leave a team, then ask for a lobby; open the
  quest counter, then choose; join, load, report, answer a ping), and a client
  may vanish between any two of them.
- *State kept twice.* Who is where is in the client and in the lobby; a burst is a
  flag of each; the number of members decides on the life of a team.
- *Held back packets* carry a pointer to a sender who may be gone by delivery.
- *Locks.* Block threads, and the ship's, take five kinds of lock in nested order (the
  mutex of the scripts included).
- *Timing.* Leaders are elected by `time(NULL)`, in whole seconds.
- *The shipgate* may be lost at any time. What is sent meanwhile is dropped without
  an error, and answers come back to clients found by guild card, not by question.
- *One thing told in several ways.* Six generators of drops, some ten routes of
  talk, two lookups of a quest, two lists of ships: each asks the same questions
  by itself, and all have to agree.
- *Copies.* The server keeps an account of what clients carry, in more than one
  copy; the bans file is a copy that threads write without a lock.

### What makes it correct

- A client is in the one slot its own fields name; counts are counts; a team
  exists exactly while somebody is in it.
- Somebody leads every lobby; the lead moves only when the leader leaves, and goes
  to the senior member; a team knows whether DC/PC players are in it.
- A team is closed to newcomers exactly while somebody loads it, and not for good;
  packets wait for that and no longer; a quest reaches every member.
- No thread waits for ever, and no handler keeps a lock.
- Nothing in a team is doubled, and goods are lost only with a connection; an enemy
  drops once, as the quest says, and is counted and paid for once per member.
- A quest's call runs whole, its answer goes where it was asked for, and its stack
  does not stay locked. A quest that is listed reaches every member.
- Who ignores, is silenced or is banned stays so on every route.
- The shipgate knows whoever is on a block; a player is sent its character only
  after that has come; a menu that is offered leads to a ship.

## 2. Modules

| module | what it is |
|---|---|
| `Membership` | the promise to the players, abstractly: where each client is, which teams exist |
| `Lobby` | the lobbies and teams of one block in detail: state, one action per handler, properties |
| `BlockLocks` | the locks of the blocks' and the ship's threads |
| `TeamItems` | inventories, banks, meseta and the floor of a Blue Burst team |
| `Drops` | what enemies and boxes leave behind, by request, quest and generator |
| `Combat` | hits, kills, kill counts, experience and levels |
| `Views` | what each client is shown of its lobby, packet by packet |
| `Legit` | legit mode: what its teams refuse, and the counted references to lists of limits |
| `QuestStack` | the calls of a quest through its registers, and the shipgate's answers |
| `QuestLists` | which quests a team is shown, and which file each member is sent |
| `Talk` | who hears whom |
| `Gate` | the connection to the shipgate and what that knows of the players |
| `ShipMenu` | the ships the ship knows, their menu codes, and the menus made of them |
| `Bans` | the bans, their file, and the logins that ask them |
| `LobbyProofs`, `TeamProofs` | theorems about `Lobby`, and that it implements `Membership` |
| `PlayProofs`, `ItemProofs` | theorems about `Combat`, `Legit`, `Views`; about `Drops`, `TeamItems` |
| `ShipProofs`, `ServerProofs` | theorems about `Talk`, `QuestStack`, `QuestLists`; about `Gate`, `Bans`, `ShipMenu` |
| `LockProofs` | theorems about `BlockLocks` |
| `NatMin` | least and greatest elements of sets of naturals, and what is left of a sequence when some of it is picked |
| `MCLobby`, `MCBlockLocks`, `MCTeam`, `MCShip`, `MCServer` | the instances for TLC |

`Lobby` implements `Membership` (`PromiseKept`). The other components meet through
clients and lobbies, but the state they keep is disjoint: an item handler changes
no membership, a quest call no item. So each has a module of its own in which the
part of the others it depends on (members come and go, quests are loaded, the
connection is lost) is an action that may happen at any time. This is sound for
safety: a module has more behaviours than the composition. `MCTeam`, `MCShip` and
`MCServer` put several of them in one run. A variable `part`, chosen at the start,
says which one moves; the others keep one initial state. So the state space is
the sum of the parts and not their product, and nothing is lost, since they share
no variable.

### Lobby.tla and the code

One thread runs a block, so a handler of a packet is one step, and the order of
the steps is the order in which packets arrive.

| model | code |
|---|---|
| `cl[c]` | `ship_client_t`: connected, `cur_lobby`, `client_id`, `join_time`, `CLIENT_FLAG_BURSTING`, `CLIENT_FLAG_WAIT_QPING`; `selecting` is what the client's screen shows |
| `lb[l]` | `lobby_t`: on the block's list (`live`), `clients`, `num_clients`, `leader_id`, whether `version` is below Gamecube (`pre_gc`), `LOBBY_FLAG_GC_ALLOWED`, `BURSTING`, `QUESTING`, `QUESTSEL`, `LOBBY_QFLAG_JOIN` |
| `pkt_queue`, `burst_queue` | the two queues of a lobby, by sender and by addressee |
| `now`, `Tick` | `time(NULL)`. Times are only compared, so the seconds in use are renumbered in their order; this keeps the state finite and loses nothing |
| `Login`, `EnterLobby`, `ChangeLobby` | login packets; character data or 0x84 while in no lobby; 0x84 in a default lobby |
| `CreateTeam`, `JoinTeam` | the game creation handlers; the game menu, `join_game`, `lobby_change_lobby` |
| `LeaveTeam`, `Disconnect` | 0x98; the clean-up of `block_thd` |
| `DoneBurst`, `PingReply` | 0x6F; the ping reply after a quest was sent |
| `SendGamePacket`, `SendBurst` | subcommands that are held back, or kept for a replay |
| `OpenQuestList`, `CloseQuestList`, `PickQuest` | `process_qlist`, `process_qlist_end`, `lobby_setup_quest` |
| `AllowGC` | `/allowgc` |

Left out, as no property tells them apart: passwords, levels, sections, limits and
the other grounds for refusing a request (a refusal changes nothing), the text of
messages, scripts' effects (a script may refuse a quest: `PickQuest` chooses), that
a V1 client cannot see the lobbies above the tenth, and the contents of packets. A
failure while a queued packet is handled is a choice of how many were handled
(`Drained`). Handling a packet whose sender has been freed is undefined in C; the
model takes the mildest outcome, that nothing happens, and `QueuedSourcesStay`
reports the situation itself.

Assumptions about the clients: they follow their side of the protocol, that is,
they choose a team or a lobby only from a default lobby, leave a team with 0x98
before 0x84, report the end of a burst only in one, and send the choice of a quest
only with the counter open. They vanish whenever they like.

### BlockLocks.tla and the code

A handler is the sequence of locks it takes and gives back: block list
(`block_t.lock`) and lobby list (`lobby_lock`), reader-writer; the lobby's mutex,
not recursive (`lobby.c:110`); the client's mutex, recursive (`clients.c:197`); and
the one mutex of the scripts, not recursive (`scripts.c:50`).
`block_thd` holds the list as a reader, and the client's mutex, around every
handler of a packet (`block.c:273-321`), and the list as a writer around the
clean-up (327-358). `OfBlock` and `OfShip` list what each thread may run, by kind;
a run says which kinds are served. Who is in which lobby does not change in this
model: which locks a handler takes depends on it, the order it takes them in does
not. Readers do not wait for waiting writers, as in glibc.

`Relock` is what a non-recursive mutex does to its own holder. The pthread standard
leaves it to the type of the mutex: it hangs (the default on Linux) or returns an
error which this code does not look at; then the inner unlock releases early.

### The team: TeamItems, Drops, Combat, Views, Legit

| model | code |
|---|---|
| `inv`, `bank`, `meseta`, `banked` | `bb_pl->inv`, `bb_pl->bank`, `character.meseta`, `bank.meseta` |
| `snap`, `drop_item` | `c->items`, the copy that is made when a client leaves a game; what 0xC3 announced |
| `seat`, `highest_item`, `item_id`, `floor` | the team's slots and item numbers, `item_queue` |
| `made` | history: how much of each kind there ever was |
| `DropItem` .. `Sort`, `Deposit`, `Withdraw` | `handle_bb_drop_item`, `_drop_pos`, `_drop_stack`, `_pick_up`, `_bank_action`, `_equip`, `_unequip`, `_medic`, `_sort_inv` |
| `team`, `spent`, `sent`, `answer` | the drop function and limits of the team, `drop_done` and flag 1, items sent per target (history) |
| `Request`, `EnemyDrop`, `BoxDrop` | `subcmd_handle_one` for 0x60/0xA2, `pt_generate_*_drop`, `pt_generate_*_boxdrop` |
| `LoadQuest`, `Normal`, `PickItem` | `lobby_setup_quest` with `load_quest_enemies`, `/normal`, `/item` |
| `hit`, `dead`, `broken` | `clients_hit`, bit 0x80 of an enemy, flag 0x80000000 of a box |
| `enemy_kills`, `reported`, `killed`, `claims` | the counters of a client; history of what reached the shipgate, was killed and paid |
| `always`, `wrapped` | history: whose counts were kept and found the shipgate every time; whose experience has passed 32 bits |
| `clients`, `leader_id`, `sending`, `reading`, `picture` | a lobby; packets the block's thread has still to send; what the ship's thread has read for `/restore`; what a client's screen shows |
| `legit`, `always_legit`, `override`, `limits` | the flags of a client, and `c->limits` |
| `legit_mode`, `limits_list`, `def_limits`, `refs` | the same of the team and the ship; how often a list is referred to |
| `given_back`, `overdrawn`, `let_in` | history: clients whose list `join_game` has released, that one of them has gone since, and what a GM brought in |
| `FoundTeam`, `JoinLegitTeam`, `LeaveTeam`, `TakeItem`, `ItemDrop`, `RefreshLimits` | `lobby_create_game`, `join_game`, 0x98, `handle_take_item` (the bank), `handle_itemdrop`, `refresh_limits` |

An item is its kind, its number and its count. In `Drops` an item is its kind and a
rank, dice have `Sides` faces, and the tables of the data files are constants: the
model says which items can come of a request, and with `\E` over the dice every one
of them does. The generators of the three formats are one, since they make the same
decisions in the same order; where they differ (stars, units, areas, the tables of
Blue Burst, legit checks) the operator says so.

Clients move what they have and pick up what they have room for: a client that asks
for anything else is disconnected by the handler, and the model has that where the
server's account and the client's own can differ.

### The ship: QuestStack, QuestLists, Talk

| model | code |
|---|---|
| `q_stack`, `q_stack_top`, `locked` | the same, `CLIENT_FLAG_QSTACK_LOCK` |
| `Push`, `Complete`, `Dispatch`, `Reset` | `handle_sync_reg`, `quest_function_dispatch`; one operator per group of functions |
| `qpos`, `qcount` | the registers a member subscribed to positions and counts |
| `gate`, `Ask`, `Reply`, `LinkLost`, `LinkBack` | questions sent to the shipgate; `shipgate_send_qflag`; `handle_qflag`, `handle_qflag_err`; the connection |
| `limbo`, `lost`, `mixed` | clients between 0x98 and 0x84 (`cur_lobby` NULL), whose answers are dropped; history: whose call lost its answer; who has had a question of each of the two sorts under way, until all are answered |
| `books`, `menu`, `fresh`, `sure` | the quest lists read; what a client's menu shows; history: whether it still holds |
| `OpenCounter` .. `PickQuest`, `LoadQuests` | `send_quest_categories`, `send_quest_list`, `lobby_setup_quest`, `send_quest`; `refresh_quests` |
| `ignore_list`, `blacklist`, `stfu`, `protected`, `autoreply` | the same |
| `clientele` | what the talkers play, and who has a trial edition; it never changes |
| `heard` | what the last packet let somebody hear |
| `post` | mail under way to or from a ship that runs the same code |
| `DcNteBroadcast`, `DcNteForward` | `subcmd_dcnte_handle_bcast` and `_one`, which send on what they do not know |

What a register is set to is left out, the counts excepted; so is the wording of
chat. Word select is modelled by whom it reaches: the tables are data.

### The server: Gate, ShipMenu, Bans

| model | code |
|---|---|
| `sg`, `run` | the socket, `has_key`, whether the ship ends |
| `listing`, `ListBlock` .. `SendList` | `shipgate_send_clients`, which takes a block's lock, then each client's, and sends after both |
| `waits`, `coming` | questions not answered; packets from the shipgate |
| `known` | whom the shipgate knows on each block (its own state, external) |
| `Connect`, `RequestOptions` | `bb_process_login`, which asks for the character and then for the options, each by a send of its own that finds the connection or not |
| `ProcessChar`, `BlockLogin`, `BreakOff`, `BlockLogout` | `dc_process_char`, `shipgate_send_block_login`, `client_destroy_connection` |
| `character`, `ready` | what became of a Blue Burst player's character: asked for, come, denied (`handle_creq_err`) or missed; history: whom `handle_bbopts` has moved on |
| `ships`, `codes` | `ship_t.ships`, `menu_codes` |
| `ShipUp`, `ShipDown`, `ForgetShips` | `handle_sstatus`, the start of `shipgate_conn` |
| `CodeExists` | `menu_code_exists`, the search by halves as a recursive function |
| `CodeList`, `ShipList` | the menus of `send_dc_ship_list` and the others, with `is_ship_menu_empty` |
| `bans`, `saved`, `doing` | the two lists, the file, and where each thread is between the lists, the document, the file and the blocks |
| `NoDocument`, `WriteBans` | `write_bans_list`, which fails before there is a document, or is not asked whether that could be written |
| `at`, `marked` | where a visitor is; `CLIENT_FLAG_DISCONNECTED` |
| `early`, `behind`, `spared` | history: those whom only the ship would have refused and who did not pass it; that the file may be older than the lists; those on a block when the command that banned them failed |

Time in `Bans` is in seconds as the code has it: a ban runs through the second it
ends in when it is asked, and is over in that second when it is read from the file.

## 3. Runs

| run | result | what it shows |
|---|---|---|
| `lobby_leader` | passes, 200,625 states | types, membership, counters, leadership, Gamecube teams |
| `lobby_burst` | passes, 209,628 states | bursts, queues, quests, liveness, and that `Lobby` implements `Membership` |
| `team` | passes, 624,094 states | `TeamItems`, `Drops`, `Combat`, `Views`, `Legit`: nothing doubled or lost, one drop per enemy and as the quest says, kills and experience once, every screen right, legit teams stay legit |
| `ship` | passes, 753,766 states | `QuestStack`, `QuestLists`, `Talk`: calls run whole, answers arrive where they belong, a listed quest reaches all, nobody hears whom it ignores, but through the Dreamcast trial edition's own handler |
| `locks` | passes, 2,243,149 states | `BlockLocks`, `Gate`, `ShipMenu`, `Bans`: no deadlock and no kept lock among the handlers it serves; the shipgate misses nobody; a character comes before the options; menus lead to ships; bans hold in the file and at the door, whatever fails, ends or is lifted |
| `lobby_tie` | violates `LeaderPresent` | nobody is elected from those who joined in the current second |
| `lobby_queue_source` | violates `QueuedSourcesStay` | a held back packet outlives its sender |
| `lobby_questsel` | violates `QuestselHasSelector` | a team stays closed after the selecting member left |
| `locks_relock` | violates `NobodyWaitsForItself` | a thread waits for the lobby mutex it holds |
| `locks_event` | violates `Unstuck` | the lobby event and a packet handler lock in opposite orders |
| `items_split` | violates `NothingDoubled` | a stack split after the inventory was sorted doubles another item |
| `quest_gate` | violates `GoneIsTold` | a quest that asks when the shipgate is away waits for good |

**Bounds.** `lobby_leader`: two DC/PC clients and a Gamecube client (every mixture of
kinds in one election), two lobbies of two slots (so that one can be full and the
other not), two teams of three slots (so that everybody can meet in one and one can
be founded while another is left), `MaxSecond = 3` (the three clients can all have
joined in different seconds, and one is left to elect in). `SameSecond = FALSE`
keeps departures out of the second of an arrival; `lobby_tie` drops that. The two
older clients are interchangeable, which is sound as nothing orders model values.
`lobby_burst`: three clients (a sender, a burster and one who does something else),
a team with room for all, two quests of which one is joinable, a queue of one
packet. No symmetry, as it checks liveness. `MaxSecond = 0`: elections are not its
subject. The violations use the same bounds.

`team`: two players (one drops, one picks up), who begin with a worn frame and its
unit, with a stack, or with meseta; two places in an inventory and one in the bank,
so that each can be full; `MaxId`, `MaxGiven` 1, which lets a number be given twice.
`Splits = "kept"` keeps stacks from being split when `c->items` disagrees with the
inventory; `items_split` drops that. One enemy and two boxes, one of them with an
item of its own and one with a kind of item; teams of every version and setting
that `lobby_setup_drops` tells apart, quests with every kind of list and one whose
maps cannot be read; three faces of a die (no drop, a drop, a rare). Two fighters in
two slots, so that one can take over a slot; two levels to be gained, and `MaxExp`
stands for the greatest number of 32 bits, which `/exp` can pass. Techniques for
an area go on in v2 teams only, as boxes are the same in all. In `Views` a
Dreamcast, a PC and a Blue Burst client in a lobby and a team of three.
In `Legit` two clients, one a GM with an account and one of a class that PSOv1 does
not have; one sort of item that the first list refuses and the second, read later,
allows; `MaxRefs = 2`, an owner of a list besides the one that asks. The model stops
at a list that was released once too often, as nothing can be said of freed memory.

`ship`: two members; four quests that between them call every function, with every
error, and one that writes the flag register besides; registers 0 to 3, flags and
short flags one of which is too high, and a stack of six words, so that it can be
full; two questions under way (`MaxAsked`), one of each sort. Two quest
collections of which one replaces the other; teams of four sorts with members of
every version and two languages. Three talkers of three platforms, one on the
other ship, one entry in each list, one mail under way. What they play (`Clienteles`) is
Blue Burst, Dreamcast and the PC's trial edition, or two have the Dreamcast's trial
edition, whose broadcast reaches its own kind only. An automatic answer is set by
all but the plain Dreamcast, whose answer is never given, and in the second by one of
the trial edition only.

`locks`: three clients, so that a search or a reply passes over somebody and a
lobby has a second member; two lobbies, so that moves have a destination; one
block. `Gate`: two players, one of Blue Burst, two blocks, one packet of the shipgate
at a time (the ship reads them one by one); a packet that answers another may
come on top of it, two at the most (`RoomToCome`). `ShipMenu`: this ship and two others
with every mixture of numbers, codes and restrictions. `Parts` says which of the
components a run moves. `Bans`: two interchangeable threads (a symmetry that is sound, as
nothing else names them), a card, two addresses, a visitor, three seconds, two bans at a
time, none in the last second, as it would not end within the run (`CanBan`).

**Fairness.** Two properties need it. `BurstEnds`: weak fairness of the end of each
client's own burst (`EndOwnBurst`). A client in a burst either sends 0x6F or answers
its ping, or it falls silent, and `block_thd` drops a client that is silent for 90
seconds (`block.c:91-114`) and cleans up after it. A client that keeps talking and
never finishes its burst is outside of it. The property also presumes that a block's
thread goes on after it has locked a lobby's mutex twice; `locks_relock` is the
case where it does not. `LockEnds`: weak fairness of the answers of a shipgate that is
there (`Reply`): the ship's thread reads its socket for ever, and the shipgate answers
each question. If the shipgate is lost in between the lock may stay, which the
property says and `quest_gate` shows; and so it may if the answer comes while the
client is in no lobby, where `handle_qflag` drops it.

**Deadlock checking** is off in `team` and `ship`, whose players may all have left
for good, and in the runs that use their modules; it is on in the others.
(In `locks` a ship that the shipgate refuses has ended, and stutters.)

**The violations.** Each is a disagreement of the code with one of its own comments
or messages, quoted under "findings" in `PROJECT.json`:
1. `lobby_elect_leader_locked` starts from `earliest = time(NULL)` and asks for
   `<`. If a leader leaves in the second in which the others joined, nobody is
   elected and `leader_id` becomes 0, a slot that may be empty. In a DC/PC team
   open to Gamecube the team moreover turns into a Gamecube team.
2. `lobby_enqueue_pkt_ex` stores `src`, and nothing removes the packet when its
   sender leaves or is destroyed.
3. `LOBBY_FLAG_QUESTSEL` is not cleared when the selecting member leaves.
4. `lobby_handle_done_burst` is to be called with the lobby's mutex held, and the
   handlers it calls lock it; so does the queueing of a packet, and an item that
   is put on the floor (`ptdata.c:1658`).
5. `update_lobby_event` locks a lobby, then its clients; handlers hold a client and
   lock its lobby.
6. `handle_bb_drop_stack` finds the stack in `bb_pl->inv` and splits the entry of
   that number of `c->items`.
7. `send_raw` returns 0 when there is no connection, and `shipgate_send_qflag` passes
   that on as success: the stack stays locked and no error is written.

Faults the models have and the properties leave out by name, as each would fail a
run at once:

- *Locks* (`Unstuck`, `NothingKept`): the handlers `"flag"`, which takes a lobby's mutex
  under a client's in the ship's thread; `"stray flag"` (`shipgate.c:2021, 2033, 2101`),
  `"quest script"` (`scripts.c:921`), `"hacked character"`, the return of
  `dc_process_char` for a level that is too high (`block.c:1385`), and
  `"unknown legit"`, the default case of the legit check (`lobby.c:1644`), which all
  return with a mutex locked, so that the next thread that wants it waits for good;
  and `"search"` with two blocks. A document of the bans that fails for want of
  memory keeps the ban lock (`bans.c:110, 138`); that one is not in the model.
- *Characters* (`CharacterFirst`): a Blue Burst player whose question for its character
  found no connection, or lost it, where the one for its options found one, or
  whose character was denied: `handle_bbopts` moves the player on "now that we have
  everything" (`shipgate.c:1717`) and does not look.
- *Bans* (`BansHold`): a list changed while another thread writes, or that could not be
  written (`behind`: the next change that is written makes up for it); who is on a
  block when the command that bans it fails at the file and returns before it looks
  for anybody (`spared`, until the player changes blocks); a banned guild card
  that comes to a block without passing the ship (`early`); an address ban that is
  read back with address and netmask exchanged (`Exchanged`).
- *Kills, experience* (`KillsCountedOnce`, `ExpOnce`, `LevelMatchesExp`): counts that are
  sent when the shipgate is away are cleared and lost; a slot's next owner claims its
  predecessor's hits; `/exp` adds any amount in 32 bits and takes no level away.
- *Quests* (`LockAwaitsAnswer`, `LockEnds`, `AnswerInItsRegister`): answers dropped for a
  client in no lobby, whose stack stays locked; those of a client that has a
  question of each sort under way, as `handle_qflag` tells them apart by whether the
  stack is locked when they come (`shipgate.c:2013`), so that the first is written as
  the result of the call; those to calls that delete a flag.
  `ListedQuestReachesAll`: a v2 client of a v1 team that is disconnected by a quest.
- *Talk* (`HeardIsWelcome`): an automatic answer goes round ignore list and blacklist, a
  guild card round blacklist and `/stfu`, and what the Dreamcast trial edition's own
  handler sends on, symbols and cards among it, round all of them.
- *Menus* (`MenusLead`): the Dreamcast trial edition's empty submenus.

## 4. Proofs

`LobbyProofs` proves of `Spec`, for any clients, lobbies and capacities that meet
`LobbyConstants`:

- `TypeCorrect`: `TypeOK` always holds;
- `MembershipCorrect`: `MembershipAgrees` always holds;
- `AccountingCorrect`: `TeamsAccounted` always holds.

The inductive invariant is `Ind`, the conjunction of the three, and none is
inductive alone. A handler finds its client's slot through `client_id`, so the count
goes down by one only if that slot holds the client (`MembershipAgrees`); it takes
the least vacant slot after a look at `num_clients`, so that slot exists only if
the count is right (`TeamsAccounted`); and it frees a team on the count alone, so
that nobody is left pointing at a freed team only if both hold.

The argument goes bottom up. Facts about one lobby come first (`FreeSlotIsFree`,
`WithClientOK`, `EarliestIsCandidate`, `NewLeaderIsSlot`, `WithoutClientOK`): the
free slot is free, the removal of a member lowers the count by one, an election
yields a slot. `NobodyMoves` and `OneMoves` lift them to the whole state: a step
in which at most one client changes place keeps `MembershipAgrees` if the slots
change accordingly. Each handler is then an instance (`...KeepsInd`), `StepInd`
collects them, and the theorems follow by PTL. `NatMin` supplies what the library
lacks: a non-empty set of naturals has a least element, and `Min` is it.

Assumed: `LobbyConstants` only, among it that a team has at least two slots (a
DC/PC team seats its first client in slot 1) and that clients and team ids are
finitely many.

`ServerProofs` proves of `BansSpec`, for any threads, cards, addresses, visitors and
lengths of bans that meet `BansAssumption`:

- `BansTypeCorrect`: `BansTypeOK` always holds;
- `BansHoldCorrect`: `BansHold` always holds, in the file and at the door.

For the file, `SavedBansHold` speaks only of times at which nobody writes. It is
inductive with what holds in between (`FileInv`): while the file is not `behind`
(two threads have not crossed, and no write has failed) at most one is busy
(`OneIsBusy`), and the copy it writes holds the bans of the list (`CopyIsRight`).
That time passes between copy and write does no harm, since what lies ahead of a
later time is part of what lies ahead of an earlier one (`AheadLater`); that bans
end, or have address and netmask exchanged, neither, since the copy leaves out only
what has ended (`CopyAhead`). For the door, `BannedStayOut` is inductive with what
holds of those who are on their way (`DoorInv`): whoever has come at all and is
banned by its card is one of the early (`CardsKnown`). Each action is a case;
`RemovalDoor`, `FileDoor` and `MoveDoor` are the three ways in which a step leaves
somebody's bans as they were. Assumed: `BansAssumption` only, among it that a ban
lasts less than the time that stands for "for good".

`TeamProofs` goes on from there, again for everything that meets `LobbyConstants`.
`StepShape` says that a step lets one client in somewhere, lets one go, moves nobody,
or is the clock's; what each does to one lobby is said once, and every theorem looks
at four cases:

- `LeadersStay`, `QuestsReachAll`: the action properties `LeaderStable`,
  `QuestReachesAll`;
- `OneBurstOneClient`, `NoQueueWithoutBurst`: `BurstHasItsClient`,
  `QueueWaitsForBurst`. Inductive is `BurstInv`: one client at the most loads a
  team, a ping is awaited only of a client with the burst flag (which may carry it
  out of a team), packets are held back only in a burst, no default lobby has one;
- `LeadersPresent`, `SeniorsSucceed`, `GamecubeTeamsPure`: `LeaderPresent`,
  `SeniorSucceeds`, `GamecubeTeams`, where `SameSecond` is FALSE. They need it:
  without it somebody who joined in this very second is no candidate, and
  `lobby_tie` shows a lobby led by nobody. With
  `Ind`, which puts nobody's arrival later than now, an election finds a candidate,
  and `LeaderPresent` is inductive; `GamecubeInv` says the same as `GamecubeTeams`
  by client instead of by slot;
- `BlockKeepsPromise`: `Spec => PromiseKept`, the refinement. Initial states map to
  initial states, each handler to a step of `Membership` or to none.

`PlayProofs` (three components which share no variable):

- `KillsNeverTwice`, `ExpNeverTwice`, `LevelsFollowExp`, `FightersFit`. For kills, a step
  takes from the counters at least what it adds to the report, and exactly that for
  whom every count arrives (`always`). For experience,
  `ClaimsAreSpent`: who has been paid for an enemy has no bit in its `clients_hit`
  left, and the enemy is dead, so that it gets no new one. For levels, `LevelInv`: the
  level is the one reached, whichever of the three ways it changes in, until the
  experience passes its 32 bits (`wrapped`);
- `LegitForGood`, `LegitFits`. `LegitInv` has, beside the types, what the members'
  items and classes are (`LegitPlay`), and of each list that a client's flag owns a
  reference and that there are references for all owners (`LegitLists`): the clients
  that have not given theirs back, a finite set, the team and the ship;
- `PicturesTrue`, `ViewsFit`. `PictureTrue` speaks of members for whom nothing is on
  its way; the invariant `Truth` speaks of all, slot by slot: a slot is shown as it
  is, or a packet that settles it is still to be sent (`Owed`). A client that is
  told a slot is vacant which is not, since somebody went to its own lobby, is told
  better later (`Telling`); and what the ship's thread reads for `/restore` is right
  when it is read (`Shows`), since every later change is owed to the client, and
  cannot reach it before the ship's thread lets go of its mutex. Every move of a
  client is an instance of one lemma (`MoveKeeps`).

`ItemProofs`:

- `DropsOnce`, `QuestsHaveTheirWord`, `DropsFit`. A target that has not been asked for
  has left nothing when the server makes the drops (`DropsInv`); the quest's word is
  looked for in each of the generators by itself, as they ask for it in different places;
- `NumbersApart`, `UnitsStayFramed`, `ItemsFit`. `ItemsInv` is `Seated` (one slot per
  member), `Carrying` (numbers apart while a member plays, and frames under units),
  `Banking` (nothing in a bank is worn), `Announcing` (what 0xC3 announced is part of
  a stack, so that no frame is dropped from under a unit that way) and the types of
  the rest;
- `NothingIsDoubled`, `LossesEndConnections`, where `Splits` is "kept". How much a
  sequence holds of a kind (`Total`) is the cardinality of a union of one interval per
  place, not a fold, so that the library's facts about cardinalities take the place
  of induction. Each way goods take is then an equation: what a list gains another
  loses (`SumPushed`, `SumCounted` and their like), and every step is `Balanced`.
  `BooksInv` adds to `ItemsInv` that there is never more in play and to come than
  there was (`Counted`), that who plays has items with numbers (`Named`), and that
  what 0xC3 announced is there still and is what `c->items` says it is
  (`Promised`). The last is where `Splits` is needed, and `items_split` shows what
  happens without: the copy that is split is of another item;
- `TeamFits`: the type invariants of all five components in `TeamSpec`, the composed
  specification of the run `team`.

`ShipProofs`:

- `OnlyWelcomeHeard`: every route asks for itself, so the proof goes through them one
  by one, mail across the shipgate among them; the Dreamcast trial edition's own is
  excepted by name. `TalkFits`, the types;
- `CallsRunWhole`, `LocksAwaitAnswers`, `UpdatesFindMembers`, `CountsAreCurrent`,
  `QuestsFit`. `CallUnderWay` says how far the words on a stack have come; `Kept`
  that a register is kept up to date for those only who are there;
- `AnswersFindRegisters`, for any quests. An answer is sorted by the lock and looks up
  its register when it comes. The invariant (`AnswersFit`) is that a client has one
  call under way or questions of the flag register, not both, and that its stack,
  locked, still names the register of the call; but for the clients in `mixed`, whose
  answers `handle_qflag` takes for each other;
- `ListedQuestsArrive`: `ListedQuestReachesAll`, for any collections of quests.
  `CounterInv` says of each menu that its entries are in languages the ship has, and
  of a menu that still holds (`fresh`) that each entry found in the first part of the
  list can be played by all who are here (`Ready`). The sender's lookup runs through
  the same languages in another order and finds one (`GetsIt`); what it finds has a
  format it can send (`QuestIs`, from `CollectionAssumption`). `CounterFits`, the
  types; the team always has a member;
- `ShipFits`: the type invariants of the three in `ShipSpec`, the specification of the
  run `ship`.

`LockProofs`, of `BlockLocks.Spec` with any blocks, lobbies, clients and members:

- `NothingIsKept`, where `NoneStray`: the four handlers that keep a lock on some way
  out (Section 3) are not served. A handler is a sequence of steps put together from
  shorter ones. `Follows` says that some steps lead from holding one thing to
  holding another, and each way to put steps together has its lemma (`BothFollow`,
  `WithinFollows`, `EachFollows`), so that every handler leads from nothing to
  nothing. `LocksInv` says of each thread that what is left of its handler leads
  from what it holds to nothing;
- `NeverStuck`, `NobodyLocksOut`, where `Ordered`: the handlers served keep to the
  order and give back what they take, that is, none of the `Event`, `FlagReply`,
  `StrayFlagReply`, `QuestScript`, `HackedCharacter` and `LegitUnknown` ones is, a
  search is with one block only, and where relocking hangs nothing that relocks is.
  What a thread holds and may take next is `Obeys`: nothing is taken under the mutex
  of the scripts, nothing by the ship's thread under a client's, and a block's list
  is taken for writing with empty hands. Two blocks' threads share nothing but that
  mutex (`Shared`). So a block's thread that waits for one that waits too has empty
  hands and waits for the ship's (`BlockWaits`), and the ship's thread waits for
  nobody who waits (`ShipWaits`): there is no circle. The run `locks` meets
  `Ordered`; the violations `locks_event` and `locks_relock` are two ways not to.

`ServerProofs`, of the menu and the connection:

- `ShipMenuCorrect`, `MenusLeadCorrect`. The invariant is `ShipMenuSound`: the codes
  are in order and once each, and every ship's code is among them. It needs that the
  search by halves finds a code that is there. The search is a recursive function,
  so first the equation has a solution (`HalvesExist`: the place at which all smaller
  codes end, or the end of the part looked through that is nearest to it), then
  every solution is that one, by the shortest part on which it would not be;
- `ServerFits`: the type invariants of `Gate` and `Bans`, and `ShipMenuSound`, in
  `ServerSpec`, the specification of the run `locks`;
- `NobodyMissed`, `GateFits`. The ship's thread walks the clients of a block and sends
  afterwards; meanwhile clients come, name themselves and go. `Told` says for each
  named client that the shipgate knows it, or that it is in the list being made, or
  in a packet under way (`Due`, `Underway`), or that a refusal for it is on its
  way, with which the ship will remove it (`RefusedOn`);
- `CharactersFirst`, by `OwnOrder`: the answers to one connection's questions are on
  their way in the order of the questions, which are two sends with a test of the
  connection each. If the first finds none the character is `missed`, and so it is when
  the connection is lost before the answer; an error makes it `denied`. The property
  speaks of a connection's own answers: a Blue Burst player who breaks off and comes
  back to the same block while the options of its earlier connection are on their way
  is found by its guild card like any other, and `handle_bbopts` (`shipgate.c:1695`)
  then sends it a character that has not come.

**Assumed** are, but for `SameSecond = FALSE`, `Splits = "kept"`, `NoneStray`
and `Ordered` where a theorem says so, only the named assumptions on constants, which
TLC evaluates in the runs: `LobbyConstants`, `BlockLocksConstants` (a client or a
lobby belongs to one block, and who is in a lobby is a client of its block), `BansAssumption`,
`CombatConstants` (levels need more and more experience), `LegitConstants`,
`ViewsAssumption` (default lobbies are not teams; a client speaks one of the seven
protocols), `TeamItemsConstants` (tools are not frames), `StartAssumption` (what clients
arrive with is numbered apart and framed, as 0x61 makes it), `DropsConstants` (areas
are numbers), `TalkConstants`, `GateAssumption`, `ShipMenuAssumption`,
`QuestStackConstants` (a call has as many words as it says), `CollectionAssumption` (no
language has more categories than English; Blue Burst quests are .qst files) and
`PersonsAssumption` (a client's version and language are ones the ship has lists for).

**Only model-checked** are the liveness properties `BurstEnds` and `LockEnds`, as the
provers have no fairness and no ENABLED. Every other property of a passing run is
a theorem. Of the properties of the seven violations four are proved under a
condition that excludes the fault: `LeaderPresent`, `Unstuck`, `NobodyWaitsForItself`
and `NothingDoubled`.

## 5. Not modelled

- *Legit checks* of Episode III and Blue Burst, which let everything pass.
- *Memory that is not there*: of the failures for want of it only those that leave a
  command half done (`NoDocument`) are.
- *Start and stop* of blocks and of the ship, and the deferred creation of PSOPC
  teams (`block.c:2346`).
- *Buffers*: `client_process_pkt`, the send buffers, TLS.
- *Shops, tekking, positions and warps* of Blue Burst, information boards, choice
  search, the settings commands: handlers that check and pass on, or set one flag.
- *Formatting* of the packets, tables read from data files (`rtdata.c`, most of
  `pmtdata.c`, `mapdata.c`, `smutdata.c`), the Lua interpreter and its library, the
  start of the process: data or I/O.

## 6. Plan

Every module is checked and proved as far as Section 4 says. Left, in this order,
each with its runs and, where marked (P), proofs:

1. the client's input and output buffers; (P) no byte is lost or repeated;
2. start and stop of blocks and of the ship;
3. the deferred creation of PSOPC teams.
