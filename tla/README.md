# A verification project for Ark-Server-Plugins

The repository holds server plugins for ARK: Survival Evolved (and Atlas): DLLs that hook
the game server, add chat, console and RCON commands and keep their data in SQLite or MySQL.
This directory models the plugins' own logic in TLA+, checks it with TLC and proves what
matters most with TLAPS. Paths below are under `src/`.

## 1. Inventory

| component | state | operations | correct when |
|---|---|---|---|
| **Permissions** (`Permissions/Permissions/Private`) | tables Players, Tribes, Groups; three caches, one mutex each; the callbacks of other plugins | add, remove, timed add and remove for players and tribes; add and remove groups; grant and revoke; reload (`DatabaseSync` → `Init`); login and admin hooks | cache and table agree but for the record being written; no whole-list write undoes another change; every command ends; after failures the caches come back to the tables |
| **ArkShop** points, store, kits (`ArkShop/ArkShop/Private`) | table Players (Points, TotalSpent, the JSON of kits), timed rewards of online players | add, spend, set, trade, buy, sell, redeem and buy kits, reset; reward timer; login, spawn and logout hooks | points are neither created nor lost, nothing is delivered unpaid, balances stay above zero |
| **AtlasShop** | as ArkShop | as ArkShop, without its UI | as ArkShop |
| **ShopRewards** | table Players of kills and deaths; ArkShop's points | death and kill hooks, leaderboard | what one player gets and the other loses go together; one row per player |
| **ArkHomes** | table Players (homes, cooldowns), `teleporting_players`, `Timer::threads`, detached threads | add, remove, list homes; teleport home or to a place; death and damage hooks | a teleport happens once, only for a request that was not interrupted, and gives the input back |
| **SafeZone** | list of zones, names that came from the file, trigger spheres, delayed tasks | create, remove, reload zones; enter, leave; damage and build hooks; tribe wars; spawn points | the zones of the file and of other plugins stand over reloads; delayed tasks are carried out |
| **StructuresLimit** | counts per tribe and structure | placement hook, recount timer | a tribe never owns more than the limit |
| **TribeMotd** | tables TribeMotd, PlayerMotd | set, remove, show | one message per tribe or player |
| **NoCollision** | set of builders in memory and in SQLite | add, remove, placement and replication hooks | memory and database agree |
| AllEngrams, ExtendedRcon, UnicodeRcon, ArkAdvert, AntiFlyerCarry, AdminsPermissions, AlternativeCommands, CustomChat, DinoColors, PersonalOwnership, PluginCrashManager | a configuration, at most a timestamp | one hook or command, one call of the game | each call does what the configuration says |
| third-party (`sqlite3.c`, SQLiteCpp, sqlite_modern_cpp, json.hpp, mysql, mysql++, thread pool, polyfill) | | | not modelled |

How they interact: the game calls hooks, commands and timers of every plugin on its one game
thread. Permissions also runs reloads on a thread pool, ArkHomes and ArkAdvert run detached
threads. ArkShop asks Permissions for groups; ShopRewards and ArkHomes move ArkShop's points.
With MySQL the servers of a cluster share the tables of Permissions and ArkShop but none of
the caches. No transaction spans two statements anywhere.

What is hard here: reloads between the steps of a command; whole lists and whole JSON
documents written back from a copy; several servers on one table; each statement able to
fail, with errors reported as empty results; the process dying between two statements
(`PluginCrashManager` exists for it); times that pass between a check and its use; timers on
threads of their own. `PROJECT.json` lists each such place under `hazards`.

## 2. Modules

| module | what it models |
|---|---|
| `CachedPermission` | the data: rows, timed groups, which groups are in force, what a command sees (`CachedPermission.h`, `IDatabase.h`, `Permissions.cpp`) |
| `PermissionCommands` | the commands as functions: guards, the list copied, the row written, the entry cached, common to both back ends |
| `PermissionsSqlite` | one server on SQLite: game thread, reloads, three mutexes, failing statements, crash and restart |
| `PermissionsMysql` | a cluster on MySQL: several servers, unlocked reloads, the loop of `RemoveGroup` |
| `MembershipRegistry` | the abstract specification: one request changes one membership |
| `PointsLedger` | the abstract specification of points: a request moves its amount once or not at all |
| `ShopLedger` | everything that moves ArkShop's points, on one server or a cluster: store, kits, sales, trades (`Store.cpp`, `StoreSell.cpp`, `Kits.cpp`, `Points.cpp`), the death hooks of ShopRewards, what operators type |
| `ShopKits` | the JSON document of kit amounts, read, changed and written back whole (`Kits.cpp`), on one server or a cluster |
| `TimedRewards` | the reward tasks of online players and the timer (`TimedRewards.cpp`) |
| `TeleportTimers` | the delayed teleports of ArkHomes: list, map of timers, detached threads, frozen players and dinos (`HomeSystem.cpp`, `Teleport.cpp`, `Helper.cpp`, `Helper.h`) |
| `StructuresLimit` | counters of structures against what stands |
| `NoCollision` | the builders in memory and in the table |
| `TribeMotd` | the messages of tribes and players, check-then-insert |
| `SafeZones` | the list of zones, the configuration and its reloads (`SafeZoneManager.cpp`, `Commands.cpp`) |
| `DelayedTasks` | the timer of SafeZone (`SzTools.h`), with the tasks that move a player to a spawn point |
| `Plugins` | the five small plugins side by side, one in each behaviour; they share no state |
| `MC*` | the instances for TLC |
| `*_proofs` | lemmas and theorems |

**State of Permissions.** `db` is the three tables, `cache` the three maps, both functions on one set of keys;
`lock` the three mutexes; `at` and `read` (and `got`) the progress of each reload; `pc`,
`cmd` and `list` how far the game thread is in its command and the list it copied; `online`,
`now` and `faults` the environment. Comma-separated lists are sets, names are model values.

**Steps of Permissions.** A command is taken apart where another thread, another server or a crash can tell:
`Insert` and `CacheRow` (`AddPlayer`/`AddTribe`), `Check` (all guards, and the copy of the
list), `Update` (the statement), `Apply` (the change of the cache). Guards and copy are one step
although they lock a mutex several times (`SqlLiteDB.h:235-241`), so a reload that is assigned
between a guard and the copy is not modelled: on SQLite it brings rows equal to those of the cache,
unless its SELECT failed half way; on MySQL it may also bring older ones. The shared database is not read by
the guards. A query of MySQL that fails may have been executed and its answer lost
(`MysqlDB.h:235`), and the command then treats it as failed. A reload
is `DatabaseSync`, then per map `SyncRead` and `SyncAssign`.

**State of the ledger.** `points` is the column Points, `online` the server each player plays
on, `pc` and `cmd` the command in the game thread of each server, `faults` how many steps have
failed. `due` is a history variable: the points a player ought to own when only what was
delivered counts as paid. No action reads it.

**Steps of the ledger.** The first step of a command runs from its beginning to the balance
it reads (`Buy`, `Trade`, `Kill`, ...); what the player does not learn the difference of is one
action (an item, an engram and a beacon differ only in what the game is told to give). Each
statement after it is a step: `Spend`, `Deliver`, `Credit`, because another server may act
in between. A failing read refuses the command and is the command not beginning. A failing
write either did nothing (`"update"`) or was executed and its answer lost (`"reply"`);
the code treats both alike. `Trade` looks for the receiver after it has read the balance
(`Refuse`). A crash forgets the command.

**Kits.** The same shape: a command begins with what it checks (`Redeem`, `Buy`, `Change`),
`Load` is the SELECT of the document inside `ChangeKitAmount`, `Save` its UPDATE, `Give` the
delivery that `RedeemKit` makes when the UPDATE succeeded. `InitKitData`, which `ShowItems` calls
for ArkShopUI, goes the same way and writes the document back with an entry for every kit. A SELECT that fails returns `{}`, that is a
player with the default amounts. `due` is again what a player ought to own. The price of a kit
is in the ledger; the two modules meet at `Buy`, which begins where the price has been spent.

**Timed rewards.** `online` is the map of tasks with the time left; `HandleNewPlayer` and `Logout`
are the hooks, and the game may close a lost connection after its player has come back. `since` is
a history variable: the time since the last reward or else the first login, none before that. The
points of a reward are the action `Grant` of the ledger.

**ArkHomes.** Commands and hooks run on the game thread, whose progress is `game`; each timer is
a thread of its own, with its progress in `timers`. Between any two steps another thread may act, as the
list, `Timer::threads` and the flags of the characters are shared without a lock.

| code | steps |
|---|---|
| `/home`, `/tp` | `Admit` (all refusals), `StartTimer` (the constructor of `Timer`: the thread may run from here on), `Enlist` (`push_back`), `Bind` and `BindMount` (`DisableInput`: the character, then the dino it rides by then) |
| `TakeDamage` hook | `Hit` (find), `TakeOff` (erase), `Strike` (`threads.erase`), `Free` and `FreeMount`, then the message |
| `Die` hook | `Fall` (find), `TakeOff`, `Die` (the rider leaves its dino) |
| a timer's task | `Wake` (compare the number), `Claim` (erase it), `Look` (alive, and found in the list), `EraseFound`, `Arrive` and `Release` (moved, and given back its input), `Pay` (the fare) |

One statement on the list or the map is a step; so is the writing of the two flags of one body.
`Erase` is what an iterator found earlier does by the time it is used: it takes off whoever stands at
that place by then; `Unlist` is `erase(remove(first, last, *it))` with what the reference does to
it. `Pay` subtracts the fare as ArkShop's `SpendPoints` does, without a look at the balance.
Delays are abstracted: a timer wakes at any time after it was started, also before its player is on the list.
`raced` is a history variable. It becomes true when a thread acts on a player that
another thread is in the middle of a task, command or hook for, or changes the list between
another's find and erase. All properties but the type invariant are stated until then.

**The small plugins** keep to the game thread. `StructuresLimit` counts before the game decides,
and never lowers a counter but at the recount. `NoCollision` and `TribeMotd` may have their
statements fail. `SafeZones` makes the loop of the reload run over the array that it shortens, visit by visit (`Visited`),
with what the slots hold that it has given up (`Stale`);
`DelayedTasks` makes `Update` run over the vector that its tasks lengthen and it shortens, with
the capacity the vector has, as whether a push moves the vector decides if the task is erased.
Dinos that appear and characters that a zone pushed back have tasks in the same vector.

**Undefined behaviour.** `RemoveAt` with a stale index (`SqlLiteDB.h:478`) removes some entry
or kills the process; what callbacks report is an arbitrary set at each evaluation, which
covers the uninitialised `hasCheckedCallbacks`; locking `playersMutex` twice in
`GetGroupMembers` throws in the library the plugin is built with, and the command ends or the
process dies. An iterator of ArkHomes that has been shifted past the end of the list may name
any player; the visits a reload of SafeZone makes beyond the shortened array read a name that
the array held, or none; the slots of a vector that has moved, or was shortened, are empty
pointers.

## 3. Runs

| run | checks | shows |
|---|---|---|
| `permissions_sqlite` | `TypeOK`, `DbCacheCoherent`, `RegistryInDb`, `RegistryInCache` | one player in a tribe, both groups, every operation, a callback that may report `Admins`, a timed membership that expires, one failing UPDATE, crashes: cache and table agree outside the record being written, and each implements the registry |
| `permissions_sqlite_faults` | `CommandsFinish`, `Reconciled` | with any one statement failing every command ends, and once commands stop the caches come back to the tables |
| `permissions_sqlite_removegroup` | `RemoveGroupDeletes` (violated) | `RemoveGroup` does not reach its DELETE once a player is cached |
| `permissions_mysql` | `TypeOK`, `RevocationFinal` | two servers writing whole lists, any one query failing: a permanent membership that is gone everywhere comes back only by the command that grants it; players' lists from both servers, tribes' with timed memberships. Commands on groups' permissions are in it for the types |
| `permissions_mysql_groups` | `Reconciled`, `CommandsFinish` | one server, with timed memberships, and with the loop of `RemoveGroup`: every command ends and the cache settles on the tables |
| `shop_cluster` | `TypeOK`, `NoOverdraft`, `ImplementsLedger` | two servers, two players who buy, trade, sell, are fined and rewarded, two failures: no account is overdrawn though no UPDATE looks at the balance, and every command is one of the abstract ledger's requests |
| `shop_accounts` | `Conserved` | all operations: no points are created, each failure loses at most one amount |
| `kits` | `TypeOK`, `KitsConserved`, `NoFreeKits` | two kits, one with a default amount; players on two servers, or operators and the showing of the shop too on one; two failures: writing documents back whole undoes nothing, a failure costs at most the kits of one command, nobody is given a kit it does not own |
| `homes` | `TypeOK`, `FrozenIsServed`, `MountsFollow`, `ListedIsPending`, `InterruptedStays`, `DiedStays`, `FaresCovered`, `OnlyLastMoves`, `InputComesBack` | two players, one dino, up to three requests, step by step until a race: who is frozen is about to be served and gets its input back; interrupted, outlived and superseded requests move nobody; fares overdraw nobody who spends nothing else |
| `homes_untrue` | `InterruptIsTrue` (violated) | a player listed around another one stays listed once, and a later hit tells it that a teleport was interrupted |
| `plugins` | `CountsCover`, `WithinLimit`, `NotRefusedForEver`; `AddedStays`; `OnlineOnly`, `Spaced`, `OnlineEarns`; `ChangedIsKept`, `SeesWhatWasSet`; `ZonesStand`, `LeftoversFade`; `MovedInTheEnd` | StructuresLimit, NoCollision, TimedRewards, TribeMotd and SafeZone, which share nothing, one in each behaviour |
| `nocollision_removed` | `RemovedStays` (violated) | a removed builder is one again after a restart |

**Bounds of Permissions.** One player suffices for the races of one row, and the rows of a table never depend
on each other outside `RemoveGroup`; the two groups that must exist are all the groups
(`AddGroup` and `RemoveGroup` act on them). `MaxFaults` = 1 makes every single failure happen at every
place; `MaxNow` = 1 with a duration of 1 makes a timed membership be in force and expire. One
worker per server lets a reload overlap every step of a command; two reloads at a time only
reorder their assignments (the proofs are for any number of workers). Two servers suffice for
a lost update; on MySQL any one query fails, but for tribes, whose statements are those of players.
All commands on all servers at once are too many states: the variable `scope` of
`MCPermissionsMysql` keeps each behaviour to players' lists from both servers, or to one of the other
groups of commands from one server, with the other server's reloads; the liveness of `permissions_mysql_groups` is
checked with one server.

**Bounds of ArkShop.** Two players (payer and payee), the
amounts 1 and 2, so that balances can be exactly enough, one short or more than enough, and
two failures, so that a refund or a second server can fail as well. `MaxPoints` ends the
earning: an account holds two purchases at once, or four points in all. `MinPoints` ends the
charging of operators. Players and servers are symmetric. The variables `kills` and `operators`
of `MCShopLedger` and `MCShopKits` decide for a whole behaviour whether it has the commands
that are promised nothing on several servers; one that has them uses one server. `MaxOwned` = 2 ends the buying of kits.

**Bounds of the others.** Three requests by two players are what it takes to list one twice
around the other; a dino, points that are too few or are spent, and a third request are spread over three
kinds of behaviours (`scope` of `MCTeleportTimers`); in the last nobody comes back to life before all are
dead. A behaviour ends with its first race, as nothing is promised after it, and the player that asks
first is always the same, as the two are interchangeable. Three turrets and two walls, against limits of two turrets
and three structures in all, reach either limit by itself. Three zones in the file make a reload skip one, a fourth name is that of another
plugin's zone; three reloads bring a name that was skipped to the front; two commands, edits or
calls of other plugins come between. With room for two tasks the vector grows from nothing,
moves at each of the first pushes and then not.

**Fairness.** The points and the kits state none: their commands are straight-line code. In Permissions, the steps of a command that has begun and those of the reloads are fair: the
threads run, and the timer queues a reload every `SyncFrequency` seconds for ever. Taking a
mutex is strongly fair, as the reload gives each of them up for at least twenty seconds
(`Main.cpp:952-956`). In ArkHomes the detached threads are fair: each sleeps, wakes and runs to
its end; and the game thread ends the command or hook it has begun (`Proceed`). In `StructuresLimit`, `TimedRewards` and `DelayedTasks` the callback of the timer is
called again and again, and time passes. No player or operator has to do anything, players need not leave, and
crashes are never fair.

**Not promised.** On MySQL the coherence of the SQLite back end does not hold: a stale reload
overwrites the cache and two servers lose each other's updates (`MysqlDB.h:233`): while a membership still
stands in some cache, a write may restore it, and a write from an old list drops a new one. `RevocationFinal`,
of what is gone everywhere, and, on one server, `Reconciled` and `CommandsFinish` are what is left, and are what
the runs check. Of permissions `RevocationFinal` says nothing: those of `Admins` come back at every
start (`MysqlDB.h:57-60`). A failed SELECT empties the cache on
either back end until the next reload; `DbCacheCoherent` is checked and proved without failing
reads and INSERTs, `Reconciled` with them. `RemoveGroup` on MySQL leaves timed members, and those whose removal failed,
entered in a deleted group (`MysqlDB.h:334`).

On MySQL `NoOverdraft` does not hold when ShopRewards fines the victims of kills, or operators
correct points, while the player acts on another server (a victim may be the sleeping body of
a player who is on another map), and on neither back end when an operator charges more than
there is, when `NegativePoints` is set, or when the fare of a home teleport, which ArkHomes compares
with the balance at the request and spends unseen at arrival, meets another charge (`FaresCovered` is of fares alone). `shop_cluster` and the theorems leave these out, and say so.
The same goes for kits: an operator's `ChangeKitAmount` on another server than the player's
writes back a document that the player's command may have changed meanwhile, and undoes it.
A SELECT that fails (`Kits.cpp:20`, `181`) gives used-up kits with a default amount back, and the entries of
other kits are lost when the document is then written: the properties of kits are stated of
players whose documents could be read, and `NoFreeKits` also of all kits without a default amount.

In ArkHomes nothing locks the list, the map and the flags, and after a race nothing is promised. Between the look of
`DoTp` into the list (`HomeSystem.cpp:425`) and the moving of the player (`:432`) a hit may call the
teleport off and report it, and the player is moved nevertheless. A task that comes between the find and the
erase of a hook (`:573-577`, `:594-598`) makes the hook take off another player, who is left frozen, or
nobody. A timer that wakes before its player is on the list (`:548-550`) finds nobody to move, and the
player is then frozen for ever. And a `/tp` between the two halves of an older timer's
`DisableInput` leaves a dino frozen under a rider who is not. `raced` is true from the first such step. A dino its
rider leaves while both are frozen stays frozen (`left`). That the fare could not be spent is ignored at
`HomeSystem.cpp:450`, and the player told of a charge; a player that spends points on something
else while a timer runs is overdrawn by the fare (`spent`). `DiedStays` and
`ListedIsPending` are of players who use only `/home`; `/tp` does not look at the list.

`OnlineEarns` leaves out a player whose lost connection is closed after its next login, which takes the
new task away, and one whose row could not be inserted. `SeesWhatWasSet` leaves out those whose check failed
(a second row of a player makes every later query of it throw, and nothing is shown); that
"RemovedMotd" is sent though nothing was removed is not a promise either. The limits of structures
are not promised to a tribe that took over structures of another, or whose limit was lowered, to placements
without a controller (`StructuresLimit.cpp:119`), nor in
the first seconds of a plugin loaded into a running server. A reload of SafeZone leaves about
every other zone of the file as it was, with its old settings and without a trigger sphere, so that nobody enters
or leaves it; `LeftoversFade` says that this does not last. It may remove a zone of another
plugin whose name the file once had, and destroys the trigger spheres of all the others. A player who waited for
a character may be moved to the spawn point more than once (`Hooks.cpp:193` while the vector moves).

## 4. Proofs

`PermissionsSqlite_proofs` proves for every set of players, tribes, groups and permissions, any
number of workers and any bounds:

- `TypeCorrect`: the type invariant and `Phase` (which commands each phase can be in), with
  every kind of failure;
- `Coherent`: `DbCacheCoherent`, outside the record being written;
- `DbImplementsRegistry`: the membership columns implement `MembershipRegistry`, every step
  mapping to one of its steps or to a stutter;
- `CacheImplementsRegistry`: the memberships that the caches serve implement it too.

The last three assume `Faults \subseteq {"update"}`: after a failed SELECT or INSERT the
statements do not hold (see above). They rest on `IInv`, the inductive strengthening: while a
command is between its write and its change of the cache, the cache and every reload under
way may hold the record as it was before or after the write, and `Pending` says that the
command's change takes either of them to the database's record; `Planned` says that the list
about to be written is the table's list with the command's change; `LocksHeld` ties a reload
that has read to the mutex it holds. For the registry in the caches that is not enough: a reload must not
take back what a command has shown. `ReadsAhead` says so: the rows it has read have the groups the cache has, or
differ by the very change the command is about to make (`Ahead`), for while the reload
holds the mutex nothing else has changed the map. `RowCached` adds that a new row finds no
older one. `permissions_sqlite` was also run with `IInv` and `CacheIInv` as invariants.
The constants' assumptions are `KeysAssumption` and `FaultsAssumption`.

`PermissionsMysql_proofs` proves for any number of servers, reloads, players, tribes and groups, with every
kind of failure:

- `ClusterTypeCorrect`: the type invariant and `Phase`, one lemma per action. A step of a game
  thread changes one entry of each variable of the cluster, and `OneServer` says that
  it is enough to look at that entry (`Here`), at the tables and at the reloads;
- `RevocationStays`: `RevocationFinal`. `Gone` speaks of all the places a membership could come back from: the table,
  every cache, every reload under way, every list about to be written (memberships of players and tribes; permissions are not in it). Each action
  leaves each of them without it (`CheckGone`, `WriteGone`, ...) while no server is at the command that
  grants it (`Ungranted`): lists are copied from caches, caches from tables or from lists.

`ShopLedger_proofs` proves for all sets of servers, players and amounts, and every bound:

- `TypeCorrect`: the type invariant and `Phase` (which command each step can be in, that its
  accounts exist, and that a payer plays on the server of its command);
- `Conservation`: `Conserved`, with every operation and every fault. Its induction needs `Books`: a
  player without an account is owed nothing. Each step changes what a player has lost by nothing,
  or by at most `MaxAmount` when it fails (`Balanced`), one lemma per group of actions;
- `NoDebt`: `NoOverdraft`, from `Guarded` (no charging operator; and one server, or no kills and
  corrections). The strengthening is `Backed`: the balance of every command between its read
  and its UPDATE still covers the amount. Two commands with one payer would have to run on
  the one server it plays on, which runs one command at a time;
- `Refinement`: `ImplementsLedger`, from `Guarded` without corrections. The ledger's balance is
  the column plus what a command has taken and not yet used, so that spending is a stutter and
  delivery pays.

Their one assumption on the constants is `LedgerAssumption`.

`ShopKits_proofs` proves for all sets of servers, players and kits, any default amounts and every bound:

- `TypeCorrect`: the type invariant, with `Phase` (which command each step can be in, and that a
  player's own command runs where it plays);
- `Conservation`: `KitsConserved`, and `NothingForFree`: `NoFreeKits`, from `Guarded` (no operators, or one
  server). Neither is inductive: that a document is written back whole is harmless only while
  it is the row's. `Backed` says so: the document of a command that is about to write is
  the one in the row, if it could be read, and a kit about to be redeemed is still there.
  It rests on `Alone`: two commands under way have different players. `Books` says that no kit
  appears even of a player whose document could not be read, if it has no default amount.

Their assumption on the constants is `KitsAssumption`.

`StructuresLimit_proofs` proves for any finite set of structures and any limits `Covered`
(`CountsCover`) and `Limited` (`WithinLimit`). The second rests on the first: a placement
is let in by counters, which cover what stands. Both are one inductive invariant with the
type invariant; a placement adds one to what stands of its tribe and its type (`Placed`), a destruction
adds nothing (`Destroyed`). The assumption is `LimitsAssumption`.

`TeleportTimers_proofs` proves for any players, dinos, fares and numbers of requests:

- `TimersTyped`: the type invariant, with `Bounds`: the list is never longer than the requests made. Taking
  players off it (`Unlist`) only shortens it: what stays is selected by place
  (`Selected`), and `SelectedPlaces` shows that the order of the places that stay is one to one with
  the places of the new list;
- `Interrupted` (`InterruptedStays`) and `LastMoves` (`OnlyLastMoves`). The strengthening: the number
  a player has in `Timer::threads` is that of its last timer (`Numbers`), so a task that nothing raced
  is that of the last timer (`Tasks`), and a request that was called off has no number left to be
  found by and sleeps or is over until a race (`Struck`);
- `Frozen` (`FrozenIsServed`), `ListPending` (`ListedIsPending`), `Died` (`DiedStays`) and `Fares` (`FaresCovered`),
  from one strengthening, `Promised`: of every player, what it is owed at each label of the command, hook
  or task that is at it (`Stage`), and in between that its frozen input comes with a place in the list and a
  timer on the way (`Served`), that a player of `/home` is listed once, alive and with such a timer (`Alone`), that the
  timers it died after will not find it listed (`Outlived`), and that its balance covers the fare to come
  (`Covered`). Until a race the game thread and the tasks are at different players (`Apart`), and whoever found a player
  knows its place still (`Places`), so that `Unlist`, which takes off whoever is at that place, takes off the right one
  (`Unlisted`) and every step concerns one player alone (`GameElsewhere`, `TimerElsewhere`).
  `homes` was also run with all of these as invariants;
- `Mounts` (`MountsFollow`), from what is known of the two halves of `DisableInput` (`Binding`, `Follows`).

`Numbers` holds races or not; `Tasks`, `Apart` and `Places` are what a race breaks.

`TimersAssumption` says that no player is a dino.

`Plugins_proofs` proves for any constants, each both of the plugin by itself and of `Plugins`, where
the others may have stepped in between (`PluginsStep`):

- `Added` (`AddedStays`): whose row is neither unwritten nor unread is in the table, which is what
  a restart of NoCollision reads (`BuildersInv`);
- `Online` (`OnlineOnly`) and `RewardsSpaced` (`Spaced`). Logins and logouts come between two
  rewards; what they keep is `Elapsed`: the time since the last reward (or the first login) and the time to the next are at
  least an interval together. `RewardsAssumption` says that the interval is positive and `NoTask` no number;
- `Confirmed` (`ChangedIsKept`) and `Seen` (`SeesWhatWasSet`). A tribe never has two rows (`OneRow`),
  because the index refuses the INSERT after a check that failed; and but for those of whom a
  check failed, the row and the confirmation are the same (`Agreed`). `MotdAssumption` says that players, tribes and
  messages are different things;
- `Stand` (`ZonesStand`) and `Fade` (`LeftoversFade`). The loop of a reload is a recursive function of the number of
  visits. `Induct` is induction over numbers stated with a set, so that it can be cited, from
  the least number outside of it (`Least`); it shows that the function exists (`Visits`) and what holds
  after each visit (`LoopEnds`): no zone has been taken away but by the array (`Part`), and a name of the array that still
  has a zone is at a place the loop has yet to visit, or has moved to the front (`Nearer`).
  `ZonesInv` adds that every name in the array once came from the file (`ever`).
  `ZonesAssumption` says that the file names zones.

`PermissionCommands_proofs` has the lemmas about the commands: what each returns, and that
tables stay tables.

Only model-checked: the liveness properties (`CommandsFinish`, `Reconciled`,
`InputComesBack`, `NotRefusedForEver`, `OnlineEarns`, `MovedInTheEnd`), which the prover does not reach; the timer of
SafeZone (`DelayedTasks`), of which only liveness is asked and whose loop is a fold; and the
violations, which are single behaviours. Every other property of a run is a theorem.

## 5. What is not modelled

The text of names, lists and messages, with the differences between NOCASE columns,
`std::string` keys and `FString` comparison; the parsing of commands and the listings; the
cached results of callbacks; the use of one MySQL connection by two threads (what the library does then
is not in the repository); integer overflow of durations and of `price * amount`. Of the shop:
TotalSpent, which only a listing reads; the duplicate rows that SQLite gets at each spawn (the
first is the one read, and an UPDATE changes all alike); a logout that comes after the next
login, but for the reward task; what the game does with an item, an engram or a command it was told to give; the
statistics of ShopRewards, which decide nothing. Of ArkHomes: the table of homes and the cooldowns, where a
teleport goes, what a player does that has left while a timer runs (its controller is used
after it is gone, whose outcome the repository does not say), and what becomes of the vector or the map when
two threads are inside one call on it (each such call is a step here). Of StructuresLimit: placements without a
controller. Of SafeZone: the entries of the file whose `ForMap` is another map
(`SafeZoneManager.cpp:23-28`; `file` has the names of the others), what the tasks of dinos and of those pushed back do, whom a zone protects, pushes back or kills, which is geometry of the
game and the first zone found in the list; the pair of tribes that is at war for the time of one
hit; several plugins' callbacks. Of NoCollision: the flag it sets for the time of one call.

Most of the repository's lines are vendored: seven copies of `sqlite3.c`, `json.hpp` and the
headers of MySQL and fmt. They are not modelled, nor is AtlasShop, whose plugin logic is ArkShop's over again. The other components
marked `not_modelled` in `PROJECT.json` are one hook or command that calls the game once and keeps nothing.

## 6. Plan

Done: Permissions on SQLite and MySQL with the registry; ArkShop's points and kits
and its timed rewards, the teleports of ArkHomes, StructuresLimit, TribeMotd, NoCollision, each with its
proofs, and the zones of SafeZone; the timer of SafeZone.

What could be added: `GroupCallbacks` (caching and the flag); the document
of homes; the statistics of ShopRewards.
