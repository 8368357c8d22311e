# A TLA+ verification of the game server and its client

The repository holds an Open Tibia game server in C++ (`src/sources`) and a
scripted client in JavaScript (`src/client`).  This directory holds TLA+ models
of the parts of both whose correctness depends on the order of steps of several
actors, the TLC configurations that check them on small instances, and proofs,
checked by TLAPS, for every value of the constants.

Each component is a module `M.tla`.  Proofs about `Scheduler`, `Dispatcher`,
`ServerShutdown`, `Trade`, `Party` and `Creatures` are in a module of the same
name with `_proofs`; `Trade_proofs` proves about `Houses` and `Containers` too,
`Entrance_proofs` about `Connection`, `Session` and `WaitList`, and
`Social_proofs` about `PrivateChannels`, `RuleViolations`, `Guild`, `Casting` and
`CaveBot`.
Scheduler, Dispatcher and ServerShutdown have a configuration of their own name.
The other components are checked together, by what they have to do with each
other, in `MCEntrance` (`Entrance.cfg`), `MCSocial` (`Social.cfg`) and
`MCThings` (`Things.cfg`).  A configuration `M_<question>.cfg` shows one claim of
a comment or a message of the code to be false.  `PROJECT.json` maps every
definition to the lines it models.

    tlc -workers 2 -config Scheduler.cfg Scheduler.tla
    tlc -workers 2 -config Things.cfg MCThings.tla
    tlapm Scheduler_proofs.tla

## 1. The system

The server is one process with a fixed set of threads:

* **main**: starts the server, then runs the `io_service` of the
  `ServiceManager`, so it is also the network thread; POSIX signals arrive
  here, between any two of its steps.
* **Scheduler**: holds the events to come in a priority queue and hands each
  to the Dispatcher when it is due.
* **Dispatcher**: runs tasks one at a time.  All of the game state belongs to
  this thread, so *a task is the unit of atomicity* of everything below.

Components talk through two queues.  The network thread parses a packet and
posts a task at the back of the Dispatcher's list; the Scheduler pushes tasks
at its front; tasks arm events and stop them.  Within a task components call
each other directly: a logout closes a trade, leaves a party and the channels,
removes the creature from the map and saves the player.

### Inventory

| component | state | operations | what is hard | what makes it correct |
|---|---|---|---|---|
| Scheduler (`scheduler.cpp`) | priority queue, set of live ids, thread state | `addEvent`, `stopEvent`, `stop`, `shutdown`, the thread | notification after the unlock, cancellation while the thread wakes, time | no lost wake-up; a cancelled event never runs; at most once; not early |
| Dispatcher (`dispatcher.cpp`) | task list, thread state, a mutex | `addTask` front/back, `stop`, `shutdown` with `flush`, the thread | callers on three threads, tasks that add tasks, shutdown from inside a task | order of the back tasks, at most once, nothing lost or stuck |
| Server life (`otserv.cpp`, `server.cpp`, `Game::start/shutdown`) | the services, the game state, the threads' ends | start, serve, SIGQUIT, SIGTERM, others | signal handlers between any two steps, joins at the end | saves before it stops; ends when told to |
| Sessions (`protocolgame.cpp`, `spectators.h`, `player.cpp`) | protocol -> player, player -> owner, reference counts, autosend list | login, connect, logout, release, kick, time-out | a takeover takes a second and two connections | one driver per character, no leak, no dangling reference |
| Waiting list (`waitlist.cpp`) | list of entries with time-outs | `login`, `cleanup` | entries expire while clients come back | never overfull, nobody overtaken, promised places kept |
| Trade (`Game::player...Trade`, `Player::checkTradeState`) | two state machines, item reservations | request, accept, close; every item move | any move anywhere can break an offer | mutual, atomic, what was shown is what is given |
| Party (`party.cpp`, party channel) | leader, members, invitations, back pointers | invite, join, revoke, pass, leave, disband | objects that delete themselves | pointers and lists agree |
| Connection (`connection.cpp`, `outputmessage.cpp`) | socket, write queue, timers, autosend buffers | accept, parse, send, close, time-outs | a close with writes pending, timers racing handlers | every closed connection ends; messages in order |
| Creature checks, decay (`game.cpp`) | vectors and buckets of counted references | add, remove, check | changes during the iteration | one place per object, exact counts, on time |
| Chat (`chat.cpp`) | channels, users, invitations | open, close, invite, exclude | channels outlive what they belong to | users have access |
| Guilds (`chat.cpp`, `ioguild.cpp`, `talkaction.cpp`) | ranks and invitations, in memory and in the database | found, join, leave, promote, pass, disband; load, save | each command writes one copy or both | the copies agree; one leader |
| Reports (`game.cpp`) | report -> reporter, gamemaster | report, process, close, cancel | either end logs out first | no dangling pointer; all see the same list |
| Casting (`protocolgame.cpp`, `spectators.h`) | who watches whom, who visits, references | start, watch, next stream, return, stop | protocols change players | nobody is deleted under a client |
| Houses, beds (`house.cpp`, `beds.cpp`) | owner, auctions, rent, sleepers | bid, pay, transfer, sleep | offline players, saves | one owner, paid for |
| Items and containers (`container.cpp`, `cylinder.cpp`, `Game::internal...`) | a tree of cylinders | query, move, add, remove, transform | nested boxes | no cycle, nothing lost or doubled |
| Creatures, combat, conditions, spells, weapons | creatures' attributes | think, attack, damage, conditions | formulas, large domains | - |
| Map, path finding, map files | tiles, spectators' cache | search, load | large grid | - |
| NPCs, Lua and events | script state | callbacks | what scripts do is not in the repository | - |
| Persistence (`database*.cpp`, `io*.cpp`) | SQL | load, save | external database | - |
| Other protocols (login, status, http, admin) | none of their own | one request, one answer | - | - |
| Client in JavaScript: sessions and network | the current game, promises, timers | start, stop, reconnect | callbacks of games that were given up | comes back after a loss; stays out when stopped |
| Client in JavaScript: bots (`CaveBot.js`, `Walker.js`) | way points, a path, promises, timers | start, stop, pause, resume, walk to | what slept in an `await` goes on beside what was started since | a bot that is on goes on |
| Client in JavaScript: world, display | a mirror of the world | parse, draw | - | - |

The hazards of this code, each at its line with the properties aimed at it, are
listed in `PROJECT.json`.

## 2. Plan

Most important behaviour first: the two queues everything runs through, how a
client gets in and out, then what players form with each other and own.

1. `TimerService`, `Scheduler`, `Dispatcher`, `ServerShutdown` (composition). Done.
2. `Connection`, `WaitList`, `Session`, `ClientSession`: how a player gets in
   and out. Done, composed in `MCEntrance`.
3. `Party`, `Guild`, `PrivateChannels`, `RuleViolations`, `Casting`: what
   players form with each other; `CaveBot`, a player that is a program. Done,
   composed in `MCSocial`.
4. `Trade`, `Containers`, `Decay`, `Houses`, `Creatures`: what players own and
   meet. Done, composed in `MCThings`.
5. Left: auctions and guild halls, beds, containers on tiles and body slots,
   public channels, conditions, the pool of output buffers, the other bots of
   the JavaScript client.

Abstract specifications: `TimerService` (what the Scheduler promises); a FIFO
executor for the Dispatcher and an atomic exchange for Trade are to follow.

Theorems, done: the Scheduler's invariants and that it implements
`TimerService`; order and at-most-once for the Dispatcher; that the server is made
of these two, and saves before it stops; the messages and the release of a
Connection; one driver per character and exact references; the promises and the
order of the waiting list; mutual, atomic trade of what was shown; parties; guilds;
private channels and reports; casts; the cave bot; the warnings of tenants; that
no coin or container is lost; the references of creatures.  Left: `CountedOnce` and
`DecaysOnTime` (section 4), and the invariants of the commands that are not modelled
yet.

## 3. The modules

Most of the game runs on the Dispatcher, one task at a time, so an action of
these modules is a whole handler with every call it makes; the exceptions are
the Scheduler, the Dispatcher and the Connection, where it is a block under a
lock.

### TimerService and Scheduler

`TimerService` is the promise: a requested event is cancelled or fires, never
both, or is dropped when the service ends.

`Scheduler` models every block under `m_eventLock` as one action and every
step outside the lock as another.  `AddEvent`, `StopEvent`, `Stop`, `Shutdown`
are the public functions; `Notify` is the `notify_one` that `addEvent` calls
after the unlock, so it may arrive at any later time (`eventSignals` counts
callers between the two).  The thread's program counter `spc` goes through
`Check` (the loop test, without the lock), `Wait` (which of the two waits),
`Timeout` or `Notify`, `Take` or `Skip`, and `HandOver`.  `action` is the
code's local: what the wait returned.  The queue is a set of `(id, due)`
pairs; `Earliest` leaves open which of several equal tasks is at the heap's
root.  `top()` of an empty queue is undefined, and the model ends the thread
there in the state `undefined`.  `handed` and `stopped` are history.

Runs.  `Scheduler.cfg` (three events, clock 0..4) checks `NoLostWakeup`,
`EventuallyTaken`, and through `Fate` that every behaviour implements
`TimerService`, which says more than `StoppedNeverRuns` and `RunsAtMostOnce`; those
two are proved.
`Scheduler_early` shows that the code does less than a comment says: an event
queued while the thread waits on an empty queue is taken at once.  The other
half of `TakenWhenDue` fails too, after a few more steps: a notification that
comes late reaches a wait on an empty queue and the thread pops it.  A third
comment ("this list should already be empty", of `shutdown`) is not true
either: events accepted before `stop` are dropped, which `TimerService` allows.

Bounds: with three events one can be stopped, one be in the thread's hand and
one arrive as the new top; more events repeat these roles.  Two delays (the
minimum and a longer one) give both orders of due times.  Not modelled:
spurious wake-ups of the condition variable, which would only add further ways
to break `TakenWhenDue`; the wrap of ids at 2^32.

Fairness: the thread runs when it can, a caller of `addEvent` reaches its
`notify_one`, and time passes; no fairness for callers.

### Dispatcher

Laid out like `Scheduler`.  `AddTask(front, body, expiration)` is called by
any thread or by the running task; `Notify` follows the unlock.  `Expire`
deletes a task whose expiration is over; `Begin` and `Finish` bracket the run
of a task.  `Shutdown` is called from inside a task and keeps `m_taskLock`
while `FlushRun`, `FlushNext` empty the list; `FlushRelock` is the flushed task
that locks the mutex again, after which the thread is `deadlocked`.

Run.  `Dispatcher.cfg` (three tasks) checks `TasksInOrder` and
`EventuallyTaken`, which also excludes that the shutdown leaves a task behind.
Three tasks give two of one end and one of the other, in every order, and one
in the thread's hand while two wait.  Deadlock checking is off: a deadlocked or
exited thread is an outcome of the code.  Fairness: the thread, and a caller
that has left the lock reaches its `notify_one`.

### ServerShutdown

Composes the two by `INSTANCE`: each of its steps is a step of one of them, or
of both when one thread calls into the other (`HandOver`, `SigTerm`,
`ShutdownScheduler`, ...), together with `main()`, the loader task, the
`io_service` and its three-second timer, the signal handler, and the bodies of
the tasks that matter.  `Post` and `Arm` are `addTask` and `addEvent` as a
caller sees them, dropped calls included.

The signal handler runs on the main thread, between any two of its steps, and also
while that thread holds `m_taskLock` inside `addTask`.  There `SigRelocks` locks the
mutex a second time, and the main thread is `deadlocked`.  SIGQUIT may interrupt the
handler of SIGTERM; the two tasks are then posted in the reverse order.

Runs.  `ServerShutdown.cfg`: up to two signals, of one kind or of both, at any
time.  `QuitSavesFirst` relates the Scheduler, the list and the save.
`QuitCompletes`: after SIGQUIT, whatever signals come before and after it, `main()`
returns, or in the end the process hangs in one of the seven ways of `Hung`, which
the hazards name.  Without any one of the seven the run fails.  The fifth is what a second
signal does: SIGTERM's handler calls `Dispatcher::stop`, which sets a Dispatcher that
has terminated back to closing (`dispatcher.cpp:114-119`), and a thread that goes to
wait then waits for ever.  The list is complete within the bounds below; it says what the hangs
are, and not that the server does not hang.  `ServerShutdown_hang` shows one that no
bound of the model has a part in.

Bounds: one event and one packet are enough to be queued on either side of every
stop; `MaxInputs` allows two signals, or a signal and a packet.  `capped` remembers
when a bound has dropped an event, so that no liveness claim rests on a bound.
Assumed: a signal reaches the main thread, which the kernel prefers, and not before
the loader has been posted; a signal is blocked in its own handler.  Not modelled: a
handler that interrupts the allocator, and the retry of a port by the main thread
(`server.cpp:142`).  Fairness: one condition for each thread (main with its
handlers, Scheduler, Dispatcher, the last two with the notifications under way to them),
and time; none for the operator, the clients, or a packet's choice.

### Connection

One `Connection` and its peer.  Every public function and every completion
handler holds `connectionLock` from its first line to its last, so each is one
action: `Send`, `Closing` (in the actions that close), `ParseHeader`,
`ParsePacket`, `OnWrite`, `OnTimeout`, `Destroy`.  A handler that has completed
waits to be called and cannot be taken back, neither by `close` nor by
`cancel()`; it then finds the state its caller has left.  The peer and the
operating system are external: a read or a write completes, fails, or stays
pending; a timer expires.  `sent` and `wire` are history.

Checked in `Entrance.cfg`: three messages, two packets.  `WireInOrder`: messages
leave once each, in the order of `send`, though two threads share the queue.
`ReleasedLast`: nothing is parsed once the protocol was told to release.
`Guarded`: no operation of an open connection is without its timer.
`DeliversBeforeHangUp`, `ClosedHangsUp`: a graceful close first writes what
waits, to a peer that takes it, and then shuts the socket.  Three messages give
one under way, one waiting and one arriving as the first completes.  Fairness:
the network thread calls what has completed, and the deadlines pass; none for
the peer, so a property about delivery names what it needs of the peer.

The comment at `connection.cpp:116` leaves the socket to the destructor or to
the handling of the write.  What it does not say: for a peer that takes nothing
neither comes, since `onWriteTimeout` calls `close`, which returns at once on a
connection that is closed.

### Session

The sessions of one character over three connections.  `conn` is the state of
each `Connection` (open, closed while handlers still hold it, destroyed),
`player`/`owner` the two pointers between `ProtocolGame` and `Player`, `refs`
the hand-made reference count.  A login that finds the character online closes
its client and arms `Connect` a second later.  `Closing` is
`Connection::close`, which posts `release`.

Checked in `Entrance.cfg`, with REPLACE_KICK_ON_LOGIN switched at will as a
reload of the configuration may do: `OneDriver`, `RefsCountHolders`,
`AbandonedLeaves`.  `Session_leak` refutes a comment of `protocolgame.cpp`.
A player without a client leaves at one of the checks every second, unless something
keeps it in the world: a tile without logout, a protection zone lock, a fight, a
script that refuses, a cast it watches (`player.cpp:1988-1995`).  `kept` stands for
these, and `KeptOrNot` changes it at will.  `AbandonedLeaves` says that such a player is
logged out or taken over, but for two exceptions: `isConnecting` was left set, or
something keeps it in the world again and again.
`eventConnect` belongs to the protocol that logs in, so the test of line 538
never finds a connect already scheduled for the player: two may wait at once,
and `OneDriver` is what keeps that harmless.  Three connections are the least
that lets two takeovers overlap.  Fairness: the Dispatcher, the Scheduler, and
the check every second of a player that has no client and may leave.

### WaitList

The list of `waitlist.cpp` in units of five seconds, each entry holding what
is left of its time-out.  `Login` is the whole function, its four outcomes
named; `told` is what the client was last told.  `Tick` may not pass over a
client whose time is up and whose entry is about to expire, which states the
assumption under which `PromiseKept` is meant: the client comes back when it
was told to, or gives up.

Checked in `Entrance.cfg`: four clients, room for one, one client exempt from
waiting, one whose account gains and loses premium, the others with either
kind of account, PREMIUM_SKIP_WAIT switched at will.  Three clients wait at
once, so an entry can vanish in front of, between and behind others.
`cleanup` goes through the list as the code's loop does: `kept[n]` is what is left of
the first n entries.  `PatientGetsIn` holds under fairness of time, of the clients that have waited
as told, and of somebody leaving a full server.  Its antecedent, that in the end
no account is premium and no exempt player is in, is needed: premium clients
and exempt players may keep the others out for ever.

### ClientSession

One `GameSession` of the JavaScript client.  Each login makes a new `Game`
whose promise waits for the login server (`link` "list") and then for the game
server; the connections of earlier games may still be there, and their events
reach the same session.  A step is one callback of the event loop with the
promise continuations it causes; `HandleReconnect(n)` is `n` calls of
`_handleReconnect`, since the listener for a lost connection and the catch of an
attempt can both make one.

Checked in `Entrance.cfg`, two games and two attempts: `LostComesBack`, a session
that has begun to reconnect runs again, is stopped, or reports that it has given
up.  Its one exception is in the property: an attempt that waits for a login
server which never answers (`hung`), whose promise nothing settles.  The model
also shows that two chains of retries may run side by side, and that the loss of
a game that was replaced long ago marks a running session as not running
(`GameSession.js:166`).  `Client_stop` shows that `stop()` does not end a login
that waits for the login server: the character comes in afterwards.  Fairness: timers go off, servers that answer do so.

### MCEntrance

`Connection`, `WaitList`, `Session` and `ClientSession` share no variable: a login
asks the waiting list and gets a yes or no, and each module leaves that open.
`part` chooses, once and for all, which of the four a behaviour exercises; the
others stay in their initial states, where their fairness asks for nothing.  So
the run checks the same state spaces as four runs would, in one place.  No
symmetry, because of the liveness properties; of two clients that the waiting list
treats alike, `Younger` starts as premium only when `Elder` does.  337 378 states.

### Party

Parties as addresses, since the code deletes and reuses `Party` objects.
`Withdraw` computes what `disband`, `leave`, `removeInvite` and
`clearPartyInvitations` leave behind in one task.  `ChannelUsers` follows
`sendClosePrivate`: who has no client, or has lost its pointer already, stays.

Checked in `Social.cfg`: `PartyAgrees`, `NoLonelyParty`, `NobodyThrownOut`;
`Party_channel` shows that a leaver stays in the channel.  Three players, two
addresses: a party can shrink from three to two and from two to none, and two
parties can invite the same player.

### Guild

The rank and the invitations of a player are kept twice: in the tables
(`rankid`, `invites`) and in the `Player` (`rank`, `invitations`).  A login reads
the one into the other, a logout or a save writes it back, and each command
writes one copy, or both.  `Standing` and `Invited` are what the world sees.
`SavedInvitations` follows the loop of `savePlayer` that erases while it iterates.
`GuildCrash` loses the copies in memory.

A save is one transaction and may fail.  `LeaveWorldUnsaved` is the logout whose
three attempts failed, or for which saving was switched off: the code writes a line
to the log and goes on, and the rank and the invitations of memory are gone.  A save
in the world may also be shallow, which writes the rank and not the invitations.

Checked in `Social.cfg`: `NoGhostGuild` (nothing is left of a guild that was
disbanded), `OwnerLeads`, and `StandingKept`: logging in, saving, and logging out with
a save change nobody's rank; a logout that is not saved gives the player back the
rank of the database, and changes nobody else's.  `OwnerLeads` covers the leadership
that is passed to somebody offline: of the two ranks, one is written to the database and
one to memory, the owner in the table stays behind, and still there is one leader, who
need not be the owner then (`away`).  It ends for a guild (`lapsed`) when !rook sends the
leader away without a word to its guild, when the database and memory disagree about
its leader and memory is lost, by a crash or a logout that is not saved, and when
the owner of a guild that was passed on founds another.
Bound (`OneInvitation`): one invitation at a time.

### PrivateChannels, RuleViolations

The channels a player opens and invites others to, and the reports that
gamemasters answer.  Both keep raw pointers to players, so their invariants
(`ChannelsInHand`, `ReportsInHand`) say that no pointer outlives its player.  Both
have an exception, which the module records in a history variable: `torn`, the
private channels that the loop of `removeUserFromChannels` may step over, since
`deleteChannel` erases the entry it stands on; `demoted`, that a gamemaster lost
its flag while answering, after which its logout does not close the report.
The second half of `ReportsInHand` is about the windows: nobody is shown a report
that was taken.

### Casting

A player's stream, its guests, and the players who visit it and return.  `screen`
are the `ProtocolGame` objects, `hero` the `Player` objects with their
`Spectators`.  Where a stop of a cast sends its guests and visitors back one by one,
the order among them is left open.  `PlayersStay` says that the references counted by hand are never
fewer than the holders, so that nobody is deleted under a client or the map; the
counts may exceed the holders, for a visit may leave a reference behind.  What
connect says, "You are already logged in." (`OneClient`), does not hold: a visitor
may return to a player that another client has taken over meanwhile, in six
steps.  It is stated in the module and no run checks it.

### CaveBot

The bot that takes one way point after the other and the `Walker` that takes it
there.  Both live on the timers and promises of one event loop, so an action is
one callback, and what a settled promise continues with comes before the next
callback (`Settled`).  `loop` holds the calls of `_processNextWaypoint` that are
under way.  There may be two: a pause that comes while a call sleeps in an `await`
is over when the sleep ends, and the resume has started another.  They share one
walker, whose fields each `walkTo` takes over; a walker whose path is blocked does
not count as walking, so that `walkTo` does not stop it, forgets whom it promised
an answer, and may leave a timer that `clearTimeout` cannot reach (`lost`).

Checked in `Social.cfg`: `BotGoesOn`, a bot that is neither stopped nor paused
always has something that will call it again: a timer, an `await` that ends, or a
walk that is watched.  Its exception is `missed`: a way point that comes due while
the session is not running, as after a reconnection that was lost within the three
seconds until the resume, returns with "Session not running, waiting..."
(`CaveBot.js:288`) and waits for nothing, since `_onReconnected` resumes only a bot
that is paused.  Where the player is and whether a limit of attempts is reached are
choices, so that a walk ends at all is not shown.  Bounds: two calls, one step
without an answer, paths of at most two steps, one unreachable timer of each kind;
they are the least with which two calls fight over the walker.

### MCSocial

The six modules share no state; `part` works as in `MCEntrance`.  All players and
all addresses or ids are interchangeable, and no property is about one of them
over time, so the symmetry is sound.  789 007 states.

### Trade

Items form a tree (`parent`), with the floor and the players as roots.
`RequestTrade` is `playerRequestTrade` with `internalStartTrade`; `AcceptTrade`,
`SwapItems` and `SwapFails` are the outcomes of `playerAcceptTrade`;
`CloseTrades` is `internalCloseTrade`.  `MoveItem` and `RemoveItem` stand for
every other way to move or destroy an item; `Touches` is the notification code
of `Player` that closes the trades such a move concerns.

Checked in `Things.cfg`: three players (one carries less), four items of which two
are boxes.  `PartnersAgree`; `OffersKept`: an offer stays what was shown, with
the one who made it, and apart from other offers; `SwapAtomic`.  A box in a box
and a third player are needed for the second, the weak player for the third.
The backpack that a player last got something into (`player.cpp:3180`) is taken as
destination only when it refuses the item, so that it can do no more than make the
exchange fail, which `SwapFails` has among its causes.
What the model also shows, though nothing documents otherwise: a counter item
offered after the partner has accepted is swapped without a second acceptance
(`game.cpp:3194`).

### Containers

`Game::internalMoveItem`, `internalAddItem` and `internalRemoveItem` on
containers and stacks.  `Destination`, `MayAdd`, `MaxCount` and `Without` are
`__queryDestination`, `__queryAdd`, `__queryMaxCount` and `__removeThing` of
`Container`; a move goes through all of them, with whatever index the client sends, including that of the
window's arrow to the parent.  Containers are numbered; `AboveOf` is the least set of
containers that holds one and what each of its members lies in, and `Total` adds up
the coins of the containers by their numbers.  `NothingLost`: no coin is made or lost, no stack is
empty or too large, no container gets lost or into itself.  What does not hold is
`NeverOverfull`: with an index, `__queryMaxCount` counts the room on the item
before the one the coins are aimed at (`container.cpp:350`), so a full container
may take one stack more, which the debug message at `container.cpp:497` calls a
failure.  `NeverOverfull` is stated and no run checks it; `NothingLost` would not
notice.

### Decay

Items that decay: `startDecay`, the buckets of `checkDecay`, `cleanup`, the
equipping and de-equipping that change an item's type, and the time an item keeps
while it is off.  The clock is that of `checkDecay`, a quarter of a second, so the
rounding of durations to seconds is part of the model.

`TransformItem` has the outcomes of `transformItem`: nothing, the change of the item in
place (`SetID`), and the new item in the place of the old (`ReplaceItem`).  The new one
gets no time from `copyAttributes`, so that `startDecay` finds nothing left and makes
it decay at once.  What cannot be
removed stays, flag and all, when its time is over.  `MoveEvent::EquipItem` goes on
with the item that the change returned, `DeEquipItem` with the one it was given.
The comment at `luascript.cpp:4777` says that `decayTo = 0` in items.xml stops the decay; the
code reads 0 as vanishing, and -1 as never.

`CountedOnce` relates the flag, the entries of the lists and the references;
`DecaysOnTime` compares with `due`, which counts the quarters independently.  Both make
one exception, which `stray` records: `setID` takes the flag back while a list still names the
item, so that a second `startDecay` makes a second entry and both count the item
down; and an item that stays with its flag set is in no list at all.  The references
are exact for those items too.

Checked in `Things.cfg`, two items and nine kinds: times of a second and of a second
and a half, and a quarter for what is loaded, are below, at and above the first round
of the buckets.  The ring keeps its time while it is off; the torch does not, so that putting it
out and lighting it again reaches the second entry; the body is replaced; the chest
cannot be removed; what the amulet turns into takes over the time it had left.  No kind of the run lies on top of the
others or is a door.  Bounds: two items there at a time, and a change of kind only of
an item with fewer than two entries.

### Houses

Purchase, sale by trade, rent, warnings and loss, with time in days.  A sale is
the window between its start and the moment both accept, in which other purchases
happen.  A player has gold in three places, as in the code: a purchase takes what the buyer
carries, and the rent comes wholly from the bank or wholly from the town's depot.
HOUSE_SKIP_INIT_RENT, which pays the first period, may be on or off.  `Check` pays the
houses in the order of their ids, as the iteration over `houseMap` does, and finds a
fate for each owner: the house is taken without regard to the rent (no such player,
no premium time, a long absence), the owner is passed over, the save of an owner who is
offline fails or the depot is full (`unsaved`), or nothing of this.  A warning counts
whether or not its letter comes to be read; `letters` and `lost` tell them apart.

`WarnedBeforeLost`: who loses a house for its rent was warned as often as the limit
says, about this house, since the last rent, by letters that came or were lost, and has
the rent neither in the bank nor in the depot.  That the letters were read does not
follow, since the code does not ask.  Two houses, two tenants, two warnings; each tenant has
less than the rent in bank and depot, which together would do, or enough in one or both.
`Houses_double` shows that a player can own two houses, which the messages of
`!buyhouse` and `!sellhouse` exclude.

### Creatures

Placing, removing, walking, killing, summoning, convincing, attacking and the
rounds of `checkCreatures`.  A handler is computed as a function on the record `w`
of all creatures, in the order in which the code calls back everybody who sees
the change.  `Settle` deletes whom no reference is left to, in as many rounds as
there are creatures, since a deletion may give back the last reference to another.
`RefsHeld` accounts for every reference to a creature; `PointersGood`
says that the pointers kept without one are to creatures in the world;
`SoonVisited` that whoever has to be buried, and every monster of its own that sees a
living player, is in a vector that is checked.  A dying summon may stay in another
monster's list of targets until it is released: the reference the list holds keeps
that harmless.  Bounds: a player, two monsters, two places, two vectors, and
`FewAway`: one creature removed and not yet forgotten, and one away from the rest.
`followCreature` is left out: where `onCreatureMove` asks whether the monster follows
somebody, `Notice` asks whether it attacks somebody.

### MCThings

Five modules without a common variable, composed by `part`.  Symmetry of equal
players, boxes and goods; the action properties quantify over all of them.
908 530 states.

## 4. What is proved

`Scheduler_proofs` proves, for every number of events, every clock and every
set of delays, under the assumptions `SchedulerAssumption` and
`NoneAssumption` of `Scheduler`:

* `TypeCorrect`, `StoppedNeverRunsHolds`, `RunsAtMostOnceHolds`,
  `IdsArePendingHolds`, `NoLostWakeupHolds`: `Spec => []P` for the invariants of
  `Scheduler`; the fourth says that `stopEvent` answers true only for a queued event.
* `ImplementsTimerServiceHolds`: every behaviour is one of `TimerService`.

None of the four safety properties is inductive alone.  The invariant `IInv`
adds that an id names one queued task, that ids in use are at most
`m_lastEvent`, and that a stopped id has left `m_eventIds`.  `InitIInv`,
`TypeStep` and `QueueStep` are its three facts; `WakeupStep` proves the
wake-up property on top of it: the deadline of a timed wait can be later than
the earliest task only between `addEvent`'s push and its `notify_one`.

The refinement maps an event to its `Fate`.  `FateStep` shows that `addEvent`
is a request, `stopEvent` a cancellation, `shutdown` the end, the taking of a
live task its firing, and that every other step, the hand-over included, leaves
each fate as it is; it needs all of `IInv`, because the fates are read off the
queue, the ids and the thread's hand together.

`Dispatcher_proofs`, under `DispatcherAssumption`: `TypeCorrect`,
`TasksInOrderHolds`, `RunsAtMostOnceHolds`.  The order in which two tasks run
is fixed when the second is queued, so the invariant relates every two tasks of
the history, the thread's hand and the list: `Precedes(a, b)` says that `a`, which
is before `b`, is another task, and an earlier one when both are packets.  It is
kept by `Take`, which moves the head of the list to the hand, by `Begin`, which
moves it to the history, and by `FlushRun`, which does both; `addTask` keeps it
because its task has the largest id and is put behind every packet, or is none.
What the thread holds counts only until it begins: later `m_task` is stale.

`ServerShutdown_proofs`, under `ShutdownAssumption`.  `DispatcherInside` and
`SchedulerInside` say that every behaviour of the server, signals and shutdown
included, is one of `Dispatcher` and one of `Scheduler` for the state of that part:
`DispatcherSteps` and `SchedulerSteps` name, for each step of the server, the step
of the part that it is, or that the part stutters.  So what the two modules above
prove holds in the server.  `QuitSavesFirstHolds` follows the shutdown backwards:
`SavedFirst` says, for a server that got no SIGTERM, that the shutdown is behind the
save wherever it is (about to be posted, in the list, in the Dispatcher's hand, or
done), and `Emptied` that a terminated Dispatcher has an empty list but for what the
flush still has to run, so that the packet or event that comes in between finds no
list to join.  A handler that locks a mutex of its own thread (`SigRelocks`) queues nothing;
when one signal interrupts another, `sent` has both (`BothRemembered`), so that the
claim about a server without SIGTERM does not reach it.

`Entrance_proofs`, first part, under `ConnectionAssumption`: `TypeCorrect`,
`WireInOrderHolds`, `ReleasedLastHolds`, `GuardedHolds` and, an action property,
`DeliversBeforeHangUpHolds`.  The heart of the invariant is `Counted`: as long
as anything can still be written, the peer has taken all that was accepted but
the queue, and the head of the queue too when its write has completed.  With
`QueueInOrder` it says that the next message written is the next one the peer
lacks.  `ErrorsMeanDead` is needed for the last theorem: a write fails only when
the peer has gone or the socket is shut, so what an error throws away could not
have been delivered.  `Untouched` says that nothing happens before `accept`.
`TypeStep`, `MessageStep`, `ReleaseStep` and `GuardStep` prove one group of
conjuncts each, since the groups share only the types.

`Entrance_proofs`, second part, under `SessionAssumption`: `OneDriverHolds`,
`RefsCountHoldersHolds`.  `Objects` says that the pointers between protocols and
players are each other's inverse; `Counts` states every reference; `Free` says that
a protocol that has not logged in, or has a `connect` scheduled, drives nobody, and
has only one of these; it is what keeps two scheduled connects harmless.  `Few`
bounds the objects by the protocols that have logged in, so that the bound
`MaxObjects` of the module is never met by a login.

`Entrance_proofs`, third part, under `WaitListAssumption`: `PromiseKeptHolds` and,
action properties, `NobodyOvertakesHolds`, `RoomForThoseAheadHolds`.  What
`cleanup` leaves is described by `Cleaned`: a sequence with an increasing map into
the old one that meets exactly the entries with time left.  `KeepingExists` shows
that the recursive function is what its equations say, and `CleanupDoes` that it
keeps `Cleaned`, by the least n for which it would not.  `RemovedKeeps` and
`InsertedKeeps` say what the erasing of a found entry and the insertion of a new
one do to the order.  `PromiseKept` needs only the types beside it, among them that
a client is listed once (`Once`).

`Trade_proofs`, under `TradeAssumption`: `TypeCorrect`, `PartnersAgreeHolds`,
`OffersKeptHolds` and, an action property, `SwapAtomicHolds`.  For the first the
invariant adds the types of the per-player variables and `OffersNothing`; the lemma
`CloseTradesKeeps` carries it: `internalCloseTrade` and the notifications that reach
it end the trades of a set of players and of their partners, a set that nobody
outside is a partner of.  The others are about the tree of items.  `Above` is a
recursive function there; `AboveIs` shows that it is the least set that is closed
upwards, and everything else is derived from that: two things above one item are
in line (`InLine`), a tree in which an item moves has the same sets above
whatever is not below it (`SameAbove`, `Moved`), and stays without cycles
(`NoCycle`).  `OfferIInv` then adds that nobody trades with himself, that `parent`
is a tree with its roots at players, floor or nowhere, and `OffersKept` itself.
`ClosedOffers` is the heart: what `Touches` does not find, a move does not change.
For the swap, `SwapDoes` shows that the two trees change hands and nothing else
moves, since offers share no item.

`Trade_proofs`, second part, under `HouseAssumption`: `WarnedBeforeLostHolds`, an
action property, whatever the fates that a check finds.  The invariant `HouseIInv`
says that `rentWarnings`, which the code keeps, is the number of warnings this owner was
sent since the last rent, of letters that came and of letters that were lost, and
zero for an empty house.  `AllPay` shows by the least id for which it would fail that,
when the houses up to n have paid, those after n are as they were, nobody has more gold
than before in the bank or in the depot, and whoever lost a house that was not
`taken` had all its warnings and has the rent in neither.

`Trade_proofs`, third part, under `ContainerAssumption`: `NothingLostHolds`, for any
number of containers of any capacity, any nesting and any stacks.  The inductive
invariant `ContainersIInv` gives `inside` its type, says that the coins in it are
those that were `minted`, and, by `OnePlace`, that every container but the chest is in
one place and under the chest.  For the coins, lemmas about partial sums say what a
change of one slot, or of one container, does to the sum over all, and each of the
code's operations then has one that says what it puts in or takes out.  For the
containers, a set that is closed upwards is followed through a move (`StillHangs`,
`OnePlaceOnly`): what hung under the chest still does, since the queries refuse a
destination that is inside what is moved.

`Party_proofs`, under `PartyAssumption`: `PartyAgreesHolds`,
`NoLonelyPartyHolds` and, an action property, `NobodyThrownOutHolds`.  The first two
are inductive together: a party that shrinks stays
one because the lonely are disbanded, and the disbanded are told because the
lists and pointers agree.  `WithdrawKeeps` treats leaving, revoking, `/ghost`
and logging out at once; it asks that every party that would be left lonely is
among those disbanded, and each command shows that of its own.  `AppendSet`,
`TailSet`, `PushSet` and `WithoutSet` say what the operations on the list of
members do to the set of its members.  For the third, `StepLosesOne` shows that a
step takes one pointer at most or ends a party of two.

`Creatures_proofs`, under `CreatureAssumption` alone: `RefsHeldHolds`,
`PointersGoodHolds` and `SoonVisitedHolds`, for any finite sets of creatures, any
places and any vectors.  The first follows the references through the handlers in
three layers.

* What a handler does on its way is a relation between the state before and after.
  `Calm`: no creature comes, goes, dies or gets another master, and references are
  only moved between the lists of monsters and the vectors to come; the callbacks of
  monsters are calm, whatever order they come in.  `Keeps`: creatures may also leave,
  die and lose their masters, and `Owed`, the references that nobody accounts for,
  are what they were.  Both relations compose.  `Sound`, the inductive invariant, says
  of a whole state that its fields have their types, that nothing is owed, and `Fit`:
  who is in a vector is marked so (`InVector`), and the summons of a creature have
  been in the world and know it as their master (`Bound`).
* `UnheldIs` is why `Fit` is needed: a creature without references is in no list,
  vector or place, so that `Delete` leaves no pointer behind, and gives back exactly
  what the deleted creature held.  `Cleanup` gives back what was `released`.
* A handler is a chain of folds.  `RunExists` and `RunStays` show that a fold over a
  finite set runs through a sequence of states, one for each member, and that a
  relation that every step keeps holds between its ends; they are stated for a set
  of functions in place of an operator, and each fold of the module has a lemma
  that brings it into that form (`FindAllFold`, `RemoveAllFold`, `DeleteAllFold`, ...).

The other two rest on `Minded`, an invariant of each creature in the world that is
inductive together with `Sound`.

* `Stirred`: who is awake or dead is marked to be checked and has a vector (`Heard`);
  a living monster of its own is asleep only without targets (`Bored`); a summon has
  no summons, and its master is in the world and has it among its own (`Serves`).
  `Serves` has no counterpart in the properties, and without it the removal of a master
  could leave the summon of a summon with a master that is gone.  `Keen`: a creature
  attacks whom it sees (`Aims`), and a living monster of its own has every living
  player it sees among its targets (`Knows`), so that by `Bored` it is awake.
* Within a walk `Keen` fails for the one who walks, until everybody has been called
  back, so it is stated with an exception: `Keen(w, x, e)` says nothing of `e`.
  `StepAllMinded` keeps it for those who are yet to be called and shows it whole for
  those who have been.
* What happens on the way is again a relation.  `Minds`: a monster changes its lists and
  its sleep, and no other mind; `Tends`: minds change and nobody moves; `Fares`:
  creatures also die and are set free.  `Gone` says which creatures have been removed
  and that the others are as before but for what pointed at those; `GoneStirred` needs
  that a master goes with all its summons, which `removeCreature` sees to.

`Social_proofs` has a part for each of five components.

* `ChannelsInHandHolds`: the invariant adds that an owner is never a guest of the
  same channel, without which closing and opening again would leave an owner out.
* `ReportsInHandHolds`: adds `AnsweredByStaff`; a logout looks for the reports of a
  player only if it has the flag, so this is what makes the search complete.
* `NoGhostGuildHolds`, `OwnerLeadsHolds` and, an action property,
  `StandingKeptHolds`, under `GuildAssumption`: adds the types and
  `OfflineHasNothing`, that memory holds nothing of who is not online.  `SavesKeep`
  is the lemma about logins, saves and logouts that are saved, `UnsavedKeeps` the one
  about those that are not; `SetRankDoes` says what a command does to the copy or copies
  it writes.  `OwnersLead` names the one leader of each guild (`LeadBy`), before a
  step and after it, so that a command has to show only who leads.
* `PlayersStayHolds`, under `CastingAssumption`: the invariant `InOrder` speaks of
  players that are about to be deleted, too.  A protocol that holds a reference is
  counted under the player it drives or waits to return to; `Takes`, `Returns`,
  `Turns` and `Drops` follow each reference from one count to the other.
* `BotGoesOnHolds`, under `CaveBotAssumption`: the invariant is the exact form of
  "somebody will call".  `Attended`: a loop that waits for the walker has the promise
  the walker keeps, and the walker has a timer that will not return at once.
  `Onward`: a bot that is on has a timer of its own or a loop under way.  Within a
  callback only the weaker `Paired` holds; a lemma for each function of the bot
  (`FinishKeeps`, `WalkToKeeps`, `ProcessKeeps`, ...) says which of these it needs
  and which it restores, and `BotStep` puts the callbacks together.

Some of the theorems (`TypeCorrect`, `StoppedNeverRunsHolds` and the two
`RunsAtMostOnceHolds`) are about properties that the runs no longer check, since they
follow from what the runs check or are part of the invariant.

Some functions are recursive where the code loops or climbs (`kept` of `WaitList`,
`paid` of `Houses`, `Above` of `Trade`, `Total` and `Poured` of `Containers`).  A
recursive function is a `CHOOSE`, and that some function satisfies its equations needs
a proof: `KeepingExists`, `PayingExists`, `ClimbExists` and the like give it by the
least number for which there would be none, from `WFMin` of the library.

Only model-checked:

* Liveness under fairness, and `ENABLED`, which the prover does not do:
  `EventuallyTaken`, `QuitCompletes`, `ClosedHangsUp`, `AbandonedLeaves`,
  `PatientGetsIn`, `LostComesBack`.
* `CountedOnce` and `DecaysOnTime` of `Decay`: an item that replaces another may decay
  and be replaced at once, so that `StartDecay` is recursive, and the prover cannot
  be used in a module with a recursive operator.  They are checked for the tables of the
  run, which has a kind for each outcome of `transformItem` but doors and things on top.

## 5. What is not modelled

See the notes in `PROJECT.json` for each component.

* Data races on the game state from signal handlers that run game code (SIGTRAP,
  SIGCHLD, SIGUSR2): they break the unit of atomicity every other module relies on,
  and nothing smaller than the whole game state would show what they do.
* The pool of output buffers and the chain of `sendAll` events.
* Auctions, guild halls, access lists and beds of houses; guild wars; shared
  experience of parties; public channels and mutes.
* Tiles, body slots, mailboxes, depots and teleports as places of items.
* Combat formulas, conditions, spells, weapons, spawns and raids; path finding and map
  files: formulas over large domains and data that is not code.
* The bindings to Lua and what scripts do with them, which is most of
  `luascript.cpp`, `npc.cpp`, `creatureevent.cpp` and `spells.cpp`.  That, formulas and tables
  are most of the repository, and the reason why the map covers a small share of it.
* SQL text and its results but for the guild tables; accounts and bans.
* The login, status, http and administration protocols: one request, one answer.
* The other bots of the JavaScript client (`Miner.js`, `NpcTrader.js`, the automatic
  messages and commands), which appear in `CaveBot` as pauses and awaited actions;
  its path finding, its world and its display.
