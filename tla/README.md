# Verification of opc-da-rs

TLA+ specifications of the OPC DA server and client of this repository, the
TLC configurations that check them, and TLAPS proofs. Paths are relative to
the repository; `group.rs`, `publisher.rs`, `scheduler.rs`,
`connection_point.rs` and `server.rs` are in `opc-da-server/src/objects/`,
`com_worker.rs`, `subscription.rs` and `fusion_reader.rs` in
`opc-da-client/src/`, `app.rs` in `opc-cli/src/`, `state.rs` and `commands/` in
`opc-da-desktop/src/`, `tags.rs` in `opc-da-server-sim/src/`. `PROJECT.json` maps every definition to the lines it
stands for, lists the runs, the mutants that show each property can fail, the
hazards the properties are meant for, and what the runs found.

## 1. The system

An OPC DA 2.05a server offers *groups* of *items*; a client adds items to a
group, reads and writes them, or gives the group a callback *sink* and is told
of changes. Everything goes over COM/DCOM: a call runs on a thread of the
callee's multithreaded apartment, so calls on one object overlap.

| Part | State | Operations |
|---|---|---|
| `GroupObj` (`group.rs`) | item table with `last_pushed`, name, rate, deadband, active flag (one mutex); transaction table `txns` (another); `next_cancel_id` | AddItems, RemoveItems, SetActiveState, SetState, sync Read/Write, async Read, Cancel2, Refresh2, Drop |
| `ConnectionPoint` (`connection_point.rs`) | cookie counter, table cookie -> GIT cookie | Advise, Unadvise, enumeration |
| `publisher.rs` | none | resolve the sinks, call OnDataChange / OnReadComplete |
| `Scheduler` (`scheduler.rs`), one per process | registry by key, buckets by rate (a mutex each), job queue with a Condvar | register, unregister, tick thread, worker threads |
| push filter (`opc-da-server/src/data_source.rs`) | none | should_push, normalize_variant |
| `ServerObj` (`server.rs`, `browse.rs`) | group table, handle counter, browse cursor | AddGroup, RemoveGroup, browsing, item properties |
| `ComWorker` (`com_worker.rs`) | worker thread with connection pool, subscriptions, shutdown subscriptions; request channel (32); monitor thread; `last_panic` | `send_request` for about twenty requests, start, Drop |
| health monitor (`com_worker.rs`) | registry cookie -> last update, reply of a pending rebuild, backoff | a cycle every two seconds |
| sinks (`subscription.rs`) | channel to the subscriber (256), `last_update` | OnDataChange, ShutdownRequest |
| `FusionReader` (`fusion_reader.rs`) | mode (subscribe / read), two clients, event channel | subscribe with a timeout, fall back to reads, Drop |
| terminal client (`opc-cli`) | screen, lists, one receiver per background task | keys, polls of the results |
| desktop client (`opc-da-desktop`) | client, cookies, readers, ProgID, each behind an async lock | connect, subscribe, rebuild client, disconnect |
| simulator (`opc-da-server-sim`) | table of tag types, set of ids, tree of them, two vectors of registers | read, write, item_meta, browse |
| registration (`registry.rs`), class factory | the registry's keys, under two views | /RegServer, /UnregServer, CreateInstance |
| COM wrappers (`opc_da/`, `backend/connector.rs`, `helpers.rs`) | who owns each block of memory | one wrapper for each COM call, conversions, listing and activating servers |
| generated bindings, test programs | none | |

**How the parts interact.** A client request crosses the channel to the one
worker thread, which does the COM call. On the server the call runs on any COM
thread. `GroupObj::new` registers a `PublishJob` with the scheduler; the tick
thread collects the jobs of due buckets into the queue; a worker pops one and
runs `push_one`: copy the cookies, resolve them in the Global Interface Table,
read and filter the items under the group's lock, call the sinks with no lock.
The sink on the client stamps `last_update` and forwards the values. The
monitor reads the stamps, and asks the worker by the same channel to rebuild a
subscription whose sink has been silent for too long.
A `FusionReader` owns two such clients, one that subscribes and one that reads;
the terminal client has one per command it starts; the desktop client has one
in `AppState`, which its commands clone, and as many older ones as runners and
commands still hold.

**What is hard.** Callbacks made outside the locks that chose them; tables
keyed by numbers that clients or other objects choose (transaction ids, Advise
cookies, group handles); a registry and buckets under two locks; a monitor
that works on state it has just unlocked; several ways to lose a connection
and only one of them that reconnects; teardown of two threads that share a
channel; a panic with requests queued; answers that come when their user has
gone elsewhere; commands that hold what they read before an await.

**What makes each part correct.**
A transaction ends in one way and is reported once. A subscriber that stays
comes to have the current values, and one that has left is left alone. A
registered group is served at its rate, a dropped one is forgotten. A
subscription handle names its own subscription, nothing is left on the server,
and a silent subscription is repaired. A caller of the worker always gets an
answer, and dropping the worker ends. A value read is under its own tag, an
acknowledged write has been made, and no request takes away the group of
another. A browse knows where in the address space it is. A `FusionReader` that
is dropped leaves no subscription, and its consumer knows how it gets each
value. The screen of the terminal client that takes no key always ends, and
values are shown with the place they are from. What the desktop client has
registered belongs to the client it has now, and its commands do not lock each
other out. A registration that stops anywhere can be made whole or taken back. A
value, a time or a record means the same on both sides of a call, and every block
of memory is freed once, by the side that owns it.

## 2. Modules

```
Transactions            what async transactions promise (abstract)
  ^ implemented by
AsyncIO2                transactions of one group
  AsyncIO2_proofs       theorems                             MCAsyncIO2
Deadband                the push filter (constant operators)
  Publisher             pushes of one group to its sinks     MCPublisher
    Publisher_proofs    and what is proved of Source
Scheduler               when a group's job is pushed         MCScheduler
  Scheduler_proofs
Feeds                   what a subscription promises (abstract)
  ^ implemented by
Subscriptions           worker, monitor, server as clients see it
  Subscriptions_proofs
ComWorker               life of the worker thread            MCComWorker
ComMemory               who owns the memory of a COM call
Wrappers                the calls that take or return arrays
Values                  values, times, qualities, enumerations on their way
  Records               groups, items, readings, the status on their way
GroupTable              items and state of one group, and its callers
Enumeration             strings in batches, server to client
Dispatch                a request, its attempts, the connection it uses
  Requests              reads, writes, queries and their groups     MCRequests
    Requests_proofs
  Browse                browsing, and the cursor of the server      MCBrowse
    Worker_proofs       theorems of Browse and of ComWorker
Source                  ids, values and registers of the simulator
  Namespace             its tree, and what is browsed in it         MCBrowse
Builtin                 the data sources of the server library      MCBrowse
ItemProperties          the properties of an item                   MCBrowse
Enumerators             Next, Skip, Reset, Clone, and the iterators MCBrowse
Registration            the registry, listing and activation        MCBrowse
Interfaces              what objects have and clients ask for       MCBrowse
Stream                  a browse shown while it runs                MCBrowse
Fusion                  a fusion reader, its channel, its worker    MCFusion
CliApp                  screens, keys and tasks of the terminal client   MCCliApp
  Clients_proofs        theorems of both
Desktop                 AppState and the commands that share it     MCDesktop
  Desktop_proofs
```

Everywhere, an action is what a handler does between two points at which
others can interfere: a lock taken or released, a callback, an await, a COM
call. An error path that changes nothing (an unknown handle, a null pointer)
is a step that is not taken. Code that keeps no state between calls, or that no
other thread can interfere with, is written as constant operators, and its laws
are definitions over their arguments: the modules from ComMemory to Enumeration
in the list above, those from Source to Stream, and Deadband. The MC module named
beside them says over which arguments a law is evaluated, as a part of an
invariant of its run (`CallsAreWhole`, `DiscoveryIsSound`), in the states where a client is about to make such a call.

Two modules of proofs extend two state machines each, so that their theorems name
the properties of both; there `CliApp` and `ComWorker` call their specification
`AppSpec` and `ThreadSpec`, with `AppInit`, `ThreadInit` and so on, beside the
`Spec` of `Fusion` and of `Browse`.

### AsyncIO2 and Transactions (`group.rs`, `publisher.rs`)

`txns` is the table of the same name, from transaction id to cancel id and
snapshot. `ReadBegin` is `Read` up to the cancel id (items looked up under the
group's lock), `ReadInsert` the insertion and the spawn; `WorkerTake` is
`async_read_worker` at its lock, with `remove` before the comparison as in the
code; `Cancel2` the search by cancel id; `TypedSinks`, `Notify` and `Finish`
are the callbacks, in `jobs` whichever thread makes them. `issued`, `outcome`
and `notes` are history. `DropGroup` waits for calls under way (COM holds a
reference for each) and not for worker threads. `TidPolicy` says which
transaction ids clients choose: any, or only those whose earlier use is over
(`settled`).

`Transactions` knows neither table nor thread: a transaction is accepted,
ends as completed, cancelled or superseded, and each sink is told at most
once, of that end.

### Deadband and Publisher (`data_source.rs`, `scheduler.rs`, `connection_point.rs`)

`ShouldPush` is `should_push`; floats are integers and a deadband of `d`
stands for `d/Scale` of the range. A push is `PushOne` or `Refresh2`, then
`Resolve` for each cookie, `Collect` (under the group's lock: read, filter,
remember) or `ReadFrames`, then `OnDataChange` for each sink. `sinks` is the
table of the connection point and `git` what the GIT still resolves: `Unadvise`
removes from one, then from the other, and the group's Drop only from the
second. Which worker gets the job and when is left open as long as the group lives
(`Scheduler` has that). Its Drop takes the job out of the scheduler, but not the
copies the tick has already put into the queue: `jobs`, of which `PushOne` then uses
up one each time. A client may still Advise on the connection point of a dropped
group; such a sink is served by one of these jobs or by none.
`seen` is what a subscriber was given last, `percent_deadband` what SetState
may change between and during pushes, and `gone`, in a push, the sinks that had
parted when it copied the table.

### Scheduler (`scheduler.rs`, `group.rs`)

`registry` and `bucket`/`next_tick` are the two tables, each with its lock, so
`register` and `unregister` take two steps. Instants are kept as distances from
the present and `Pass` is a millisecond; `TickNow` reads the clock before
`TickCollect` has the lock, `age` is how old the reading is. `queue` with
`Pop`, `Wait` and `SpuriousWake` is the `Mutex`/`Condvar` queue.

### Subscriptions (`com_worker.rs`, `subscription.rs`, `server.rs`)

One ProgID. Every handler of the worker is one action, with a way to fail for
each COM call that can, the `unadvise` and `remove_group` of a clean-up among them,
and for each call that changes the server one to take effect although its answer is
lost; `cache`, `subscriptions` and `registry` are the
worker's and the monitor's tables. The monitor takes a cycle in three kinds of
step, as the code does: `Scan` under the lock, `Fire` (`try_send`) without it,
`Store` under it again; `reply` holds the oneshot channels. `stale` and
`waits` stand for the comparisons of `last_update` and `next_retry_after_ms`
with the clock. On the server side a group is a connection and a handle;
`ServerKeeps` says how long it lives: as long as its `ServerObj` lists it or
the client holds it. `orphans` and `strays` are history: the groups and sinks on the
server for which such a failure, a lost answer or an entry replaced by one of the same
cookie is the reason. `Unsubscribe` chooses which of its two calls fail,
`Abandoned` what `let _ = remove_group` leaves, `Unanswered` the sink of an Advise
without an answer, and `SubscribeFailsEarly` may leave the group of an `add_group`
without one, with its handle used up. `SharedCookies` says whether connection points
count their cookies each from 1, as those of this repository do, or never repeat one, as a client
of any other server must at least hope.

`Feeds` is what whoever subscribes may count on, without any of these tables: a
subscription is asked for, accepted or refused, fed anew (`Renew`) or no more
(`Falter`) until its end is answered, by one sink at most, each of them new, and no
step but the end of the server process (`Outage`) changes what feeds two.
`Subscriptions` implements it: `status` is what the caller knows, `Fed` the cookies
of the sinks the server calls for each subscription, the `strays` apart, `Given` how
many cookies there have been; an Advise whose answer is lost uses one up (`Lost`).
That an eviction drops the `ServerObj`, with the list of its groups, and
silences nobody is part of it, since the worker holds the groups.

### ComWorker (`com_worker.rs`)

The steps of `start`, `send_request`, the worker's loop, `catch_unwind`, the
monitor's loop and `Drop`, with who holds a sender of the channel. What a
request does is left out. `Drop` cannot begin while a call borrows the worker.

### Dispatch, Requests and Browse (`com_worker.rs`, `server.rs`, `group.rs`)

`Dispatch` is `dispatch_with_retry` around any handler: `Pool` takes or makes
the connection, `Return` is its `match` on what the handler returns, `Retry`
the next turn of the loop. A handler is a sequence of COM calls, one action
each, and `at` is the call it makes next; between two of them the server
process may die (`Crash`). What the server keeps for a connection is passed to
`Dispatch` as two actions, one for a new connection and one for none.

`Requests` has the five handlers of reads and writes as one sequence,
`AddGroup`, `AddItems`, `Read` or `Write`, `RemoveGroup`, with each handler's
own early returns in `AddItemsFails` and `DataFails`: which of them removes the
group first and which does not. `groups` and `next_handle` are the table of the
`ServerObj`, where the groups of subscriptions live as well; `NewHandle` is
`alloc_handle` with its wrap-around. `log` is what the server has written for
this request, `owed` the groups the client has yet to remove. `SyncIO2` is
FALSE for this repository's server, which has no IOPCSyncIO2: every
`read_max_age` and `write_vqt` then fails and leaves its group. A value is
named by the tag it belongs to, a write by its tag and value.

`GroupTable` is a group as its callers see it: the item table with its handles,
what GetState reports, and each call of IOPCItemMgt, IOPCGroupStateMgt and
IOPCSyncIO as an operator from the group and the arguments to the group and the
answer (each holds the lock of the group while it works on the table). `Requests`
takes the items of its temporary groups, and the answers of AddItems, Read and
Write, from it. `AnswersTellTheGroup` is the law for any sequence of calls: what
the answers have told is what the group has; `ForwardedUnderItsTag` is the one
for subscriptions, where the client handle of an item is an index into the tags
of the request.

`ComMemory` works out what a call does to memory: a call is the sequence of its
allocations, writes, reads and frees on both sides, in the order of the code,
for each set of allocations that return null. `Put` is `ptr::write` into a fresh
slot, `rollback` what `QueryAvailableProperties` frees when a description cannot
be had, `Drop` the `RemoteArray` that frees its array and nothing its slots own,
`clear` the loops that have to come before it. `Requests` has `memory`, which
each of its calls adds one of the possible outcomes to.

`Wrappers` are the calls of the traits under `opc_da/client/traits/`, each with the
arrays it is given, those it checks against each other, and those it is filled.
`CallIsWhole` is the law for any arguments and any blocks the server leaves out:
counts that go over are those of the arrays, what is filled is read within its
length and freed once. `StateIsAsGiven` is the one for the optional pointers of
SetState.

`Values` has the way of a value from the text or JSON a user enters to a VARIANT,
to a register, and back to the text of a `TagValue`, with what does not fit;
FILETIMEs; qualities; and the six enumerations of `typedefs.rs`. A text is what it
parses as, a float a number of thousandths, and the widths are constants.
`Records` are groups, items, readings, values with quality and time and the
status, as COM takes them apart into arguments, pointers and parallel arrays:
`Bound` gives arguments the names of the callee, so each side is written with its
own order. Their laws say that a group has the state it was added with
(`GroupIsAsAsked`), an item its own handles, type and rights (`ItemIsAsAsked`),
that a reading looks alike read, read with a maximum age or pushed
(`ReadingIsShownAlike`), that no quality or time is written that was not given
(`VqtIsAsGiven`), and what is shown of the status (`StatusIsShown`).

`Enumeration` is `StringEnum::Next` and the `StringIterator` that asks it for a
cache of strings at a time. `Browse` lists every level through it. When a `Next`
fails, the handlers that skip errors take what came before for the whole list:
`Failures`.

`Browse` has `pos`, the cursor `browse_pos` of the `ServerObj`, and the walk of
the client: `stack` is the recursion of `browse_recursive`, `rest` the segments
`handle_browse_children` has yet to descend. Listing one level, with the ids of
its leaves, is one step; each move of the cursor is one, and may fail with its
effect or without. `tags_sink` is the list the caller may harvest: each attempt starts
its answer anew and goes on pushing to that list. `trouble` is history: has a call on
this connection failed?

### Source and Namespace (`opc-da-server-sim/src/`, `opc-da-server/src/data_source.rs`)

Constant operators, as the code is pure but for two vectors of registers, which
are an argument. An id is the sequence of its parts. `Parsed` is `parse_item`,
which takes any text that parses as a number, so that more ids parse than
exist; `Exists` has both checks the code makes. `Tree` and `InsertPath` build
the tree, `CollectLeaves` and `BrowseChildren` are the two ways it is listed.
The recursive operators are in `Namespace`, so that the theorem about
`Source`, in `Publisher_proofs`, does not reach them.

### Builtin, ItemProperties, Enumerators, Stream (`data_source.rs`, `server.rs`, `browse.rs`, `connection_point.rs`)

`Builtin` has the two sources of the server library, the one the environment
chooses, and what browsing, reading and writing them gives; hashes, from which it
takes its values, are left open. `ItemProperties` are QueryAvailableProperties,
GetItemProperties and LookupItemIDs with what the client makes of them.
`Enumerators` are the four enumerators with Next, Skip, Reset and Clone, and the
client's iterators, whose cache `YieldsTheRest` is about. `Stream` is
`browse_tags` of the desktop client: the sink it shares with the worker and the
task that empties it. `SentAsFound` holds however the passes fall: a tag is sent as
often as the worker pushed it, which is twice for one that a retry found again.

### Registration and Interfaces (`registry.rs`, `class_factory.rs`, `connector.rs`, `client/v1`..`v3`)

A registry is a function from keys, which are sequences of names, to values; the
two views of it are two first names. `Register` makes the first n of its writes,
the last one perhaps half (the key without its value), `Unregister` the first n
deletions of trees. What clients make of it is `ListServers`, `ListDetails` and
`Connect`; `Activation` and `CreateServer` are the CoCreateInstanceEx of a local
or remote server with its credentials. `RegistrationHolds` says of a registration
stopped anywhere what is listed and connected to, and that the next one repairs
it. `Interfaces` are sets of names: those an object implements, those a client
casts to with `?` and with `ok()`, and the one each operation goes through.

### Fusion (`fusion_reader.rs`, `fusion_runner.rs`)

`task` is where `run_fusion` is, `worker` with `queue` and `reply` the
`ComWorker` of the client that subscribes: it serves what is queued also for a
caller that has given up (`SubscribeTimesOut`), and ends when its client is
dropped (`Joined`). Timeouts may be up whenever what they wait for is not there.
`Send` is `tx.send().await` without a timeout, `TrySend` the `try_send` of
values. `told` is what a consumer that reads in order believes. The reader never
goes back to subscribing.

### CliApp (`app.rs`)

Each key handler and each poll of a receiver is an action with the guard its
screen gives it; keys and polls come in any order. `fetch_rx`, `browse_rx`,
`read_rx` and `write_rx` are the receivers: a task that is replaced runs on
unseen. What a task was started for is kept with it, which the program does
not do, and so a late answer can be compared with the screen it meets.

### Desktop (`state.rs`, `commands/`, `ipc/subscription_runner.rs`)

A command is cut where it awaits the client lock or a worker: `cmd` is where
each is and what it has in hand (a cloned client, cookies, a host, a user).
Clients are numbered as they are built; `Swap` is `rebuild_client` at the swap
of the client under its lock, `Rebind` and `Rehost` what follows it with other
locks. `sub` is what was subscribed, `asked` what a worker has yet to
unsubscribe. `cut_off` counts the subscriptions let go of, in the two ways the
code has: the teardown's budget ran out, or a disconnect drained a cookie and
asked a newer client for it. `TeardownEnds` and `BudgetEnds` are the ends of the
background teardown.

## 3. Runs

| Run | Question | Result |
|---|---|---|
| `AsyncIO2_txns` | any transaction ids, two calls, two items: does a transaction end once, in its own name, and does the group implement `Transactions`? | holds, 231 000 states |
| `AsyncIO2_reuse` | is a transaction ever lost, if ids are reused only when settled? | **violated** |
| `Publisher_pushes` | two workers, a Refresh2, failing sinks, a deadband that changes, Unadvise and Drop: who is called late, does a subscriber that stays come to have the current reading, does drift stay below the deadband? | holds, 439 000 states |
| `Scheduler_groups` | two groups, lag, one worker: tables, wakeups, catch-up, service | holds, 304 000 states |
| `Subscriptions_rebuild` | two subscriptions, two faults, unique cookies: handles, leaks other than by a failed clean-up or a lost answer, double sinks, repair; does what is done for one leave the other alone (does the client implement `Feeds`)? | holds, 215 000 states |
| `Subscriptions_cookies` | cookies counted per connection point, no fault: do all handles name their own subscriptions? | **violated** |
| `ComWorker_life` | three calls, a channel of two: answers, teardown, recorded panics | holds, 12 000 states |
| `Requests_serve` | any failures, rejected items, handles that wrap around: are values and errors at their own tags, do the answers of a group tell what it has, do values, times and records mean the same on both sides, are writes made in order, groups of others left alone, memory returned whichever allocation fails and whichever wrapper is called, requests answered? | holds, 395 000 states |
| `Browse_walk` | three sorts of server, any failures: does browse_children answer for its branch, is max_tags kept whatever earlier attempts pushed, is a browse without failures whole, over more than one batch? And is what a client finds of this repository's servers what they have: servers, tags, properties, interfaces? | holds, 285 000 states |
| `Fusion_reader` | late answers, panics, silence, a full channel, owner and consumer that go at any time: are values in the mode the consumer knows, is what is known unsubscribed, is nothing left? | holds, 2 900 states |
| `CliApp_session` | every key on every screen, four tasks that answer late: does Loading end, and are values shown with their place? | holds, 1 120 000 states |
| `Desktop_commands` | two commands at a time, two hosts, two subscriptions: are cookies and readers those of the current client, is a subscription ever lost, does the lock come free, do old clients go? | holds, 326 000 states |

What the violated runs show:

- `AsyncIO2_reuse`: Read, Cancel2, its callback, then a second Read with the
  same transaction id; the worker of the first Read, late, removes the entry of
  the second and drops it. The comment on `async_read_worker` says this race was
  removed. `UnsharedReadKept` is what does hold: a Read whose id is its own is
  not lost.
- `Subscriptions_cookies`: two subscriptions to this repository's server both
  get cookie 1; the second replaces the first in the tables, whose group is
  dropped, and both handles name the second. With unique cookies
  (`Subscriptions_rebuild`) all handles are right; with the cookies of this repository
  those are that no other subscription shares (`OwnHandle`), and `Inv` holds: that is
  proved (`OneOfEach`), and TLC finds it so in `Subscriptions_rebuild` with
  `SharedCookies` TRUE, three faults and `Inv` alone (513 000 states).

Known deviations that have no run of their own:

*Server.*

- A push that has resolved a sink calls it after its Unadvise has returned
  (`ROADMAP.md:56` wants none). `LateCallbacksAreInFlight` is what holds: only
  a push that had copied the table before does so.
- SetState leaves the group in the scheduler's bucket of its old rate, so the
  client's `set_subscription_rate` changes what GetState says and not the pushes.
- An inactive group is pushed like an active one, which the design document
  (2026-08-02-opc-da-server-design.md:225) does not want; no transition depends
  on that flag, so the model does without it.
- With a deadband, a frame that overtakes another one, a callback that failed
  or a Refresh2 leaves a subscriber with a value the filter takes for current:
  `SettlesWithinDeadband` speaks of undisturbed groups. With a deadband of 0
  every pass pushes, and all of this heals (`SettlesOnReading`).

- Both servers register as implementing OPC DA 1.0, 2.0 and 3.0
  (`opc-da-server.rs:22`), though a client of 1.0 or 3.0 finds interfaces missing
  (`ClientFitsServer`). A registration stopped between the categories and
  ProgID\CLSID is listed and cannot be connected to.
- LockServer does nothing and the process never ends by itself (a TODO of
  `class_factory.rs`).

*Client.*

- After an eviction, unsubscribing the older group removes the newer group
  that has the same handle on the new connection, since `handle_unsubscribe`
  uses whichever connection is pooled. The newer group lives on as long as the
  client holds it (`ServerKeeps`), so nobody goes silent.
- What a clean-up that fails leaves stays: a `remove_group` (2088, 2093, 2109, 2252)
  whose failure is ignored or logged, or an `add_group` whose answer is lost (2053),
  leaves a group on the server until its connection goes; an `unadvise` that fails in a
  rebuild (2304), or an Advise that took effect without an answer, leaves a second sink,
  and the subscriber gets each change twice as long as the group lives. `NothingLeaks`
  and `OneSink` say that there is no other way.
- After a crash of the server, subscribe fails, and fails again, until some
  read, write or rebuild evicts the connection.
- `group.read(...)?` returns past the removal of the temporary group (1176), as
  do four ways out of the writes, although `spec.md:211` says that groups are
  always removed. What holds is that an Ok answer owes none, and that a group
  left behind is never taken for another (`Inv`, `GroupsStayTheirOwners`).
- When UP fails, `browse_recursive` breaks off and returns Ok (1915), although
  `spec.md:228` calls that a hard error: `browse_tags` answers with a part of the
  tags, and the cursor stays where it is. A connection error below the first
  level is logged, and the dead connection stays in the pool. An enumeration of
  branches or by OPC_FLAT whose `Next` fails half-way is logged and taken for
  complete (1788, 1856). What holds
  whatever fails is `ChildrenOfTheBranch`, because browse_children starts at the
  root; `BrowseIsWhole` needs a connection on which no call has failed.
- A browse that `dispatch_with_retry` runs again (661-675) pushes to the list that the
  first attempt has pushed to (1754, 1881), and counts its progress on: the list may hold
  a tag once for each attempt, where `provider.rs:215` says once per discovered tag. The
  terminal client takes that list for its result after a timeout (`app.rs:351`), the
  desktop shows it as it grows (below). The answer itself has each tag once.
- `get_item_properties` drops the descriptions it was given without freeing them
  when its second call fails (`connector.rs:699`), and a status whose times cannot
  be converted leaves the string of its vendor (`typedefs.rs:103`). Nothing else
  of a request's memory is ever left, nor freed twice (`Inv`).
- `browse_tags` with `max_tags` = 0 returns one tag from a server that knows
  OPC_FLAT. `Limits` are positive.
- `handle_read` takes the k-th state and error of the answer without asking for
  their number (1181): a server that answers S_OK with null arrays ends the worker
  by a panic. `read_max_age` asks (`Get` of `Records`). `AsyncIo2Trait::write`
  compares no lengths; nothing in the repository calls it.
- `connect` makes a `v2::Server` first, which casts to IOPCItemProperties with `?`,
  although `ComServer` takes that interface for optional. A ProgID of another host
  is resolved in the local registry.
- `try_from_native` counts nanoseconds since 1601 in 64 bits, which end in 2185,
  and refuses a time before 1970, which `filetime_to_string` shows as 1970
  (`TimesComeThrough` speaks of those between). A currency between -1 and 0 is
  shown without its sign (`helpers.rs:147`; `ShownIsWhatIs`).
- SetSubscriptionRate changes the group and not the entry of the worker, so a
  rebuild that reconnects brings the old rate back (873). Shutdown subscriptions
  collide in their table like data subscriptions do; the one replaced loses its
  sink. Neither is modelled.
- The comment of `FusionReader` that every await has a timeout
  (`fusion_reader.rs:151-153`) is wrong for two: the `tx.send` of Subscribed and
  Fallback, and the unsubscribe after Subscribed could not be sent. With a
  consumer that neither drains nor closes its channel the task outlives its
  reader. The monitor's threshold (30 s) is longer than the reader's own (10 s),
  so a rebuild never repairs a reader before it falls back.

*Terminal client.*

- A late read answer switches the screen to the values, out of WriteInput, and
  after Esc. `browsed_server` may be another than the server of the tags on the
  screen, after several late answers (`app.rs:90` says it is that one), and a
  write may go to another host than the value shown was read from.
- A second write replaces the receiver of the first, whose result nobody sees.
- "Trigger a refresh" in `poll_write_result` never does: the screen is TagValues
  by then. The highlighted row may be beyond the end of a table.

- The arms for "1" and "0" of `parse_opc_value` are never reached: they are integers.

*Desktop client.*

- `browse_tags` empties the sink from `last_seen` on and counts on from there
  (`browse.rs:80`), so after a pass up to half of the tags found may wait for the end
  of the browse, and they come out of order. Each comes as often as it was found
  (`SentAsFound`): after a retry, the tags of the first attempt come twice.
- `to_opc_value` says that a number without a fraction stays an integer; 1.0
  becomes a float (`write.rs:31`).

- The comment at `state.rs:33-38`, that a teardown heals by itself, is wrong once
  its budget of 15 s is over: the runners of the cookies left keep the old
  client, whose server goes on pushing.
- `disconnect` drains the cookies before it locks the client: with a `set_host`
  in between it asks the new client for the cookies of the old one. A subscribe
  under way survives a disconnect.
- A subscription that ends by itself leaves its cookie in `active_cookies`; a
  second, later unsubscribe of it may meet a subscription that was given the
  cookie again.
- `subscribe_fusion_tags` reads host and credentials one after the other and
  registers last: its reader may be of an old host, or of the new host with the
  old user, and stays.

### Bounds

| Bound | Value | Why it is enough |
|---|---|---|
| `MaxCalls` | 2, 3 | two Reads and a Cancel2 meet on one id; the loss needs two Reads, a third call shows its surroundings |
| transaction ids | 1, 2 | small enough to equal cancel ids, so that confusing them shows |
| `MaxAdvise` | 1 | the sinks of a push do not meet, but for the GIT cookies they part with; `LateOnlyInFlight` is proved for any number |
| `MaxQueued` | 1 | a job of a dropped group meets a push that is under way on the other worker; the theorems hold for any |
| `MaxChanges` | 3 | a value drifts in two steps and the deadband changes, or a callback fails on the way |
| readings | 4 | neighbours within the deadband, ends beyond it, and a change of quality and of kind; in `MCPublisher` the item starts at the lowest, from which it can drift (`MCInit`) |
| `Deadbands` | 0, 2 of 10 | every pass pushes, or some do |
| scheduler's workers | 1, and 2 in `Publisher` | one is asleep or busy; two overtake each other |
| `Groups`, `Rates` | 2 | one to be dropped while the other stays; a rate of 0, which is 1 ms |
| `MaxLag` | 1 ms | one lag already separates "now + rate" from "next + rate" |
| `MaxQueue` | 2 | the queue has no limit in the code; two jobs are one for each group |
| `MaxFaults` | 0, 1, 2 | a crash and a failed rebuild, a call and its clean-up, both calls of an unsubscribe; the theorems hold for any |
| `MaxAttempts` | 1, 3 | the code's 3; 1 in `Browse`, where a second attempt walks like the first, on a fresh connection, and differs in what it finds in the caller's list alone, of which `BrowseInv` is proved for any number of attempts |
| `MaxHandle`, `MaxGroups` | 4, 3 | handles wrap around while groups of every owner are in the table; one handle is always free, as among 2^32 |
| calls on a group on its own | 3, on two groups | items twice, unknown, handles twice or of nothing, the counter at its end; handles up to `MaxHandle` |
| `Lists` | 6 | none, one, two items; a rejected or read-only item before a good one; one tag twice |
| `CacheSize` | 2 | 256 in the code; a full batch, a batch cut short and two of them |
| items of a call of `ComMemory` | 2, 4 properties | a slot after another; every place where the rollback can begin |
| arrays of a call of `Wrappers` | 0 to 2 entries, any blocks missing | none, one, and one after another; a null block with every count |
| widths of `Values` and `Records` | 3-bit integers, currencies of tenths, 4 ticks a second, 1970 after 5 s, 64 bits after 16 s | each end is met from both sides |
| arrays shown | up to 4 elements, 2 shown | 20 in the code; one below, at and above the end |
| `Records` | seven groups, every subset of what can be set; two readings in a frame | each field has a value of its own, so two that change places show |
| enumerators | up to 3 entries, three calls, on an enumerator and its clone | a clone in the middle, a Skip beyond the end, a Next without room |
| iterators | up to 4 entries, a cache of 2 | a full cache, one cut short, a failing batch in each place |
| library sources | 1 or 2 plants and lines, 0 or 2 sensors | two of a name in different branches; an empty level |
| registries | empty, the other server's, what is left of an attempt | every place a registration can stop, over each |
| `Stream` | four passes, up to three tags each, a retry after 1, 2, 4 or 7 tags or none | what is withheld by one pass is met by the next and by the end; a tag comes again in the same pass or in a later one |
| `MaxDepth` | 1 | 50 in the code; the tree has a branch below it |
| `Limits` | 2, 9 | less and more than there are leaves |
| `MaxChan` | 2 | 32 in the code; a rebuild and a call fill it |
| calls of `ComWorker_life` | 3 | one in hand, one queued, one waiting for room |
| counts and ids of the simulator | 1 to 3 tags of a type; nine ids that are none | missing index, another spelling of 0, a part too few or too many |
| `Buffer`, `SubBuffer` | 2 | a mode and a value fill the channel; 256 in the code, for pushed values; the theorems hold for any |
| `Hosts`, `ProgIDs`, `Tags` of `CliApp` | 2, 1, 2 | an answer of one host meets the other; a table of two rows on a page of two |
| `Slots` | 2 | two commands interleave; the theorems hold for any number |
| `Cookies`, `MaxSubs`, `MaxClients`, `MaxReaders` | 2, 2, 2, 1 | a cookie given out by both clients, one host change between |
| `Uses` | subscriptions, or data commands with readers | the sorts of command that share nothing but the client are in different sessions |

Models with bounds on what clients do come to rest, and are then checked without
deadlock detection; `ComWorker` ends with the drop, `CliApp` with Exiting. It is
on for `Subscriptions`, `Requests`, `Browse`, `Fusion` (which says where it may
stop: `Done`) and `Desktop`, where a deadlock would be commands that wait for
each other.

### Fairness

Weak fairness of threads that have something to do: the group's worker threads
and callbacks (`AsyncIO2`), each thread in a push and each idle worker
(`Publisher`; that the job comes again is `RegisteredIsServed` of `Scheduler`),
the tick thread, the workers and the passing of time (`Scheduler`), the worker
and the monitor (`Subscriptions`, `ComWorker`), the worker with a request in
hand (`Requests`, `Browse`: a COM call returns), and the two waits whose end is a
matter of the clock: silence is noticed in the end, and a backoff runs out. A
sink's callback is taken to return: one that does not keeps a scheduler worker,
and then `RegisteredIsServed` fails. In `ComWorker` an await for room in the
channel is strongly fair, because tokio's semaphore serves its waiters in
order. In `Fusion` the task, the worker and the consumer are fair: the consumer of the
desktop drains until it goes (`run_fusion_subscription`), and nothing good is
claimed of one that does not. In `CliApp` each task answers in the end, because
the provider has timeouts, and each receiver is polled in every turn of the
loop. In `Desktop` each command goes on when it can (tokio's mutex is first
come, first served), each runner sees that its stream has ended, and each worker
serves what it was asked. Clients owe nothing: no call, key, Unadvise, drop or
crash is fair.

## 4. Proofs

Eight modules of theorems, each for every value of the constants under the
assumption its module names (`AsyncAssumption`, `PublisherAssumption`, ...: that
bounds are natural numbers, that identifiers differ). None of the properties is
inductive; each proof has an invariant of named parts, a lemma for each action
or group of actions, and a step for each part it can disturb.

| Module | Theorem | States |
|---|---|---|
| `AsyncIO2_proofs` | `TypeCorrect`, `Invariance` | `TypeOK` and the inductive invariant always |
| | `CallbacksSound` | `CallbacksAreSound`: called back once at most, in its own name, never after its cancellation |
| | `SupersededSilent` | a replaced transaction is never called back |
| | `UnsharedKept` | `UnsharedReadKept`: no loss without a shared id |
| | `Refinement` | `Spec` implements `Transactions` |
| `Publisher_proofs` | `TypeCorrect`, `LateOnlyInFlight` | `LateCallbacksAreInFlight`, for any sinks, workers and refreshes |
| `Scheduler_proofs` | `TypeCorrect`, `StaysScheduled`, `NoWakeupLost`, `NoStorm` | `ScheduledWhileRegistered`, `NoLostWakeup`, `NoCatchUp`, for any groups, rates, workers and lag |
| `Worker_proofs` | `ThreadTypeCorrect`, `DropIsFinal` | `NothingRunsAfterDrop`, for any calls and capacity |
| | `WalkInvariance`, `BrowseInv` | `Inv` of `Browse` and the invariant below it, for any address space, depth, limits, attempts and cache, whatever fails |
| | `ChildrenAreOfTheBranch` | `ChildrenOfTheBranch` |
| | `BrowseWhole` | `BrowseIsWhole`: nothing missed, nothing twice, back at the root |
| `Requests_proofs` | `GroupsInvariance`, `DataInvariance` | the two inductive invariants |
| | `RequestsInv`, `GroupsKept` | `Inv`, `GroupsStayTheirOwners`, for any number of groups and any failures |
| | `MemoryReturned` | `MemoryIsReturned`, a part of `Inv`: for any lists of items, whichever are accepted, and whichever allocations fail |
| | `ReadsAreOfTheirTags` | `ReadAnswersItsTags`, for any tags and any of them refused |
| | `AckedWritesMade` | `AckedWritesAreMade`, for any list and number of attempts |
| | `AnswersTell` | what the answers of a group's calls tell is what the group has, for any calls, items and handles |
| | `ForwardedAsTagged` | a value goes under its own tag, for any list of tags |
| `Clients_proofs` | `TypeCorrect`, `Unsubscribed`, `InTheirMode` | `KnownIsUnsubscribed`, `ValuesComeInTheirMode`, for channels of any size |
| | `LoadingAwaited`, `ReadContext` | `LoadingIsAwaited`, `ReadBringsItsContext`, for any hosts, servers, tags and answers |
| `Desktop_proofs` | `StateOfTheClient` | `StateIsTheClients` (the cookies and the readers), for any commands, hosts, users and subscriptions |
| | `NoneIsLost` | `EverySubscriptionIsKept` |
| | `DisconnectIsWhole` | `DisconnectStops` |
| `Subscriptions_proofs` | `Invariance` | the inductive invariant, `TypeOK` with it, always, whatever cookies are given out |
| | `HandlesHold` | `OwnHandle`: a handle names its own subscription if no other was given its cookie; `HandleNamesItsSubscription` while cookies are apart |
| | `NothingIsLeft` | `NothingLeaks`, a part of `Inv`: all that is left on the server has one of the four reasons |
| | `OneOfEach` | `Inv`: handles, nothing left, one sink for each subscription, one rebuild under way |
| | `CookiesStayApart` | `CookiesApart`, if no cookie is given out twice |
| | `FeedsAreKept` | `ImplementsFeeds`, if no cookie is given out twice: `Spec` implements `Feeds` |
| `Publisher_proofs` | `TagsApart` | a register of the simulator belongs to one tag, for any count and whatever the parser of numbers takes |

**AsyncIO2.** At most one callback needs to know that a sink still to be called
has not been called, that a transaction has one callback in progress at most,
that its entry was in the table until then, and that a cancel id is given out
once: `IssuedOnce`, `EntriesArePending`, `JobsReportOutcomes`,
`NotesReportOutcomes`, with `CompletesItsOwnRead` and `TypeOK`.
`UnsharedReadKept` adds that the entry of a pending unshared Read is still its
own, and `Refinement` maps each action to a step of `Transactions` or to a
stutter. The module of `AsyncIO2_txns` extends the proofs.

**Publisher.** `CookiesAreNew`: cookies not yet given out are nowhere;
`PushesAreClean`: what a push still has to call had not parted, or is out of the
GIT when it has still to be resolved. Unadvise removes from the table before
it revokes, and the group's Drop revokes alone, so the second half is needed for
pushes of a group that is dropped.

**Scheduler.** Between the two steps of register and of unregister one table has
the group and the other has not. `Tables` says exactly what each phase of a
group's life leaves where: `KeysAreOwn`, `RegistryIsOfTheLiving`,
`BucketsAreOfTheLiving`; `LagIsKept` bounds the instants. `NoWakeupLost` is
inductive with the types: a push notifies, and a worker that takes a job is
awake. `DueApart`: the time since a job was due and the time until its bucket is
due again make up its rate at least, which the passing of time leaves alone.

**Subscriptions.** For any number of subscriptions and faults, any capacity of the channel
and whatever Advise makes of its cookies. `IInv` has two parts. `Tables` holds
always. `EntriesAreHeld`: the two tables have the same cookies, those of callers, and a
caller that has its cookie to itself (`Alone`) has its entry; `GroupsAreApart`: no two
entries have one group, and its handle is not given out again; `GroupsAreKnown` and
`SinksAreTheirs`: a group on the server is that of an entry or one of the `orphans`, a sink
of an entry's subscription or in an entry's group is that of its last Advise or one of the
`strays`, which makes other leaks and double sinks impossible; `LeftByFaults`: there are
orphans and strays only where a call has failed or a cookie was given out twice. The other
part, `Rebuilds`, needs the cookies to have been apart so far (`CookiesApart`), since a
replaced entry forgets its rebuild under way. `RebuildIsAwaited`: the reply of a rebuild in
the channel is the one the monitor remembers or is about to, or its entry is gone;
`RebuildsAreApart` and `AnswersAreHeld` then let the reply channels be counted
(`ReplyToSpare`), so that the monitor never lacks one. `HandlesHold`, `NothingIsLeft` and
`OneOfEach` follow for any server, this repository's included. `CookiesStayApart` and
`FeedsAreKept` are about one that gives no cookie twice (`~SharedCookies`), of which
`CookiesAreTold` says how many it has given. `FeedsAreKept` takes from
`SinksAreTheirs` that each sink but the strays is of the last Advise of an entry whose
caller holds it (`SinksAreHeld`), so that a step which lets the other groups be leaves the
other sinks, and one that ends a group ends one feed; a new sink is new because cookies are
counted in one place (`Count`).

**Requests.** Three invariants, each on top of the one before. `GInv` is about whose
groups there are: with `GroupsStayTheirOwners` and `OkOwesNothing` it has that a
request owes no group before it has made one (`NothingOwedYet`) and that one it has
yet to make finds room (`RoomIsKept`), since no subscription can come between; then
`NewHandleIsFree`, wherever the counter has wrapped around to. `DInv` is about what the
request has been answered: `AnswerIsRight` says of the result, from the data call on,
that each slot has the value of its own tag or an error, and of the log of the server
that it ends with the items acknowledged, in order; `LogIsBounded` counts what earlier
attempts may have written. That a slot gets the answer of its own item is `NewItemsAreTold`
(the handles that AddItems gives out are told apart by the table, however many are
refused), `AddedAre`, `FoundAre` and `Filling`.

**A request's memory.** `MInv` has what may be left, and that nothing has been misused; it
needs `DInv` for the arguments of the calls, which are what AddItems has told. The rest is
about `ComMemory`, for any number of items. `Entered` takes a ledger through the events of
a call; `Safe` says that from any ledger where so much is held and so much filled they
misuse nothing and leave so much (`AllocSafe`, `WriteSafe`, `ReadSafe` and `FreeSafe` for one
event, `ThenSafe` for two parts, `LoopSafe` for one part for each item). What a loop does to
the rest of the ledger is nothing, so its parts are described by the difference they make:
`Grows` allocates and fills, `Shrinks` reads and frees, and `GrowsLoop` and `ShrinksLoop`
make one of many. `Ends` is what the two sides of a call make together, if it succeeds and
if it does not: all arrays or none (`PreallocEnds`), then the answer, then the client's
reading (`FilledEnds`, `CallEnds`). `RolledBack` is the i-th description that cannot be had:
those before it and the arrays go, and the ledger is where it was. So each call has its
lemma, from `AddItemsEnds` to `GetItemPropertiesEnds`; only the latter and `GetStatusEnds`
have something to leave behind.

**A group's calls.** `AnswersTell` states `AnswersTellTheGroup` of `GroupTable` for any
group, from a new one to one whose count of handles has wrapped around, and any sequence
of calls that its handles last for. Each call goes through its items or handles by
recursion, and so does the client through the answer. `Turn` is the step of each of these
recursions and `TurnsAreTaken` shows that each has its function. Two levels follow.
`EveryTurnTells` says of a call that each turn appends an error and a result and does to
the items what a client learns from just these (`AddTurns`, `HandleTurns`), whence
`LearnedIsSo` and `AnswerIsWhole`; `OneCallMore` says of the calls that the next one leaves
what is known and what there is equal, the number of items below what was asked for
(`AskedSoFar`), so that `NewItemHandleIsVacant` finds a handle. These are inductions on
data of a fixed shape. The induction rule of the library cannot be instantiated, so
`LeastNumber` takes its place: a set of naturals that is not empty has a least element,
since < is well-founded.

**Browse.** `WalkInv` has three parts. `Placed` says which calls a request makes and
what is left to visit at each, `OnTheWay` that the cursor and what is left of the path
make the path asked for, on a connection that lives, and `ListedSoFar` that what
browse_children has listed is of that branch. `YieldsInOrder` and `CameInOrder`, again
by `LeastNumber`, say that an enumeration in batches gives a beginning of the list,
and all of it when no `Next` fails. For `BrowseIsWhole` the walk needs to know what it
has *not* listed: a leaf is `Pending` if it is under a branch that some level of
the recursion has yet to visit, and `Remains` adds those under the cursor where a
level is about to begin. `Covered` says that what remains is not in the list, that
all else is unless the list is full, that the cursor is as deep as the stack says, and
that no level has the branch it is in among those left to it (`Visits`). Listing the
branches of a level moves what is under the cursor to the branches (`RemainsBelow`,
which needs that each beginning of a leaf's path is a branch), listing leaves takes what
is directly at the cursor (`RemainsBeside`), DOWN moves a branch from the stack
to the cursor (`RemainsDown`), and UP and the end of a level leave what remains
alone. `Wholly` claims this as long as no call has failed; a connection that dies
makes the next call fail, but for the end of the first level, which makes none.

**ComWorker.** `NothingBeforeStart` and `ExitedIsEmpty`: a worker that has left its
loop has dropped its receiver and all that was queued; the drop joins it before
it returns.

**Fusion.** `OneRequest`: the queue of the worker has one request at most;
`UnsubscribeIsQueued`: a task that gave up its subscription has its request in
the queue, which is served before the worker ends. For the modes, `InMode` says
of each place in the channel what its value needs, `LastTold` which mode was sent
last, and `TaskInMode` that the task is in it.

**CliApp.** `ReadHasContext`: a read that is awaited asks for what the context
will say, whatever replaces it. **Desktop.** `LockIsHeld` and
`SubscribesOnCurrent`: who has the client lock subscribes on the current client,
so the swap cannot come between; `FreshReaders` and `FreshStarts`: a reader that
saw no swap was started from the host and user of now. `Ledger` says where each live
subscription is, and of one of the current client who it is that has taken its cookie
out of the table and awaits the answer; and
`Undisturbed`, that a disconnect alone finds the others idle. **Source.** A tag with a
register is the one of its kind and its index (`KeptId`), because its id is in
the set as well as parsed.

Only model-checked: the liveness properties (`UnsharedReadEnds`,
`SettlesOnReading`, `SettlesWithinDeadband`, `RegisteredIsServed`,
`SilenceIsRepaired`, `EveryRequestIsAnswered`, `NobodyWaits`,
`FailureIsExplained`, `ConsumerIsServed`, `DroppedLeavesNothing`, `LoadingEnds`,
`LockComesFree`, `OldClientsGo`), which need fairness and ENABLED, beyond the
provers used; `DiscoveryIsSound`, much of it about recursive operators, which no module
with a theorem may reach; and of `CallsAreWhole` the laws about conversions,
records and wrappers, which are checked over the arguments listed in `MCRequests`: its
laws about a group's answers are `AnswersTell` and `ForwardedAsTagged`.

## 5. Not modelled

The parts marked so in `PROJECT.json`, with reasons there. By size: the
generated bindings (`bindings.rs`); the drawing of the terminal client and the web
front end of the desktop client; the wrappers that pass a call on and convert
nothing (public groups, data objects, connection points); the start of COM in the
two executables; the test programs and the tests inside the source files. The
strings an enumeration leaves behind, when it runs out of memory half-way or its
reader stops with some cached, are not in `ComMemory`. Within the modelled parts:
text of errors and logs, floating-point rounding, the wrap-around of 32-bit
counters other than the group handles (4 billion calls), backoff times; the calls
that the server does not implement (E_NOTIMPL); the tests' data sources of the
server library. In `Subscriptions`: the error channel; SetSubscriptionRate and
SetKeepAlive, which only call the group of an entry, so that what they leave
behind is a rate, of which no other property speaks; and the shutdown
subscriptions, a second table with the collisions of the first and nothing that
repairs it.

Of the constant operators: the two views of the registry have no key in common,
although Windows shares some between them, and deleting a tree is one step. The
values a data source takes from a hash are any values. A date, and a text that
is not a number, are opaque.

## 6. Plan

Done: transactions, pushes, scheduler, client subscriptions, worker life, reads
and writes with their memory, values and records, browsing with the address spaces
of this repository, enumerators, item properties, registration, fusion reader,
terminal client, desktop client; proofs of every safety property of the state
machines.

Left, modules:

1. `Subscriptions`: rate and keep-alive requests, abandoned callers, shutdown
   subscriptions.
2. Compositions: `Publisher` driven by `Scheduler`, in place of the jobs that the drop
   of a group leaves on their way.

Left, theorems: laws of the constant operators for all their arguments, one component
at a time (the push filter, qualities and times).

## 7. How to run

```
tlc -workers 2 -config AsyncIO2_txns.cfg MCAsyncIO2
tlapm AsyncIO2_proofs.tla
```

and likewise for the other configurations; the name before the underscore is
the module, with `MC` in front (but for `Subscriptions`, which is checked itself).
