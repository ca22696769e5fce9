# Brainkit in TLA+

A verification development for brainkit, the in-process runtime host of this
repository: TLA+ modules of its concurrent core, TLC instances that check them,
and proofs of what matters most for every value of the parameters.

    tlc -workers 2 -config MCCallerPolicies.cfg MCCaller
    tlapm JavaScriptProofs.tla

`PROJECT.json` lists the runs, the source lines each definition stands for,
the hazards the properties are aimed at, and the theorems.

## 1. The system

A `Kit` owns one message bus, a registry of modules and, optionally, one
QuickJS runtime. Everything else is built on the bus. Programs that it deploys
are JavaScript, or AssemblyScript compiled by the embedded compiler; the
standard library of the latter, with its allocator and garbage collector, is
part of the repository and becomes part of each compiled program. What follows
is the inventory: each part, its state, its operations, and what is hard about
it.

**Caller** (`sdk/caller.go`, `sdk/call.go`). Request/reply over one shared
inbox topic. State: the map of pending calls; per call a result guarded by
`doneOnce`, a stream channel guarded by `sendMu`, the flags `streamDone` and
`envelope`; the subscriptions of the inbox and of `bus.handler.exhausted`.
Operations: `Call`, `onInbox`, `enqueue` with four buffer policies, `drain`
(which runs the user's callback), `finalize` from five kinds of goroutine,
`onFailure`, `CloseContext`. Hard: one goroutine serves all inboxes, so a full
stream of one call delays the replies of all others; a channel is closed by one
goroutine while another sends to it; two locks taken in two orders.

**Schedules** (`modules/schedules/scheduler.go`, `internal/store/sqlite/kitstore.go`).
State: a map of entries with their timers, a table of rows, a table of claims
shared by all replicas of a Kit, a draining flag. Operations: `Schedule`,
`Unschedule`, `fire`, `Restore`, `Close`. Hard: every fire is a goroutine with
two critical sections and store calls in between; a timer that was stopped may
have fired already; processes crash between publish and delete; replicas
compete for a claim in 100 ms buckets while rows hold whole seconds.

**Module mounting** (`module_mount.go`, `module_lifecycle.go`,
`module/scope.go`, called from `kit.go` and from the control module). State:
`mounted`, `modules`, `descs`, `mountOrder`, and per module a scope with its
cleanups. Operations: `Mount` (which mounts what the module requires and rolls
back when it fails), `Unmount`, `closeMounted`, `scope.Defer`, `scope.Close`.
Hard: the lock is released while a module's own `Mount` runs and while cleanups
run; cleanups fail and are retried; dependencies must outlive their dependents.

**Engine** (`internal/engine`). The kernel: a counter of handlers in flight, a
draining flag, retry and dead-letter policy, background tasks, stream
heartbeats, the order in which everything is closed. Hard: the counter is read
and incremented without a lock while a shutdown polls it; retries are
goroutines nobody waits for; a close that failed half-way is repeated.

**JavaScript bridge** (`internal/jsbridge/bridge.go`). One QuickJS context, a
mutex, a job queue filled by Go goroutines, a tracked group of goroutines that
must end before the context is freed. Operations: `Eval`, `EvalAsync`, `TryGo`,
`Schedule`, the job pump, `Interrupt`, `CloseContext`. Hard: closing waits for
goroutines that wait for the queue, two flags are changed in two steps after the
context is freed, and the lock is both the right to execute JavaScript and what
closing takes.

**JavaScript runtime and deployments** (`internal/jsruntime`,
`modulehost/resourcehost`, `modulehost/runtimehost`). State: the deployments of
the Kit, a compartment for each, and what their code registered, in two places:
`__kit_refs` in JavaScript and `resourcehost.Registry` in Go. Operations:
`Deploy`, `Teardown`, `kit.register`, `kit.unregister`, `bus.subscribe`,
`bus.on`, `bus.schedule` and their cancelling. Hard: a registration is three
steps across the language boundary and a teardown four, on threads of their
own; handlers and timers of one deployment run while another is evaluated.

**Replicas of deployments** (`internal/jsruntime/deployment.go`,
`modules/packages`). State: rows in the store, what each replica runs, events
under way. Operations: deploy, teardown, restore at start, mirror what another
replica announces. Hard: an event says only that a source changed; the row is
read at another time than the event is sent; processes stop in the middle.

**Collector** (`internal/embed/compiler/std/rt/itcms.ts`). State: three lists
of objects, a colour and two list fields in each, the place of the walk. Operations:
`__new`, `__renew`, `__link`, `__visit`, `__pin`, `__unpin`, `__collect`, and
`step`, of which each allocation does a few. Hard: the program changes the
references between any two steps, moves objects from list to list under the
walk, and two colours swap their meaning at each cycle.

**Allocator** (`std/rt/tlsf.ts`). State: linear memory tiled by blocks, free
lists by size class, two levels of bit maps. Operations: `__alloc`,
`__realloc`, `__free`, growing the memory. Hard: links, headers and payloads
share the same words; rounding in five places must agree.

**Hash tables** (`std/map.ts`, `std/set.ts`). State: buckets, a buffer of
entries in insertion order with deleted ones in it, two counters. Operations:
`set`, `get`, `has`, `delete`, `keys`, `values`, rehashing up and down. Hard:
tagged chain ends, deleted entries that are still chained, and the counter that
decides whether to grow.

**Transports** (`internal/transport`, `transports/`). Publish and subscribe
over memory, NATS, Redis or AMQP; a command router with a concurrency limit;
remote calls between namespaces. Hard: delivery order around a new
subscription, back-pressure, stopping a handler that is running.

**Plugins** (`modules/plugins`). Supervised subprocesses with a websocket each,
restart with back-off, tool registrations that live as long as a connection.

**Gateway, packages, harness, discovery, topology, observability, the command
modules, stores, secrets, SDK types, server and commands.** Thin layers over the
parts above, or I/O. `PROJECT.json` names each with the reason it is left out.

How they interact: a command arrives on the bus, the router runs its handler,
the handler replies to the caller's inbox, the Caller's inbox goroutine decides
the call. Modules lease what they register into their scope; the Kit closes the
scopes in reverse mount order, then the kernel drains handlers and closes the
Caller, the JavaScript runtime, the stores and the transport. The scheduler
publishes on the same bus and reads the kernel's draining flag. A deployment's
code registers tools, subscriptions and schedules through the Kit; a deployment
announces itself to the other replicas on the bus. The collector is called by
what the compiler emits, calls the allocator, and visits the tables.

What makes each part correct:

| Part | Safety | Liveness |
| --- | --- | --- |
| Caller | no send on a closed stream; chunks in order, none lost under back-pressure; the reply after its chunks; a clean close leaves no goroutine and no undecided call | calls with a deadline, or with a reply, return; close returns |
| Schedules | one publish per claim; a cancelled or replaced schedule is silent; nothing after close; a one-time schedule is not lost; table and map agree; what is listed keeps its timer | what has a timer is published; close returns |
| Mounting | what is required stays and is closed later; nothing leaks; one Mount per ID; what is listed is mounted; unmounted means released | (every operation is bounded by the modules' own code) |
| Engine | a drained kernel runs no handler; each failing request gets one answer | a drain ends |
| Deployments | a teardown releases what its source registered, and nothing of another's; a replica runs what it acknowledged | (commands end when the evaluated code does) |
| Collector | what can be reached is not freed; pinned objects keep their colour; `__collect` frees the rest | (`__collect` ends) |
| Allocator | no write reaches a payload; blocks tile the memory and the lists know the free ones; grown memory suffices | |
| Tables | a map in insertion order | |
| Bridge | the context is freed only when no goroutine uses it | close returns |
| Transport | order per subscription; nothing delivered after unsubscribe | a stopped handler stops |

## 2. Modules

| Module | Models | Extended or used by |
| --- | --- | --- |
| `Caller` | `sdk/caller.go`, the part of `sdk/call.go` and of `internal/transport/client.go` it meets | `MCCaller`, `MCCallerLive`, `CallerProofs` |
| `Scheduler` | `modules/schedules/scheduler.go` and the two tables it uses | `MCScheduler`, `MCSchedulerSingle`, `SchedulerProofs` |
| `ModuleMount` | `module_mount.go`, `module_lifecycle.go`, `module/scope.go` | `MCModuleMount`, `MCModuleMountScenarios`, `ModuleMountProofs` |
| `Compartments` | registration and teardown in `kit_runtime.js`, `bus.js`, `resourcehost/registry.go`, `deployment.go` | `MCRuntimeParts`, `JavaScriptProofs` |
| `Replicas` | deploy, teardown, restore and mirror in `deployment.go`, with the store | `MCRuntimeParts`, `MCReplicas`, `ReplicasProofs` |
| `Heap` | a compiled program and its references | `TriColour`, `Itcms` |
| `TriColour` | abstract incremental marking and sweeping | `TriColourProofs`, `ItcmsProofs`, and `Itcms` implements it |
| `Itcms` | `std/rt/itcms.ts` | `MCItcms`, `ItcmsProofs` |
| `Tlsf` | `std/rt/tlsf.ts` | `MCRuntimeParts` |
| `OrderedMap` | abstract: what `Map` promises | `HashTable` implements it, `HashTableProofs` |
| `HashTable` | `std/map.ts` (and `std/set.ts`, the same code without values) | `MCRuntimeParts`, `HashTableProofs` |
| `Bridge` | `internal/jsbridge/bridge.go`, the job queue of `vendor_quickjs/context.go`, the pump of `kernel_scheduling.go` | `MCRuntimeParts`, `JavaScriptProofs` |
| `MCRuntimeParts` | one run for six small systems, one in each behaviour | |
| `CallerProofs`, `SchedulerProofs`, `ModuleMountProofs`, `JavaScriptProofs`, `ReplicasProofs`, `TriColourProofs`, `ItcmsProofs`, `HashTableProofs` | theorems (section 4) | |

### Caller

Every goroutine has a program counter: `pc[c]` for the one in `Call`, `drain[c]`
for the one that runs the callback, `grace[c]` for the timers of
`finalizeAfterStreamGrace`, `inboxAt`, `failure` and `closeAt` for the three
that serve all calls. A step is what runs between two points where another
goroutine can interfere: a lock, a channel operation, `doneOnce`. `sendMu` is
held across steps only in `enqueue`, so `SendMuHeld(c)` is read off the inbox
goroutine; likewise `closeMu`. `sync.Once` is two states: `verdict[c]` says who
won, `finalized[c]` that the winner is through; whoever else calls `finalize`
waits in between, as the Go primitive has it. `select` is a choice among the
ready cases.

Data are abstracted to what the properties tell apart. A chunk is its sequence
number. A reply is a bare payload or one of two envelopes, and carries how many
chunks were published before it. A chunk that finds its call gone is
dropped, like a reply that comes late or twice.

### Scheduler

Each critical section of `Scheduler.mu` is a step, and each thing done after
unlocking (claim, publish, `Timer.Reset`, save, delete) another. `ptr` stands
for the Go pointer of an entry: a fire compares the entry it was armed for with
what the map holds. Time is a counter; `BucketTicks` and `SecondTicks` are the
two roundings of the code (100 ms for a claim, whole seconds for a row).
`Crash` loses everything but the tables. `published` is a history variable.
Cancelling, replacing and failing publishes are each switched by a constant,
`StoreFails` names the calls of the store that may return an error, and
`Operate` is `Next` without draining, closing and crashing, because several
properties hold only without one of them; section 6 says which.

A claim has three outcomes, as in the code: the row was there and the fire ends,
it was inserted and the fire publishes as its holder, or the call returned an
error, and then the fire publishes all the same, as `fire` returns early on
`err == nil && !claimed` only. `held` in a fire and in a message says which.

`Prompt` keeps the clock still while `add` is between arming a timer and
inserting the entry. The code does not promise it: a delay of zero breaks it
(section 6).

`StaysArmed` says what may take the timer of a listed schedule: the draining flag,
another claim of its bucket, and a fire that came before `add` had inserted the
entry. The three are what the code does (section 6); the property is that there
is no fourth, in any order of cancels, replacements, closes, crashes and the
critical sections of fires.

### ModuleMount

A worker is a goroutine with a stack of calls, since `Mount` calls itself for
what a module requires. The steps are the critical sections of `mountMu` and of
`scope.mu` and what lies between them. A module registers `Items` resources and
defers a cleanup for each; a resource is `held` until its cleanup succeeds.
`ViaBus` says that `Unmount` is reached only through `UnmountModule`, which looks
for dependents first.

### Compartments

`goReg` and `refs` are the two registries, `live` the tool or subscription
itself: for each key the source that made it. `call` is what the JavaScript
thread executes, one call at a time, in three steps (make it, enter it in the
Go registry, refer to it in `__kit_refs`), since each of the two bridges lets
the thread that holds `lifecycleMu` run. `op` is that thread: `RemoveBySource`,
a cleanup for each entry removed, `sweepJSRefs`, dropping the compartment,
evaluating. Tools of two sources share one name, topics belong to a source,
subscriptions and schedules get an identity nobody had. `late` is a history
variable: entries made by code whose source had been removed already, which
nothing stops and nobody removes (section 6).

### Replicas

A replica has a thread per command, one per event and one that restores, all of
which do their work under `lifecycleMu`; events are a set, as the transport
promises no order. Versions are numbers. `Stop` ends a replica's threads and
forgets what it runs; the rows stay. What evaluation does inside a replica is
left to `Compartments`.

`tracked` is `Domain.deployed`: the packages that commands to this replica have
deployed. A teardown is announced when its package is tracked or something was
removed (`news`); whether something was, is a choice of `Remove`. With `MayFail`
a store call returns an error (`Write`, the load of `Start` and of
`OnDeployed`), which the code reports or drops before it goes on, and what is
restored or mirrored may throw (`EvalThrows`), upon which the row stays and
nothing runs. The history variable `lapsed` has the sources of which a failure
was so ignored, or a teardown not announced, since the last write of their row
that succeeded. `RunsWhatItAcknowledged` excepts these: the code promises nothing
of them. It is claimed of all others, and of these again once a command has
written the row.

### Bridge

`mu` says who executes JavaScript: the pump, an evaluation, or the goroutine
that closes. Jobs are counted, since which job runs does not matter to the
close. `Send` and `Sent` are the two sides of `Schedule`, which waits for room;
`Deliver` is a job from a goroutine the bridge does not track (a subscription's
callback). `Waited`, `CloserLocks`, `Free`, `Reset` and `MarkClosed` are
`CloseContext` in the order of the code: `closing` falls before `closed` rises.
`TryGo` is called only by JavaScript and by goroutines that it started, which is
how every caller in the repository uses it; that, and not the flags, is why
nothing starts between the two. The counters of `TrackResource` and goroutines
that wait for another's `CloseContext` are left out.

### Heap, TriColour, Itcms

`Heap` holds what the program sees: allocated objects, references, the shadow
stack, globals and pins, and `Safe`: nothing that can be reached was freed. `TriColour`
adds a colour per object and three phases, and says when each colour may
change. `Itcms` has the three lists of the code as sequences, `iter` as the object
the walk is at, and colour bits whose meaning flips; `T!Spec` with the mapping at
the end of the module is the refinement, a property of the run. Its `Step` is
one call of `step`; its `Collect` calls `__collect`, during which (`collect # "no"`) only
`Step` runs. Otherwise the program does, between two steps, anything `Heap` allows
through the barriers of the code.

### Tlsf

Memory is an array of words of 4 bytes; a header, a link and a payload word are
all numbers in it, so a write that goes astray shows. The bit maps are sets of
indices. `Log2` replaces `clz`; sizes are counted in words as the code rounds
them. Payload words hold the negated name of their allocation, and
`PayloadsIntact`, a part of `NothingOverruns`, compares them.

### OrderedMap, HashTable

The buffer is a sequence of entries with their chain field, the tag bit of a
deleted entry a Boolean. `Rehash` copies the old buffer entry by entry, as a
recursive function. `HashTable` implements `OrderedMap` with `map` as the entries that
are not deleted.

## 3. Runs

| Run | Instance | What it shows |
| --- | --- | --- |
| `caller_policies` | one call, unary or with each of four policies, buffer 1, two chunks, a reply, deadline, failure, close | all of the Caller's safety properties but back-pressure |
| `caller_live` | a call with back-pressure and three chunks, in two scenarios: closed while it streams; next to a unary call without a deadline, that nobody closes | back-pressure loses nothing; calls, drain and close end; neither call blocks the other for ever |
| `caller_error_policy_deadlock` | `BufferError`, deadline | `Call` may hang (section 6) |
| `scheduler_shared_store` | two replicas, one late, named recurring schedules, cancel, one drained and reopened, failing publish, any store call may fail | one publish per claim, silence after cancel, listed schedules keep their timers |
| `scheduler_single` | one replica, a recurring and a one-time schedule, deletes may fail, in two scenarios: crash, close, restart, drain; undisturbed | store and map agree, nothing after close, nothing lost, listed schedules keep their timers; all that is due is published |
| `scheduler_loser` | two replicas, one recurring schedule | the loser of a claim goes dead (section 6) |
| `mount_scenarios` | two scenarios: two workers mount three modules, two of which require the third; one worker mounts, unmounts and closes while cleanups fail | no leaks, order, single mount; what failed is kept and retried |
| `unmount_dependents` | two workers, bus unmount against mount | a dependent is left alone (section 6) |
| `collector` | two objects with a reference each and a string, one pin | nothing in use is freed, `__collect` frees the rest, `Itcms` implements `TriColour` |
| `collector_pin` | the same, and the host may pin the object the walk is at | an assertion of the code fails (section 6) |
| `runtime_parts` | compartments: two sources, a shared tool name, two identities. replica: one, two sources, two stops, failures. pair: two replicas, one source, failures. bridge: two tracked goroutines, room for two jobs. allocator: four pages of 64 bytes, three allocations. table: three keys | a teardown releases its own and only its own; a replica runs what it acknowledged; QuickJS is freed alone; payloads, lists and growth; `HashTable` implements `OrderedMap` |
| `replicas_redeploy` | three replicas, one source, no command while anything is under way | a redeployment is not mirrored (section 6) |

Scenarios are chosen in the initial state and stay; they bound what the users do,
never what the code does. Each behaviour of `runtime_parts` runs one of its
subjects; they share a run because each is small, not because they interact.

### Bounds

Buffer size 1 makes a stream full with one chunk. Two chunks show a full stream,
an eviction and an overflow; three show a chunk that is lost between two that
arrive, which is why back-pressure is checked there. One call meets every
goroutine kind; two are needed only where calls share something, and they share
just the inbox goroutine, `onFailure` and `Close`.

Two replicas are what a claim needs; a third would behave as a second loser.
Two ticks hold two fires of a period of one, and a bucket of one tick and a
second of two ticks put the two roundings at odds (`scheduler_single`). A bucket of
two ticks holds a fire of a period of one and the next (`scheduler_shared_store`,
where the clock moves once). `MaxAdds = 2` is one replacement, or one recurring and
one one-time schedule.

Two workers and three modules give the shared dependency of two mounts. Two
resources per module show a close that fails half-way. Five scopes suffice for
three modules and two mounts that fail.

The collector needs an object the walk has passed, one it has not reached and a
reference moved between them while the program holds neither: two objects that
refer, and a third without references that is black at once. One pin at a time
gives each list change. A fourth object adds no relation of two objects that
three do not have, and the safety theorem holds for any number.

Two sources that share a name are what ownership is about; two identities give
a topic's subscription next to another; where code calls `kit.unregister`, which
is about the name, one identity is given out. A replica that is stopped twice is
stopped once in a command and once while it restores; four versions are more
than the deployments of two sources that can overlap. Two replicas without
redeployment and three with one are the two sides of the finding: in "pair" no
package is deployed that one of the two still runs, and a command waits until the
last one was mirrored.

Of two tracked goroutines one starts or outlives the other; a queue of two is
empty, in between and full. The theorem holds for any number of both.

`SlBits = 1` keeps two classes per power of two, so that 2, 9 and 25 words fall
in a small class, between classes and in a class that memory must grow for;
three allocations make a block with a neighbour on each side, and freeing the
middle one last merges three. A capacity of two grows at the third key and
shrinks again; hashes 0, 2, 1 collide at two buckets and part at four.

The collector's runs check for deadlock: a program can always go on. All others switch it
off: these systems come to rest (all calls returned, the clock at its bound,
modules mounted and nobody calling, memory exhausted). Symmetry is used in
`collector` and `runtime_parts`, of objects, sources, identities and
goroutines that are alike; their properties are invariants, action properties and refinements without
fairness.

### Fairness

Weak fairness of every goroutine that can run: the Go scheduler is preemptive
and starves nobody. A step that waits (a full channel, a held lock) is not
enabled, so weak fairness asks nothing of it. Contexts of calls in `Deadlines`
end, because `callContext` requires a deadline; the context of `CloseContext`
ends. The clock ticks up to its bound. User callbacks and cleanups return; a
callback that blocks is covered by the drain step not being taken before the
call is decided by others, which safety runs explore. Responders, cancels,
crashes and closers are never forced to act.

## 4. Proofs

`CallerProofs` proves, from `CallerAssumption` only (what the constants are; that
reserved names are no calls), for every set of calls, assignment of policies,
buffer size and number of messages:

- `TypeCorrect`: `Spec => []TypeOK`. The part that is not typing is that no stream
  exceeds its capacity. `TypeOK` is inductive. It is split in six parts, one per
  group of variables; the frame lemmas give the parts an action leaves alone, and
  each of the 33 actions proves the rest.
- `NeverSendsOnClosedStream`: while `enqueue` is in its `select`, the stream of
  its call is not closed. Inductive with `TypeOK`: closing needs `sendMu`, which
  the inbox goroutine has.
- `CloseSettles`, `CloseJoins`: once `CloseContext` has walked the pending map
  every waiting call has a result or is held by `onFailure`, and a clean close has
  joined all drain goroutines. Neither is inductive. `CloseInv` adds that closing
  implies `closed`, that an unsettled call is in the pending map, and that during
  the walk it is still to be visited. The argument is that after `closed` is set
  no call starts (`Accepting`), and that nothing but a start makes a call
  unsettled (`SettledStays`) or revives a drain goroutine (`ExitedStays`).
- `HandledInOrder` (`ChunksInOrder`): `Order` follows a chunk on its way. The
  numbers in a stream rise and are above what the callback has seen
  (`StreamInOrder`), the chunk inside `enqueue` is above both (`FeedInOrder`),
  those in the inbox queue are above that and in order among themselves
  (`QueueInOrder`). Each policy drops a chunk and moves none, so this holds for
  all of them.
- `BlockIsLossless` (`BlockLosesNothing`): with `BufferBlock` and a live context,
  `NoGap` makes "above" into "the next one": what the callback has seen, the
  stream, the chunk inside `enqueue` and, until the call is decided, the queue are
  1, 2, 3, ... without a gap. `BufferBlock` gives a chunk up only when the context
  has ended or the call is decided.
- `RepliesAfterChunks` (`ReplyAfterItsChunks`): by `NoGap` and the order of the
  topic, a reply that waits for its grace timer or has won `doneOnce` was
  published after chunks that are all in the stream by then, and a drain goroutine
  that exits leaves the stream empty (`RepliesWait`); `Call` returns after it
  (`Settled`). `NothingBefore` and `ModeKept` say that a call starts from nothing,
  and which goroutines and steps its policy gives it.

`SchedulerProofs` proves, from `SchedulerAssumption` only, for any replicas,
schedules and clock:

- `TypeCorrect`: the part of `TypeOK` that is not typing is that the map of each
  replica and the table hold one value per ID. `TypeOK` is inductive; `Put` and
  `Drop` keep it (`PutKeeps`, `DropKeeps`).
- `OneFire` (`OneFirePerClaim`): of the publishes of a schedule in a bucket at most
  one holds the claim, whatever crashes, restarts and store errors come between. So
  without a claim that returns an error there is one publish per bucket; each that
  does may add one. Not inductive. `Tokens` adds that whoever is about to publish as
  a holder has a row of the table (`Claimed`), that no two have the same
  (`OneHolder`), and that what was published is nobody's any more (`Unspent`).
- `SilentAfterClose`: `TurnedAway` says that once a replica is closed no fire is
  past its first critical section; those that come later find it closed.
- `SilentForGood`: an entry that was cancelled or replaced never publishes again
  once its running fire is over. It needs where entries, timers and fires come
  from (`EntrySource`, `AddSource`, `FireSource`): nothing but `add` makes one,
  and with a pointer of its own.
- `TimersAreKept` (`StaysArmed`): a listed entry loses its timer to the draining flag,
  to another claim of its bucket, or to `add`, and to nothing else. `Ready` says of
  each replica that pointers are numbered in the order of `add` (`Numbered`) and carry
  one ID (`SameId`), that a timer and a fire that has just begun are not before
  their time (`OnTime`), that what `add` has armed and not inserted is in no map
  and has its timer unless it was due (`Untouched`), and that a closed replica lists
  nothing (`Emptied`). A step of a fire then leaves its entry with the fire or with
  the timer that the fire has armed (`FireMoves`), and one that ends had armed the
  timer, was turned down, or is of an entry that is not listed (`FireStops`).

Two more theorems need hypotheses:

- `NoOneTimeIsLost` (`OneTimeAtLeastOnce`), for any replicas, when nobody cancels
  and every publish works. `Sent` says where the deletion of a row can come from:
  a fire that has forgotten its entry has published before, a catch-up of
  `Restore` that is being settled too, and all other writes that wait are saves.
  `Dead` says that a process that is down has no goroutine and no pending write,
  so a crash leaves none behind. Without `~MayFail` TLC finds the message
  lost: `fire` ignores the result of publish.
- `TableMatchesMap` (`StoreMatchesMemory`), for one replica, fresh IDs, nobody who
  cancels and a store whose saves and loads work. `Matches` holds between the quiet moments too: a periodic row is in
  the map, or a goroutine that will put it there has it (`RowsHeld`); an entry has
  a row, or a save of it waits (`HeldStored`); and a save that waits is of such an
  entry (`SavesListed`). `OneKind` keeps an ID from being periodic here and
  one-time there, and `Phases` says in which of its phases a replica has which
  goroutines. A cancel, or an ID used again, races with the save of a fire that
  has left `mu` (section 6); two replicas share the table and not the map; a save
  or a load that fails is reported and not made again. TLC has a counterexample for
  each of these.

The first part of `JavaScriptProofs`, about `Compartments`, assumes that `NoOne` is
not a source:

- `ReleasesAll`: `Known` says that what is live, or referred to in `__kit_refs`,
  has an entry of the same source in the Go registry, unless the call in progress
  has not come there yet or the teardown in progress still has it on its list, and
  that an entry belongs to a source that runs. Once a source is removed and its
  teardown over, none of the three can hold anything of it, but for what torn-down
  code registered late.
- `ForeignKept`: as long as no code calls `kit.unregister`, everything known of an
  entry has one owner (`IdsOwned`, `ToolOwned`), so a cleanup removes its own.

`ReplicasProofs` proves, assuming that at most one replica uses the store
(`Single`):

- `AcknowledgedIsKept` (`RunsWhatItAcknowledged`): whatever commands it was given,
  whichever evaluations threw and wherever it stopped, an idle replica runs what
  the store holds, and both are what the caller of the last command was told, if
  that caller got an answer. `Commanding` follows a command through tearing down,
  erasing the row, evaluating and saving it: at each point it says what runs and
  what the row is (`Halfway`), that the caller does not know yet, and that all
  other sources are as they were. `Restoring` says that the rows `Restore` read at
  the start are still those of the store, as no command comes before it has ended,
  and that it has nothing to tear down, so erases no row; `Settled`, that what is
  down runs nothing. Each of these excepts the sources in `lapsed`, of which the
  store returned an error or whose restoring threw: the theorem is that such a
  failure spoils no other source, and its own only until a command has written the
  row. With several replicas it is false: a mirror deletes rows (section 6).

`TriColourProofs` proves, without an assumption, for any objects and any number of
references:

- `TriColourSafe`: no object that the program can get at is ever freed. `Inv` says
  that roots, and references of live objects, lead to live objects (`Closed`),
  which makes what can be reached live (`ClosedSafe`), and what the colours mean:
  pinned objects have their own (`PinnedColour`), free ones are white, strings,
  which are black without a scan, refer to nothing.
- `BarrierHolds`: no black object refers to a white one. With `Closed` it gives
  that when no gray object is left the white ones are garbage.

`ItcmsProofs` proves of the code's lists, from `ItcmsAssumption` (memory is finite,
and the headers of the lists are not objects) and `~MayPinIter` (the program does
not pin the very object at which the walk stands; when it does, an object in use is
freed, section 6), for any number of objects and references:

- `Implements` (`TriColourMarking`): `Itcms` implements `TriColour`. The inductive
  invariant is `IInv`: the one of `TriColourProofs`, of the colours that the lists
  stand for, and `Lists`. The latter says that each allocated object is in one list,
  once, has the colour of that list, and that `iter` is at a place the walk can go on
  from: what lies behind it is scanned, what comes after it is not. Every operation
  of the program and every case of `step` then maps to one step of `TriColour`; the
  call of `__collect` itself maps to a stutter.
- `ItcmsSafe` (`Safe`): nothing in use is freed, which follows.
- `CollectIsPrecise` (`CollectFreesGarbage`): what is left after `__collect` was in
  use before it. `OnlyReachable` says of each point of a full collection that what
  is marked by then can be reached, so that the flip leaves nothing else.
- `PinnedStay` (`PinnedAreTransparent`): what is in the pinned list has the colour of it,
  which `visitRoots` asserts.

Visiting (`VisitAll`) and the last walk (`ScanRest`) are folds over sets of objects,
and what a fold gives is known by induction. The library's theorems for that take an
operator as a parameter, which no prover here can instantiate; so the module states
induction with sets: a set of naturals that has 0 and all successors is `Nat`
(`NatSetInduction`, from the well-foundedness of `<`), likewise for the subsets of a
finite set (`SubsetInduction`). `FoldExists` gives the recursive function that a fold
chooses, together with what each of its steps keeps; `VisitAllFold` and `ScanRestFold`
apply it.

`HashTableProofs` proves, from `Given` (`HASH` has a number for each key, and the
initial capacity is at least 1), for any keys, values and hashes:

- `KeepsOrder` (`IsOrderedMap` of `HashTable`): every step of the table is a step of
  `OrderedMap` or leaves the map as it is. `Inv` says that the bucket of an entry, or
  a later entry of that bucket, leads to it (`Linked`), so that `Chain` has all of
  them (`ChainHasAll`) and `find` finds a key exactly when it is live (`FindIs`); that
  a key has one live entry (`Unique`); and what sizes may be (`Holds`): the capacity
  is at most 8/3 of the buckets, so a rehash that keeps or doubles them has room for
  the entry to append (`RoomyHolds`).
- `FitsItsBuffer` (`EntriesFit`): no entry behind the end of its buffer, and
  `entriesCount` right, from the same invariant.

`Rehash`, `Chain` and `Pairs` are recursive functions. `Recursion` gives such a
function from its step and a set that the step keeps to, by `NatSetInduction`;
`LinkSound` and `CopySound` carry the invariant through the entries that a rehash
copies. The table is proved for every initial capacity, of which the code's 4 is one;
`%` stands for the mask there, as for it the number of buckets is a power of 2.

The second part of `JavaScriptProofs`, about `Bridge`, needs no assumption and holds
for any number of goroutines and any size of the queue:

- `FreesAlone`: `BridgeInv` adds to the property that from `wg.Wait` on no tracked
  goroutine is left (`NoneLeft`), that `TryGo` is refused until the context is
  freed (`RefusedWhileClosing`), and what `mu` says of the pump and the closer
  (`MuHolders`). Between `wg.Wait` and the end, a goroutine can start neither from
  JavaScript, since `closing` is set as long as there is any, nor from another
  goroutine, since there is none.

`ModuleMountProofs` proves, from `ModuleMountAssumption` and `Ops = {"mount"}`,
for any modules, requirements (also circular ones) and goroutines, and whichever
Mounts fail. The restriction is needed: an Unmount or Close next to a Mount breaks
all four (section 6).

- `OneRuns`: of several Mounts of one ID a single one runs the module's own.
  `ReservedMounted` adds that a Mount that has reserved its ID has the scope
  mounted under it, and that the ID is not listed; so no two have reserved one
  (`ReservedOnce`).
- `ListedAreMounted`: by the same, a rollback frees no ID but its own.
- `RequiredAreListed`: what a listed module requires is listed. `Chain` ties the
  frames of a stack together (each waits for the one above it), and `Required`
  says that what a Mount has looked at is listed, up to those it has yet to look
  at.
- `DependentsFollow`: a module is in the mount order once, after all it requires.
  From `RequiredAreListed`, as a module is appended when it is listed, and only by
  the one Mount that has reserved it; a rollback takes nothing out that is listed.

The second part of `ModuleMountProofs` is about `Unmount`, `closeMounted` and
`scope.Close`, with all operations enabled. From `ModuleMountAssumption` alone:

- `TypeCorrect` (`TypeOK`): whatever overlaps and fails, a scope that a call, a
  close or the Kit refers to was made, and a call is always in a phase that its
  frame has the fields for.

With `Alone`, one goroutine that calls at a time, whatever fails:

- `ReleasedAfterUnmount` (`UnmountReleases`), `ReleasedWhenRemoved`
  (`RemovedIsReleased`). `Roles` says who is at a scope: a close is that of its
  call's scope, in which nothing is noted while it runs (`CloserOk`); the scope
  that a Mount fills is open and mounted under its ID (`MounterOk`), and no other
  Mount fills it (`ScopeOnce`). `Clean` accounts for every resource: its cleanup
  is noted in its scope, or on the lists of a close, or about to be noted
  (`Accounted`); what `closeMounted` has taken out has none (`GoneReleased`).
  Neither theorem holds when an Unmount overlaps another, or a Mount (section 6).

With `Exclusive` (`Alone`, or nothing but Mounts, as many at a time as there are)
and `Recoverable` (not both Mounts and cleanups fail):

- `NothingIsLeft` (`NothingLeaks`): `Owned` adds that what is registered belongs
  to the scope mounted under its ID (`HeldMounted`), and that what a Mount rolls
  back can be closed (`BackOnly`, `ClosedOnly`). A Mount that fails, and whose
  cleanup fails as well, leaks (section 6).

Only model-checked:

- What needs fairness (`CallsReturn` and the other liveness properties of the
  Caller and the scheduler), for which the prover has no rule.
- `MountsKeepRequired` and `MountsKeepOrder` are `RequiredStay` and
  `DependentsLater` in the scenario that only mounts, proved as
  `RequiredAreListed` and `DependentsFollow`; the other scenario, where one
  goroutine also unmounts, is not claimed.
- `RunsWhatItAcknowledged` of two replicas that mirror each other.
- `Tlsf` (`NothingOverruns` with its payloads, `ListsMatchMemory`, `GrownIsEnough`):
  blocks that are found by following memory, where one write decides what the next
  step reads as a header.
- `FreedAlone`, `IsOrderedMap` and the tables' part of `NothingOverruns` as
  `MCRuntimeParts` states them, of its scenario: proved for the modules themselves.

## 5. Not modelled

**Most of the lines.** The JavaScript and TypeScript under `src/internal` are, in
the main, not code with state that a specification could add anything to: bundles
generated from npm packages and their shims (`agent_embed_bundle.js`, `entry.mjs`);
declarations and builtins without a body; floating-point mathematics (`math.ts`,
`util/math.ts`: bit tricks on doubles and tables of coefficients); number
formatting, case mapping and string search, character by character; arrays and
typed arrays, whose methods are loops over memory; tables of re-exports and
wrappers (`kit_runtime.js`). A model of these would be a transliteration. What has
state and ordering in it (the collector, the allocator, the tables, registration
and teardown) is modelled; the rest of this development is about the concurrent
core, which is in Go.

**Of the parts that are modelled.**

- Metrics, logging, payloads, the parsing of schedule expressions, the contents of
  descriptors, the preflight of manifests, the reply formats of bus commands.
- Scheduler: a store call that fails half-way is one that wrote its row or not.
- Compartments: what evaluated code does beyond registering; the files of a package.
- Replicas: events that are lost or come twice; two commands at a time.
- Bridge: evaluations that start each other; the counters of `TrackResource`;
  a second `CloseContext` that waits for the first.
- Collector: static objects below `heap_base`, the pacing of automatic steps by
  allocated bytes (a step may come at any allocation), the fields of a header that
  only the allocator uses. `__collect` is one of the program's calls and is not
  interrupted; that incremental marking ends is not claimed: a program that keeps
  storing keeps it going.
- Allocator: requests of half the memory and more, `E_ALLOCATION_TOO_LARGE`,
  static blocks, the low-memory build, tracing.
- Tables: keys that are strings or floats (a hash is a constant here), iteration
  by index while the table changes.

**Of the system.** See the components of `PROJECT.json`, each with its reason. Those
with hazards that no property covers yet are the engine (handlers in flight,
retries, heartbeats) and the background tasks of the JavaScript runtime.

## 6. Where the code and its documents part

Five runs end in a violation, on purpose; each quotes its line in
`PROJECT.json`.

- **`BufferError` deadlock** (`caller_error_policy_deadlock`). `enqueue` calls
  `finalizeLocked` with `sendMu` held and enters `doneOnce` inside; `finalize` takes
  them the other way round. A deadline between the two leaves `Call` and the inbox
  goroutine waiting for each other for ever.
- **The loser of a claim** (`scheduler_loser`). `fire` returns before it re-arms
  when it loses the claim. The entry stays listed without a timer until a restart.
- **Unmount against Mount** (`unmount_dependents`). Dependents are looked up in one
  critical section and the module removed in a later one.
- **Pinning the object the walk is at** (`collector_pin`). `__pin` unlinks it and
  leaves `iter` there: the walk goes on in the list of pinned objects, colours them,
  and once all are black never comes back.
- **Redeployment with replicas** (`replicas_redeploy`). A replica that mirrors a new
  version tears the old one down, which deletes the shared row, and writes none
  because it is restoring. The next replica finds nothing, and a restart loses the
  package.

Other disagreements met while modelling. No run is kept for them; the instance
that shows each is given in brackets, where there is a module for it.

Caller:

- `BufferBlock`, no deadline, a callback that fails: `finalize` waits for the
  `sendMu` of a blocked `enqueue`, and `CloseContext` waits for it whatever its own
  context says. [`Deadlines = {}`, one call, three chunks: `CloseReturns`]
- A reply that wins `doneOnce` while the callback still runs makes `Call` succeed
  although the callback then fails. [drop policies: a call in `failed` returns
  `chunkErr`]
- `CancelNotice` may be published for a call whose reply has arrived, as `select`
  picks either. [unary call with a deadline: `notices` grows only while
  `verdict` is no reply]

Schedules:

- A recurring schedule that comes due while the Kit drains never fires again after
  draining is switched off. [`scheduler_single`, scenario "restart":
  `ListedIsArmed`]
- `add` arms the timer before it inserts the entry: a delay of zero fires into an
  empty map, and the entry is listed for ever. A restored row that is due at once
  meets the same. [a kind with `dur = 0`: `ListedIsArmed`]
- A one-time schedule may be published by two replicas, or twice around a restart:
  rows hold whole seconds, claims 100 ms, and `Restore` publishes a missed row
  without a claim. [`In(3)`, `SecondTicks = 2`: two publishes of one ID]
- A replica that crashes between its claim and its publish, and restarts within
  the same bucket, loses its own claim: a one-time schedule is then not published
  before another restart. [`scheduler_single`, scenario "restart" without draining:
  `ListedIsArmed`]
- A claim that returns an error publishes (`scheduler.go:286-289`), so several
  replicas whose store fails may publish one fire, while the comment at 284 says
  "Only one claimant per fire". There is still one claimant: `OneFirePerClaim`.
  [`scheduler_shared_store`: `OneFirePerClaim` without `held`]
- A fire that is about to save while its schedule is cancelled puts the row back;
  a one-time fire that is faster than the save of its own `Schedule` leaves the
  row behind. [`MayCancel`: `StoreMatchesMemory`]

Mounting:

- `Unmount` of a module whose `Mount` is still running takes its scope away; the
  `Mount` then lists the module. [two workers, one module: `ListedIsMounted`]
- A failed `Mount` ignores the error of its rollback and forgets the scope. What it
  still has is registered for good.
  [`MayMountFail` and `MayCleanupFail`: `NothingLeaks`]
- The second of two overlapping `Unmount`s returns nil while the first is still
  closing. [two workers, `MayCleanupFail`: `UnmountReleases`]
- `closeMounted` goes on after a module that failed to close: what it requires
  is closed under it. [`mount_scenarios`, scenario "retry": `DependentsLater`]

Deployments:

- `kit.unregister` removes the tool and the reference and leaves the entry of the Go
  registry: the teardown of the source removes the tool that another source has
  registered under the name since. [`Compartments` with `unregisters`:
  `ForeignSurvives` without that condition]
- A teardown stops no handler or timer of the deployment. What its code registers
  later nobody removes, while `docs/README.md:85` says that teardown "releases all
  bus subscriptions". [`Compartments`: `TeardownReleases` without `late`]
- `bus.onCancel` and `bus.withCancelController` subscribe through the unscoped
  function: the entry goes to whichever source is being evaluated, or to "unknown",
  and survives the teardown that `docs/llm/ts-runtime.md:176` promises it to.
- `bus.on`, `unsubscribe`, `bus.on` of one topic fails with `TOPIC_COLLISION`:
  `unsubscribe` frees the subscription and not the topic.
- `kit.register` returns without an error and without registering when the name is
  taken. [`Compartments`: `Register` is not enabled]
- `package.deploy` called and awaited while a deployment is evaluated waits for the
  `lifecycleMu` that the evaluation holds.
- `mirror` reads the row before it takes `lifecycleMu`: a teardown in between leaves
  the replica with what was torn down. An event between restoring and subscribing
  is lost, and a redeployment that fails announces nothing, although it has torn
  the old version down. [`Replicas` with two replicas and commands at any time:
  `RunsWhatItAcknowledged`]
- `package.teardown` answers without an error, and the row is gone, when its package
  is not tracked (the replica has mirrored or restored it) and has registered
  nothing; it announces that to nobody (`modules/packages/module.go:287`), so the
  other replicas go on running the package. What restoring or mirroring could not
  evaluate, load or save is reported and not tried again until a restart.
  [`Replicas` with `MayFail`: `RunsWhatItAcknowledged` without `lapsed`]

Engine and bridge:

- `Schedule` waits for room in the job queue or for the end of the context. The pump
  stops running jobs once `Kernel.closed` is set, and exits on `Interrupt`; a tracked
  goroutine that finds the queue full then never returns, and `CloseContext`, which
  ends the context only after `wg.Wait`, waits for it. [`Bridge` with two goroutines,
  a queue of one, weak fairness of all but the goroutines' choices: a close that
  does not return]
- `stream_tracker.go:13` says that a heartbeat is "Stopped on done=true"; the error
  reply of `sendErrorResponse` (`kernel_failure.go`) never calls `StopHeartbeat`, so it
  goes on until `maxLife`. The deferred `delete` of a heartbeat that was stopped
  removes the entry of the one started after it on the same topic. `CloseAll` does
  not keep `StartHeartbeat` from starting another.
- `docs/concepts/architecture.md:76` says that `kit.Shutdown(ctx)` "drains
  gracefully". `Shutdown` closes the modules before the kernel waits for handlers, and
  the JavaScript runtime is one of them: its shutdown interrupts the handlers that
  the drain would have waited for. A handler whose `Schedule` fails (full queue,
  context closed) never calls `ExitHandler`: `waitForDrain` then waits for the end of
  its context.
- A retry publishes the failed message to its topic again. With two subscriptions
  the one that succeeded receives it twice, and when both fail each publishes a
  retry.

## 7. What could come next

In the order of what it would add:

1. `KernelHandlers`: `enterHandler`, failure policy, retry, dead letter, drain and the
   order of closing, with the heartbeats of `stream_tracker.go`. Properties: a
   drained kernel runs no handler; one answer per request; retries bounded; a
   repeated close completes.
2. An abstract `Call` (a promise settled once, by a reply to it or an error) that
   `Caller` implements, with a proof that a verdict is final.
3. A proof that the lists of `Tlsf` match its memory, by the means of `HashTableProofs`.
   A smaller one: that replicas which mirror one command at a time agree, as the run
   shows of two.
4. `MemoryBus` and `Router`: order per subscription, back-pressure, stopping a command
   handler; an abstract bus that `Caller`'s inbox assumes and `MemoryBus` implements.
5. `Plugins`: supervision and back-off against stop.
6. A composition of `ModuleMount`, `KernelHandlers` and `Bridge`: `Kit.Shutdown`.
