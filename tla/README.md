# A verification of heapscope

heapscope is a heap profiler for Rust: a `GlobalAlloc` shim records every
allocation, free and resize against the program point it came from, keeps what
was live when the heap was largest, and writes a profile when the run ends; a
second program puts names to the addresses of a profile. The code under
verification is in `src/src`; paths below are relative to it. Most of it runs
inside the allocator of a program it does not control, so what makes it hard is
what threads, signal handlers, forks, process exit and a failing disk may do in
between; the rest turns one set of figures into many files that must agree.

Specifications are TLA+ modules. TLC checks them on small instances (`*.cfg`);
TLAPS proves theorems about some of them for every value of the constants
(`*Proofs.tla`). `PROJECT.json` maps every definition to the lines it models.

    tlc -config Gate.cfg Gate          # one run
    tlapm AllocShimSamplingUnwindProofs.tla    # one proof

## Inventory

| Part | State | Operations | What is hard | What makes it correct |
|---|---|---|---|---|
| Peak gate (`internals/gate.rs`, `lock.rs`) | reader count and writer bit in one word, a raw lock | `read`, `write`, `write_for`, fork calls | stale loads, a writer that gives up, fork | exclusion, an exact count, an open gate when nobody is in, writers get in |
| Recording and peaks (`internals/engine.rs`, `pp.rs`) | live table, global counters, epoch, one record per program point | record alloc, free, resize, ad hoc events; flush; restart | two events near the peak, lazily copied at-peak columns, a restart or flush in between | at-peak columns are those of the one moment of the peak and sum to it |
| Readings and restarts (`engine.rs` `reset`, `read_window`; `stats.rs`) | sequence number, counters | restart, read | relaxed memory, a signal handler, an unwinding restart | a reading is of one window; it ends |
| Allocator shim (`alloc.rs`, `internals/live.rs`) | inner heap, live table | `alloc`, `dealloc`, `realloc` | addresses reused at once, a full table, failing calls | counts balance the blocks that are tracked |
| Open-addressing map (`internals/table.rs`) | slots, length, ceiling | insert, remove, get, grow, clear | deletion by shifting, growth, wrap-around, fork in a shift | it is a map |
| Reentrancy guard (`internals/guard.rs`, `region.rs`) | slot table | enter, drop, thread exit, fork | probing beside exits, reused handles, nested signals | one entry per thread, contents belong to the owner |
| Run lifecycle (`profiler.rs`, `internals/fork.rs`) | engine state, hooks, outputs, a claim | start, drop, exit handler, fork | all of them at once | one profile, by the process that owns the run |
| Lock order (`internals/order.rs`, fork handlers) | every lock | prepare, parent, child | a fork while threads hold locks | no deadlock, no lock left locked |
| Interning (`internals/pp.rs`, `arena.rs`) | shards, records, an arena | intern a stack | collisions, growth, every ceiling | an id leads to its stack, memory is accounted for |
| Thread and region rows (`internals/site.rs`) | rows, names, regions | claim, name, open, tally, visit, break down | claim beside visit, a reader without the gate | rows partition the totals, peaks are exact |
| Sampler, shapes (`internals/sampler.rs`, `shape.rs`) | a countdown per slot, histograms | admit, observe, clear | boundaries to the byte | one process of points, every request counted |
| Unwinders (`unwind/`) | the stack, a measured cost | walk, calibrate, measure | memory the program scribbled on | reads only its stack, ends, holds the callers' frames |
| Assertions (`stats.rs`) | marks | read, compare, dump | a reading under way of a change | what passes is true, a dump lands on no other |
| Snapshot (`output/mod.rs`) | reserved room, copied points | capture, sweep | points and blocks that come meanwhile | it adds up, each block once |
| Saving (`output/mod.rs`, `baseline.rs`) | a temporary beside its destination | create, emit, flush, rename | failure, crash, races | a destination is whole |
| Formats (`output/`), JSON | none | write | merging, rounding, escaping | they agree with the snapshot and each other |
| Symbols, demangling (`symbol/`) | images, an arena of names | locate, label, trim, demangle | boundaries, malformed names | one frame, one name, bounded work |
| Baselines (`baseline.rs`) | a text file | parse, check | a cut file, overflow | what is read was written |
| `heapscope-symbolize` | a profile, three pipes | ask, match, put back, draw | a tool that lies, dies or complains | answers are to the questions |

How they interact: the shim enters the guard, asks the engine whether it
records, interns the stack it captured, changes the live table under a shard's
lock, then the global counters, the point's record and the rows under the gate,
shared or exclusive. The profile's writer takes the gate exclusively to flush. A
restart takes every live shard and the gate. The fork handlers take everything.
The exit handler and the profiler's drop stop the engine by its state and race
for one claim. A snapshot is a value from then on: formats, files, baselines and
the offline tool work on it or on what was written of it.

The hazards of each part, with the line where each bites and the property that
watches it, are under `hazards` in `PROJECT.json`.

## Modules

| Module | Models | Run |
|---|---|---|
| `RWGate`, `Gate`, `GateAndSitesProofs` | what a gate promises; `gate.rs`, one action per atomic operation, which implements it | `Gate` |
| `EagerPeak`, `PeakEngine`, `PeakEngineProofs`, `Sums` | at each peak every point is copied; recording, flush and restart over `RWGate`, which implement it | `PeakEngine` |
| `ResetWindow`, `ResetWindowAssertionsProofs` | the sequence lock of `reset` and `read_window` under weak memory | `ResetWindow` |
| `AllocShim`, `AllocShimSamplingUnwindProofs` | the shim, the live table and a hostile inner allocator | `AllocShim` |
| `BoundedMap`, `RawMap`, `SlotTablesProofs` | a map with a ceiling; `table.rs`, which implements it | `RawMap` |
| `GuardTable`, `SlotTablesProofs` | `guard.rs`, regions | `GuardTable` |
| `Lifecycle`, `LifecycleSavingInternProofs` | start, drop, exit, fork | `Lifecycle` |
| `ForkLocks`, `ForkLocksProofs` | every operation's locks and the fork that takes them all | `ForkLocks` |
| `Arena`, `PpIntern`, `LifecycleSavingInternProofs`, `Sums` | the bump allocator and its vectors as operators; interning over one | `PpIntern` |
| `Sites`, `GateAndSitesProofs`, `Sums` | thread and region rows, over `RWGate` | `Sites` |
| `Sampling`, `AllocShimSamplingUnwindProofs`, `Sums` | the countdown against its process of points; the histograms | `Reports` |
| `Unwind`, `AllocShimSamplingUnwindProofs` | the frame-pointer walk, calibration, measurement | `Reports` |
| `Saving`, `LifecycleSavingInternProofs` | the files a save writes and renames | `Reports` |
| `Capture` | the snapshot | `Reports` |
| `Assertions`, `ResetWindowAssertionsProofs` | assertions and marks beside the program they judge | `Reports` |
| `Symbolizer` | one batch of addresses through the pipes to a tool | `Reports` |
| `DemangleV0` | the printer of v0 symbols, as a machine with a stack | `Reports` |
| `Formats`, `Native`, `Json`, `Baselines`, `Symbols`, `Demangle`, `Dumps` | computations, as operators | `Reports` |

Composition: `PeakEngine` and `Sites` use `RWGate`'s actions for the gate, so
`Gate` implementing `RWGate` is what entitles them to. `PpIntern` runs on
`Arena`. `ForkLocks` takes the gate as a lock with readers, and its operations
are those of the modules above, reduced to the locks they take. `Native` writes a
file with one set of operators and reads it with another, and `Formats` draws
from both sides. `AllocShim` updates counters in one step, which `PeakEngine`
shows in all its steps. `MCReports` is the disjoint sum of the modules a
snapshot passes through: they share no state, so one run checks them side by
side and each behaviour is about one of them.

### Gate

`inside`, `flag` are the two halves of `state`, `owner` the raw lock. `mode`
tells `write`, `write_for` and `lock_for_fork` apart, which share
`try_lock_for` and the drain. A reader's load and compare-exchange are two
steps; a failed exchange loops. A deadline may pass at any time. After
`lock_for_fork` a behaviour goes on as the parent (unlock) or as the child
(`reinit_after_fork`, other threads gone). Atomics are sequentially consistent.

`Sound` is exclusion, an exact word, and a gate that is open at rest: the last
is what catches an abandoned writer bit. `ImplementsRWGate` maps a reading
thread to a reader and a writing thread to the writer. `DrainOnlyFalls` is the
comment "no new reader can enter".

Fairness: a thread inside an acquisition or a release is scheduled
again, and critical sections are finite. Nothing obliges a thread to start. A
reader may starve behind a stream of writers, so no liveness is claimed for
readers.

### PeakEngine

`op[t]` is the `Delta` a thread applies, `ep` the epoch it loaded, `pps` the
points' records with their `at_gmax` columns and `snapshot_epoch`, `rows` the
threads' rows. Relaxed loads before the gate decide nothing but the route, so
the route is a free choice; loads under the gate are what they are. A flush may
time out on the gate at any moment.

Three history variables: `sweep` is what copying all points at the step that
moved the epoch would have kept; `torn` says a flush went on without the gate;
`due` counts the requests of the present window. `LazyIsEager` compares the
lazy columns with `sweep` at every state. `ImplementsEagerPeak` says the same
as a refinement: an observer of commits alone sees the eager scheme. Both speak
of the at-peak columns only until a flush goes on without the gate (`exact` in
`EagerPeak`, `torn` here); the live columns and the maximum hold after it too.
`Accounts` gathers the sums: points to the counters, at-peak columns to the
peak, rows to the run, requests to what was asked, and nothing poisoned.

Abstracted: the live table is a function (RawMap models it) that may refuse a
block at any time; region rows are in `Sites`; the totals in bytes
as those in blocks; lifetimes, times, shapes, sampling, interning and the
serialized mode are absent; `ResetCounts` is one step, since the shards and the
gate are held throughout (`ResetWindow` opens it for readers without the gate).

### ResetWindow

Every location keeps all its messages; a thread's views say what it has seen,
what an acquire fence would add and what a release fence has covered, so
`Relaxed`, `Acquire`, `Release` and the two fences are what they are in the
source, not sequential consistency. `total` stands for the counters changed by
read-modify-writes, `max` for those stored plainly, and the value of each is
the window it counts. The gate passes views on. A reader may be hosted on the
restarting thread: a signal handler, which must not wait for what it interrupted.

The live shards' locks are left out: that only removes happens-before edges, so
more behaviours are allowed, not fewer. Threads with no guard slot are left out.

Fairness: a restart, a peak's stores and a reading under
way go on, and a store becomes visible in the end (strong fairness on loading
the newest sequence, which C++ and Rust ask of implementations).

### AllocShim

The inner allocator (external) may hand a freed address to anyone at once and
may fail. A call's steps are the inner call, each critical section of the
table, and the counters. The sampler's answer is a free choice, a block's weight
a function of its size; whether the run is sampled is chosen initially. A run
starts and stops at any moment. Any call may be refused the guard and then only
reaches the inner allocator. Two history variables say what that leaves behind:
`stale`, the addresses whose entry a refused call did not remove, until a recorded
call writes or removes it, and `missed`, that there was one. `EntryIsBlock` is
about the entries that are not stale; the sums in `Accounts` are asked for while
nothing was missed (a refused call on a block that is not tracked is no miss).

### RawMap

`hash` is any function from keys to slots, chosen in `Init`. The rehash and the
backward shift are stepped, as a fork may copy the table within them; all else is
one step under the shard's lock. `order` is a history variable, the order keys
came in: `Layout` says the layout is always the one inserting the
present keys in that order would give, the strongest thing deletion by shifting
can promise, that in the middle of a shift one entry is there twice, and that
removals never use the table up.

### GuardTable

A thread is a stack of calls to `enter`; a call on top of another is a signal
handler's, or an allocation made by the profiler. Handles are reused after exit.
Threads may allocate after their thread-locals are gone. `strayed` is a history
variable: some slot was once not where its owner's probe finds it. The
properties hold while it is false; `NestedRefused`, which does not ask for that,
is violated (below). Looking a slot up in the setters is atomic; clearing a
slot is part of the exchange that takes it, as nobody else reads it.

### Lifecycle

The variables are one process's. A fork continues as parent or as child. The
claim, the outputs' mutex, the state's exchanges and the cause's store are
steps of their own. Left out: the settings and probes `start` also runs, explicit
saves, weak memory. At most one thread calls exit. An exit on one thread while
the holder is in the middle of dropping may lose the profile: `OneProfile`
excludes that case, the process being gone before the holder wrote.

Fairness: a thread in the middle of start, drop or exit is
scheduled again.

### ForkLocks

An operation is the sequence of locks it takes, read off the source level by
level: interning, inserting, removing, recording, restarting, flushing, claiming
a name, the profile's visits, and the three halves of a fork. A timed
acquisition carries what the operation does when it gives up. `announced` is a
writer waiting at the gate, `reading` the readers inside, `guarded` the threads
inside the shim. `PpTable::frames` keeps the order checker's level entered while
its output grows, which is why that allocation must be outside the guarded path.
Two forks that race are left out: they share `GUARD_ENTERED` and the flag of
held locks, and `fork.rs` calls that unrecoverable.

Fairness: weak fairness of each thread's steps is enough for `OperationsEnd`
because operations are bounded in number; that nobody waits for ever is that
property, so deadlock (everything done) is not an error.

### Arena and PpIntern

`Arena` is a value: chunks with their sizes and what is used, in words. An
address is its chunk and the distance from an alignment boundary, for alignment
is all the code asks of it; where the system puts a chunk (`Phases`) is free.
`PpIntern` takes the steps of `intern`: the lookup, the frames' allocation, the
index, the record, each with its refusal. `answers` is a history of what was
returned, with how many calls had returned before each began.
`TablesAgree` is one record per stack unless a hash collides or something was
refused, records in the order of their creation across shards, and an arena in
which every word is a table's, waste, under way or leaked by a refusal.

### Sites

A thread claims a row, publishes it, names it under a sequence of attempts, and
tallies; regions are entered and left in any order, which may re-open one that
was left, and events are attributed to the innermost. A reader visits with the
gate or without it, or breaks the regions down (`visit_regions`). `outside`
and `top` are histories. A view without the gate reads a region's
entries before its active count and may show more active than entered; nothing
says otherwise. Blocks are counted like bytes and left out.

### Reports

- `Saving`: a directory of names, inodes with contents, savers in two processes.
  A step is a call of the system; any may fail, a process may die anywhere and
  its successor starts counting again, perhaps under its id. A file is as many
  pieces as a save writes.
- `Capture`: time passes between reserving room, the visit (with the gate, or
  after its timeout, when points come in between), and the sweep of each shard.
  Thread and region rows are `Sites`'.
- `Assertions`: a reading takes one counter at a time while the program goes on.
  `truth` is what really happened, and `seen` the truths that held while a
  reading was made: what passes was so at one of those moments.
- `Dumps`: the file a failing assertion writes, as a function of the variable,
  the thread's name and the number of the dump. The number is taken even by a
  thread that could not be entered. Whether a file is whole is `Saving`'s.
- `Sampling`: `position` and `points` are the Poisson process the code stands
  for; a gap is any positive number. A request is recorded exactly when a point
  lands in its bytes. The generator's distribution and the values of weights are
  numerics left out.
- `Unwind`: memory is whatever it is at each read, since other code scribbles on
  it, so a walk may follow any link. A return address is named by the frame it
  comes from. Calibration assumes that `#[inline(never)]` functions are not
  inlined and that buffers are within what Windows can capture.
- `Symbolizer`: the thread that writes, the parent that reads, the tool with its
  three pipes. The tool is external: it may answer another address, skip one, die,
  or complain. Every move uses something up, so `NeverStuck` implies that
  `resolve` returns. `llvm-symbolizer` echoes no address, and only the count of
  its answers can be checked. `atos` is left out.
- `Formats`, `Native`: a snapshot is its points' frames and figures. Names are
  what a format calls an address, never empty; screening of control characters is
  left out, since both sides apply it. Figures saturate at a small width. In a
  mode without live blocks the library refuses a live metric and the tool draws
  nothing. Self metrics and shapes are their presence and the sparse list.
- `Json`: tokens, with the bytes of a string for what escaping is about.
- `Symbols`: addresses modulo a small number, so that images wrap; program
  headers become modules, an address is looked up at its call, stacks are
  trimmed, tools' answers put back.
- `Demangle`, `DemangleV0`: legacy names are components; a v0 symbol is tokens,
  chosen as it is read. Constants are placeholders, arrays and back references;
  the punctuation of `in_value` and the comma of a one-element tuple are left
  out. `.llvm.` is stripped only when the first one ends the name.
- `Baselines`: a file is a sequence of lines as `parse` sees them.

The passing run leaves out the folded format and concurrent savers of one
baseline, both of which are disagreements below.

## Runs

| Run | Shows | Bounds |
|---|---|---|
| `Gate` | the word is exact, the gate is open at rest, refinement, a writer that announced itself gets in or gives up | 3 threads: two readers and a writer, or two writers and a reader |
| `PeakEngine` | lazy columns are eager, they sum, shares sum, refinement | 3 threads, 2 blocks, 2 points, sizes 1 and 2, 4 events, of which a flush counts as 2 |
| `ResetWindow` | readings are of one window, and end | 1 recorder, 1 reader, 2 restarts, 2 events |
| `AllocShim` | counts balance the tracked blocks | 2 threads, 3 addresses, room for 2, 4 calls |
| `RawMap` | it is a map; its layout, room, and copies in the middle of a shift | 3 keys, 2 values, tables of 2, 4 and 8 slots |
| `GuardTable` | exclusive entry, contents are the owner's | 3 threads, 3 slots, probes of 2, colliding homes, 3 entries, nesting 2, 1 reuse |
| `Lifecycle` | one profile, by its owner; exit ends | 3 threads |
| `ForkLocks` | order, whole tables in the child, everything ends | 2 threads, 2 shards, 3 operations |
| `PpIntern` | ids lead to stacks, order, the arena's books | 2 threads, 3 stacks, 2 shards, every hash, 4 calls, arenas that fit and that do not |
| `Sites` | rows are owned and named whole, peaks without a lock, sums, regions | 2 recorders and a reader, room for 1 row and 2 regions, 3 names of which two are cut alike, 3 events |
| `Reports` | everything downstream, side by side | below |
| `SavingFolded` | a truncated file replaces a whole one | those of `Reports`, with the folded format |

Why these are enough: every protocol here is pairwise (a reader and a writer; a
commit and a peak; a restart and a reading; a free and an allocation that
reuses its address; two claims of one slot or row; two saves of one file), and a
third thread is the bystander whose turn it is next. Two points separate the one
that is touched from the one that is stale; four events make a peak, a fall, a
touch and a second peak. Two restarts tell a window from the one before and the
one before that. Three keys at load one half outgrow four slots and make a
cluster of three in eight, where a first removal moves a second entry and then
must judge the third; three slots and two probes give chains, gaps and
wrap-around. Three stacks collide, share a shard and do neither, and a row's
room for one puts the second thread in the overflow row.

`Reports`: three savers of a profile and one of a baseline in two processes, three
saves between them, one failing call and one crash; two points and three events for a capture or an assertion,
enough to have one before and one in the middle of it; requests around each
boundary of a class; stacks with room for two records, aligned and not; batches
of three addresses, pipes of one line and one fault; symbols that go four tokens
beyond nothing or a beginning inside a function pointer or a trait object;
snapshots of three points over two addresses with stacks of two frames; JSON of
two levels; files of four lines after the first. Counters that only grow are
bounded by `MaxEvents`, `MaxCalls`, `MaxEnters`, `MaxResets`, `MaxReuses`,
`MaxOps`, `MaxInterns`, `MaxSpent`, `MaxSaves`, `MaxRequests`, `MaxFaults`,
`MaxComplaints` and `MaxMore` in the guards. A flush counts for
two events (`FlushEvents`) because it stands in many states
once it has given up on the gate.

Deadlock is checked except in `GuardTable` (all threads may be gone),
`Lifecycle` (the process ends), `ForkLocks` and `Reports` (everything asked for
is done). `AllocShim` stutters at its bound instead.

## Disagreements found

`SavingFolded` is a run that ends in a violation; the others are seen by adding
the invariant named to the run of the component, or by the change given.

1. `SavingFolded`: the folded writer does not flush (`output/folded.rs` 232), so
   the error of the last write is lost and a truncated file takes the place of
   the previous profile. `text::write` has an early return with the same defect.
2. A flush that gives up on the gate still stamps epochs on records whose update
   is in flight (`internals/engine.rs` 2019, against the contract at
   `internals/pp.rs` 590). A later flush that has the gate reports `exclusive`
   though the at-peak columns do not sum to the peak: `ExclusiveFlushIsExact` in
   `PeakEngine`, two threads.
3. A slot emptied at a thread's exit opens a gap before another thread's slot
   (`internals/guard.rs` 434); that thread claims a second one and enters while
   it is inside: `NestedRefused` in `GuardTable`.
4. A fork while the engine is stopped and the write is not yet claimed leaves a
   child that writes (`docs/lifecycle.md` 54): `ChildWritesNothing` in
   `Lifecycle`.
5. `install_exit_handler` raises its flag before it registers the handler, so a
   second start may record with none registered: `HooksFirst` in `Lifecycle`.
6. A failed `realloc` puts its entry back without looking at the answer; the room
   may have been taken: `FailedReallocKept` in `AllocShim`.
7. Concurrent saves of one baseline share a temporary: `BaselineSavers = {s1, s2}`
   in `Reports.cfg`.
8. A tool that fills its standard error stops `resolve` for good:
   `MaxComplaints` above `PIPE` in `Reports.cfg`.
9. A walk without bounds is reported as complete (`unwind/frame_pointer.rs` 261).
10. Dumps of two threads may have one name, when one thread's name ends as a
    number does (`stats.rs` 1558); `DumpsAreKept` is stated for equal base names.
11. A second run of the tool over its own output fails when an address had no
    answer (`main.rs` 163); `SymbolizesOnce` says exactly when.
12. The live table's effective ceiling is below what was asked for when that is no
    multiple of the shards (`internals/live.rs` 190).
13. A growth in place by a call that was refused the guard loses more than an event
   (`internals/guard.rs` 60): the next free takes the new size off the old one, and
   live bytes below zero poison the profiler: `RefusalLosesAnEvent` in `AllocShim`.
14. A vector's waste may exceed its final size when its last growth is clipped
    (`internals/arena.rs` 580).

Read in the source while modelling, and not stated by a run: drop and the exit
handler each stop the engine with their own cause before either claims the
write, so a profile may name the path that lost. A slot claimed after its
thread's thread-locals are gone is never released, and the next thread with the
handle finds it with the dead thread's row. An assertion is refused when
blocks were dropped for want of room, not when calls were refused the guard,
which leaves the measurement as incomplete (`stats.rs` 45); `Assertions` has no
such calls.

## What is proved

`GateAndSitesProofs` has two parts, since recorders pass the gate to get at their rows.
The gate's, from `ThreadsAssumption` (a finite set of threads): types; the
word's count is the number of readers and its bit and lock the writer's
(`GateWordIsExact`); exclusion; an open gate at rest; readers only leave once a writer announced
itself; and that `Gate` implements `RWGate`. The invariant `GateInv` is the
conjunction of the type invariant, `CountIsReaders`, `OwnerIsHolder`,
`FlagIsWriter` and `Exclusion`: exclusion alone is not inductive, since a writer
enters on seeing a count of zero, which means no readers only if the count is
exact; and a flag means a writer only because it is raised under the lock.

The rows' part, from `SitesAssumption` (finitely many recorders, sizes that are
numbers, tables smaller than the reserved ids), for any recorders, names, rows and
bounds: one owner for a row, names read whole and nothing ever repaired
(`RowsSound`); exact peaks without a lock (`PeaksExact`); visits that add up
(`VisitsAddUp`); and guards that are counted (`RegionsCounted`). An event moves the
totals first and then its rows one at a time, on whatever thread, so the invariant
`IInv` says what each recorder has still to do. `Underway`: a recorder inside the gate
has before it the rows of one site, or the last of them, and gives back a block of
that site or none. `Placed` and `Empty`: sites of blocks and of events have records,
and a row without a record holds nothing, which is what lets a visit skip it. With
that, `Holdings`: a row holds at least the live blocks of its site, what is still to
be taken from it and what is about to be given, so that no subtraction goes below
zero, and `Books`: the rows of a kind, what events still owe them and, for regions,
what was outside all of them, are the totals. `Peaks` is not inductive as the run
states it: between the addition and the `fetch_max` the maximum may be short, but
then some recorder stands there with the very value that is missing. `GuardsKept`
counts guards as pairs of a thread and a guard; one being opened is counted before
`active` is. A visit with the gate keeps everyone out, so its partial sum is that of
the rows behind it (`ReaderSums`); a name is read from a settled cell
(`ReaderNames`), and a settled cell is its owner's and does not change (`Owned`,
`NamesKept`), which needs no gate.

`PeakEngineProofs`, for any threads, blocks, points and sizes: types; that the
lazy columns equal the eager ones at every moment (`LazySnapshotIsEager`); that
live bytes pass the maximum only inside the exclusive section that records it;
and that a commit on the shared path never reaches the peak. The invariant
`Safe` adds to those who holds the gate at each program counter, which way each
`Delta` goes, that a thread inside the gate knows the present epoch, and that no
record has an epoch to come: the lazy refresh is right only if a record with a
former epoch has not changed since the epoch moved, and that needs all of them.

The same module proves the books (`AccountsAgree`), for finite sets of threads,
addresses and points (`FiniteAssumption`; a process has finitely many of each). An
event moves the table at once and the counters one at a time, so the second
invariant, `Kept`, says of each counter that it and what the events under way still
owe it add up to what the table has: `Books` for bytes and blocks, of the engine, of
every point and of every row, `Shares` for the sums of the shares, `PeakKept` for the
copies made at the peak. Nothing is ever repaired from below zero because of
`Hands`: a block is in one thread's hands at most and what that thread's event takes
away is at most what the block's entry has or had, so all that is still owed is never
more than all that was counted (`OwedIsCovered`). With nobody in the gate nothing is
owed inside it, and the shares sum.

`EngineImplementsEagerPeak` is the refinement of `EagerPeak`. The mapping's `held` is
a point's record and what it lacks of events that took effect, or has of one that has
not yet: an event takes effect on its exchange or subtraction, one that is a peak when
the maximum is raised. The invariant beside `Safe` and `Kept` is `Mapped`: `held` sums
to the live bytes, less the event about to be recorded as the peak (`HeldIsLive`), and
whoever holds the gate alone does not shrink the heap (`WriterGrows`), since an event
that raised the maximum and shrank its point would be no step of `EagerPeak`.

`Sums` has what these need of `SumFunction`: that it is an integer, moves by what one
entry moves by, is zero for zeros and grows with its terms. The operator is a recursion
over subsets in an order of its own choice, and the induction theorems of the library
take the predicate as a parameter, which the provers cannot instantiate. Each
induction is on a set instead: among the subsets of a finite set on which a statement
fails there would be a smallest, and it is shown that there is none.

`LifecycleSavingInternProofs`, of `Lifecycle` from `NoThreadAssumption` (`NoThread` is no thread), for any
set of threads: types; one profile at most, by the drop or the exit handler
(`WritesOneProfile`); what the run checks (`ProfileIsLeft`); and a disowned
child's silence. The invariant says how far the run can be while a thread is at a
program counter (`Stages`), that the claim has one winner and nothing is written
while there is one (`OneWinner`), what the thread that called `exit` may be doing
(`OneExit`), where the profiler that records the run is (`HolderHas`) and, for a
run that began with the handler listed, who will still write (`NotLost`). The
claim alone is not enough: the handler may win it only because it is taken off the
list by a single exit, and a drop that loses it returns without writing only
because somebody else is about to.

The same module, of `Saving` (as the instance `Sav`), for any threads, processes,
ids, pieces and bounds: a save replaces its destination with the whole of its own
file or leaves it alone (`SavesWhole`; the `SavesAreWhole` of `Saving`, the first
conjunct of the one `Reports` checks). Beside what the model says of its constants
(`SavingHypotheses`) it asks that every format flushes and that one thread saves the
baseline, the two things whose absence is a disagreement above. The invariant
follows a file from its creation: a save's temporary is its own (`SavesApart`), by
ids apart among live processes and numbers apart in each (`IdsApart`), so the file it
names has just what that save wrote (`OpenFiles`); once renamed it is reached by no
temporary (`NamesApart`, `NamesDiffer`) and nobody writes it again (`KeptFiles`). A
temporary that a crash left may be found by a successor under the same id, which
cuts it. Before any crash every other name has a saver that will remove it
(`Removers`).

The same module, of `PpIntern` from `TableAssumption` and `ArenaAssumption`, for any
threads, stacks, hashes, frames, numbers of shards, ceilings and limits of the arena:
that an id leads to the stack it was answered for (`AnswersAlwaysLead`), and that a
stack has one record unless its hash is another's or something was refused, that
numbers are in the order of creation, that blocks are apart and every word of the
arena is accounted for (`TablesAlwaysAgree`). `PointsInv` has an answer's record
(`AnswersHaveRecords`, with `PlaceOfId`: an id names one shard and one index), a
key's record, whose id somebody was answered (`KeysLead`), and a stack that is not
found while the one thread in its shard adds it (`OneInShard`). A second record needs
an excuse (`KeptOrExcused`): the first has its key, is about to get it, shares its
hash or was refused; two records with their keys are one record, and the one about to
get a key would be found. The order needs what was older when a number was taken
(`NumbersInOrder`): an answer that came before a call began is of a record with a
lower number, which holds for the answer of a found stack because some earlier
answer already gave its id. Of the arena it keeps that every block lies below the
cursor or in a chunk that was left (`Placed`), so that a new block is apart from all
(`AllocGrants`, for any phase the system chooses), and that a chunk made for a request
holds it (`GrowKeeps`), so no arena is poisoned. The books are four sums, over shards, records and calls
under way; a step of one thread changes a term of each (`BooksKept`).

`AllocShimSamplingUnwindProofs`, from finite sets of threads and addresses, a `None` that is
nothing else, sizes that are numbers and weights that are (`FiniteAssumption`,
`NoneAssumption`, `SizesAssumption`, `ScaledAssumption`), for any points and
bounds: types; that an entry of the table is its own block's (`EntriesAreBlocks`);
that the requests seen are those counted and dropped (`RequestsAreAccounted`); and
the books (`AccountsBalance`). `EntryIsBlock` rests on a thread having its address to
itself from its first step to the inner call (`Own`), on the entry being gone or
left behind by a refused call before the block is (`Gone`, `LeftBehind`), and on
what a thread is about to write being where the block counts (`Writes`). The
requests need the number of calls in flight between the observation and the count.

`Accounts` relates sums over points to the entries of a table in which a block may
be, for a while, counted without an entry or the reverse. What an address has in the
counters is what its entry says, or, while a call has the entry out of the table,
what that call holds (`Holder`, `Stands`); the counters of a point are the sum of what
stands at its addresses (`Kept`), which every step moves at one address, so that
`Sums` gives the rest. With every call back at rest what stands is the entries. After
an entry is lost, or the run has ended between a call's two halves, only `>=` is left,
which is what `Accounts` then asks.

The same module, of `Sampling` (as the instance `Smp`) from its `ConstantsAssumption`
(the draws are a finite set of positive numbers, the sizes fit in the word), for any
word, sizes, draws and number of requests: `SamplingIsExact`, the `SampledAndCounted` of
`Sampling`, which `Reports` checks. Of the points only the last can be ahead of the
position, and the countdown leads to it (`PointsFollow`); a request adds points
beyond the position, of which all but the last are in its bytes (`Advance`: the gaps
drawn before the last add up to no more than the bytes past the first point), so what
was answered for earlier bytes stays true (`SpansAreBehind`). The counters say of the
requests what an observer who kept them all would (`Counts`): a size has one class,
which is the least power of two above it (`ClassHolds`), and a reallocation adds its
growth to one sum and no more than its old size to another. The provers know nothing of
`2^b`, so the theorem also assumes `PowersDouble`, that each power is twice the one before:
a fact of arithmetic, which TLC evaluates on the runs' words.

And of `Unwind` (as `Unw`), from its `ConstantsAssumption` (bounds that are addresses,
batches and a budget that are positive, times that are a finite set of numbers), for any
word, stacks, memory, depth and batch sizes: `UnwindingHolds`, the `WalksTheStack` and
`CostIsMeasured` that `Reports` checks. One comparison of `frame_at` keeps a record
inside the stack because a difference that wrapped is beyond every span
(`WrappedIsBeyond`, `InRangeIsInside`). The records read are whole and rise
(`ChainHolds`); those discarded and those put out are all of them while the walk goes
on, and all but one at most when it has ended (`OutHolds`). While batches still grow,
every earlier one was smaller, so the batches of the published size are those counted
(`CostHolds`, `Measures`).

`ResetWindowAssertionsProofs`, of `ResetWindow` from disjoint roles and bounds that are numbers
(`ThreadsAssumption`, `BoundsAssumption`), for any readers, recorders and
restarts: types, and that a returned reading has every counter from the window it
names (`ReadingsAreWhole`), whichever messages the relaxed loads chose. The
invariant is about the stored messages. A counter of window w is released after
the odd store that began w (`Released`), which makes the second load of the
sequence catch a counter that is too new; the even store is released after the
counters, or after the poison of a restart that did not get to them
(`Restarted`), which keeps the first load from being followed by a counter that
is too old. That a recorder's peak satisfies `Released` is the fence in
`apply_locked`: whoever is inside the gate has seen the newest sequence (`InGate`).

The same module, of `Assertions` (as the instance `Asr`) from its
`ConstantsAssumption`, for any limits, any room in the live-block table and any number
of events: an assertion that answers answers what was true of the program
(`AssertionsAreFacts`, the `PassesAreFacts` of `Assertions`, which the one that
`Reports` checks asks of its share of the states). The counters are the truth while
nothing was dropped and the profiler records (`CountsAreTrue`). A reading takes them
one after another, so what it has read was true at different moments; and a drop may
come after a counter was read and before the count of the dropped is. The invariant
therefore says of a reading that each figure was the truth at a moment since it
began, *or* that it will find blocks dropped (`MeasureIsTrue`): the dropped are read
last and never forgotten. A mark that was kept is such a reading (`MarkIsTrue`), and
since a restart ends a reading that it falls into, totals only grow between a mark and
a reading of one window (`WindowsKept`): a mark ahead of the run has been edited.

`SlotTablesProofs`, of `GuardTable` from a table that a probe fits in, homes that are slots, a
`None` that is nothing else and bounds that are numbers (`SlotsAssumption`,
`HomeAssumption`, `NoneAssumption`, `BoundsAssumption`), for any threads and any
probes: types; that the count of claimed slots is exact; that a thread is inside at
most once with its slot's depth saying so (`GuardIsExclusive`); and that a slot
caches its owner's words. The invariant has two parts. One always holds: a slot
somebody will release, or is about to register, is that thread's and not both
(`Present`, `Registering`), which is what keeps the count. The other holds until a
slot strays: a thread has one slot, its calls that got that far are at it
(`Working`), one of them at most is inside (`OneHeld`), the depth is that
(`DepthIsOne`) and an open region has a slot (`RegionHasSlot`). Exclusion alone is
not inductive: a second call is refused only if it finds the slot of the first.

The same module, of `RawMap`, for any finite set of keys, any values, hash and
ceiling: that the table is in order at every step of every loop (`TableHolds`), that
its slots are those of inserting just the remaining keys (`LayoutHolds`, the `Layout`
of the run), and that it implements `BoundedMap` (`TableIsAMap`). The slots are a
ring; `Dist` says how far a slot is from a key's home, and a key's probes pass the
slots nearer than its own. A table is `Arranged` by an order of its keys when each
slot that a key's probes pass holds a key that came before it. Then `Stop` finds
every key and, for a new one, the free slot that keeps the arrangement
(`OrderedHolds`, `StoreNew`), and one order has one layout only (`OneLayout`: of two
layouts that differ take the first key that lies elsewhere; the slot it has in one
would be passed in the other). That makes `AsIfNeverInserted` a statement about
arrangements. In the middle of a removal the table is `ArrangedBut` for its gap:
keys may have been probed past it, if they lie at or beyond the slot the shift has
reached. A step moves a key into the gap or passes one that the gap does not concern
(`GapMoves`, `GapPassed`), and at the end of the cluster nobody is left who was
probed past it (`GapCloses`). A rehash copies the slots below an index and keeps the
rest in the old table (`Rehashing`). For the refinement `Content` is the set of
entries, those of the old table not yet copied included and that of the gap left
out: growing, rehashing and shifting leave it alone, and the calls change it as the
map changes.

`ForkLocksProofs`, from threads and shards that are not none
(`ForkLocksAssumption`), for any number of either and of operations: the order of
the locks (`LocksAreOrdered`), and types, quiet forks and nothing left locked
(`OperationsGiveBack`). What holds between two steps depends on where in its
operation a thread is, and operations are as long as there are shards. So a
*standing* says what a thread has of the locks, the gate and the guard, `Effect`
what a step does to a standing that allows it, and `Goes` that a sequence of steps
leads from one standing to another, through standings that allow every step and
from which giving up leads to rest. That is proved of each operation once, from its
parts (`LockAllGoes`, `InTurnGoes`, `ExclusiveForGoes`, ... to `ForkPrepareGoes`).
The invariant `IInv` says that every thread has a standing that agrees with the
state and from which its remaining steps lead to rest; it also keeps forks one at
a time and inside the guard (`Forks`), a closed gate with its writer
(`Announcer`), and what dead threads held until the child overwrites it
(`Orphans`).

Only model-checked: liveness (fairness is beyond the prover), the computations
over sequences (induction over data; `Json` and `Demangle` are also recursive), the
machines `Capture`, `Symbolizer` and `DemangleV0`, the second conjunct of what
`Reports` asks of saving and, of `Unwind`, the calibration (`CapturesTheCallers`),
both about computations.

## Not modelled, and the plan

To do: proofs for the machines that `MCReports` runs side by side (`Capture`,
`Symbolizer`, `DemangleV0`); the serialized mode of `PeakEngine`;
`heapscope-symbolize`'s `write_output`, which follows `Saving`'s protocol once per
process.

Left out for good: the platforms' own code (dyld, Windows and `dladdr` module
capture, dbghelp, system unwinders, stack bounds, the clock, the raw locks'
implementations), the wording and layout of reports, the page's script, the
terminal reports' budget, command lines, the search for binaries and build ids.
