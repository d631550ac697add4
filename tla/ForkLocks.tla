----------------------------- MODULE ForkLocks -----------------------------
(***************************************************************************)
(* The locks of the engine and the order in which its operations take them *)
(* (src/src/internals/order.rs), and a fork handler that takes all of them *)
(* while other threads hold some and wait for others                       *)
(* (src/src/internals/engine.rs, fork_prepare, fork_parent, fork_child).   *)
(*                                                                         *)
(* An operation is the sequence of its steps on locks; what it does with   *)
(* the tables between two steps is the matter of the other modules.  A     *)
(* timed step carries what the operation does instead when it gives up.    *)
(* The gate is the level between the block shards and the point shards:    *)
(* its writers' lock is <<PeakGate, 0>>, its readers are `reading` and the *)
(* announcement of a writer is `announced` (module Gate has the word).     *)
(***************************************************************************)
EXTENDS Integers, Sequences, FiniteSets, SequencesExt

CONSTANTS
    Threads,    \* the threads of the process
    Shards,     \* shards of the block table and of the point table
    MaxOps      \* bound: operations begun

ASSUME ForkLocksAssumption ==
    /\ Threads # {}
    /\ Shards \in Nat \ {0}
    /\ MaxOps \in Nat \ {0}

\* Level.
LiveBlockShard    == 1
PeakGate          == 2
ProgramPointShard == 3
RegionTable       == 4
ArenaLevel        == 5

Live(s)    == <<LiveBlockShard, s>>
GateLock   == <<PeakGate, 0>>
Point(s)   == <<ProgramPointShard, s>>
Overflow   == <<ProgramPointShard, Shards + 1>>
RegionLock == <<RegionTable, 0>>
ArenaLock  == <<ArenaLevel, 0>>

Locks == {Live(s) : s \in 1..Shards} \cup {Point(s) : s \in 1..Shards}
           \cup {GateLock, Overflow, RegionLock, ArenaLock}

\* The lock a is taken before the lock b.
Before(a, b) == a[1] < b[1] \/ (a[1] = b[1] /\ a[2] < b[2])

VARIABLES
    holder,     \* the thread that holds each lock, or {}
    reading,    \* the threads inside the gate
    announced,  \* whether a writer keeps new readers out of the gate
    todo,       \* the steps each thread has still to do
    guarded,    \* the threads a fork handler keeps inside the reentrancy guard
    entered,    \* GUARD_ENTERED
    alive,      \* the threads of this process: a child has one
    held,       \* fork_locks_held
    ops         \* operations begun

vars == <<holder, reading, announced, todo, guarded, entered, alive, held, ops>>

-----------------------------------------------------------------------------
\* The steps.  A timed one may be given up for other steps.

Step(do, at)        == [do |-> do, at |-> at, timed |-> FALSE, otherwise |-> <<>>]
Try(do, at, giveUp) == [do |-> do, at |-> at, timed |-> TRUE, otherwise |-> giveUp]

Lock(l)   == Step("lock", l)
Unlock(l) == Step("unlock", l)

\* The locks are taken, or released, one by one in the order given.
LockAll(ls)   == [i \in DOMAIN ls |-> Lock(ls[i])]
UnlockAll(ls) == [i \in DOMAIN ls |-> Unlock(ls[i])]
\* One critical section after another.
InTurn(ls) ==
    [i \in 1..2 * Len(ls) |-> IF i % 2 = 1 THEN Lock(ls[(i + 1) \div 2]) ELSE Unlock(ls[i \div 2])]

LiveLocks  == [s \in 1..Shards |-> Live(s)]
\* Mutant: the overflow record's lock is forgotten.
ShardLocksOnly == [s \in 1..Shards |-> Point(s)]
PointLocks == [s \in 1..Shards |-> Point(s)] \o <<Overflow>>

\* A critical section that allocates from the arena inside.
Allocating(l) == <<Lock(l), Lock(ArenaLock), Unlock(ArenaLock), Unlock(l)>>

\* Gate::read and its guard's drop, around steps.
Shared(steps) == <<Step("read", GateLock)>> \o steps \o <<Step("unread", GateLock)>>

\* Gate::write, which has no deadline.
Reopen == <<Step("reopen", GateLock), Unlock(GateLock)>>
Exclusive(steps) ==
    <<Lock(GateLock), Step("announce", GateLock), Step("drain", GateLock)>> \o steps \o Reopen

\* Gate::write_for: without the gate the operation ends with giveUp instead.
ExclusiveFor(steps, giveUp) ==
    <<Try("lock", GateLock, giveUp),
      Step("announce", GateLock),
      Try("drain", GateLock, Reopen \o giveUp)>> \o steps

-----------------------------------------------------------------------------
\* The operations.  p is a point's lock, s a shard of the block table.

\* Engine::apply commits on the shared path, on the exclusive one, or on the
\* exclusive one after the shared one bailed out.
Applies(p) ==
    {Shared(InTurn(<<p>>)), Exclusive(InTurn(<<p>>)), Shared(<<>>) \o Exclusive(InTurn(<<p>>))}

\* record_alloc and record_realloc_taken: intern, insert, apply.  A stack that
\* could not be interned counts for the overflow point.
InternsIn(p) == IF p = Overflow THEN Point(1) ELSE p
RecordAlloc(p, s) == {Allocating(InternsIn(p)) \o Allocating(Live(s)) \o a : a \in Applies(p)}

\* record_free: remove, apply.
RecordFree(p, s) == {InTurn(<<Live(s)>>) \o a : a \in Applies(p)}

\* flush_and_visit goes on without the gate; a snapshot then sweeps the block
\* table and the points.
Sweep == InTurn(LiveLocks) \o InTurn(PointLocks)
FlushAndVisit == ExclusiveFor(InTurn(PointLocks), InTurn(PointLocks) \o Sweep) \o Reopen \o Sweep

\* stop waits for the events in flight.
Stop == ExclusiveFor(<<>>, <<>>) \o Reopen

\* reset takes every block shard and then the gate, or gives back what it has.
\* Mutant: giving up keeps the shards taken so far.
TakeShardsForGood == [s \in 1..Shards |-> Try("lock", Live(s), <<>>)]
TakeShards == [s \in 1..Shards |-> Try("lock", Live(s), UnlockAll(SubSeq(LiveLocks, 1, s - 1)))]
Reset == TakeShards \o ExclusiveFor(InTurn(PointLocks), UnlockAll(LiveLocks))
           \o Reopen \o UnlockAll(LiveLocks)

\* Regions::intern.
InternRegion == Allocating(RegionLock)

\* The fork handlers: prepare enters the guard and takes every lock, or gives
\* up at the gate and forks all the same; parent releases in reverse; child
\* overwrites the locks.
Deeper     == PointLocks \o <<RegionLock, ArenaLock>>
UnlockLive == UnlockAll(Reverse(LiveLocks))
Window(outcome) == <<Step(outcome, GateLock), Step("fork", GateLock), Step("parent", GateLock)>>
ForkPrepare ==
    <<Step("enter", GateLock)>> \o LockAll(LiveLocks)
      \o ExclusiveFor(LockAll(Deeper), UnlockLive \o Window("none held")) \o Window("all held")
ForkParent == UnlockAll(Reverse(Deeper)) \o Reopen \o UnlockLive
ForkChild  == <<Step("reinit", GateLock), Step("leave", GateLock)>>

Records(p, s) == RecordAlloc(p, s) \cup RecordFree(p, s)
Points == {Point(i) : i \in 1..Shards} \cup {Overflow}
Recordings == UNION {Records(p, s) : p \in Points, s \in 1..Shards}
Operations == Recordings \cup {FlushAndVisit, Stop, Reset, InternRegion, ForkPrepare}

-----------------------------------------------------------------------------
Init ==
    /\ holder = [l \in Locks |-> {}]
    /\ reading = {}
    /\ announced = FALSE
    /\ todo = [t \in Threads |-> <<>>]
    /\ guarded = {}
    /\ entered = FALSE
    /\ alive = Threads
    /\ held = FALSE
    /\ ops = 0

Now(t) == Head(todo[t])
Doing(t, do) == todo[t] # <<>> /\ Now(t).do = do
Done(t) == todo' = [todo EXCEPT ![t] = Tail(@)]

\* The forking thread, from prepare to parent or child.
Forking(t) == \E i \in DOMAIN todo[t] : todo[t][i].do \in {"fork", "parent", "leave"}

\* A thread begins an operation; inside the guard it is refused.  Forks do not
\* race each other: fork.rs calls that unrecoverable.
Begin(t) ==
    /\ t \in alive \ guarded
    /\ todo[t] = <<>>
    /\ ops < MaxOps
    /\ \E op \in Operations :
           /\ op = ForkPrepare => ~\E u \in alive : Forking(u)
           /\ todo' = [todo EXCEPT ![t] = op]
    /\ ops' = ops + 1
    /\ UNCHANGED <<holder, reading, announced, guarded, entered, alive, held>>

\* RawLock::lock blocks while anybody, this thread included, holds the lock.
Take(t) ==
    /\ Doing(t, "lock")
    /\ holder[Now(t).at] = {}
    /\ holder' = [holder EXCEPT ![Now(t).at] = {t}]
    /\ Done(t)
    /\ UNCHANGED <<reading, announced, guarded, entered, alive, held, ops>>

\* RawLock::try_lock_for, or the drain of Gate::write_for, runs out of time.
GiveUp(t) ==
    /\ \/ Doing(t, "lock") /\ holder[Now(t).at] # {}
       \/ Doing(t, "drain") /\ reading # {}
    /\ Now(t).timed
    /\ todo' = [todo EXCEPT ![t] = Now(t).otherwise]
    /\ UNCHANGED <<holder, reading, announced, guarded, entered, alive, held, ops>>

\* RawLock::unlock.
Release(t) ==
    /\ Doing(t, "unlock")
    /\ holder' = [holder EXCEPT ![Now(t).at] = {}]
    /\ Done(t)
    /\ UNCHANGED <<reading, announced, guarded, entered, alive, held, ops>>

\* Gate::read waits for the writer, and ReadGuard::drop.
Read(t) ==
    /\ \/ Doing(t, "read") /\ ~announced /\ reading' = reading \cup {t}
       \/ Doing(t, "unread") /\ reading' = reading \ {t}
    /\ Done(t)
    /\ UNCHANGED <<holder, announced, guarded, entered, alive, held, ops>>

\* The writer keeps readers out, waits for those inside, and reopens the gate.
Write(t) ==
    /\ \/ Doing(t, "announce") /\ announced' = TRUE
       \/ Doing(t, "drain") /\ reading = {} /\ UNCHANGED announced
       \/ Doing(t, "reopen") /\ announced' = FALSE
    /\ Done(t)
    /\ UNCHANGED <<holder, reading, guarded, entered, alive, held, ops>>

\* Mutant: prepare does not enter the guard.
GuardNothing(t) ==
    /\ Doing(t, "enter") \/ Doing(t, "leave")
    /\ Done(t)
    /\ UNCHANGED <<holder, reading, announced, guarded, entered, alive, held, ops>>

\* prepare's guard::enter_unbalanced, whose answer is the static GUARD_ENTERED,
\* and leave_guard, which takes it back.
Guard(t) ==
    /\ \/ /\ Doing(t, "enter")
          /\ guarded' = guarded \cup {t}
          /\ entered' = (t \notin guarded)
       \/ /\ Doing(t, "leave")
          /\ guarded' = IF entered THEN guarded \ {t} ELSE guarded
          /\ entered' = FALSE
    /\ Done(t)
    /\ UNCHANGED <<holder, reading, announced, alive, held, ops>>

\* fork_prepare records whether it holds the locks.
Prepared(t) ==
    /\ Doing(t, "all held") \/ Doing(t, "none held")
    /\ held' = Doing(t, "all held")
    /\ Done(t)
    /\ UNCHANGED <<holder, reading, announced, guarded, entered, alive, ops>>

\* A handler of another library allocates between prepare and parent or child.
\* The guard forwards it; without it the allocation would be recorded.
AllocateInWindow(t) ==
    /\ Doing(t, "fork") \/ Doing(t, "parent") \/ Doing(t, "reinit")
    /\ IF t \in guarded THEN UNCHANGED todo
       ELSE \E op \in RecordAlloc(Point(1), 1) : todo' = [todo EXCEPT ![t] = op \o @]
    /\ UNCHANGED <<holder, reading, announced, guarded, entered, alive, held, ops>>

\* fork returns in the parent, or fails: the parent handlers run either way.
ForkReturns(t) ==
    /\ Doing(t, "fork")
    /\ Done(t)
    /\ UNCHANGED <<holder, reading, announced, guarded, entered, alive, held, ops>>

\* fork_parent swaps the flag and releases what prepare took.
Parent(t) ==
    /\ Doing(t, "parent")
    /\ todo' = [todo EXCEPT ![t] = (IF held THEN ForkParent ELSE <<>>) \o <<Step("leave", GateLock)>>]
    /\ held' = FALSE
    /\ UNCHANGED <<holder, reading, announced, guarded, entered, alive, ops>>

\* fork returns in the child: the other threads are not there, what they held is.
BecomeChild(t) ==
    /\ Doing(t, "fork")
    /\ alive' = {t}
    /\ todo' = [u \in Threads |-> IF u = t THEN ForkChild ELSE <<>>]
    /\ UNCHANGED <<holder, reading, announced, guarded, entered, held, ops>>

\* fork_child overwrites every lock, and the guard's table but for its own.
Child(t) ==
    /\ Doing(t, "reinit")
    /\ holder' = [l \in Locks |-> {}]
    /\ reading' = {}
    /\ announced' = FALSE
    /\ guarded' = guarded \cap {t}
    /\ Done(t)
    /\ UNCHANGED <<entered, alive, held, ops>>

Resting == \A t \in alive : todo[t] = <<>>

ThreadStep(t) ==
    \/ Take(t) \/ GiveUp(t) \/ Release(t) \/ Read(t) \/ Write(t) \/ Guard(t)
    \/ Prepared(t) \/ ForkReturns(t) \/ Parent(t) \/ BecomeChild(t) \/ Child(t)

Next == \E t \in Threads : Begin(t) \/ AllocateInWindow(t) \/ ThreadStep(t)

\* A thread that can move does; allocating in the window and beginning an
\* operation are up to the program.
Spec == Init /\ [][Next]_vars /\ \A t \in Threads : WF_vars(ThreadStep(t))

-----------------------------------------------------------------------------
\* What `t` holds: locks, and the gate as a reader.
Holds(t) == {l \in Locks : holder[l] = {t}} \cup (IF t \in reading THEN {GateLock} ELSE {})

(***************************************************************************)
(* Types; an announced gate has the writer that announced it, who holds    *)
(* its lock.                                                               *)
(***************************************************************************)
TypeOK ==
    /\ \A l \in Locks : holder[l] \subseteq Threads /\ Cardinality(holder[l]) <= 1
    /\ reading \subseteq Threads
    /\ guarded \subseteq Threads
    /\ alive \subseteq Threads /\ alive # {}
    /\ {announced, entered, held} \subseteq BOOLEAN
    /\ announced => holder[GateLock] # {}

(***************************************************************************)
(* order.rs: a thread waits only for a lock that comes after every lock it *)
(* holds, so no thread waits for itself and no two wait for each other.  A *)
(* handler that allocated in the window of a fork without the guard would  *)
(* break it.                                                               *)
(***************************************************************************)
Ordered ==
    \A t \in alive : Doing(t, "lock") \/ Doing(t, "read") =>
        \A l \in Holds(t) : Before(l, Now(t).at)

(***************************************************************************)
(* fork_prepare: a fork that reports the locks held is made while nobody   *)
(* else is in any critical section, so the child's tables are whole; and   *)
(* one that gave up holds nothing at all.                                  *)
(***************************************************************************)
Quiesced ==
    \A t \in alive : Doing(t, "fork") =>
        IF held THEN /\ \A l \in Locks : holder[l] = {t}
                     /\ reading = {}
        ELSE Holds(t) = {}

(***************************************************************************)
(* Every way out of every operation, giving up and forking included, gives *)
(* back what was taken: a thread between operations holds nothing, and at  *)
(* rest nobody does, also in a child whose parent had threads in the       *)
(* middle of everything.                                                   *)
(***************************************************************************)
NothingLeftLocked ==
    /\ \A t \in alive : todo[t] = <<>> => Holds(t) = {}
    /\ Resting /\ guarded \cap alive = {} =>
           reading = {} /\ ~announced /\ \A l \in Locks : holder[l] = {}

(***************************************************************************)
(* Every operation ends: the fork too, although it waits for block shards  *)
(* without a deadline and for the gate that other threads keep entering.   *)
(***************************************************************************)
OperationsEnd == \A t \in Threads : todo[t] # <<>> ~> todo[t] = <<>>


\* Forks find everything at rest and every operation leaves it so.
GivenBack == TypeOK /\ Quiesced /\ NothingLeftLocked
=============================================================================
