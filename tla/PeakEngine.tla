----------------------------- MODULE PeakEngine -----------------------------
(***************************************************************************)
(* The recording engine (src/src/internals/engine.rs) and the program      *)
(* points it counts on (src/src/internals/pp.rs): what several threads do  *)
(* to the counters between the moment an event has changed the live-block  *)
(* table and the moment its counts are in, a flush of the points while the *)
(* run goes on, and a restart of the counts.                               *)
(*                                                                         *)
(* One action is one atomic operation on a global counter, or one critical *)
(* section of a program point's shard.  The gate is RWGate, which Gate.tla *)
(* implements.  Relaxed loads made before the gate is taken may return any *)
(* earlier value, so what they decide is a free choice.                    *)
(*                                                                         *)
(* A point's at-peak counters are lazy: they are refreshed when the point  *)
(* is next touched after the epoch moved.  sweep is what the eager scheme  *)
(* they replace would hold: the live counts of all points, copied at the   *)
(* very step that moved the epoch.                                         *)
(***************************************************************************)
EXTENDS RWGate, Integers, Functions

CONSTANTS Blocks,      \* the addresses the program allocates at
          Points,      \* program points, each behind its shard's lock
          None,        \* no live entry, no block, no point
          Sizes,       \* requested sizes
          MaxEvents,   \* bound on events, flushes and restarts
          FlushEvents  \* how many events a flush is in that bound

ASSUME NoneAssumption ==
    None \notin Blocks \cup Points \cup [pp : Points, site : Threads, size : Nat]
ASSUME SizesAssumption == Sizes \subseteq Nat
ASSUME FiniteAssumption == IsFiniteSet(Threads) /\ IsFiniteSet(Blocks) /\ IsFiniteSet(Points)
ASSUME BoundsAssumption == {MaxEvents, FlushEvents} \subseteq Nat

VARIABLES live,         \* Engine::live, the live-block table
          liveLock,     \* who holds every live shard, or NoThread
          pc, op,       \* where each thread is, and the Delta it applies
          ep,           \* the epoch a thread loaded
          todo,         \* the points a flush has still to visit
          curr_bytes, curr_blocks, max_bytes, max_blocks, total_blocks,
          epoch, dropped_blocks, poisoned,
          pps,          \* the points' records
          rows,         \* the threads' rows (Threads::tally)
          sweep,        \* history: the points' live counts when the epoch moved
          torn,         \* history: a flush went on without the gate
          due,          \* history: requests begun, less those of closed windows
          events        \* how many events, flushes and restarts have begun

tableVars == <<live, liveLock>>
globalVars == <<curr_bytes, curr_blocks, max_bytes, max_blocks, total_blocks, epoch>>
pointVars == <<pps, rows>>
historyVars == <<sweep, torn>>
vars == <<gateVars, tableVars, pc, op, ep, todo, globalVars, dropped_blocks,
          poisoned, pointVars, historyVars, due, events>>

EmptyPoint == [curr_bytes |-> 0, curr_blocks |-> 0, at_gmax_bytes |-> 0,
               at_gmax_blocks |-> 0, max_bytes |-> 0, total_blocks |-> 0,
               snapshot_epoch |-> 0]

Counts(point) == [bytes |-> point.curr_bytes, blocks |-> point.curr_blocks]

\* A Delta: the point it lands on, the thread row it is charged to, the block
\* it is about, and the changes it makes.
Delta(p, s, b, bytes, blocks, total) ==
    [pp |-> p, site |-> s, block |-> b, curr_bytes |-> bytes,
     curr_blocks |-> blocks, total_blocks |-> total, next_blocks |-> 0]

NoDelta(t) == Delta(None, t, None, 0, 0, 0)

Init ==
    /\ GateInit
    /\ live = [b \in Blocks |-> None]
    /\ liveLock = NoThread
    /\ pc = [t \in Threads |-> "idle"]
    /\ op = [t \in Threads |-> NoDelta(t)]
    /\ ep = [t \in Threads |-> 0]
    /\ todo = [t \in Threads |-> {}]
    /\ curr_bytes = 0 /\ curr_blocks = 0
    /\ max_bytes = 0 /\ max_blocks = 0
    /\ total_blocks = 0
    /\ epoch = 0
    /\ dropped_blocks = 0
    /\ poisoned = FALSE
    /\ pps = [p \in Points |-> EmptyPoint]
    /\ rows = [t \in Threads |-> [curr_bytes |-> 0, total_blocks |-> 0]]
    /\ sweep = [p \in Points |-> Counts(EmptyPoint)]
    /\ torn = FALSE
    /\ due = 0
    /\ events = 0

At(t, from) == pc[t] = from
Goto(t, to) == pc' = [pc EXCEPT ![t] = to]

-----------------------------------------------------------------------------
(* The table's part of an event, under one live shard's lock *)

\* Mutant: only a change above zero may be a peak.
RouteStrict(delta) == IF delta.curr_bytes > 0 THEN "grow" ELSE "shrink"

\* Engine::apply: `>= 0`, so that a resize to the same size may be a peak.
Route(delta) == IF delta.curr_bytes >= 0 THEN "grow" ELSE "shrink"

Begin(t, to, delta, requests) ==
    /\ At(t, "idle")
    /\ liveLock = NoThread
    /\ events < MaxEvents
    /\ events' = events + 1
    /\ due' = due + requests
    /\ op' = [op EXCEPT ![t] = delta]
    /\ Goto(t, to)
    /\ UNCHANGED <<gateVars, liveLock, ep, todo, globalVars, poisoned, pointVars, historyVars>>

\* The program has a block from the moment the call that made it returns, and
\* gives it up when it calls free or realloc.
Owned == {b \in Blocks : live[b] # None /\ \A u \in Threads : op[u].block # b}
Unused == {b \in Blocks : live[b] = None /\ \A u \in Threads : op[u].block # b}

\* What a whole block counts, and what undoing it takes away.
AllocDelta(t, b, p, n) == Delta(p, t, b, n, 1, 1)
FreeDelta(b) == Delta(live[b].pp, live[b].site, b, -live[b].size, -1, 0)
ReallocDelta(b, n) == Delta(live[b].pp, live[b].site, b, n - live[b].size, 0, 1)

\* record_alloc: the entry goes in before any counter moves.
RecordAlloc(t) ==
    \E b \in Unused, p \in Points, n \in Sizes :
       /\ Begin(t, Route(AllocDelta(t, b, p, n)), AllocDelta(t, b, p, n), 1)
       /\ live' = [live EXCEPT ![b] = [pp |-> p, site |-> t, size |-> n]]
       /\ UNCHANGED dropped_blocks

\* LiveBlocks::insert found no room: the block is counted nowhere.
RecordAllocDropped(t) ==
    /\ Unused # {}
    /\ Begin(t, "idle", NoDelta(t), 1)
    /\ dropped_blocks' = dropped_blocks + 1
    /\ UNCHANGED live

\* record_free: the entry leaves first, and its own site pays.
RecordFree(t) ==
    \E b \in Owned :
       /\ Begin(t, Route(FreeDelta(b)), FreeDelta(b), 0)
       /\ live' = [live EXCEPT ![b] = None]
       /\ UNCHANGED dropped_blocks

\* record_realloc_taken: the block keeps its point and its site.
RecordRealloc(t) ==
    \E b \in Owned, n \in Sizes :
       /\ Begin(t, Route(ReallocDelta(b, n)), ReallocDelta(b, n), 1)
       /\ live' = [live EXCEPT ![b].size = n]
       /\ UNCHANGED dropped_blocks

\* Mutant: the lost block's counts are not undone.
RecordReallocDroppedKept(t) ==
    \E b \in Owned :
       /\ Begin(t, "idle", NoDelta(t), 1)
       /\ live' = [live EXCEPT ![b] = None]
       /\ dropped_blocks' = dropped_blocks + 1

\* The entry could not be put back: what the block had counted is undone.
RecordReallocDropped(t) ==
    \E b \in Owned :
       /\ Begin(t, Route(FreeDelta(b)), FreeDelta(b), 1)
       /\ live' = [live EXCEPT ![b] = None]
       /\ dropped_blocks' = dropped_blocks + 1

\* record_event, by way of apply_without_peak: totals only, never a peak.
RecordEvent(t) ==
    \E p \in Points :
       /\ Begin(t, "shrink", Delta(p, t, None, 0, 0, 1), 1)
       /\ UNCHANGED <<live, dropped_blocks>>

-----------------------------------------------------------------------------
(* Engine::apply, under the gate *)

\* try_apply_shared.  Both pre-checks are racy, so growth may come here or go
\* straight to apply_exclusive.
EnterShared(t) ==
    /\ pc[t] \in {"grow", "shrink"}
    /\ AcquireShared(t)
    /\ Goto(t, IF At(t, "grow") THEN "try" ELSE "commit")
    /\ UNCHANGED <<tableVars, op, ep, todo, globalVars, dropped_blocks, poisoned,
                   pointVars, historyVars, due, events>>

\* The result would reach the peak: leave without committing.
BailOut(t) ==
    /\ At(t, "try")
    /\ curr_bytes + op[t].curr_bytes >= max_bytes
    /\ ReleaseShared(t)
    /\ Goto(t, "exclusive")
    /\ UNCHANGED <<tableVars, op, ep, todo, globalVars, dropped_blocks, poisoned,
                   pointVars, historyVars, due, events>>

\* Mutant: the exchange without the check under the gate.
TryCommitUnchecked(t) ==
    /\ At(t, "try")
    /\ curr_bytes' = curr_bytes + op[t].curr_bytes
    /\ ep' = [ep EXCEPT ![t] = epoch]
    /\ Goto(t, "blocks")
    /\ UNCHANGED <<gateVars, tableVars, op, todo, curr_blocks, max_bytes, max_blocks,
                   total_blocks, epoch, dropped_blocks, poisoned, pointVars,
                   historyVars, due, events>>

\* Mutant: an equal peak is committed on the shared path.
TryCommitEqual(t) ==
    /\ At(t, "try")
    /\ curr_bytes + op[t].curr_bytes <= max_bytes
    /\ curr_bytes' = curr_bytes + op[t].curr_bytes
    /\ ep' = [ep EXCEPT ![t] = epoch]
    /\ Goto(t, "blocks")
    /\ UNCHANGED <<gateVars, tableVars, op, todo, curr_blocks, max_bytes, max_blocks,
                   total_blocks, epoch, dropped_blocks, poisoned, pointVars,
                   historyVars, due, events>>

\* The exchange that succeeds found the value its check was made on; the
\* maximum cannot move under a shared guard.
TryCommit(t) ==
    /\ At(t, "try")
    /\ curr_bytes + op[t].curr_bytes < max_bytes
    /\ curr_bytes' = curr_bytes + op[t].curr_bytes
    /\ ep' = [ep EXCEPT ![t] = epoch]
    /\ Goto(t, "blocks")
    /\ UNCHANGED <<gateVars, tableVars, op, todo, curr_blocks, max_bytes, max_blocks,
                   total_blocks, epoch, dropped_blocks, poisoned, pointVars,
                   historyVars, due, events>>

\* A counter that would go below zero is repaired to zero and poisons the run.
Checked(value) == IF value < 0 THEN 0 ELSE value

\* Engine::commit: a shrink, or an event that moves no live bytes.
Commit(t) ==
    /\ At(t, "commit")
    /\ curr_bytes' = Checked(curr_bytes + op[t].curr_bytes)
    /\ poisoned' = (poisoned \/ curr_bytes + op[t].curr_bytes < 0)
    /\ ep' = [ep EXCEPT ![t] = epoch]
    /\ Goto(t, "blocks")
    /\ UNCHANGED <<gateVars, tableVars, op, todo, curr_blocks, max_bytes, max_blocks,
                   total_blocks, epoch, dropped_blocks, pointVars, historyVars, due, events>>

EnterExclusive(t) ==
    /\ pc[t] \in {"grow", "exclusive"}
    /\ AcquireExclusive(t)
    /\ Goto(t, "store")
    /\ UNCHANGED <<tableVars, op, ep, todo, globalVars, dropped_blocks, poisoned,
                   pointVars, historyVars, due, events>>

\* apply_locked, up to commit_after_bytes.
StoreBytes(t) ==
    /\ At(t, "store")
    /\ curr_bytes' = curr_bytes + op[t].curr_bytes
    /\ ep' = [ep EXCEPT ![t] = epoch]
    /\ Goto(t, "blocks")
    /\ UNCHANGED <<gateVars, tableVars, op, todo, curr_blocks, max_bytes, max_blocks,
                   total_blocks, epoch, dropped_blocks, poisoned, pointVars,
                   historyVars, due, events>>

\* commit_after_bytes, the global part: additions that commute, to words nobody
\* inside the gate reads.
CountBlocks(t) ==
    LET next == curr_blocks + op[t].curr_blocks
    IN  /\ At(t, "blocks")
        /\ curr_blocks' = Checked(next)
        /\ poisoned' = (poisoned \/ next < 0)
        /\ op' = [op EXCEPT ![t].next_blocks = Checked(next)]
        /\ total_blocks' = total_blocks + op[t].total_blocks
        /\ Goto(t, "point")
        /\ UNCHANGED <<gateVars, tableVars, ep, todo, curr_bytes, max_bytes, max_blocks,
                       epoch, dropped_blocks, pointVars, historyVars, due, events>>

\* Record::refresh: a stale epoch means the heap peaked after this point last
\* changed, so what it holds now is what it held then.
Refresh(point, e) ==
    IF point.snapshot_epoch = e THEN point
    ELSE [point EXCEPT !.at_gmax_bytes = point.curr_bytes,
                       !.at_gmax_blocks = point.curr_blocks,
                       !.snapshot_epoch = e]

Larger(a, b) == IF a > b THEN a ELSE b

\* apply_to_counters, then update_maxima.
Apply(point, delta) ==
    LET bytes  == Checked(point.curr_bytes + delta.curr_bytes)
        blocks == Checked(point.curr_blocks + delta.curr_blocks)
    IN  [point EXCEPT !.curr_bytes = bytes,
                      !.curr_blocks = blocks,
                      !.max_bytes = Larger(point.max_bytes, bytes),
                      !.total_blocks = @ + delta.total_blocks]

Underflows(point, delta) ==
    point.curr_bytes + delta.curr_bytes < 0 \/ point.curr_blocks + delta.curr_blocks < 0

\* Mutant: the change is applied before the refresh.
UpdatePointThenRefresh(t) ==
    LET p == op[t].pp
    IN  /\ At(t, "point")
        /\ pps' = [pps EXCEPT ![p] = Refresh(Apply(pps[p], op[t]), ep[t])]
        /\ poisoned' = (poisoned \/ Underflows(pps[p], op[t]))
        /\ Goto(t, "row")
        /\ UNCHANGED <<gateVars, tableVars, op, ep, todo, globalVars, dropped_blocks,
                       rows, historyVars, due, events>>

\* PpTable::update
UpdatePoint(t) ==
    LET p == op[t].pp
    IN  /\ At(t, "point")
        /\ pps' = [pps EXCEPT ![p] = Apply(Refresh(pps[p], ep[t]), op[t])]
        /\ poisoned' = (poisoned \/ Underflows(pps[p], op[t]))
        /\ Goto(t, "row")
        /\ UNCHANGED <<gateVars, tableVars, op, ep, todo, globalVars, dropped_blocks,
                       rows, historyVars, due, events>>

\* Engine::attribute: the row of the thread the block belongs to.
Attribute(t) ==
    LET s == op[t].site
    IN  /\ At(t, "row")
        /\ rows' = [rows EXCEPT ![s].curr_bytes = @ + op[t].curr_bytes,
                                ![s].total_blocks = @ + op[t].total_blocks]
        /\ Goto(t, "leave")
        /\ UNCHANGED <<gateVars, tableVars, op, ep, todo, globalVars, dropped_blocks,
                       poisoned, pps, historyVars, due, events>>

Finish(t) == Goto(t, "idle") /\ op' = [op EXCEPT ![t] = NoDelta(t)]

LeaveShared(t) ==
    /\ At(t, "leave")
    /\ ReleaseShared(t)
    /\ Finish(t)
    /\ UNCHANGED <<tableVars, ep, todo, globalVars, dropped_blocks, poisoned,
                   pointVars, historyVars, due, events>>

\* apply_locked found the result below the maximum after all.
LeaveExclusive(t) ==
    /\ At(t, "leave")
    /\ curr_bytes < max_bytes
    /\ ReleaseExclusive(t)
    /\ Finish(t)
    /\ UNCHANGED <<tableVars, ep, todo, globalVars, dropped_blocks, poisoned,
                   pointVars, historyVars, due, events>>

\* `>=`: of several equal peaks the latest is kept.
RaisePeak(t) ==
    /\ At(t, "leave")
    /\ writer = t
    /\ curr_bytes >= max_bytes
    /\ max_bytes' = curr_bytes
    /\ max_blocks' = op[t].next_blocks
    /\ Goto(t, "bump")
    /\ UNCHANGED <<gateVars, tableVars, op, ep, todo, curr_bytes, curr_blocks,
                   total_blocks, epoch, dropped_blocks, poisoned, pointVars,
                   historyVars, due, events>>

\* The epoch moves last.
BumpEpoch(t) ==
    /\ At(t, "bump")
    /\ epoch' = ep[t] + 1
    /\ sweep' = [p \in Points |-> Counts(pps[p])]
    /\ ReleaseExclusive(t)
    /\ Finish(t)
    /\ UNCHANGED <<tableVars, ep, todo, curr_bytes, curr_blocks, max_bytes, max_blocks,
                   total_blocks, dropped_blocks, poisoned, pointVars, torn, due, events>>

-----------------------------------------------------------------------------
(* Engine::flush_and_visit *)

StartFlush(t) ==
    /\ At(t, "idle")
    /\ events + FlushEvents <= MaxEvents
    /\ events' = events + FlushEvents
    /\ Goto(t, "flush_gate")
    /\ UNCHANGED <<gateVars, tableVars, op, ep, todo, globalVars, dropped_blocks,
                   poisoned, pointVars, historyVars, due>>

FlushEnter(t) ==
    /\ At(t, "flush_gate")
    /\ AcquireExclusive(t)
    /\ Goto(t, "flush_load")
    /\ UNCHANGED <<tableVars, op, ep, todo, globalVars, dropped_blocks, poisoned,
                   pointVars, historyVars, due, events>>

\* write_for timed out, which can happen although the gate is open at this
\* instant (a woken reader may have the RawLock).  The flush goes on all the same.
FlushTimeout(t) ==
    /\ At(t, "flush_gate")
    /\ torn' = TRUE
    /\ Goto(t, "flush_load")
    /\ UNCHANGED <<gateVars, tableVars, op, ep, todo, globalVars, dropped_blocks,
                   poisoned, pointVars, sweep, due, events>>

FlushLoad(t) ==
    /\ At(t, "flush_load")
    /\ ep' = [ep EXCEPT ![t] = epoch]
    /\ todo' = [todo EXCEPT ![t] = Points]
    /\ Goto(t, "flush")
    /\ UNCHANGED <<gateVars, tableVars, op, globalVars, dropped_blocks, poisoned,
                   pointVars, historyVars, due, events>>

\* One record is refreshed and copied under its shard's lock.
FlushPoint(t) ==
    \E p \in todo[t] :
       /\ At(t, "flush")
       /\ pps' = [pps EXCEPT ![p] = Refresh(@, ep[t])]
       /\ todo' = [todo EXCEPT ![t] = @ \ {p}]
       /\ UNCHANGED <<gateVars, tableVars, pc, op, ep, globalVars, dropped_blocks,
                      poisoned, rows, historyVars, due, events>>

\* The stats and the rows are read, and the gate dropped if it is held.
FlushDone(t) ==
    /\ At(t, "flush")
    /\ todo[t] = {}
    /\ \/ ReleaseExclusive(t)
       \/ writer # t /\ UNCHANGED gateVars
    /\ Goto(t, "idle")
    /\ UNCHANGED <<tableVars, op, ep, todo, globalVars, dropped_blocks, poisoned,
                   pointVars, historyVars, due, events>>

-----------------------------------------------------------------------------
(* Engine::reset *)

\* Every live shard, so that no block comes or goes.
ResetShards(t) ==
    /\ At(t, "idle")
    /\ ~poisoned
    /\ liveLock = NoThread
    /\ events < MaxEvents
    /\ events' = events + 1
    /\ liveLock' = t
    /\ Goto(t, "reset_gate")
    /\ UNCHANGED <<gateVars, live, op, ep, todo, globalVars, dropped_blocks, poisoned,
                   pointVars, historyVars, due>>

ResetEnter(t) ==
    /\ At(t, "reset_gate")
    /\ AcquireExclusive(t)
    /\ Goto(t, "reset")
    /\ UNCHANGED <<tableVars, op, ep, todo, globalVars, dropped_blocks, poisoned,
                   pointVars, historyVars, due, events>>

\* ResetError::Busy: the deadline passed, and nothing has changed.
ResetBusy(t) ==
    /\ At(t, "reset_gate")
    /\ liveLock' = NoThread
    /\ Goto(t, "idle")
    /\ UNCHANGED <<gateVars, live, op, ep, todo, globalVars, dropped_blocks, poisoned,
                   pointVars, historyVars, due, events>>

\* Record::restart
Restart(point, e) ==
    [point EXCEPT !.total_blocks = 0,
                  !.max_bytes = point.curr_bytes,
                  !.at_gmax_bytes = point.curr_bytes,
                  !.at_gmax_blocks = point.curr_blocks,
                  !.snapshot_epoch = e]

\* With every shard and the gate held, all of it is one step to the threads
\* that record.  resettable is asked again first.
ResetCounts(t) ==
    /\ At(t, "reset")
    /\ IF poisoned
       THEN UNCHANGED <<globalVars, pointVars, sweep, due>>
       ELSE /\ total_blocks' = 0
            /\ max_bytes' = curr_bytes
            /\ max_blocks' = curr_blocks
            /\ pps' = [p \in Points |-> Restart(pps[p], epoch + 1)]
            /\ rows' = [s \in Threads |-> [rows[s] EXCEPT !.total_blocks = 0]]
            /\ epoch' = epoch + 1
            /\ sweep' = [p \in Points |-> Counts(pps[p])]
            /\ due' = due - total_blocks
            /\ UNCHANGED <<curr_bytes, curr_blocks>>
    /\ ReleaseExclusive(t)
    /\ liveLock' = NoThread
    /\ Goto(t, "idle")
    /\ UNCHANGED <<live, op, ep, todo, dropped_blocks, poisoned, torn, events>>

-----------------------------------------------------------------------------
RecordStep(t) == RecordAlloc(t) \/ RecordAllocDropped(t) \/ RecordFree(t)
                    \/ RecordRealloc(t) \/ RecordReallocDropped(t) \/ RecordEvent(t)

ApplyStep(t) == EnterShared(t) \/ BailOut(t) \/ TryCommit(t) \/ Commit(t)
                   \/ EnterExclusive(t) \/ StoreBytes(t) \/ CountBlocks(t)
                   \/ UpdatePoint(t) \/ Attribute(t) \/ LeaveShared(t)
                   \/ LeaveExclusive(t) \/ RaisePeak(t) \/ BumpEpoch(t)

FlushStep(t) == StartFlush(t) \/ FlushEnter(t) \/ FlushTimeout(t) \/ FlushLoad(t)
                   \/ FlushPoint(t) \/ FlushDone(t)

ResetStep(t) == ResetShards(t) \/ ResetEnter(t) \/ ResetBusy(t) \/ ResetCounts(t)

Quiet == \A t \in Threads : At(t, "idle")

\* The bound on events is reached and every thread has finished.
Exhausted == Quiet /\ events = MaxEvents /\ UNCHANGED vars

Next == \/ \E t \in Threads : RecordStep(t) \/ ApplyStep(t) \/ FlushStep(t) \/ ResetStep(t)
        \/ Exhausted

Spec == Init /\ [][Next]_vars

-----------------------------------------------------------------------------
(* Properties *)

PCs == {"idle", "grow", "shrink", "try", "commit", "exclusive", "store", "blocks",
        "point", "row", "leave", "bump", "flush_gate", "flush_load", "flush",
        "reset_gate", "reset"}

PointRecords ==
    [curr_bytes : Nat, curr_blocks : Nat, at_gmax_bytes : Nat, at_gmax_blocks : Nat,
     max_bytes : Nat, total_blocks : Nat, snapshot_epoch : Nat]

Deltas ==
    [pp : Points \cup {None}, site : Threads, block : Blocks \cup {None},
     curr_bytes : Int, curr_blocks : Int, total_blocks : Nat, next_blocks : Nat]

TypeOK ==
    /\ GateTypeOK
    /\ live \in [Blocks -> [pp : Points, site : Threads, size : Nat] \cup {None}]
    /\ liveLock \in Threads \cup {NoThread}
    /\ pc \in [Threads -> PCs]
    /\ op \in [Threads -> Deltas]
    /\ ep \in [Threads -> Nat]
    /\ todo \in [Threads -> SUBSET Points]
    /\ curr_bytes \in Nat /\ curr_blocks \in Nat
    /\ max_bytes \in Nat /\ max_blocks \in Nat
    /\ total_blocks \in Nat
    /\ epoch \in Nat
    /\ dropped_blocks \in Nat
    /\ poisoned \in BOOLEAN
    /\ pps \in [Points -> PointRecords]
    /\ rows \in [Threads -> [curr_bytes : Int, total_blocks : Nat]]
    /\ sweep \in [Points -> [bytes : Nat, blocks : Nat]]
    /\ torn \in BOOLEAN
    /\ due \in Int
    /\ events \in Nat

\* No counter ever goes below zero, so no repair to zero is ever reached: a
\* free is counted after the allocation it undoes, on every counter.
\* A row never shows fewer than no bytes either, whoever frees what it allocated.
NeverPoisoned == ~poisoned /\ \A s \in Threads : rows[s].curr_bytes >= 0

\* The at-peak counters of a point, as a reader at the current epoch gets them.
AtPeak(p) == LET r == Refresh(pps[p], epoch)
             IN  [bytes |-> r.at_gmax_bytes, blocks |-> r.at_gmax_blocks]

\* The lazy snapshot is the eager one, for every point and at every moment,
\* although the points are refreshed one by one, long after the peak.
LazyIsEager == ~torn => \A p \in Points : AtPeak(p) = sweep[p]

SumOver(f(_)) == SumFunction([p \in Points |-> f(p)])
Raising == \E t \in Threads : At(t, "bump")

\* "sum(pp.gb) == gmax exactly": the at-peak columns sum to the peak that is
\* reported, while the run goes on.
AtPeakSums ==
    ~torn /\ ~Raising =>
        /\ SumOver(LAMBDA p : AtPeak(p).bytes) = max_bytes
        /\ SumOver(LAMBDA p : AtPeak(p).blocks) = max_blocks

\* Live bytes are above the recorded maximum only while the event that brought
\* them there holds the gate alone and is about to record it.
PeakBounds == curr_bytes > max_bytes => writer # NoThread

\* An event that does not shrink the heap and ends at the maximum is never
\* committed on the shared path: "with several equal peaks, the latest is the
\* one reported", a resize to the same size included.
SharedNeverPeaks ==
    [][\A t \in Threads :
          pc[t] \in {"try", "commit"} /\ pc'[t] = "blocks"
             /\ op[t].block # None /\ op[t].curr_bytes >= 0
          => curr_bytes' < max_bytes]_vars

\* With nobody in the gate, every share of a counter adds up to the counter:
\* the points', the thread rows' and, with no event under way, the table's.
SharesSum ==
    readers = {} /\ writer = NoThread =>
        /\ curr_bytes = SumOver(LAMBDA p : pps[p].curr_bytes)
        /\ curr_blocks = SumOver(LAMBDA p : pps[p].curr_blocks)
        /\ total_blocks = SumOver(LAMBDA p : pps[p].total_blocks)
        /\ curr_bytes = SumFunction([s \in Threads |-> rows[s].curr_bytes])
        /\ total_blocks = SumFunction([s \in Threads |-> rows[s].total_blocks])

LiveBytes(b) == IF live[b] = None THEN 0 ELSE live[b].size
CountersAreLive == Quiet => curr_bytes = SumFunction([b \in Blocks |-> LiveBytes(b)])

\* "every observed request either counted toward total_blocks or was dropped",
\* and none twice, whichever way through the gate it took.
RequestsCounted == Quiet => total_blocks + dropped_blocks = due

\* A point's own maximum covers what it held at the global peak.
PointMaximumCoversPeak ==
    \A p \in Points : pps[p].at_gmax_bytes <= pps[p].max_bytes

\* Engine::flush_and_visit reads the points and max_bytes "from the same
\* exclusive window", and a profile says when it was not: a flush that has the
\* gate emits at-peak columns that sum to the peak.
ExclusiveFlushIsExact ==
    \A t \in Threads :
       At(t, "flush") /\ todo[t] = {} /\ writer = t =>
          SumOver(LAMBDA p : pps[p].at_gmax_bytes) = max_bytes

-----------------------------------------------------------------------------
(* The refinement: an event takes effect on its exchange or its fetch_sub,  *)
(* an event that is a peak when the maximum is raised.                      *)

PeakAhead(t) == writer = t /\ curr_bytes >= max_bytes

\* A thread between an event's effect and its record, in either order.
Lags(t) == /\ pc[t] \in {"blocks", "point", "row", "leave"}
           /\ PeakAhead(t) <=> pc[t] \in {"row", "leave"}

\* What a point's record lacks of a thread's event that took effect, or has of
\* one that has not yet.
Lacks(p, t) ==
    IF ~Lags(t) \/ op[t].pp # p THEN 0
    ELSE IF PeakAhead(t) THEN -op[t].curr_bytes ELSE op[t].curr_bytes

Held == [p \in Points |->
            pps[p].curr_bytes + SumFunction([t \in Threads |-> Lacks(p, t)])]

EagerAtPeak == [p \in Points |-> IF Raising THEN pps[p].curr_bytes ELSE AtPeak(p).bytes]

Eager == INSTANCE EagerPeak WITH held <- Held, peak <- max_bytes,
                               atPeak <- EagerAtPeak, exact <- ~torn

\* Every event that reaches the maximum is recorded as the peak, an equal one
\* included, with exactly what each point held at that instant, until a flush
\* goes on without the gate; and the maximum even then.
ImplementsEagerPeak == Eager!EagerSpec


\* The live bytes, with the types of all the counters, under the maximum.
Bounded == TypeOK /\ PeakBounds

\* The books of the engine, the points, the rows and the table agree, in every
\* window, whatever is recorded, refused, flushed and restarted.
Accounts ==
    /\ NeverPoisoned /\ CountersAreLive /\ RequestsCounted
    /\ SharesSum /\ AtPeakSums /\ PointMaximumCoversPeak
=============================================================================
