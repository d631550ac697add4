-------------------------- MODULE PeakEngineProofs --------------------------
(***************************************************************************)
(* The lazy at-peak snapshot of PeakEngine.tla, proved for any threads,    *)
(* points, addresses and sizes and any number of events.                   *)
(*                                                                         *)
(* Safe is inductive.  Its control part says who holds the gate where and  *)
(* that a thread in the gate knows the current epoch; its lazy part that   *)
(* refreshing a point now would give it what it held when the epoch moved. *)
(*                                                                         *)
(* Kept is inductive beside it.  Every counter and what the events under   *)
(* way still owe it add up to the live-block table, so with nobody in the  *)
(* gate the shares of a counter sum to it, and no counter is ever short.   *)
(*                                                                         *)
(* Mapped relates both to EagerPeak: what the points hold there is what is *)
(* live, less the event that is about to be recorded as the peak.          *)
(***************************************************************************)
EXTENDS PeakEngine, Sums

Counting == {"blocks", "point", "row", "leave"}
Recording == {"grow", "shrink", "try", "commit", "exclusive", "store", "bump"} \cup Counting
Flushing == {"flush_load", "flush"}

\* Who holds the gate where.
Places == \A t \in Threads :
    /\ pc[t] \in {"try", "commit"} => t \in readers
    /\ pc[t] \in {"store", "bump", "reset"} => writer = t
    /\ pc[t] \in Counting => t \in readers \/ writer = t
    /\ ~torn /\ pc[t] \in Flushing => writer = t
    /\ t \in readers => pc[t] \in {"try", "commit"} \cup Counting

\* What kind of change goes which way.
DeltasFit == \A t \in Threads :
    /\ pc[t] \in Recording => op[t].pp \in Points
    /\ pc[t] \in {"grow", "try", "exclusive", "store"} => op[t].curr_bytes >= 0
    /\ pc[t] \in {"shrink", "commit"} =>
          op[t].curr_bytes < 0 \/ (op[t].curr_bytes = 0 /\ op[t].block = None)

\* A thread in the gate knows the epoch, which cannot move under it.
EpochsKnown == \A t \in Threads :
    /\ pc[t] \in Counting \cup {"bump"} => ep[t] = epoch
    /\ ~torn /\ pc[t] = "flush" => ep[t] = epoch

Control == GateExclusion /\ Places /\ DeltasFit /\ EpochsKnown

\* No point has seen an epoch that is still to come.
Lazy == /\ ~torn => \A p \in Points : pps[p].snapshot_epoch <= epoch
        /\ LazyIsEager

AboveIsExclusive == curr_bytes > max_bytes =>
    \E t \in Threads : writer = t /\ pc[t] \in Counting

Safe == TypeOK /\ Control /\ Lazy /\ AboveIsExclusive

-----------------------------------------------------------------------------
(* The operations on a point's record *)

\* A refreshed record is a record of that epoch, with the same live counts.
LEMMA RefreshedRecord ==
    ASSUME NEW r \in PointRecords, NEW e \in Nat
    PROVE  /\ Refresh(r, e) \in PointRecords
           /\ Refresh(r, e).snapshot_epoch = e
           /\ Refresh(r, e).curr_bytes = r.curr_bytes
           /\ Refresh(r, e).curr_blocks = r.curr_blocks
BY DEF Refresh, PointRecords

\* Refreshing a record twice at one epoch is refreshing it once.
LEMMA RefreshedTwice ==
    ASSUME NEW r \in PointRecords, NEW e \in Nat
    PROVE  Refresh(Refresh(r, e), e) = Refresh(r, e)
BY RefreshedRecord DEF Refresh

\* A counter repaired to zero is a counter.
LEMMA CheckedIsNat == ASSUME NEW i \in Int PROVE Checked(i) \in Nat
BY DEF Checked

\* A change leaves the at-peak counters and their epoch alone.
LEMMA AppliedRecord ==
    ASSUME NEW r \in PointRecords, NEW d \in Deltas
    PROVE  /\ Apply(r, d) \in PointRecords
           /\ Apply(r, d).snapshot_epoch = r.snapshot_epoch
           /\ Apply(r, d).at_gmax_bytes = r.at_gmax_bytes
           /\ Apply(r, d).at_gmax_blocks = r.at_gmax_blocks
<1> DEFINE bytes  == Checked(r.curr_bytes + d.curr_bytes)
           blocks == Checked(r.curr_blocks + d.curr_blocks)
<1>1. bytes \in Nat /\ blocks \in Nat
    BY CheckedIsNat DEF PointRecords, Deltas
<1>2. Larger(r.max_bytes, bytes) \in Nat
    BY <1>1 DEF Larger, PointRecords
<1>3. Apply(r, d) = [r EXCEPT !.curr_bytes = bytes, !.curr_blocks = blocks,
                             !.max_bytes = Larger(r.max_bytes, bytes),
                             !.total_blocks = r.total_blocks + d.total_blocks]
    BY Zenon DEF Apply
<1>4. r.total_blocks + d.total_blocks \in Nat
    BY DEF PointRecords, Deltas
<1> HIDE DEF bytes, blocks
<1> QED
    BY <1>1, <1>2, <1>3, <1>4 DEF PointRecords

\* A restarted record is at the peak it is restarted at.
LEMMA RestartedRecord ==
    ASSUME NEW r \in PointRecords, NEW e \in Nat
    PROVE  /\ Restart(r, e) \in PointRecords
           /\ Restart(r, e).snapshot_epoch = e
           /\ Restart(r, e).at_gmax_bytes = r.curr_bytes
           /\ Restart(r, e).at_gmax_blocks = r.curr_blocks
BY DEF Restart, PointRecords

\* Only a step on the points, the epoch or the histories touches Lazy.
LEMMA LazyFrame ==
    ASSUME Lazy, UNCHANGED <<pps, epoch, sweep, torn>>
    PROVE  Lazy'
BY DEF Lazy, LazyIsEager, AtPeak

\* In the gate, a refresh at the thread's epoch gives the point what it held at
\* the peak; a change on top of it does not take that away.
LEMMA RefreshKeepsAtPeak ==
    ASSUME TypeOK, NEW p \in Points
    PROVE  /\ Refresh(pps[p], epoch) \in PointRecords
           /\ Refresh(pps[p], epoch).snapshot_epoch = epoch
           /\ AtPeak(p) = [bytes  |-> Refresh(pps[p], epoch).at_gmax_bytes,
                           blocks |-> Refresh(pps[p], epoch).at_gmax_blocks]
BY RefreshedRecord DEF TypeOK, AtPeak

-----------------------------------------------------------------------------
(* One lemma per action *)

LEMMA RecordAllocSafe ==
    ASSUME Safe, NEW t \in Threads, RecordAlloc(t) PROVE Safe'
<1>1. TypeOK'
    BY NoThreadAssumption, NoneAssumption, SizesAssumption
        DEF Safe, TypeOK, GateTypeOK, PCs, Deltas, RecordAlloc, Goto, gateVars, globalVars,
            pointVars, historyVars, Begin, Route, Unused, Delta, AllocDelta
<1>2. Control'
    BY NoThreadAssumption, NoneAssumption, SizesAssumption
        DEF Control, Safe, TypeOK, GateExclusion, Places, DeltasFit, EpochsKnown, Counting,
            Flushing, RecordAlloc, Goto, At, gateVars, globalVars, historyVars, Begin, Route,
            Delta, AllocDelta
<1>3. Lazy'
    BY LazyFrame DEF Safe, RecordAlloc, globalVars, pointVars, historyVars, Begin
<1>4. AboveIsExclusive'
    BY NoThreadAssumption, NoneAssumption, SizesAssumption
        DEF Safe, AboveIsExclusive, Counting, RecordAlloc, Goto, At, gateVars, globalVars,
            Begin
<1> QED
    BY <1>1, <1>2, <1>3, <1>4 DEF Safe

LEMMA RecordAllocDroppedSafe ==
    ASSUME Safe, NEW t \in Threads, RecordAllocDropped(t) PROVE Safe'
<1>1. TypeOK'
    BY NoThreadAssumption, NoneAssumption, SizesAssumption
        DEF Safe, TypeOK, GateTypeOK, PCs, Deltas, RecordAllocDropped, Goto, gateVars,
            globalVars, pointVars, historyVars, Begin, Delta, NoDelta
<1>2. Control'
    BY NoThreadAssumption, NoneAssumption, SizesAssumption
        DEF Control, Safe, GateExclusion, Places, DeltasFit, EpochsKnown, Recording,
            Counting, RecordAllocDropped, Goto, At, gateVars, globalVars, historyVars, Begin
<1>3. Lazy'
    BY LazyFrame DEF Safe, RecordAllocDropped, globalVars, pointVars, historyVars, Begin
<1>4. AboveIsExclusive'
    BY NoThreadAssumption, NoneAssumption, SizesAssumption
        DEF Safe, AboveIsExclusive, RecordAllocDropped, Goto, At, gateVars, globalVars,
            Begin
<1> QED
    BY <1>1, <1>2, <1>3, <1>4 DEF Safe

LEMMA RecordFreeSafe ==
    ASSUME Safe, NEW t \in Threads, RecordFree(t) PROVE Safe'
<1>1. TypeOK'
    BY NoThreadAssumption, NoneAssumption, SizesAssumption
        DEF Safe, TypeOK, GateTypeOK, PCs, Deltas, RecordFree, Goto, gateVars, globalVars,
            pointVars, historyVars, Begin, Route, Owned, Delta, FreeDelta
<1>2. Control'
    BY NoThreadAssumption, NoneAssumption, SizesAssumption
        DEF Control, Safe, TypeOK, GateExclusion, Places, DeltasFit, EpochsKnown, Counting,
            Flushing, RecordFree, Goto, At, gateVars, globalVars, historyVars, Begin, Route,
            Owned, Delta, FreeDelta
<1>3. Lazy'
    BY LazyFrame DEF Safe, RecordFree, globalVars, pointVars, historyVars, Begin
<1>4. AboveIsExclusive'
    BY NoThreadAssumption, NoneAssumption, SizesAssumption
        DEF Safe, AboveIsExclusive, Counting, RecordFree, Goto, At, gateVars, globalVars,
            Begin
<1> QED
    BY <1>1, <1>2, <1>3, <1>4 DEF Safe

LEMMA RecordReallocSafe ==
    ASSUME Safe, NEW t \in Threads, RecordRealloc(t) PROVE Safe'
<1>1. TypeOK'
    <2>1. PICK b \in Owned, n \in Sizes :
             /\ Begin(t, Route(ReallocDelta(b, n)), ReallocDelta(b, n), 1)
             /\ live' = [live EXCEPT ![b].size = n]
             /\ dropped_blocks' = dropped_blocks
        BY DEF RecordRealloc
    <2>2. b \in Blocks /\ live[b] \in [pp : Points, site : Threads, size : Nat] /\ n \in Nat
        BY SizesAssumption DEF Safe, TypeOK, Owned
    <2>3. ReallocDelta(b, n) \in Deltas
        BY <2>2 DEF ReallocDelta, Delta, Deltas
    <2>4. live' \in [Blocks -> [pp : Points, site : Threads, size : Nat] \cup {None}]
        BY <2>1, <2>2 DEF Safe, TypeOK
    <2> QED
        BY <2>1, <2>3, <2>4
            DEF Safe, TypeOK, GateTypeOK, PCs, Begin, Route, Goto, gateVars, globalVars,
                pointVars, historyVars
<1>2. Control'
    BY NoThreadAssumption, NoneAssumption, SizesAssumption
        DEF Safe, Control, TypeOK, GateExclusion, Places, DeltasFit, EpochsKnown, Counting,
            Flushing, RecordRealloc, Begin, Route, Owned, Delta, ReallocDelta, Goto, At,
            gateVars, globalVars, historyVars
<1>3. Lazy'
    BY LazyFrame DEF Safe, RecordRealloc, Begin, globalVars, pointVars, historyVars
<1>4. AboveIsExclusive'
    BY NoThreadAssumption
        DEF Safe, AboveIsExclusive, Counting, RecordRealloc, Begin, Goto, At, gateVars,
            globalVars
<1> QED
    BY <1>1, <1>2, <1>3, <1>4 DEF Safe

LEMMA RecordReallocDroppedSafe ==
    ASSUME Safe, NEW t \in Threads, RecordReallocDropped(t) PROVE Safe'
<1>1. TypeOK'
    BY NoThreadAssumption, NoneAssumption, SizesAssumption
        DEF Safe, TypeOK, GateTypeOK, PCs, Deltas, RecordReallocDropped, Goto, gateVars,
            globalVars, pointVars, historyVars, Begin, Route, Owned, Delta, FreeDelta
<1>2. Control'
    BY NoThreadAssumption, NoneAssumption, SizesAssumption
        DEF Control, Safe, TypeOK, GateExclusion, Places, DeltasFit, EpochsKnown, Counting,
            Flushing, RecordReallocDropped, Goto, At, gateVars, globalVars, historyVars, Begin,
            Route, Owned, Delta, FreeDelta
<1>3. Lazy'
    BY LazyFrame DEF Safe, RecordReallocDropped, globalVars, pointVars, historyVars, Begin
<1>4. AboveIsExclusive'
    BY NoThreadAssumption, NoneAssumption, SizesAssumption
        DEF Safe, AboveIsExclusive, Counting, RecordReallocDropped, Goto, At, gateVars,
            globalVars, Begin
<1> QED
    BY <1>1, <1>2, <1>3, <1>4 DEF Safe

LEMMA RecordEventSafe ==
    ASSUME Safe, NEW t \in Threads, RecordEvent(t) PROVE Safe'
<1>1. TypeOK'
    BY NoThreadAssumption, NoneAssumption, SizesAssumption
        DEF Safe, TypeOK, GateTypeOK, PCs, Deltas, RecordEvent, Goto, gateVars, globalVars,
            pointVars, historyVars, Begin, Delta
<1>2. Control'
    BY NoThreadAssumption, NoneAssumption, SizesAssumption
        DEF Control, Safe, TypeOK, GateExclusion, Places, DeltasFit, EpochsKnown, Counting,
            Flushing, RecordEvent, Goto, At, gateVars, globalVars, pointVars, historyVars,
            Begin, Delta
<1>3. Lazy'
    BY LazyFrame DEF Safe, RecordEvent, At, globalVars, pointVars, historyVars, Begin
<1>4. AboveIsExclusive'
    BY NoThreadAssumption, NoneAssumption, SizesAssumption
        DEF Safe, AboveIsExclusive, Counting, RecordEvent, Goto, At, gateVars, globalVars,
            Begin
<1> QED
    BY <1>1, <1>2, <1>3, <1>4 DEF Safe

LEMMA EnterSharedSafe ==
    ASSUME Safe, NEW t \in Threads, EnterShared(t) PROVE Safe'
<1>1. TypeOK'
    BY NoThreadAssumption, NoneAssumption, SizesAssumption
        DEF Safe, Control, TypeOK, GateTypeOK, PCs, EnterShared, Goto, tableVars,
            globalVars, pointVars, historyVars, AcquireShared
<1>2. Control'
    BY NoThreadAssumption, NoneAssumption, SizesAssumption
        DEF Control, Safe, TypeOK, GateExclusion, Places, DeltasFit, EpochsKnown, Recording,
            Counting, Flushing, EnterShared, Goto, At, globalVars, historyVars, AcquireShared
<1>3. Lazy'
    BY LazyFrame DEF Safe, EnterShared, globalVars, pointVars, historyVars
<1>4. AboveIsExclusive'
    BY NoThreadAssumption, NoneAssumption, SizesAssumption
        DEF Safe, AboveIsExclusive, EnterShared, globalVars, AcquireShared
<1> QED
    BY <1>1, <1>2, <1>3, <1>4 DEF Safe

LEMMA BailOutSafe ==
    ASSUME Safe, NEW t \in Threads, BailOut(t) PROVE Safe'
<1>1. TypeOK'
    BY NoThreadAssumption, NoneAssumption, SizesAssumption
        DEF Safe, TypeOK, GateTypeOK, PCs, BailOut, Goto, tableVars, globalVars, pointVars,
            historyVars, ReleaseShared
<1>2. Control'
    BY NoThreadAssumption, NoneAssumption, SizesAssumption
        DEF Control, Safe, TypeOK, GateExclusion, Places, DeltasFit, EpochsKnown, Recording,
            Counting, Flushing, BailOut, Goto, At, globalVars, historyVars, ReleaseShared
<1>3. Lazy'
    BY LazyFrame DEF Safe, BailOut, globalVars, pointVars, historyVars
<1>4. AboveIsExclusive'
    BY NoThreadAssumption, NoneAssumption, SizesAssumption
        DEF Safe, Control, GateExclusion, Places, AboveIsExclusive, BailOut, At, globalVars
<1> QED
    BY <1>1, <1>2, <1>3, <1>4 DEF Safe

LEMMA TryCommitSafe ==
    ASSUME Safe, NEW t \in Threads, TryCommit(t) PROVE Safe'
<1>1. TypeOK'
    BY NoThreadAssumption, NoneAssumption, SizesAssumption
        DEF Safe, Control, TypeOK, GateTypeOK, PCs, Deltas, DeltasFit, TryCommit, Goto, At,
            gateVars, tableVars, pointVars, historyVars
<1>2. Control'
    BY NoThreadAssumption, NoneAssumption, SizesAssumption
        DEF Control, Safe, TypeOK, GateExclusion, Places, DeltasFit, EpochsKnown, Recording,
            Counting, Flushing, TryCommit, Goto, At, gateVars, historyVars
<1>3. Lazy'
    BY LazyFrame DEF Safe, TryCommit, pointVars, historyVars
<1>4. AboveIsExclusive'
    BY NoThreadAssumption, NoneAssumption, SizesAssumption
        DEF Safe, Control, TypeOK, GateExclusion, DeltasFit, AboveIsExclusive, TryCommit,
            pointVars, historyVars
<1> QED
    BY <1>1, <1>2, <1>3, <1>4 DEF Safe

LEMMA CommitSafe ==
    ASSUME Safe, NEW t \in Threads, Commit(t) PROVE Safe'
<1>1. TypeOK'
    BY NoThreadAssumption, NoneAssumption, SizesAssumption
        DEF Safe, TypeOK, GateTypeOK, PCs, Deltas, Commit, Goto, gateVars, tableVars,
            globalVars, pointVars, historyVars, Checked
<1>2. Control'
    BY NoThreadAssumption, NoneAssumption, SizesAssumption
        DEF Control, Safe, TypeOK, GateExclusion, Places, DeltasFit, EpochsKnown, Recording,
            Counting, Flushing, Deltas, Commit, Goto, At, gateVars, historyVars, Checked
<1>3. Lazy'
    BY LazyFrame DEF Safe, Commit, pointVars, historyVars
<1>4. AboveIsExclusive'
    BY NoThreadAssumption, NoneAssumption, SizesAssumption
        DEF Safe, Control, TypeOK, GateExclusion, Places, DeltasFit, AboveIsExclusive,
            Deltas, Counting, Commit, Goto, At, historyVars, Checked
<1> QED
    BY <1>1, <1>2, <1>3, <1>4 DEF Safe

LEMMA EnterExclusiveSafe ==
    ASSUME Safe, NEW t \in Threads, EnterExclusive(t) PROVE Safe'
<1>1. TypeOK'
    BY NoThreadAssumption, NoneAssumption, SizesAssumption
        DEF Safe, TypeOK, GateTypeOK, PCs, Recording, EnterExclusive, Goto, tableVars,
            globalVars, pointVars, historyVars, AcquireExclusive
<1>2. Control'
    BY NoThreadAssumption, NoneAssumption, SizesAssumption
        DEF Control, Safe, TypeOK, GateTypeOK, GateExclusion, Places, DeltasFit,
            EpochsKnown, Recording, Counting, Flushing, EnterExclusive, Goto, historyVars,
            AcquireExclusive
<1>3. Lazy'
    BY LazyFrame DEF Safe, EnterExclusive, globalVars, pointVars, historyVars
<1>4. AboveIsExclusive'
    BY NoThreadAssumption, NoneAssumption, SizesAssumption
        DEF Safe, GateTypeOK, GateExclusion, DeltasFit, AboveIsExclusive, EnterExclusive,
            globalVars, AcquireExclusive
<1> QED
    BY <1>1, <1>2, <1>3, <1>4 DEF Safe

LEMMA StoreBytesSafe ==
    ASSUME Safe, NEW t \in Threads, StoreBytes(t) PROVE Safe'
<1>1. TypeOK'
    BY NoThreadAssumption, NoneAssumption, SizesAssumption
        DEF Safe, Control, TypeOK, GateTypeOK, PCs, Deltas, DeltasFit, StoreBytes, Goto, At,
            gateVars, tableVars, pointVars, historyVars
<1>2. Control'
    BY NoThreadAssumption, NoneAssumption, SizesAssumption
        DEF Control, Safe, TypeOK, GateExclusion, Places, DeltasFit, EpochsKnown, Recording,
            StoreBytes, Goto, At, gateVars, historyVars
<1>3. Lazy'
    BY LazyFrame DEF Safe, StoreBytes, pointVars, historyVars
<1>4. AboveIsExclusive'
    BY NoThreadAssumption, NoneAssumption, SizesAssumption
        DEF Safe, Control, TypeOK, Places, AboveIsExclusive, Counting, StoreBytes, Goto, At,
            gateVars
<1> QED
    BY <1>1, <1>2, <1>3, <1>4 DEF Safe

LEMMA CountBlocksSafe ==
    ASSUME Safe, NEW t \in Threads, CountBlocks(t) PROVE Safe'
<1>1. TypeOK'
    <2>1. op[t] \in Deltas /\ curr_blocks + op[t].curr_blocks \in Int
          /\ total_blocks + op[t].total_blocks \in Nat
        BY DEF Safe, TypeOK, Deltas
    <2>2. Checked(curr_blocks + op[t].curr_blocks) \in Nat
        BY <2>1, CheckedIsNat
    <2>3. [op[t] EXCEPT !.next_blocks = Checked(curr_blocks + op[t].curr_blocks)] \in Deltas
        BY <2>1, <2>2 DEF Deltas
    <2>4. op' \in [Threads -> Deltas]
        BY <2>3 DEF CountBlocks, Safe, TypeOK
    <2>5. poisoned' \in BOOLEAN
        BY Zenon DEF CountBlocks
    <2> QED
        BY <2>1, <2>2, <2>4, <2>5
            DEF CountBlocks, Safe, TypeOK, GateTypeOK, PCs, Goto, gateVars, tableVars,
                pointVars, historyVars
<1>2. Control'
    BY NoThreadAssumption
        DEF Safe, Control, GateExclusion, Places, DeltasFit, EpochsKnown, Recording,
            Counting, Flushing, CountBlocks, Goto, At, gateVars, historyVars
<1>3. Lazy'
    BY LazyFrame DEF Safe, CountBlocks, pointVars, historyVars
<1>4. AboveIsExclusive'
    BY NoThreadAssumption DEF Safe, AboveIsExclusive, Counting, CountBlocks, Goto, gateVars
<1> QED
    BY <1>1, <1>2, <1>3, <1>4 DEF Safe

LEMMA UpdatePointSafe ==
    ASSUME Safe, NEW t \in Threads, UpdatePoint(t) PROVE Safe'
<1> DEFINE p == op[t].pp
<1>p. p \in Points /\ pps[p] \in PointRecords /\ op[t] \in Deltas /\ ep[t] = epoch /\ epoch \in Nat
    BY
        DEF UpdatePoint, At, Safe, TypeOK, Control, DeltasFit, EpochsKnown, Recording,
            Counting
<1>q. /\ Refresh(pps[p], epoch) \in PointRecords
      /\ Refresh(pps[p], epoch).snapshot_epoch = epoch
      /\ AtPeak(p) = [bytes  |-> Refresh(pps[p], epoch).at_gmax_bytes,
                      blocks |-> Refresh(pps[p], epoch).at_gmax_blocks]
    BY <1>p, RefreshKeepsAtPeak DEF Safe
<1>a. pps' = [pps EXCEPT ![p] = Apply(Refresh(pps[p], epoch), op[t])]
    BY <1>p DEF UpdatePoint
<1> HIDE DEF p
<1>b. /\ pps'[p] \in PointRecords
      /\ pps'[p].snapshot_epoch = epoch
      /\ pps'[p].at_gmax_bytes = Refresh(pps[p], epoch).at_gmax_bytes
      /\ pps'[p].at_gmax_blocks = Refresh(pps[p], epoch).at_gmax_blocks
    BY <1>p, <1>q, <1>a, AppliedRecord DEF Safe, TypeOK
<1>1. TypeOK'
    <2>1. pps' \in [Points -> PointRecords]
        BY <1>a, <1>b DEF Safe, TypeOK
    <2>2. poisoned' \in BOOLEAN
        BY Zenon DEF UpdatePoint
    <2> QED
        BY <2>1, <2>2
            DEF UpdatePoint, Safe, TypeOK, GateTypeOK, PCs, Goto, gateVars, tableVars,
                globalVars, historyVars
<1>2. Control'
    BY NoThreadAssumption
        DEF Safe, Control, GateExclusion, Places, DeltasFit, EpochsKnown, Recording,
            Counting, Flushing, UpdatePoint, Goto, At, gateVars, globalVars, historyVars
<1>3. Lazy'
    <2> SUFFICES ASSUME ~torn, NEW q \in Points
                 PROVE  pps'[q].snapshot_epoch <= epoch /\ AtPeak(q)' = AtPeak(q)
        BY DEF Lazy, LazyIsEager, Safe, UpdatePoint, historyVars, globalVars
    <2>1. epoch' = epoch
        BY DEF UpdatePoint, globalVars
    <2>2. CASE q = p
        BY <1>p, <1>q, <1>b, <2>1, <2>2 DEF AtPeak, Refresh
    <2>3. CASE q # p
        BY <1>a, <2>1, <2>3 DEF AtPeak, Safe, TypeOK, Lazy
    <2> QED
        BY <2>2, <2>3
<1>4. AboveIsExclusive'
    BY NoThreadAssumption
        DEF Safe, AboveIsExclusive, Counting, UpdatePoint, Goto, gateVars, globalVars
<1> QED
    BY <1>1, <1>2, <1>3, <1>4 DEF Safe

LEMMA AttributeSafe ==
    ASSUME Safe, NEW t \in Threads, Attribute(t) PROVE Safe'
<1>1. TypeOK'
    BY NoThreadAssumption, NoneAssumption, SizesAssumption
        DEF Safe, TypeOK, GateTypeOK, PCs, Deltas, Attribute, Goto, gateVars, tableVars,
            globalVars, historyVars
<1>2. Control'
    BY NoThreadAssumption, NoneAssumption, SizesAssumption
        DEF Control, Safe, GateExclusion, Places, DeltasFit, EpochsKnown, Recording,
            Counting, Flushing, Attribute, Goto, At, gateVars, globalVars, historyVars
<1>3. Lazy'
    BY LazyFrame DEF Safe, Attribute, globalVars, historyVars
<1>4. AboveIsExclusive'
    BY NoThreadAssumption, NoneAssumption, SizesAssumption
        DEF Safe, AboveIsExclusive, Counting, Attribute, Goto, gateVars, globalVars
<1> QED
    BY <1>1, <1>2, <1>3, <1>4 DEF Safe

LEMMA LeaveSharedSafe ==
    ASSUME Safe, NEW t \in Threads, LeaveShared(t) PROVE Safe'
<1>1. TypeOK'
    BY NoThreadAssumption, NoneAssumption, SizesAssumption
        DEF Safe, TypeOK, GateTypeOK, PCs, Deltas, LeaveShared, Goto, tableVars, globalVars,
            pointVars, historyVars, ReleaseShared, Finish, NoDelta, Delta
<1>2. Control'
    BY NoThreadAssumption, NoneAssumption, SizesAssumption
        DEF Control, Safe, TypeOK, GateExclusion, Places, DeltasFit, EpochsKnown, Recording,
            Counting, Flushing, LeaveShared, Goto, globalVars, historyVars, ReleaseShared,
            Finish
<1>3. Lazy'
    BY LazyFrame DEF Safe, LeaveShared, globalVars, pointVars, historyVars
<1>4. AboveIsExclusive'
    BY NoThreadAssumption, NoneAssumption, SizesAssumption
        DEF Safe, Control, GateExclusion, AboveIsExclusive, LeaveShared, globalVars,
            ReleaseShared
<1> QED
    BY <1>1, <1>2, <1>3, <1>4 DEF Safe

LEMMA LeaveExclusiveSafe ==
    ASSUME Safe, NEW t \in Threads, LeaveExclusive(t) PROVE Safe'
<1>1. TypeOK'
    BY NoThreadAssumption, NoneAssumption, SizesAssumption
        DEF Safe, TypeOK, GateTypeOK, PCs, Deltas, LeaveExclusive, Goto, tableVars,
            globalVars, pointVars, historyVars, ReleaseExclusive, Finish, NoDelta, Delta
<1>2. Control'
    BY NoThreadAssumption, NoneAssumption, SizesAssumption
        DEF Control, Safe, TypeOK, GateExclusion, Places, DeltasFit, EpochsKnown, Recording,
            Counting, Flushing, LeaveExclusive, Goto, historyVars, ReleaseExclusive, Finish
<1>3. Lazy'
    BY LazyFrame DEF Safe, LeaveExclusive, globalVars, pointVars, historyVars
<1>4. AboveIsExclusive'
    BY NoThreadAssumption, NoneAssumption, SizesAssumption
        DEF Safe, TypeOK, AboveIsExclusive, LeaveExclusive, globalVars
<1> QED
    BY <1>1, <1>2, <1>3, <1>4 DEF Safe

LEMMA RaisePeakSafe ==
    ASSUME Safe, NEW t \in Threads, RaisePeak(t) PROVE Safe'
<1>1. TypeOK'
    BY NoThreadAssumption, NoneAssumption, SizesAssumption
        DEF Safe, TypeOK, GateTypeOK, PCs, Deltas, RaisePeak, Goto, gateVars, tableVars,
            pointVars, historyVars
<1>2. Control'
    BY NoThreadAssumption, NoneAssumption, SizesAssumption
        DEF Control, Safe, GateExclusion, Places, DeltasFit, EpochsKnown, Recording,
            Counting, RaisePeak, Goto, At, gateVars, historyVars
<1>3. Lazy'
    BY LazyFrame DEF Safe, RaisePeak, pointVars, historyVars
<1>4. AboveIsExclusive'
    BY NoThreadAssumption, NoneAssumption, SizesAssumption
        DEF Safe, TypeOK, AboveIsExclusive, RaisePeak
<1> QED
    BY <1>1, <1>2, <1>3, <1>4 DEF Safe

LEMMA BumpEpochSafe ==
    ASSUME Safe, NEW t \in Threads, BumpEpoch(t) PROVE Safe'
<1>1. TypeOK'
    BY
        DEF BumpEpoch, ReleaseExclusive, Finish, NoDelta, Delta, Counts, Safe, TypeOK,
            GateTypeOK, PCs, Deltas, PointRecords, Goto, tableVars, pointVars
<1>2. Control'
    BY NoThreadAssumption
        DEF Safe, Control, TypeOK, GateExclusion, Places, DeltasFit, EpochsKnown, Recording,
            Counting, Flushing, BumpEpoch, ReleaseExclusive, Finish, Goto
<1>3. Lazy'
    <2> SUFFICES ASSUME ~torn, NEW p \in Points
                 PROVE  pps[p].snapshot_epoch <= epoch' /\ AtPeak(p)' = sweep'[p]
        BY DEF Lazy, LazyIsEager, BumpEpoch, pointVars
    <2>1. pps[p] \in PointRecords /\ pps[p].snapshot_epoch <= epoch /\ epoch \in Nat
        BY DEF Safe, TypeOK, Lazy
    <2>2. epoch' = epoch + 1
        BY DEF BumpEpoch, At, Safe, Control, EpochsKnown
    <2>3. pps[p].snapshot_epoch # epoch'
        BY <2>1, <2>2 DEF PointRecords
    <2>4. pps' = pps /\ sweep'[p] = Counts(pps[p])
        BY DEF BumpEpoch, pointVars
    <2>5. AtPeak(p)' = Counts(pps[p])
        BY <2>1, <2>3, <2>4 DEF AtPeak, Refresh, Counts, PointRecords
    <2> QED
        BY <2>1, <2>2, <2>4, <2>5 DEF PointRecords
<1>4. AboveIsExclusive'
    BY NoThreadAssumption
        DEF Safe, Control, Places, AboveIsExclusive, Counting, BumpEpoch, At
<1> QED
    BY <1>1, <1>2, <1>3, <1>4 DEF Safe

LEMMA StartFlushSafe ==
    ASSUME Safe, NEW t \in Threads, StartFlush(t) PROVE Safe'
<1>1. TypeOK'
    BY NoThreadAssumption, NoneAssumption, SizesAssumption, BoundsAssumption
        DEF Safe, TypeOK, GateTypeOK, PCs, StartFlush, Goto, gateVars, tableVars,
            globalVars, pointVars, historyVars
<1>2. Control'
    BY NoThreadAssumption, NoneAssumption, SizesAssumption
        DEF Control, Safe, GateExclusion, Places, DeltasFit, EpochsKnown, Recording,
            Counting, Flushing, StartFlush, Goto, At, gateVars, globalVars, historyVars
<1>3. Lazy'
    BY LazyFrame DEF Safe, StartFlush, globalVars, pointVars, historyVars
<1>4. AboveIsExclusive'
    BY NoThreadAssumption, NoneAssumption, SizesAssumption
        DEF Safe, AboveIsExclusive, Counting, StartFlush, Goto, At, gateVars, globalVars
<1> QED
    BY <1>1, <1>2, <1>3, <1>4 DEF Safe

LEMMA FlushEnterSafe ==
    ASSUME Safe, NEW t \in Threads, FlushEnter(t) PROVE Safe'
<1>1. TypeOK'
    BY NoThreadAssumption, NoneAssumption, SizesAssumption
        DEF Safe, TypeOK, GateTypeOK, PCs, FlushEnter, Goto, tableVars, globalVars,
            pointVars, historyVars, AcquireExclusive
<1>2. Control'
    BY NoThreadAssumption, NoneAssumption, SizesAssumption
        DEF Control, Safe, GateExclusion, Places, DeltasFit, EpochsKnown, Recording,
            Counting, Flushing, FlushEnter, Goto, historyVars, AcquireExclusive
<1>3. Lazy'
    BY LazyFrame DEF Safe, FlushEnter, globalVars, pointVars, historyVars
<1>4. AboveIsExclusive'
    BY NoThreadAssumption, NoneAssumption, SizesAssumption
        DEF Safe, AboveIsExclusive, FlushEnter, globalVars, AcquireExclusive
<1> QED
    BY <1>1, <1>2, <1>3, <1>4 DEF Safe

LEMMA FlushTimeoutSafe ==
    ASSUME Safe, NEW t \in Threads, FlushTimeout(t) PROVE Safe'
<1>1. TypeOK'
    BY
        DEF Safe, TypeOK, GateTypeOK, PCs, FlushTimeout, Goto, gateVars, tableVars,
            globalVars, pointVars
<1>2. Control'
    BY NoThreadAssumption
        DEF Safe, Control, GateExclusion, Places, DeltasFit, EpochsKnown, Recording,
            Counting, FlushTimeout, Goto, At, gateVars, globalVars
<1>3. Lazy'
    BY DEF FlushTimeout, Lazy, LazyIsEager
<1>4. AboveIsExclusive'
    BY NoThreadAssumption
        DEF Safe, AboveIsExclusive, Counting, FlushTimeout, Goto, At, gateVars, globalVars
<1> QED
    BY <1>1, <1>2, <1>3, <1>4 DEF Safe

LEMMA FlushLoadSafe ==
    ASSUME Safe, NEW t \in Threads, FlushLoad(t) PROVE Safe'
<1>1. TypeOK'
    BY NoThreadAssumption, NoneAssumption, SizesAssumption
        DEF Safe, TypeOK, GateTypeOK, PCs, FlushLoad, Goto, gateVars, tableVars, globalVars,
            pointVars, historyVars
<1>2. Control'
    BY NoThreadAssumption, NoneAssumption, SizesAssumption
        DEF Control, Safe, TypeOK, GateExclusion, Places, DeltasFit, EpochsKnown, Recording,
            Counting, Flushing, FlushLoad, Goto, At, gateVars, globalVars, historyVars
<1>3. Lazy'
    BY LazyFrame DEF Safe, FlushLoad, globalVars, pointVars, historyVars
<1>4. AboveIsExclusive'
    BY NoThreadAssumption, NoneAssumption, SizesAssumption
        DEF Safe, AboveIsExclusive, Counting, FlushLoad, Goto, At, gateVars, globalVars
<1> QED
    BY <1>1, <1>2, <1>3, <1>4 DEF Safe

LEMMA FlushPointSafe ==
    ASSUME Safe, NEW t \in Threads, FlushPoint(t) PROVE Safe'
<1>p. PICK p \in todo[t] :
         /\ pps' = [pps EXCEPT ![p] = Refresh(@, ep[t])]
         /\ todo' = [todo EXCEPT ![t] = @ \ {p}]
    BY DEF FlushPoint
<1>q. p \in Points /\ pps[p] \in PointRecords /\ ep[t] \in Nat /\ epoch \in Nat
    BY DEF Safe, TypeOK
<1>1. TypeOK'
    <2>1. pps' \in [Points -> PointRecords]
        BY <1>p, <1>q, RefreshedRecord DEF Safe, TypeOK
    <2>2. todo' \in [Threads -> SUBSET Points]
        BY <1>p DEF Safe, TypeOK
    <2> QED
        BY <2>1, <2>2
            DEF FlushPoint, Safe, TypeOK, GateTypeOK, gateVars, tableVars, globalVars,
                historyVars
<1>2. Control'
    BY NoThreadAssumption
        DEF Safe, Control, GateExclusion, Places, DeltasFit, EpochsKnown, FlushPoint,
            gateVars, globalVars, historyVars
<1>3. Lazy'
    <2> SUFFICES ASSUME ~torn, NEW q \in Points
                 PROVE  pps'[q].snapshot_epoch <= epoch /\ AtPeak(q)' = AtPeak(q)
        BY DEF Lazy, LazyIsEager, Safe, FlushPoint, historyVars, globalVars
    <2>1. epoch' = epoch
        BY DEF FlushPoint, globalVars
    <2>2. ep[t] = epoch
        BY DEF FlushPoint, At, Safe, Control, EpochsKnown
    <2>3. CASE q = p
        <3>1. pps'[q] = Refresh(pps[p], epoch)
            BY <1>p, <1>q, <2>2, <2>3 DEF Safe, TypeOK
        <3> QED
            BY <1>q, <2>1, <2>3, <3>1, RefreshedRecord, RefreshedTwice DEF AtPeak
    <2>4. CASE q # p
        BY <1>p, <2>1, <2>4 DEF AtPeak, Safe, TypeOK, Lazy
    <2> QED
        BY <2>3, <2>4
<1>4. AboveIsExclusive'
    BY NoThreadAssumption DEF Safe, AboveIsExclusive, FlushPoint, gateVars, globalVars
<1> QED
    BY <1>1, <1>2, <1>3, <1>4 DEF Safe

LEMMA FlushDoneSafe ==
    ASSUME Safe, NEW t \in Threads, FlushDone(t) PROVE Safe'
<1>1. TypeOK'
    BY NoThreadAssumption, NoneAssumption, SizesAssumption
        DEF Safe, TypeOK, GateTypeOK, PCs, FlushDone, Goto, gateVars, tableVars, globalVars,
            pointVars, historyVars, ReleaseExclusive
<1>2. Control'
    BY NoThreadAssumption, NoneAssumption, SizesAssumption
        DEF Control, Safe, TypeOK, GateExclusion, Places, DeltasFit, EpochsKnown, Recording,
            Counting, Flushing, FlushDone, Goto, At, gateVars, globalVars, historyVars,
            ReleaseExclusive
<1>3. Lazy'
    BY LazyFrame DEF Safe, FlushDone, globalVars, pointVars, historyVars
<1>4. AboveIsExclusive'
    BY NoThreadAssumption, NoneAssumption, SizesAssumption
        DEF Safe, AboveIsExclusive, Counting, FlushDone, Goto, At, gateVars, globalVars,
            ReleaseExclusive
<1> QED
    BY <1>1, <1>2, <1>3, <1>4 DEF Safe

LEMMA ResetShardsSafe ==
    ASSUME Safe, NEW t \in Threads, ResetShards(t) PROVE Safe'
<1>1. TypeOK'
    BY NoThreadAssumption, NoneAssumption, SizesAssumption
        DEF Safe, TypeOK, GateTypeOK, PCs, ResetShards, Goto, gateVars, globalVars,
            pointVars, historyVars
<1>2. Control'
    BY NoThreadAssumption, NoneAssumption, SizesAssumption
        DEF Control, Safe, GateExclusion, Places, DeltasFit, EpochsKnown, Recording,
            Counting, Flushing, ResetShards, Goto, At, gateVars, globalVars, historyVars
<1>3. Lazy'
    BY LazyFrame DEF Safe, ResetShards, globalVars, pointVars, historyVars
<1>4. AboveIsExclusive'
    BY NoThreadAssumption, NoneAssumption, SizesAssumption
        DEF Safe, AboveIsExclusive, Counting, ResetShards, Goto, At, gateVars, globalVars
<1> QED
    BY <1>1, <1>2, <1>3, <1>4 DEF Safe

LEMMA ResetEnterSafe ==
    ASSUME Safe, NEW t \in Threads, ResetEnter(t) PROVE Safe'
<1>1. TypeOK'
    BY NoThreadAssumption, NoneAssumption, SizesAssumption
        DEF Safe, TypeOK, GateTypeOK, PCs, ResetEnter, Goto, tableVars, globalVars,
            pointVars, historyVars, AcquireExclusive
<1>2. Control'
    BY NoThreadAssumption, NoneAssumption, SizesAssumption
        DEF Control, Safe, GateExclusion, Places, DeltasFit, EpochsKnown, Recording,
            Counting, Flushing, ResetEnter, Goto, historyVars, AcquireExclusive
<1>3. Lazy'
    BY LazyFrame DEF Safe, ResetEnter, globalVars, pointVars, historyVars
<1>4. AboveIsExclusive'
    BY NoThreadAssumption, NoneAssumption, SizesAssumption
        DEF Safe, AboveIsExclusive, ResetEnter, globalVars, AcquireExclusive
<1> QED
    BY <1>1, <1>2, <1>3, <1>4 DEF Safe

LEMMA ResetBusySafe ==
    ASSUME Safe, NEW t \in Threads, ResetBusy(t) PROVE Safe'
<1>1. TypeOK'
    BY NoThreadAssumption, NoneAssumption, SizesAssumption
        DEF Safe, TypeOK, GateTypeOK, PCs, ResetBusy, Goto, gateVars, globalVars, pointVars,
            historyVars
<1>2. Control'
    BY NoThreadAssumption, NoneAssumption, SizesAssumption
        DEF Control, Safe, GateExclusion, Places, DeltasFit, EpochsKnown, Recording,
            Counting, Flushing, ResetBusy, Goto, At, gateVars, globalVars, historyVars
<1>3. Lazy'
    BY LazyFrame DEF Safe, ResetBusy, globalVars, pointVars, historyVars
<1>4. AboveIsExclusive'
    BY NoThreadAssumption, NoneAssumption, SizesAssumption
        DEF Safe, AboveIsExclusive, Counting, ResetBusy, Goto, At, gateVars, globalVars
<1> QED
    BY <1>1, <1>2, <1>3, <1>4 DEF Safe

LEMMA ResetCountsSafe ==
    ASSUME Safe, NEW t \in Threads, ResetCounts(t) PROVE Safe'
<1>1. TypeOK'
    <2>1. CASE poisoned
        BY <2>1
            DEF Safe, TypeOK, GateTypeOK, PCs, ResetCounts, ReleaseExclusive, Goto,
                globalVars, pointVars
    <2>2. CASE ~poisoned
        <3>1. pps' \in [Points -> PointRecords]
            <4>1. pps' = [p \in Points |-> Restart(pps[p], epoch + 1)]
                BY <2>2 DEF ResetCounts
            <4>2. \A p \in Points : pps[p] \in PointRecords /\ epoch + 1 \in Nat
                BY DEF Safe, TypeOK
            <4>3. \A p \in Points : Restart(pps[p], epoch + 1) \in PointRecords
                BY <4>2, RestartedRecord
            <4> QED
                BY <4>1, <4>3
        <3>2. sweep' \in [Points -> [bytes : Nat, blocks : Nat]]
            BY <2>2 DEF ResetCounts, Counts, Safe, TypeOK, PointRecords
        <3>3. rows' \in [Threads -> [curr_bytes : Int, total_blocks : Nat]]
            <4>1. rows' = [s \in Threads |-> [rows[s] EXCEPT !.total_blocks = 0]]
                BY <2>2 DEF ResetCounts
            <4>2. \A s \in Threads : rows[s] \in [curr_bytes : Int, total_blocks : Nat]
                BY DEF Safe, TypeOK
            <4>3. \A s \in Threads : [rows[s] EXCEPT !.total_blocks = 0]
                                       \in [curr_bytes : Int, total_blocks : Nat]
                BY <4>2
            <4> QED
                BY <4>1, <4>3
        <3> QED
            BY <2>2, <3>1, <3>2, <3>3
                DEF Safe, TypeOK, GateTypeOK, PCs, ResetCounts, ReleaseExclusive, Goto
    <2> QED
        BY <2>1, <2>2
<1>2. Control'
    BY NoThreadAssumption
        DEF Safe, Control, TypeOK, GateExclusion, Places, DeltasFit, EpochsKnown, Recording,
            Counting, Flushing, ResetCounts, ReleaseExclusive, Goto
<1>3. Lazy'
    <2>1. CASE poisoned
        BY <2>1, LazyFrame DEF Safe, ResetCounts, globalVars, pointVars
    <2>2. CASE ~poisoned
        <3> SUFFICES ASSUME ~torn, NEW p \in Points
                     PROVE  pps'[p].snapshot_epoch <= epoch' /\ AtPeak(p)' = sweep'[p]
            BY DEF Lazy, LazyIsEager, ResetCounts
        <3>1. pps[p] \in PointRecords /\ epoch + 1 \in Nat
            BY DEF Safe, TypeOK
        <3>2. epoch' = epoch + 1 /\ pps'[p] = Restart(pps[p], epoch + 1) /\ sweep'[p] = Counts(pps[p])
            BY <2>2 DEF ResetCounts
        <3>3. AtPeak(p)' = Counts(pps[p])
            BY <3>1, <3>2, RestartedRecord DEF AtPeak, Refresh, Counts
        <3> QED
            BY <3>1, <3>2, <3>3, RestartedRecord
    <2> QED
        BY <2>1, <2>2
<1>4. AboveIsExclusive'
    BY NoThreadAssumption
        DEF Safe, Control, TypeOK, Places, AboveIsExclusive, Counting, ResetCounts, At,
            globalVars
<1> QED
    BY <1>1, <1>2, <1>3, <1>4 DEF Safe

-----------------------------------------------------------------------------
\* Initially every point is at a peak of nothing.
LEMMA InitSafe == Init => Safe
<1> SUFFICES ASSUME Init PROVE Safe
    OBVIOUS
<1> USE DEF Init, GateInit, NoDelta, Delta, EmptyPoint, Counts
<1>1. TypeOK
    <2>1. GateTypeOK
        BY DEF GateTypeOK
    <2>2. pc \in [Threads -> PCs] /\ ep \in [Threads -> Nat] /\ todo \in [Threads -> SUBSET Points]
        BY DEF PCs
    <2>3. op \in [Threads -> Deltas]
        <3>1. ASSUME NEW t \in Threads PROVE NoDelta(t) \in Deltas
            BY DEF Deltas
        <3> QED
            BY <3>1
    <2>4. pps \in [Points -> PointRecords]
        <3>1. EmptyPoint \in PointRecords
            BY DEF PointRecords
        <3> QED
            BY <3>1
    <2>5. rows \in [Threads -> [curr_bytes : Int, total_blocks : Nat]]
        OBVIOUS
    <2>6. sweep \in [Points -> [bytes : Nat, blocks : Nat]]
        OBVIOUS
    <2>7. live \in [Blocks -> [pp : Points, site : Threads, size : Nat] \cup {None}]
        OBVIOUS
    <2>8. /\ liveLock \in Threads \cup {NoThread}
          /\ curr_bytes \in Nat /\ curr_blocks \in Nat
          /\ max_bytes \in Nat /\ max_blocks \in Nat
          /\ total_blocks \in Nat /\ epoch \in Nat /\ dropped_blocks \in Nat
          /\ due \in Int /\ events \in Nat
        OBVIOUS
    <2>9. poisoned \in BOOLEAN /\ torn \in BOOLEAN
        OBVIOUS
    <2> HIDE DEF Init, GateInit, NoDelta, Delta, EmptyPoint, Counts
    <2> QED
        BY <2>1, <2>2, <2>3, <2>4, <2>5, <2>6, <2>7, <2>8, <2>9, Zenon DEF TypeOK
<1>2. Control
    BY NoThreadAssumption
        DEF Control, GateExclusion, Places, DeltasFit, EpochsKnown, Recording, Counting,
            Flushing
<1>3. Lazy
    BY DEF Lazy, LazyIsEager, AtPeak, Refresh
<1>4. AboveIsExclusive
    BY DEF AboveIsExclusive
<1> QED
    BY <1>1, <1>2, <1>3, <1>4 DEF Safe

\* A step that changes nothing keeps it.
LEMMA StutterSafe == Safe /\ UNCHANGED vars => Safe'
<1> SUFFICES ASSUME Safe, UNCHANGED vars PROVE Safe'
    OBVIOUS
<1> USE DEF vars, gateVars, tableVars, globalVars, pointVars, historyVars
<1>1. TypeOK'
    BY DEF Safe, TypeOK, GateTypeOK
<1>2. Control'
    BY DEF Safe, Control, GateExclusion, Places, DeltasFit, EpochsKnown
<1>3. Lazy'
    BY LazyFrame DEF Safe
<1>4. AboveIsExclusive'
    BY DEF Safe, AboveIsExclusive
<1> QED
    BY <1>1, <1>2, <1>3, <1>4 DEF Safe

\* Safe is inductive.
LEMMA NextSafe == Safe /\ [Next]_vars => Safe'
<1> SUFFICES ASSUME Safe, Next PROVE Safe'
    BY StutterSafe
<1>1. CASE Exhausted
    BY <1>1, StutterSafe DEF Exhausted
<1>2. ASSUME NEW t \in Threads, RecordStep(t) PROVE Safe'
    BY <1>2, RecordAllocSafe, RecordAllocDroppedSafe, RecordFreeSafe, RecordReallocSafe,
        RecordReallocDroppedSafe, RecordEventSafe DEF RecordStep
<1>3. ASSUME NEW t \in Threads, ApplyStep(t) PROVE Safe'
    BY <1>3, EnterSharedSafe, BailOutSafe, TryCommitSafe, CommitSafe, EnterExclusiveSafe,
        StoreBytesSafe, CountBlocksSafe, UpdatePointSafe, AttributeSafe, LeaveSharedSafe,
        LeaveExclusiveSafe, RaisePeakSafe, BumpEpochSafe DEF ApplyStep
<1>4. ASSUME NEW t \in Threads, FlushStep(t) PROVE Safe'
    BY <1>4, StartFlushSafe, FlushEnterSafe, FlushTimeoutSafe, FlushLoadSafe,
        FlushPointSafe, FlushDoneSafe DEF FlushStep
<1>5. ASSUME NEW t \in Threads, ResetStep(t) PROVE Safe'
    BY <1>5, ResetShardsSafe, ResetEnterSafe, ResetBusySafe, ResetCountsSafe DEF ResetStep
<1> QED
    BY <1>1, <1>2, <1>3, <1>4, <1>5 DEF Next

\* The variables keep their types: no counter of the engine or of a point
\* leaves the naturals, whatever is recorded, flushed and restarted.
THEOREM TypeCorrect == Spec => []TypeOK
<1>1. Safe => TypeOK
    BY DEF Safe
<1> QED
    BY InitSafe, NextSafe, <1>1, PTL DEF Spec

\* Record::refresh is sound: as long as no flush went on without the gate, the
\* at-peak counters of every point are those of the instant of the peak.
THEOREM LazySnapshotIsEager == Spec => []LazyIsEager
<1>1. Safe => LazyIsEager
    BY DEF Safe, Lazy
<1> QED
    BY InitSafe, NextSafe, <1>1, PTL DEF Spec

\* Live bytes exceed the recorded maximum only under the exclusive gate.
THEOREM MaximumBounds == Spec => []PeakBounds
<1>1. Safe => PeakBounds
    BY NoThreadAssumption DEF Safe, AboveIsExclusive, PeakBounds
<1> QED
    BY InitSafe, NextSafe, <1>1, PTL DEF Spec

\* Both together: the counters keep their types under the maximum.
THEOREM CountersBounded == Spec => []Bounded
<1>1. TypeOK /\ PeakBounds => Bounded
    BY DEF Bounded
<1> QED
    BY <1>1, TypeCorrect, MaximumBounds, PTL

\* try_apply_shared never commits an event that is a peak, an equal one
\* included: Engine::apply sends every change that is not below zero there.
THEOREM SharedPathNeverPeaks == Spec => SharedNeverPeaks
<1> DEFINE Step == \A t \in Threads :
              pc[t] \in {"try", "commit"} /\ pc'[t] = "blocks"
                 /\ op[t].block # None /\ op[t].curr_bytes >= 0
              => curr_bytes' < max_bytes
<1>1. Safe /\ [Next]_vars => [Step]_vars
    <2> SUFFICES ASSUME Safe, Next, NEW t \in Threads,
                        pc[t] \in {"try", "commit"}, pc'[t] = "blocks",
                        op[t].block # None, op[t].curr_bytes >= 0
                 PROVE  curr_bytes' < max_bytes
        BY DEF vars
    <2>1. pc[t] = "try"
        BY DEF Safe, Control, DeltasFit, TypeOK, Deltas
    <2>2. ASSUME NEW u \in Threads, u # t, NEW to, Goto(u, to) PROVE FALSE
        BY <2>1, <2>2 DEF Goto, Safe, TypeOK
    <2>3. pc' # pc
        BY <2>1
    <2>4. PICK u \in Threads : RecordStep(u) \/ ApplyStep(u) \/ FlushStep(u) \/ ResetStep(u)
        BY <2>3 DEF Next, Exhausted, vars
    <2>5. \E to : Goto(u, to)
        <3>1. CASE RecordStep(u)
            BY <3>1
                DEF RecordStep, RecordAlloc, RecordAllocDropped, RecordFree, RecordRealloc,
                    RecordReallocDropped, RecordEvent, Begin
        <3>2. CASE ApplyStep(u)
            BY <3>2
                DEF ApplyStep, EnterShared, BailOut, TryCommit, Commit, EnterExclusive,
                    StoreBytes, CountBlocks, UpdatePoint, Attribute, LeaveShared,
                    LeaveExclusive, RaisePeak, BumpEpoch, Finish
        <3>3. CASE FlushStep(u)
            BY <3>3, <2>3
                DEF FlushStep, StartFlush, FlushEnter, FlushTimeout, FlushLoad, FlushPoint,
                    FlushDone
        <3>4. CASE ResetStep(u)
            BY <3>4 DEF ResetStep, ResetShards, ResetEnter, ResetBusy, ResetCounts
        <3> QED
            BY <2>4, <3>1, <3>2, <3>3, <3>4
    <2>6. u = t
        BY <2>2, <2>5
    <2>7. TryCommit(t)
        <3>1. ~RecordStep(t)
            BY <2>1
                DEF RecordStep, RecordAlloc, RecordAllocDropped, RecordFree, RecordRealloc,
                    RecordReallocDropped, RecordEvent, Begin, At
        <3>2. ~FlushStep(t)
            BY <2>1
                DEF FlushStep, StartFlush, FlushEnter, FlushTimeout, FlushLoad, FlushPoint,
                    FlushDone, At
        <3>3. ~ResetStep(t)
            BY <2>1 DEF ResetStep, ResetShards, ResetEnter, ResetBusy, ResetCounts, At
        <3>4. ApplyStep(t)
            BY <2>4, <2>6, <3>1, <3>2, <3>3
        <3>5. ~BailOut(t)
            BY <2>1 DEF BailOut, Goto, Safe, TypeOK
        <3> QED
            BY <2>1, <3>4, <3>5
                DEF ApplyStep, EnterShared, Commit, EnterExclusive, StoreBytes, CountBlocks,
                    UpdatePoint, Attribute, LeaveShared, LeaveExclusive, RaisePeak, BumpEpoch,
                    At
    <2> QED
        BY <2>7 DEF TryCommit
<1> QED
    BY InitSafe, NextSafe, <1>1, PTL DEF Spec, SharedNeverPeaks

-----------------------------------------------------------------------------
(* The books.  An event moves the table at once and the counters one by one: *)
(* Kept says, of every counter, that it and what the events under way still  *)
(* owe it add up to the table.                                               *)

\* The stages of an event before it reaches the counters of each kind.
ToBytes  == {"grow", "shrink", "try", "commit", "exclusive", "store"}
ToBlocks == ToBytes \cup {"blocks"}
ToPoint  == ToBlocks \cup {"point"}
ToRow    == ToPoint \cup {"row"}

LiveCount(b) == IF live[b] = None THEN 0 ELSE 1

FitsEntry(t) ==
    /\ op[t].curr_bytes <= LiveBytes(op[t].block)
    /\ op[t].curr_blocks <= LiveCount(op[t].block)
    /\ live[op[t].block] # None => /\ live[op[t].block].pp = op[t].pp
                                   /\ live[op[t].block].site = op[t].site

\* A block is in at most one thread's hands, and the event fits its entry: a
\* change that has not reached a counter is no more than what the table has.
Hands ==
    /\ \A t \in Threads : pc[t] \notin Recording => op[t] = NoDelta(t)
    /\ \A t, u \in Threads : op[t].block = op[u].block /\ op[t].block # None => t = u
    /\ \A t \in Threads : op[t].block = None => op[t].curr_bytes = 0 /\ op[t].curr_blocks = 0
    /\ \A t \in Threads : op[t].block # None => FitsEntry(t)

\* What events still have to add at the stages S; to a point, and to a row.
OwedBytes(S)  == SumFunction([t \in Threads |-> IF pc[t] \in S THEN op[t].curr_bytes ELSE 0])
OwedBlocks(S) == SumFunction([t \in Threads |-> IF pc[t] \in S THEN op[t].curr_blocks ELSE 0])
OwedTotal(S)  == SumFunction([t \in Threads |-> IF pc[t] \in S THEN op[t].total_blocks ELSE 0])
PointOwesBytes(p) ==
    SumFunction([t \in Threads |-> IF pc[t] \in ToPoint /\ op[t].pp = p
      THEN op[t].curr_bytes ELSE 0])
PointOwesBlocks(p) ==
    SumFunction([t \in Threads |-> IF pc[t] \in ToPoint /\ op[t].pp = p
      THEN op[t].curr_blocks ELSE 0])
RowOwes(s) ==
    SumFunction([t \in Threads |-> IF pc[t] \in ToRow /\ op[t].site = s
      THEN op[t].curr_bytes ELSE 0])

\* What the table has; of a point, and of a row.
OfPoint(b, p) == live[b] # None /\ live[b].pp = p
OfSite(b, s) == live[b] # None /\ live[b].site = s
TableBytes  == SumFunction([b \in Blocks |-> LiveBytes(b)])
TableBlocks == SumFunction([b \in Blocks |-> LiveCount(b)])
PointBytes(p)  == SumFunction([b \in Blocks |-> IF OfPoint(b, p) THEN LiveBytes(b) ELSE 0])
PointBlocks(p) == SumFunction([b \in Blocks |-> IF OfPoint(b, p) THEN LiveCount(b) ELSE 0])
SiteBytes(s)   == SumFunction([b \in Blocks |-> IF OfSite(b, s) THEN LiveBytes(b) ELSE 0])

\* Every counter has what the table has, but for the events that are still on
\* their way to it.
Books ==
    /\ curr_bytes + OwedBytes(ToBytes) = TableBytes
    /\ curr_blocks + OwedBlocks(ToBlocks) = TableBlocks
    /\ \A p \in Points : /\ pps[p].curr_bytes + PointOwesBytes(p) = PointBytes(p)
                         /\ pps[p].curr_blocks + PointOwesBlocks(p) = PointBlocks(p)
    /\ \A s \in Threads : rows[s].curr_bytes + RowOwes(s) = SiteBytes(s)

\* A counter is the sum of its shares, but for the events between the two.
PointsBytes == SumFunction([p \in Points |-> pps[p].curr_bytes])
PointsBlocks == SumFunction([p \in Points |-> pps[p].curr_blocks])
PointsTotal == SumFunction([p \in Points |-> pps[p].total_blocks])
RowsBytes == SumFunction([s \in Threads |-> rows[s].curr_bytes])
RowsTotal == SumFunction([s \in Threads |-> rows[s].total_blocks])

Shares ==
    /\ curr_bytes = PointsBytes + OwedBytes({"blocks", "point"})
    /\ curr_blocks = PointsBlocks + OwedBlocks({"point"})
    /\ total_blocks = PointsTotal + OwedTotal({"point"})
    /\ curr_bytes = RowsBytes + OwedBytes({"blocks", "point", "row"})
    /\ total_blocks = RowsTotal + OwedTotal({"point", "row"})
    /\ due = total_blocks + dropped_blocks + OwedTotal(ToBlocks)

\* The copies made when the epoch moved are of a moment at which the heap was
\* at its maximum, and the event that raises it knows how many blocks that was.
SweptBytes == SumFunction([p \in Points |-> sweep[p].bytes])
SweptBlocks == SumFunction([p \in Points |-> sweep[p].blocks])
PeakKept ==
    /\ \A t \in Threads :
          writer = t /\ pc[t] \in {"point", "row", "leave", "bump"}
            => op[t].next_blocks = curr_blocks
    /\ \A t \in Threads : pc[t] = "bump" => max_bytes = curr_bytes /\ max_blocks = curr_blocks
    /\ ~Raising => SweptBytes = max_bytes /\ SweptBlocks = max_blocks

Covers == \A p \in Points : /\ pps[p].curr_bytes <= pps[p].max_bytes
                            /\ pps[p].at_gmax_bytes <= pps[p].max_bytes

Kept == Hands /\ Books /\ Shares /\ PeakKept /\ Covers /\ ~poisoned

-----------------------------------------------------------------------------
(* How the sums move with a step *)

\* One thread's step moves what is owed by the difference its own event makes.
LEMMA OwedMoves ==
    ASSUME TypeOK, TypeOK', NEW t \in Threads,
           \A u \in Threads : u # t => pc'[u] = pc[u] /\ op'[u] = op[u],
           NEW S
    PROVE  /\ OwedBytes(S) \in Int /\ OwedBytes(S)' \in Int
           /\ OwedBytes(S)' = OwedBytes(S) + ((IF pc'[t] \in S THEN op'[t].curr_bytes ELSE 0)
                - (IF pc[t] \in S THEN op[t].curr_bytes ELSE 0))
           /\ OwedBlocks(S) \in Int /\ OwedBlocks(S)' \in Int
           /\ OwedBlocks(S)' = OwedBlocks(S) + ((IF pc'[t] \in S THEN op'[t].curr_blocks ELSE 0)
                - (IF pc[t] \in S THEN op[t].curr_blocks ELSE 0))
           /\ OwedTotal(S) \in Int /\ OwedTotal(S)' \in Int
           /\ OwedTotal(S)' = OwedTotal(S) + ((IF pc'[t] \in S THEN op'[t].total_blocks ELSE 0)
                - (IF pc[t] \in S THEN op[t].total_blocks ELSE 0))
<1>0. \A u \in Threads : op[u] \in Deltas /\ op'[u] \in Deltas
    BY DEF TypeOK
<1>1. /\ OwedBytes(S) \in Int /\ OwedBytes(S)' \in Int
      /\ OwedBytes(S)' = OwedBytes(S) + ((IF pc'[t] \in S THEN op'[t].curr_bytes ELSE 0)
           - (IF pc[t] \in S THEN op[t].curr_bytes ELSE 0))
    <2> DEFINE f == [u \in Threads |-> IF pc[u] \in S THEN op[u].curr_bytes ELSE 0]
               h == [u \in Threads |-> IF pc'[u] \in S THEN op'[u].curr_bytes ELSE 0]
    <2>1. f \in [Threads -> Int] /\ h \in [Threads -> Int]
        BY <1>0 DEF Deltas
    <2>2. \A u \in Threads : u # t => h[u] = f[u]
        OBVIOUS
    <2>3. h[t] - f[t] = (IF pc'[t] \in S THEN op'[t].curr_bytes ELSE 0)
            - (IF pc[t] \in S THEN op[t].curr_bytes ELSE 0)
        OBVIOUS
    <2>4. OwedBytes(S) = SumFunction(f) /\ OwedBytes(S)' = SumFunction(h)
        BY DEF OwedBytes
    <2> HIDE DEF f, h
    <2> QED
        BY <2>1, <2>2, <2>3, <2>4, FiniteAssumption, SumUpdate
<1>2. /\ OwedBlocks(S) \in Int /\ OwedBlocks(S)' \in Int
      /\ OwedBlocks(S)' = OwedBlocks(S) + ((IF pc'[t] \in S THEN op'[t].curr_blocks ELSE 0)
           - (IF pc[t] \in S THEN op[t].curr_blocks ELSE 0))
    <2> DEFINE f == [u \in Threads |-> IF pc[u] \in S THEN op[u].curr_blocks ELSE 0]
               h == [u \in Threads |-> IF pc'[u] \in S THEN op'[u].curr_blocks ELSE 0]
    <2>1. f \in [Threads -> Int] /\ h \in [Threads -> Int]
        BY <1>0 DEF Deltas
    <2>2. \A u \in Threads : u # t => h[u] = f[u]
        OBVIOUS
    <2>3. h[t] - f[t] = (IF pc'[t] \in S THEN op'[t].curr_blocks ELSE 0)
            - (IF pc[t] \in S THEN op[t].curr_blocks ELSE 0)
        OBVIOUS
    <2>4. OwedBlocks(S) = SumFunction(f) /\ OwedBlocks(S)' = SumFunction(h)
        BY DEF OwedBlocks
    <2> HIDE DEF f, h
    <2> QED
        BY <2>1, <2>2, <2>3, <2>4, FiniteAssumption, SumUpdate
<1>3. /\ OwedTotal(S) \in Int /\ OwedTotal(S)' \in Int
      /\ OwedTotal(S)' = OwedTotal(S) + ((IF pc'[t] \in S THEN op'[t].total_blocks ELSE 0)
           - (IF pc[t] \in S THEN op[t].total_blocks ELSE 0))
    <2> DEFINE f == [u \in Threads |-> IF pc[u] \in S THEN op[u].total_blocks ELSE 0]
               h == [u \in Threads |-> IF pc'[u] \in S THEN op'[u].total_blocks ELSE 0]
    <2>1. f \in [Threads -> Int] /\ h \in [Threads -> Int]
        BY <1>0 DEF Deltas
    <2>2. \A u \in Threads : u # t => h[u] = f[u]
        OBVIOUS
    <2>3. h[t] - f[t] = (IF pc'[t] \in S THEN op'[t].total_blocks ELSE 0)
            - (IF pc[t] \in S THEN op[t].total_blocks ELSE 0)
        OBVIOUS
    <2>4. OwedTotal(S) = SumFunction(f) /\ OwedTotal(S)' = SumFunction(h)
        BY DEF OwedTotal
    <2> HIDE DEF f, h
    <2> QED
        BY <2>1, <2>2, <2>3, <2>4, FiniteAssumption, SumUpdate
<1> QED
    BY <1>1, <1>2, <1>3

\* And what is owed to one point or one row.
LEMMA PointOwedMoves ==
    ASSUME TypeOK, TypeOK', NEW t \in Threads,
           \A u \in Threads : u # t => pc'[u] = pc[u] /\ op'[u] = op[u],
           NEW p
    PROVE  /\ PointOwesBytes(p) \in Int /\ PointOwesBytes(p)' \in Int
           /\ PointOwesBytes(p)' = PointOwesBytes(p)
                + ((IF pc'[t] \in ToPoint /\ op'[t].pp = p THEN op'[t].curr_bytes ELSE 0)
                  - (IF pc[t] \in ToPoint /\ op[t].pp = p THEN op[t].curr_bytes ELSE 0))
           /\ PointOwesBlocks(p) \in Int /\ PointOwesBlocks(p)' \in Int
           /\ PointOwesBlocks(p)' = PointOwesBlocks(p)
                + ((IF pc'[t] \in ToPoint /\ op'[t].pp = p THEN op'[t].curr_blocks ELSE 0)
                  - (IF pc[t] \in ToPoint /\ op[t].pp = p THEN op[t].curr_blocks ELSE 0))
<1>0. \A u \in Threads : op[u] \in Deltas /\ op'[u] \in Deltas
    BY DEF TypeOK
<1>1. /\ PointOwesBytes(p) \in Int /\ PointOwesBytes(p)' \in Int
      /\ PointOwesBytes(p)' = PointOwesBytes(p)
           + ((IF pc'[t] \in ToPoint /\ op'[t].pp = p THEN op'[t].curr_bytes ELSE 0)
             - (IF pc[t] \in ToPoint /\ op[t].pp = p THEN op[t].curr_bytes ELSE 0))
    <2> DEFINE f == [u \in Threads |-> IF pc[u] \in ToPoint /\ op[u].pp = p
                 THEN op[u].curr_bytes ELSE 0]
               h == [u \in Threads |-> IF pc'[u] \in ToPoint /\ op'[u].pp = p
                 THEN op'[u].curr_bytes ELSE 0]
    <2>1. f \in [Threads -> Int] /\ h \in [Threads -> Int]
        BY <1>0 DEF Deltas
    <2>2. \A u \in Threads : u # t => h[u] = f[u]
        OBVIOUS
    <2>3. h[t] - f[t] = (IF pc'[t] \in ToPoint /\ op'[t].pp = p THEN op'[t].curr_bytes ELSE 0)
            - (IF pc[t] \in ToPoint /\ op[t].pp = p THEN op[t].curr_bytes ELSE 0)
        OBVIOUS
    <2>4. PointOwesBytes(p) = SumFunction(f) /\ PointOwesBytes(p)' = SumFunction(h)
        BY DEF PointOwesBytes
    <2> HIDE DEF f, h
    <2> QED
        BY <2>1, <2>2, <2>3, <2>4, FiniteAssumption, SumUpdate
<1>2. /\ PointOwesBlocks(p) \in Int /\ PointOwesBlocks(p)' \in Int
      /\ PointOwesBlocks(p)' = PointOwesBlocks(p)
           + ((IF pc'[t] \in ToPoint /\ op'[t].pp = p THEN op'[t].curr_blocks ELSE 0)
             - (IF pc[t] \in ToPoint /\ op[t].pp = p THEN op[t].curr_blocks ELSE 0))
    <2> DEFINE f == [u \in Threads |-> IF pc[u] \in ToPoint /\ op[u].pp = p
                 THEN op[u].curr_blocks ELSE 0]
               h == [u \in Threads |-> IF pc'[u] \in ToPoint /\ op'[u].pp = p
                 THEN op'[u].curr_blocks ELSE 0]
    <2>1. f \in [Threads -> Int] /\ h \in [Threads -> Int]
        BY <1>0 DEF Deltas
    <2>2. \A u \in Threads : u # t => h[u] = f[u]
        OBVIOUS
    <2>3. h[t] - f[t] = (IF pc'[t] \in ToPoint /\ op'[t].pp = p THEN op'[t].curr_blocks ELSE 0)
            - (IF pc[t] \in ToPoint /\ op[t].pp = p THEN op[t].curr_blocks ELSE 0)
        OBVIOUS
    <2>4. PointOwesBlocks(p) = SumFunction(f) /\ PointOwesBlocks(p)' = SumFunction(h)
        BY DEF PointOwesBlocks
    <2> HIDE DEF f, h
    <2> QED
        BY <2>1, <2>2, <2>3, <2>4, FiniteAssumption, SumUpdate
<1> QED
    BY <1>1, <1>2

\* The same for what events still have to add to a row.
LEMMA RowOwedMoves ==
    ASSUME TypeOK, TypeOK', NEW t \in Threads,
           \A u \in Threads : u # t => pc'[u] = pc[u] /\ op'[u] = op[u],
           NEW s
    PROVE  /\ RowOwes(s) \in Int /\ RowOwes(s)' \in Int
           /\ RowOwes(s)' = RowOwes(s)
                + ((IF pc'[t] \in ToRow /\ op'[t].site = s THEN op'[t].curr_bytes ELSE 0)
                  - (IF pc[t] \in ToRow /\ op[t].site = s THEN op[t].curr_bytes ELSE 0))
<1>0. \A u \in Threads : op[u] \in Deltas /\ op'[u] \in Deltas
    BY DEF TypeOK
<1>1. /\ RowOwes(s) \in Int /\ RowOwes(s)' \in Int
      /\ RowOwes(s)' = RowOwes(s)
           + ((IF pc'[t] \in ToRow /\ op'[t].site = s THEN op'[t].curr_bytes ELSE 0)
             - (IF pc[t] \in ToRow /\ op[t].site = s THEN op[t].curr_bytes ELSE 0))
    <2> DEFINE f == [u \in Threads |-> IF pc[u] \in ToRow /\ op[u].site = s
                 THEN op[u].curr_bytes ELSE 0]
               h == [u \in Threads |-> IF pc'[u] \in ToRow /\ op'[u].site = s
                 THEN op'[u].curr_bytes ELSE 0]
    <2>1. f \in [Threads -> Int] /\ h \in [Threads -> Int]
        BY <1>0 DEF Deltas
    <2>2. \A u \in Threads : u # t => h[u] = f[u]
        OBVIOUS
    <2>3. h[t] - f[t] = (IF pc'[t] \in ToRow /\ op'[t].site = s THEN op'[t].curr_bytes ELSE 0)
            - (IF pc[t] \in ToRow /\ op[t].site = s THEN op[t].curr_bytes ELSE 0)
        OBVIOUS
    <2>4. RowOwes(s) = SumFunction(f) /\ RowOwes(s)' = SumFunction(h)
        BY DEF RowOwes
    <2> HIDE DEF f, h
    <2> QED
        BY <2>1, <2>2, <2>3, <2>4, FiniteAssumption, SumUpdate
<1> QED
    BY <1>1

\* A change of one entry moves what the table has by what the entry changes.
LEMMA TableMoves ==
    ASSUME TypeOK, TypeOK', NEW b \in Blocks,
           \A c \in Blocks : c # b => live'[c] = live[c]
    PROVE  /\ TableBytes \in Int /\ TableBytes' \in Int
           /\ TableBytes' = TableBytes + ((LiveBytes(b)') - (LiveBytes(b)))
           /\ TableBlocks \in Int /\ TableBlocks' \in Int
           /\ TableBlocks' = TableBlocks + ((LiveCount(b)') - (LiveCount(b)))
<1>0. \A c \in Blocks : /\ LiveBytes(c) \in Nat /\ LiveBytes(c)' \in Nat
                        /\ LiveCount(c) \in Nat /\ LiveCount(c)' \in Nat
    BY NoneAssumption DEF TypeOK, LiveBytes, LiveCount
<1>1. /\ TableBytes \in Int /\ TableBytes' \in Int
      /\ TableBytes' = TableBytes + ((LiveBytes(b)') - (LiveBytes(b)))
    <2> DEFINE f == [c \in Blocks |-> LiveBytes(c)]
               h == [c \in Blocks |-> LiveBytes(c)']
    <2>1. f \in [Blocks -> Int] /\ h \in [Blocks -> Int]
        BY <1>0
    <2>2. \A c \in Blocks : c # b => h[c] = f[c]
        BY DEF LiveBytes, LiveCount, OfPoint, OfSite
    <2>3. h[b] - f[b] = (LiveBytes(b)') - (LiveBytes(b))
        OBVIOUS
    <2>4. TableBytes = SumFunction(f) /\ TableBytes' = SumFunction(h)
        BY DEF TableBytes
    <2> HIDE DEF f, h
    <2> QED
        BY <2>1, <2>2, <2>3, <2>4, FiniteAssumption, SumUpdate
<1>2. /\ TableBlocks \in Int /\ TableBlocks' \in Int
      /\ TableBlocks' = TableBlocks + ((LiveCount(b)') - (LiveCount(b)))
    <2> DEFINE f == [c \in Blocks |-> LiveCount(c)]
               h == [c \in Blocks |-> LiveCount(c)']
    <2>1. f \in [Blocks -> Int] /\ h \in [Blocks -> Int]
        BY <1>0
    <2>2. \A c \in Blocks : c # b => h[c] = f[c]
        BY DEF LiveBytes, LiveCount, OfPoint, OfSite
    <2>3. h[b] - f[b] = (LiveCount(b)') - (LiveCount(b))
        OBVIOUS
    <2>4. TableBlocks = SumFunction(f) /\ TableBlocks' = SumFunction(h)
        BY DEF TableBlocks
    <2> HIDE DEF f, h
    <2> QED
        BY <2>1, <2>2, <2>3, <2>4, FiniteAssumption, SumUpdate
<1> QED
    BY <1>1, <1>2

\* The same for the entries of a point.
LEMMA PointTableMoves ==
    ASSUME TypeOK, TypeOK', NEW b \in Blocks,
           \A c \in Blocks : c # b => live'[c] = live[c],
           NEW p
    PROVE  /\ PointBytes(p) \in Int /\ PointBytes(p)' \in Int
           /\ PointBytes(p)' = PointBytes(p) + ((IF OfPoint(b, p)' THEN LiveBytes(b)' ELSE 0)
                - (IF OfPoint(b, p) THEN LiveBytes(b) ELSE 0))
           /\ PointBlocks(p) \in Int /\ PointBlocks(p)' \in Int
           /\ PointBlocks(p)' = PointBlocks(p) + ((IF OfPoint(b, p)' THEN LiveCount(b)' ELSE 0)
                - (IF OfPoint(b, p) THEN LiveCount(b) ELSE 0))
<1>0. \A c \in Blocks : /\ LiveBytes(c) \in Nat /\ LiveBytes(c)' \in Nat
                        /\ LiveCount(c) \in Nat /\ LiveCount(c)' \in Nat
    BY NoneAssumption DEF TypeOK, LiveBytes, LiveCount
<1>1. /\ PointBytes(p) \in Int /\ PointBytes(p)' \in Int
      /\ PointBytes(p)' = PointBytes(p) + ((IF OfPoint(b, p)' THEN LiveBytes(b)' ELSE 0)
           - (IF OfPoint(b, p) THEN LiveBytes(b) ELSE 0))
    <2> DEFINE f == [c \in Blocks |-> IF OfPoint(c, p) THEN LiveBytes(c) ELSE 0]
               h == [c \in Blocks |-> IF OfPoint(c, p)' THEN LiveBytes(c)' ELSE 0]
    <2>1. f \in [Blocks -> Int] /\ h \in [Blocks -> Int]
        BY <1>0
    <2>2. \A c \in Blocks : c # b => h[c] = f[c]
        BY DEF LiveBytes, LiveCount, OfPoint, OfSite
    <2>3. h[b] - f[b] = (IF OfPoint(b, p)' THEN LiveBytes(b)' ELSE 0)
            - (IF OfPoint(b, p) THEN LiveBytes(b) ELSE 0)
        OBVIOUS
    <2>4. PointBytes(p) = SumFunction(f) /\ PointBytes(p)' = SumFunction(h)
        BY DEF PointBytes
    <2> HIDE DEF f, h
    <2> QED
        BY <2>1, <2>2, <2>3, <2>4, FiniteAssumption, SumUpdate
<1>2. /\ PointBlocks(p) \in Int /\ PointBlocks(p)' \in Int
      /\ PointBlocks(p)' = PointBlocks(p) + ((IF OfPoint(b, p)' THEN LiveCount(b)' ELSE 0)
           - (IF OfPoint(b, p) THEN LiveCount(b) ELSE 0))
    <2> DEFINE f == [c \in Blocks |-> IF OfPoint(c, p) THEN LiveCount(c) ELSE 0]
               h == [c \in Blocks |-> IF OfPoint(c, p)' THEN LiveCount(c)' ELSE 0]
    <2>1. f \in [Blocks -> Int] /\ h \in [Blocks -> Int]
        BY <1>0
    <2>2. \A c \in Blocks : c # b => h[c] = f[c]
        BY DEF LiveBytes, LiveCount, OfPoint, OfSite
    <2>3. h[b] - f[b] = (IF OfPoint(b, p)' THEN LiveCount(b)' ELSE 0)
            - (IF OfPoint(b, p) THEN LiveCount(b) ELSE 0)
        OBVIOUS
    <2>4. PointBlocks(p) = SumFunction(f) /\ PointBlocks(p)' = SumFunction(h)
        BY DEF PointBlocks
    <2> HIDE DEF f, h
    <2> QED
        BY <2>1, <2>2, <2>3, <2>4, FiniteAssumption, SumUpdate
<1> QED
    BY <1>1, <1>2

\* The same for the entries charged to a row.
LEMMA SiteTableMoves ==
    ASSUME TypeOK, TypeOK', NEW b \in Blocks,
           \A c \in Blocks : c # b => live'[c] = live[c],
           NEW s
    PROVE  /\ SiteBytes(s) \in Int /\ SiteBytes(s)' \in Int
           /\ SiteBytes(s)' = SiteBytes(s) + ((IF OfSite(b, s)' THEN LiveBytes(b)' ELSE 0)
                - (IF OfSite(b, s) THEN LiveBytes(b) ELSE 0))
<1>0. \A c \in Blocks : /\ LiveBytes(c) \in Nat /\ LiveBytes(c)' \in Nat
                        /\ LiveCount(c) \in Nat /\ LiveCount(c)' \in Nat
    BY NoneAssumption DEF TypeOK, LiveBytes, LiveCount
<1>1. /\ SiteBytes(s) \in Int /\ SiteBytes(s)' \in Int
      /\ SiteBytes(s)' = SiteBytes(s) + ((IF OfSite(b, s)' THEN LiveBytes(b)' ELSE 0)
           - (IF OfSite(b, s) THEN LiveBytes(b) ELSE 0))
    <2> DEFINE f == [c \in Blocks |-> IF OfSite(c, s) THEN LiveBytes(c) ELSE 0]
               h == [c \in Blocks |-> IF OfSite(c, s)' THEN LiveBytes(c)' ELSE 0]
    <2>1. f \in [Blocks -> Int] /\ h \in [Blocks -> Int]
        BY <1>0
    <2>2. \A c \in Blocks : c # b => h[c] = f[c]
        BY DEF LiveBytes, LiveCount, OfPoint, OfSite
    <2>3. h[b] - f[b] = (IF OfSite(b, s)' THEN LiveBytes(b)' ELSE 0)
            - (IF OfSite(b, s) THEN LiveBytes(b) ELSE 0)
        OBVIOUS
    <2>4. SiteBytes(s) = SumFunction(f) /\ SiteBytes(s)' = SumFunction(h)
        BY DEF SiteBytes
    <2> HIDE DEF f, h
    <2> QED
        BY <2>1, <2>2, <2>3, <2>4, FiniteAssumption, SumUpdate
<1> QED
    BY <1>1

\* A change of one point, and of one row, moves the sum of all by as much.
LEMMA PointsMove ==
    ASSUME TypeOK, TypeOK', NEW p \in Points, \A q \in Points : q # p => pps'[q] = pps[q]
    PROVE  /\ PointsBytes \in Int /\ PointsBytes' \in Int
           /\ PointsBytes' = PointsBytes + (pps'[p].curr_bytes - pps[p].curr_bytes)
           /\ PointsBlocks \in Int /\ PointsBlocks' \in Int
           /\ PointsBlocks' = PointsBlocks + (pps'[p].curr_blocks - pps[p].curr_blocks)
           /\ PointsTotal \in Int /\ PointsTotal' \in Int
           /\ PointsTotal' = PointsTotal + (pps'[p].total_blocks - pps[p].total_blocks)
<1>0. \A q \in Points : /\ pps[q].curr_bytes \in Int /\ pps'[q].curr_bytes \in Int
                        /\ pps[q].curr_blocks \in Int /\ pps'[q].curr_blocks \in Int
                        /\ pps[q].total_blocks \in Int /\ pps'[q].total_blocks \in Int
    BY DEF TypeOK, PointRecords
<1>1. /\ PointsBytes \in Int /\ PointsBytes' \in Int
      /\ PointsBytes' = PointsBytes + (pps'[p].curr_bytes - pps[p].curr_bytes)
    <2> DEFINE f == [q \in Points |-> pps[q].curr_bytes]
               h == [q \in Points |-> pps'[q].curr_bytes]
    <2>1. f \in [Points -> Int] /\ h \in [Points -> Int]
        BY <1>0
    <2>2. \A q \in Points : q # p => h[q] = f[q]
        OBVIOUS
    <2>3. h[p] - f[p] = pps'[p].curr_bytes - pps[p].curr_bytes
        OBVIOUS
    <2>4. PointsBytes = SumFunction(f) /\ PointsBytes' = SumFunction(h)
        BY DEF PointsBytes
    <2> HIDE DEF f, h
    <2> QED
        BY <2>1, <2>2, <2>3, <2>4, FiniteAssumption, SumUpdate
<1>2. /\ PointsBlocks \in Int /\ PointsBlocks' \in Int
      /\ PointsBlocks' = PointsBlocks + (pps'[p].curr_blocks - pps[p].curr_blocks)
    <2> DEFINE f == [q \in Points |-> pps[q].curr_blocks]
               h == [q \in Points |-> pps'[q].curr_blocks]
    <2>1. f \in [Points -> Int] /\ h \in [Points -> Int]
        BY <1>0
    <2>2. \A q \in Points : q # p => h[q] = f[q]
        OBVIOUS
    <2>3. h[p] - f[p] = pps'[p].curr_blocks - pps[p].curr_blocks
        OBVIOUS
    <2>4. PointsBlocks = SumFunction(f) /\ PointsBlocks' = SumFunction(h)
        BY DEF PointsBlocks
    <2> HIDE DEF f, h
    <2> QED
        BY <2>1, <2>2, <2>3, <2>4, FiniteAssumption, SumUpdate
<1>3. /\ PointsTotal \in Int /\ PointsTotal' \in Int
      /\ PointsTotal' = PointsTotal + (pps'[p].total_blocks - pps[p].total_blocks)
    <2> DEFINE f == [q \in Points |-> pps[q].total_blocks]
               h == [q \in Points |-> pps'[q].total_blocks]
    <2>1. f \in [Points -> Int] /\ h \in [Points -> Int]
        BY <1>0
    <2>2. \A q \in Points : q # p => h[q] = f[q]
        OBVIOUS
    <2>3. h[p] - f[p] = pps'[p].total_blocks - pps[p].total_blocks
        OBVIOUS
    <2>4. PointsTotal = SumFunction(f) /\ PointsTotal' = SumFunction(h)
        BY DEF PointsTotal
    <2> HIDE DEF f, h
    <2> QED
        BY <2>1, <2>2, <2>3, <2>4, FiniteAssumption, SumUpdate
<1> QED
    BY <1>1, <1>2, <1>3

\* The same for the rows' sums.
LEMMA RowsMove ==
    ASSUME TypeOK, TypeOK', NEW s \in Threads, \A q \in Threads : q # s => rows'[q] = rows[q]
    PROVE  /\ RowsBytes \in Int /\ RowsBytes' \in Int
           /\ RowsBytes' = RowsBytes + (rows'[s].curr_bytes - rows[s].curr_bytes)
           /\ RowsTotal \in Int /\ RowsTotal' \in Int
           /\ RowsTotal' = RowsTotal + (rows'[s].total_blocks - rows[s].total_blocks)
<1>0. \A q \in Threads : /\ rows[q].curr_bytes \in Int /\ rows'[q].curr_bytes \in Int
                         /\ rows[q].total_blocks \in Int /\ rows'[q].total_blocks \in Int
    BY DEF TypeOK
<1>1. /\ RowsBytes \in Int /\ RowsBytes' \in Int
      /\ RowsBytes' = RowsBytes + (rows'[s].curr_bytes - rows[s].curr_bytes)
    <2> DEFINE f == [q \in Threads |-> rows[q].curr_bytes]
               h == [q \in Threads |-> rows'[q].curr_bytes]
    <2>1. f \in [Threads -> Int] /\ h \in [Threads -> Int]
        BY <1>0
    <2>2. \A q \in Threads : q # s => h[q] = f[q]
        OBVIOUS
    <2>3. h[s] - f[s] = rows'[s].curr_bytes - rows[s].curr_bytes
        OBVIOUS
    <2>4. RowsBytes = SumFunction(f) /\ RowsBytes' = SumFunction(h)
        BY DEF RowsBytes
    <2> HIDE DEF f, h
    <2> QED
        BY <2>1, <2>2, <2>3, <2>4, FiniteAssumption, SumUpdate
<1>2. /\ RowsTotal \in Int /\ RowsTotal' \in Int
      /\ RowsTotal' = RowsTotal + (rows'[s].total_blocks - rows[s].total_blocks)
    <2> DEFINE f == [q \in Threads |-> rows[q].total_blocks]
               h == [q \in Threads |-> rows'[q].total_blocks]
    <2>1. f \in [Threads -> Int] /\ h \in [Threads -> Int]
        BY <1>0
    <2>2. \A q \in Threads : q # s => h[q] = f[q]
        OBVIOUS
    <2>3. h[s] - f[s] = rows'[s].total_blocks - rows[s].total_blocks
        OBVIOUS
    <2>4. RowsTotal = SumFunction(f) /\ RowsTotal' = SumFunction(h)
        BY DEF RowsTotal
    <2> HIDE DEF f, h
    <2> QED
        BY <2>1, <2>2, <2>3, <2>4, FiniteAssumption, SumUpdate
<1> QED
    BY <1>1, <1>2

-----------------------------------------------------------------------------
(* No counter is short *)

\* An event has its block to itself, so what all events owe is no more than what
\* their blocks have.
LEMMA OwedIsCovered ==
    ASSUME NEW ops \in [Threads -> Deltas], NEW f \in [Threads -> Int], NEW h \in [Blocks -> Nat],
           \A t, u \in Threads : ops[t].block = ops[u].block /\ ops[t].block # None => t = u,
           \A t \in Threads : f[t] <= 0 \/ (ops[t].block # None /\ f[t] <= h[ops[t].block])
    PROVE  SumFunction(f) <= SumFunction(h)
<1> DEFINE m == [t \in Threads |-> ops[t].block]
<1>1. \A t \in Threads : ops[t].block \in Blocks \cup {None}
    BY DEF Deltas
<1>2. \A t \in Threads : f[t] <= 0 \/ (m[t] \in Blocks /\ f[t] <= h[m[t]])
    BY <1>1
<1>3. \A t, u \in Threads : m[t] = m[u] /\ m[t] \in Blocks => t = u
    BY NoneAssumption
<1> HIDE DEF m
<1> QED
    BY <1>2, <1>3, FiniteAssumption, SumsCompare

\* What is owed in bytes is no more than the live bytes.
LEMMA BytesCovered ==
    ASSUME TypeOK', Hands', NEW S
    PROVE  OwedBytes(S)' <= TableBytes'
<1> DEFINE f == [t \in Threads |-> IF pc'[t] \in S THEN op'[t].curr_bytes ELSE 0]
           h == [b \in Blocks |-> LiveBytes(b)']
<1>0. \A c \in Blocks : LiveBytes(c)' \in Nat /\ LiveCount(c)' \in Nat
    BY NoneAssumption DEF TypeOK, LiveBytes, LiveCount
<1>1. \A t \in Threads : op'[t] \in Deltas /\ op'[t].block \in Blocks \cup {None}
    BY DEF TypeOK, Deltas
<1>2. f \in [Threads -> Int] /\ h \in [Blocks -> Nat]
    BY <1>0, <1>1 DEF Deltas
<1>3. \A t \in Threads : f[t] <= 0 \/ (op'[t].block # None /\ f[t] <= h[op'[t].block])
    BY <1>0, <1>1 DEF Hands, FitsEntry, LiveBytes, LiveCount
<1>4. op' \in [Threads -> Deltas]
      /\ \A t, u \in Threads : op'[t].block = op'[u].block /\ op'[t].block # None => t = u
    BY DEF TypeOK, Hands, FitsEntry, FitsEntry
<1>5. OwedBytes(S)' = SumFunction(f) /\ TableBytes' = SumFunction(h)
    BY DEF OwedBytes, TableBytes
<1> HIDE DEF f, h
<1> QED
    BY <1>2, <1>3, <1>4, <1>5, OwedIsCovered

\* The same in blocks.
LEMMA BlocksCovered ==
    ASSUME TypeOK', Hands', NEW S
    PROVE  OwedBlocks(S)' <= TableBlocks'
<1> DEFINE f == [t \in Threads |-> IF pc'[t] \in S THEN op'[t].curr_blocks ELSE 0]
           h == [b \in Blocks |-> LiveCount(b)']
<1>0. \A c \in Blocks : LiveBytes(c)' \in Nat /\ LiveCount(c)' \in Nat
    BY NoneAssumption DEF TypeOK, LiveBytes, LiveCount
<1>1. \A t \in Threads : op'[t] \in Deltas /\ op'[t].block \in Blocks \cup {None}
    BY DEF TypeOK, Deltas
<1>2. f \in [Threads -> Int] /\ h \in [Blocks -> Nat]
    BY <1>0, <1>1 DEF Deltas
<1>3. \A t \in Threads : f[t] <= 0 \/ (op'[t].block # None /\ f[t] <= h[op'[t].block])
    BY <1>0, <1>1 DEF Hands, FitsEntry, LiveBytes, LiveCount
<1>4. op' \in [Threads -> Deltas]
      /\ \A t, u \in Threads : op'[t].block = op'[u].block /\ op'[t].block # None => t = u
    BY DEF TypeOK, Hands, FitsEntry, FitsEntry
<1>5. OwedBlocks(S)' = SumFunction(f) /\ TableBlocks' = SumFunction(h)
    BY DEF OwedBlocks, TableBlocks
<1> HIDE DEF f, h
<1> QED
    BY <1>2, <1>3, <1>4, <1>5, OwedIsCovered

\* The same for the bytes of one point.
LEMMA PointBytesCovered ==
    ASSUME TypeOK', Hands', NEW p
    PROVE  PointOwesBytes(p)' <= PointBytes(p)'
<1> DEFINE f == [t \in Threads |-> IF pc'[t] \in ToPoint /\ op'[t].pp = p
             THEN op'[t].curr_bytes ELSE 0]
           h == [b \in Blocks |-> IF OfPoint(b, p)' THEN LiveBytes(b)' ELSE 0]
<1>0. \A c \in Blocks : LiveBytes(c)' \in Nat /\ LiveCount(c)' \in Nat
    BY NoneAssumption DEF TypeOK, LiveBytes, LiveCount
<1>1. \A t \in Threads : op'[t] \in Deltas /\ op'[t].block \in Blocks \cup {None}
    BY DEF TypeOK, Deltas
<1>2. f \in [Threads -> Int] /\ h \in [Blocks -> Nat]
    BY <1>0, <1>1 DEF Deltas
<1>3. \A t \in Threads : f[t] <= 0 \/ (op'[t].block # None /\ f[t] <= h[op'[t].block])
    BY <1>0, <1>1 DEF Hands, FitsEntry, LiveBytes, LiveCount, OfPoint
<1>4. op' \in [Threads -> Deltas]
      /\ \A t, u \in Threads : op'[t].block = op'[u].block /\ op'[t].block # None => t = u
    BY DEF TypeOK, Hands, FitsEntry, FitsEntry
<1>5. PointOwesBytes(p)' = SumFunction(f) /\ PointBytes(p)' = SumFunction(h)
    BY DEF PointOwesBytes, PointBytes
<1> HIDE DEF f, h
<1> QED
    BY <1>2, <1>3, <1>4, <1>5, OwedIsCovered

\* The same for the blocks of one point.
LEMMA PointBlocksCovered ==
    ASSUME TypeOK', Hands', NEW p
    PROVE  PointOwesBlocks(p)' <= PointBlocks(p)'
<1> DEFINE f == [t \in Threads |-> IF pc'[t] \in ToPoint /\ op'[t].pp = p
             THEN op'[t].curr_blocks ELSE 0]
           h == [b \in Blocks |-> IF OfPoint(b, p)' THEN LiveCount(b)' ELSE 0]
<1>0. \A c \in Blocks : LiveBytes(c)' \in Nat /\ LiveCount(c)' \in Nat
    BY NoneAssumption DEF TypeOK, LiveBytes, LiveCount
<1>1. \A t \in Threads : op'[t] \in Deltas /\ op'[t].block \in Blocks \cup {None}
    BY DEF TypeOK, Deltas
<1>2. f \in [Threads -> Int] /\ h \in [Blocks -> Nat]
    BY <1>0, <1>1 DEF Deltas
<1>3. \A t \in Threads : f[t] <= 0 \/ (op'[t].block # None /\ f[t] <= h[op'[t].block])
    BY <1>0, <1>1 DEF Hands, FitsEntry, LiveBytes, LiveCount, OfPoint
<1>4. op' \in [Threads -> Deltas]
      /\ \A t, u \in Threads : op'[t].block = op'[u].block /\ op'[t].block # None => t = u
    BY DEF TypeOK, Hands, FitsEntry, FitsEntry
<1>5. PointOwesBlocks(p)' = SumFunction(f) /\ PointBlocks(p)' = SumFunction(h)
    BY DEF PointOwesBlocks, PointBlocks
<1> HIDE DEF f, h
<1> QED
    BY <1>2, <1>3, <1>4, <1>5, OwedIsCovered

\* The same for one row.
LEMMA RowCovered ==
    ASSUME TypeOK, Hands, NEW s
    PROVE  RowOwes(s) <= SiteBytes(s)
<1> DEFINE f == [t \in Threads |-> IF pc[t] \in ToRow /\ op[t].site = s
             THEN op[t].curr_bytes ELSE 0]
           h == [b \in Blocks |-> IF OfSite(b, s) THEN LiveBytes(b) ELSE 0]
<1>0. \A c \in Blocks : LiveBytes(c) \in Nat /\ LiveCount(c) \in Nat
    BY NoneAssumption DEF TypeOK, LiveBytes, LiveCount
<1>1. \A t \in Threads : op[t] \in Deltas /\ op[t].block \in Blocks \cup {None}
    BY DEF TypeOK, Deltas
<1>2. f \in [Threads -> Int] /\ h \in [Blocks -> Nat]
    BY <1>0, <1>1 DEF Deltas
<1>3. \A t \in Threads : f[t] <= 0 \/ (op[t].block # None /\ f[t] <= h[op[t].block])
    BY <1>0, <1>1 DEF Hands, FitsEntry, LiveBytes, LiveCount, OfSite
<1>4. op \in [Threads -> Deltas]
      /\ \A t, u \in Threads : op[t].block = op[u].block /\ op[t].block # None => t = u
    BY DEF TypeOK, Hands, FitsEntry, FitsEntry
<1>5. RowOwes(s) = SumFunction(f) /\ SiteBytes(s) = SumFunction(h)
    BY DEF RowOwes, SiteBytes
<1> HIDE DEF f, h
<1> QED
    BY <1>2, <1>3, <1>4, <1>5, OwedIsCovered

-----------------------------------------------------------------------------
(* The books, stage by stage *)

Stages == {ToBytes, ToBlocks, ToPoint, ToRow, {"blocks", "point"}, {"point"},
           {"blocks", "point", "row"}, {"point", "row"}}

\* A step that brings no event to a counter, and changes none, changes nothing
\* in the books.
LEMMA BooksStay ==
    ASSUME TypeOK, TypeOK', Books, Shares, NEW t \in Threads,
           \A u \in Threads : u # t => pc'[u] = pc[u] /\ op'[u] = op[u],
           \/ pc[t] \in ToBytes /\ pc'[t] \in ToBytes /\ op'[t] = op[t]
           \/ pc[t] \notin ToRow /\ pc'[t] \notin ToRow,
           live' = live, curr_bytes' = curr_bytes, curr_blocks' = curr_blocks,
           total_blocks' = total_blocks, rows' = rows,
           due' - dropped_blocks' = due - dropped_blocks,
           \A p \in Points : /\ pps'[p].curr_bytes = pps[p].curr_bytes
                             /\ pps'[p].curr_blocks = pps[p].curr_blocks
                             /\ pps'[p].total_blocks = pps[p].total_blocks
    PROVE  Books' /\ Shares'
<1>0. op[t] \in Deltas /\ op'[t] \in Deltas
    BY DEF TypeOK
<1>1. ASSUME NEW S \in Stages
      PROVE  /\ OwedBytes(S)' = OwedBytes(S)
             /\ OwedBlocks(S)' = OwedBlocks(S)
             /\ OwedTotal(S)' = OwedTotal(S)
    <2>1. (pc'[t] \in S /\ pc[t] \in S /\ op'[t] = op[t]) \/ (pc'[t] \notin S /\ pc[t] \notin S)
        BY DEF Stages, ToBytes, ToBlocks, ToPoint, ToRow
    <2> QED
        BY <1>0, <2>1, OwedMoves DEF Deltas
<1>2. ASSUME NEW p PROVE PointOwesBytes(p)' = PointOwesBytes(p) /\ PointOwesBlocks(p)' = PointOwesBlocks(p)
    <2>1. (pc'[t] \in ToPoint /\ pc[t] \in ToPoint /\ op'[t] = op[t])
          \/ (pc'[t] \notin ToPoint /\ pc[t] \notin ToPoint)
        BY DEF ToBytes, ToBlocks, ToPoint, ToRow
    <2> QED
        BY <1>0, <2>1, PointOwedMoves DEF Deltas
<1>3. ASSUME NEW s PROVE RowOwes(s)' = RowOwes(s)
    <2>1. (pc'[t] \in ToRow /\ pc[t] \in ToRow /\ op'[t] = op[t])
          \/ (pc'[t] \notin ToRow /\ pc[t] \notin ToRow)
        BY DEF ToBytes, ToBlocks, ToPoint, ToRow
    <2> QED
        BY <1>0, <2>1, RowOwedMoves DEF Deltas
<1>4. TableBytes' = TableBytes /\ TableBlocks' = TableBlocks
    BY DEF TableBytes, TableBlocks, LiveBytes, LiveCount
<1>5. ASSUME NEW p PROVE PointBytes(p)' = PointBytes(p) /\ PointBlocks(p)' = PointBlocks(p)
    BY DEF PointBytes, PointBlocks, LiveBytes, LiveCount, OfPoint
<1>6. ASSUME NEW s PROVE SiteBytes(s)' = SiteBytes(s)
    BY DEF SiteBytes, LiveBytes, OfSite
<1>7. PointsBytes' = PointsBytes /\ PointsBlocks' = PointsBlocks /\ PointsTotal' = PointsTotal
    BY DEF PointsBytes, PointsBlocks, PointsTotal
<1>8. RowsBytes' = RowsBytes /\ RowsTotal' = RowsTotal
    BY DEF RowsBytes, RowsTotal
<1>9. ToBytes \in Stages /\ ToBlocks \in Stages /\ {"blocks", "point"} \in Stages /\ {"point"} \in Stages
      /\ {"blocks", "point", "row"} \in Stages /\ {"point", "row"} \in Stages
    BY DEF Stages
<1>10. Books'
    BY <1>1, <1>2, <1>3, <1>4, <1>5, <1>6, <1>9 DEF Books
<1>11. Shares'
    <2>1. OwedTotal(ToBlocks) \in Int
        BY OwedMoves
    <2>2. due' = total_blocks' + dropped_blocks' + OwedTotal(ToBlocks)'
        <3>1. due \in Int /\ due' \in Int /\ dropped_blocks \in Int /\ dropped_blocks' \in Int
              /\ total_blocks \in Int
            BY DEF TypeOK
        <3>2. due = total_blocks + dropped_blocks + OwedTotal(ToBlocks)
            BY DEF Shares
        <3>3. OwedTotal(ToBlocks)' = OwedTotal(ToBlocks)
            BY <1>1, <1>9
        <3> QED
            BY <2>1, <3>1, <3>2, <3>3
    <2> QED
        BY <1>1, <1>7, <1>8, <1>9, <2>2 DEF Shares
<1> QED
    BY <1>10, <1>11

\* An event begins: the table has changed, and every counter is owed as much.
LEMMA BooksBegin ==
    ASSUME TypeOK, TypeOK', Books, Shares, NEW t \in Threads,
           \A u \in Threads : u # t => pc'[u] = pc[u] /\ op'[u] = op[u],
           pc[t] = "idle", pc'[t] \in ToBytes,
           TableBytes' = TableBytes + op'[t].curr_bytes,
           TableBlocks' = TableBlocks + op'[t].curr_blocks,
           \A p \in Points :
              /\ PointBytes(p)' = PointBytes(p) + (IF op'[t].pp = p THEN op'[t].curr_bytes ELSE 0)
              /\ PointBlocks(p)' = PointBlocks(p)
                   + (IF op'[t].pp = p THEN op'[t].curr_blocks ELSE 0),
           \A s \in Threads :
              SiteBytes(s)' = SiteBytes(s) + (IF op'[t].site = s THEN op'[t].curr_bytes ELSE 0),
           UNCHANGED <<curr_bytes, curr_blocks, total_blocks, rows, pps>>,
           due' - dropped_blocks' = due - dropped_blocks + op'[t].total_blocks
    PROVE  Books' /\ Shares'
<1>0. op'[t] \in Deltas
    BY DEF TypeOK
<1>1. ASSUME NEW S, ToBytes \subseteq S, "idle" \notin S
      PROVE  /\ OwedBytes(S)' = OwedBytes(S) + op'[t].curr_bytes
             /\ OwedBlocks(S)' = OwedBlocks(S) + op'[t].curr_blocks
             /\ OwedTotal(S)' = OwedTotal(S) + op'[t].total_blocks
    BY <1>0, <1>1, OwedMoves DEF Deltas
<1>2. ASSUME NEW S, ToBytes \cap S = {}, "idle" \notin S
      PROVE  /\ OwedBytes(S)' = OwedBytes(S)
             /\ OwedBlocks(S)' = OwedBlocks(S)
             /\ OwedTotal(S)' = OwedTotal(S)
    BY <1>0, <1>2, OwedMoves DEF Deltas
<1>3. ASSUME NEW p PROVE
        /\ PointOwesBytes(p)' = PointOwesBytes(p) + (IF op'[t].pp = p THEN op'[t].curr_bytes ELSE 0)
        /\ PointOwesBlocks(p)' = PointOwesBlocks(p)
             + (IF op'[t].pp = p THEN op'[t].curr_blocks ELSE 0)
    BY <1>0, PointOwedMoves DEF Deltas, ToPoint, ToBlocks, ToBytes
<1>4. ASSUME NEW s PROVE
        RowOwes(s)' = RowOwes(s) + (IF op'[t].site = s THEN op'[t].curr_bytes ELSE 0)
    BY <1>0, RowOwedMoves DEF Deltas, ToRow, ToPoint, ToBlocks, ToBytes
<1>5. PointsBytes' = PointsBytes /\ PointsBlocks' = PointsBlocks /\ PointsTotal' = PointsTotal
      /\ RowsBytes' = RowsBytes /\ RowsTotal' = RowsTotal
    BY DEF PointsBytes, PointsBlocks, PointsTotal, RowsBytes, RowsTotal
<1>6. Books'
    <2>1. curr_bytes' + OwedBytes(ToBytes)' = TableBytes'
        <3>1. OwedBytes(ToBytes)' = OwedBytes(ToBytes) + op'[t].curr_bytes
            BY <1>1 DEF ToBytes
        <3>2. OwedBytes(ToBytes) \in Int
            BY OwedMoves
        <3> QED
            BY <1>0, <3>1, <3>2 DEF Books, TypeOK, Deltas
    <2>2. curr_blocks' + OwedBlocks(ToBlocks)' = TableBlocks'
        <3>1. OwedBlocks(ToBlocks)' = OwedBlocks(ToBlocks) + op'[t].curr_blocks
            BY <1>1 DEF ToBlocks, ToBytes
        <3>2. OwedBlocks(ToBlocks) \in Int
            BY OwedMoves
        <3> QED
            BY <1>0, <3>1, <3>2 DEF Books, TypeOK, Deltas
    <2>3. ASSUME NEW p \in Points
          PROVE  /\ pps'[p].curr_bytes + PointOwesBytes(p)' = PointBytes(p)'
                 /\ pps'[p].curr_blocks + PointOwesBlocks(p)' = PointBlocks(p)'
        <3>1. PointOwesBytes(p) \in Int /\ PointOwesBlocks(p) \in Int
            BY PointOwedMoves
        <3>2. pps[p] \in PointRecords
            BY DEF TypeOK
        <3>3. /\ pps[p].curr_bytes + PointOwesBytes(p) = PointBytes(p)
              /\ pps[p].curr_blocks + PointOwesBlocks(p) = PointBlocks(p)
            BY DEF Books
        <3> QED
            BY <1>0, <1>3, <3>1, <3>2, <3>3 DEF PointRecords, Deltas
    <2>4. ASSUME NEW s \in Threads PROVE rows'[s].curr_bytes + RowOwes(s)' = SiteBytes(s)'
        <3>1. RowOwes(s) \in Int
            BY RowOwedMoves
        <3>2. rows[s].curr_bytes \in Int
            BY DEF TypeOK
        <3>3. rows[s].curr_bytes + RowOwes(s) = SiteBytes(s)
            BY DEF Books
        <3> QED
            BY <1>0, <1>4, <3>1, <3>2, <3>3 DEF Deltas
    <2> QED
        BY <2>1, <2>2, <2>3, <2>4 DEF Books
<1>7. Shares'
    <2>1. /\ OwedBytes({"blocks", "point"})' = OwedBytes({"blocks", "point"})
          /\ OwedBlocks({"point"})' = OwedBlocks({"point"})
          /\ OwedTotal({"point"})' = OwedTotal({"point"})
          /\ OwedBytes({"blocks", "point", "row"})' = OwedBytes({"blocks", "point", "row"})
          /\ OwedTotal({"point", "row"})' = OwedTotal({"point", "row"})
        BY <1>2 DEF ToBytes
    <2>2. due' = total_blocks' + dropped_blocks' + OwedTotal(ToBlocks)'
        <3>1. OwedTotal(ToBlocks)' = OwedTotal(ToBlocks) + op'[t].total_blocks
            BY <1>1 DEF ToBlocks, ToBytes
        <3>2. OwedTotal(ToBlocks) \in Int
            BY OwedMoves
        <3>3. due \in Int /\ due' \in Int /\ dropped_blocks \in Int /\ dropped_blocks' \in Int
              /\ total_blocks \in Int /\ op'[t].total_blocks \in Int
            BY <1>0 DEF TypeOK, Deltas
        <3>4. due = total_blocks + dropped_blocks + OwedTotal(ToBlocks)
            BY DEF Shares
        <3> QED
            BY <3>1, <3>2, <3>3, <3>4
    <2> QED
        BY <1>5, <2>1, <2>2 DEF Shares
<1> QED
    BY <1>6, <1>7


\* An event whose bytes are still to be counted does not bring the counter
\* below zero.
LEMMA BytesNotShort ==
    ASSUME TypeOK, TypeOK', Hands', Books, NEW t \in Threads,
           \A u \in Threads : u # t => pc'[u] = pc[u], op' = op, live' = live,
           pc[t] \in ToBytes, pc'[t] = "blocks"
    PROVE  0 <= curr_bytes + op[t].curr_bytes
<1>1. op[t].curr_bytes \in Int /\ curr_bytes \in Int
    BY DEF TypeOK, Deltas
<1>2. /\ OwedBytes(ToBytes) \in Int
      /\ OwedBytes(ToBytes)' = OwedBytes(ToBytes) - op[t].curr_bytes
    BY <1>1, OwedMoves DEF ToBytes
<1>3. OwedBytes(ToBytes)' <= TableBytes'
    BY BytesCovered
<1>4. TableBytes' = TableBytes
    BY DEF TableBytes, LiveBytes
<1>5. curr_bytes + OwedBytes(ToBytes) = TableBytes
    BY DEF Books
<1> QED
    BY <1>1, <1>2, <1>3, <1>4, <1>5

\* The block counter is not brought below zero either.
LEMMA BlocksNotShort ==
    ASSUME TypeOK, TypeOK', Hands', Books, NEW t \in Threads,
           \A u \in Threads : u # t => pc'[u] = pc[u] /\ op'[u] = op[u],
           live' = live, pc[t] = "blocks", pc'[t] = "point"
    PROVE  0 <= curr_blocks + op[t].curr_blocks
<1>1. op[t].curr_blocks \in Int /\ op'[t].curr_blocks \in Int /\ curr_blocks \in Int
    BY DEF TypeOK, Deltas
<1>2. /\ OwedBlocks(ToBlocks) \in Int
      /\ OwedBlocks(ToBlocks)' = OwedBlocks(ToBlocks) - op[t].curr_blocks
    BY <1>1, OwedMoves DEF ToBlocks, ToBytes
<1>3. OwedBlocks(ToBlocks)' <= TableBlocks'
    BY BlocksCovered
<1>4. TableBlocks' = TableBlocks
    BY DEF TableBlocks, LiveCount
<1>5. curr_blocks + OwedBlocks(ToBlocks) = TableBlocks
    BY DEF Books
<1> QED
    BY <1>1, <1>2, <1>3, <1>4, <1>5

\* Neither is a point's record.
LEMMA PointNotShort ==
    ASSUME TypeOK, TypeOK', Hands', Books, NEW t \in Threads, NEW p \in Points, op[t].pp = p,
           \A u \in Threads : u # t => pc'[u] = pc[u], op' = op, live' = live,
           pc[t] = "point", pc'[t] = "row"
    PROVE  0 <= pps[p].curr_bytes + op[t].curr_bytes /\ 0 <= pps[p].curr_blocks + op[t].curr_blocks
<1>1. /\ op[t].curr_bytes \in Int /\ op[t].curr_blocks \in Int
      /\ pps[p].curr_bytes \in Int /\ pps[p].curr_blocks \in Int
    BY DEF TypeOK, Deltas, PointRecords
<1>2. /\ PointOwesBytes(p) \in Int /\ PointOwesBlocks(p) \in Int
      /\ PointOwesBytes(p)' = PointOwesBytes(p) - op[t].curr_bytes
      /\ PointOwesBlocks(p)' = PointOwesBlocks(p) - op[t].curr_blocks
    BY <1>1, PointOwedMoves DEF ToPoint, ToBlocks, ToBytes
<1>3. PointOwesBytes(p)' <= PointBytes(p)' /\ PointOwesBlocks(p)' <= PointBlocks(p)'
    BY PointBytesCovered, PointBlocksCovered
<1>4. PointBytes(p)' = PointBytes(p) /\ PointBlocks(p)' = PointBlocks(p)
    BY DEF PointBytes, PointBlocks, LiveBytes, LiveCount, OfPoint
<1>5. /\ pps[p].curr_bytes + PointOwesBytes(p) = PointBytes(p)
      /\ pps[p].curr_blocks + PointOwesBlocks(p) = PointBlocks(p)
    BY DEF Books
<1> QED
    BY <1>1, <1>2, <1>3, <1>4, <1>5

\* A row never shows fewer than no bytes.
LEMMA RowsNotShort ==
    ASSUME TypeOK, Hands, Books, NEW s \in Threads
    PROVE  rows[s].curr_bytes >= 0
<1>1. rows[s].curr_bytes \in Int
    BY DEF TypeOK
<1>2. RowOwes(s) <= SiteBytes(s) /\ rows[s].curr_bytes + RowOwes(s) = SiteBytes(s)
    BY RowCovered DEF Books
<1>3. RowOwes(s) \in Int
    <2> DEFINE f == [t \in Threads |-> IF pc[t] \in ToRow /\ op[t].site = s
                 THEN op[t].curr_bytes ELSE 0]
    <2>1. f \in [Threads -> Int]
        BY DEF TypeOK, Deltas
    <2>2. RowOwes(s) = SumFunction(f)
        BY DEF RowOwes
    <2> HIDE DEF f
    <2> QED
        BY <2>1, <2>2, FiniteAssumption, SumIsInt
<1> QED
    BY <1>1, <1>2, <1>3

\* An event's bytes are counted.
LEMMA BooksBytes ==
    ASSUME TypeOK, TypeOK', Books, Shares, NEW t \in Threads,
           \A u \in Threads : u # t => pc'[u] = pc[u], op' = op, live' = live,
           pc[t] \in ToBytes, pc'[t] = "blocks",
           curr_bytes' = curr_bytes + op[t].curr_bytes,
           UNCHANGED <<curr_blocks, total_blocks, pps, rows, due, dropped_blocks>>
    PROVE  Books' /\ Shares'
<1>0. op[t].curr_bytes \in Int /\ op[t].curr_blocks \in Int /\ op[t].total_blocks \in Int
      /\ curr_bytes \in Int
    BY DEF TypeOK, Deltas
<1>1. /\ OwedBytes(ToBytes)' = OwedBytes(ToBytes) - op[t].curr_bytes
      /\ OwedBytes({"blocks", "point"})' = OwedBytes({"blocks", "point"}) + op[t].curr_bytes
      /\ OwedBytes({"blocks", "point", "row"})' = OwedBytes({"blocks", "point", "row"}) + op[t].curr_bytes
    BY <1>0, OwedMoves DEF ToBytes
<1>2. /\ OwedBlocks(ToBlocks)' = OwedBlocks(ToBlocks)
      /\ OwedBlocks({"point"})' = OwedBlocks({"point"})
      /\ OwedTotal({"point"})' = OwedTotal({"point"})
      /\ OwedTotal({"point", "row"})' = OwedTotal({"point", "row"})
      /\ OwedTotal(ToBlocks)' = OwedTotal(ToBlocks)
    BY <1>0, OwedMoves DEF ToBlocks, ToBytes
<1>3. ASSUME NEW p PROVE PointOwesBytes(p)' = PointOwesBytes(p) /\ PointOwesBlocks(p)' = PointOwesBlocks(p)
    BY <1>0, PointOwedMoves DEF ToPoint, ToBlocks, ToBytes
<1>4. ASSUME NEW s PROVE RowOwes(s)' = RowOwes(s)
    BY <1>0, RowOwedMoves DEF ToRow, ToPoint, ToBlocks, ToBytes
<1>5. /\ TableBytes' = TableBytes /\ TableBlocks' = TableBlocks
      /\ \A p : PointBytes(p)' = PointBytes(p) /\ PointBlocks(p)' = PointBlocks(p)
      /\ \A s : SiteBytes(s)' = SiteBytes(s)
    BY DEF TableBytes, TableBlocks, PointBytes, PointBlocks, SiteBytes, LiveBytes, LiveCount,
        OfPoint, OfSite
<1>6. PointsBytes' = PointsBytes /\ PointsBlocks' = PointsBlocks /\ PointsTotal' = PointsTotal
      /\ RowsBytes' = RowsBytes /\ RowsTotal' = RowsTotal
    BY DEF PointsBytes, PointsBlocks, PointsTotal, RowsBytes, RowsTotal
<1>7. /\ OwedBytes(ToBytes) \in Int /\ OwedBytes({"blocks", "point"}) \in Int
      /\ OwedBytes({"blocks", "point", "row"}) \in Int
    BY OwedMoves
<1>8. PointsBytes \in Int /\ RowsBytes \in Int
    <2>1. PointsBytes \in Int
        BY FiniteAssumption, SumIsInt DEF PointsBytes, TypeOK, PointRecords
    <2>2. RowsBytes \in Int
        BY FiniteAssumption, SumIsInt DEF RowsBytes, TypeOK
    <2> QED
        BY <2>1, <2>2
<1>9. Books'
    BY <1>0, <1>1, <1>2, <1>3, <1>4, <1>5, <1>7 DEF Books
<1>10. Shares'
    BY <1>0, <1>1, <1>2, <1>6, <1>7, <1>8 DEF Shares
<1> QED
    BY <1>9, <1>10

\* Its blocks, and the request.
LEMMA BooksBlocks ==
    ASSUME TypeOK, TypeOK', Books, Shares, NEW t \in Threads,
           \A u \in Threads : u # t => pc'[u] = pc[u] /\ op'[u] = op[u],
           op'[t].pp = op[t].pp, op'[t].site = op[t].site, op'[t].curr_bytes = op[t].curr_bytes,
           op'[t].curr_blocks = op[t].curr_blocks, op'[t].total_blocks = op[t].total_blocks,
           live' = live, pc[t] = "blocks", pc'[t] = "point",
           curr_blocks' = curr_blocks + op[t].curr_blocks,
           total_blocks' = total_blocks + op[t].total_blocks,
           UNCHANGED <<curr_bytes, pps, rows, due, dropped_blocks>>
    PROVE  Books' /\ Shares'
<1>0. op[t].curr_bytes \in Int /\ op[t].curr_blocks \in Int /\ op[t].total_blocks \in Int
      /\ curr_blocks \in Int /\ total_blocks \in Int /\ dropped_blocks \in Int
    BY DEF TypeOK, Deltas
<1>1. /\ OwedBlocks(ToBlocks)' = OwedBlocks(ToBlocks) - op[t].curr_blocks
      /\ OwedTotal(ToBlocks)' = OwedTotal(ToBlocks) - op[t].total_blocks
      /\ OwedBlocks({"point"})' = OwedBlocks({"point"}) + op[t].curr_blocks
      /\ OwedTotal({"point"})' = OwedTotal({"point"}) + op[t].total_blocks
      /\ OwedTotal({"point", "row"})' = OwedTotal({"point", "row"}) + op[t].total_blocks
    BY <1>0, OwedMoves DEF ToBlocks, ToBytes
<1>2. /\ OwedBytes(ToBytes)' = OwedBytes(ToBytes)
      /\ OwedBytes({"blocks", "point"})' = OwedBytes({"blocks", "point"})
      /\ OwedBytes({"blocks", "point", "row"})' = OwedBytes({"blocks", "point", "row"})
    BY <1>0, OwedMoves DEF ToBytes
<1>3. ASSUME NEW p PROVE PointOwesBytes(p)' = PointOwesBytes(p) /\ PointOwesBlocks(p)' = PointOwesBlocks(p)
    BY <1>0, PointOwedMoves DEF ToPoint, ToBlocks, ToBytes
<1>4. ASSUME NEW s PROVE RowOwes(s)' = RowOwes(s)
    BY <1>0, RowOwedMoves DEF ToRow, ToPoint, ToBlocks, ToBytes
<1>5. /\ TableBytes' = TableBytes /\ TableBlocks' = TableBlocks
      /\ \A p : PointBytes(p)' = PointBytes(p) /\ PointBlocks(p)' = PointBlocks(p)
      /\ \A s : SiteBytes(s)' = SiteBytes(s)
    BY DEF TableBytes, TableBlocks, PointBytes, PointBlocks, SiteBytes, LiveBytes, LiveCount,
        OfPoint, OfSite
<1>6. PointsBytes' = PointsBytes /\ PointsBlocks' = PointsBlocks /\ PointsTotal' = PointsTotal
      /\ RowsBytes' = RowsBytes /\ RowsTotal' = RowsTotal
    BY DEF PointsBytes, PointsBlocks, PointsTotal, RowsBytes, RowsTotal
<1>7. /\ OwedBlocks(ToBlocks) \in Int /\ OwedTotal(ToBlocks) \in Int
      /\ OwedBlocks({"point"}) \in Int /\ OwedTotal({"point"}) \in Int
      /\ OwedTotal({"point", "row"}) \in Int
    BY OwedMoves
<1>8. PointsBlocks \in Int /\ PointsTotal \in Int /\ RowsTotal \in Int
    <2>1. PointsBlocks \in Int /\ PointsTotal \in Int
        BY FiniteAssumption, SumIsInt DEF PointsBlocks, PointsTotal, TypeOK, PointRecords
    <2>2. RowsTotal \in Int
        BY FiniteAssumption, SumIsInt DEF RowsTotal, TypeOK
    <2> QED
        BY <2>1, <2>2
<1>9. Books'
    BY <1>0, <1>1, <1>2, <1>3, <1>4, <1>5, <1>7 DEF Books
<1>10. Shares'
    BY <1>0, <1>1, <1>2, <1>6, <1>7, <1>8 DEF Shares
<1> QED
    BY <1>9, <1>10

\* Its point's record.
LEMMA BooksPoint ==
    ASSUME TypeOK, TypeOK', Books, Shares, NEW t \in Threads, NEW p \in Points, op[t].pp = p,
           \A u \in Threads : u # t => pc'[u] = pc[u], op' = op, live' = live,
           pc[t] = "point", pc'[t] = "row",
           \A q \in Points : q # p => pps'[q] = pps[q],
           pps'[p].curr_bytes = pps[p].curr_bytes + op[t].curr_bytes,
           pps'[p].curr_blocks = pps[p].curr_blocks + op[t].curr_blocks,
           pps'[p].total_blocks = pps[p].total_blocks + op[t].total_blocks,
           UNCHANGED <<curr_bytes, curr_blocks, total_blocks, rows, due, dropped_blocks>>
    PROVE  Books' /\ Shares'
<1>0. /\ op[t].curr_bytes \in Int /\ op[t].curr_blocks \in Int /\ op[t].total_blocks \in Int
      /\ pps[p].curr_bytes \in Int /\ pps[p].curr_blocks \in Int /\ pps[p].total_blocks \in Int
    BY DEF TypeOK, Deltas, PointRecords
<1>1. /\ OwedBytes({"blocks", "point"})' = OwedBytes({"blocks", "point"}) - op[t].curr_bytes
      /\ OwedBlocks({"point"})' = OwedBlocks({"point"}) - op[t].curr_blocks
      /\ OwedTotal({"point"})' = OwedTotal({"point"}) - op[t].total_blocks
    BY <1>0, OwedMoves
<1>2. /\ OwedBytes(ToBytes)' = OwedBytes(ToBytes)
      /\ OwedBlocks(ToBlocks)' = OwedBlocks(ToBlocks)
      /\ OwedTotal(ToBlocks)' = OwedTotal(ToBlocks)
      /\ OwedBytes({"blocks", "point", "row"})' = OwedBytes({"blocks", "point", "row"})
      /\ OwedTotal({"point", "row"})' = OwedTotal({"point", "row"})
    BY <1>0, OwedMoves DEF ToBlocks, ToBytes
<1>3. ASSUME NEW q \in Points
      PROVE  /\ pps'[q].curr_bytes + PointOwesBytes(q)' = PointBytes(q)'
             /\ pps'[q].curr_blocks + PointOwesBlocks(q)' = PointBlocks(q)'
    <2>1. /\ PointOwesBytes(q) \in Int /\ PointOwesBlocks(q) \in Int
          /\ PointOwesBytes(q)' = PointOwesBytes(q) - (IF q = p THEN op[t].curr_bytes ELSE 0)
          /\ PointOwesBlocks(q)' = PointOwesBlocks(q) - (IF q = p THEN op[t].curr_blocks ELSE 0)
        BY <1>0, PointOwedMoves DEF ToPoint, ToBlocks, ToBytes
    <2>2. PointBytes(q)' = PointBytes(q) /\ PointBlocks(q)' = PointBlocks(q)
        BY DEF PointBytes, PointBlocks, LiveBytes, LiveCount, OfPoint
    <2>3. /\ pps[q].curr_bytes + PointOwesBytes(q) = PointBytes(q)
          /\ pps[q].curr_blocks + PointOwesBlocks(q) = PointBlocks(q)
        BY DEF Books
    <2> QED
        BY <1>0, <2>1, <2>2, <2>3
<1>4. ASSUME NEW s PROVE RowOwes(s)' = RowOwes(s)
    BY <1>0, RowOwedMoves DEF ToRow, ToPoint, ToBlocks, ToBytes
<1>5. /\ TableBytes' = TableBytes /\ TableBlocks' = TableBlocks
      /\ \A s : SiteBytes(s)' = SiteBytes(s)
    BY DEF TableBytes, TableBlocks, SiteBytes, LiveBytes, LiveCount, OfSite
<1>6. /\ PointsBytes' = PointsBytes + op[t].curr_bytes
      /\ PointsBlocks' = PointsBlocks + op[t].curr_blocks
      /\ PointsTotal' = PointsTotal + op[t].total_blocks
      /\ PointsBytes \in Int /\ PointsBlocks \in Int /\ PointsTotal \in Int
    BY <1>0, PointsMove
<1>7. RowsBytes' = RowsBytes /\ RowsTotal' = RowsTotal
    BY DEF RowsBytes, RowsTotal
<1>8. /\ OwedBytes({"blocks", "point"}) \in Int /\ OwedBlocks({"point"}) \in Int
      /\ OwedTotal({"point"}) \in Int
    BY OwedMoves
<1>9. Books'
    BY <1>2, <1>3, <1>4, <1>5 DEF Books
<1>10. Shares'
    BY <1>0, <1>1, <1>2, <1>6, <1>7, <1>8 DEF Shares
<1> QED
    BY <1>9, <1>10

\* And the row of the thread it is charged to.
LEMMA BooksRow ==
    ASSUME TypeOK, TypeOK', Books, Shares, NEW t \in Threads, NEW s \in Threads, op[t].site = s,
           \A u \in Threads : u # t => pc'[u] = pc[u], op' = op, live' = live,
           pc[t] = "row", pc'[t] = "leave",
           \A q \in Threads : q # s => rows'[q] = rows[q],
           rows'[s].curr_bytes = rows[s].curr_bytes + op[t].curr_bytes,
           rows'[s].total_blocks = rows[s].total_blocks + op[t].total_blocks,
           UNCHANGED <<curr_bytes, curr_blocks, total_blocks, pps, due, dropped_blocks>>
    PROVE  Books' /\ Shares'
<1>0. /\ op[t].curr_bytes \in Int /\ op[t].curr_blocks \in Int /\ op[t].total_blocks \in Int
      /\ rows[s].curr_bytes \in Int /\ rows[s].total_blocks \in Int
    BY DEF TypeOK, Deltas
<1>1. /\ OwedBytes({"blocks", "point", "row"})' = OwedBytes({"blocks", "point", "row"}) - op[t].curr_bytes
      /\ OwedTotal({"point", "row"})' = OwedTotal({"point", "row"}) - op[t].total_blocks
    BY <1>0, OwedMoves
<1>2. /\ OwedBytes(ToBytes)' = OwedBytes(ToBytes)
      /\ OwedBlocks(ToBlocks)' = OwedBlocks(ToBlocks)
      /\ OwedTotal(ToBlocks)' = OwedTotal(ToBlocks)
      /\ OwedBytes({"blocks", "point"})' = OwedBytes({"blocks", "point"})
      /\ OwedBlocks({"point"})' = OwedBlocks({"point"})
      /\ OwedTotal({"point"})' = OwedTotal({"point"})
    BY <1>0, OwedMoves DEF ToBlocks, ToBytes
<1>3. ASSUME NEW p PROVE PointOwesBytes(p)' = PointOwesBytes(p) /\ PointOwesBlocks(p)' = PointOwesBlocks(p)
    BY <1>0, PointOwedMoves DEF ToPoint, ToBlocks, ToBytes
<1>4. ASSUME NEW q \in Threads PROVE rows'[q].curr_bytes + RowOwes(q)' = SiteBytes(q)'
    <2>1. /\ RowOwes(q) \in Int
          /\ RowOwes(q)' = RowOwes(q) - (IF q = s THEN op[t].curr_bytes ELSE 0)
        BY <1>0, RowOwedMoves DEF ToRow, ToPoint, ToBlocks, ToBytes
    <2>2. SiteBytes(q)' = SiteBytes(q)
        BY DEF SiteBytes, LiveBytes, OfSite
    <2>3. rows[q].curr_bytes + RowOwes(q) = SiteBytes(q)
        BY DEF Books
    <2> QED
        BY <1>0, <2>1, <2>2, <2>3
<1>5. /\ TableBytes' = TableBytes /\ TableBlocks' = TableBlocks
      /\ \A p : PointBytes(p)' = PointBytes(p) /\ PointBlocks(p)' = PointBlocks(p)
    BY DEF TableBytes, TableBlocks, PointBytes, PointBlocks, LiveBytes, LiveCount, OfPoint
<1>6. /\ RowsBytes' = RowsBytes + op[t].curr_bytes
      /\ RowsTotal' = RowsTotal + op[t].total_blocks
      /\ RowsBytes \in Int /\ RowsTotal \in Int
    BY <1>0, RowsMove
<1>7. PointsBytes' = PointsBytes /\ PointsBlocks' = PointsBlocks /\ PointsTotal' = PointsTotal
    BY DEF PointsBytes, PointsBlocks, PointsTotal
<1>8. OwedBytes({"blocks", "point", "row"}) \in Int /\ OwedTotal({"point", "row"}) \in Int
    BY OwedMoves
<1>9. Books'
    BY <1>2, <1>3, <1>4, <1>5 DEF Books
<1>10. Shares'
    BY <1>0, <1>1, <1>2, <1>6, <1>7, <1>8 DEF Shares
<1> QED
    BY <1>9, <1>10

\* Nothing is owed at stages where nobody is.
LEMMA NothingOwed ==
    ASSUME NEW S, \A t \in Threads : pc[t] \notin S
    PROVE  OwedBytes(S) = 0 /\ OwedBlocks(S) = 0 /\ OwedTotal(S) = 0
<1>1. /\ [t \in Threads |-> IF pc[t] \in S THEN op[t].curr_bytes ELSE 0] = [t \in Threads |-> 0]
      /\ [t \in Threads |-> IF pc[t] \in S THEN op[t].curr_blocks ELSE 0] = [t \in Threads |-> 0]
      /\ [t \in Threads |-> IF pc[t] \in S THEN op[t].total_blocks ELSE 0] = [t \in Threads |-> 0]
    OBVIOUS
<1> QED
    BY <1>1, FiniteAssumption, SumOfZeros DEF OwedBytes, OwedBlocks, OwedTotal

\* The holder of the whole gate that is not between two counters finds every
\* counter equal to the sum of its shares.
LEMMA HolderFindsSums ==
    ASSUME TypeOK, Control, Shares,
           \/ readers = {} /\ writer = NoThread
           \/ \E t \in Threads : writer = t /\ pc[t] \notin {"blocks", "point", "row"}
    PROVE  /\ curr_bytes = PointsBytes /\ curr_blocks = PointsBlocks /\ total_blocks = PointsTotal
           /\ curr_bytes = RowsBytes /\ total_blocks = RowsTotal
           /\ due = total_blocks + dropped_blocks + OwedTotal(ToBlocks)
           /\ \A u \in Threads : pc[u] \notin {"blocks", "point", "row"}
<1>1. \A u \in Threads : pc[u] \notin {"blocks", "point", "row"}
    BY NoThreadAssumption DEF Control, GateExclusion, Places, Counting
<1>2. /\ OwedBytes({"blocks", "point"}) = 0 /\ OwedBlocks({"point"}) = 0
      /\ OwedTotal({"point"}) = 0 /\ OwedBytes({"blocks", "point", "row"}) = 0
      /\ OwedTotal({"point", "row"}) = 0
    BY <1>1, NothingOwed
<1>3. PointsBytes \in Int /\ PointsBlocks \in Int /\ PointsTotal \in Int
    BY FiniteAssumption, SumIsInt DEF PointsBytes, PointsBlocks, PointsTotal, TypeOK, PointRecords
<1>4. RowsBytes \in Int /\ RowsTotal \in Int
    BY FiniteAssumption, SumIsInt DEF RowsBytes, RowsTotal, TypeOK
<1> QED
    BY <1>1, <1>2, <1>3, <1>4 DEF Shares

\* A copy of the points' live counts sums to the live counts.
LEMMA SweepSums ==
    ASSUME TypeOK, sweep' = [p \in Points |-> Counts(pps[p])]
    PROVE  SweptBytes' = PointsBytes /\ SweptBlocks' = PointsBlocks
<1>1. /\ [p \in Points |-> sweep'[p].bytes] = [p \in Points |-> pps[p].curr_bytes]
      /\ [p \in Points |-> sweep'[p].blocks] = [p \in Points |-> pps[p].curr_blocks]
    BY DEF Counts
<1> QED
    BY <1>1 DEF SweptBytes, SweptBlocks, PointsBytes, PointsBlocks

\* A restart begins the totals again, everywhere, and touches nothing that is
\* live.
LEMMA BooksRestart ==
    ASSUME TypeOK, TypeOK', Control, Books, Shares, NEW t \in Threads, writer = t,
           \A u \in Threads : u # t => pc'[u] = pc[u], op' = op, live' = live,
           pc[t] = "reset", pc'[t] = "idle",
           total_blocks' = 0, due' = due - total_blocks,
           \A p \in Points : /\ pps'[p].curr_bytes = pps[p].curr_bytes
                             /\ pps'[p].curr_blocks = pps[p].curr_blocks
                             /\ pps'[p].total_blocks = 0,
           \A s \in Threads : /\ rows'[s].curr_bytes = rows[s].curr_bytes
                              /\ rows'[s].total_blocks = 0,
           UNCHANGED <<curr_bytes, curr_blocks, dropped_blocks>>
    PROVE  Books' /\ Shares'
<1>0. /\ op[t].curr_bytes \in Int /\ op[t].curr_blocks \in Int /\ op[t].total_blocks \in Int
      /\ total_blocks \in Int /\ dropped_blocks \in Int /\ due \in Int
    BY DEF TypeOK, Deltas
<1>1. ASSUME NEW S \in Stages
      PROVE  /\ OwedBytes(S)' = OwedBytes(S)
             /\ OwedBlocks(S)' = OwedBlocks(S)
             /\ OwedTotal(S)' = OwedTotal(S)
    <2>1. pc'[t] \notin S /\ pc[t] \notin S
        BY DEF Stages, ToBytes, ToBlocks, ToPoint, ToRow
    <2> QED
        BY <1>0, <2>1, OwedMoves
<1>2. ASSUME NEW p PROVE PointOwesBytes(p)' = PointOwesBytes(p) /\ PointOwesBlocks(p)' = PointOwesBlocks(p)
    BY <1>0, PointOwedMoves DEF ToPoint, ToBlocks, ToBytes
<1>3. ASSUME NEW s PROVE RowOwes(s)' = RowOwes(s)
    BY <1>0, RowOwedMoves DEF ToRow, ToPoint, ToBlocks, ToBytes
<1>4. /\ TableBytes' = TableBytes /\ TableBlocks' = TableBlocks
      /\ \A p : PointBytes(p)' = PointBytes(p) /\ PointBlocks(p)' = PointBlocks(p)
      /\ \A s : SiteBytes(s)' = SiteBytes(s)
    BY DEF TableBytes, TableBlocks, PointBytes, PointBlocks, SiteBytes, LiveBytes, LiveCount,
        OfPoint, OfSite
<1>5. ToBytes \in Stages /\ ToBlocks \in Stages /\ {"blocks", "point"} \in Stages /\ {"point"} \in Stages
      /\ {"blocks", "point", "row"} \in Stages /\ {"point", "row"} \in Stages
    BY DEF Stages
<1>6. PointsBytes' = PointsBytes /\ PointsBlocks' = PointsBlocks /\ RowsBytes' = RowsBytes
    BY DEF PointsBytes, PointsBlocks, RowsBytes
<1>7. PointsTotal' = 0 /\ RowsTotal' = 0
    <2>1. /\ [p \in Points |-> pps'[p].total_blocks] = [p \in Points |-> 0]
          /\ [s \in Threads |-> rows'[s].total_blocks] = [s \in Threads |-> 0]
        OBVIOUS
    <2> QED
        BY <2>1, FiniteAssumption, SumOfZeros DEF PointsTotal, RowsTotal
<1>8. /\ OwedTotal({"point"}) = 0 /\ OwedTotal({"point", "row"}) = 0
      /\ due = total_blocks + dropped_blocks + OwedTotal(ToBlocks)
    <2>1. \A u \in Threads : pc[u] \notin {"blocks", "point", "row"}
        BY HolderFindsSums
    <2> QED
        BY <2>1, NothingOwed DEF Shares
<1>9. OwedTotal(ToBlocks) \in Int
    BY OwedMoves
<1>10. Books'
    BY <1>1, <1>2, <1>3, <1>4, <1>5 DEF Books
<1>11. due' = total_blocks' + dropped_blocks' + OwedTotal(ToBlocks)'
    BY <1>0, <1>1, <1>5, <1>8, <1>9
<1>12. Shares'
    BY <1>1, <1>5, <1>6, <1>7, <1>8, <1>11 DEF Shares
<1> QED
    BY <1>10, <1>12

-----------------------------------------------------------------------------
(* The parts of Kept, and the steps that only walk *)

\* A thread takes up or gives up an event, and the entry it is about.
LEMMA HandsMove ==
    ASSUME Hands, NEW t \in Threads,
           \A u \in Threads : u # t => pc'[u] = pc[u] /\ op'[u] = op[u],
           pc'[t] \notin Recording => op'[t] = NoDelta(t),
           op'[t].block = None => op'[t].curr_bytes = 0 /\ op'[t].curr_blocks = 0,
           op'[t].block # None =>
              /\ \A u \in Threads : u # t => op[u].block # op'[t].block
              /\ FitsEntry(t)',
           \A u \in Threads : u # t => live'[op[u].block] = live[op[u].block]
    PROVE  Hands'
<1>1. \A u \in Threads : pc'[u] \notin Recording => op'[u] = NoDelta(u)
    BY DEF Hands
<1>2. \A u, v \in Threads : op'[u].block = op'[v].block /\ op'[u].block # None => u = v
    BY DEF Hands
<1>3. \A u \in Threads : op'[u].block = None => op'[u].curr_bytes = 0 /\ op'[u].curr_blocks = 0
    BY DEF Hands
<1>4. ASSUME NEW u \in Threads, op'[u].block # None
      PROVE  FitsEntry(u)'
    <2>1. CASE u = t
        BY <1>4, <2>1
    <2>2. CASE u # t
        BY <1>4, <2>2 DEF Hands, FitsEntry, LiveBytes, LiveCount
    <2> QED
        BY <2>1, <2>2
<1> QED
    BY <1>1, <1>2, <1>3, <1>4 DEF Hands

\* A thread goes on with its event.
LEMMA HandsFrame ==
    ASSUME Hands, op' = op, live' = live,
           \A u \in Threads : pc'[u] \notin Recording => pc'[u] = pc[u] \/ pc[u] \notin Recording
    PROVE  Hands'
<1>1. \A u \in Threads : pc'[u] \notin Recording => op'[u] = NoDelta(u)
    BY DEF Hands
<1>2. \A u \in Threads : op'[u].block # None => FitsEntry(u)'
    BY DEF Hands, FitsEntry, LiveBytes, LiveCount
<1> QED
    BY <1>1, <1>2 DEF Hands

\* The stages at which the event of the exclusive holder knows the live blocks.
Counted == {"point", "row", "leave", "bump"}

\* What the peak was does not move with steps that leave it alone.
LEMMA PeakStays ==
    ASSUME PeakKept,
           \A u \in Threads : pc'[u] = "bump" <=> pc[u] = "bump",
           UNCHANGED <<sweep, max_bytes, max_blocks>>,
           UNCHANGED <<curr_bytes, curr_blocks>> \/ ~Raising,
           \A u \in Threads : writer' = u /\ pc'[u] \in Counted => op'[u].next_blocks = curr_blocks'
    PROVE  PeakKept'
<1>1. SweptBytes' = SweptBytes /\ SweptBlocks' = SweptBlocks
    BY DEF SweptBytes, SweptBlocks
<1>2. Raising' <=> Raising
    BY DEF Raising, At
<1>3. \A u \in Threads : pc'[u] = "bump" => max_bytes' = curr_bytes' /\ max_blocks' = curr_blocks'
    BY DEF PeakKept, Raising, At
<1> QED
    BY <1>1, <1>2, <1>3 DEF PeakKept, Counted

\* A refreshed record covers what it covered; a changed and a restarted one do.
CoversIt(r) == r.curr_bytes <= r.max_bytes /\ r.at_gmax_bytes <= r.max_bytes

\* A point's own maximum still covers its counts after a refresh.
LEMMA RefreshedCovers ==
    ASSUME NEW r \in PointRecords, NEW e \in Nat, CoversIt(r)
    PROVE  CoversIt(Refresh(r, e)) /\ Refresh(r, e).total_blocks = r.total_blocks
BY DEF CoversIt, Refresh, PointRecords

\* It still does after a change.
LEMMA AppliedCovers ==
    ASSUME NEW r \in PointRecords, NEW d \in Deltas, CoversIt(r),
           0 <= r.curr_bytes + d.curr_bytes, 0 <= r.curr_blocks + d.curr_blocks
    PROVE  /\ CoversIt(Apply(r, d))
           /\ Apply(r, d).curr_bytes = r.curr_bytes + d.curr_bytes
           /\ Apply(r, d).curr_blocks = r.curr_blocks + d.curr_blocks
           /\ Apply(r, d).total_blocks = r.total_blocks + d.total_blocks
<1> DEFINE bytes  == r.curr_bytes + d.curr_bytes
           blocks == r.curr_blocks + d.curr_blocks
<1>1. bytes \in Nat /\ blocks \in Nat /\ r.max_bytes \in Nat /\ r.at_gmax_bytes \in Nat
    BY DEF PointRecords, Deltas
<1>2. Checked(bytes) = bytes /\ Checked(blocks) = blocks
    BY <1>1 DEF Checked
<1>3. Apply(r, d) = [r EXCEPT !.curr_bytes = bytes, !.curr_blocks = blocks,
                             !.max_bytes = Larger(r.max_bytes, bytes),
                             !.total_blocks = r.total_blocks + d.total_blocks]
    BY <1>2, Zenon DEF Apply
<1>4. r.max_bytes <= Larger(r.max_bytes, bytes) /\ bytes <= Larger(r.max_bytes, bytes)
      /\ Larger(r.max_bytes, bytes) \in Nat
    BY <1>1 DEF Larger
<1> HIDE DEF bytes, blocks
<1>5. /\ Apply(r, d).curr_bytes = bytes /\ Apply(r, d).curr_blocks = blocks
      /\ Apply(r, d).max_bytes = Larger(r.max_bytes, bytes)
      /\ Apply(r, d).at_gmax_bytes = r.at_gmax_bytes
      /\ Apply(r, d).total_blocks = r.total_blocks + d.total_blocks
    BY <1>3 DEF PointRecords
<1>6. CoversIt(Apply(r, d))
    BY <1>1, <1>4, <1>5 DEF CoversIt
<1> QED
    BY <1>5, <1>6 DEF bytes, blocks

\* Steps that bring no event to a counter: in and out of the gate, a flush.
LEMMA WalkKept ==
    ASSUME TypeOK, TypeOK', Kept, NEW t \in Threads,
           \A u \in Threads : u # t => pc'[u] = pc[u] /\ op'[u] = op[u],
           \/ pc[t] \in ToBytes /\ pc'[t] \in ToBytes /\ op'[t] = op[t]
           \/ pc[t] \notin Recording /\ pc'[t] \notin Recording /\ op'[t] = op[t]
           \/ pc[t] = "leave" /\ pc'[t] = "idle" /\ op'[t] = NoDelta(t),
           UNCHANGED <<live, curr_bytes, curr_blocks, total_blocks, rows, due, dropped_blocks,
                       poisoned, sweep, max_bytes, max_blocks>>,
           \A p \in Points : pps'[p] = pps[p] \/ pps'[p] = Refresh(pps[p], ep[t]),
           \A u \in Threads : u # t /\ writer' = u => writer = u
    PROVE  Kept'
<1>1. Hands'
    <2>1. pc'[t] \notin Recording => op'[t] = NoDelta(t)
        BY DEF Kept, Hands, Recording, ToBytes
    <2>2. \/ op'[t].block = None /\ op'[t].curr_bytes = 0 /\ op'[t].curr_blocks = 0
          \/ op'[t] = op[t]
        BY DEF NoDelta, Delta
    <2>3. op'[t].block # None => op'[t] = op[t]
        BY <2>2
    <2> QED
        BY <2>1, <2>2, <2>3, HandsMove DEF Kept, Hands, FitsEntry, LiveBytes, LiveCount
<1>2. ep[t] \in Nat /\ \A p \in Points : pps[p] \in PointRecords
    BY DEF TypeOK
<1>3. \A p \in Points : /\ pps'[p].curr_bytes = pps[p].curr_bytes
                        /\ pps'[p].curr_blocks = pps[p].curr_blocks
                        /\ pps'[p].total_blocks = pps[p].total_blocks
                        /\ CoversIt(pps'[p])
    BY <1>2, RefreshedRecord, RefreshedCovers DEF Kept, Covers, CoversIt
<1>4. Books' /\ Shares'
    <2>1. \/ pc[t] \in ToBytes /\ pc'[t] \in ToBytes /\ op'[t] = op[t]
          \/ pc[t] \notin ToRow /\ pc'[t] \notin ToRow
        BY DEF Recording, Counting, ToRow, ToPoint, ToBlocks, ToBytes
    <2> QED
        BY <1>3, <2>1, BooksStay DEF Kept
<1>5. PeakKept'
    <2>1. /\ \A u \in Threads : pc'[u] = "bump" <=> pc[u] = "bump"
          /\ pc'[t] \notin Counted
        BY DEF Recording, Counting, ToBytes, Counted
    <2>2. \A u \in Threads : writer' = u /\ pc'[u] \in Counted => op'[u].next_blocks = curr_blocks'
        BY <2>1 DEF Kept, PeakKept, Counted
    <2> QED
        BY <2>1, <2>2, PeakStays DEF Kept
<1>6. Covers'
    BY <1>3 DEF Covers, CoversIt
<1> QED
    BY <1>1, <1>4, <1>5, <1>6 DEF Kept

\* The steps that count nothing.
LEMMA WalksKept ==
    ASSUME Safe, Safe', Kept, NEW t \in Threads,
           \/ EnterShared(t) \/ BailOut(t) \/ EnterExclusive(t) \/ LeaveShared(t) \/ LeaveExclusive(t)
           \/ FlushStep(t) \/ ResetShards(t) \/ ResetEnter(t) \/ ResetBusy(t)
    PROVE  Kept'
<1>0. TypeOK /\ TypeOK'
    BY DEF Safe
<1> USE DEF tableVars, globalVars, pointVars, historyVars
<1>1. CASE EnterShared(t)
    BY <1>0, <1>1, WalkKept DEF EnterShared, AcquireShared, Goto, At, TypeOK, ToBytes
<1>2. CASE BailOut(t)
    BY <1>0, <1>2, WalkKept DEF BailOut, ReleaseShared, Goto, At, TypeOK, ToBytes
<1>3. CASE EnterExclusive(t)
    BY <1>0, <1>3, WalkKept DEF EnterExclusive, AcquireExclusive, Goto, At, TypeOK, ToBytes
<1>4. CASE LeaveShared(t)
    BY <1>0, <1>4, WalkKept DEF LeaveShared, ReleaseShared, Finish, Goto, At, TypeOK
<1>5. CASE LeaveExclusive(t)
    BY <1>0, <1>5, NoThreadAssumption, WalkKept
        DEF LeaveExclusive, ReleaseExclusive, Finish, Goto, At, TypeOK
<1> USE DEF Recording, Counting
<1>6. CASE StartFlush(t)
    BY <1>0, <1>6, WalkKept DEF StartFlush, gateVars, Goto, At, TypeOK
<1>7. CASE FlushEnter(t)
    BY <1>0, <1>7, WalkKept DEF FlushEnter, AcquireExclusive, Goto, At, TypeOK
<1>8. CASE FlushTimeout(t)
    BY <1>0, <1>8, WalkKept DEF FlushTimeout, gateVars, Goto, At, TypeOK
<1>9. CASE FlushLoad(t)
    BY <1>0, <1>9, WalkKept DEF FlushLoad, gateVars, Goto, At, TypeOK
<1>10. CASE FlushPoint(t)
    BY <1>0, <1>10, WalkKept DEF FlushPoint, gateVars, At, TypeOK
<1>11. CASE FlushDone(t)
    <2>1. \A u \in Threads : writer' = u => writer = u
        BY <1>11, NoThreadAssumption DEF FlushDone, ReleaseExclusive, gateVars
    <2> QED
        BY <1>0, <1>11, <2>1, WalkKept DEF FlushDone, Goto, At, TypeOK
<1>12. CASE ResetShards(t)
    BY <1>0, <1>12, WalkKept DEF ResetShards, gateVars, Goto, At, TypeOK
<1>13. CASE ResetEnter(t)
    BY <1>0, <1>13, WalkKept DEF ResetEnter, AcquireExclusive, Goto, At, TypeOK
<1>14. CASE ResetBusy(t)
    BY <1>0, <1>14, WalkKept DEF ResetBusy, gateVars, Goto, At, TypeOK
<1> QED
    BY <1>1, <1>2, <1>3, <1>4, <1>5, <1>6, <1>7, <1>8, <1>9, <1>10, <1>11, <1>12, <1>13, <1>14
        DEF FlushStep

-----------------------------------------------------------------------------
(* Events begin *)

\* A change of the entry of a block that is in nobody's hands, and an event of
\* exactly that change.
LEMMA EntryKept ==
    ASSUME TypeOK, TypeOK', Kept, NEW t \in Threads, NEW b \in Blocks,
           \A u \in Threads : u # t => pc'[u] = pc[u] /\ op'[u] = op[u],
           pc[t] = "idle", pc'[t] \in ToBytes,
           op'[t].block = b, \A u \in Threads : op[u].block # b,
           \A c \in Blocks : c # b => live'[c] = live[c],
           LiveBytes(b)' = LiveBytes(b) + op'[t].curr_bytes,
           LiveCount(b)' = LiveCount(b) + op'[t].curr_blocks,
           live[b] # None => live[b].pp = op'[t].pp /\ live[b].site = op'[t].site,
           live'[b] # None => live'[b].pp = op'[t].pp /\ live'[b].site = op'[t].site,
           UNCHANGED <<gateVars, curr_bytes, curr_blocks, total_blocks, max_bytes, max_blocks,
                       poisoned, pps, rows, sweep>>,
           due' - dropped_blocks' = due - dropped_blocks + op'[t].total_blocks
    PROVE  Kept'
<1>0. op'[t] \in Deltas
    BY DEF TypeOK
<1>1. /\ LiveBytes(b) \in Nat /\ LiveBytes(b)' \in Nat
      /\ LiveCount(b) \in Nat /\ LiveCount(b)' \in Nat
    BY NoneAssumption DEF TypeOK, LiveBytes, LiveCount
<1>2. b # None
    BY NoneAssumption
<1>3. Hands'
    <2>2. FitsEntry(t)'
        BY <1>0, <1>1 DEF FitsEntry, Deltas
    <2>3. \A u \in Threads : op[u].block # None => op[u].block \in Blocks
        BY DEF TypeOK, Deltas
    <2>4. \A u \in Threads : u # t => op[u].block # op'[t].block
        OBVIOUS
    <2>5. \A u \in Threads : op'[u].block # None => FitsEntry(u)'
        <3> SUFFICES ASSUME NEW u \in Threads, op'[u].block # None, u # t PROVE FitsEntry(u)'
            BY <2>2
        <3>1. FitsEntry(u) /\ op[u].block \in Blocks /\ op[u].block # b
            BY <2>3 DEF Kept, Hands
        <3> QED
            BY <3>1 DEF FitsEntry, LiveBytes, LiveCount
    <2>6. \A u \in Threads : pc'[u] \notin Recording => op'[u] = NoDelta(u)
        BY DEF Kept, Hands, Recording, ToBytes
    <2>7. \A u, v \in Threads : op'[u].block = op'[v].block /\ op'[u].block # None => u = v
        BY <2>4 DEF Kept, Hands
    <2>8. \A u \in Threads : op'[u].block = None => op'[u].curr_bytes = 0 /\ op'[u].curr_blocks = 0
        BY <1>2 DEF Kept, Hands
    <2> QED
        BY <2>5, <2>6, <2>7, <2>8 DEF Hands
<1>4. Books' /\ Shares'
    <2>1. TableBytes' = TableBytes + op'[t].curr_bytes /\ TableBlocks' = TableBlocks + op'[t].curr_blocks
        BY <1>0, <1>1, TableMoves DEF Deltas
    <2>2. ASSUME NEW p \in Points
          PROVE  /\ PointBytes(p)' = PointBytes(p)
                      + (IF op'[t].pp = p THEN op'[t].curr_bytes ELSE 0)
                 /\ PointBlocks(p)' = PointBlocks(p)
                      + (IF op'[t].pp = p THEN op'[t].curr_blocks ELSE 0)
        <3>1. /\ (IF OfPoint(b, p) THEN LiveBytes(b) ELSE 0)
                   = (IF op'[t].pp = p THEN LiveBytes(b) ELSE 0)
              /\ (IF OfPoint(b, p)' THEN LiveBytes(b)' ELSE 0)
                   = (IF op'[t].pp = p THEN LiveBytes(b)' ELSE 0)
              /\ (IF OfPoint(b, p) THEN LiveCount(b) ELSE 0)
                   = (IF op'[t].pp = p THEN LiveCount(b) ELSE 0)
              /\ (IF OfPoint(b, p)' THEN LiveCount(b)' ELSE 0)
                   = (IF op'[t].pp = p THEN LiveCount(b)' ELSE 0)
            BY DEF OfPoint, LiveBytes, LiveCount
        <3> QED
            BY <1>0, <1>1, <3>1, PointTableMoves DEF Deltas
    <2>3. ASSUME NEW s \in Threads
          PROVE  SiteBytes(s)' = SiteBytes(s) + (IF op'[t].site = s THEN op'[t].curr_bytes ELSE 0)
        <3>1. /\ (IF OfSite(b, s) THEN LiveBytes(b) ELSE 0)
                   = (IF op'[t].site = s THEN LiveBytes(b) ELSE 0)
              /\ (IF OfSite(b, s)' THEN LiveBytes(b)' ELSE 0)
                   = (IF op'[t].site = s THEN LiveBytes(b)' ELSE 0)
            BY DEF OfSite, LiveBytes
        <3> QED
            BY <1>0, <1>1, <3>1, SiteTableMoves DEF Deltas
    <2> QED
        BY <2>1, <2>2, <2>3, BooksBegin DEF Kept
<1>5. PeakKept'
    <2>1. \A u \in Threads : pc'[u] = "bump" <=> pc[u] = "bump"
        BY DEF ToBytes
    <2>2. \A u \in Threads : writer' = u /\ pc'[u] \in Counted => op'[u].next_blocks = curr_blocks'
        BY DEF Kept, PeakKept, Counted, gateVars, ToBytes
    <2> QED
        BY <2>1, <2>2, PeakStays DEF Kept
<1>6. Covers'
    BY DEF Kept, Covers
<1> QED
    BY <1>3, <1>4, <1>5, <1>6 DEF Kept

\* What the table has is a number.
LEMMA TablesAreInts ==
    ASSUME TypeOK
    PROVE  /\ TableBytes \in Int /\ TableBlocks \in Int
           /\ \A p : PointBytes(p) \in Int /\ PointBlocks(p) \in Int
           /\ \A s : SiteBytes(s) \in Int
<1>1. \A b \in Blocks : LiveBytes(b) \in Int /\ LiveCount(b) \in Int
    BY NoneAssumption DEF TypeOK, LiveBytes, LiveCount
<1>2. TableBytes \in Int
    BY <1>1, FiniteAssumption, SumIsInt DEF TableBytes
<1>3. TableBlocks \in Int
    BY <1>1, FiniteAssumption, SumIsInt DEF TableBlocks
<1>4. ASSUME NEW p PROVE PointBytes(p) \in Int
    BY <1>1, FiniteAssumption, SumIsInt DEF PointBytes
<1>5. ASSUME NEW p PROVE PointBlocks(p) \in Int
    BY <1>1, FiniteAssumption, SumIsInt DEF PointBlocks
<1>6. ASSUME NEW s PROVE SiteBytes(s) \in Int
    BY <1>1, FiniteAssumption, SumIsInt DEF SiteBytes
<1> QED
    BY <1>2, <1>3, <1>4, <1>5, <1>6

LEMMA RecordAllocKept ==
    ASSUME Safe, Safe', Kept, NEW t \in Threads, RecordAlloc(t) PROVE Kept'
<1>0. TypeOK /\ TypeOK'
    BY DEF Safe
<1>1. PICK b \in Unused, p \in Points, n \in Sizes :
         /\ Begin(t, Route(AllocDelta(t, b, p, n)), AllocDelta(t, b, p, n), 1)
         /\ live' = [live EXCEPT ![b] = [pp |-> p, site |-> t, size |-> n]]
         /\ UNCHANGED dropped_blocks
    BY DEF RecordAlloc
<1>2. b \in Blocks /\ live[b] = None /\ \A u \in Threads : op[u].block # b
    BY <1>1 DEF Unused
<1>3. n \in Nat
    BY SizesAssumption
<1>4. live'[b] = [pp |-> p, site |-> t, size |-> n] /\ \A c \in Blocks : c # b => live'[c] = live[c]
    BY <1>0, <1>1, <1>2 DEF TypeOK
<1>5. live'[b] # None
    BY <1>3, <1>4, NoneAssumption
<1>6. /\ op'[t] = AllocDelta(t, b, p, n)
      /\ pc[t] = "idle" /\ pc'[t] \in ToBytes
      /\ \A u \in Threads : u # t => pc'[u] = pc[u] /\ op'[u] = op[u]
    BY <1>0, <1>1 DEF Begin, Goto, At, TypeOK, Route, ToBytes
<1>7. LiveBytes(b)' = LiveBytes(b) + n /\ LiveCount(b)' = LiveCount(b) + 1
    BY <1>2, <1>3, <1>4, <1>5 DEF LiveBytes, LiveCount
<1>8. due' - dropped_blocks' = due - dropped_blocks + 1
    BY <1>0, <1>1 DEF Begin, TypeOK
<1> QED
    BY <1>0, <1>1, <1>2, <1>4, <1>5, <1>6, <1>7, <1>8, EntryKept
        DEF AllocDelta, Delta, Begin, globalVars, pointVars, historyVars

\* A block that the program owns leaves the table, with what it counted.
LEMMA FreeKept ==
    ASSUME TypeOK, TypeOK', Kept, NEW t \in Threads, NEW b \in Owned, NEW requests,
           Begin(t, Route(FreeDelta(b)), FreeDelta(b), requests),
           live' = [live EXCEPT ![b] = None],
           due' - dropped_blocks' = due - dropped_blocks
    PROVE  Kept'
<1>2. b \in Blocks /\ live[b] # None /\ \A u \in Threads : op[u].block # b
    BY DEF Owned
<1>3. live[b].size \in Nat
    BY <1>2 DEF TypeOK
<1>4. live'[b] = None /\ \A c \in Blocks : c # b => live'[c] = live[c]
    BY <1>2 DEF TypeOK
<1>6. /\ op'[t] = FreeDelta(b)
      /\ pc[t] = "idle" /\ pc'[t] \in ToBytes
      /\ \A u \in Threads : u # t => pc'[u] = pc[u] /\ op'[u] = op[u]
    BY DEF Begin, Goto, At, TypeOK, Route, ToBytes
<1>7. LiveBytes(b)' = LiveBytes(b) + (-live[b].size) /\ LiveCount(b)' = LiveCount(b) + (-1)
    BY <1>2, <1>3, <1>4 DEF LiveBytes, LiveCount
<1>8. due' - dropped_blocks' = due - dropped_blocks + 0
    <2>1. due \in Int /\ dropped_blocks \in Int
        BY DEF TypeOK
    <2> QED
        BY <2>1
<1> QED
    BY <1>2, <1>4, <1>6, <1>7, <1>8, EntryKept
        DEF FreeDelta, Delta, Begin, globalVars, pointVars, historyVars

LEMMA RecordFreeKept ==
    ASSUME Safe, Safe', Kept, NEW t \in Threads, RecordFree(t) PROVE Kept'
<1>0. TypeOK /\ TypeOK'
    BY DEF Safe
<1>1. PICK b \in Owned : /\ Begin(t, Route(FreeDelta(b)), FreeDelta(b), 0)
                         /\ live' = [live EXCEPT ![b] = None]
                         /\ UNCHANGED dropped_blocks
    BY DEF RecordFree
<1>2. due' - dropped_blocks' = due - dropped_blocks
    BY <1>1 DEF Begin, Safe, TypeOK
<1> QED
    BY <1>0, <1>1, <1>2, FreeKept

LEMMA RecordReallocLostKept ==
    ASSUME Safe, Safe', Kept, NEW t \in Threads, RecordReallocDropped(t) PROVE Kept'
<1>0. TypeOK /\ TypeOK'
    BY DEF Safe
<1>1. PICK b \in Owned : /\ Begin(t, Route(FreeDelta(b)), FreeDelta(b), 1)
                         /\ live' = [live EXCEPT ![b] = None]
                         /\ dropped_blocks' = dropped_blocks + 1
    BY DEF RecordReallocDropped
<1>2. due' - dropped_blocks' = due - dropped_blocks
    BY <1>1 DEF Begin, Safe, TypeOK
<1> QED
    BY <1>0, <1>1, <1>2, FreeKept

LEMMA RecordReallocKept ==
    ASSUME Safe, Safe', Kept, NEW t \in Threads, RecordRealloc(t) PROVE Kept'
<1>0. TypeOK /\ TypeOK'
    BY DEF Safe
<1>1. PICK b \in Owned, n \in Sizes :
         /\ Begin(t, Route(ReallocDelta(b, n)), ReallocDelta(b, n), 1)
         /\ live' = [live EXCEPT ![b].size = n]
         /\ UNCHANGED dropped_blocks
    BY DEF RecordRealloc
<1>2. b \in Blocks /\ live[b] # None /\ \A u \in Threads : op[u].block # b
    BY <1>1 DEF Owned
<1>3. n \in Nat /\ live[b] \in [pp : Points, site : Threads, size : Nat]
    BY <1>0, <1>2, SizesAssumption DEF TypeOK
<1>4. /\ live'[b] = [live[b] EXCEPT !.size = n]
      /\ \A c \in Blocks : c # b => live'[c] = live[c]
    BY <1>0, <1>1, <1>2 DEF TypeOK
<1>5. live'[b].size = n /\ live'[b].pp = live[b].pp /\ live'[b].site = live[b].site /\ live'[b] # None
    BY <1>3, <1>4, NoneAssumption
<1>6. /\ op'[t] = ReallocDelta(b, n)
      /\ pc[t] = "idle" /\ pc'[t] \in ToBytes
      /\ \A u \in Threads : u # t => pc'[u] = pc[u] /\ op'[u] = op[u]
    BY <1>0, <1>1 DEF Begin, Goto, At, TypeOK, Route, ToBytes
<1>7. LiveBytes(b)' = LiveBytes(b) + (n - live[b].size) /\ LiveCount(b)' = LiveCount(b) + 0
    BY <1>2, <1>3, <1>5 DEF LiveBytes, LiveCount
<1>8. due' - dropped_blocks' = due - dropped_blocks + 1
    BY <1>0, <1>1 DEF Begin, TypeOK
<1> QED
    BY <1>0, <1>1, <1>2, <1>4, <1>5, <1>6, <1>7, <1>8, EntryKept
        DEF ReallocDelta, Delta, Begin, globalVars, pointVars, historyVars

\* An event with no block counts a request and moves nothing that is live.
LEMMA RecordEventKept ==
    ASSUME Safe, Safe', Kept, NEW t \in Threads, RecordEvent(t) PROVE Kept'
<1>0. TypeOK /\ TypeOK'
    BY DEF Safe
<1>1. PICK p \in Points : /\ Begin(t, "shrink", Delta(p, t, None, 0, 0, 1), 1)
                          /\ UNCHANGED <<live, dropped_blocks>>
    BY DEF RecordEvent
<1>2. /\ op'[t] = Delta(p, t, None, 0, 0, 1)
      /\ pc[t] = "idle" /\ pc'[t] = "shrink"
      /\ \A u \in Threads : u # t => pc'[u] = pc[u] /\ op'[u] = op[u]
    BY <1>0, <1>1 DEF Begin, Goto, At, TypeOK
<1>3. /\ op'[t].block = None /\ op'[t].curr_bytes = 0 /\ op'[t].curr_blocks = 0
      /\ op'[t].total_blocks = 1
    BY <1>2 DEF Delta
<1>4. Hands'
    BY <1>1, <1>2, <1>3, HandsMove DEF Kept, Recording
<1>5. Books' /\ Shares'
    <2>1. /\ TableBytes' = TableBytes /\ TableBlocks' = TableBlocks
          /\ \A q : PointBytes(q)' = PointBytes(q) /\ PointBlocks(q)' = PointBlocks(q)
          /\ \A s : SiteBytes(s)' = SiteBytes(s)
        BY <1>1
            DEF TableBytes, TableBlocks, PointBytes, PointBlocks, SiteBytes, LiveBytes, LiveCount,
                OfPoint, OfSite
    <2>3. TableBytes \in Int /\ TableBlocks \in Int
        BY <1>0, TablesAreInts
    <2>4. \A q : PointBytes(q) \in Int /\ PointBlocks(q) \in Int
        BY <1>0, TablesAreInts
    <2>5. \A s : SiteBytes(s) \in Int
        BY <1>0, TablesAreInts
    <2>6. pc'[t] \in ToBytes
        BY <1>2 DEF ToBytes
    <2>7. due' - dropped_blocks' = due - dropped_blocks + 1
        BY <1>0, <1>1 DEF Begin, TypeOK
    <2> QED
        BY <1>0, <1>1, <1>2, <1>3, <2>1, <2>3, <2>4, <2>5, <2>6, <2>7, BooksBegin
            DEF Kept, Begin, globalVars, pointVars
<1>6. PeakKept'
    BY <1>1, <1>2, PeakStays DEF Kept, PeakKept, Begin, gateVars, globalVars, historyVars, Counted
<1>7. Covers' /\ ~poisoned'
    BY <1>1 DEF Kept, Covers, Begin, pointVars
<1> QED
    BY <1>4, <1>5, <1>6, <1>7 DEF Kept

\* A refused block is counted nowhere but among the refused.
LEMMA RecordAllocDroppedKept ==
    ASSUME Safe, Safe', Kept, NEW t \in Threads, RecordAllocDropped(t) PROVE Kept'
<1>0. TypeOK /\ TypeOK'
    BY DEF Safe
<1>1. /\ op'[t] = NoDelta(t)
      /\ pc[t] = "idle" /\ pc'[t] = "idle"
      /\ \A u \in Threads : u # t => pc'[u] = pc[u] /\ op'[u] = op[u]
      /\ live' = live
    BY <1>0 DEF RecordAllocDropped, Begin, Goto, At, TypeOK
<1>2. Hands'
    BY <1>1, HandsMove DEF Kept, NoDelta, Delta
<1>3. Books' /\ Shares'
    <2>1. due' - dropped_blocks' = due - dropped_blocks
        BY <1>0 DEF RecordAllocDropped, Begin, TypeOK
    <2> QED
        BY <1>0, <1>1, <2>1, BooksStay
            DEF Kept, RecordAllocDropped, Begin, globalVars, pointVars, ToRow, ToPoint, ToBlocks,
                ToBytes
<1>4. PeakKept'
    BY <1>1, PeakStays
        DEF Kept, PeakKept, RecordAllocDropped, Begin, gateVars, globalVars, historyVars, Counted
<1>5. Covers' /\ ~poisoned'
    BY DEF Kept, Covers, RecordAllocDropped, Begin, pointVars
<1> QED
    BY <1>2, <1>3, <1>4, <1>5 DEF Kept

-----------------------------------------------------------------------------
(* Events reach the counters *)

\* An event's change of the live bytes, on whichever path.
LEMMA BytesKept ==
    ASSUME TypeOK, TypeOK', Kept, NEW t \in Threads,
           \A u \in Threads : pc[u] # "bump",
           pc[t] \in ToBytes, pc' = [pc EXCEPT ![t] = "blocks"],
           curr_bytes' = curr_bytes + op[t].curr_bytes,
           UNCHANGED <<gateVars, live, op, curr_blocks, total_blocks, max_bytes, max_blocks,
                       dropped_blocks, pps, rows, sweep, due>>,
           ~poisoned'
    PROVE  Kept'
<1>1. pc'[t] = "blocks" /\ \A u \in Threads : u # t => pc'[u] = pc[u]
    BY DEF TypeOK
<1>2. Hands'
    BY <1>1, HandsFrame DEF Kept, Recording, Counting
<1>3. Books' /\ Shares'
    BY <1>1, BooksBytes DEF Kept
<1>4. PeakKept'
    BY <1>1, PeakStays DEF Kept, PeakKept, Counted, gateVars, Raising, At
<1>5. Covers' /\ ~poisoned'
    BY DEF Kept, Covers
<1> QED
    BY <1>2, <1>3, <1>4, <1>5 DEF Kept

LEMMA TryCommitKept ==
    ASSUME Safe, Safe', Kept, NEW t \in Threads, TryCommit(t) PROVE Kept'
<1>0. TypeOK /\ TypeOK'
    BY DEF Safe
<1>1. \A u \in Threads : pc[u] # "bump"
    BY NoThreadAssumption DEF Safe, Control, GateExclusion, Places, TryCommit, At
<1> QED
    BY <1>0, <1>1, BytesKept
        DEF Kept, TryCommit, At, Goto, ToBytes, tableVars, pointVars, historyVars

LEMMA StoreBytesKept ==
    ASSUME Safe, Safe', Kept, NEW t \in Threads, StoreBytes(t) PROVE Kept'
<1>0. TypeOK /\ TypeOK'
    BY DEF Safe
<1>1. \A u \in Threads : pc[u] # "bump"
    BY DEF Safe, Control, Places, StoreBytes, At
<1> QED
    BY <1>0, <1>1, BytesKept
        DEF Kept, StoreBytes, At, Goto, ToBytes, tableVars, pointVars, historyVars

\* A change that is made without a check never brings the counter below zero.
LEMMA CommitKept ==
    ASSUME Safe, Safe', Kept, NEW t \in Threads, Commit(t) PROVE Kept'
<1>0. TypeOK /\ TypeOK'
    BY DEF Safe
<1>1. \A u \in Threads : pc[u] # "bump"
    BY NoThreadAssumption DEF Safe, Control, GateExclusion, Places, Commit, At
<1>2. /\ pc[t] = "commit" /\ pc' = [pc EXCEPT ![t] = "blocks"] /\ op' = op /\ live' = live
      /\ pc'[t] = "blocks" /\ \A u \in Threads : u # t => pc'[u] = pc[u]
    BY <1>0 DEF Commit, At, Goto, tableVars, TypeOK
<1>3. Hands'
    BY <1>2, HandsFrame DEF Kept, Recording, Counting
<1>4. 0 <= curr_bytes + op[t].curr_bytes
    BY <1>0, <1>2, <1>3, BytesNotShort DEF Kept, ToBytes
<1>5. curr_bytes' = curr_bytes + op[t].curr_bytes /\ ~poisoned'
    <2>1. curr_bytes + op[t].curr_bytes \in Int
        BY <1>0 DEF TypeOK, Deltas
    <2>2. Checked(curr_bytes + op[t].curr_bytes) = curr_bytes + op[t].curr_bytes
          /\ ~(curr_bytes + op[t].curr_bytes < 0)
        BY <1>4, <2>1 DEF Checked
    <2> QED
        BY <2>2 DEF Kept, Commit
<1> QED
    BY <1>0, <1>1, <1>2, <1>5, BytesKept
        DEF Commit, ToBytes, tableVars, pointVars, historyVars

LEMMA CountBlocksKept ==
    ASSUME Safe, Safe', Kept, NEW t \in Threads, CountBlocks(t) PROVE Kept'
<1>0. TypeOK /\ TypeOK'
    BY DEF Safe
<1> DEFINE next == curr_blocks + op[t].curr_blocks
<1>1. /\ pc[t] = "blocks" /\ pc'[t] = "point" /\ live' = live
      /\ \A u \in Threads : u # t => pc'[u] = pc[u] /\ op'[u] = op[u]
    BY <1>0 DEF CountBlocks, At, Goto, tableVars, TypeOK
<1>2. /\ op'[t].pp = op[t].pp /\ op'[t].site = op[t].site /\ op'[t].block = op[t].block
      /\ op'[t].curr_bytes = op[t].curr_bytes /\ op'[t].curr_blocks = op[t].curr_blocks
      /\ op'[t].total_blocks = op[t].total_blocks /\ op'[t].next_blocks = Checked(next)
    BY <1>0 DEF CountBlocks, TypeOK, Deltas
<1>3. Hands'
    BY <1>1, <1>2, HandsMove DEF Kept, Hands, FitsEntry, LiveBytes, LiveCount, Recording, Counting
<1>4. 0 <= next /\ next \in Int
    BY <1>0, <1>1, <1>3, BlocksNotShort DEF Kept, TypeOK, Deltas
<1>5. curr_blocks' = next /\ ~poisoned' /\ op'[t].next_blocks = next
    <2>1. Checked(next) = next /\ ~(next < 0)
        BY <1>4 DEF Checked
    <2> HIDE DEF next
    <2>2. curr_blocks' = Checked(next) /\ poisoned' = (poisoned \/ next < 0)
        BY DEF CountBlocks, next
    <2> QED
        BY <1>2, <2>1, <2>2 DEF Kept
<1>6. Books' /\ Shares'
    BY <1>0, <1>1, <1>2, <1>5, BooksBlocks DEF Kept, CountBlocks, pointVars
<1>7. PeakKept'
    <2>1. ~Raising
        BY <1>1, NoThreadAssumption
            DEF Safe, Control, GateExclusion, Places, Counting, Raising, At
    <2>2. \A u \in Threads : writer' = u /\ pc'[u] \in Counted => op'[u].next_blocks = curr_blocks'
        <3>1. \A u \in Threads : writer = u /\ pc[u] \in Counted => u = t
            BY <1>1, NoThreadAssumption DEF Safe, Control, GateExclusion, Places, Counting
        <3>2. writer' = writer
            BY DEF CountBlocks, gateVars
        <3>3. ASSUME NEW u \in Threads, writer' = u, pc'[u] \in Counted, u # t PROVE FALSE
            BY <1>1, <3>1, <3>2, <3>3
        <3> QED
            BY <1>5, <3>3
    <2> QED
        BY <1>1, <2>1, <2>2, PeakStays DEF Kept, CountBlocks, historyVars
<1>8. Covers' /\ ~poisoned'
    BY <1>5 DEF Kept, Covers, CountBlocks, pointVars
<1> QED
    BY <1>3, <1>6, <1>7, <1>8 DEF Kept

LEMMA UpdatePointKept ==
    ASSUME Safe, Safe', Kept, NEW t \in Threads, UpdatePoint(t) PROVE Kept'
<1>0. TypeOK /\ TypeOK'
    BY DEF Safe
<1>1. /\ pc[t] = "point" /\ pc'[t] = "row" /\ live' = live /\ op' = op
      /\ \A u \in Threads : u # t => pc'[u] = pc[u]
    BY <1>0 DEF UpdatePoint, At, Goto, tableVars, TypeOK
<1>2. PICK p \in Points : op[t].pp = p
    BY <1>1 DEF Safe, Control, DeltasFit, Recording, Counting
<1>3. Hands'
    BY <1>1, HandsFrame DEF Kept, Recording, Counting
<1>4. 0 <= pps[p].curr_bytes + op[t].curr_bytes /\ 0 <= pps[p].curr_blocks + op[t].curr_blocks
    BY <1>0, <1>1, <1>2, <1>3, PointNotShort DEF Kept
<1>5. pps[p] \in PointRecords /\ op[t] \in Deltas /\ ep[t] \in Nat
    BY <1>0 DEF TypeOK
<1>6. ~poisoned'
    <2>1. ~Underflows(pps[p], op[t])
        BY <1>4, <1>5 DEF Underflows, PointRecords, Deltas
    <2> QED
        BY <1>2, <2>1 DEF Kept, UpdatePoint
<1> DEFINE r == Refresh(pps[p], ep[t])
<1>7. /\ r \in PointRecords /\ r.curr_bytes = pps[p].curr_bytes /\ r.curr_blocks = pps[p].curr_blocks
      /\ r.total_blocks = pps[p].total_blocks /\ CoversIt(r)
    BY <1>5, RefreshedRecord, RefreshedCovers DEF Kept, Covers, CoversIt
<1> HIDE DEF r
<1>8. /\ pps'[p] = Apply(r, op[t])
      /\ \A q \in Points : q # p => pps'[q] = pps[q]
    BY <1>0, <1>2 DEF UpdatePoint, TypeOK, r
<1>9. /\ CoversIt(pps'[p])
      /\ pps'[p].curr_bytes = pps[p].curr_bytes + op[t].curr_bytes
      /\ pps'[p].curr_blocks = pps[p].curr_blocks + op[t].curr_blocks
      /\ pps'[p].total_blocks = pps[p].total_blocks + op[t].total_blocks
    BY <1>4, <1>5, <1>7, <1>8, AppliedCovers
<1>10. Books' /\ Shares'
    BY <1>0, <1>1, <1>2, <1>8, <1>9, BooksPoint DEF Kept, UpdatePoint, globalVars
<1>11. PeakKept'
    BY <1>1, PeakStays DEF Kept, PeakKept, Counted, UpdatePoint, gateVars, globalVars, historyVars
<1>12. Covers'
    BY <1>8, <1>9 DEF Kept, Covers, CoversIt
<1> QED
    BY <1>3, <1>6, <1>10, <1>11, <1>12 DEF Kept

LEMMA AttributeKept ==
    ASSUME Safe, Safe', Kept, NEW t \in Threads, Attribute(t) PROVE Kept'
<1>0. TypeOK /\ TypeOK'
    BY DEF Safe
<1>1. /\ pc[t] = "row" /\ pc'[t] = "leave" /\ live' = live /\ op' = op
      /\ \A u \in Threads : u # t => pc'[u] = pc[u]
    BY <1>0 DEF Attribute, At, Goto, tableVars, TypeOK
<1>2. PICK s \in Threads : op[t].site = s
    BY <1>0 DEF TypeOK, Deltas
<1>3. Hands'
    BY <1>1, HandsFrame DEF Kept, Recording, Counting
<1>4. /\ rows'[s].curr_bytes = rows[s].curr_bytes + op[t].curr_bytes
      /\ rows'[s].total_blocks = rows[s].total_blocks + op[t].total_blocks
      /\ \A q \in Threads : q # s => rows'[q] = rows[q]
    BY <1>0, <1>2 DEF Attribute, TypeOK
<1>5. Books' /\ Shares'
    BY <1>0, <1>1, <1>2, <1>4, BooksRow DEF Kept, Attribute, globalVars
<1>6. PeakKept'
    BY <1>1, PeakStays DEF Kept, PeakKept, Counted, Attribute, gateVars, globalVars, historyVars
<1>7. Covers' /\ ~poisoned'
    BY DEF Kept, Covers, Attribute
<1> QED
    BY <1>3, <1>5, <1>6, <1>7 DEF Kept

\* The maximum is raised to what is live, while nobody else counts.
LEMMA RaisePeakKept ==
    ASSUME Safe, Safe', Kept, NEW t \in Threads, RaisePeak(t) PROVE Kept'
<1>0. TypeOK /\ TypeOK'
    BY DEF Safe
<1>1. /\ pc[t] = "leave" /\ pc'[t] = "bump" /\ live' = live /\ op' = op /\ writer = t
      /\ \A u \in Threads : u # t => pc'[u] = pc[u]
    BY <1>0 DEF RaisePeak, At, Goto, tableVars, TypeOK
<1>2. Hands'
    BY <1>1, HandsFrame DEF Kept, Recording
<1>3. Books' /\ Shares'
    BY <1>0, <1>1, BooksStay
        DEF Kept, RaisePeak, pointVars, ToRow, ToPoint, ToBlocks, ToBytes
<1>4. PeakKept'
    <2>1. \A u \in Threads : pc[u] # "bump"
        BY <1>1 DEF Safe, Control, Places
    <2>2. \A u \in Threads : writer' = u /\ pc'[u] \in {"point", "row", "leave", "bump"}
                                => op'[u].next_blocks = curr_blocks'
        BY <1>1 DEF Kept, PeakKept, RaisePeak, gateVars
    <2>3. max_bytes' = curr_bytes' /\ max_blocks' = curr_blocks'
        BY <1>1 DEF Kept, PeakKept, RaisePeak
    <2>4. Raising'
        BY <1>1 DEF Raising, At
    <2> QED
        BY <2>1, <2>2, <2>3, <2>4 DEF PeakKept
<1>5. Covers' /\ ~poisoned'
    BY DEF Kept, Covers, RaisePeak, pointVars
<1> QED
    BY <1>2, <1>3, <1>4, <1>5 DEF Kept

\* The copies are made at the maximum.
LEMMA BumpEpochKept ==
    ASSUME Safe, Safe', Kept, NEW t \in Threads, BumpEpoch(t) PROVE Kept'
<1>0. TypeOK /\ TypeOK'
    BY DEF Safe
<1>1. /\ pc[t] = "bump" /\ pc'[t] = "idle" /\ live' = live /\ op'[t] = NoDelta(t) /\ writer = t
      /\ \A u \in Threads : u # t => pc'[u] = pc[u] /\ op'[u] = op[u]
    BY <1>0 DEF BumpEpoch, ReleaseExclusive, Finish, At, Goto, tableVars, TypeOK
<1>2. Hands'
    BY <1>1, HandsMove DEF Kept, NoDelta, Delta
<1>3. Books' /\ Shares'
    BY <1>0, <1>1, BooksStay
        DEF Kept, BumpEpoch, pointVars, ToRow, ToPoint, ToBlocks, ToBytes
<1>4. PeakKept'
    <2>1. curr_bytes = PointsBytes /\ curr_blocks = PointsBlocks
        BY <1>0, <1>1, HolderFindsSums DEF Kept, Safe
    <2>2. SweptBytes' = PointsBytes /\ SweptBlocks' = PointsBlocks
        BY <1>0, SweepSums DEF BumpEpoch
    <2>3. max_bytes' = curr_bytes /\ max_blocks' = curr_blocks
        BY <1>1 DEF Kept, PeakKept, BumpEpoch
    <2>4. \A u \in Threads : pc'[u] # "bump"
        BY <1>1 DEF Safe, Control, Places
    <2>5. \A u \in Threads : writer' # u
        BY NoThreadAssumption DEF BumpEpoch, ReleaseExclusive
    <2> QED
        BY <2>1, <2>2, <2>3, <2>4, <2>5 DEF PeakKept
<1>5. Covers' /\ ~poisoned'
    BY DEF Kept, Covers, BumpEpoch, pointVars
<1> QED
    BY <1>2, <1>3, <1>4, <1>5 DEF Kept

LEMMA ResetCountsKept ==
    ASSUME Safe, Safe', Kept, NEW t \in Threads, ResetCounts(t) PROVE Kept'
<1>0. TypeOK /\ TypeOK'
    BY DEF Safe
<1>1. /\ pc[t] = "reset" /\ pc'[t] = "idle" /\ live' = live /\ op' = op /\ writer = t
      /\ \A u \in Threads : u # t => pc'[u] = pc[u]
    BY <1>0 DEF ResetCounts, ReleaseExclusive, At, Goto, TypeOK
<1>2. Hands'
    BY <1>1, HandsFrame DEF Kept, Recording, Counting
<1>3. /\ total_blocks' = 0 /\ max_bytes' = curr_bytes /\ max_blocks' = curr_blocks
      /\ pps' = [p \in Points |-> Restart(pps[p], epoch + 1)]
      /\ rows' = [s \in Threads |-> [rows[s] EXCEPT !.total_blocks = 0]]
      /\ sweep' = [p \in Points |-> Counts(pps[p])]
      /\ due' = due - total_blocks
      /\ UNCHANGED <<curr_bytes, curr_blocks, dropped_blocks, poisoned>>
    BY DEF ResetCounts, Kept
<1>4. \A p \in Points : /\ pps'[p].curr_bytes = pps[p].curr_bytes
                        /\ pps'[p].curr_blocks = pps[p].curr_blocks
                        /\ pps'[p].total_blocks = 0
                        /\ CoversIt(pps'[p])
    <2> SUFFICES ASSUME NEW p \in Points
                 PROVE  /\ pps'[p].curr_bytes = pps[p].curr_bytes
                        /\ pps'[p].curr_blocks = pps[p].curr_blocks
                        /\ pps'[p].total_blocks = 0
                        /\ CoversIt(pps'[p])
        OBVIOUS
    <2>1. pps[p] \in PointRecords /\ pps'[p] = Restart(pps[p], epoch + 1)
        BY <1>0, <1>3 DEF TypeOK
    <2> QED
        BY <2>1 DEF PointRecords, Restart, CoversIt
<1>5. \A s \in Threads : rows'[s].curr_bytes = rows[s].curr_bytes /\ rows'[s].total_blocks = 0
    BY <1>0, <1>3 DEF TypeOK
<1>6. Books' /\ Shares'
    BY <1>0, <1>1, <1>3, <1>4, <1>5, BooksRestart DEF Kept, Safe
<1>7. PeakKept'
    <2>1. curr_bytes = PointsBytes /\ curr_blocks = PointsBlocks
        BY <1>0, <1>1, HolderFindsSums DEF Kept, Safe
    <2>2. SweptBytes' = PointsBytes /\ SweptBlocks' = PointsBlocks
        BY <1>0, <1>3, SweepSums
    <2>4. \A u \in Threads : pc'[u] # "bump"
        BY <1>1 DEF Safe, Control, Places
    <2>5. \A u \in Threads : writer' # u
        BY NoThreadAssumption DEF ResetCounts, ReleaseExclusive
    <2> QED
        BY <1>3, <2>1, <2>2, <2>4, <2>5 DEF PeakKept
<1>8. Covers' /\ ~poisoned'
    BY <1>3, <1>4 DEF Kept, Covers, CoversIt
<1> QED
    BY <1>2, <1>6, <1>7, <1>8 DEF Kept

-----------------------------------------------------------------------------
(* Kept holds of every run, and the accounts with it *)

\* At the start nothing is owed and nothing counted.
LEMMA InitKept == Init => Kept
<1> SUFFICES ASSUME Init PROVE Kept
    OBVIOUS
<1>0. /\ \A t \in Threads : pc[t] = "idle" /\ op[t] = NoDelta(t)
      /\ \A b \in Blocks : live[b] = None
      /\ \A p \in Points : /\ pps[p].curr_bytes = 0 /\ pps[p].curr_blocks = 0
                           /\ pps[p].total_blocks = 0 /\ pps[p].max_bytes = 0
                           /\ pps[p].at_gmax_bytes = 0
                           /\ sweep[p].bytes = 0 /\ sweep[p].blocks = 0
      /\ \A s \in Threads : rows[s].curr_bytes = 0 /\ rows[s].total_blocks = 0
    BY DEF Init, EmptyPoint, Counts
<1>a. \A t \in Threads : op[t].block = None /\ op[t].curr_bytes = 0 /\ op[t].curr_blocks = 0
    <2>1. \A t \in Threads : /\ NoDelta(t).block = None /\ NoDelta(t).curr_bytes = 0
                             /\ NoDelta(t).curr_blocks = 0
        BY DEF NoDelta, Delta
    <2> HIDE DEF NoDelta
    <2> QED
        BY <1>0, <2>1
<1>1. Hands
    BY <1>0, <1>a DEF Hands
<1>2. ASSUME NEW S \in Stages PROVE OwedBytes(S) = 0 /\ OwedBlocks(S) = 0 /\ OwedTotal(S) = 0
    <2>1. "idle" \notin S
        BY DEF Stages, ToRow, ToPoint, ToBlocks, ToBytes
    <2> QED
        BY <1>0, <2>1, NothingOwed
<1>3. ToBytes \in Stages /\ ToBlocks \in Stages /\ {"blocks", "point"} \in Stages /\ {"point"} \in Stages
      /\ {"blocks", "point", "row"} \in Stages /\ {"point", "row"} \in Stages
    BY DEF Stages
<1>4. TableBytes = 0 /\ TableBlocks = 0
    <2>1. /\ [b \in Blocks |-> LiveBytes(b)] = [b \in Blocks |-> 0]
          /\ [b \in Blocks |-> LiveCount(b)] = [b \in Blocks |-> 0]
        BY <1>0 DEF LiveBytes, LiveCount
    <2> QED
        BY <2>1, FiniteAssumption, SumOfZeros DEF TableBytes, TableBlocks
<1>5. ASSUME NEW p \in Points
      PROVE  PointOwesBytes(p) = 0 /\ PointOwesBlocks(p) = 0 /\ PointBytes(p) = 0 /\ PointBlocks(p) = 0
    <2>1. /\ [t \in Threads |-> IF pc[t] \in ToPoint /\ op[t].pp = p THEN op[t].curr_bytes ELSE 0]
                = [t \in Threads |-> 0]
          /\ [t \in Threads |-> IF pc[t] \in ToPoint /\ op[t].pp = p THEN op[t].curr_blocks ELSE 0]
                = [t \in Threads |-> 0]
        BY <1>a
    <2>2. /\ [b \in Blocks |-> IF OfPoint(b, p) THEN LiveBytes(b) ELSE 0] = [b \in Blocks |-> 0]
          /\ [b \in Blocks |-> IF OfPoint(b, p) THEN LiveCount(b) ELSE 0] = [b \in Blocks |-> 0]
        BY <1>0 DEF OfPoint
    <2> QED
        BY <2>1, <2>2, FiniteAssumption, SumOfZeros
            DEF PointOwesBytes, PointOwesBlocks, PointBytes, PointBlocks
<1>6. ASSUME NEW s \in Threads PROVE RowOwes(s) = 0 /\ SiteBytes(s) = 0
    <2>1. [t \in Threads |-> IF pc[t] \in ToRow /\ op[t].site = s THEN op[t].curr_bytes ELSE 0]
             = [t \in Threads |-> 0]
        BY <1>a
    <2>2. [b \in Blocks |-> IF OfSite(b, s) THEN LiveBytes(b) ELSE 0] = [b \in Blocks |-> 0]
        BY <1>0 DEF OfSite
    <2> QED
        BY <2>1, <2>2, FiniteAssumption, SumOfZeros DEF RowOwes, SiteBytes
<1>7. /\ PointsBytes = 0 /\ PointsBlocks = 0 /\ PointsTotal = 0 /\ RowsBytes = 0 /\ RowsTotal = 0
      /\ SweptBytes = 0 /\ SweptBlocks = 0
    <2>1. /\ [p \in Points |-> pps[p].curr_bytes] = [p \in Points |-> 0]
          /\ [p \in Points |-> pps[p].curr_blocks] = [p \in Points |-> 0]
          /\ [p \in Points |-> pps[p].total_blocks] = [p \in Points |-> 0]
          /\ [p \in Points |-> sweep[p].bytes] = [p \in Points |-> 0]
          /\ [p \in Points |-> sweep[p].blocks] = [p \in Points |-> 0]
          /\ [s \in Threads |-> rows[s].curr_bytes] = [s \in Threads |-> 0]
          /\ [s \in Threads |-> rows[s].total_blocks] = [s \in Threads |-> 0]
        BY <1>0
    <2> QED
        BY <2>1, FiniteAssumption, SumOfZeros
            DEF PointsBytes, PointsBlocks, PointsTotal, RowsBytes, RowsTotal, SweptBytes,
                SweptBlocks
<1>8. Books
    BY <1>0, <1>2, <1>3, <1>4, <1>5, <1>6 DEF Books, Init
<1>9. Shares
    BY <1>2, <1>3, <1>7 DEF Shares, Init
<1>10. PeakKept
    BY <1>0, <1>7, NoThreadAssumption DEF PeakKept, Init, GateInit
<1>11. Covers /\ ~poisoned
    BY <1>0 DEF Covers, Init
<1> QED
    BY <1>1, <1>8, <1>9, <1>10, <1>11 DEF Kept

\* A step that changes nothing keeps the books.
LEMMA StutterKept == Kept /\ UNCHANGED vars => Kept'
<1> SUFFICES ASSUME Kept, UNCHANGED vars PROVE Kept'
    OBVIOUS
<1> USE DEF Kept, vars, gateVars, tableVars, globalVars, pointVars, historyVars
<1>1. Hands'
    BY HandsFrame
<1>2. Books'
    BY DEF Books, OwedBytes, OwedBlocks, PointOwesBytes, PointOwesBlocks, RowOwes, TableBytes,
        TableBlocks, PointBytes, PointBlocks, SiteBytes, OfPoint, OfSite, LiveBytes, LiveCount
<1>3. Shares'
    BY DEF Shares, OwedBytes, OwedBlocks, OwedTotal, PointsBytes, PointsBlocks, PointsTotal,
        RowsBytes, RowsTotal
<1>4. PeakKept'
    BY DEF PeakKept, SweptBytes, SweptBlocks, Raising, At
<1>5. Covers' /\ ~poisoned'
    BY DEF Covers
<1> QED
    BY <1>1, <1>2, <1>3, <1>4, <1>5

\* Every step of every thread keeps the books.
LEMMA NextKept == Safe /\ Safe' /\ Kept /\ [Next]_vars => Kept'
<1> SUFFICES ASSUME Safe, Safe', Kept, Next PROVE Kept'
    BY StutterKept
<1>1. CASE Exhausted
    BY <1>1, StutterKept DEF Exhausted
<1>2. ASSUME NEW t \in Threads, RecordStep(t) PROVE Kept'
    BY <1>2, RecordAllocKept, RecordAllocDroppedKept, RecordFreeKept, RecordReallocKept,
        RecordReallocLostKept, RecordEventKept DEF RecordStep
<1>3. ASSUME NEW t \in Threads, ApplyStep(t) PROVE Kept'
    BY <1>3, WalksKept, TryCommitKept, CommitKept, StoreBytesKept, CountBlocksKept,
        UpdatePointKept, AttributeKept, RaisePeakKept, BumpEpochKept DEF ApplyStep
<1>4. ASSUME NEW t \in Threads, FlushStep(t) \/ ResetStep(t) PROVE Kept'
    BY <1>4, WalksKept, ResetCountsKept DEF ResetStep
<1> QED
    BY <1>1, <1>2, <1>3, <1>4 DEF Next

\* The two invariants together are inductive.
LEMMA InvSafeKept == Spec => [](Safe /\ Kept)
<1>1. Safe /\ Kept /\ [Next]_vars => (Safe /\ Kept)'
    BY NextSafe, NextKept
<1> QED
    BY InitSafe, InitKept, <1>1, PTL DEF Spec

\* The books agree: no counter is ever repaired from below zero, each of them is
\* the sum of its shares whenever nobody is in the gate, the live bytes are the
\* table's and every request is accounted for whenever nothing is under way,
\* and the at-peak columns sum to the reported peak while the run goes on.
THEOREM AccountsAgree == Spec => []Accounts
<1> SUFFICES ASSUME Safe, Kept PROVE Accounts
    BY InvSafeKept, PTL
<1>0. TypeOK
    BY DEF Safe
<1>1. NeverPoisoned
    BY <1>0, RowsNotShort DEF Kept, NeverPoisoned
<1>2. CountersAreLive
    <2> SUFFICES ASSUME Quiet PROVE curr_bytes = TableBytes
        BY DEF CountersAreLive, TableBytes
    <2>1. OwedBytes(ToBytes) = 0
        BY NothingOwed DEF Quiet, At, ToBytes
    <2> QED
        BY <1>0, <2>1 DEF Kept, Books, TypeOK
<1>3. RequestsCounted
    <2> SUFFICES ASSUME Quiet PROVE total_blocks + dropped_blocks = due
        BY DEF RequestsCounted
    <2>1. OwedTotal(ToBlocks) = 0
        BY NothingOwed DEF Quiet, At, ToBlocks, ToBytes
    <2> QED
        BY <1>0, <2>1 DEF Kept, Shares, TypeOK
<1>4. SharesSum
    <2> SUFFICES ASSUME readers = {}, writer = NoThread
                 PROVE  /\ curr_bytes = PointsBytes /\ curr_blocks = PointsBlocks
                        /\ total_blocks = PointsTotal
                        /\ curr_bytes = RowsBytes /\ total_blocks = RowsTotal
        BY DEF SharesSum, SumOver, PointsBytes, PointsBlocks, PointsTotal, RowsBytes, RowsTotal
    <2> QED
        BY <1>0, HolderFindsSums DEF Safe, Kept
<1>5. AtPeakSums
    <2> SUFFICES ASSUME ~torn, ~Raising
                 PROVE  /\ SumOver(LAMBDA p : AtPeak(p).bytes) = max_bytes
                        /\ SumOver(LAMBDA p : AtPeak(p).blocks) = max_blocks
        BY DEF AtPeakSums
    <2>1. \A p \in Points : AtPeak(p) = sweep[p]
        BY DEF Safe, Lazy, LazyIsEager
    <2>2. /\ [p \in Points |-> AtPeak(p).bytes] = [p \in Points |-> sweep[p].bytes]
          /\ [p \in Points |-> AtPeak(p).blocks] = [p \in Points |-> sweep[p].blocks]
        BY <2>1
    <2> QED
        BY <2>2 DEF SumOver, Kept, PeakKept, SweptBytes, SweptBlocks
<1>6. PointMaximumCoversPeak
    BY DEF Kept, Covers, PointMaximumCoversPeak
<1> QED
    BY <1>1, <1>2, <1>3, <1>4, <1>5, <1>6 DEF Accounts

-----------------------------------------------------------------------------
(* The refinement of EagerPeak *)

Ahead(t) == PeakAhead(t) /\ pc[t] \in Counting

\* What the points hold in the abstract state is what is live, less the event
\* that is about to be recorded as the peak.
HeldIsLive ==
    /\ \A t \in Threads : Ahead(t) => SumFunction(Held) = curr_bytes - op[t].curr_bytes
    /\ (\A t \in Threads : ~Ahead(t)) => SumFunction(Held) = curr_bytes

\* Only an event that grows the heap, or leaves it, has the gate alone.
WriterGrows == \A t \in Threads :
    writer = t /\ pc[t] \in Counting => op[t].curr_bytes >= 0

Mapped == HeldIsLive /\ WriterGrows

\* The abstract state sums with the operator the engine's model sums with.
LEMMA EagerSums ==
    ASSUME NEW f PROVE Eager!SumFunction(f) = SumFunction(f)
BY SMT DEF SumFunction, SumFunctionOnSet, FoldFunctionOnSet, MapThenFoldSet,
           Eager!SumFunction, Eager!SumFunctionOnSet, Eager!FoldFunctionOnSet,
           Eager!MapThenFoldSet

\* What a record lacks is a number.
LEMMA LacksIsInt ==
    ASSUME TypeOK, NEW p, NEW t \in Threads PROVE Lacks(p, t) \in Int
BY DEF Lacks, TypeOK, Deltas

\* What the points hold in the abstract state, and its sum, are numbers.
LEMMA HeldType ==
    ASSUME TypeOK
    PROVE  Held \in [Points -> Int] /\ SumFunction(Held) \in Int
<1>1. ASSUME NEW p \in Points PROVE pps[p].curr_bytes + SumFunction([t \in Threads |-> Lacks(p, t)]) \in Int
    <2>1. SumFunction([t \in Threads |-> Lacks(p, t)]) \in Int
        BY LacksIsInt, FiniteAssumption, SumIsInt
    <2>2. pps[p].curr_bytes \in Int
        BY DEF TypeOK, PointRecords
    <2> QED
        BY <2>1, <2>2
<1>2. Held \in [Points -> Int]
    BY <1>1 DEF Held
<1> QED
    BY <1>2, FiniteAssumption, SumIsInt

\* A step of one thread moves what a point holds by what it does to the record
\* and to what the record lacks.
LEMMA HeldMoves ==
    ASSUME TypeOK, TypeOK', NEW t \in Threads, NEW p \in Points,
           \A u \in Threads : u # t => Lacks(p, u)' = Lacks(p, u)
    PROVE  Held'[p] = Held[p] + (pps'[p].curr_bytes - pps[p].curr_bytes) + (Lacks(p, t)' - Lacks(p, t))
<1> DEFINE f == [u \in Threads |-> Lacks(p, u)]
           h == [u \in Threads |-> Lacks(p, u)']
<1>1. f \in [Threads -> Int] /\ h \in [Threads -> Int]
    BY LacksIsInt DEF Lacks, TypeOK, Deltas
<1>2. \A u \in Threads : u # t => h[u] = f[u]
    OBVIOUS
<1>3. h[t] = Lacks(p, t)' /\ f[t] = Lacks(p, t) /\ h[t] \in Int /\ f[t] \in Int
    BY <1>1
<1>4. Held[p] = pps[p].curr_bytes + SumFunction(f) /\ Held'[p] = pps'[p].curr_bytes + SumFunction(h)
    BY DEF Held
<1> HIDE DEF f, h
<1>5. /\ SumFunction(f) \in Int /\ SumFunction(h) \in Int
      /\ SumFunction(h) = SumFunction(f) + (h[t] - f[t])
    BY <1>1, <1>2, FiniteAssumption, SumUpdate
<1>6. pps[p].curr_bytes \in Int /\ pps'[p].curr_bytes \in Int
    BY DEF TypeOK, PointRecords
<1> QED
    BY <1>3, <1>4, <1>5, <1>6

\* Nothing that is held moves.
LEMMA HeldStays ==
    ASSUME TypeOK, TypeOK', NEW t \in Threads,
           \A p \in Points, u \in Threads : u # t => Lacks(p, u)' = Lacks(p, u),
           \A p \in Points :
              pps'[p].curr_bytes + Lacks(p, t)' = pps[p].curr_bytes + Lacks(p, t)
    PROVE  Held' = Held
<1>1. ASSUME NEW p \in Points PROVE Held'[p] = Held[p]
    <2>1. Held'[p] = Held[p] + (pps'[p].curr_bytes - pps[p].curr_bytes) + (Lacks(p, t)' - Lacks(p, t))
        BY HeldMoves
    <2>2. pps[p].curr_bytes \in Int /\ pps'[p].curr_bytes \in Int
        BY DEF TypeOK, PointRecords
    <2>3. Lacks(p, t) \in Int /\ Lacks(p, t)' \in Int
        BY LacksIsInt DEF Lacks, TypeOK, Deltas
    <2>4. Held[p] \in Int
        BY HeldType
    <2> QED
        BY <2>1, <2>2, <2>3, <2>4
<1> QED
    BY <1>1 DEF Held

\* Exactly one point is given an event's bytes.
LEMMA HeldGains ==
    ASSUME TypeOK, TypeOK', NEW t \in Threads, NEW p \in Points, op[t].pp = p, op'[t].pp = p,
           \A q \in Points, u \in Threads : u # t => Lacks(q, u)' = Lacks(q, u),
           \A q \in Points : pps'[q].curr_bytes = pps[q].curr_bytes,
           Lacks(p, t)' = Lacks(p, t) + op[t].curr_bytes
    PROVE  /\ Held' = [Held EXCEPT ![p] = Held[p] + op[t].curr_bytes]
           /\ Held'[p] = Held[p] + op[t].curr_bytes
           /\ SumFunction(Held') = SumFunction(Held) + op[t].curr_bytes
           /\ SumFunction(Held) \in Int /\ Held[p] \in Int
<1>0. op[t].curr_bytes \in Int
    BY DEF TypeOK, Deltas
<1>1. Held \in [Points -> Int] /\ Held' \in [Points -> Int] /\ SumFunction(Held) \in Int
    <2>1. Held' \in [Points -> Int]
        <3>1. Held' = [q \in Points |-> Held'[q]]
            BY DEF Held
        <3>2. ASSUME NEW q \in Points PROVE Held'[q] \in Int
            <4>1. Held'[q] = Held[q] + (pps'[q].curr_bytes - pps[q].curr_bytes) + (Lacks(q, t)' - Lacks(q, t))
                BY HeldMoves
            <4>2. pps[q].curr_bytes \in Int /\ pps'[q].curr_bytes \in Int
                BY DEF TypeOK, PointRecords
            <4>3. Lacks(q, t) \in Int /\ Lacks(q, t)' \in Int
                BY LacksIsInt DEF Lacks, TypeOK, Deltas
            <4>4. Held[q] \in Int
                BY HeldType
            <4> QED
                BY <4>1, <4>2, <4>3, <4>4
        <3> QED
            BY <3>1, <3>2
    <2> QED
        BY <2>1, HeldType
<1>2. ASSUME NEW q \in Points PROVE Held'[q] = Held[q] + (IF q = p THEN op[t].curr_bytes ELSE 0)
    <2>1. Held'[q] = Held[q] + (pps'[q].curr_bytes - pps[q].curr_bytes) + (Lacks(q, t)' - Lacks(q, t))
        BY HeldMoves
    <2>2. pps[q].curr_bytes \in Int
        BY DEF TypeOK, PointRecords
    <2>3. Lacks(q, t) \in Int
        BY LacksIsInt
    <2>4. Lacks(q, t)' = Lacks(q, t) + (IF q = p THEN op[t].curr_bytes ELSE 0)
        BY <1>0, <2>3 DEF Lacks
    <2> QED
        BY <1>0, <1>1, <2>1, <2>2, <2>3, <2>4
<1>3. SumFunction(Held') = SumFunction(Held) + (Held'[p] - Held[p])
    <2> HIDE DEF Held
    <2>1. \A q \in Points : q # p => Held'[q] = Held[q]
        BY <1>1, <1>2
    <2> QED
        BY <1>1, <2>1, FiniteAssumption, SumUpdate
<1> HIDE DEF Held
<1>4. Held' = [Held EXCEPT ![p] = Held[p] + op[t].curr_bytes]
    BY <1>0, <1>1, <1>2
<1> QED
    BY <1>0, <1>1, <1>2, <1>3, <1>4

\* What the steps of the engine do to the abstract state.
EagerStep == Eager!EagerNext \/ UNCHANGED Eager!eagerVars

\* A step of one thread leaves what records lack of the others' events.
LEMMA OthersLack ==
    ASSUME NEW t, \A u \in Threads : u # t => /\ pc'[u] = pc[u] /\ op'[u] = op[u]
                                              /\ PeakAhead(u)' <=> PeakAhead(u)
    PROVE  \A p \in Points, u \in Threads : u # t => Lacks(p, u)' = Lacks(p, u)
BY DEF Lacks, Lags

\* A step that moves neither what is held nor an event's effect.
LEMMA MappedStays ==
    ASSUME Mapped, Held' = Held, curr_bytes' = curr_bytes,
           \A u \in Threads : Ahead(u)' <=> Ahead(u),
           \A u \in Threads : pc[u] \in Counting => op'[u].curr_bytes = op[u].curr_bytes
                                                    \/ pc'[u] \notin Counting,
           \A u \in Threads : writer' = u /\ pc'[u] \in Counting => writer = u /\ pc[u] \in Counting
    PROVE  Mapped'
<1>1. HeldIsLive'
    <2>1. \A u \in Threads : Ahead(u)' => op'[u].curr_bytes = op[u].curr_bytes
        BY DEF Ahead
    <2> QED
        BY <2>1 DEF Mapped, HeldIsLive
<1>2. WriterGrows'
    BY DEF Mapped, WriterGrows
<1> QED
    BY <1>1, <1>2 DEF Mapped

\* What was held at the peak is what the copies made then say.
LEMMA AtPeakStays ==
    ASSUME Safe, Safe', ~torn', torn => torn', sweep' = sweep,
           Raising' <=> Raising,
           Raising => \A p \in Points : pps'[p].curr_bytes = pps[p].curr_bytes
    PROVE  EagerAtPeak' = EagerAtPeak
<1>1. \A p \in Points : AtPeak(p) = sweep[p] /\ AtPeak(p)' = sweep'[p]
    BY DEF Safe, Lazy, LazyIsEager
<1>2. \A p \in Points : AtPeak(p)'.bytes = AtPeak(p).bytes
    BY <1>1
<1>3. CASE Raising
    BY <1>3 DEF EagerAtPeak
<1>4. CASE ~Raising
    BY <1>2, <1>4 DEF EagerAtPeak
<1> QED
    BY <1>3, <1>4

\* What is held and the maximum stay: a stutter, or a flush without the gate.
LEMMA StaysOrBlurs ==
    ASSUME TypeOK, TypeOK', Held' = Held, max_bytes' = max_bytes, torn => torn',
           ~torn' => EagerAtPeak' = EagerAtPeak
    PROVE  EagerStep
<1>1. CASE torn'
    <2>1. (~torn)' = FALSE
        BY <1>1
    <2>2. Eager!Blur
        BY <2>1 DEF Eager!Blur
    <2> QED
        BY <2>2 DEF EagerStep, Eager!EagerNext
<1>2. CASE ~torn'
    BY <1>2 DEF EagerStep, Eager!eagerVars
<1> QED
    BY <1>1, <1>2

\* Steps of a thread that counts nothing are no step of the abstract state.
LEMMA WalkMaps ==
    ASSUME Safe, Safe', Mapped, NEW t \in Threads,
           \A u \in Threads : u # t => pc'[u] = pc[u] /\ op'[u] = op[u],
           pc[t] \notin Counting \/ (pc[t] = "leave" /\ ~PeakAhead(t)),
           pc'[t] \notin Counting, pc[t] # "bump", pc'[t] # "bump",
           UNCHANGED <<curr_bytes, max_bytes, sweep>>, torn => torn',
           \A p \in Points : pps'[p].curr_bytes = pps[p].curr_bytes,
           \A u \in Threads : u # t => (writer' = u <=> writer = u)
    PROVE  Mapped' /\ EagerStep
<1>0. TypeOK /\ TypeOK'
    BY DEF Safe
<1>1. \A u \in Threads : u # t => (PeakAhead(u)' <=> PeakAhead(u))
    BY DEF PeakAhead
<1>2. \A p \in Points : Lacks(p, t) = 0 /\ Lacks(p, t)' = 0
    BY DEF Lacks, Lags, Counting
<1>3. Held' = Held
    BY <1>0, <1>1, <1>2, OthersLack, HeldStays
<1>4. Mapped'
    <2>1. \A u \in Threads : Ahead(u)' <=> Ahead(u)
        BY <1>1 DEF Ahead
    <2> QED
        BY <1>3, <2>1, MappedStays
<1>5. Raising' <=> Raising
    BY DEF Raising, At
<1> QED
    BY <1>0, <1>3, <1>4, <1>5, AtPeakStays, StaysOrBlurs

\* Nobody raises the maximum while another counts.
LEMMA CountingIsNotRaising ==
    ASSUME Safe, NEW t \in Threads, pc[t] \in Counting \cup {"try", "commit", "store", "reset"}
    PROVE  ~Raising /\ \A u \in Threads : u # t => ~PeakAhead(u) \/ pc[u] \notin Counting
BY NoThreadAssumption DEF Safe, Control, GateExclusion, Places, Counting, Raising, At, PeakAhead

\* The steps that follow an event's effect, or prepare for it.
LEMMA CountMaps ==
    ASSUME Safe, Safe', Mapped, NEW t \in Threads,
           \A u \in Threads : u # t => pc'[u] = pc[u] /\ op'[u] = op[u],
           pc[t] \in Counting, pc'[t] \in Counting, op'[t].curr_bytes = op[t].curr_bytes,
           UNCHANGED <<writer, curr_bytes, max_bytes, sweep, torn>>,
           \A p \in Points :
              pps'[p].curr_bytes + Lacks(p, t)' = pps[p].curr_bytes + Lacks(p, t)
    PROVE  Mapped' /\ EagerStep
<1>0. TypeOK /\ TypeOK'
    BY DEF Safe
<1>1. \A u \in Threads : PeakAhead(u)' <=> PeakAhead(u)
    BY DEF PeakAhead
<1>2. Held' = Held
    BY <1>0, <1>1, OthersLack, HeldStays
<1>3. Mapped'
    <2>1. \A u \in Threads : Ahead(u)' <=> Ahead(u)
        BY <1>1 DEF Ahead
    <2> QED
        BY <1>2, <2>1, MappedStays
<1>4. ~Raising /\ ~Raising'
    BY CountingIsNotRaising DEF Raising, At, Counting
<1> QED
    BY <1>0, <1>2, <1>3, <1>4, AtPeakStays, StaysOrBlurs

\* The steps before an event takes effect, after it left, and of a flush.
LEMMA WalkStepsMap ==
    ASSUME Safe, Safe', Mapped, NEW t \in Threads,
           \/ RecordStep(t) \/ FlushStep(t) \/ EnterShared(t) \/ BailOut(t) \/ EnterExclusive(t)
           \/ LeaveShared(t) \/ LeaveExclusive(t) \/ ResetShards(t) \/ ResetEnter(t) \/ ResetBusy(t)
    PROVE  Mapped' /\ EagerStep
<1>0. TypeOK /\ TypeOK'
    BY DEF Safe
<1> USE DEF tableVars, globalVars, pointVars, historyVars, Counting
<1>1. CASE RecordStep(t)
    <2>1. PICK to, d, requests : to \in {"idle", "grow", "shrink"} /\ Begin(t, to, d, requests)
        BY <1>1
            DEF RecordStep, RecordAlloc, RecordAllocDropped, RecordFree, RecordRealloc,
                RecordReallocDropped, RecordEvent, Route
    <2> QED
        BY <1>0, <2>1, WalkMaps DEF Begin, gateVars, Goto, At, TypeOK
<1>2. CASE EnterShared(t)
    BY <1>0, <1>2, WalkMaps DEF EnterShared, AcquireShared, Goto, At, TypeOK
<1>3. CASE BailOut(t)
    BY <1>0, <1>3, WalkMaps DEF BailOut, ReleaseShared, Goto, At, TypeOK
<1>4. CASE EnterExclusive(t)
    BY <1>0, <1>4, NoThreadAssumption, WalkMaps
        DEF EnterExclusive, AcquireExclusive, Goto, At, TypeOK
<1>5. CASE LeaveShared(t)
    <2>1. ~PeakAhead(t)
        BY <1>5, NoThreadAssumption DEF LeaveShared, ReleaseShared, PeakAhead, Safe, Control, GateExclusion
    <2> QED
        BY <1>0, <1>5, <2>1, WalkMaps DEF LeaveShared, ReleaseShared, Finish, Goto, At, TypeOK
<1>6. CASE LeaveExclusive(t)
    <2>1. ~PeakAhead(t)
        BY <1>0, <1>6 DEF LeaveExclusive, PeakAhead, TypeOK
    <2> QED
        BY <1>0, <1>6, <2>1, NoThreadAssumption, WalkMaps
            DEF LeaveExclusive, ReleaseExclusive, Finish, Goto, At, TypeOK
<1>7. CASE StartFlush(t)
    BY <1>0, <1>7, WalkMaps DEF StartFlush, gateVars, Goto, At, TypeOK
<1>8. CASE FlushEnter(t)
    BY <1>0, <1>8, NoThreadAssumption, WalkMaps
        DEF FlushEnter, AcquireExclusive, Goto, At, TypeOK
<1>9. CASE FlushTimeout(t)
    BY <1>0, <1>9, WalkMaps DEF FlushTimeout, gateVars, Goto, At, TypeOK
<1>10. CASE FlushLoad(t)
    BY <1>0, <1>10, WalkMaps DEF FlushLoad, gateVars, Goto, At, TypeOK
<1>11. CASE FlushPoint(t)
    <2>1. \A p \in Points : pps[p] \in PointRecords /\ ep[t] \in Nat
        BY <1>0 DEF TypeOK
    <2>2. \A p \in Points : pps'[p] = pps[p] \/ pps'[p] = Refresh(pps[p], ep[t])
        BY <1>0, <1>11 DEF FlushPoint, TypeOK
    <2>3. \A p \in Points : pps'[p].curr_bytes = pps[p].curr_bytes
        BY <2>1, <2>2, RefreshedRecord
    <2> QED
        BY <1>0, <1>11, <2>3, WalkMaps DEF FlushPoint, gateVars, At
<1>12. CASE FlushDone(t)
    <2>1. \A u \in Threads : u # t => (writer' = u <=> writer = u)
        BY <1>12, NoThreadAssumption DEF FlushDone, ReleaseExclusive, gateVars
    <2> QED
        BY <1>0, <1>12, <2>1, WalkMaps DEF FlushDone, Goto, At, TypeOK
<1>13. CASE ResetShards(t)
    BY <1>0, <1>13, WalkMaps DEF ResetShards, gateVars, Goto, At, TypeOK
<1>14. CASE ResetEnter(t)
    BY <1>0, <1>14, NoThreadAssumption, WalkMaps
        DEF ResetEnter, AcquireExclusive, Goto, At, TypeOK
<1>15. CASE ResetBusy(t)
    BY <1>0, <1>15, WalkMaps DEF ResetBusy, gateVars, Goto, At, TypeOK
<1> QED
    BY <1>1, <1>2, <1>3, <1>4, <1>5, <1>6, <1>7, <1>8, <1>9, <1>10, <1>11, <1>12, <1>13, <1>14,
        <1>15 DEF FlushStep

\* An event that is no peak takes effect as its bytes are counted.
LEMMA EffectMaps ==
    ASSUME Safe, Safe', Mapped, NEW t \in Threads, NEW p \in Points, op[t].pp = p,
           pc[t] \in {"try", "commit", "store"}, pc' = [pc EXCEPT ![t] = "blocks"], op' = op,
           curr_bytes' = curr_bytes + op[t].curr_bytes,
           UNCHANGED <<writer, max_bytes, sweep, torn, pps>>,
           ~PeakAhead(t)', op[t].curr_bytes >= 0 => curr_bytes' < max_bytes,
           writer = t => op[t].curr_bytes >= 0
    PROVE  Mapped' /\ EagerStep
<1>0. TypeOK /\ TypeOK'
    BY DEF Safe
<1>1. /\ pc'[t] = "blocks" /\ \A u \in Threads : u # t => pc'[u] = pc[u]
      /\ op[t].curr_bytes \in Int
    BY <1>0 DEF TypeOK, Deltas
<1>2. /\ ~Raising /\ ~Raising'
      /\ \A u \in Threads : u # t => writer # u \/ pc[u] \notin Counting
    BY <1>1, NoThreadAssumption
        DEF Safe, Control, GateExclusion, Places, Counting, Raising, At
<1>3. \A u \in Threads : ~Ahead(u) /\ ~Ahead(u)'
    BY <1>1, <1>2 DEF Ahead, PeakAhead, Counting
<1>4. \A q \in Points, u \in Threads : u # t => Lacks(q, u)' = Lacks(q, u)
    BY <1>1, <1>2 DEF Lacks, Lags, PeakAhead, Counting
<1>5. Lacks(p, t) = 0 /\ Lacks(p, t)' = op[t].curr_bytes
    BY <1>1 DEF Lacks, Lags
<1>6. /\ Held' = [Held EXCEPT ![p] = Held[p] + op[t].curr_bytes]
      /\ Held'[p] = Held[p] + op[t].curr_bytes
      /\ SumFunction(Held') = SumFunction(Held) + op[t].curr_bytes
      /\ SumFunction(Held) \in Int /\ Held[p] \in Int
    BY <1>0, <1>1, <1>4, <1>5, HeldGains
<1>7. SumFunction(Held) = curr_bytes /\ SumFunction(Held') = curr_bytes'
    BY <1>3, <1>6 DEF Mapped, HeldIsLive
<1>8. Mapped'
    <2>1. HeldIsLive'
        BY <1>3, <1>7 DEF HeldIsLive
    <2>2. WriterGrows'
        BY <1>1 DEF Mapped, WriterGrows
    <2> QED
        BY <2>1, <2>2 DEF Mapped
<1>9. ~torn => EagerAtPeak' = EagerAtPeak
    BY <1>2, AtPeakStays
<1>10. Held' = [Held EXCEPT ![p] = Held'[p]]
    BY <1>6
<1>11. EagerStep
    <2>1. CASE op[t].curr_bytes > 0
        <3>1. Held'[p] > Held[p]
            BY <1>1, <1>6, <2>1
        <3>2. ~(SumFunction(Held') >= max_bytes)
            <4>1. curr_bytes' < max_bytes /\ curr_bytes' \in Int /\ max_bytes \in Int
                BY <1>0, <1>1, <2>1 DEF TypeOK
            <4> QED
                BY <1>7, <4>1
        <3>3. Eager!Grow(p)
            <4>1. Eager!Copies(EagerAtPeak)
                BY <1>9 DEF Eager!Copies
            <4>2. max_bytes' = max_bytes /\ (~torn)' = ~torn
                OBVIOUS
            <4>3. Eager!OnlyChanges(p)
                BY <1>10 DEF Eager!OnlyChanges
            <4> QED
                BY <3>1, <3>2, <4>1, <4>2, <4>3, EagerSums DEF Eager!Grow
        <3> QED
            BY <3>3 DEF EagerStep, Eager!EagerNext
    <2>2. CASE op[t].curr_bytes < 0
        <3>1. Held'[p] < Held[p]
            BY <1>1, <1>6, <2>2
        <3>2. Eager!Shrink(p)
            BY <1>9, <1>10, <3>1 DEF Eager!Shrink, Eager!OnlyChanges, Eager!Copies
        <3> QED
            BY <3>2 DEF EagerStep, Eager!EagerNext
    <2>3. CASE op[t].curr_bytes = 0
        <3>1. Held' = Held
            <4>1. Held \in [Points -> Int]
                BY <1>0, HeldType
            <4> HIDE DEF Held
            <4> QED
                BY <1>6, <2>3, <4>1
        <3> QED
            BY <1>0, <1>9, <3>1, StaysOrBlurs
    <2> QED
        BY <1>1, <2>1, <2>2, <2>3
<1> QED
    BY <1>8, <1>11

\* An event below the maximum takes effect on its exchange.
LEMMA TryCommitMaps ==
    ASSUME Safe, Safe', Mapped, NEW t \in Threads, TryCommit(t) PROVE Mapped' /\ EagerStep
<1>0. TypeOK /\ TypeOK'
    BY DEF Safe
<1>1. PICK p \in Points : op[t].pp = p
    BY DEF TryCommit, At, Safe, Control, DeltasFit, Recording
<1>2. writer # t /\ ~PeakAhead(t)'
    BY NoThreadAssumption
        DEF TryCommit, At, gateVars, PeakAhead, Safe, Control, GateExclusion, Places
<1>3. curr_bytes' < max_bytes
    BY DEF TryCommit
<1> QED
    BY <1>0, <1>1, <1>2, <1>3, EffectMaps
        DEF TryCommit, At, Goto, gateVars, tableVars, pointVars, historyVars

\* An event that shrinks the heap takes effect on its subtraction.
LEMMA CommitMaps ==
    ASSUME Safe, Safe', Kept, Kept', Mapped, NEW t \in Threads, Commit(t)
    PROVE  Mapped' /\ EagerStep
<1>0. TypeOK /\ TypeOK'
    BY DEF Safe
<1>1. PICK p \in Points : op[t].pp = p
    BY DEF Commit, At, Safe, Control, DeltasFit, Recording
<1>2. writer # t /\ ~PeakAhead(t)'
    BY NoThreadAssumption
        DEF Commit, At, gateVars, PeakAhead, Safe, Control, GateExclusion, Places
<1>3. curr_bytes' = curr_bytes + op[t].curr_bytes
    <2>1. ~(curr_bytes + op[t].curr_bytes < 0)
        BY DEF Kept, Commit
    <2> QED
        BY <2>1 DEF Commit, Checked
<1>4. CASE op[t].curr_bytes < 0
    <2>1. ~(op[t].curr_bytes >= 0)
        BY <1>0, <1>4 DEF TypeOK, Deltas
    <2> QED
        BY <1>0, <1>1, <1>2, <1>3, <2>1, EffectMaps
            DEF Commit, At, Goto, gateVars, tableVars, pointVars, historyVars
\* An event that moves no live bytes is no step of the abstract state.
<1>5. CASE op[t].curr_bytes = 0
    <2>1. curr_bytes' = curr_bytes
        BY <1>0, <1>3, <1>5 DEF TypeOK
    <2>2. pc'[t] = "blocks" /\ pc[t] = "commit" /\ \A u \in Threads : u # t => pc'[u] = pc[u]
        BY <1>0 DEF Commit, At, Goto, TypeOK
    <2>3. \A u \in Threads : u # t => (PeakAhead(u)' <=> PeakAhead(u))
        BY <2>1 DEF PeakAhead, Commit, gateVars
    <2>4. \A q \in Points : Lacks(q, t) = 0 /\ Lacks(q, t)' = 0
        BY <1>2, <1>5, <2>2 DEF Lacks, Lags, Commit, tableVars
    <2>5. Held' = Held
        BY <1>0, <2>2, <2>3, <2>4, OthersLack, HeldStays DEF Commit, tableVars, pointVars
    <2>6. Mapped'
        <3>1. \A u \in Threads : Ahead(u)' <=> Ahead(u)
            BY <1>2, <2>2, <2>3 DEF Ahead, PeakAhead, Counting
        <3> QED
            BY <1>2, <2>1, <2>2, <2>5, <3>1, MappedStays DEF Commit, gateVars, tableVars
    <2>7. ~Raising /\ ~Raising'
        BY <2>2, CountingIsNotRaising DEF Raising, At
    <2> QED
        BY <1>0, <2>5, <2>6, <2>7, AtPeakStays, StaysOrBlurs DEF Commit, historyVars
<1> QED
    BY <1>4, <1>5 DEF Commit, At, Safe, Control, DeltasFit

\* The exclusive holder's event takes effect at once, unless it is a peak.
LEMMA StoreBytesMaps ==
    ASSUME Safe, Safe', Mapped, NEW t \in Threads, StoreBytes(t) PROVE Mapped' /\ EagerStep
<1>0. TypeOK /\ TypeOK'
    BY DEF Safe
<1>1. PICK p \in Points : op[t].pp = p
    BY DEF StoreBytes, At, Safe, Control, DeltasFit, Recording
<1>2. writer = t /\ writer' = t /\ op[t].curr_bytes >= 0
    BY DEF StoreBytes, At, gateVars, Safe, Control, Places, DeltasFit
<1>3. /\ pc[t] = "store" /\ pc'[t] = "blocks" /\ \A u \in Threads : u # t => pc'[u] = pc[u]
      /\ op' = op /\ curr_bytes' = curr_bytes + op[t].curr_bytes
    BY <1>0 DEF StoreBytes, At, Goto, tableVars, TypeOK
<1>4. CASE ~PeakAhead(t)'
    <2>1. curr_bytes' < max_bytes
        BY <1>0, <1>2, <1>4 DEF PeakAhead, StoreBytes, TypeOK
    <2> QED
        BY <1>0, <1>1, <1>2, <1>4, <2>1, EffectMaps
            DEF StoreBytes, At, Goto, gateVars, tableVars, pointVars, historyVars
<1>5. CASE PeakAhead(t)'
    <2>1. \A u \in Threads : u # t => ~PeakAhead(u) /\ ~PeakAhead(u)'
        BY <1>2 DEF PeakAhead
    <2>2. \A q \in Points : Lacks(q, t) = 0 /\ Lacks(q, t)' = 0
        BY <1>3, <1>5 DEF Lacks, Lags
    <2>3. Held' = Held
        BY <1>0, <1>3, <2>1, <2>2, OthersLack, HeldStays DEF StoreBytes, pointVars
    <2>4. Mapped'
        <3>1. \A u \in Threads : ~Ahead(u)
            BY <1>3, <2>1 DEF Ahead, Counting
        <3>2. SumFunction(Held) = curr_bytes
            BY <3>1 DEF Mapped, HeldIsLive
        <3>3. curr_bytes = curr_bytes' - op'[t].curr_bytes
            BY <1>0, <1>3 DEF TypeOK, Deltas
        <3>4. \A u \in Threads : Ahead(u)' <=> u = t
            BY <1>3, <1>5, <2>1 DEF Ahead, Counting
        <3>5. HeldIsLive'
            BY <2>3, <3>2, <3>3, <3>4 DEF HeldIsLive
        <3>6. WriterGrows'
            BY <1>2, <1>3 DEF WriterGrows
        <3> QED
            BY <3>5, <3>6 DEF Mapped
    <2>5. ~Raising /\ ~Raising'
        BY <1>3, CountingIsNotRaising DEF Raising, At
    <2> QED
        BY <1>0, <2>3, <2>4, <2>5, AtPeakStays, StaysOrBlurs DEF StoreBytes, historyVars
<1> QED
    BY <1>4, <1>5

\* The block counter is no part of the abstract state.
LEMMA CountBlocksMaps ==
    ASSUME Safe, Safe', Mapped, NEW t \in Threads, CountBlocks(t) PROVE Mapped' /\ EagerStep
<1>0. TypeOK /\ TypeOK'
    BY DEF Safe
<1>1. /\ pc[t] = "blocks" /\ pc'[t] = "point"
      /\ \A u \in Threads : u # t => pc'[u] = pc[u] /\ op'[u] = op[u]
      /\ op'[t].pp = op[t].pp /\ op'[t].curr_bytes = op[t].curr_bytes
    BY <1>0 DEF CountBlocks, At, Goto, TypeOK, Deltas
<1>2. PeakAhead(t)' <=> PeakAhead(t)
    BY DEF PeakAhead, CountBlocks, gateVars
<1>3. \A p \in Points : Lacks(p, t)' = Lacks(p, t)
    BY <1>1, <1>2 DEF Lacks, Lags
<1> QED
    BY <1>1, <1>3, CountMaps DEF CountBlocks, gateVars, pointVars, historyVars, Counting

\* The record catches up with an event that took effect, or goes ahead of one
\* that is to be recorded as the peak.
LEMMA UpdatePointMaps ==
    ASSUME Safe, Safe', Kept, Kept', Mapped, NEW t \in Threads, UpdatePoint(t)
    PROVE  Mapped' /\ EagerStep
<1>0. TypeOK /\ TypeOK'
    BY DEF Safe
<1>1. /\ pc[t] = "point" /\ pc'[t] = "row" /\ live' = live /\ op' = op
      /\ \A u \in Threads : u # t => pc'[u] = pc[u]
      /\ op[t].curr_bytes \in Int
    BY <1>0 DEF UpdatePoint, At, Goto, tableVars, TypeOK, Deltas
<1>2. PICK p \in Points : op[t].pp = p
    BY <1>1 DEF Safe, Control, DeltasFit, Recording, Counting
<1>3. PeakAhead(t)' <=> PeakAhead(t)
    BY DEF PeakAhead, UpdatePoint, gateVars, globalVars
<1>4. ASSUME NEW q \in Points
      PROVE  pps'[q].curr_bytes + Lacks(q, t)' = pps[q].curr_bytes + Lacks(q, t)
    <2>1. CASE q # p
        <3>1. pps'[q] = pps[q]
            BY <1>0, <1>2, <2>1 DEF UpdatePoint, TypeOK
        <3>2. Lacks(q, t)' = 0 /\ Lacks(q, t) = 0
            BY <1>1, <1>2, <2>1 DEF Lacks
        <3> QED
            BY <3>1, <3>2
    <2>2. CASE q = p
        <3>1. /\ PointOwesBytes(q) \in Int
              /\ PointOwesBytes(q)' = PointOwesBytes(q) - op[t].curr_bytes
            BY <1>0, <1>1, <1>2, <2>2, PointOwedMoves DEF ToPoint, ToBlocks, ToBytes
        <3>2. PointBytes(q)' = PointBytes(q)
            BY <1>1 DEF PointBytes, LiveBytes, OfPoint
        <3>3. /\ pps[q].curr_bytes + PointOwesBytes(q) = PointBytes(q)
              /\ pps'[q].curr_bytes + PointOwesBytes(q)' = PointBytes(q)'
            BY DEF Kept, Books
        <3>4. pps[q].curr_bytes \in Int /\ pps'[q].curr_bytes \in Int
            BY <1>0 DEF TypeOK, PointRecords
        <3>5. pps'[q].curr_bytes = pps[q].curr_bytes + op[t].curr_bytes
            BY <1>1, <3>1, <3>2, <3>3, <3>4
        <3>6. /\ Lacks(q, t) = IF PeakAhead(t) THEN 0 ELSE op[t].curr_bytes
              /\ Lacks(q, t)' = IF PeakAhead(t) THEN -op[t].curr_bytes ELSE 0
            BY <1>1, <1>2, <1>3, <2>2 DEF Lacks, Lags
        <3> QED
            BY <1>1, <3>4, <3>5, <3>6
    <2> QED
        BY <2>1, <2>2
<1> QED
    BY <1>1, <1>4, CountMaps DEF UpdatePoint, gateVars, globalVars, historyVars, Counting

\* The rows are no part of the abstract state.
LEMMA AttributeMaps ==
    ASSUME Safe, Safe', Mapped, NEW t \in Threads, Attribute(t) PROVE Mapped' /\ EagerStep
<1>0. TypeOK /\ TypeOK'
    BY DEF Safe
<1>1. /\ pc[t] = "row" /\ pc'[t] = "leave" /\ op' = op
      /\ \A u \in Threads : u # t => pc'[u] = pc[u]
    BY <1>0 DEF Attribute, At, Goto, tableVars, TypeOK
<1>2. PeakAhead(t)' <=> PeakAhead(t)
    BY DEF PeakAhead, Attribute, gateVars, globalVars
<1>3. \A p \in Points : Lacks(p, t)' = Lacks(p, t)
    BY <1>1, <1>2 DEF Lacks, Lags
<1> QED
    BY <1>1, <1>3, CountMaps DEF Attribute, gateVars, globalVars, historyVars, Counting

\* A point of which nothing is lacking holds what its record says.
LEMMA NothingLacks ==
    ASSUME NEW lacks, lacks = [u \in Threads |-> 0], NEW n \in Int
    PROVE  n + SumFunction(lacks) = n
BY FiniteAssumption, SumOfZeros

\* An event that is a peak takes effect with the maximum it raises.
LEMMA RaisePeakMaps ==
    ASSUME Safe, Safe', Mapped, NEW t \in Threads, RaisePeak(t) PROVE Mapped' /\ EagerStep
<1>0. TypeOK /\ TypeOK'
    BY DEF Safe
<1>1. /\ pc[t] = "leave" /\ pc'[t] = "bump" /\ \A u \in Threads : u # t => pc'[u] = pc[u]
      /\ op' = op /\ pps' = pps /\ curr_bytes' = curr_bytes /\ max_bytes' = curr_bytes
      /\ curr_bytes >= max_bytes /\ writer = t /\ writer' = t /\ torn' = torn
      /\ op[t].curr_bytes \in Int /\ curr_bytes \in Int
    BY <1>0
        DEF RaisePeak, At, Goto, TypeOK, Deltas, gateVars, tableVars, pointVars, historyVars
<1>2. PICK p \in Points : op[t].pp = p
    BY <1>1 DEF Safe, Control, DeltasFit, Recording, Counting
<1>3. PeakAhead(t) /\ \A u \in Threads : u # t => ~PeakAhead(u) /\ ~PeakAhead(u)'
    BY <1>1 DEF PeakAhead
<1>4. \A u \in Threads : u # t => pc[u] \notin Counting
    BY <1>1, NoThreadAssumption DEF Safe, Control, GateExclusion, Places, Counting
<1>5. \A q \in Points, u \in Threads : u # t => Lacks(q, u) = 0 /\ Lacks(q, u)' = 0
    BY <1>1, <1>4 DEF Lacks, Lags, Counting
<1>6. Lacks(p, t) = -op[t].curr_bytes /\ \A q \in Points : Lacks(q, t)' = 0
    BY <1>1, <1>2, <1>3 DEF Lacks, Lags
<1>7. /\ Held' = [Held EXCEPT ![p] = Held[p] + op[t].curr_bytes]
      /\ Held'[p] = Held[p] + op[t].curr_bytes
      /\ SumFunction(Held') = SumFunction(Held) + op[t].curr_bytes
      /\ SumFunction(Held) \in Int /\ Held[p] \in Int
    <2>1. Lacks(p, t)' = Lacks(p, t) + op[t].curr_bytes
        BY <1>1, <1>6
    <2> QED
        BY <1>0, <1>1, <1>2, <1>5, <2>1, HeldGains
<1>8. SumFunction(Held') = curr_bytes
    <2>1. SumFunction(Held) = curr_bytes - op[t].curr_bytes
        BY <1>1, <1>3 DEF Mapped, HeldIsLive, Ahead, Counting
    <2> QED
        BY <1>1, <1>7, <2>1
<1>9. op[t].curr_bytes >= 0
    BY <1>1 DEF Mapped, WriterGrows, Counting
<1>10. Mapped'
    <2>1. \A u \in Threads : ~Ahead(u)'
        BY <1>1, <1>3 DEF Ahead, Counting
    <2>2. HeldIsLive'
        BY <1>1, <1>8, <2>1 DEF HeldIsLive
    <2>3. WriterGrows'
        BY <1>1 DEF WriterGrows, Counting
    <2> QED
        BY <2>2, <2>3 DEF Mapped
<1>11. EagerAtPeak' = Held'
    <2>1. Raising'
        BY <1>1 DEF Raising, At
    <2>2. ASSUME NEW q \in Points PROVE Held'[q] = pps'[q].curr_bytes
        <3>1. [u \in Threads |-> Lacks(q, u)'] = [u \in Threads |-> 0]
            BY <1>5, <1>6
        <3>2. pps'[q].curr_bytes \in Int
            BY <1>0 DEF TypeOK, PointRecords
        <3> QED
            BY <3>1, <3>2, NothingLacks DEF Held
    <2>3. EagerAtPeak' = [q \in Points |-> pps'[q].curr_bytes]
        BY <2>1 DEF EagerAtPeak
    <2>4. Held' = [q \in Points |-> Held'[q]]
        BY DEF Held
    <2> QED
        BY <2>2, <2>3, <2>4
<1>12. (~torn)' = ~torn
    BY <1>1
<1>13. CASE op[t].curr_bytes > 0
    <2>1. Held'[p] > Held[p]
        BY <1>1, <1>7, <1>13
    <2>2. Eager!OnlyChanges(p)
        BY <1>7 DEF Eager!OnlyChanges
    <2>3. Eager!Copies(Held')
        BY <1>11 DEF Eager!Copies
    <2>4. SumFunction(Held') >= max_bytes /\ max_bytes' = SumFunction(Held')
        BY <1>1, <1>8
    <2>5. Eager!Grow(p)
        BY <1>12, <2>1, <2>2, <2>3, <2>4, EagerSums DEF Eager!Grow
    <2> QED
        BY <1>10, <2>5 DEF EagerStep, Eager!EagerNext
<1>14. CASE op[t].curr_bytes = 0
    <2>1. Held \in [Points -> Int]
        BY <1>0, HeldType
    <2>2. Held' = Held
        <3> HIDE DEF Held
        <3> QED
            BY <1>7, <1>14, <2>1
    <2>3. Eager!Copies(Held)
        BY <1>11, <2>2 DEF Eager!Copies
    <2>4. max_bytes' = SumFunction(Held)
        BY <1>1, <1>8, <2>2
    <2>5. Eager!PeakIsNow
        BY <1>12, <2>2, <2>3, <2>4, EagerSums DEF Eager!PeakIsNow
    <2> QED
        BY <1>10, <2>5 DEF EagerStep, Eager!EagerNext
<1> QED
    BY <1>1, <1>9, <1>10, <1>13, <1>14

\* The epoch moves: every record now stands for the peak just recorded.
LEMMA BumpEpochMaps ==
    ASSUME Safe, Safe', Mapped, NEW t \in Threads, BumpEpoch(t) PROVE Mapped' /\ EagerStep
<1>0. TypeOK /\ TypeOK'
    BY DEF Safe
<1>1. /\ pc[t] = "bump" /\ pc'[t] = "idle"
      /\ \A u \in Threads : u # t => pc'[u] = pc[u] /\ op'[u] = op[u]
      /\ pps' = pps /\ curr_bytes' = curr_bytes /\ max_bytes' = max_bytes
      /\ writer = t /\ writer' = NoThread /\ torn' = torn
      /\ sweep' = [q \in Points |-> Counts(pps[q])]
    BY <1>0 DEF BumpEpoch, ReleaseExclusive, Finish, At, Goto, TypeOK, pointVars
<1>2. \A u \in Threads : u # t => ~PeakAhead(u) /\ ~PeakAhead(u)'
    BY <1>1, NoThreadAssumption DEF PeakAhead
<1>3. \A q \in Points : Lacks(q, t) = 0 /\ Lacks(q, t)' = 0
    BY <1>1 DEF Lacks, Lags
<1>4. Held' = Held
    BY <1>0, <1>1, <1>2, <1>3, OthersLack, HeldStays
<1>5. Mapped'
    <2>1. \A u \in Threads : ~Ahead(u) /\ ~Ahead(u)'
        BY <1>1, <1>2 DEF Ahead, Counting
    <2>2. \A u \in Threads : writer' # u
        BY <1>1, NoThreadAssumption
    <2>3. \A u \in Threads : pc[u] \in Counting => op'[u].curr_bytes = op[u].curr_bytes
        BY <1>1 DEF Counting
    <2> QED
        BY <1>1, <1>4, <2>1, <2>2, <2>3, MappedStays
<1>6. ASSUME ~torn' PROVE EagerAtPeak' = EagerAtPeak
    <2>1. Raising
        BY <1>1 DEF Raising, At
    <2>2. ~Raising'
        BY <1>1 DEF Raising, At, Safe, Control, Places
    <2>3. \A q \in Points : AtPeak(q)' = Counts(pps[q])
        BY <1>1, <1>6 DEF Safe, Lazy, LazyIsEager
    <2>4. \A q \in Points : AtPeak(q)'.bytes = pps[q].curr_bytes
        BY <2>3 DEF Counts
    <2> QED
        BY <2>1, <2>2, <2>4 DEF EagerAtPeak
<1> QED
    BY <1>0, <1>1, <1>4, <1>5, <1>6, StaysOrBlurs

\* A restart is the first peak of its window.
LEMMA ResetCountsMaps ==
    ASSUME Safe, Safe', Kept, Mapped, NEW t \in Threads, ResetCounts(t)
    PROVE  Mapped' /\ EagerStep
<1>0. TypeOK /\ TypeOK'
    BY DEF Safe
<1>1. /\ pc[t] = "reset" /\ pc'[t] = "idle" /\ op' = op
      /\ \A u \in Threads : u # t => pc'[u] = pc[u]
      /\ curr_bytes' = curr_bytes /\ max_bytes' = curr_bytes
      /\ writer = t /\ writer' = NoThread /\ torn' = torn
      /\ pps' = [q \in Points |-> Restart(pps[q], epoch + 1)]
      /\ sweep' = [q \in Points |-> Counts(pps[q])]
    BY <1>0 DEF Kept, ResetCounts, ReleaseExclusive, At, Goto, TypeOK
<1>2. \A u \in Threads : pc[u] \notin Counting /\ pc'[u] \notin Counting
    BY <1>1, NoThreadAssumption DEF Safe, Control, GateExclusion, Places, Counting
<1>3. \A q \in Points, u \in Threads : Lacks(q, u) = 0 /\ Lacks(q, u)' = 0
    BY <1>2 DEF Lacks, Lags, Counting
<1>4. \A q \in Points : pps'[q].curr_bytes = pps[q].curr_bytes
    <2>1. \A q \in Points : pps[q] \in PointRecords
        BY <1>0 DEF TypeOK
    <2> QED
        BY <1>1, <2>1 DEF Restart, PointRecords
<1>5. Held' = Held
    BY <1>0, <1>3, <1>4, HeldStays
<1>6. \A u \in Threads : ~Ahead(u) /\ ~Ahead(u)'
    BY <1>2 DEF Ahead
<1>7. Mapped'
    BY <1>1, <1>2, <1>5, <1>6, MappedStays
<1>8. ASSUME ~torn' PROVE EagerAtPeak' = Held
    <2>1. ~Raising'
        BY <1>1 DEF Raising, At, Safe, Control, Places
    <2>2. \A q \in Points : AtPeak(q)' = Counts(pps[q])
        BY <1>1, <1>8 DEF Safe, Lazy, LazyIsEager
    <2>3. \A q \in Points : AtPeak(q)'.bytes = pps[q].curr_bytes
        BY <2>2 DEF Counts
    <2>4. ASSUME NEW q \in Points PROVE Held[q] = pps[q].curr_bytes
        <3>1. [u \in Threads |-> Lacks(q, u)] = [u \in Threads |-> 0]
            BY <1>3
        <3>2. pps[q].curr_bytes \in Int
            BY <1>0 DEF TypeOK, PointRecords
        <3> QED
            BY <3>1, <3>2, NothingLacks DEF Held
    <2>5. EagerAtPeak' = [q \in Points |-> pps[q].curr_bytes]
        BY <2>1, <2>3 DEF EagerAtPeak
    <2>6. Held = [q \in Points |-> Held[q]]
        BY DEF Held
    <2> QED
        BY <2>4, <2>5, <2>6
<1>9. max_bytes' = SumFunction(Held)
    BY <1>1, <1>6 DEF Mapped, HeldIsLive
<1>10. Eager!PeakIsNow
    <2>1. (~torn)' = ~torn
        BY <1>1
    <2>2. Eager!Copies(Held)
        BY <1>1, <1>8 DEF Eager!Copies
    <2> QED
        BY <1>5, <1>9, <2>1, <2>2, EagerSums DEF Eager!PeakIsNow
<1> QED
    BY <1>7, <1>10 DEF EagerStep, Eager!EagerNext

\* The initial states map to the abstract initial state.
LEMMA InitMaps == Init => Mapped /\ Eager!EagerInit
<1> SUFFICES ASSUME Init PROVE Mapped /\ Eager!EagerInit
    OBVIOUS
<1>1. \A t \in Threads : pc[t] \notin Counting /\ pc[t] # "bump"
    BY DEF Init, Counting
<1>2. ASSUME NEW p \in Points PROVE Held[p] = 0
    <2>1. [u \in Threads |-> Lacks(p, u)] = [u \in Threads |-> 0]
        BY <1>1 DEF Lacks, Lags, Counting
    <2>2. pps[p].curr_bytes = 0
        BY DEF Init, EmptyPoint
    <2> QED
        BY <2>1, <2>2, NothingLacks DEF Held
<1>3. Held = [p \in Points |-> 0]
    BY <1>2 DEF Held
<1>4. SumFunction(Held) = 0
    BY <1>3, FiniteAssumption, SumOfZeros
<1>5. Mapped
    BY <1>1, <1>4 DEF Init, Mapped, HeldIsLive, WriterGrows, Ahead
<1>6. EagerAtPeak = [p \in Points |-> 0]
    BY <1>1 DEF EagerAtPeak, Raising, At, Init, AtPeak, Refresh, EmptyPoint
<1>7. max_bytes = 0 /\ torn = FALSE
    BY DEF Init
<1> QED
    BY <1>3, <1>5, <1>6, <1>7 DEF Eager!EagerInit

\* A step that changes nothing is a stutter of the abstract state.
LEMMA StutterMaps == Mapped /\ UNCHANGED vars => Mapped' /\ EagerStep
<1> SUFFICES ASSUME Mapped, UNCHANGED vars PROVE Mapped' /\ EagerStep
    OBVIOUS
<1> USE DEF vars, gateVars, tableVars, globalVars, pointVars, historyVars
<1>1. \A u \in Threads : (PeakAhead(u)' <=> PeakAhead(u)) /\ (Ahead(u)' <=> Ahead(u))
    BY DEF PeakAhead, Ahead
<1>2. \A p \in Points, u \in Threads : Lacks(p, u)' = Lacks(p, u)
    BY <1>1 DEF Lacks, Lags
<1>3. Held' = Held
    BY <1>2 DEF Held
<1>4. Mapped'
    BY <1>1, <1>3, MappedStays
<1>5. EagerAtPeak' = EagerAtPeak
    BY DEF EagerAtPeak, Raising, At, AtPeak
<1> QED
    BY <1>3, <1>4, <1>5 DEF EagerStep, Eager!eagerVars

\* Every step maps to an abstract step, or to none.
LEMMA NextMaps == Safe /\ Safe' /\ Kept /\ Kept' /\ Mapped /\ [Next]_vars => Mapped' /\ EagerStep
<1> SUFFICES ASSUME Safe, Safe', Kept, Kept', Mapped, Next PROVE Mapped' /\ EagerStep
    BY StutterMaps
<1>1. CASE Exhausted
    BY <1>1, StutterMaps DEF Exhausted
<1>2. ASSUME NEW t \in Threads, RecordStep(t) \/ FlushStep(t) PROVE Mapped' /\ EagerStep
    BY <1>2, WalkStepsMap
<1>3. ASSUME NEW t \in Threads, ApplyStep(t) PROVE Mapped' /\ EagerStep
    BY <1>3, WalkStepsMap, TryCommitMaps, CommitMaps, StoreBytesMaps, CountBlocksMaps,
        UpdatePointMaps, AttributeMaps, RaisePeakMaps, BumpEpochMaps DEF ApplyStep
<1>4. ASSUME NEW t \in Threads, ResetStep(t) PROVE Mapped' /\ EagerStep
    BY <1>4, WalkStepsMap, ResetCountsMaps DEF ResetStep
<1> QED
    BY <1>1, <1>2, <1>3, <1>4 DEF Next

\* The engine implements the eager peak: whatever threads interleave, every
\* event grows or shrinks one point at one instant, every event that reaches the
\* maximum is recorded as the peak with exactly what each point held at that
\* instant, and only a flush that went on without the gate gives that up.
THEOREM EngineImplementsEagerPeak == Spec => ImplementsEagerPeak
<1>1. Init => Mapped /\ Eager!EagerInit
    BY InitMaps
<1>2. Safe /\ Safe' /\ Kept /\ Kept' /\ Mapped /\ [Next]_vars
        => Mapped' /\ [Eager!EagerNext]_(Eager!eagerVars)
    BY NextMaps DEF EagerStep
<1> QED
    BY InvSafeKept, <1>1, <1>2, PTL DEF Spec, ImplementsEagerPeak, Eager!EagerSpec

=============================================================================
