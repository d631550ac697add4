------------------------------ MODULE Capture -------------------------------
(***************************************************************************)
(* Snapshot::of: room is reserved, the points are copied with the gate     *)
(* held or after waiting for it in vain, sorted, and the blocks still live *)
(* are swept shard by shard, while the program goes on.                    *)
(*                                                                         *)
(* A point is its place in the order of creation.  A block is worth one    *)
(* byte, and time passes with the events.                                  *)
(***************************************************************************)
EXTENDS Integers, Sequences, FiniteSetsExt, SequencesExt

CONSTANTS MAX_POINTS,  \* program points the table has room for
          SLACK,       \* room beyond twice the points there are
          SHARDS,      \* of the live-block table
          MaxEvents    \* bound

ConstantsAssumption ==
    {MAX_POINTS, SLACK, MaxEvents} \subseteq Nat /\ SHARDS \in Nat \ {0}

OVERFLOW == MAX_POINTS + 1  \* its creation sequence is the last
Points == 1..OVERFLOW
BlockShards == 1..SHARDS
Blocks == 1..MaxEvents      \* named by the event that allocated them
CARRIED == MaxEvents + 1    \* a birth no time reaches

VARIABLES pointShard,  \* where a point's return addresses hash to
          created,     \* points there are, the overflow point aside
          counters,    \* of each point
          live,        \* the live-block table
          totals,      \* the counters of the run
          now,         \* events so far
          snapshot,    \* the reading in progress
          frozen       \* whether the program has stood still since it began
program == <<pointShard, created, counters, live, totals, now>>
vars == <<program, snapshot, frozen>>

Zero == [total |-> 0, curr |-> 0]
None == [at |-> "none"]

Init == /\ pointShard \in [1..MAX_POINTS -> {1, 2}]
        /\ created = 0
        /\ counters = [p \in Points |-> Zero]
        /\ live = {}
        /\ totals = Zero
        /\ now = 0
        /\ snapshot = None
        /\ frozen = TRUE

(***************************************************************************)
(* The program.  Every recording is inside the gate, so none is seen half  *)
(* done by a reader that holds it.                                         *)
(***************************************************************************)
Event == /\ now < MaxEvents
         /\ now' = now + 1
         /\ frozen' = (frozen /\ snapshot = None)
Interned == IF created < MAX_POINTS THEN created + 1 ELSE OVERFLOW
Plus(c, total, curr) == [total |-> c.total + total, curr |-> c.curr + curr]

Allocate(p, shard) ==
    /\ Event
    /\ p \in (1..created) \cup {Interned}
    /\ created' = IF p = OVERFLOW THEN created ELSE Max({p, created})
    /\ counters' = [counters EXCEPT ![p] = Plus(@, 1, 1)]
    /\ totals' = Plus(totals, 1, 1)
    /\ live' = live \cup {[name |-> now', pp |-> p, birth |-> now, shard |-> shard]}
    /\ UNCHANGED <<pointShard, snapshot>>

Free(b) ==
    /\ Event
    /\ counters' = [counters EXCEPT ![b.pp] = Plus(@, 0, -1)]
    /\ totals' = Plus(totals, 0, -1)
    /\ live' = live \ {b}
    /\ UNCHANGED <<pointShard, created, snapshot>>

(* Engine::reset: totals from zero, live blocks carried. *)
Restart ==
    /\ Event
    /\ counters' = [p \in Points |-> [counters[p] EXCEPT !.total = 0]]
    /\ totals' = [totals EXCEPT !.total = 0]
    /\ live' = {[b EXCEPT !.birth = CARRIED] : b \in live}
    /\ UNCHANGED <<pointShard, created, snapshot>>

(***************************************************************************)
(* Vec::with_capacity, before the gate, so that no push allocates under it.*)
(***************************************************************************)
Capacity == 2 * created + SLACK

Reserve ==
    /\ snapshot = None
    /\ snapshot' = [at |-> "reserved", capacity |-> Capacity, raw |-> <<>>, dropped |-> {}]
    /\ frozen' = TRUE
    /\ UNCHANGED program

(* PpTable::flush_and_visit: shard by shard, the overflow point last, and  *)
(* none that counts nothing.                                               *)
Before(p, q) == \/ p # OVERFLOW /\ q = OVERFLOW
                \/ OVERFLOW \notin {p, q} /\ pointShard[p] < pointShard[q]
                \/ OVERFLOW \notin {p, q} /\ pointShard[p] = pointShard[q] /\ p < q
Visited == SetToSortSeq({p \in Points : counters[p] # Zero}, Before)

Push(taken, p) ==
    IF Len(taken.raw) < taken.capacity
    THEN [taken EXCEPT !.raw = Append(@, [id |-> p, counters |-> counters[p]])]
    ELSE [taken EXCEPT !.dropped = @ \cup {p}]

(* Sorting by creation sequence, once the gate is free. *)
Unsorted(raw) == raw
SortedBySequence(raw) == SortSeq(raw, LAMBDA a, b : a.id < b.id)

Sweeping(taken, exact) ==
    [at |-> "sweep", exact |-> exact, stats |-> totals, dropped |-> taken.dropped,
     time_at_end |-> now, shard |-> 1, swept |-> {}, unattributed |-> 0,
     points |-> [i \in DOMAIN taken.raw |->
                    SortedBySequence(taken.raw)[i] @@ [unretired |-> 0]]]

Flush ==
    /\ snapshot.at = "reserved"
    /\ snapshot' = Sweeping(FoldLeft(Push, snapshot, Visited), TRUE)
    /\ UNCHANGED <<program, frozen>>

(***************************************************************************)
(* The gate could not be had: the points are visited one by one while the  *)
(* program moves, and the totals are read after them.                      *)
(***************************************************************************)
TimeOut ==
    /\ snapshot.at = "reserved"
    /\ snapshot' = [snapshot EXCEPT !.at = "visit"] @@ [left |-> Points]
    /\ UNCHANGED <<program, frozen>>

VisitNext ==
    /\ snapshot.at = "visit" /\ snapshot.left # {}
    /\ LET p == CHOOSE q \in snapshot.left :
                  \A other \in snapshot.left \ {q} : Before(q, other)
           taken == [snapshot EXCEPT !.left = @ \ {p}] IN
       snapshot' = IF counters[p] = Zero THEN taken ELSE Push(taken, p)
    /\ UNCHANGED <<program, frozen>>

VisitDone ==
    /\ snapshot.at = "visit" /\ snapshot.left = {}
    /\ snapshot' = Sweeping(snapshot, FALSE)
    /\ UNCHANGED <<program, frozen>>

(***************************************************************************)
(* LiveBlocks::for_each, a shard at a time: each block's lifetime so far   *)
(* goes to its point, none for a carried block, whose birth saturates.     *)
(***************************************************************************)
LifetimeAt(b, time) == Max({time - b.birth, 0})
Attributed(b) == \E i \in DOMAIN snapshot.points : snapshot.points[i].id = b.pp
Lifetimes(blocks, p) ==
    MapThenSumSet(LAMBDA b : LifetimeAt(b, snapshot.time_at_end), {b \in blocks : b.pp = p})

Sweep ==
    /\ snapshot.at = "sweep"
    /\ LET found == {b \in live : b.shard = snapshot.shard} IN
       snapshot' = [snapshot EXCEPT
           !.points = [i \in DOMAIN @ |->
                          [@[i] EXCEPT !.unretired = @ + Lifetimes(found, snapshot.points[i].id)]],
           !.unattributed = @ + Cardinality({b \in found : ~Attributed(b)}),
           !.swept = @ \cup found,
           !.shard = @ + 1,
           !.at = IF snapshot.shard = SHARDS THEN "taken" ELSE "sweep"]
    /\ UNCHANGED <<program, frozen>>

Next == \/ \E p \in Points, shard \in BlockShards : Allocate(p, shard)
        \/ \E b \in live : Free(b)
        \/ Restart
        \/ Reserve \/ Flush \/ TimeOut \/ VisitNext \/ VisitDone \/ Sweep

Spec == Init /\ [][Next]_vars
-----------------------------------------------------------------------------
TypeOK == /\ created \in 0..MAX_POINTS
          /\ \A b \in live : b.name \in Blocks /\ b.pp \in Points /\ b.shard \in BlockShards
          /\ snapshot.at \in {"none", "reserved", "visit", "sweep", "taken"}

Taken == snapshot.at \in {"sweep", "taken"}
SumOf(Figure(_)) == FoldLeft(LAMBDA sum, point : sum + Figure(point), 0, snapshot.points)

(* What the emitters rely on: a snapshot read under the gate, with room    *)
(* for every point, adds up to its own totals.                             *)
AddsUp ==
    Taken /\ snapshot.exact /\ snapshot.dropped = {} =>
        /\ SumOf(LAMBDA point : point.counters.total) = snapshot.stats.total
        /\ SumOf(LAMBDA point : point.counters.curr) = snapshot.stats.curr

(* Each point is in the snapshot once, in the order the program made them, *)
(* whatever their addresses hash to; and only a point made since the room  *)
(* was reserved can push one out.                                          *)
InCreationOrder ==
    Taken => /\ \A i, j \in DOMAIN snapshot.points :
                    i < j => snapshot.points[i].id < snapshot.points[j].id
             /\ frozen => snapshot.dropped = {}

(* The sweep gives a block to no point only if that point had no room, or  *)
(* if it was allocated after the points were read; and in a program that   *)
(* stood still every live block has its lifetime in its point's, but for   *)
(* those a restart carried, which count for nothing.                       *)
EveryBlockOnce ==
    /\ snapshot.at = "taken" /\ snapshot.exact =>
           snapshot.unattributed <=
               Cardinality({b \in snapshot.swept :
                   b.pp \in snapshot.dropped \/ b.name > snapshot.time_at_end})
    /\ snapshot.at = "taken" /\ frozen =>
           /\ snapshot.unattributed = 0
           /\ SumOf(LAMBDA point : point.unretired)
                  = MapThenSumSet(LAMBDA b : now - b.birth, {b \in live : b.birth # CARRIED})

(* A snapshot is one reading: totals that are the sum of its points,       *)
(* points in creation order, and lifetimes of blocks that are live, each   *)
(* counted once (Snapshot::of).                                            *)
SnapshotAddsUp == TypeOK /\ AddsUp /\ InCreationOrder /\ EveryBlockOnce
=============================================================================
