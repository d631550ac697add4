------------------------------- MODULE Unwind -------------------------------
(***************************************************************************)
(* How a stack is captured: the frame-pointer walk over memory the program *)
(* may have scribbled on (unwind/frame_pointer.rs), the platform's         *)
(* unwinders (system.rs), and what the start of a run measures of both     *)
(* (mod.rs, calibrate and measure_cost).                                   *)
(*                                                                         *)
(* A return address is the address of the frame it was read from, or 0.    *)
(***************************************************************************)
EXTENDS Integers, FiniteSetsExt, SequencesExt

CONSTANTS MODULUS, WORD,   \* of an address, and the bytes of one
          MAX_FRAME_SPAN,
          WINDOWS_LIMIT,
          Stacks,          \* the bounds a thread may have, [start, end]
          Skips, Rooms,    \* frames to discard, slots to fill
          FIRST_BATCH, MAX_BATCH, BATCHES, TARGET, BUDGET,
          Elapsed          \* nanoseconds a batch may take

ConstantsAssumption ==
    /\ MODULUS \in Nat \ {0} /\ WORD \in Nat \ {0} /\ MODULUS % WORD = 0
    /\ MAX_FRAME_SPAN \in Nat /\ WINDOWS_LIMIT \in Nat
    /\ Skips \subseteq Nat /\ Rooms \subseteq Nat
    /\ Stacks \subseteq [start : 0..(MODULUS - 1), end : 0..(MODULUS - 1)]
    /\ {FIRST_BATCH, MAX_BATCH, BATCHES, BUDGET} \subseteq Nat \ {0}
    /\ FIRST_BATCH <= MAX_BATCH /\ TARGET \in Nat
    /\ Elapsed \subseteq Nat /\ Elapsed # {} /\ IsFiniteSet(Elapsed)  \* of a u64

VARIABLES stack,    \* the bounds, or Unknown
          walk,     \* the locals of walk, and its outcome once it has one
          chain,    \* the frame pointers whose records were read
          cost      \* the locals of measure_cost, and what it published

vars == <<stack, walk, chain, cost>>

Addresses == 0..(MODULUS - 1)
RECORD == 2 * WORD
Unknown == [start |-> 0, end |-> 0]
NoPointer == MODULUS

(***************************************************************************)
(* RealStack::new and frame_at: the last record that fits starts `span`    *)
(* after the first, and one below the base is beyond it by wrapping.       *)
(***************************************************************************)
IsBounded(bounds) == bounds.end - bounds.start >= RECORD
SpanOfStack(bounds) == IF IsBounded(bounds) THEN bounds.end - bounds.start ELSE MODULUS - 1
Span(bounds) == IF IsBounded(bounds) THEN (bounds.end - RECORD) - bounds.start ELSE MODULUS - 1
Base(bounds) == IF IsBounded(bounds) THEN bounds.start ELSE 0
InRange(bounds, fp) == (fp - Base(bounds)) % MODULUS <= Span(bounds)

IsPlausible(fp, previous) ==
    /\ fp # 0 /\ fp % WORD = 0
    /\ previous # 0 => fp > previous /\ fp - previous <= MAX_FRAME_SPAN

NoCost == [captures |-> FIRST_BATCH, best |-> 0, spent |-> 0, batches |-> 0,
           timed |-> <<>>, published |-> <<>>]

Walks(pointers) ==
    [fp : pointers, previous : {0}, skip : Skips, room : Rooms, skipped : {0}, out : {<<>>},
     outcome : {"none"}]
NoWalk == [outcome |-> "not called", out |-> <<>>, room |-> 0, skip |-> 0]

(* The start of a run measures; a capture walks. *)
Init ==
    /\ chain = <<>> /\ cost = NoCost
    /\ \/ stack = Unknown /\ walk = NoWalk
       \/ stack \in Stacks \cup {Unknown} /\ walk \in Walks(Addresses \cup {NoPointer})

Ends(outcome) == walk' = [walk EXCEPT !.outcome = outcome]
Walking == walk.outcome = "none"

(* capture: an architecture whose frame pointer cannot be read. *)
HasNoPointer ==
    /\ Walking /\ walk.fp = NoPointer
    /\ Ends("no frames") /\ UNCHANGED <<stack, chain, cost>>

(* A link that fails validation ends the walk: in order at 0. *)
StopsAtLink ==
    /\ Walking /\ walk.fp # NoPointer /\ ~IsPlausible(walk.fp, walk.previous)
    /\ Ends(IF walk.fp = 0 THEN "complete" ELSE "suspect")
    /\ UNCHANGED <<stack, chain, cost>>

LeavesTheStack ==
    /\ Walking /\ walk.fp # NoPointer /\ IsPlausible(walk.fp, walk.previous)
    /\ ~InRange(stack, walk.fp)
    /\ Ends("suspect") /\ UNCHANGED <<stack, chain, cost>>

(* A record is read: the memory holds what it holds. *)
ReadsRecord ==
    /\ Walking /\ walk.fp # NoPointer /\ IsPlausible(walk.fp, walk.previous)
    /\ InRange(stack, walk.fp)
    /\ chain' = Append(chain, walk.fp)
    /\ \/ Ends("complete")   \* a return address of 0
       \/ /\ walk.skipped >= walk.skip /\ Len(walk.out) = walk.room
          /\ Ends("truncated")
       \/ \E saved \in Addresses :
             /\ walk.skipped < walk.skip
             /\ walk' = [walk EXCEPT !.skipped = @ + 1, !.previous = walk.fp, !.fp = saved]
       \/ \E saved \in Addresses :
             /\ walk.skipped >= walk.skip /\ Len(walk.out) < walk.room
             /\ walk' = [walk EXCEPT !.out = Append(@, walk.fp), !.previous = walk.fp,
                                     !.fp = saved]
    /\ UNCHANGED <<stack, cost>>

(***************************************************************************)
(* measure_cost: the batch doubles until one spans long enough to be       *)
(* timed, more of that size follow, and the fastest is published.          *)
(***************************************************************************)
Smaller(a, b) == Min({a, b})
Fastest(best, elapsed) == Smaller(best, elapsed)
Timed(elapsed) == Append(cost.timed, [captures |-> cost.captures, elapsed |-> elapsed])

StopsGrowing(elapsed) ==
    elapsed >= TARGET \/ cost.captures >= MAX_BATCH \/ cost.spent + elapsed >= BUDGET

FirstBatches ==
    /\ cost.batches = 0 /\ walk = NoWalk
    /\ \E elapsed \in Elapsed :
          cost' = [cost EXCEPT
              !.best = elapsed, !.spent = @ + elapsed, !.timed = Timed(elapsed),
              !.captures = IF StopsGrowing(elapsed) THEN @ ELSE @ * 2,
              !.batches = IF ~StopsGrowing(elapsed) THEN 0
                          ELSE IF elapsed < TARGET THEN BATCHES + 1 ELSE 1]
    /\ UNCHANGED <<stack, walk, chain>>

LaterBatches ==
    /\ cost.batches \in 1..(BATCHES - 1) /\ cost.spent < BUDGET /\ cost.published = <<>>
    /\ \E elapsed \in Elapsed :
          cost' = [cost EXCEPT !.best = Fastest(@, elapsed), !.spent = @ + elapsed,
                               !.timed = Timed(elapsed), !.batches = @ + 1]
    /\ UNCHANGED <<stack, walk, chain>>

Publishes ==
    /\ cost.batches \in 1..BATCHES /\ ~(cost.batches < BATCHES /\ cost.spent < BUDGET)
    /\ cost.published = <<>>
    /\ cost' = [cost EXCEPT !.published = <<[nanos |-> cost.best, captures |-> cost.captures]>>]
    /\ UNCHANGED <<stack, walk, chain>>

Next ==
    \/ HasNoPointer \/ StopsAtLink \/ LeavesTheStack \/ ReadsRecord
    \/ FirstBatches \/ LaterBatches \/ Publishes

Spec == Init /\ [][Next]_vars
-----------------------------------------------------------------------------
(***************************************************************************)
(* system.rs: the platform is asked for the stack, a sequence of return    *)
(* addresses, innermost first.  unix has no skip, so the frames to discard *)
(* take slots first.                                                       *)
(***************************************************************************)
Captured(frames, filled) ==
    [frames |-> frames,
     outcome |-> IF frames = <<>> THEN "no frames" ELSE IF filled THEN "truncated" ELSE "complete"]
NoFrames == [frames |-> <<>>, outcome |-> "no frames"]

UnixCapture(frames, skip, room) ==
    LET raw == Smaller(Len(frames), room) IN
    IF skip # 0 /\ skip >= raw THEN NoFrames
    ELSE Captured(SubSeq(frames, skip + 1, raw), raw = room)

WindowsCapture(frames, skip, room) ==
    LET wanted == Smaller(room, WINDOWS_LIMIT - skip)
        given == SubSeq(frames, skip + 1, Smaller(skip + wanted, Len(frames))) IN
    IF skip >= WINDOWS_LIMIT THEN NoFrames ELSE Captured(given, Len(given) = wanted)

(* A chain nobody scribbled on, through the walk above. *)
WalkCapture(frames, skip, room) ==
    [frames |-> SubSeq(frames, skip + 1, Smaller(skip + room, Len(frames))),
     outcome |-> IF Len(frames) > skip + room THEN "truncated" ELSE "complete"]

CaptureWith(strategy, frames, skip, room) ==
    IF strategy = "frame-pointer" THEN WalkCapture(frames, skip, room)
    ELSE IF room = 0 THEN [frames |-> <<>>, outcome |-> "truncated"]
    ELSE IF strategy = "unix" THEN UnixCapture(frames, skip, room)
    ELSE WindowsCapture(frames, skip, room)

(* depth_room, and the buffer of the shim's capture (alloc.rs). *)
DepthRoom(strategy, wanted, skip) == IF strategy = "unix" THEN wanted + skip ELSE wanted
ShimCapture(strategy, frames, skip, depth, buffer) ==
    CaptureWith(strategy, frames, skip, Smaller(buffer, DepthRoom(strategy, depth, skip)))

(***************************************************************************)
(* calibrate: two captures of the same code, one a call deeper, differ     *)
(* first at the caller of what stands in for the program.                  *)
(***************************************************************************)
Differs(shallow, deep) == {i \in 1..Smaller(Len(shallow), Len(deep)) : shallow[i] # deep[i]}
Calibrate(shallow, deep, capacity) ==
    LET truncated == Len(shallow) = capacity /\ Len(deep) = capacity
        differs == Differs(shallow, deep) IN
    IF (truncated \/ Len(deep) = Len(shallow) + 1) /\ differs # {} /\ Min(differs) > 1
    THEN Min(differs) - 2 ELSE 0

Machinery(m) == [i \in 1..m |-> <<"machinery", i>>]
Program(n) == [i \in 1..n |-> <<"program", i>>]
Shallow(m, n) == Machinery(m) \o <<<<"shallow">>, <<"calibrate", 1>>>> \o Program(n)
Deep(m, n) == Machinery(m) \o <<<<"shallow">>, <<"deep">>, <<"calibrate", 2>>>> \o Program(n)

Calibrated(strategy, m, n, capacity) ==
    Calibrate(CaptureWith(strategy, Shallow(m, n), 0, capacity).frames,
              CaptureWith(strategy, Deep(m, n), 0, capacity).frames, capacity)
-----------------------------------------------------------------------------
(* Whatever the memory holds, the walk reads whole records of the thread's *)
(* own stack where it knows it, each above the last and at most a span     *)
(* away, so it ends; it returns the frames it read but for those to        *)
(* discard, and says complete only of a chain that ended (walk, is_plausible). *)
WalksTheStack ==
    /\ \A i \in DOMAIN chain :
           /\ chain[i] % WORD = 0
           /\ IsBounded(stack) => chain[i] >= stack.start /\ chain[i] + RECORD <= stack.end
           /\ i > 1 => chain[i] > chain[i - 1] /\ chain[i] - chain[i - 1] <= MAX_FRAME_SPAN
    /\ Len(walk.out) <= walk.room
    /\ walk.out = SubSeq(chain, walk.skip + 1, walk.skip + Len(walk.out))
    /\ Len(chain) - walk.skip - Len(walk.out) <= 1
    /\ walk.outcome = "truncated" => Len(walk.out) = walk.room /\ Len(chain) = walk.skip + walk.room + 1
    /\ walk.outcome = "complete" => walk.fp = 0 \/ Last(chain) = walk.fp
    /\ walk.outcome = "no frames" => chain = <<>>

(* What is published is the fastest of the batches of one size, one of     *)
(* which the clock could time, and measuring ends: past its budget by no   *)
(* more than the batch under way (measure_cost).                           *)
CostIsMeasured ==
    /\ cost.captures <= 2 * MAX_BATCH
    /\ cost.spent < BUDGET + Max(Elapsed)
    /\ \A i \in DOMAIN cost.published :
           LET of == {j \in DOMAIN cost.timed : cost.timed[j].captures = cost.published[i].captures} IN
           /\ Cardinality(of) <= BATCHES
           /\ cost.published[i].nanos = Min({cost.timed[j].elapsed : j \in of})
           /\ \E j \in of : cost.timed[j].elapsed >= TARGET

(* A capture starts at the code that allocated, whatever the strategy and  *)
(* however many frames its machinery puts below it, holds as many of its   *)
(* frames as the depth asks and the buffer and the platform leave room     *)
(* for, and is called complete only with all of them (calibrate,           *)
(* depth_room, system.rs).                                                 *)
LeftFor(strategy, m, buffer) ==
    CASE strategy = "frame-pointer" -> buffer
      [] strategy = "unix" -> buffer - m
      [] OTHER -> Smaller(buffer, WINDOWS_LIMIT - m)

CapturesTheCallers(strategy, m, n, depth, buffer, capacity) ==
    LET skip == Calibrated(strategy, m, n, capacity)
        captured == ShimCapture(strategy, Machinery(m) \o Program(n), skip, depth, buffer)
        held == Min({depth, n, LeftFor(strategy, m, buffer)}) IN
    m < buffer /\ m + 2 <= capacity /\ capacity <= WINDOWS_LIMIT =>
        /\ captured.frames = SubSeq(Program(n), 1, held)
        /\ captured.outcome = "complete" => held = n
        /\ held < n => captured.outcome = "truncated"
=============================================================================
