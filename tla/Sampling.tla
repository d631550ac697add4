------------------------------ MODULE Sampling ------------------------------
(***************************************************************************)
(* sampler.rs and shape.rs: which requests a sampled run records, and what *)
(* the histograms say of all of them.                                      *)
(*                                                                         *)
(* The sample points are a Poisson process over the bytes one guard slot   *)
(* is asked for; a gap between two of them is any positive number, however *)
(* the generator draws it.  `position` and `points` are the process itself,*)
(* which the code never holds: it keeps the distance to the next point.    *)
(***************************************************************************)
EXTENDS Integers, Sequences, FiniteSetsExt, SequencesExt

CONSTANTS Bits,    \* of a usize
          Sizes,   \* requests are of these sizes
          Gaps,    \* draws of the generator
          MaxRequests  \* bound

ConstantsAssumption ==
    /\ Bits \in Nat \ {0} /\ MaxRequests \in Nat
    /\ Sizes \subseteq 0..(2^Bits - 1)
    /\ Gaps \subseteq Nat \ {0} /\ Gaps # {} /\ IsFiniteSet(Gaps)  \* a draw is a u64

(* What `1 << class` doubles: arithmetic, of which the provers know nothing. *)
PowersDouble == \A b \in 0..(Bits - 1) : 2^b \in Nat \ {0} /\ 2^(b + 1) = 2 * 2^b

SIZE_CLASSES == 0..Bits
MAX == 2^Bits - 1

VARIABLES countdown,        \* bytes to the next sample point, 0 before the first draw
          position, points, \* bytes asked for since that draw, and the points drawn
          shapes,           \* the counters of Shapes
          requests,         \* every request since the counts began
          asked,            \* how many there have been
          spans             \* the bytes of each that asked, and whether it was sampled
vars == <<countdown, position, points, shapes, requests, asked, spans>>

NoShapes == [observed |-> 0, sizes |-> [c \in SIZE_CLASSES |-> 0],
             zeroed_blocks |-> 0, zeroed_bytes |-> 0,
             reallocs |-> 0, moved |-> 0, copied |-> 0, grown |-> 0, shrunk |-> 0]

Init == /\ countdown = 0 /\ position = 0 /\ points = {}
        /\ shapes = NoShapes /\ requests = <<>> /\ asked = 0 /\ spans = {}

(***************************************************************************)
(* The sampler.  State::initialize draws before the first request, and     *)
(* State::admits again and again until a point lands beyond this one.      *)
(***************************************************************************)
Initialized(gap) == IF countdown = 0 THEN gap ELSE countdown

Total(gaps) == SumFunction(gaps)
Draws == UNION {[1..n -> Gaps] : n \in 1..(MAX + 1)}
EndsBeyond(gaps, remaining) == /\ Total(gaps) > remaining
                               /\ Total(Front(gaps)) <= remaining

(* A request of exactly what was left to the point is sampled. *)
PassedAtLast(size, left) == size <= left
Passed(size, left) == size < left

Answers(admitted, size) ==
    spans' = spans \cup {[from |-> position, to |-> position + size, admitted |-> admitted]}

Admits(size, first) ==
    LET left == Initialized(first)
        next == position + left IN
    /\ position' = position + size
    /\ IF Passed(size, left)
       THEN /\ countdown' = left - size
            /\ points' = points \cup {next}
            /\ Answers(FALSE, size)
       ELSE \E gaps \in Draws :
            /\ EndsBeyond(gaps, size - left)
            /\ countdown' = Total(gaps) - (size - left)
            /\ points' = points \cup {next + Total(SubSeq(gaps, 1, i)) : i \in 0..Len(gaps)}
            /\ Answers(TRUE, size)

(* A realloc of a block that was sampled is recorded without asking, and   *)
(* takes no bytes off the countdown.                                       *)
Follows == UNCHANGED <<countdown, position, points, spans>>

(***************************************************************************)
(* The histograms count every request, sampled or not: Shapes::record, and *)
(* Shapes::record_realloc beside it.                                       *)
(***************************************************************************)
LeadingZeros(size) == Cardinality({b \in 0..(Bits - 1) : size < 2^b})
SizeClass(size) == Bits - LeadingZeros(size)
SizeClassFloor(class) == IF class = 0 THEN 0 ELSE 2^(class - 1)
SizeClassCeiling(class) == IF class = Bits THEN MAX ELSE 2^class - 1

Recorded(s, size, zeroed) ==
    [s EXCEPT !.observed = @ + 1,
              !.sizes[SizeClass(size)] = @ + 1,
              !.zeroed_blocks = IF zeroed THEN @ + 1 ELSE @,
              !.zeroed_bytes = IF zeroed THEN @ + size ELSE @]

BytesCopied(old, new, moved) == IF moved THEN Min({old, new}) ELSE 0
RecordedRealloc(s, old, new, moved) ==
    [s EXCEPT !.reallocs = @ + 1,
              !.moved = IF moved THEN @ + 1 ELSE @,
              !.copied = @ + BytesCopied(old, new, moved),
              !.grown = IF new > old THEN @ + new - old ELSE @,
              !.shrunk = IF new > old THEN @ ELSE @ + old - new]

Request(r) == asked < MaxRequests /\ asked' = asked + 1 /\ requests' = Append(requests, r)

(* Engine::observe *)
Observe(size, zeroed, first) ==
    /\ Request([size |-> size, zeroed |-> zeroed, old |-> 0, is |-> "alloc"])
    /\ shapes' = Recorded(shapes, size, zeroed)
    /\ Admits(size, first)

(* Engine::observe_realloc *)
ObserveRealloc(old, new, moved, tracked, first) ==
    /\ Request([size |-> new, zeroed |-> FALSE, old |-> old,
                is |-> IF moved THEN "moved" ELSE "in place"])
    /\ shapes' = Recorded(RecordedRealloc(shapes, old, new, moved), new, FALSE)
    /\ IF tracked THEN Follows ELSE Admits(new, first)

(* Shapes::clear, as the counts restart. *)
Clear == /\ requests # <<>>
         /\ shapes' = NoShapes /\ requests' = <<>>
         /\ UNCHANGED <<countdown, position, points, asked, spans>>

(* State::clear, as another thread takes the slot. *)
ClearSlot == /\ points # {}
             /\ countdown' = 0 /\ position' = 0 /\ points' = {} /\ spans' = {}
             /\ UNCHANGED <<shapes, requests, asked>>

Next == \/ \E size \in Sizes, first \in Gaps :
             \/ \E zeroed \in BOOLEAN : Observe(size, zeroed, first)
             \/ \E old \in Sizes, moved, tracked \in BOOLEAN :
                    ObserveRealloc(old, size, moved, tracked, first)
        \/ Clear \/ ClearSlot

Spec == Init /\ [][Next]_vars

(***************************************************************************)
(* ShapeStats::commonest_size: of the classes with the most requests, the  *)
(* smallest; none where there are none.                                    *)
(***************************************************************************)
Used == {c \in SIZE_CLASSES : shapes.sizes[c] # 0}
CommonestSize == CHOOSE c \in Used : \A other \in Used :
                    \/ shapes.sizes[c] > shapes.sizes[other]
                    \/ shapes.sizes[c] = shapes.sizes[other] /\ c <= other
-----------------------------------------------------------------------------
TypeOK == /\ countdown \in 0..Max(Gaps) /\ position \in Nat
          /\ DOMAIN shapes.sizes = SIZE_CLASSES

(* The countdown is the distance to the first point not reached yet: no    *)
(* request moves the process, however its bytes are cut.                   *)
CountdownIsDistance ==
    points # {} => countdown > 0 /\ position + countdown = Max(points)

(* Every request is in the class whose bounds hold its size, the commonest *)
(* class is one that most requests are in, and the bytes grown less those  *)
(* shrunk are what the reallocations did to the heap.                      *)
RequestsIn(class) ==
    {i \in DOMAIN requests :
        requests[i].size \in SizeClassFloor(class)..SizeClassCeiling(class)}
Reallocs == {i \in DOMAIN requests : requests[i].is # "alloc"}
Growth == [i \in Reallocs |-> requests[i].size - requests[i].old]
OldSizes == [i \in Reallocs |-> requests[i].old]
HistogramsAreExact ==
    /\ shapes.observed = Len(requests)
    /\ \A c \in SIZE_CLASSES : shapes.sizes[c] = Cardinality(RequestsIn(c))
    /\ requests # <<>> => \A c \in SIZE_CLASSES :
           Cardinality(RequestsIn(c)) <= Cardinality(RequestsIn(CommonestSize))
    /\ shapes.grown - shapes.shrunk = SumFunction(Growth)
    /\ shapes.copied <= SumFunction(OldSizes)

(* A request is sampled exactly when a point lands in its bytes: the last  *)
(* byte is in, the one before the first is not.                            *)
SampledWherePointsLand ==
    \A span \in spans :
        span.admitted <=> \E q \in points : span.from < q /\ q <= span.to

(* A sampled run records the requests that one process of points lands in, *)
(* and its histograms count every request (sampler.rs, "What is sampled is *)
(* bytes"; shape.rs).                                                      *)
SampledAndCounted ==
    TypeOK /\ CountdownIsDistance /\ SampledWherePointsLand /\ HistogramsAreExact
=============================================================================
