------------------------------- MODULE Arena -------------------------------
(***************************************************************************)
(* The chunked bump allocator behind the profiler's tables and its         *)
(* growable array (src/src/internals/arena.rs), as operators on the value  *)
(* of their states: every call runs under the arena's lock, and no caller  *)
(* sees another's in the middle (module ForkLocks has the locks).          *)
(*                                                                         *)
(* Sizes are in words.  The address of a byte is the chunk it lies in and  *)
(* its distance from the last MaxAlign boundary before that chunk, for all *)
(* the code asks of an address is its alignment.                           *)
(***************************************************************************)
EXTENDS Integers, Sequences, Functions

CONSTANTS
    CHUNK_ALIGN,  \* alignment of a chunk
    HEADER,       \* size of a chunk's header
    FIRST_CHUNK,  \* size of the first chunk
    MAX_CHUNK,    \* size at which chunks stop doubling
    MaxAlign      \* bound: the largest alignment asked for

ASSUME ArenaAssumption ==
    /\ {CHUNK_ALIGN, FIRST_CHUNK, MAX_CHUNK, MaxAlign} \subseteq Nat \ {0}
    /\ HEADER \in Nat
    /\ FIRST_CHUNK <= MAX_CHUNK
    /\ MaxAlign % CHUNK_ALIGN = 0

\* Where a chunk the system allocator returns may begin.
Phases == {i * CHUNK_ALIGN : i \in 0..(MaxAlign \div CHUNK_ALIGN - 1)}

Smaller(a, b) == IF a < b THEN a ELSE b
Larger(a, b)  == IF a < b THEN b ELSE a

\* The first multiple of align that is not below x (next_multiple_of, and the
\* masking of an address).
RoundUp(x, align) == ((x + align - 1) \div align) * align

-----------------------------------------------------------------------------
\* ArenaState.  `cursor` and `end` lie in the last of the chunks.
EmptyArena(limit) ==
    [chunks |-> <<>>, cursor |-> 0, end |-> 0, next_chunk |-> FIRST_CHUNK,
     bytes_reserved |-> 0, bytes_used |-> 0, refused |-> 0, limit |-> limit,
     poisoned |-> FALSE]

Layout(size, align) == [size |-> size, align |-> align]

\* bump
Aligned(a, layout) == RoundUp(a.cursor, layout.align)
Fits(a, layout)    == a.chunks # <<>> /\ Aligned(a, layout) + layout.size <= a.end
Block(a, layout)   == [chunk |-> Len(a.chunks), at |-> Aligned(a, layout), size |-> layout.size]
Bumped(a, layout)  ==
    [a EXCEPT !.cursor = Aligned(a, layout) + layout.size,
              !.bytes_used = @ + (Aligned(a, layout) - a.cursor) + layout.size]

\* grow: room for the header, the padding and the request, whatever the phase.
ChunkFor(a, layout) ==
    RoundUp(Larger(a.next_chunk, HEADER + layout.align + layout.size), CHUNK_ALIGN)
CanGrow(a, layout) == a.bytes_reserved + ChunkFor(a, layout) <= a.limit
\* Mutant: the first block lies over the chunk's header.
GrownOverHeader(a, layout, phase) ==
    [a EXCEPT !.chunks = Append(@, [phase |-> phase, size |-> ChunkFor(a, layout)]),
              !.cursor = phase,
              !.end = phase + ChunkFor(a, layout),
              !.bytes_reserved = @ + ChunkFor(a, layout),
              !.next_chunk = Smaller(2 * @, MAX_CHUNK)]

Grown(a, layout, phase) ==
    [a EXCEPT !.chunks = Append(@, [phase |-> phase, size |-> ChunkFor(a, layout)]),
              !.cursor = phase + HEADER,
              !.end = phase + ChunkFor(a, layout),
              !.bytes_reserved = @ + ChunkFor(a, layout),
              !.next_chunk = Smaller(2 * @, MAX_CHUNK)]

Nothing == [chunk |-> 0, at |-> 0, size |-> 0]
Refusal(a) == [arena |-> [a EXCEPT !.refused = @ + 1], block |-> Nothing, ok |-> FALSE]
Grants(a, layout) == [arena |-> Bumped(a, layout), block |-> Block(a, layout), ok |-> TRUE]

\* alloc_locked: what an allocation may answer.  The system allocator chooses
\* the phase of a new chunk, or has no memory for it.
Alloc(a, layout) ==
    IF layout.size = 0 THEN {[arena |-> a, block |-> Nothing, ok |-> TRUE]}
    ELSE IF Fits(a, layout) THEN {Grants(a, layout)}
    ELSE {Refusal(a)} \cup
         (IF ~CanGrow(a, layout) THEN {}
          ELSE {LET g == Grown(a, layout, phase)
                IN  IF Fits(g, layout) THEN Grants(g, layout)
                    ELSE Refusal([g EXCEPT !.poisoned = TRUE]) : phase \in Phases})

-----------------------------------------------------------------------------
\* ArenaVec, its elements of one layout and its first capacity given.
EmptyVec(max) ==
    [elements |-> <<>>, capacity |-> 0, max_capacity |-> max, wasted |-> 0, block |-> Nothing]

NewVecCapacity(vec, first) ==
    Smaller(IF vec.capacity = 0 THEN first ELSE 2 * vec.capacity, vec.max_capacity)

VecBytes(vec, layout) == vec.capacity * layout.size

GrownVec(vec, first, layout, block) ==
    [vec EXCEPT !.capacity = NewVecCapacity(vec, first),
                !.wasted = @ + (IF vec.elements = <<>> THEN 0 ELSE VecBytes(vec, layout)),
                !.block = block]

\* push: the vector and the arena it may leave, and the index it answers or 0.
Push(a, vec, value, first, layout) ==
    IF Len(vec.elements) < vec.capacity
    THEN {[arena |-> a, vec |-> [vec EXCEPT !.elements = Append(@, value)],
           index |-> Len(vec.elements) + 1]}
    ELSE IF NewVecCapacity(vec, first) <= vec.capacity
    THEN {[arena |-> a, vec |-> vec, index |-> 0]}
    ELSE {IF r.ok
          THEN [arena |-> r.arena, index |-> Len(vec.elements) + 1,
                vec |-> [GrownVec(vec, first, layout, r.block)
                            EXCEPT !.elements = Append(@, value)]]
          ELSE [arena |-> r.arena, vec |-> vec, index |-> 0] :
          r \in Alloc(a, Layout(NewVecCapacity(vec, first) * layout.size, layout.align))}

-----------------------------------------------------------------------------
\* The arena's own books: no chunk past the limit, and the second attempt of an
\* allocation, in a chunk sized for it, has never failed.
Within(a) ==
    /\ a.bytes_reserved = SumFunction([i \in DOMAIN a.chunks |-> a.chunks[i].size])
    /\ a.bytes_reserved <= a.limit
    /\ a.bytes_used <= a.bytes_reserved - HEADER * Len(a.chunks)
    /\ ~a.poisoned

\* A block lies in its chunk, past the header.
Inside(a, b) ==
    LET c == a.chunks[b.chunk] IN b.at >= c.phase + HEADER /\ b.at + b.size <= c.phase + c.size

\* Two blocks share no byte.
Apart(b, c) == b.chunk # c.chunk \/ b.at + b.size <= c.at \/ c.at + c.size <= b.at
=============================================================================
