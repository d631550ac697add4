------------------------------ MODULE PpIntern ------------------------------
(***************************************************************************)
(* Interning of call stacks into program points                            *)
(* (src/src/internals/pp.rs, PpTable::intern) by several threads, each     *)
(* shard under its lock, over one arena that can be full                   *)
(* (src/src/internals/arena.rs).  Stacks may share a hash, and points may  *)
(* share a shard.                                                          *)
(***************************************************************************)
EXTENDS Arena, FiniteSets

CONSTANTS
    Callers, Stacks,
    Keys,            \* the usable hashes of stacks
    SHARDS,          \* shards of the table
    MAX_POINTS,      \* the ceiling on points
    FIRST_CAPACITY,  \* elements in the first block of an ArenaVec
    OVERFLOW,        \* the id of the overflow point, the largest there is
    Limits,          \* bounds on the arena's bytes that are tried
    FrameWords,      \* bound: the words a stack may take
    MaxInterns       \* bound: calls of intern

ASSUME TableAssumption ==
    /\ IsFiniteSet(Callers) /\ Keys \subseteq Nat
    /\ {SHARDS, FIRST_CAPACITY} \subseteq Nat \ {0}
    /\ {MAX_POINTS, OVERFLOW, MaxInterns} \cup Limits \cup FrameWords \subseteq Nat

\* Record, and a slot of the map.
RecordLayout == Layout(2, 1)
SlotLayout   == Layout(2, 1)
MIN_CAPACITY == 2

VARIABLES
    hash,      \* the key of each stack
    frames,    \* the words of each stack
    arena,
    records,   \* the records of each shard, an ArenaVec
    intern,    \* the map of each shard from a key to an index
    sequence,  \* next_sequence
    call,      \* where each thread is in intern, and its locals
    answers,   \* history: the answers given, in their order
    leaked     \* history: words of frames no record reaches

internVars == <<hash, frames, arena, records, intern, sequence, call, answers, leaked>>

-----------------------------------------------------------------------------
ShardIds   == 0..SHARDS - 1
ShardOf(s) == hash[s] % SHARDS

\* Shard::new: max_points / SHARDS records, and four slots for each.
MaxRecords == MAX_POINTS \div SHARDS
MaxSlots   == 4 * MaxRecords

\* PpId::new for the index'th record of a shard, counted from 1, and back.
PpId(shard, index)  == shard + (index - 1) * SHARDS
HasId(shard, index) == PpId(shard, index) < OVERFLOW
RecordAt(id) == records[id % SHARDS].elements[id \div SHARDS + 1]

Idle == [at |-> "idle"]
NoMap == [index |-> [k \in {} |-> 0], slots |-> 0, wasted |-> 0]
Busy == {t \in Callers : call[t] # Idle}

InternInit ==
    /\ hash \in [Stacks -> Keys]
    /\ frames \in [Stacks -> FrameWords]
    /\ \E limit \in Limits : arena = EmptyArena(limit)
    /\ records = [i \in ShardIds |-> EmptyVec(MaxRecords)]
    /\ intern = [i \in ShardIds |-> NoMap]
    /\ sequence = 0
    /\ call = [t \in Callers |-> Idle]
    /\ answers = <<>>
    /\ leaked = 0

\* intern returns and its guard unlocks the shard.
Answers(t, id) ==
    /\ answers' = Append(answers, [stack |-> call[t].stack, id |-> id, before |-> call[t].before])
    /\ call' = [call EXCEPT ![t] = Idle]

\* A thread begins to intern a stack.
Begin(t, s) ==
    /\ call[t] = Idle
    /\ Len(answers) + Cardinality(Busy) < MaxInterns
    /\ call' = [call EXCEPT ![t] = [at |-> "lookup", stack |-> s, before |-> Len(answers)]]
    /\ UNCHANGED <<hash, frames, arena, records, intern, sequence, answers, leaked>>

Locked(shard) == \E t \in Busy : call[t].at # "lookup" /\ ShardOf(call[t].stack) = shard

\* Mutant: the hash decides.
FoundByHash(s) == hash[s] \in DOMAIN intern[ShardOf(s)].index

\* The index a key leads to is taken only if its record has these very frames.
Found(s) ==
    LET shard == ShardOf(s) IN
    /\ hash[s] \in DOMAIN intern[shard].index
    /\ records[shard].elements[intern[shard].index[hash[s]]].stack = s

\* The lookup takes the shard's lock.
Lookup(t) ==
    /\ call[t].at = "lookup"
    /\ LET s == call[t].stack  shard == ShardOf(s) IN
        /\ ~Locked(shard)
        /\ IF Found(s) THEN Answers(t, PpId(shard, intern[shard].index[hash[s]]))
           ELSE call' = [call EXCEPT ![t].at = "frames"] /\ UNCHANGED answers
    /\ UNCHANGED <<hash, frames, arena, records, intern, sequence, leaked>>

\* arena.alloc_slice of the frames.
StoreFrames(t) ==
    /\ call[t].at = "frames"
    /\ \E r \in Alloc(arena, Layout(frames[call[t].stack], 1)) :
        /\ arena' = r.arena
        /\ IF r.ok
           THEN /\ call' = [call EXCEPT ![t] = [at |-> "number", stack |-> @.stack,
                                            before |-> @.before, block |-> r.block]]
                /\ UNCHANGED answers
           ELSE Answers(t, OVERFLOW)
    /\ UNCHANGED <<hash, frames, records, intern, sequence, leaked>>

\* Mutant: numbered within the shard.
NumberInShard(t) ==
    /\ call[t].at = "number"
    /\ call' = [call EXCEPT ![t] = [at |-> "push", stack |-> @.stack, before |-> @.before,
                                block |-> @.block,
                                sequence |-> Len(records[ShardOf(@.stack)].elements)]]
    /\ UNCHANGED <<hash, frames, arena, records, intern, sequence, answers, leaked>>

\* next_sequence.fetch_add.
Number(t) ==
    /\ call[t].at = "number"
    /\ sequence' = sequence + 1
    /\ call' = [call EXCEPT ![t] = [at |-> "push", stack |-> @.stack, before |-> @.before,
                                block |-> @.block, sequence |-> sequence]]
    /\ UNCHANGED <<hash, frames, arena, records, intern, answers, leaked>>

\* records.push, and the id of what it pushed.
PushRecord(t) ==
    /\ call[t].at = "push"
    /\ LET s == call[t].stack
           shard == ShardOf(s)
           record == [stack |-> s, block |-> call[t].block, sequence |-> call[t].sequence]
       IN \E r \in Push(arena, records[shard], record, FIRST_CAPACITY, RecordLayout) :
           /\ arena' = r.arena
           /\ records' = [records EXCEPT ![shard] = r.vec]
           /\ leaked' = IF r.index = 0 THEN leaked + frames[s] ELSE leaked
           /\ IF r.index # 0 /\ HasId(shard, r.index)
              THEN /\ call' = [call EXCEPT ![t] = [at |-> "insert", stack |-> s,
                                               before |-> @.before, index |-> r.index]]
                   /\ UNCHANGED answers
              ELSE Answers(t, OVERFLOW)
    /\ UNCHANGED <<hash, frames, intern, sequence>>

\* RawMap::insert: what the map may become, by itself or in a larger table, or
\* Full when the key is new and there is no larger table (module RawMap).
Indexed(map, key, index) ==
    [map EXCEPT !.index = [k \in DOMAIN map.index \cup {key} |->
                             IF k = key THEN index ELSE map.index[k]]]

NeedsGrowth(map) == 2 * (Cardinality(DOMAIN map.index) + 1) > map.slots
NewSlots(map) == Smaller(IF map.slots = 0 THEN MIN_CAPACITY ELSE 2 * map.slots, MaxSlots)
WithMoreSlots(map) == [map EXCEPT !.slots = NewSlots(map), !.wasted = @ + map.slots * SlotLayout.size]

InsertKey(a, map, key, index) ==
    LET InPlace(b) == [arena |-> b, map |-> Indexed(map, key, index),
                       full |-> key \notin DOMAIN map.index]
    IN  IF ~NeedsGrowth(map)
        THEN {[arena |-> a, map |-> Indexed(map, key, index), full |-> FALSE]}
        ELSE IF NewSlots(map) = map.slots THEN {InPlace(a)}
        ELSE {IF r.ok
              THEN [arena |-> r.arena, map |-> Indexed(WithMoreSlots(map), key, index), full |-> FALSE]
              ELSE InPlace(r.arena) :
              r \in Alloc(a, Layout(NewSlots(map) * SlotLayout.size, SlotLayout.align))}

\* intern.insert: a colliding key is led to the new record.
InsertIndex(t) ==
    /\ call[t].at = "insert"
    /\ LET s == call[t].stack  shard == ShardOf(s) IN
        \E r \in InsertKey(arena, intern[shard], hash[s], call[t].index) :
           /\ arena' = r.arena
           /\ intern' = IF r.full THEN intern ELSE [intern EXCEPT ![shard] = r.map]
           /\ Answers(t, IF r.full THEN OVERFLOW ELSE PpId(shard, call[t].index))
    /\ UNCHANGED <<hash, frames, records, sequence, leaked>>

Interned == Len(answers) = MaxInterns /\ Busy = {} /\ UNCHANGED internVars

InternNext ==
    \/ Interned
    \/ \E t \in Callers :
           \/ \E s \in Stacks : Begin(t, s)
           \/ Lookup(t) \/ StoreFrames(t) \/ Number(t) \/ PushRecord(t) \/ InsertIndex(t)

InternSpec == InternInit /\ [][InternNext]_internVars

-----------------------------------------------------------------------------
Points(shard) == records[shard].elements
Pushed == UNION {{<<i, n>> : n \in DOMAIN Points(i)} : i \in ShardIds}
RecordOf(p) == Points(p[1])[p[2]]

(***************************************************************************)
(* Types, and the shard's lock: at most one thread is in a shard.          *)
(***************************************************************************)
PointsTypeOK ==
    /\ sequence \in 0..MaxInterns
    /\ \A i \in ShardIds :
        /\ Len(Points(i)) <= records[i].capacity
        /\ records[i].capacity <= MaxRecords
        /\ 2 * Cardinality(DOMAIN intern[i].index) <= intern[i].slots
        /\ intern[i].slots <= MaxSlots
        /\ \A k \in DOMAIN intern[i].index : intern[i].index[k] \in DOMAIN Points(i)
        /\ Cardinality({t \in Busy : call[t].at # "lookup" /\ ShardOf(call[t].stack) = i}) <= 1
    /\ \A n \in DOMAIN answers : answers[n].id \in 0..OVERFLOW

(***************************************************************************)
(* PpTable::intern: an id leads to the stack it was answered for, for ever *)
(* and for every stack that was ever given it.  Stacks that share a hash   *)
(* are not merged, and no id is the overflow point's.                      *)
(***************************************************************************)
AnswersLead ==
    \A n \in DOMAIN answers :
        answers[n].id # OVERFLOW => RecordAt(answers[n].id).stack = answers[n].stack

(***************************************************************************)
(* A stack has a second record only if another stack of its shard has its  *)
(* hash, or something was refused before: the arena, the ceiling on        *)
(* records, the ids or the map.                                            *)
(***************************************************************************)
OneRecordEach ==
    \A p, q \in Pushed :
        p # q /\ RecordOf(p).stack = RecordOf(q).stack =>
            \/ \E s \in Stacks \ {RecordOf(p).stack} : hash[s] = hash[RecordOf(p).stack]
            \/ \E n \in DOMAIN answers :
                   answers[n].id = OVERFLOW /\ answers[n].stack = RecordOf(p).stack

(***************************************************************************)
(* Record::sequence orders points by their creation: a point created by a  *)
(* call that began after another call had returned comes after the point   *)
(* that call answered, in whatever shards they are; and within a shard the *)
(* records are in that order.                                              *)
(***************************************************************************)
CreationOrder ==
    /\ \A n \in DOMAIN answers : \A m \in 1..answers[n].before :
        LET x == answers[n].id  y == answers[m].id IN
        x # OVERFLOW /\ y # OVERFLOW /\ (\A i \in 1..n - 1 : answers[i].id # x) =>
            RecordAt(y).sequence < RecordAt(x).sequence
    /\ \A i \in ShardIds : \A m, n \in DOMAIN Points(i) :
        m < n => Points(i)[m].sequence < Points(i)[n].sequence
    /\ \A p, q \in Pushed : RecordOf(p).sequence = RecordOf(q).sequence => p = q

(***************************************************************************)
(* The arena: frames and records lie in chunks, apart from each other; and *)
(* every word handed out, the maps' included, is in PpTable::bytes, is     *)
(* what growth wasted, or is the frames of a call under way or refused.    *)
(***************************************************************************)
FrameBlocks == {RecordOf(p).block : p \in Pushed}
                 \cup {call[t].block : t \in {u \in Busy : call[u].at \in {"number", "push"}}}
VecBlocks == {records[i].block : i \in ShardIds}
Blocks == {b \in FrameBlocks \cup VecBlocks : b.size # 0}

TableBytes ==   \* PpTable::bytes
    SumFunction([i \in ShardIds |-> intern[i].slots * SlotLayout.size + VecBytes(records[i], RecordLayout)])
      + SumFunction([p \in Pushed |-> frames[RecordOf(p).stack]])
Wasted == SumFunction([i \in ShardIds |-> intern[i].wasted + records[i].wasted])
UnderWay ==
    SumFunction([t \in Callers |-> IF call[t].at \in {"number", "push"} THEN frames[call[t].stack] ELSE 0])

ArenaExact ==
    /\ Within(arena)
    /\ \A b \in Blocks : Inside(arena, b) /\ \A c \in Blocks \ {b} : Apart(b, c)
    /\ arena.bytes_used = TableBytes + Wasted + UnderWay + leaked

\* One record for each stack, records in the order of their creation, and the
\* books of the tables and of the arena.
TablesAgree == PointsTypeOK /\ OneRecordEach /\ CreationOrder /\ ArenaExact
=============================================================================
