------------------------------- MODULE RawMap -------------------------------
(***************************************************************************)
(* The open-addressing table of the live blocks and of the interned points *)
(* (internals/table.rs): linear probing, a removal that closes its gap by  *)
(* moving later entries back, growth up to a ceiling.                      *)
(*                                                                         *)
(* The two loops that move entries are stepped, for a fork may copy the    *)
(* table between two of their iterations.  Everything else is one step: a  *)
(* caller holds the shard's lock.                                          *)
(***************************************************************************)
EXTENDS Integers, Sequences, FiniteSets

S == INSTANCE SequencesExt

CONSTANTS Keys, Values, NoEntry,
          MaxSlots,     \* bound on the ceilings, which are powers of two
          MIN_CAPACITY  \* slots of the first table

MAX_LOAD_NUM == 1
MAX_LOAD_DEN == 2

\* What slots_per_shard returns.
Power[i \in 0..MaxSlots] == IF i = 0 THEN 1 ELSE 2 * Power[i - 1]
Ceilings == {Power[i] : i \in 1..MaxSlots} \cap 1..MaxSlots
ASSUME KeysAssumption == IsFiniteSet(Keys) /\ Values # {}
ASSUME CeilingsAssumption == {MaxSlots, MIN_CAPACITY} \subseteq Ceilings
ASSUME NoEntryAssumption == NoEntry \notin Keys \cup [key : Keys, value : Values]

VARIABLES hash,          \* mix, one choice of it: where a key's probes start
          entries,       \* the slots, numbered from 0
          len, max_capacity,
          op,            \* the loop under way and its locals
          answer,        \* what the last call returned
          order          \* history: the keys in the order these slots got them

tableVars == <<entries, len, max_capacity>>
rawVars == <<hash, tableVars, op, answer, order>>

NoTable == [i \in {} |-> NoEntry]
Empty(n) == [i \in 0..(n - 1) |-> NoEntry]
Capacity(table) == Cardinality(DOMAIN table)
capacity == Capacity(entries)

NoAnswer == [answer |-> "none"]
\* Insert::Full is "full" at the ceiling and "no_memory" where the arena refuses.
Answer(k, how) == [answer |-> how, key |-> k]
Gives(k, v) == [answer |-> "some", key |-> k, value |-> v]
Idle == [loop |-> "idle"]

TableInit ==
    /\ hash \in [Keys -> 0..(MaxSlots - 1)]
    /\ entries = NoTable
    /\ len = 0
    /\ max_capacity \in Ceilings
    /\ op = Idle
    /\ answer = NoAnswer
    /\ order = << >>

-----------------------------------------------------------------------------
(* Probing *)

\* The slot n probes after the home of k.
ProbeAt(table, k, n) == (hash[k] + n) % Capacity(table)

\* The first slot of a key's probes that is empty or its own.
Stops(table, k) ==
    {n \in DOMAIN table :
        /\ LET e == table[ProbeAt(table, k, n)] IN e = NoEntry \/ e.key = k
        /\ \A m \in 0..(n - 1) :
              LET e == table[ProbeAt(table, k, m)] IN e # NoEntry /\ e.key # k}

Stop(table, k) == ProbeAt(table, k, CHOOSE n \in Stops(table, k) : TRUE)

Holds(table, k) == Stops(table, k) # {} /\ table[Stop(table, k)] # NoEntry

Store(table, k, v) == [table EXCEPT ![Stop(table, k)] = [key |-> k, value |-> v]]

-----------------------------------------------------------------------------
(* insert *)

NeedsGrowth == (len + 1) * MAX_LOAD_DEN > capacity * MAX_LOAD_NUM

NewCapacity == IF capacity # 0 THEN 2 * capacity
               ELSE IF MIN_CAPACITY < max_capacity THEN MIN_CAPACITY ELSE max_capacity

Replace(k, v) ==
    /\ Holds(entries, k)
    /\ entries' = Store(entries, k, v)
    /\ answer' = Answer(k, "replaced")
    /\ UNCHANGED <<len, order>>

\* insert_no_grow
Add(k, v) ==
    \/ Replace(k, v)
    \/ /\ ~Holds(entries, k) /\ Stops(entries, k) # {}
       /\ entries' = Store(entries, k, v)
       /\ len' = len + 1
       /\ order' = Append(order, k)
       /\ answer' = Answer(k, "added")
    \/ /\ Stops(entries, k) = {}
       /\ answer' = Answer(k, "full")
       /\ UNCHANGED <<entries, len, order>>

InsertInPlace(k, v) ==
    /\ op = Idle
    /\ ~NeedsGrowth
    /\ Add(k, v)
    /\ UNCHANGED <<hash, max_capacity, op>>

\* Mutant: no more keys means no more values either.
InsertWithoutRoomRefuses(k, v) ==
    /\ op = Idle
    /\ NeedsGrowth
    /\ NewCapacity > max_capacity
    /\ answer' = Answer(k, "full")
    /\ UNCHANGED <<hash, tableVars, op, order>>

\* No growth: the ceiling, or the arena.  A key that is there is still updated.
InsertWithoutRoom(k, v) ==
    /\ op = Idle
    /\ NeedsGrowth
    /\ \/ Replace(k, v)
       \/ /\ ~Holds(entries, k)
          /\ answer' = Answer(k, IF NewCapacity > max_capacity THEN "full" ELSE "no_memory")
          /\ UNCHANGED <<entries, len, order>>
    /\ UNCHANGED <<hash, max_capacity, op>>

\* grow: new slots, all empty.
Grow(k, v) ==
    /\ op = Idle
    /\ NeedsGrowth
    /\ NewCapacity <= max_capacity
    /\ entries' = Empty(NewCapacity)
    /\ len' = 0
    /\ order' = << >>
    /\ op' = [loop |-> "rehash", key |-> k, value |-> v, old |-> entries, index |-> 0]
    /\ UNCHANGED <<hash, max_capacity, answer>>

\* One of the old slots.
Rehash ==
    /\ op.loop = "rehash"
    /\ op.index \in DOMAIN op.old
    /\ LET e == op.old[op.index]
       IN  IF e = NoEntry THEN UNCHANGED <<entries, len, order>>
           ELSE /\ entries' = Store(entries, e.key, e.value)
                /\ len' = len + 1
                /\ order' = Append(order, e.key)
    /\ op' = [op EXCEPT !.index = @ + 1]
    /\ UNCHANGED <<hash, max_capacity, answer>>

\* The old slots are done: the insertion that asked for the growth.
Grown ==
    /\ op.loop = "rehash"
    /\ op.index \notin DOMAIN op.old
    /\ Add(op.key, op.value)
    /\ op' = Idle
    /\ UNCHANGED <<hash, max_capacity>>

-----------------------------------------------------------------------------
(* remove: Knuth's Algorithm R *)

Without(k) == S!RemoveAt(order, CHOOSE i \in DOMAIN order : order[i] = k)

Remove(k) ==
    /\ op = Idle
    /\ IF Holds(entries, k)
       THEN LET gap == Stop(entries, k)
            IN  /\ answer' = Gives(k, entries[gap].value)
                /\ len' = len - 1
                /\ order' = Without(k)
                /\ op' = [loop |-> "shift", key |-> k, gap |-> gap, index |-> gap,
                          left |-> capacity]
       ELSE /\ answer' = Answer(k, "none")
            /\ UNCHANGED <<len, order, op>>
    /\ UNCHANGED <<hash, entries, max_capacity>>

\* How far back from the slot i the slot j is.
Behind(i, j) == (i - j) % capacity

\* Mutant: an entry is moved before its own home.
ShiftAlways ==
    /\ op.loop = "shift"
    /\ op.left > 0
    /\ LET index == (op.index + 1) % capacity
           next == entries[index]
       IN  /\ next # NoEntry
           /\ entries' = [entries EXCEPT ![op.gap] = next]
           /\ op' = [op EXCEPT !.index = index, !.left = @ - 1, !.gap = index]
    /\ UNCHANGED <<hash, len, max_capacity, answer, order>>

\* The next entry of the cluster moves into the gap if its probes pass it.
Shift ==
    /\ op.loop = "shift"
    /\ op.left > 0
    /\ LET index == (op.index + 1) % capacity
           next == entries[index]
           moves == Behind(index, hash[next.key]) >= Behind(index, op.gap)
       IN  /\ next # NoEntry
           /\ entries' = IF moves THEN [entries EXCEPT ![op.gap] = next] ELSE entries
           /\ op' = [op EXCEPT !.index = index, !.left = @ - 1,
                               !.gap = IF moves THEN index ELSE @]
    /\ UNCHANGED <<hash, len, max_capacity, answer, order>>

\* The cluster has ended, and the last gap is emptied.
Close ==
    /\ op.loop = "shift"
    /\ op.left = 0 \/ entries[(op.index + 1) % capacity] = NoEntry
    /\ entries' = [entries EXCEPT ![op.gap] = NoEntry]
    /\ op' = Idle
    /\ UNCHANGED <<hash, len, max_capacity, answer, order>>

-----------------------------------------------------------------------------
ForEachMut ==
    /\ op = Idle
    /\ \E v \in Values :
          entries' = [i \in DOMAIN entries |->
                        IF entries[i] = NoEntry THEN NoEntry ELSE [entries[i] EXCEPT !.value = v]]
    /\ answer' = NoAnswer
    /\ UNCHANGED <<hash, len, max_capacity, op, order>>

Clear ==
    /\ op = Idle
    /\ entries' = Empty(capacity)
    /\ len' = 0
    /\ order' = << >>
    /\ answer' = NoAnswer
    /\ UNCHANGED <<hash, max_capacity, op>>

SetMaxCapacity ==
    /\ op = Idle
    /\ max_capacity' \in Ceilings
    /\ answer' = NoAnswer
    /\ UNCHANGED <<hash, entries, len, op, order>>

Insert(k, v) == InsertInPlace(k, v) \/ InsertWithoutRoom(k, v) \/ Grow(k, v)

TableNext ==
    \/ \E k \in Keys : (\E v \in Values : Insert(k, v)) \/ Remove(k)
    \/ Rehash \/ Grown
    \/ Shift \/ Close
    \/ ForEachMut \/ Clear \/ SetMaxCapacity

TableSpec == TableInit /\ [][TableNext]_rawVars

-----------------------------------------------------------------------------
(* Properties *)

IsTable(table) == \E n \in {0} \cup Ceilings :
                    table \in [0..(n - 1) -> [key : Keys, value : Values] \cup {NoEntry}]

Live == {i \in DOMAIN entries : entries[i] # NoEntry}
Holding(k) == {i \in Live : entries[i].key = k}

SlotsTypeOK ==
    /\ hash \in [Keys -> 0..(MaxSlots - 1)]
    /\ IsTable(entries)
    /\ len \in 0..Cardinality(Keys)
    /\ max_capacity \in Ceilings
    /\ op.loop \in {"idle", "shift", "rehash"}
    /\ op.loop = "shift" => {op.gap, op.index} \subseteq DOMAIN entries
    /\ op.loop = "rehash" => IsTable(op.old)
    /\ answer.answer \in {"none", "some", "added", "replaced", "full", "no_memory"}
    /\ order \in Seq(Keys)

\* "The table is then exactly what it would be had the key never been inserted"
\* (remove): whatever was removed, in whatever cluster, the slots hold the
\* remaining keys where inserting just those, in their order, would put them.
KeysOf(table) == [i \in DOMAIN table |-> IF table[i] = NoEntry THEN NoEntry ELSE table[i].key]

Rebuilt ==
    LET inserted[n \in 0..Len(order)] ==
            IF n = 0 THEN Empty(capacity)
            ELSE Store(inserted[n - 1], order[n], CHOOSE v \in Values : TRUE)
    IN  inserted[Len(order)]

AsIfNeverInserted == op.loop # "shift" => KeysOf(entries) = KeysOf(Rebuilt)

\* What a fork may copy in the middle of a removal: one entry twice, or the
\* removed one still, and every other entry once, where a lookup finds it.
MidShiftIsOneTwice ==
    op.loop = "shift" =>
       /\ Cardinality(Live) = len + 1
       /\ \A k \in Keys \ {op.key} : Holding(k) # {} => Holds(entries, k)
       /\ Cardinality({entries[i].key : i \in Live} \ {op.key}) = len

\* "Live blocks a table built for max_blocks can actually hold": while the
\* arena has memory, a key is refused only with half of the ceiling's slots
\* taken.  No sequence of insertions and removals wears the table out.
FullOnlyAtTheCeiling ==
    op = Idle /\ answer.answer = "full" => 2 * Cardinality(Live) >= max_capacity

\* The abstract map: a removal under way has happened, what a growth has yet to
\* rehash is still there, and an answer is given when the call ends.
HasEntry(table, k) == \E i \in DOMAIN table : table[i] # NoEntry /\ table[i].key = k
EntryOf(table, k) == table[CHOOSE i \in DOMAIN table : table[i] # NoEntry /\ table[i].key = k]

MapOf(table, old, gone) ==
    [k \in {j \in Keys \ gone : HasEntry(table, j) \/ HasEntry(old, j)} |->
        IF HasEntry(table, k) THEN EntryOf(table, k).value ELSE EntryOf(old, k).value]

Mapping == MapOf(entries, IF op.loop = "rehash" THEN op.old ELSE NoTable,
                          IF op.loop = "shift" THEN {op.key} ELSE {})

Abstract == INSTANCE BoundedMap WITH map <- Mapping

\* The table is a map: each call answers, and leaves behind, what a map would.
ImplementsBoundedMap == Abstract!MapSpec

\* What the slots hold, at rest and in the middle of a removal.
Layout == SlotsTypeOK /\ AsIfNeverInserted /\ MidShiftIsOneTwice /\ FullOnlyAtTheCeiling
=============================================================================
