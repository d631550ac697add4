------------------------------- MODULE Sites -------------------------------
(***************************************************************************)
(* Who allocated and what for (src/src/internals/site.rs): the threads'    *)
(* rows, claimed without a lock and named by their owners, the regions'    *)
(* rows, interned under one, and what every recorded event adds to both    *)
(* (src/src/internals/engine.rs, site, attribute, outside_regions,         *)
(* flush_and_visit), beside a reader of the rows.                          *)
(*                                                                         *)
(* The peak gate is taken as module RWGate specifies it: recorders share   *)
(* it, a restart and an exclusive visit have it alone.  A row's blocks are *)
(* counted as its bytes are, by the same code, and are left out.           *)
(***************************************************************************)
EXTENDS Integers, Sequences, FiniteSets, Functions

CONSTANTS
    Recorders,      \* the threads that record
    Names,          \* names of regions, as the program gives them
    Kept,           \* Name::of: what is kept of each of them
    Sizes,          \* bytes of a block
    MAX_THREADS, MAX_REGIONS,
    NAME_ATTEMPTS,
    MaxSpent        \* bound: events, entries to regions and restarts, together

\* Ids that are not the index of a row: the shared row, and no row.
OVERFLOW == 65534
UNSET    == 65535
\* The state of a NameCell that will not change again.
SETTLED  == 255

ASSUME SitesAssumption ==
    /\ IsFiniteSet(Recorders) /\ Sizes \subseteq Nat
    /\ {MAX_THREADS, MAX_REGIONS} \subseteq 0..OVERFLOW - 1 /\ MaxSpent \in Nat
    /\ NAME_ATTEMPTS \in 1..SETTLED - 1
    /\ Kept \in [Names -> Names]

ThreadRow(id) == <<"thread", id>>
RegionRow(id) == <<"region", id>>
RegionIds  == (0..MAX_REGIONS - 1) \cup {OVERFLOW}
ThreadIds  == (0..MAX_THREADS - 1) \cup {OVERFLOW}
RegionRows == {RegionRow(i) : i \in RegionIds}
Rows == {ThreadRow(i) : i \in ThreadIds} \cup RegionRows

VARIABLES
    tally,      \* the counters of every row
    totals,     \* the engine's own
    poisoned,
    count,      \* Threads::count
    published,  \* the thread rows whose record is there
    names,      \* the NameCell of every thread row
    regions,    \* the kept names of the region rows, in their order
    entries,    \* times each region was entered
    active,     \* and not yet left
    pc,         \* what each recorder is doing, and its locals
    thread,     \* the thread row in each recorder's guard slot
    region,     \* the region in each recorder's guard slot
    guards,     \* the Region values each recorder has not dropped
    live,       \* the live blocks
    reader,     \* the reader of the rows, and what it has seen
    spent,      \* events, entries and restarts so far
    top,        \* history: the most each row held since the last restart
    outside     \* history: what was recorded outside every region

counts  == <<tally, totals, poisoned, top, outside, live>>
threads == <<count, published, names, thread>>
phases  == <<regions, entries, active, region, guards>>
vars    == <<counts, threads, phases, pc, reader, spent>>

Idle == [at |-> "idle"]
Zero == [total |-> 0, curr |-> 0]
Plus(c, total, delta) == [c EXCEPT !.total = @ + total, !.curr = @ + delta]
Greater(a, b) == IF a < b THEN b ELSE a

Init ==
    /\ tally = [r \in Rows |-> [total |-> 0, curr |-> 0, max |-> 0]]
    /\ totals = Zero
    /\ poisoned = FALSE
    /\ count = 0
    /\ published = {}
    /\ names = [i \in 0..MAX_THREADS - 1 |-> [bytes |-> <<>>, state |-> 0]]
    /\ regions = <<>>
    /\ entries = [r \in RegionIds |-> 0]
    /\ active = [r \in RegionIds |-> 0]
    /\ pc = [t \in Recorders |-> Idle]
    /\ thread = [t \in Recorders |-> UNSET]
    /\ region = [t \in Recorders |-> UNSET]
    /\ guards = [t \in Recorders |-> {}]
    /\ live = {}
    /\ reader = Idle
    /\ spent = 0
    /\ top = [r \in Rows |-> 0]
    /\ outside = Zero

Spend == spent < MaxSpent /\ spent' = spent + 1
Goto(t, step) == pc' = [pc EXCEPT ![t] = step]

-----------------------------------------------------------------------------
(* Threads::claim, on the first event of a thread. *)

ClaimLoad(t) ==
    /\ pc[t] = Idle /\ thread[t] = UNSET
    /\ IF count >= MAX_THREADS
       THEN thread' = [thread EXCEPT ![t] = OVERFLOW] /\ UNCHANGED pc
       ELSE Goto(t, [at |-> "claim", count |-> count]) /\ UNCHANGED thread
    /\ UNCHANGED <<counts, count, published, names, phases, reader, spent>>

\* The compare-exchange; a lost race reads the count again.
ClaimIndex(t) ==
    /\ pc[t].at = "claim"
    /\ IF count = pc[t].count
       THEN count' = count + 1 /\ Goto(t, [at |-> "publish", index |-> count])
       ELSE Goto(t, Idle) /\ UNCHANGED count
    /\ UNCHANGED <<counts, published, names, thread, phases, reader, spent>>

\* NameCell::attempt without a name: the thread has asked once more.
NameOf(t) == <<t, t>>
Asked(cell) ==
    [cell EXCEPT !.state = IF @ + 1 >= NAME_ATTEMPTS THEN SETTLED ELSE @ + 1]
Named(cell, t) == [bytes |-> NameOf(t), state |-> SETTLED]

\* The record, with the name the platform has by now, is allocated and then
\* published; an arena without room leaves the index claimed and empty.
Publish(t) ==
    /\ pc[t].at = "publish"
    /\ Goto(t, Idle)
    /\ \/ /\ thread' = [thread EXCEPT ![t] = OVERFLOW]
          /\ UNCHANGED <<published, names>>
       \/ /\ thread' = [thread EXCEPT ![t] = pc[t].index]
          /\ published' = published \cup {pc[t].index}
          /\ \E cell \in {Asked(names[pc[t].index]), Named(names[pc[t].index], t)} :
                names' = [names EXCEPT ![pc[t].index] = cell]
    /\ UNCHANGED <<counts, count, phases, reader, spent>>

\* wants_name: an event asks again until the cell is settled.
AskAgain(t) ==
    /\ pc[t] = Idle
    /\ thread[t] \in published /\ names[thread[t]].state # SETTLED
    /\ \/ names' = [names EXCEPT ![thread[t]] = Asked(@)] /\ UNCHANGED pc
       \/ Goto(t, [at |-> "name"]) /\ UNCHANGED names
    /\ UNCHANGED <<counts, count, published, thread, phases, reader, spent>>

\* Mutant: settled first, the bytes after.
NameSettledFirst(t) ==
    /\ pc[t].at = "name"
    /\ names' = [names EXCEPT ![thread[t]] =
                    [bytes |-> Append(@.bytes, t), state |-> SETTLED]]
    /\ IF Append(names[thread[t]].bytes, t) = NameOf(t) THEN Goto(t, Idle) ELSE UNCHANGED pc
    /\ UNCHANGED <<counts, count, published, thread, phases, reader, spent>>

\* NameCell::attempt with a name: byte by byte, and then settled.
NameStore(t) ==
    /\ pc[t].at = "name"
    /\ LET cell == names[thread[t]] IN
       IF cell.bytes # NameOf(t)
       THEN names' = [names EXCEPT ![thread[t]].bytes = Append(@, t)] /\ UNCHANGED pc
       ELSE names' = [names EXCEPT ![thread[t]].state = SETTLED] /\ Goto(t, Idle)
    /\ UNCHANGED <<counts, count, published, thread, phases, reader, spent>>

-----------------------------------------------------------------------------
(* An event: what it moves globally, and then in its two rows. *)

Inside == {t \in Recorders : pc[t].at \in {"curr", "max"}}
Shut == reader.at # "idle" /\ reader.exclusive

RowsOf(site) ==
    <<ThreadRow(site.thread)>> \o
    (IF site.region = UNSET THEN <<>> ELSE <<RegionRow(site.region)>>)

\* The gate is entered and the global counters are moved; the rows are next, and
\* then the program is given the block, if the event gives one.
Commit(t, site, total, delta, gives) ==
    /\ pc[t] = Idle /\ ~Shut
    /\ Spend
    /\ totals' = Plus(totals, total, delta)
    /\ outside' = IF site.region = UNSET THEN Plus(outside, total, delta) ELSE outside
    /\ Goto(t, [at |-> "curr", rows |-> RowsOf(site), total |-> total, delta |-> delta,
                gives |-> gives, now |-> 0])
    /\ UNCHANGED <<tally, poisoned, top, threads, phases, reader>>

\* A block is of the thread that allocated it and of the region open then, on
\* whatever thread it is resized or freed.
RecordAlloc(t, size) ==
    LET site == [thread |-> thread[t], region |-> region[t]]
    IN  /\ thread[t] # UNSET
        /\ Commit(t, site, size, size, {[site |-> site, size |-> size, born |-> spent]})
        /\ UNCHANGED live

RecordRealloc(t, b, size) ==
    /\ thread[t] # UNSET
    /\ live' = live \ {b}
    /\ Commit(t, b.site, size, size - b.size, {[b EXCEPT !.size = size]})

RecordFree(t, b) ==
    /\ live' = live \ {b}
    /\ Commit(t, b.site, 0, -b.size, {})

Row(t) == Head(pc[t].rows)
NextRow(t) ==
    IF Len(pc[t].rows) = 1
    THEN Goto(t, Idle) /\ live' = live \cup pc[t].gives
    ELSE Goto(t, [pc[t] EXCEPT !.at = "curr", !.rows = Tail(@)]) /\ UNCHANGED live

\* Tally::apply: fetch_add or fetch_sub of the live bytes.  The total, which
\* nothing reads inside the gate, is added in the same step.
MoveCurr(t) ==
    /\ pc[t].at = "curr"
    /\ LET r == Row(t)  d == pc[t].delta  next == tally[r].curr + d IN
        /\ tally' = [tally EXCEPT ![r].total = @ + pc[t].total,
                                  ![r].curr = Greater(next, 0)]
        /\ poisoned' = (poisoned \/ next < 0)
        /\ top' = [top EXCEPT ![r] = Greater(@, next)]
        /\ IF d > 0
           THEN Goto(t, [pc[t] EXCEPT !.at = "max", !.now = next]) /\ UNCHANGED live
           ELSE NextRow(t)
    /\ UNCHANGED <<totals, outside, threads, phases, reader, spent>>

\* Mutant: the maximum is taken from the counter as it is by then.
StoreMaxLate(t) ==
    /\ pc[t].at = "max"
    /\ tally' = [tally EXCEPT ![Row(t)].max = Greater(@, tally[Row(t)].curr)]
    /\ NextRow(t)
    /\ UNCHANGED <<totals, poisoned, top, outside, threads, phases, reader, spent>>

\* fetch_max of the value the add produced.
FetchMax(t) ==
    /\ pc[t].at = "max"
    /\ tally' = [tally EXCEPT ![Row(t)].max = Greater(@, pc[t].now)]
    /\ NextRow(t)
    /\ UNCHANGED <<totals, poisoned, top, outside, threads, phases, reader, spent>>

-----------------------------------------------------------------------------
(* Regions. *)

\* Regions::intern, under its lock: the row of the kept name, a new one, or the
\* shared one when there is no room in the table or in the arena.
RowOfName(n) == {i \in DOMAIN regions : regions[i] = n}

\* Mutant: the name is compared as given.
InternUncut(t, n) ==
    /\ pc[t] = Idle /\ Spend
    /\ \/ /\ \E i \in RowOfName(n) : Goto(t, [at |-> "enter", id |-> i - 1])
          /\ UNCHANGED regions
       \/ /\ RowOfName(n) = {} /\ Len(regions) < MAX_REGIONS
          /\ regions' = Append(regions, Kept[n])
          /\ Goto(t, [at |-> "enter", id |-> Len(regions)])
       \/ /\ RowOfName(n) = {}
          /\ Goto(t, [at |-> "enter", id |-> OVERFLOW])
          /\ UNCHANGED regions
    /\ UNCHANGED <<counts, threads, entries, active, region, guards, reader>>

Intern(t, n) ==
    /\ pc[t] = Idle /\ Spend
    /\ \/ /\ \E i \in RowOfName(Kept[n]) : Goto(t, [at |-> "enter", id |-> i - 1])
          /\ UNCHANGED regions
       \/ /\ RowOfName(Kept[n]) = {} /\ Len(regions) < MAX_REGIONS
          /\ regions' = Append(regions, Kept[n])
          /\ Goto(t, [at |-> "enter", id |-> Len(regions)])
       \/ /\ RowOfName(Kept[n]) = {}
          /\ Goto(t, [at |-> "enter", id |-> OVERFLOW])
          /\ UNCHANGED regions
    /\ UNCHANGED <<counts, threads, entries, active, region, guards, reader>>

\* region: the guard slot remembers the region, and Regions::enter counts it.
EnterRegion(t) ==
    /\ pc[t].at = "enter"
    /\ LET id == pc[t].id IN
        /\ region' = [region EXCEPT ![t] = id]
        /\ guards' = [guards EXCEPT ![t] = @ \cup {[id |-> id, previous |-> region[t],
                                                    nth |-> entries[id]]}]
        /\ entries' = [entries EXCEPT ![id] = @ + 1]
        /\ Goto(t, [at |-> "activate", id |-> id])
    /\ UNCHANGED <<counts, threads, regions, active, reader, spent>>

Activate(t) ==
    /\ pc[t].at = "activate"
    /\ active' = [active EXCEPT ![pc[t].id] = @ + 1]
    /\ Goto(t, Idle)
    /\ UNCHANGED <<counts, threads, regions, entries, region, guards, reader, spent>>

\* Region::drop, in whatever order the program drops them.
LeaveRegion(t, g) ==
    /\ pc[t] = Idle /\ g \in guards[t]
    /\ region' = [region EXCEPT ![t] = g.previous]
    /\ guards' = [guards EXCEPT ![t] = @ \ {g}]
    /\ active' = [active EXCEPT ![g.id] = Greater(@ - 1, 0)]
    /\ poisoned' = (poisoned \/ active[g.id] = 0)
    /\ UNCHANGED <<tally, totals, top, outside, live, threads, regions, entries, pc, reader, spent>>

-----------------------------------------------------------------------------
(* The engine's restart, and a reader of the rows. *)

\* reset has the gate: totals start again, maxima from what is live.  A claimed
\* row without a record is skipped; it holds nothing.
Restart ==
    /\ Inside = {} /\ ~Shut
    /\ Spend
    /\ tally' = [r \in Rows |-> [total |-> 0, curr |-> tally[r].curr, max |-> tally[r].curr]]
    /\ totals' = [totals EXCEPT !.total = 0]
    /\ outside' = [outside EXCEPT !.total = 0]
    /\ top' = [r \in Rows |-> tally[r].curr]
    /\ UNCHANGED <<poisoned, live, threads, phases, pc, reader>>

\* flush_and_visit has the gate, or timed out on the recorders inside.  The
\* rows to visit are those claimed by now.
BeginVisit ==
    /\ reader = Idle
    /\ reader' = [at |-> "row", exclusive |-> Inside = {}, index |-> 0, len |-> count,
                  sum |-> Zero, name |-> <<>>]
    /\ UNCHANGED <<counts, threads, phases, pc, spent>>

\* visit_regions: a program that asks for its regions reads no thread rows, and
\* is refused where a profile would be written without the gate.
BeginBreakdown ==
    /\ reader = Idle /\ Inside = {}
    /\ reader' = [at |-> "regions", exclusive |-> TRUE]
    /\ UNCHANGED <<counts, threads, phases, pc, spent>>

\* A row claimed but not yet published is skipped.  A name is read only if its
\* cell is settled, and then byte by byte.
Counted(sum, r) == Plus(sum, tally[r].total, tally[r].curr)

VisitRow ==
    /\ reader.at = "row" /\ reader.index < reader.len
    /\ reader' =
         IF reader.index \notin published THEN [reader EXCEPT !.index = @ + 1]
         ELSE [reader EXCEPT !.at = IF names[reader.index].state = SETTLED
                                    THEN "bytes" ELSE "counts",
                             !.name = <<>>]
    /\ UNCHANGED <<counts, threads, phases, pc, spent>>

VisitByte ==
    /\ reader.at = "bytes"
    /\ LET bytes == names[reader.index].bytes IN
       reader' = IF Len(reader.name) < Len(bytes)
                 THEN [reader EXCEPT !.name = Append(@, bytes[Len(@) + 1])]
                 ELSE [reader EXCEPT !.at = "counts"]
    /\ UNCHANGED <<counts, threads, phases, pc, spent>>

VisitCounts ==
    /\ reader.at = "counts"
    /\ reader' = [reader EXCEPT !.at = "row", !.index = @ + 1,
                                !.sum = Counted(@, ThreadRow(reader.index))]
    /\ UNCHANGED <<counts, threads, phases, pc, spent>>

\* The overflow row, then the regions that were entered, then what the totals
\* have beyond all the region rows.
Sum(ids) ==
    [total |-> SumFunctionOnSet([i \in RegionIds |-> tally[RegionRow(i)].total], ids),
     curr  |-> SumFunctionOnSet([i \in RegionIds |-> tally[RegionRow(i)].curr], ids)]
\* Mutant: only the regions open now are shown.
StillOpen == {i \in RegionIds : active[i] # 0}
Entered == {i \in RegionIds : entries[i] # 0}

\* outside_regions: a table holding more than the run did is a race, or a fault.
ReadRegions(at, sum) ==
    LET all == Sum(RegionIds) IN
    /\ poisoned' = (poisoned \/ /\ reader.exclusive
                                /\ all.total > totals.total \/ all.curr > totals.curr)
    /\ reader' = [at |-> at, exclusive |-> reader.exclusive, sum |-> sum, entered |-> Sum(Entered),
                  outside |-> [total |-> Greater(totals.total - all.total, 0),
                               curr |-> Greater(totals.curr - all.curr, 0)]]
    /\ UNCHANGED <<tally, totals, top, outside, live, threads, phases, pc, spent>>

VisitRegions == /\ reader.at = "row" /\ reader.index = reader.len
                /\ ReadRegions("done", Counted(reader.sum, ThreadRow(OVERFLOW)))
Breakdown == reader.at = "regions" /\ ReadRegions("answered", Zero)

EndVisit ==
    /\ reader.at \in {"done", "answered"}
    /\ reader' = Idle
    /\ UNCHANGED <<counts, threads, phases, pc, spent>>

Visit == BeginVisit \/ BeginBreakdown \/ VisitRow \/ VisitByte \/ VisitCounts \/ VisitRegions \/ Breakdown \/ EndVisit

Next ==
    \/ \E t \in Recorders :
        \/ ClaimLoad(t) \/ ClaimIndex(t) \/ Publish(t) \/ AskAgain(t) \/ NameStore(t)
        \/ \E size \in Sizes :
              RecordAlloc(t, size) \/ \E b \in live : RecordRealloc(t, b, size)
        \/ \E b \in live : RecordFree(t, b)
        \/ MoveCurr(t) \/ FetchMax(t)
        \/ \E n \in Names : Intern(t, n)
        \/ EnterRegion(t) \/ Activate(t)
        \/ \E g \in guards[t] : LeaveRegion(t, g)
    \/ Restart
    \/ Visit

Spec == Init /\ [][Next]_vars

-----------------------------------------------------------------------------
(***************************************************************************)
(* Types, and that nothing was ever poisoned: no row and no region goes    *)
(* below zero, and the region rows never hold more than the run.           *)
(***************************************************************************)
TypeOK ==
    /\ count \in 0..MAX_THREADS /\ published \subseteq 0..count - 1
    /\ \A t \in Recorders : thread[t] \in published \cup {OVERFLOW, UNSET}
    /\ \A r \in Rows : tally[r].curr \in Nat /\ tally[r].total \in Nat
    /\ ~poisoned

(***************************************************************************)
(* Threads::claim: a row has one owner, also when two threads claim at the *)
(* same time, and a row without a record has recorded nothing.             *)
(***************************************************************************)
RowsAreOwned ==
    /\ \A t, u \in Recorders : t # u /\ thread[t] \in published => thread[t] # thread[u]
    /\ \A t, u \in Recorders :
           t # u /\ pc[t].at = "publish" /\ pc[u].at = "publish" => pc[t].index # pc[u].index
    /\ \A i \in (0..MAX_THREADS - 1) \ published :
           tally[ThreadRow(i)] = [total |-> 0, curr |-> 0, max |-> 0]

(***************************************************************************)
(* Tally::apply: "this peak is exact without a lock".  With nobody inside  *)
(* the gate, the maximum of every row is the most that row ever held since *)
(* the last restart, whatever threads added to it and freed from it.       *)
(***************************************************************************)
PeakIsExact == Inside = {} => \A r \in Rows : tally[r].max = top[r]

(***************************************************************************)
(* A visit that had the gate reads rows that sum to the totals: the thread *)
(* rows with the overflow row, and the region rows that were entered with  *)
(* what outside_regions makes of the rest, which is exactly what was       *)
(* recorded outside every region.                                          *)
(***************************************************************************)
VisitSums ==
    reader.at \in {"done", "answered"} /\ reader.exclusive =>
        /\ reader.at = "done" => reader.sum = totals
        /\ reader.outside = outside
        /\ Plus(reader.entered, outside.total, outside.curr) = totals

(***************************************************************************)
(* A name is read whole or not at all, exclusive visit or not, and it is   *)
(* the name of the row's owner.                                            *)
(***************************************************************************)
NamesAreWhole ==
    reader.at = "counts" =>
        \/ reader.name = <<>>
        \/ \E t \in Recorders : thread[t] = reader.index /\ reader.name = NameOf(t)

(***************************************************************************)
(* Regions: one row for each kept name, and at every moment a row is open  *)
(* as often as there are guards of it, never more often than entered.      *)
(***************************************************************************)
Opening(i) == {t \in Recorders : pc[t] = [at |-> "activate", id |-> i]}
RegionsAreCounted ==
    /\ IsInjective(regions)
    /\ \A i \in RegionIds :
        /\ active[i] <= entries[i]
        /\ active[i] + Cardinality(Opening(i)) =
               Cardinality(UNION {{<<t, g>> : g \in {h \in guards[t] : h.id = i}} : t \in Recorders})


\* A row, and the name on it, belong to one thread.
RowsAreSound == TypeOK /\ RowsAreOwned /\ NamesAreWhole
=============================================================================
