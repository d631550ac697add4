------------------------------ MODULE AllocShim ------------------------------
(***************************************************************************)
(* The GlobalAlloc shim (src/src/alloc.rs), the part of Engine::record_*   *)
(* it calls, and the live-block table (internals/live.rs) they keep.       *)
(*                                                                         *)
(* The inner allocator hands a freed address to whoever asks next, so an   *)
(* entry must be gone before its block is.  The steps of a call are the    *)
(* inner call, the table's critical sections and the counters' update,     *)
(* which PeakEngine.tla models in full.                                    *)
(*                                                                         *)
(* Any call may be refused the guard: its thread found no slot, or is      *)
(* inside already (GuardTable.tla says when).  It then reaches the inner   *)
(* allocator and nothing else.                                             *)
(***************************************************************************)
EXTENDS Integers, FiniteSets, Functions

CONSTANTS Threads,
          Addresses, \* of one shard of the live-block table
          Points,    \* program points
          Sizes,
          Scaled,    \* sampler::scale, what a sampled block of a size counts for
          MaxLive,   \* blocks the shard can hold before it may be full
          None,
          MaxCalls   \* bound

ASSUME FiniteAssumption == IsFiniteSet(Threads) /\ IsFiniteSet(Addresses)
ASSUME SizesAssumption == Sizes \subseteq Nat
ASSUME NoneAssumption == None \notin Addresses \cup Points \cup [size : Sizes, pp : Points]
ASSUME ScaledAssumption == Scaled \in [Sizes -> [bytes : Nat, blocks : Nat]]
ASSUME BoundsAssumption == {MaxLive, MaxCalls} \subseteq Nat

VARIABLES heap,     \* the inner allocator's blocks, and the point each counts at
          entries,  \* the live-block table: the point of the block at an address
          state,    \* Engine::state
          sampled,  \* whether the run is, chosen before it starts
          pc, call, \* where each thread is, and its call
          counted,  \* each point's live counters
          total_blocks, dropped_blocks,
          observed, \* Shapes: how many requests were seen
          lost,     \* history: a failed realloc could not put its entry back
          stale,    \* history: addresses whose entry a refused call left behind
          missed,   \* history: there was one
          calls     \* how many calls have begun

refusedVars == <<stale, missed>>
tableVars == <<entries, dropped_blocks, lost, stale, missed>>
engineVars == <<state, sampled>>
counterVars == <<counted, total_blocks>>
vars == <<heap, tableVars, engineVars, pc, call, counterVars, observed, calls>>

\* at: the block's address; old, new: its sizes; pp: the point captured; taken:
\* the entry removed.
NoCall == [at |-> None, old |-> 0, new |-> 0, pp |-> None, taken |-> None]
Nothing == [bytes |-> 0, blocks |-> 0]

Init ==
    /\ heap = [a \in Addresses |-> None]
    /\ entries = [a \in Addresses |-> None]
    /\ state = "idle"
    /\ sampled \in BOOLEAN
    /\ pc = [t \in Threads |-> "program"]
    /\ call = [t \in Threads |-> NoCall]
    /\ counted = [p \in Points |-> Nothing]
    /\ total_blocks = 0 /\ dropped_blocks = 0 /\ observed = 0
    /\ lost = FALSE
    /\ stale = {} /\ missed = FALSE
    /\ calls = 0

At(t, from) == pc[t] = from
Goto(t, to) == pc' = [pc EXCEPT ![t] = to]
Return(t) == Goto(t, "program") /\ call' = [call EXCEPT ![t] = NoCall]

\* A block belongs to the program between the calls that return and take it.
Owned == {a \in Addresses : heap[a] # None /\ \A u \in Threads : call[u].at # a}
Free == {a \in Addresses : heap[a] = None}

\* Engine::records_allocations, in a call that has the guard
Records == state = "running"

\* One more call, and one that finds the program where it was.
Begin(t) ==
    /\ At(t, "program")
    /\ calls < MaxCalls
    /\ calls' = calls + 1

-----------------------------------------------------------------------------
(* The table, under its shard's lock *)

Tracked == {a \in Addresses : entries[a] # None}

\* RawMap::insert: an address it knows is written over whatever its load, a
\* new one may be refused once the shard is at its ceiling.
Refuses(a) == a \notin Tracked /\ Cardinality(Tracked) >= MaxLive

\* An entry that is written or removed is no longer stale; one whose block a
\* refused call frees or resizes becomes so.
Settles(a, yes) == stale' = (IF yes THEN stale \ {a} ELSE stale) /\ UNCHANGED missed
Misses(a, guarded) ==
    IF guarded \/ a \notin Tracked THEN UNCHANGED refusedVars
    ELSE stale' = stale \cup {a} /\ missed' = TRUE

\* Engine::weights: what a block of a size counts for.
Weight(n) == IF sampled THEN Scaled[n] ELSE [bytes |-> n, blocks |-> 1]

\* Engine::apply: the live counters of one point.
Apply(p, sign, size) ==
    [counted EXCEPT ![p].bytes = @ + sign * Weight(size).bytes,
                    ![p].blocks = @ + sign * Weight(size).blocks]

-----------------------------------------------------------------------------
(* alloc and alloc_zeroed *)

\* The guard, then the inner call.  A null changes nothing.
Alloc(t) ==
    \E n \in Sizes, p \in Points, a \in Free :
       /\ Begin(t)
       /\ heap' = [heap EXCEPT ![a] = [size |-> n, pp |-> p]]
       /\ call' = [call EXCEPT ![t] = [NoCall EXCEPT !.at = a, !.new = n, !.pp = p]]
       /\ Goto(t, "observe")
       /\ UNCHANGED <<tableVars, engineVars, counterVars, observed>>

\* Without the guard the block is made and nothing is recorded.
AllocRefused(t) ==
    \E n \in Sizes, p \in Points, a \in Free :
       /\ Begin(t)
       /\ heap' = [heap EXCEPT ![a] = [size |-> n, pp |-> p]]
       /\ UNCHANGED <<tableVars, engineVars, pc, call, counterVars, observed>>

\* Engine::observe: the request is counted, and recorded unless it is not
\* sampled.
Observe(t) ==
    /\ At(t, "observe")
    /\ UNCHANGED <<heap, tableVars, engineVars, counterVars, calls>>
    /\ \/ /\ Records
          /\ observed' = observed + 1
          /\ \/ Goto(t, "insert") /\ UNCHANGED call
             \/ sampled /\ Return(t)
       \/ ~Records /\ Return(t) /\ UNCHANGED observed

\* record_alloc: the entry is made before the counters move, and the request is
\* dropped as a whole when it cannot be.
Insert(t) ==
    /\ At(t, "insert")
    /\ IF Refuses(call[t].at)
       THEN /\ dropped_blocks' = dropped_blocks + 1
            /\ Return(t)
            /\ UNCHANGED entries
       ELSE /\ entries' = [entries EXCEPT ![call[t].at] = call[t].pp]
            /\ Goto(t, "count")
            /\ UNCHANGED <<dropped_blocks, call>>
    /\ Settles(call[t].at, ~Refuses(call[t].at))
    /\ UNCHANGED <<heap, engineVars, counterVars, observed, lost, calls>>

CountAlloc(t) ==
    /\ At(t, "count")
    /\ counted' = Apply(call[t].pp, 1, call[t].new)
    /\ total_blocks' = total_blocks + Weight(call[t].new).blocks
    /\ Return(t)
    /\ UNCHANGED <<heap, tableVars, engineVars, observed, calls>>

-----------------------------------------------------------------------------
(* dealloc *)

CallFree(t) ==
    \E a \in Owned, guarded \in BOOLEAN :
       /\ Begin(t)
       /\ call' = [call EXCEPT ![t] = [NoCall EXCEPT !.at = a, !.old = heap[a].size]]
       /\ Goto(t, IF guarded /\ Records THEN "remove" ELSE "free")
       /\ Misses(a, guarded)
       /\ UNCHANGED <<heap, entries, dropped_blocks, lost, engineVars, counterVars, observed>>

\* Mutant: the inner allocator is called first.
RemoveAfter(t) ==
    /\ At(t, "remove")
    /\ \/ /\ heap[call[t].at] # None
          /\ heap' = [heap EXCEPT ![call[t].at] = None]
          /\ UNCHANGED <<entries, call, pc>>
       \/ /\ entries' = [entries EXCEPT ![call[t].at] = None]
          /\ call' = [call EXCEPT ![t].taken = entries[call[t].at]]
          /\ Goto(t, IF entries[call[t].at] = None THEN "free" ELSE "uncount")
          /\ UNCHANGED heap
    /\ Settles(call[t].at, TRUE)
    /\ UNCHANGED <<dropped_blocks, lost, engineVars, counterVars, observed, calls>>

\* record_free: the entry goes before the block does.
Remove(t) ==
    /\ At(t, "remove")
    /\ entries' = [entries EXCEPT ![call[t].at] = None]
    /\ call' = [call EXCEPT ![t].taken = entries[call[t].at]]
    /\ Goto(t, IF entries[call[t].at] = None THEN "free" ELSE "uncount")
    /\ Settles(call[t].at, TRUE)
    /\ UNCHANGED <<heap, dropped_blocks, lost, engineVars, counterVars, observed, calls>>

\* Mutant: the free counts at the program point that called it.
UncountCaller(t) ==
    /\ At(t, "uncount")
    /\ \E p \in Points : counted' = Apply(p, -1, call[t].old)
    /\ Goto(t, "free")
    /\ UNCHANGED <<heap, tableVars, engineVars, call, total_blocks, observed, calls>>

\* The size is the layout's, the point the entry's.
Uncount(t) ==
    /\ At(t, "uncount")
    /\ counted' = Apply(call[t].taken, -1, call[t].old)
    /\ Goto(t, "free")
    /\ UNCHANGED <<heap, tableVars, engineVars, call, total_blocks, observed, calls>>

InnerFree(t) ==
    /\ At(t, "free")
    /\ heap' = [heap EXCEPT ![call[t].at] = None]
    /\ Return(t)
    /\ UNCHANGED <<tableVars, engineVars, counterVars, observed, calls>>

-----------------------------------------------------------------------------
(* realloc *)

CallRealloc(t) ==
    \E a \in Owned, n \in Sizes, p \in Points, guarded \in BOOLEAN :
       /\ Begin(t)
       /\ call' = [call EXCEPT ![t] = [NoCall EXCEPT !.at = a, !.old = heap[a].size, !.new = n, !.pp = p]]
       /\ Goto(t, IF guarded /\ Records THEN "take" ELSE "resize_only")
       /\ Misses(a, guarded)
       /\ UNCHANGED <<heap, entries, dropped_blocks, lost, engineVars, counterVars, observed>>

Take(t) ==
    LET a == call[t].at
    IN  /\ At(t, "take")
        /\ entries' = [entries EXCEPT ![a] = None]
        /\ call' = [call EXCEPT ![t].taken = entries[a]]
        /\ Goto(t, "resize")
        /\ UNCHANGED <<heap, dropped_blocks, lost, refusedVars, engineVars, counterVars, observed, calls>>

\* The block, once resized, counts where its entry did, or at the resizing point
\* if it had none; an unrecorded resize changes nothing of that.
Resized(t) == [size |-> call[t].new,
               pp |-> IF At(t, "resize_only") THEN heap[call[t].at].pp
                      ELSE IF call[t].taken = None THEN call[t].pp ELSE call[t].taken]

\* The inner realloc: in place, or to another address, or not at all.
InnerRealloc(t) ==
    /\ pc[t] \in {"resize", "resize_only"}
    /\ \/ \E a \in Free \cup {call[t].at} :
             /\ heap' = [heap EXCEPT ![call[t].at] = None, ![a] = Resized(t)]
             /\ IF At(t, "resize")
                THEN Goto(t, "observe_realloc") /\ call' = [call EXCEPT ![t].at = a]
                ELSE Return(t)
             /\ Settles(call[t].at, At(t, "resize"))
       \/ /\ IF At(t, "resize") /\ call[t].taken # None
             THEN Goto(t, "put_back") /\ UNCHANGED call
             ELSE Return(t)
          /\ UNCHANGED <<heap, refusedVars>>
    /\ UNCHANGED <<entries, dropped_blocks, lost, engineVars, counterVars, observed, calls>>

\* The reallocation failed: the block is where it was.  What insert answers is
\* not looked at.
PutBack(t) ==
    LET a == call[t].at
    IN  /\ At(t, "put_back")
        /\ IF Refuses(a)
           THEN lost' = TRUE /\ UNCHANGED entries
           ELSE entries' = [entries EXCEPT ![a] = call[t].taken] /\ UNCHANGED lost
        /\ Return(t)
        /\ Settles(a, Refuses(a))
        /\ UNCHANGED <<heap, dropped_blocks, engineVars, counterVars, observed, calls>>

\* observe_realloc: the resize of a block that is not tracked is a fresh
\* allocation, and asks the sampler; record_realloc_taken records it as one.
ObserveRealloc(t) ==
    /\ At(t, "observe_realloc")
    /\ observed' = observed + 1
    /\ \/ /\ Goto(t, IF call[t].taken = None THEN "insert" ELSE "insert_resized")
          /\ UNCHANGED call
       \/ sampled /\ call[t].taken = None /\ Return(t)
    /\ UNCHANGED <<heap, tableVars, engineVars, counterVars, calls>>

InsertResized(t) ==
    LET a == call[t].at
    IN  /\ At(t, "insert_resized")
        /\ IF Refuses(a)
           THEN dropped_blocks' = dropped_blocks + 1 /\ Goto(t, "forget") /\ UNCHANGED entries
           ELSE /\ entries' = [entries EXCEPT ![a] = call[t].taken]
                /\ Goto(t, "count_resized")
                /\ UNCHANGED dropped_blocks
        /\ Settles(a, ~Refuses(a))
        /\ UNCHANGED <<heap, lost, engineVars, call, counterVars, observed, calls>>

\* The block is no longer tracked: what it counted is undone.
Forget(t) ==
    /\ At(t, "forget")
    /\ counted' = Apply(call[t].taken, -1, call[t].old)
    /\ Return(t)
    /\ UNCHANGED <<heap, tableVars, engineVars, total_blocks, observed, calls>>

CountResized(t) ==
    LET p == call[t].taken
        old == Weight(call[t].old)
        new == Weight(call[t].new)
    IN  /\ At(t, "count_resized")
        /\ counted' = [counted EXCEPT ![p].bytes = @ + new.bytes - old.bytes,
                                      ![p].blocks = @ + new.blocks - old.blocks]
        /\ total_blocks' = total_blocks + new.blocks
        /\ Return(t)
        /\ UNCHANGED <<heap, tableVars, engineVars, observed, calls>>

-----------------------------------------------------------------------------
(* The run begins and ends whatever the threads are doing. *)

Start ==
    /\ state = "idle"
    /\ state' = "running"
    /\ UNCHANGED <<sampled, heap, tableVars, pc, call, counterVars, observed, calls>>

Stop ==
    /\ state = "running"
    /\ state' = "finished"
    /\ UNCHANGED <<sampled, heap, tableVars, pc, call, counterVars, observed, calls>>

AllocStep(t) == Alloc(t) \/ AllocRefused(t) \/ Observe(t) \/ Insert(t) \/ CountAlloc(t)
FreeStep(t) == CallFree(t) \/ Remove(t) \/ Uncount(t) \/ InnerFree(t)
ReallocStep(t) == CallRealloc(t) \/ Take(t) \/ InnerRealloc(t) \/ PutBack(t)
                     \/ ObserveRealloc(t) \/ InsertResized(t) \/ Forget(t) \/ CountResized(t)

Quiet == \A t \in Threads : At(t, "program")

\* The bound is reached and every call has returned.
Exhausted == Quiet /\ calls = MaxCalls /\ state = "finished" /\ UNCHANGED vars

Next == \/ \E t \in Threads : AllocStep(t) \/ FreeStep(t) \/ ReallocStep(t)
        \/ Start \/ Stop \/ Exhausted

Spec == Init /\ [][Next]_vars

-----------------------------------------------------------------------------
(* Properties *)

PCs == {"program", "observe", "insert", "count", "remove", "uncount", "free",
        "take", "resize", "resize_only", "put_back", "observe_realloc",
        "insert_resized", "forget", "count_resized"}

Calls == [at : Addresses \cup {None}, old : Sizes \cup {0}, new : Sizes \cup {0},
          pp : Points \cup {None}, taken : Points \cup {None}]

TypeOK ==
    /\ heap \in [Addresses -> [size : Sizes, pp : Points] \cup {None}]
    /\ entries \in [Addresses -> Points \cup {None}]
    /\ state \in {"idle", "running", "finished"} /\ sampled \in BOOLEAN
    /\ pc \in [Threads -> PCs]
    /\ call \in [Threads -> Calls]
    /\ \A t \in Threads : At(t, "program") \/ call[t].at \in Addresses
    /\ counted \in [Points -> [bytes : Int, blocks : Int]]
    /\ {total_blocks, dropped_blocks, observed, calls} \subseteq Nat
    /\ {lost, missed} \subseteq BOOLEAN /\ stale \subseteq Addresses /\ (stale # {} => missed)

\* Every address the table knows is a block's, while the run is on, and the
\* entry names the point that block counts at: no thread's late bookkeeping
\* ever touches the block the allocator has since put there.  A refused call
\* costs the entry of its own block, and only until a recorded call meets it.
EntryIsBlock ==
    state = "running" =>
        \A a \in Tracked \ stale : heap[a] # None /\ entries[a] = heap[a].pp

Sum(p, field) ==
    SumFunction([a \in Tracked |-> IF entries[a] = p THEN Weight(heap[a].size)[field] ELSE 0])

\* With no call under way, what each point counts as live is its tracked
\* blocks, at the sizes the program gave them.
CountsAreEntries ==
    Quiet /\ state = "running" =>
        \A p \in Points, field \in {"bytes", "blocks"} : counted[p][field] = Sum(p, field)

LiveIsCounted == ~lost /\ ~missed => CountsAreEntries

\* "Refusing loses an event" (guard.rs), and no more than that: no live counter
\* goes below zero, which the engine is poisoned by.
RefusalLosesAnEvent == \A p \in Points : counted[p].bytes >= 0 /\ counted[p].blocks >= 0

\* It is so at any step of any call, unless a refused call freed or resized a
\* block that is counted.
NeverNegative == ~missed => RefusalLosesAnEvent

\* "every observed request either counted toward total_blocks or was dropped":
\* in an exact run, whatever became of the calls.
ObservedAccounted ==
    Quiet /\ ~sampled => observed = total_blocks + dropped_blocks

\* "The reallocation failed, so the original block is still live ... Put its
\* record back, or it would leak from the profile's accounting" (alloc.rs).
\* The entry does not always go back: CountsAreEntries fails with `lost`.
FailedReallocKept == CountsAreEntries


\* The counters, between calls and in the middle of them, are those of the
\* blocks the table has, however calls overlap and whatever was refused.
Accounts == TypeOK /\ LiveIsCounted /\ NeverNegative /\ ObservedAccounted
=============================================================================
