------------------- MODULE AllocShimSamplingUnwindProofs --------------------
(***************************************************************************)
(* What AllocShim.tla promises of the live-block table and of the requests *)
(* counted, proved for any finite set of threads, any addresses, sizes and *)
(* weights, and a table of any size.                                       *)
(*                                                                         *)
(* An entry is its block's because a thread has its address to itself from *)
(* the time it takes the block out of the program's hands (Own), because   *)
(* the entry is gone, or was left by a refused call, before the block can  *)
(* be (Gone, LeftBehind), and because what a thread is about to write is   *)
(* where the block counts (Writes).                                        *)
(*                                                                         *)
(* The counters are what stands at the addresses (Kept): what a thread has *)
(* in its hands and has not taken out of them yet, or else what the entry  *)
(* says, summed with the lemmas of module Sums.                            *)
(*                                                                         *)
(* Then, of Sampling.tla, that a sampled run records the requests that     *)
(* points of one process land in (PointsFollow, SpansAreBehind) and that   *)
(* the histograms count every request (Counts).                            *)
(*                                                                         *)
(* And, of Unwind.tla, that a walk stays in the stack and ends            *)
(* (ChainHolds, OutHolds), and what measuring a capture publishes          *)
(* (CostHolds).                                                            *)
(***************************************************************************)
EXTENDS AllocShim, Sums, SequenceTheorems, FiniteSetTheorems, TLAPS

\* A thread at one of these began its call in a run.
Recording == {"insert", "count", "remove", "uncount", "take", "resize", "put_back",
              "observe_realloc", "insert_resized", "forget", "count_resized"}

\* A thread in a call has its block to itself, and knows its size.
Own ==
    /\ \A t \in Threads : At(t, "program") <=> call[t].at = None
    /\ \A t \in Threads : call[t].at # None => heap[call[t].at] # None
    /\ \A t, u \in Threads : call[t].at # None /\ call[t].at = call[u].at => t = u

Sized ==
    /\ \A t \in Threads :
          pc[t] \in {"observe", "insert", "count", "resize", "resize_only", "put_back", "take",
                     "observe_realloc", "insert_resized", "forget", "count_resized"}
             => call[t].new \in Sizes /\ call[t].pp \in Points
    /\ \A t \in Threads :
          pc[t] \in {"remove", "uncount", "insert_resized", "forget", "count_resized",
                     "take", "resize", "put_back", "observe_realloc"}
             => call[t].old \in Sizes
    /\ \A t \in Threads :
          pc[t] \in {"uncount", "put_back", "insert_resized", "forget", "count_resized"}
             => call[t].taken \in Points

\* Nothing is recorded before the run.
Unrecorded ==
    state = "idle" => Tracked = {} /\ \A t \in Threads : pc[t] \notin Recording

\* The entry is out of the table, and nobody else can put one there.
Gone ==
    \A t \in Threads : pc[t] \in {"uncount", "resize", "put_back", "forget"} =>
        call[t].at \notin Tracked

\* What is there was left behind by a refused call.
LeftBehind ==
    state = "running" =>
        \A t \in Threads :
           pc[t] \in {"observe", "insert", "free", "resize_only", "observe_realloc", "insert_resized"}
              => call[t].at \notin Tracked \ stale

\* The entry a thread is about to write is the block's.
Writes ==
    /\ \A t \in Threads :
          pc[t] \in {"observe", "insert"} => heap[call[t].at].pp = call[t].pp
    /\ \A t \in Threads :
          pc[t] \in {"observe_realloc", "insert_resized"} =>
             heap[call[t].at].pp = IF call[t].taken = None THEN call[t].pp ELSE call[t].taken
    /\ state = "running" =>
          \A t \in Threads :
             pc[t] \in {"resize", "put_back"} /\ call[t].taken # None /\ call[t].at \notin stale
                => heap[call[t].at].pp = call[t].taken

\* The requests that were seen and are neither counted nor dropped yet.
InFlight == {t \in Threads : pc[t] \in {"insert", "count", "insert_resized", "count_resized"}}
Observed == ~sampled => observed = total_blocks + dropped_blocks + Cardinality(InFlight)

IInv == /\ TypeOK /\ Own /\ Sized /\ Unrecorded /\ Gone /\ LeftBehind /\ Writes
        /\ EntryIsBlock /\ Observed

\* The block is resized, in place or not.
Moved(t, a) ==
    /\ heap' = [heap EXCEPT ![call[t].at] = None, ![a] = Resized(t)]
    /\ IF At(t, "resize")
       THEN Goto(t, "observe_realloc") /\ call' = [call EXCEPT ![t].at = a]
       ELSE Return(t)
    /\ Settles(call[t].at, At(t, "resize"))

\* What a block counts for.
LEMMA Weights ==
    ASSUME TypeOK, NEW n \in Sizes
    PROVE  Weight(n) \in [bytes : Nat, blocks : Nat] /\ (~sampled => Weight(n).blocks = 1)
BY ScaledAssumption, SizesAssumption DEF TypeOK, Weight

\* What a resize leaves is a block, and counts where its entry did.
LEMMA ResizedIsBlock ==
    ASSUME TypeOK, Sized, Own, NEW t \in Threads, pc[t] \in {"resize", "resize_only"}
    PROVE  /\ Resized(t) \in [size : Sizes, pp : Points]
           /\ Resized(t) # None
           /\ pc[t] = "resize_only" => Resized(t).pp = heap[call[t].at].pp
           /\ pc[t] = "resize" =>
                 Resized(t).pp = IF call[t].taken = None THEN call[t].pp ELSE call[t].taken
<1>1. call[t].at \in Addresses /\ heap[call[t].at] \in [size : Sizes, pp : Points]
    BY DEF TypeOK, Own, At
<1>2. call[t].new \in Sizes /\ call[t].pp \in Points /\ call[t].taken \in Points \cup {None}
    BY DEF Sized, TypeOK, Calls
<1>3. CASE pc[t] = "resize_only"
    BY <1>1, <1>2, <1>3, NoneAssumption DEF Resized, At
<1>4. CASE pc[t] = "resize" /\ call[t].taken = None
    BY <1>1, <1>2, <1>4, NoneAssumption DEF Resized, At
<1>5. CASE pc[t] = "resize" /\ call[t].taken # None
    BY <1>1, <1>2, <1>5, NoneAssumption DEF Resized, At
<1> QED
    BY <1>3, <1>4, <1>5

\* Where the block goes was free, or its own place.
LEMMA Moving ==
    ASSUME TypeOK, Sized, Own, NEW t \in Threads, pc[t] \in {"resize", "resize_only"},
           NEW a \in Free \cup {call[t].at}, Moved(t, a)
    PROVE  /\ a \in Addresses /\ call[t].at \in Addresses
           /\ a # call[t].at => heap[a] = None
           /\ \A u \in Threads : u # t => call[u].at # a /\ call[u].at # call[t].at
           /\ heap' \in [Addresses -> [size : Sizes, pp : Points] \cup {None}]
           /\ heap'[a] = Resized(t)
           /\ \A c \in Addresses : c # a => heap'[c] = IF c = call[t].at THEN None ELSE heap[c]
<1>1. call[t].at \in Addresses /\ heap[call[t].at] # None
    BY DEF TypeOK, Own, At
<1>2. a \in Addresses /\ (a # call[t].at => heap[a] = None)
    BY <1>1 DEF Free
<1>3. \A u \in Threads : u # t => call[u].at # a /\ call[u].at # call[t].at
    BY <1>1, <1>2, NoneAssumption DEF Own
<1>4. Resized(t) \in [size : Sizes, pp : Points]
    BY ResizedIsBlock
<1>5. heap' = [heap EXCEPT ![call[t].at] = None, ![a] = Resized(t)]
    BY DEF Moved
<1>6. heap' \in [Addresses -> [size : Sizes, pp : Points] \cup {None}]
    BY <1>1, <1>2, <1>4, <1>5 DEF TypeOK
<1>7. /\ heap'[a] = Resized(t)
      /\ \A c \in Addresses : c # a => heap'[c] = IF c = call[t].at THEN None ELSE heap[c]
    BY <1>1, <1>2, <1>5 DEF TypeOK
<1> QED
    BY <1>1, <1>2, <1>3, <1>6, <1>7

\* The requests under way are counted by one more, or one less.
LEMMA OneMoreInFlight ==
    ASSUME NEW t \in Threads, t \notin InFlight, InFlight' = InFlight \cup {t}
    PROVE  Cardinality(InFlight') = Cardinality(InFlight) + 1
<1>1. IsFiniteSet(InFlight)
    BY FiniteAssumption, FS_Subset DEF InFlight
<1> QED
    BY <1>1, FS_AddElement

LEMMA OneLessInFlight ==
    ASSUME NEW t \in InFlight, InFlight' = InFlight \ {t}
    PROVE  Cardinality(InFlight') = Cardinality(InFlight) - 1
<1>1. IsFiniteSet(InFlight)
    BY FiniteAssumption, FS_Subset DEF InFlight
<1> QED
    BY <1>1, FS_RemoveElement

LEMMA InFlightIsNat == Cardinality(InFlight) \in Nat
BY FiniteAssumption, FS_Subset, FS_CardinalityType DEF InFlight

LEMMA NextInv == IInv /\ [Next]_vars => IInv'
<1> SUFFICES ASSUME IInv, [Next]_vars PROVE IInv'
    OBVIOUS
<1> USE DEF IInv, At, Goto, tableVars, engineVars, counterVars
<1>1. ASSUME NEW t \in Threads, Alloc(t) PROVE IInv'
    <2>1. TypeOK'
        <3>1. PICK n \in Sizes, p \in Points, a \in Free : Alloc(t)!(n, p, a)
            BY <1>1 DEF Alloc
        <3>2. [NoCall EXCEPT !.at = a, !.new = n, !.pp = p] \in Calls
            BY <3>1 DEF NoCall, Calls, Free
        <3> QED
            BY <3>1, <3>2 DEF TypeOK, PCs, Begin, Free, Calls
    <2>2. Own'
        BY <1>1, NoneAssumption DEF Alloc, TypeOK, Own, Free
    <2>3. Sized'
        BY <1>1 DEF Alloc, TypeOK, Sized
    <2>4. Unrecorded'
        BY <1>1 DEF Alloc, Unrecorded, Recording, Tracked
    <2>5. Gone'
        BY <1>1 DEF Alloc, TypeOK, Gone, Tracked
    <2>6. LeftBehind'
        BY <1>1 DEF Alloc, TypeOK, LeftBehind, EntryIsBlock, Free, Tracked
    <2>7. Writes'
        BY <1>1 DEF Alloc, TypeOK, Writes, Own, Free
    <2>8. EntryIsBlock'
        BY <1>1 DEF Alloc, EntryIsBlock, Free, Tracked
    <2>9. Observed'
        <3>1. InFlight' = InFlight
            BY <1>1 DEF Alloc, InFlight, TypeOK, Begin, Return
        <3> QED
            BY <1>1, <3>1 DEF Alloc, Observed
    <2> QED
        BY <2>1, <2>2, <2>3, <2>4, <2>5, <2>6, <2>7, <2>8, <2>9
<1>2. ASSUME NEW t \in Threads, AllocRefused(t) PROVE IInv'
    <2>1. TypeOK'
        BY <1>2 DEF AllocRefused, TypeOK, Begin, Free
    <2>2. Own'
        BY <1>2, NoneAssumption DEF AllocRefused, Own
    <2>3. Sized'
        BY <1>2 DEF AllocRefused, Sized
    <2>4. Unrecorded'
        BY <1>2 DEF AllocRefused, Unrecorded, Tracked
    <2>5. Gone'
        BY <1>2 DEF AllocRefused, Gone, Tracked
    <2>6. LeftBehind'
        BY <1>2 DEF AllocRefused, LeftBehind, Tracked
    <2>7. Writes'
        BY <1>2 DEF AllocRefused, Writes, Own, Free
    <2>8. EntryIsBlock'
        BY <1>2 DEF AllocRefused, EntryIsBlock, Free, Tracked
    <2>9. Observed'
        <3>1. InFlight' = InFlight
            BY <1>2 DEF AllocRefused, InFlight, TypeOK, Begin, Return
        <3> QED
            BY <1>2, <3>1 DEF AllocRefused, Observed
    <2> QED
        BY <2>1, <2>2, <2>3, <2>4, <2>5, <2>6, <2>7, <2>8, <2>9
<1>3. ASSUME NEW t \in Threads, Observe(t) PROVE IInv'
    <2>1. TypeOK'
        <3>1. CASE UNCHANGED call /\ Goto(t, "insert")
            BY <1>3, <3>1, NoneAssumption DEF Observe, TypeOK, PCs, Own, Return, NoCall, Calls,
               Sized, refusedVars, Settles, Refuses, Tracked
        <3>2. CASE Return(t)
            BY <1>3, <3>2, NoneAssumption DEF Observe, TypeOK, PCs, Own, Return, NoCall, Calls,
               Sized, refusedVars, Settles, Refuses, Tracked
        <3> QED
            BY <1>3, <3>1, <3>2 DEF Observe
    <2>2. Own'
        <3>1. CASE UNCHANGED call /\ Goto(t, "insert")
            BY <1>3, <3>1, NoneAssumption DEF Observe, TypeOK, Own, Return, NoCall, Refuses,
               Tracked, Settles
        <3>2. CASE Return(t)
            BY <1>3, <3>2, NoneAssumption DEF Observe, TypeOK, Own, Return, NoCall, Refuses,
               Tracked, Settles
        <3> QED
            BY <1>3, <3>1, <3>2 DEF Observe
    <2>3. Sized'
        <3>1. CASE UNCHANGED call /\ Goto(t, "insert")
            BY <1>3, <3>1, NoneAssumption DEF Observe, TypeOK, Sized, Own, Return, NoCall, Calls,
               Refuses, Tracked
        <3>2. CASE Return(t)
            BY <1>3, <3>2, NoneAssumption DEF Observe, TypeOK, Sized, Own, Return, NoCall, Calls,
               Refuses, Tracked
        <3> QED
            BY <1>3, <3>1, <3>2 DEF Observe
    <2>4. Unrecorded'
        BY <1>3 DEF Observe, TypeOK, Unrecorded, Recording, Return, Records, Tracked
    <2>5. Gone'
        BY <1>3 DEF Observe, TypeOK, Gone, Return, Tracked
    <2>6. LeftBehind'
        BY <1>3 DEF Observe, TypeOK, LeftBehind, Return, Tracked
    <2>7. Writes'
        <3>1. CASE UNCHANGED call /\ Goto(t, "insert")
            BY <1>3, <3>1, NoneAssumption DEF Observe, TypeOK, Writes, Refuses, Own, Return, NoCall,
               Tracked, EntryIsBlock, Records, refusedVars, Settles
        <3>2. CASE Return(t)
            BY <1>3, <3>2, NoneAssumption DEF Observe, TypeOK, Writes, Refuses, Own, Return, NoCall,
               Tracked, EntryIsBlock, Records, refusedVars, Settles
        <3> QED
            BY <1>3, <3>1, <3>2 DEF Observe
    <2>8. EntryIsBlock'
        BY <1>3 DEF Observe, EntryIsBlock, Tracked
    <2>9. Observed'
        <3>1. CASE observed' = observed + 1 /\ Goto(t, "insert")
            <4>1. t \notin InFlight /\ InFlight' = InFlight \cup {t}
                BY <1>3, <3>1 DEF Observe, InFlight, TypeOK
            <4>2. Cardinality(InFlight') = Cardinality(InFlight) + 1
                BY <4>1, OneMoreInFlight
            <4> QED
                BY <1>3, <3>1, <4>2, InFlightIsNat DEF Observe, Observed, TypeOK
        <3>2. CASE sampled
            BY <1>3, <3>2 DEF Observe, Observed
        <3>3. CASE ~Records /\ Return(t) /\ UNCHANGED observed
            <4>1. InFlight' = InFlight
                BY <1>3, <3>3 DEF Observe, InFlight, TypeOK, Return
            <4> QED
                BY <1>3, <3>3, <4>1 DEF Observe, Observed
        <3> QED
            BY <1>3, <3>1, <3>2, <3>3 DEF Observe
    <2> QED
        BY <2>1, <2>2, <2>3, <2>4, <2>5, <2>6, <2>7, <2>8, <2>9
<1>4. ASSUME NEW t \in Threads, Insert(t) PROVE IInv'
    <2>1. TypeOK'
        <3>1. At(t, "insert") /\ UNCHANGED <<heap, engineVars, counterVars, observed, lost, calls>>
            BY <1>4 DEF Insert
        <3>2. CASE UNCHANGED <<entries, stale, missed>> /\ dropped_blocks' = dropped_blocks + 1 /\ Return(t)
            BY <3>1, <3>2, NoneAssumption DEF TypeOK, PCs, Own, Return, NoCall, Calls, Sized,
               refusedVars, Settles, Refuses, Tracked
        <3>3. CASE /\ entries' = [entries EXCEPT ![call[t].at] = call[t].pp] /\ Goto(t, "count")
                   /\ stale' = stale \ {call[t].at} /\ UNCHANGED <<missed, dropped_blocks, call>>
            BY <3>1, <3>3, NoneAssumption DEF TypeOK, PCs, Own, Return, NoCall, Calls, Sized,
               refusedVars, Settles, Refuses, Tracked
        <3> QED
            BY <1>4, <3>2, <3>3 DEF Insert, Settles
    <2>2. Own'
        <3>1. At(t, "insert") /\ UNCHANGED <<heap, engineVars, counterVars, observed, lost, calls>>
            BY <1>4 DEF Insert
        <3>2. CASE UNCHANGED <<entries, stale, missed>> /\ dropped_blocks' = dropped_blocks + 1 /\ Return(t)
            BY <3>1, <3>2, NoneAssumption DEF TypeOK, Own, Return, NoCall, Refuses, Tracked, Settles
        <3>3. CASE /\ entries' = [entries EXCEPT ![call[t].at] = call[t].pp] /\ Goto(t, "count")
                   /\ stale' = stale \ {call[t].at} /\ UNCHANGED <<missed, dropped_blocks, call>>
            BY <3>1, <3>3, NoneAssumption DEF TypeOK, Own, Return, NoCall, Refuses, Tracked, Settles
        <3> QED
            BY <1>4, <3>2, <3>3 DEF Insert, Settles
    <2>3. Sized'
        <3>1. At(t, "insert") /\ UNCHANGED <<heap, engineVars, counterVars, observed, lost, calls>>
            BY <1>4 DEF Insert
        <3>2. CASE UNCHANGED <<entries, stale, missed>> /\ dropped_blocks' = dropped_blocks + 1 /\ Return(t)
            BY <3>1, <3>2, NoneAssumption DEF TypeOK, Sized, Own, Return, NoCall, Calls, Refuses,
               Tracked
        <3>3. CASE /\ entries' = [entries EXCEPT ![call[t].at] = call[t].pp] /\ Goto(t, "count")
                   /\ stale' = stale \ {call[t].at} /\ UNCHANGED <<missed, dropped_blocks, call>>
            BY <3>1, <3>3, NoneAssumption DEF TypeOK, Sized, Own, Return, NoCall, Calls, Refuses,
               Tracked
        <3> QED
            BY <1>4, <3>2, <3>3 DEF Insert, Settles
    <2>4. Unrecorded'
        BY <1>4 DEF Insert, Unrecorded, Recording
    <2>5. Gone'
        BY <1>4 DEF Insert, TypeOK, Gone, Own, Return, Tracked
    <2>6. LeftBehind'
        BY <1>4 DEF Insert, TypeOK, LeftBehind, Own, Return, Settles, Tracked
    <2>7. Writes'
        <3>1. At(t, "insert") /\ UNCHANGED <<heap, engineVars, counterVars, observed, lost, calls>>
            BY <1>4 DEF Insert
        <3>2. CASE UNCHANGED <<entries, stale, missed>> /\ dropped_blocks' = dropped_blocks + 1 /\ Return(t)
            BY <3>1, <3>2, NoneAssumption DEF TypeOK, Writes, Refuses, Own, Return, NoCall, Tracked,
               EntryIsBlock, Records, refusedVars, Settles
        <3>3. CASE /\ entries' = [entries EXCEPT ![call[t].at] = call[t].pp] /\ Goto(t, "count")
                   /\ stale' = stale \ {call[t].at} /\ UNCHANGED <<missed, dropped_blocks, call>>
            BY <3>1, <3>3, NoneAssumption DEF TypeOK, Writes, Refuses, Own, Return, NoCall, Tracked,
               EntryIsBlock, Records, refusedVars, Settles
        <3> QED
            BY <1>4, <3>2, <3>3 DEF Insert, Settles
    <2>8. EntryIsBlock'
        BY <1>4 DEF Insert, TypeOK, EntryIsBlock, Own, Writes, Settles, Tracked
    <2>9. Observed'
        <3>1. CASE Refuses(call[t].at)
            <4>1. t \in InFlight /\ InFlight' = InFlight \ {t}
                BY <1>4, <3>1 DEF Insert, InFlight, TypeOK, Return
            <4>2. Cardinality(InFlight') = Cardinality(InFlight) - 1
                BY <4>1, OneLessInFlight
            <4> QED
                BY <1>4, <3>1, <4>2, InFlightIsNat DEF Insert, Observed, TypeOK
        <3>2. CASE ~Refuses(call[t].at)
            <4>1. InFlight' = InFlight
                BY <1>4, <3>2 DEF Insert, InFlight, TypeOK
            <4> QED
                BY <1>4, <3>2, <4>1 DEF Insert, Observed
        <3> QED
            BY <3>1, <3>2
    <2> QED
        BY <2>1, <2>2, <2>3, <2>4, <2>5, <2>6, <2>7, <2>8, <2>9
<1>5. ASSUME NEW t \in Threads, CountAlloc(t) PROVE IInv'
    <2>1. TypeOK'
        BY <1>5, Weights DEF CountAlloc, TypeOK, PCs, Calls, Sized, NoCall, Apply, Return
    <2>2. Own'
        BY <1>5 DEF CountAlloc, TypeOK, Own, NoCall, Return
    <2>3. Sized'
        BY <1>5 DEF CountAlloc, TypeOK, Sized, Return
    <2>4. Unrecorded'
        BY <1>5 DEF CountAlloc, Unrecorded, Recording
    <2>5. Gone'
        BY <1>5 DEF CountAlloc, Gone, Return, Tracked
    <2>6. LeftBehind'
        BY <1>5 DEF CountAlloc, LeftBehind, Return, Tracked
    <2>7. Writes'
        BY <1>5 DEF CountAlloc, Writes, Return
    <2>8. EntryIsBlock'
        BY <1>5 DEF CountAlloc, EntryIsBlock, Tracked
    <2>9. Observed'
        <3>1. t \in InFlight /\ InFlight' = InFlight \ {t}
            BY <1>5 DEF CountAlloc, InFlight, TypeOK, Return
        <3>2. Cardinality(InFlight') = Cardinality(InFlight) - 1
            BY <3>1, OneLessInFlight
        <3>3. call[t].new \in Sizes
            BY <1>5 DEF CountAlloc, Sized
        <3>4. ~sampled => total_blocks' = total_blocks + 1
            BY <1>5, <3>3, Weights DEF CountAlloc
        <3> QED
            BY <1>5, <3>2, <3>4, InFlightIsNat DEF CountAlloc, Observed, TypeOK
    <2> QED
        BY <2>1, <2>2, <2>3, <2>4, <2>5, <2>6, <2>7, <2>8, <2>9
<1>6. ASSUME NEW t \in Threads, CallFree(t) PROVE IInv'
    <2>1. TypeOK'
        <3>1. PICK a \in Owned, guarded \in BOOLEAN : CallFree(t)!(a, guarded)
            BY <1>6 DEF CallFree
        <3>2. [NoCall EXCEPT !.at = a, !.old = heap[a].size] \in Calls
            BY <3>1 DEF NoCall, Calls, Owned, TypeOK
        <3>3. call' \in [Threads -> Calls] /\ call'[t].at \in Addresses
            BY <3>1, <3>2 DEF TypeOK, Owned, Calls
        <3>4. stale' \subseteq Addresses /\ missed' \in BOOLEAN /\ (stale' # {} => missed')
            BY <3>1 DEF TypeOK, Owned, Misses, refusedVars, Tracked
        <3>5. pc' \in [Threads -> PCs] /\ \A u \in Threads : u # t
                => pc'[u] = pc[u] /\ call'[u] = call[u]
            BY <3>1 DEF TypeOK, PCs
        <3> QED
            BY <3>1, <3>3, <3>4, <3>5 DEF TypeOK, Begin
    <2>2. Own'
        BY <1>6, NoneAssumption DEF CallFree, TypeOK, Own, Owned
    <2>3. Sized'
        BY <1>6 DEF CallFree, TypeOK, Sized, Owned
    <2>4. Unrecorded'
        BY <1>6 DEF CallFree, Unrecorded, Recording, Records, Tracked
    <2>5. Gone'
        BY <1>6 DEF CallFree, TypeOK, Gone, Tracked
    <2>6. LeftBehind'
        BY <1>6 DEF CallFree, TypeOK, LeftBehind, Records, Misses, Tracked, refusedVars
    <2>7. Writes'
        BY <1>6 DEF CallFree, TypeOK, Writes, Misses, refusedVars
    <2>8. EntryIsBlock'
        BY <1>6 DEF CallFree, EntryIsBlock, Misses, Tracked, refusedVars
    <2>9. Observed'
        <3>1. InFlight' = InFlight
            BY <1>6 DEF CallFree, InFlight, TypeOK, Begin, Return
        <3> QED
            BY <1>6, <3>1 DEF CallFree, Observed
    <2> QED
        BY <2>1, <2>2, <2>3, <2>4, <2>5, <2>6, <2>7, <2>8, <2>9
<1>7. ASSUME NEW t \in Threads, Remove(t) PROVE IInv'
    <2>1. TypeOK'
        <3>1. call[t].at \in Addresses /\ entries[call[t].at] \in Points \cup {None}
            BY <1>7 DEF Remove, TypeOK
        <3>2. [call[t] EXCEPT !.taken = entries[call[t].at]] \in Calls
            BY <3>1 DEF TypeOK, Calls
        <3> QED
            BY <1>7, <3>1, <3>2 DEF Remove, TypeOK, PCs, Calls, Settles
    <2>2. Own'
        BY <1>7 DEF Remove, Own
    <2>3. Sized'
        BY <1>7 DEF Remove, TypeOK, Sized
    <2>4. Unrecorded'
        BY <1>7 DEF Remove, Unrecorded, Recording
    <2>5. Gone'
        BY <1>7 DEF Remove, TypeOK, Gone, Tracked
    <2>6. LeftBehind'
        BY <1>7 DEF Remove, TypeOK, LeftBehind, Settles, Tracked
    <2>7. Writes'
        BY <1>7 DEF Remove, Writes, Own, Settles
    <2>8. EntryIsBlock'
        BY <1>7 DEF Remove, TypeOK, EntryIsBlock, Settles, Tracked
    <2>9. Observed'
        <3>1. InFlight' = InFlight
            BY <1>7 DEF Remove, InFlight, TypeOK, Begin, Return
        <3> QED
            BY <1>7, <3>1 DEF Remove, Observed
    <2> QED
        BY <2>1, <2>2, <2>3, <2>4, <2>5, <2>6, <2>7, <2>8, <2>9
<1>8. ASSUME NEW t \in Threads, Uncount(t) PROVE IInv'
    <2>1. TypeOK'
        BY <1>8, Weights DEF Uncount, TypeOK, PCs, Sized, Apply
    <2>2. Own'
        BY <1>8 DEF Uncount, Own
    <2>3. Sized'
        BY <1>8 DEF Uncount, Sized
    <2>4. Unrecorded'
        BY <1>8 DEF Uncount, Unrecorded, Recording
    <2>5. Gone'
        BY <1>8 DEF Uncount, Gone, Tracked
    <2>6. LeftBehind'
        BY <1>8 DEF Uncount, LeftBehind, Gone, Tracked
    <2>7. Writes'
        BY <1>8 DEF Uncount, Writes
    <2>8. EntryIsBlock'
        BY <1>8 DEF Uncount, EntryIsBlock, Tracked
    <2>9. Observed'
        <3>1. InFlight' = InFlight
            BY <1>8 DEF Uncount, InFlight, TypeOK, Begin, Return
        <3> QED
            BY <1>8, <3>1 DEF Uncount, Observed
    <2> QED
        BY <2>1, <2>2, <2>3, <2>4, <2>5, <2>6, <2>7, <2>8, <2>9
<1>9. ASSUME NEW t \in Threads, InnerFree(t) PROVE IInv'
    <2>1. TypeOK'
        BY <1>9 DEF InnerFree, TypeOK, PCs, Calls, NoCall, Return
    <2>2. Own'
        BY <1>9 DEF InnerFree, TypeOK, Own, NoCall, Return
    <2>3. Sized'
        BY <1>9 DEF InnerFree, Sized, Return
    <2>4. Unrecorded'
        BY <1>9 DEF InnerFree, Unrecorded, Recording, Return, Tracked
    <2>5. Gone'
        BY <1>9 DEF InnerFree, Gone, Return, Tracked
    <2>6. LeftBehind'
        BY <1>9 DEF InnerFree, TypeOK, LeftBehind, Return, Tracked
    <2>7. Writes'
        BY <1>9 DEF InnerFree, Writes, Own, Return
    <2>8. EntryIsBlock'
        BY <1>9 DEF InnerFree, EntryIsBlock, LeftBehind, Tracked
    <2>9. Observed'
        <3>1. InFlight' = InFlight
            BY <1>9 DEF InnerFree, InFlight, TypeOK, Begin, Return
        <3> QED
            BY <1>9, <3>1 DEF InnerFree, Observed
    <2> QED
        BY <2>1, <2>2, <2>3, <2>4, <2>5, <2>6, <2>7, <2>8, <2>9
<1>10. ASSUME NEW t \in Threads, CallRealloc(t) PROVE IInv'
    <2>1. TypeOK'
        <3>1. PICK a \in Owned, n \in Sizes, p \in Points, guarded \in BOOLEAN :
                    CallRealloc(t)!(a, n, p, guarded)
            BY <1>10 DEF CallRealloc
        <3>2. [NoCall EXCEPT !.at = a, !.old = heap[a].size, !.new = n, !.pp = p] \in Calls
            BY <3>1 DEF NoCall, Calls, Owned, TypeOK
        <3>3. call' \in [Threads -> Calls] /\ call'[t].at \in Addresses
            BY <3>1, <3>2 DEF TypeOK, Owned, Calls
        <3>4. stale' \subseteq Addresses /\ missed' \in BOOLEAN /\ (stale' # {} => missed')
            BY <3>1 DEF TypeOK, Owned, Misses, refusedVars, Tracked
        <3>5. pc' \in [Threads -> PCs] /\ \A u \in Threads : u # t
                => pc'[u] = pc[u] /\ call'[u] = call[u]
            BY <3>1 DEF TypeOK, PCs
        <3> QED
            BY <3>1, <3>3, <3>4, <3>5 DEF TypeOK, Begin
    <2>2. Own'
        BY <1>10, NoneAssumption DEF CallRealloc, TypeOK, Own, Owned
    <2>3. Sized'
        BY <1>10 DEF CallRealloc, TypeOK, Sized, Owned
    <2>4. Unrecorded'
        BY <1>10 DEF CallRealloc, Unrecorded, Recording, Records, Tracked
    <2>5. Gone'
        BY <1>10 DEF CallRealloc, TypeOK, Gone, Tracked
    <2>6. LeftBehind'
        BY <1>10 DEF CallRealloc, TypeOK, LeftBehind, Records, Misses, Tracked, refusedVars
    <2>7. Writes'
        BY <1>10 DEF CallRealloc, TypeOK, Writes, Misses, refusedVars
    <2>8. EntryIsBlock'
        BY <1>10 DEF CallRealloc, EntryIsBlock, Misses, Tracked, refusedVars
    <2>9. Observed'
        <3>1. InFlight' = InFlight
            BY <1>10 DEF CallRealloc, InFlight, TypeOK, Begin, Return
        <3> QED
            BY <1>10, <3>1 DEF CallRealloc, Observed
    <2> QED
        BY <2>1, <2>2, <2>3, <2>4, <2>5, <2>6, <2>7, <2>8, <2>9
<1>11. ASSUME NEW t \in Threads, Take(t) PROVE IInv'
    <2>1. TypeOK'
        BY <1>11 DEF Take, TypeOK, PCs, Calls, Sized, refusedVars
    <2>2. Own'
        BY <1>11 DEF Take, Own
    <2>3. Sized'
        BY <1>11 DEF Take, Sized
    <2>4. Unrecorded'
        BY <1>11 DEF Take, Unrecorded, Recording
    <2>5. Gone'
        BY <1>11 DEF Take, TypeOK, Gone, Tracked
    <2>6. LeftBehind'
        BY <1>11 DEF Take, LeftBehind, Tracked, refusedVars
    <2>7. Writes'
        BY <1>11 DEF Take, TypeOK, Writes, EntryIsBlock, Tracked, refusedVars
    <2>8. EntryIsBlock'
        BY <1>11 DEF Take, EntryIsBlock, Tracked, refusedVars
    <2>9. Observed'
        <3>1. InFlight' = InFlight
            BY <1>11 DEF Take, InFlight, TypeOK, Begin, Return
        <3> QED
            BY <1>11, <3>1 DEF Take, Observed
    <2> QED
        BY <2>1, <2>2, <2>3, <2>4, <2>5, <2>6, <2>7, <2>8, <2>9
<1>12. ASSUME NEW t \in Threads, InnerRealloc(t) PROVE IInv'
    <2>1. TypeOK'
        <3>0. UNCHANGED <<entries, dropped_blocks, lost, engineVars, counterVars, observed, calls>>
            BY <1>12 DEF InnerRealloc
        <3>1. ASSUME NEW a \in Free \cup {call[t].at}, Moved(t, a), pc[t] = "resize" PROVE TypeOK'
            <4>1. /\ pc' = [pc EXCEPT ![t] = "observe_realloc"] /\ call' = [call EXCEPT ![t].at = a]
                  /\ stale' = stale \ {call[t].at} /\ missed' = missed
                BY <3>1 DEF Moved, Settles
            <4>2. call' \in [Threads -> Calls] /\ \A u \in Threads : u = t \/ call'[u] = call[u]
                <5>1. call[t] \in Calls /\ a \in Addresses
                    BY <3>1, Moving DEF TypeOK
                <5>2. [call[t] EXCEPT !.at = a] \in Calls
                    BY <5>1 DEF Calls
                <5> QED
                    BY <4>1, <5>2 DEF TypeOK
            <4> QED
                BY <3>0, <3>1, <4>1, <4>2, Moving, ResizedIsBlock, NoneAssumption DEF TypeOK, PCs,
                   Own, Return, NoCall, Calls, Sized, refusedVars, Settles, Refuses, Tracked, Free
        <3>2. ASSUME NEW a \in Free \cup {call[t].at}, Moved(t, a), pc[t] = "resize_only" PROVE TypeOK'
            <4>1. /\ pc' = [pc EXCEPT ![t] = "program"] /\ call' = [call EXCEPT ![t] = NoCall]
                  /\ stale' = stale /\ missed' = missed
                BY <3>2 DEF Moved, Settles, Return
            <4> QED
                BY <3>0, <3>2, <4>1, Moving, ResizedIsBlock, NoneAssumption DEF TypeOK, PCs, Own,
                   Return, NoCall, Calls, Sized, refusedVars, Settles, Refuses, Tracked, Free
        <3>3. CASE UNCHANGED <<heap, refusedVars>> /\ Goto(t, "put_back") /\ UNCHANGED call /\ call[t].taken # None /\ pc[t] = "resize"
            BY <3>0, <3>3, NoneAssumption DEF TypeOK, PCs, Own, Return, NoCall, Calls, Sized,
               refusedVars, Settles, Refuses, Tracked, Free
        <3>4. CASE UNCHANGED <<heap, refusedVars>> /\ Return(t)
            BY <3>0, <3>4, NoneAssumption DEF TypeOK, PCs, Own, Return, NoCall, Calls, Sized,
               refusedVars, Settles, Refuses, Tracked, Free
        <3> QED
            BY <1>12, <3>1, <3>2, <3>3, <3>4 DEF InnerRealloc, Moved
    <2>2. Own'
        <3>0. UNCHANGED <<entries, dropped_blocks, lost, engineVars, counterVars, observed, calls>>
            BY <1>12 DEF InnerRealloc
        <3>1. ASSUME NEW a \in Free \cup {call[t].at}, Moved(t, a), pc[t] = "resize" PROVE Own'
            <4>1. /\ pc' = [pc EXCEPT ![t] = "observe_realloc"] /\ call' = [call EXCEPT ![t].at = a]
                  /\ stale' = stale \ {call[t].at} /\ missed' = missed
                BY <3>1 DEF Moved, Settles
            <4> QED
                BY <3>0, <3>1, <4>1, Moving, ResizedIsBlock, NoneAssumption DEF TypeOK, Own, Return,
                   NoCall, Refuses, Tracked, Settles, Free
        <3>2. ASSUME NEW a \in Free \cup {call[t].at}, Moved(t, a), pc[t] = "resize_only" PROVE Own'
            <4>1. /\ pc' = [pc EXCEPT ![t] = "program"] /\ call' = [call EXCEPT ![t] = NoCall]
                  /\ stale' = stale /\ missed' = missed
                BY <3>2 DEF Moved, Settles, Return
            <4> QED
                BY <3>0, <3>2, <4>1, Moving, ResizedIsBlock, NoneAssumption DEF TypeOK, Own, Return,
                   NoCall, Refuses, Tracked, Settles, Free
        <3>3. CASE UNCHANGED <<heap, refusedVars>> /\ Goto(t, "put_back") /\ UNCHANGED call /\ call[t].taken # None /\ pc[t] = "resize"
            BY <3>0, <3>3, NoneAssumption DEF TypeOK, Own, Return, NoCall, Refuses, Tracked,
               Settles, Free
        <3>4. CASE UNCHANGED <<heap, refusedVars>> /\ Return(t)
            BY <3>0, <3>4, NoneAssumption DEF TypeOK, Own, Return, NoCall, Refuses, Tracked,
               Settles, Free
        <3> QED
            BY <1>12, <3>1, <3>2, <3>3, <3>4 DEF InnerRealloc, Moved
    <2>3. Sized'
        <3>0. UNCHANGED <<entries, dropped_blocks, lost, engineVars, counterVars, observed, calls>>
            BY <1>12 DEF InnerRealloc
        <3>1. ASSUME NEW a \in Free \cup {call[t].at}, Moved(t, a), pc[t] = "resize" PROVE Sized'
            <4>1. /\ pc' = [pc EXCEPT ![t] = "observe_realloc"] /\ call' = [call EXCEPT ![t].at = a]
                  /\ stale' = stale \ {call[t].at} /\ missed' = missed
                BY <3>1 DEF Moved, Settles
            <4> QED
                BY <3>0, <3>1, <4>1, Moving, ResizedIsBlock, NoneAssumption DEF TypeOK, Sized, Own,
                   Return, NoCall, Calls, Refuses, Tracked
        <3>2. ASSUME NEW a \in Free \cup {call[t].at}, Moved(t, a), pc[t] = "resize_only" PROVE Sized'
            <4>1. /\ pc' = [pc EXCEPT ![t] = "program"] /\ call' = [call EXCEPT ![t] = NoCall]
                  /\ stale' = stale /\ missed' = missed
                BY <3>2 DEF Moved, Settles, Return
            <4> QED
                BY <3>0, <3>2, <4>1, Moving, ResizedIsBlock, NoneAssumption DEF TypeOK, Sized, Own,
                   Return, NoCall, Calls, Refuses, Tracked
        <3>3. CASE UNCHANGED <<heap, refusedVars>> /\ Goto(t, "put_back") /\ UNCHANGED call /\ call[t].taken # None /\ pc[t] = "resize"
            BY <3>0, <3>3, NoneAssumption DEF TypeOK, Sized, Own, Return, NoCall, Calls, Refuses,
               Tracked
        <3>4. CASE UNCHANGED <<heap, refusedVars>> /\ Return(t)
            BY <3>0, <3>4, NoneAssumption DEF TypeOK, Sized, Own, Return, NoCall, Calls, Refuses,
               Tracked
        <3> QED
            BY <1>12, <3>1, <3>2, <3>3, <3>4 DEF InnerRealloc, Moved
    <2>4. Unrecorded'
        BY <1>12 DEF InnerRealloc, TypeOK, Unrecorded, Recording, Return, Tracked
    <2>5. Gone'
        BY <1>12 DEF InnerRealloc, TypeOK, Gone, Return, Tracked
    <2>6. LeftBehind'
        <3>0. UNCHANGED <<entries, dropped_blocks, lost, engineVars, counterVars, observed, calls>>
            BY <1>12 DEF InnerRealloc
        <3>1. ASSUME NEW a \in Free \cup {call[t].at}, Moved(t, a), pc[t] = "resize" PROVE LeftBehind'
            <4>1. /\ pc' = [pc EXCEPT ![t] = "observe_realloc"] /\ call' = [call EXCEPT ![t].at = a]
                  /\ stale' = stale \ {call[t].at} /\ missed' = missed
                BY <3>1 DEF Moved, Settles
            <4> QED
                BY <3>0, <3>1, <4>1, Moving, ResizedIsBlock, NoneAssumption DEF TypeOK, LeftBehind,
                   Own, Return, NoCall, Gone, EntryIsBlock, Tracked, Free, refusedVars, Settles
        <3>2. ASSUME NEW a \in Free \cup {call[t].at}, Moved(t, a), pc[t] = "resize_only" PROVE LeftBehind'
            <4>1. /\ pc' = [pc EXCEPT ![t] = "program"] /\ call' = [call EXCEPT ![t] = NoCall]
                  /\ stale' = stale /\ missed' = missed
                BY <3>2 DEF Moved, Settles, Return
            <4> QED
                BY <3>0, <3>2, <4>1, Moving, ResizedIsBlock, NoneAssumption DEF TypeOK, LeftBehind,
                   Own, Return, NoCall, Gone, EntryIsBlock, Tracked, Free, refusedVars, Settles
        <3>3. CASE UNCHANGED <<heap, refusedVars>> /\ Goto(t, "put_back") /\ UNCHANGED call /\ call[t].taken # None /\ pc[t] = "resize"
            BY <3>0, <3>3, NoneAssumption DEF TypeOK, LeftBehind, Own, Return, NoCall, Gone,
               EntryIsBlock, Tracked, Free, refusedVars, Settles
        <3>4. CASE UNCHANGED <<heap, refusedVars>> /\ Return(t)
            BY <3>0, <3>4, NoneAssumption DEF TypeOK, LeftBehind, Own, Return, NoCall, Gone,
               EntryIsBlock, Tracked, Free, refusedVars, Settles
        <3> QED
            BY <1>12, <3>1, <3>2, <3>3, <3>4 DEF InnerRealloc, Moved
    <2>7. Writes'
        <3>0. UNCHANGED <<entries, dropped_blocks, lost, engineVars, counterVars, observed, calls>>
            BY <1>12 DEF InnerRealloc
        <3>1. ASSUME NEW a \in Free \cup {call[t].at}, Moved(t, a), pc[t] = "resize" PROVE Writes'
            <4>1. /\ pc' = [pc EXCEPT ![t] = "observe_realloc"] /\ call' = [call EXCEPT ![t].at = a]
                  /\ stale' = stale \ {call[t].at} /\ missed' = missed
                BY <3>1 DEF Moved, Settles
            <4> QED
                BY <3>0, <3>1, <4>1, Moving, ResizedIsBlock, NoneAssumption DEF TypeOK, Writes,
                   Refuses, Own, Return, NoCall, Tracked, EntryIsBlock, Records, refusedVars,
                   Settles, Free, Gone, LeftBehind
        <3>2. ASSUME NEW a \in Free \cup {call[t].at}, Moved(t, a), pc[t] = "resize_only" PROVE Writes'
            <4>1. /\ pc' = [pc EXCEPT ![t] = "program"] /\ call' = [call EXCEPT ![t] = NoCall]
                  /\ stale' = stale /\ missed' = missed
                BY <3>2 DEF Moved, Settles, Return
            <4> QED
                BY <3>0, <3>2, <4>1, Moving, ResizedIsBlock, NoneAssumption DEF TypeOK, Writes,
                   Refuses, Own, Return, NoCall, Tracked, EntryIsBlock, Records, refusedVars,
                   Settles, Free, Gone, LeftBehind
        <3>3. CASE UNCHANGED <<heap, refusedVars>> /\ Goto(t, "put_back") /\ UNCHANGED call /\ call[t].taken # None /\ pc[t] = "resize"
            BY <3>0, <3>3, NoneAssumption DEF TypeOK, Writes, Refuses, Own, Return, NoCall, Tracked,
               EntryIsBlock, Records, refusedVars, Settles, Free, Gone, LeftBehind
        <3>4. CASE UNCHANGED <<heap, refusedVars>> /\ Return(t)
            BY <3>0, <3>4, NoneAssumption DEF TypeOK, Writes, Refuses, Own, Return, NoCall, Tracked,
               EntryIsBlock, Records, refusedVars, Settles, Free, Gone, LeftBehind
        <3> QED
            BY <1>12, <3>1, <3>2, <3>3, <3>4 DEF InnerRealloc, Moved
    <2>8. EntryIsBlock'
        BY <1>12 DEF InnerRealloc, TypeOK, EntryIsBlock, LeftBehind, Gone, Settles, Free, Tracked,
           refusedVars
    <2>9. Observed'
        <3>1. InFlight' = InFlight
            BY <1>12 DEF InnerRealloc, InFlight, TypeOK, Begin, Return
        <3> QED
            BY <1>12, <3>1 DEF InnerRealloc, Observed
    <2> QED
        BY <2>1, <2>2, <2>3, <2>4, <2>5, <2>6, <2>7, <2>8, <2>9
<1>13. ASSUME NEW t \in Threads, PutBack(t) PROVE IInv'
    <2>1. TypeOK'
        BY <1>13, Weights, NoneAssumption DEF PutBack, TypeOK, PCs, Calls, Sized, Own, NoCall,
           Apply, Return, Refuses, Settles, refusedVars
    <2>2. Own'
        BY <1>13 DEF PutBack, TypeOK, Own, NoCall, Return
    <2>3. Sized'
        BY <1>13 DEF PutBack, TypeOK, Sized, Return
    <2>4. Unrecorded'
        BY <1>13 DEF PutBack, Unrecorded, Recording
    <2>5. Gone'
        BY <1>13 DEF PutBack, TypeOK, Gone, Own, Return, Tracked
    <2>6. LeftBehind'
        BY <1>13 DEF PutBack, TypeOK, LeftBehind, Own, Return, Settles, Tracked
    <2>7. Writes'
        BY <1>13 DEF PutBack, TypeOK, Writes, Own, Return, Settles
    <2>8. EntryIsBlock'
        BY <1>13 DEF PutBack, TypeOK, EntryIsBlock, Own, Gone, Writes, Settles, Tracked
    <2>9. Observed'
        <3>1. InFlight' = InFlight
            BY <1>13 DEF PutBack, InFlight, TypeOK, Begin, Return
        <3> QED
            BY <1>13, <3>1 DEF PutBack, Observed
    <2> QED
        BY <2>1, <2>2, <2>3, <2>4, <2>5, <2>6, <2>7, <2>8, <2>9
<1>14. ASSUME NEW t \in Threads, ObserveRealloc(t) PROVE IInv'
    <2>1. TypeOK'
        <3>1. CASE UNCHANGED call /\ Goto(t, IF call[t].taken = None
                THEN "insert" ELSE "insert_resized")
            BY <1>14, <3>1, NoneAssumption DEF ObserveRealloc, TypeOK, PCs, Own, Return, NoCall,
               Calls, Sized, refusedVars, Settles, Refuses, Tracked
        <3>2. CASE Return(t)
            BY <1>14, <3>2, NoneAssumption DEF ObserveRealloc, TypeOK, PCs, Own, Return, NoCall,
               Calls, Sized, refusedVars, Settles, Refuses, Tracked
        <3> QED
            BY <1>14, <3>1, <3>2 DEF ObserveRealloc
    <2>2. Own'
        <3>1. CASE UNCHANGED call /\ Goto(t, IF call[t].taken = None
                THEN "insert" ELSE "insert_resized")
            BY <1>14, <3>1, NoneAssumption DEF ObserveRealloc, TypeOK, Own, Return, NoCall, Refuses,
               Tracked, Settles
        <3>2. CASE Return(t)
            BY <1>14, <3>2, NoneAssumption DEF ObserveRealloc, TypeOK, Own, Return, NoCall, Refuses,
               Tracked, Settles
        <3> QED
            BY <1>14, <3>1, <3>2 DEF ObserveRealloc
    <2>3. Sized'
        <3>1. CASE UNCHANGED call /\ Goto(t, IF call[t].taken = None
                THEN "insert" ELSE "insert_resized")
            BY <1>14, <3>1, NoneAssumption DEF ObserveRealloc, TypeOK, Sized, Own, Return, NoCall,
               Calls, Refuses, Tracked
        <3>2. CASE Return(t)
            BY <1>14, <3>2, NoneAssumption DEF ObserveRealloc, TypeOK, Sized, Own, Return, NoCall,
               Calls, Refuses, Tracked
        <3> QED
            BY <1>14, <3>1, <3>2 DEF ObserveRealloc
    <2>4. Unrecorded'
        BY <1>14 DEF ObserveRealloc, Unrecorded, Recording
    <2>5. Gone'
        BY <1>14 DEF ObserveRealloc, TypeOK, Gone, Return, Tracked
    <2>6. LeftBehind'
        BY <1>14 DEF ObserveRealloc, TypeOK, LeftBehind, Return, Tracked
    <2>7. Writes'
        <3>1. CASE UNCHANGED call /\ Goto(t, IF call[t].taken = None
                THEN "insert" ELSE "insert_resized")
            BY <1>14, <3>1, NoneAssumption DEF ObserveRealloc, TypeOK, Writes, Refuses, Own, Return,
               NoCall, Tracked, EntryIsBlock, Records, refusedVars, Settles
        <3>2. CASE Return(t)
            BY <1>14, <3>2, NoneAssumption DEF ObserveRealloc, TypeOK, Writes, Refuses, Own, Return,
               NoCall, Tracked, EntryIsBlock, Records, refusedVars, Settles
        <3> QED
            BY <1>14, <3>1, <3>2 DEF ObserveRealloc
    <2>8. EntryIsBlock'
        BY <1>14 DEF ObserveRealloc, EntryIsBlock, Tracked
    <2>9. Observed'
        <3>1. CASE observed' = observed + 1 /\ Goto(t, IF call[t].taken = None
                THEN "insert" ELSE "insert_resized")
            <4>1. t \notin InFlight /\ InFlight' = InFlight \cup {t}
                BY <1>14, <3>1 DEF ObserveRealloc, InFlight, TypeOK
            <4>2. Cardinality(InFlight') = Cardinality(InFlight) + 1
                BY <4>1, OneMoreInFlight
            <4> QED
                BY <1>14, <3>1, <4>2, InFlightIsNat DEF ObserveRealloc, Observed, TypeOK
        <3>2. CASE sampled
            BY <1>14, <3>2 DEF ObserveRealloc, Observed
        <3> QED
            BY <1>14, <3>1, <3>2 DEF ObserveRealloc
    <2> QED
        BY <2>1, <2>2, <2>3, <2>4, <2>5, <2>6, <2>7, <2>8, <2>9
<1>15. ASSUME NEW t \in Threads, InsertResized(t) PROVE IInv'
    <2>1. TypeOK'
        <3>1. call[t].taken \in Points /\ call[t].at \in Addresses
            BY <1>15 DEF InsertResized, Sized, TypeOK
        <3> QED
            BY <1>15, <3>1 DEF InsertResized, TypeOK, PCs, Settles
    <2>2. Own'
        BY <1>15 DEF InsertResized, TypeOK, Own
    <2>3. Sized'
        BY <1>15 DEF InsertResized, TypeOK, Sized
    <2>4. Unrecorded'
        BY <1>15 DEF InsertResized, Unrecorded, Recording
    <2>5. Gone'
        BY <1>15 DEF InsertResized, TypeOK, Gone, Own, Refuses, Tracked
    <2>6. LeftBehind'
        BY <1>15 DEF InsertResized, TypeOK, LeftBehind, Own, Settles, Tracked
    <2>7. Writes'
        BY <1>15 DEF InsertResized, TypeOK, Writes, Own, Settles
    <2>8. EntryIsBlock'
        BY <1>15 DEF InsertResized, TypeOK, EntryIsBlock, Own, Writes, Settles, Tracked
    <2>9. Observed'
        <3>1. CASE Refuses(call[t].at)
            <4>1. t \in InFlight /\ InFlight' = InFlight \ {t}
                BY <1>15, <3>1 DEF InsertResized, InFlight, TypeOK, Return
            <4>2. Cardinality(InFlight') = Cardinality(InFlight) - 1
                BY <4>1, OneLessInFlight
            <4> QED
                BY <1>15, <3>1, <4>2, InFlightIsNat DEF InsertResized, Observed, TypeOK
        <3>2. CASE ~Refuses(call[t].at)
            <4>1. InFlight' = InFlight
                BY <1>15, <3>2 DEF InsertResized, InFlight, TypeOK
            <4> QED
                BY <1>15, <3>2, <4>1 DEF InsertResized, Observed
        <3> QED
            BY <3>1, <3>2
    <2> QED
        BY <2>1, <2>2, <2>3, <2>4, <2>5, <2>6, <2>7, <2>8, <2>9
<1>16. ASSUME NEW t \in Threads, Forget(t) PROVE IInv'
    <2>1. TypeOK'
        BY <1>16, Weights DEF Forget, TypeOK, PCs, Calls, Sized, NoCall, Apply, Return
    <2>2. Own'
        BY <1>16 DEF Forget, TypeOK, Own, NoCall, Return
    <2>3. Sized'
        BY <1>16 DEF Forget, TypeOK, Sized, Return
    <2>4. Unrecorded'
        BY <1>16 DEF Forget, Unrecorded, Recording
    <2>5. Gone'
        BY <1>16 DEF Forget, TypeOK, Gone, Return, Tracked
    <2>6. LeftBehind'
        BY <1>16 DEF Forget, LeftBehind, Return, Tracked
    <2>7. Writes'
        BY <1>16 DEF Forget, Writes, Return
    <2>8. EntryIsBlock'
        BY <1>16 DEF Forget, EntryIsBlock, Tracked
    <2>9. Observed'
        <3>1. InFlight' = InFlight
            BY <1>16 DEF Forget, InFlight, TypeOK, Begin, Return
        <3> QED
            BY <1>16, <3>1 DEF Forget, Observed
    <2> QED
        BY <2>1, <2>2, <2>3, <2>4, <2>5, <2>6, <2>7, <2>8, <2>9
<1>17. ASSUME NEW t \in Threads, CountResized(t) PROVE IInv'
    <2>1. TypeOK'
        BY <1>17, Weights DEF CountResized, TypeOK, PCs, Calls, Sized, NoCall, Return
    <2>2. Own'
        BY <1>17 DEF CountResized, TypeOK, Own, NoCall, Return
    <2>3. Sized'
        BY <1>17 DEF CountResized, TypeOK, Sized, Return
    <2>4. Unrecorded'
        BY <1>17 DEF CountResized, Unrecorded, Recording
    <2>5. Gone'
        BY <1>17 DEF CountResized, Gone, Return, Tracked
    <2>6. LeftBehind'
        BY <1>17 DEF CountResized, LeftBehind, Return, Tracked
    <2>7. Writes'
        BY <1>17 DEF CountResized, Writes, Return
    <2>8. EntryIsBlock'
        BY <1>17 DEF CountResized, EntryIsBlock, Tracked
    <2>9. Observed'
        <3>1. t \in InFlight /\ InFlight' = InFlight \ {t}
            BY <1>17 DEF CountResized, InFlight, TypeOK, Return
        <3>2. Cardinality(InFlight') = Cardinality(InFlight) - 1
            BY <3>1, OneLessInFlight
        <3>3. call[t].new \in Sizes
            BY <1>17 DEF CountResized, Sized
        <3>4. ~sampled => total_blocks' = total_blocks + 1
            BY <1>17, <3>3, Weights DEF CountResized
        <3> QED
            BY <1>17, <3>2, <3>4, InFlightIsNat DEF CountResized, Observed, TypeOK
    <2> QED
        BY <2>1, <2>2, <2>3, <2>4, <2>5, <2>6, <2>7, <2>8, <2>9
<1>18. CASE Start
    BY <1>18 DEF Start, TypeOK, PCs, Calls, Own, Sized, Unrecorded, Recording, Gone, LeftBehind,
       Writes, EntryIsBlock, Observed, InFlight, Tracked
<1>19. CASE Stop
    BY <1>19 DEF Stop, TypeOK, PCs, Calls, Own, Sized, Unrecorded, Recording, Gone, LeftBehind,
       Writes, EntryIsBlock, Observed, InFlight, Tracked
<1>20. CASE UNCHANGED vars
    BY <1>20 DEF vars, TypeOK, PCs, Calls, Own, Sized, Unrecorded, Recording, Gone, LeftBehind,
       Writes, EntryIsBlock, Observed, InFlight, Tracked
<1> QED
    BY <1>1, <1>2, <1>3, <1>4, <1>5, <1>6, <1>7, <1>8, <1>9, <1>10, <1>11, <1>12, <1>13, <1>14,
       <1>15, <1>16, <1>17, <1>18, <1>19, <1>20
    DEF Next, AllocStep, FreeStep, ReallocStep, Exhausted

\* Initially there is no block, no entry and no call.
LEMMA InitInv == Init => IInv
<1> SUFFICES ASSUME Init PROVE IInv
    OBVIOUS
<1> USE NoneAssumption DEF Init, At
<1>1. TypeOK
    <2>1. NoCall \in Calls
        BY DEF NoCall, Calls
    <2>2. Nothing \in [bytes : Int, blocks : Int]
        BY DEF Nothing
    <2>3. counted \in [Points -> [bytes : Int, blocks : Int]] /\ call \in [Threads -> Calls]
        BY <2>1, <2>2
    <2>4. /\ heap \in [Addresses -> [size : Sizes, pp : Points] \cup {None}]
          /\ entries \in [Addresses -> Points \cup {None}]
          /\ pc \in [Threads -> PCs]
        BY DEF PCs
    <2>5. /\ {total_blocks, dropped_blocks, observed, calls} \subseteq Nat
          /\ \A t \in Threads : pc[t] = "program"
        OBVIOUS
    <2>6. lost \in BOOLEAN /\ missed \in BOOLEAN /\ stale \subseteq Addresses /\ stale = {}
        OBVIOUS
    <2>7. sampled \in BOOLEAN /\ state \in {"idle", "running", "finished"}
        OBVIOUS
    <2> QED
        BY <2>3, <2>4, <2>5, <2>6, <2>7 DEF TypeOK
<1>2. Own /\ Sized
    BY DEF Own, Sized, NoCall
<1>3. Tracked = {}
    BY DEF Tracked
<1>4. Unrecorded /\ Gone /\ LeftBehind /\ Writes /\ EntryIsBlock
    BY <1>3 DEF Unrecorded, Recording, Gone, LeftBehind, Writes, EntryIsBlock
<1>5. Observed
    <2>1. InFlight = {}
        BY DEF InFlight
    <2> QED
        BY <2>1, FS_EmptySet DEF Observed
<1> QED
    BY <1>1, <1>2, <1>4, <1>5 DEF IInv

LEMMA Invariance == Spec => []IInv
BY InitInv, NextInv, PTL DEF Spec

\* Types, for any threads, addresses, points, sizes and weights.
THEOREM TypeCorrect == Spec => []TypeOK
BY Invariance, PTL DEF IInv

\* An entry of the live-block table (live.rs) names the point its own block
\* counts at, however the allocator reuses addresses and calls overlap
\* (alloc.rs), but for the entries that refused calls left behind.
THEOREM EntriesAreBlocks == Spec => []EntryIsBlock
BY Invariance, PTL DEF IInv

\* A request that was seen (Engine::observe) is counted or dropped by the time
\* its call returns (Engine::record_alloc, record_realloc_taken).
THEOREM RequestsAreAccounted == Spec => []ObservedAccounted
<1>1. IInv => ObservedAccounted
    <2> SUFFICES ASSUME IInv, Quiet, ~sampled PROVE observed = total_blocks + dropped_blocks
        BY DEF ObservedAccounted
    <2>1. InFlight = {}
        BY DEF InFlight, Quiet, At
    <2>2. Cardinality(InFlight) = 0
        BY <2>1, FS_EmptySet
    <2> QED
        BY <2>2 DEF IInv, Observed, TypeOK
<1> QED
    BY <1>1, Invariance, PTL

-----------------------------------------------------------------------------
(* What is counted, and for which block *)

Fields == {"bytes", "blocks"}

\* Past the inner call a thread knows what its block measures.
Measured ==
    \A t \in Threads :
       /\ pc[t] \in {"remove", "take", "resize", "put_back"} => heap[call[t].at].size = call[t].old
       /\ pc[t] \in {"observe", "insert", "count", "observe_realloc", "insert_resized", "count_resized"}
             => heap[call[t].at].size = call[t].new

\* The entry is there before the counters move, and stays.
Written ==
    \A t \in Threads :
       /\ pc[t] = "count" => entries[call[t].at] = call[t].pp
       /\ pc[t] = "count_resized" => entries[call[t].at] = call[t].taken

\* The block in a thread's hands is counted at p, as it was when the call began.
StillCounts(t, p) ==
    \/ pc[t] \in {"remove", "take"} /\ entries[call[t].at] = p
    \/ /\ pc[t] \in {"uncount", "resize", "put_back", "observe_realloc", "insert_resized",
                     "forget", "count_resized"}
       /\ call[t].taken = p

\* What the block at an address has in the counters of p: by the thread that
\* has it in its hands, or else by its entry.  What the run left in the table
\* at its end is nobody's to take out.
Holder(a) == CHOOSE t \in Threads : call[t].at = a
Stands(a, p, field) ==
    IF \E t \in Threads : call[t].at = a
    THEN IF StillCounts(Holder(a), p) THEN Weight(call[Holder(a)].old)[field] ELSE 0
    ELSE IF state # "finished" /\ entries[a] = p THEN Weight(heap[a].size)[field] ELSE 0
Standing(p, field) == [a \in Addresses |-> Stands(a, p, field)]

\* The counters are what stands, until the run ends or an entry is lost, and
\* never less.
Kept ==
    ~missed =>
       \A p \in Points, field \in Fields :
          /\ counted[p][field] >= SumFunction(Standing(p, field))
          /\ state # "finished" /\ ~lost => counted[p][field] = SumFunction(Standing(p, field))

\* What a thread knows of its block and of the entry it made stays so.
LEMMA NextNotes == IInv /\ IInv' /\ Measured /\ Written /\ [Next]_vars => Measured' /\ Written'
<1> SUFFICES ASSUME IInv, IInv', Measured, Written, [Next]_vars PROVE Measured' /\ Written'
    OBVIOUS
<1> USE DEF At, Goto, Return
<1>t. TypeOK /\ Own
    BY DEF IInv
<1>1. ASSUME NEW t \in Threads, Alloc(t) PROVE Measured' /\ Written'
    <2>1. Measured'
        BY <1>t, <1>1, NoneAssumption
            DEF Alloc, TypeOK, Own, Measured, NoCall, Free, Owned, Calls, Resized, tableVars
    <2>2. Written'
        BY <1>t, <1>1, NoneAssumption
            DEF Alloc, TypeOK, Own, Written, NoCall, Free, Owned, tableVars
    <2> QED
        BY <2>1, <2>2
<1>2. ASSUME NEW t \in Threads, AllocRefused(t) PROVE Measured' /\ Written'
    <2>1. Measured'
        BY <1>t, <1>2, NoneAssumption
            DEF AllocRefused, TypeOK, Own, Measured, NoCall, Free, Owned, Calls, Resized, tableVars
    <2>2. Written'
        BY <1>t, <1>2, NoneAssumption
            DEF AllocRefused, TypeOK, Own, Written, NoCall, Free, Owned, tableVars
    <2> QED
        BY <2>1, <2>2
<1>3. ASSUME NEW t \in Threads, Observe(t) PROVE Measured' /\ Written'
    <2>1. Measured'
        BY <1>t, <1>3, NoneAssumption
            DEF Observe, TypeOK, Own, Measured, NoCall, Free, Owned, Calls, Resized, tableVars
    <2>2. Written'
        BY <1>t, <1>3, NoneAssumption
            DEF Observe, TypeOK, Own, Written, NoCall, Free, Owned, tableVars
    <2> QED
        BY <2>1, <2>2
<1>4. ASSUME NEW t \in Threads, Insert(t) PROVE Measured' /\ Written'
    <2>1. Measured'
        BY <1>t, <1>4, NoneAssumption
            DEF Insert, TypeOK, Own, Measured, NoCall, Free, Owned, Calls, Resized, tableVars
    <2>2. Written'
        BY <1>t, <1>4, NoneAssumption
            DEF Insert, TypeOK, Own, Written, NoCall, Free, Owned, tableVars
    <2> QED
        BY <2>1, <2>2
<1>5. ASSUME NEW t \in Threads, CountAlloc(t) PROVE Measured' /\ Written'
    <2>1. Measured'
        BY <1>t, <1>5, NoneAssumption
            DEF CountAlloc, TypeOK, Own, Measured, NoCall, Free, Owned, Calls, Resized, tableVars
    <2>2. Written'
        BY <1>t, <1>5, NoneAssumption
            DEF CountAlloc, TypeOK, Own, Written, NoCall, Free, Owned, tableVars
    <2> QED
        BY <2>1, <2>2
<1>6. ASSUME NEW t \in Threads, CallFree(t) PROVE Measured' /\ Written'
    <2>1. Measured'
        BY <1>t, <1>6, NoneAssumption
            DEF CallFree, TypeOK, Own, Measured, NoCall, Free, Owned, Calls, Resized, tableVars
    <2>2. Written'
        BY <1>t, <1>6, NoneAssumption
            DEF CallFree, TypeOK, Own, Written, NoCall, Free, Owned, tableVars
    <2> QED
        BY <2>1, <2>2
<1>7. ASSUME NEW t \in Threads, Remove(t) PROVE Measured' /\ Written'
    <2>1. Measured'
        BY <1>t, <1>7, NoneAssumption
            DEF Remove, TypeOK, Own, Measured, NoCall, Free, Owned, Calls, Resized, tableVars
    <2>2. Written'
        BY <1>t, <1>7, NoneAssumption
            DEF Remove, TypeOK, Own, Written, NoCall, Free, Owned, tableVars
    <2> QED
        BY <2>1, <2>2
<1>8. ASSUME NEW t \in Threads, Uncount(t) PROVE Measured' /\ Written'
    <2>1. Measured'
        BY <1>t, <1>8, NoneAssumption
            DEF Uncount, TypeOK, Own, Measured, NoCall, Free, Owned, Calls, Resized, tableVars
    <2>2. Written'
        BY <1>t, <1>8, NoneAssumption
            DEF Uncount, TypeOK, Own, Written, NoCall, Free, Owned, tableVars
    <2> QED
        BY <2>1, <2>2
<1>9. ASSUME NEW t \in Threads, InnerFree(t) PROVE Measured' /\ Written'
    <2>1. Measured'
        BY <1>t, <1>9, NoneAssumption
            DEF InnerFree, TypeOK, Own, Measured, NoCall, Free, Owned, Calls, Resized, tableVars
    <2>2. Written'
        BY <1>t, <1>9, NoneAssumption
            DEF InnerFree, TypeOK, Own, Written, NoCall, Free, Owned, tableVars
    <2> QED
        BY <2>1, <2>2
<1>10. ASSUME NEW t \in Threads, CallRealloc(t) PROVE Measured' /\ Written'
    <2>1. Measured'
        BY <1>t, <1>10, NoneAssumption
            DEF CallRealloc, TypeOK, Own, Measured, NoCall, Free, Owned, Calls, Resized, tableVars
    <2>2. Written'
        BY <1>t, <1>10, NoneAssumption
            DEF CallRealloc, TypeOK, Own, Written, NoCall, Free, Owned, tableVars
    <2> QED
        BY <2>1, <2>2
<1>11. ASSUME NEW t \in Threads, Take(t) PROVE Measured' /\ Written'
    <2>1. Measured'
        BY <1>t, <1>11, NoneAssumption
            DEF Take, TypeOK, Own, Measured, NoCall, Free, Owned, Calls, Resized, tableVars
    <2>2. Written'
        BY <1>t, <1>11, NoneAssumption
            DEF Take, TypeOK, Own, Written, NoCall, Free, Owned, tableVars
    <2> QED
        BY <2>1, <2>2
<1>12. ASSUME NEW t \in Threads, InnerRealloc(t) PROVE Measured' /\ Written'
    <2>1. Measured'
        <3>1. ASSUME NEW a \in Free \cup {call[t].at}, Moved(t, a), pc[t] = "resize" PROVE Measured'
            <4>1. pc' = [pc EXCEPT ![t] = "observe_realloc"] /\ call' = [call EXCEPT ![t].at = a]
                BY <3>1 DEF Moved
            <4>2. heap'[a].size = call[t].new
                <5>1. TypeOK /\ Sized /\ Own /\ pc[t] \in {"resize", "resize_only"}
                    BY <3>1 DEF IInv
                <5>2. heap'[a] = Resized(t)
                    BY <3>1, <5>1, Moving
                <5> QED
                    BY <5>2 DEF Resized
            <4>3. \A u \in Threads : u # t /\ call[u].at # None
                                       => heap'[call[u].at] = heap[call[u].at]
                BY <3>1, <1>t, Moving DEF IInv, TypeOK, Calls
            <4>4. \A u \in Threads : pc[u] # "program" => call[u].at # None
                BY <1>t DEF Own
            <4> QED
                BY <1>t, <4>1, <4>2, <4>3, <4>4 DEF TypeOK, Measured
        <3>2. ASSUME NEW a \in Free \cup {call[t].at}, Moved(t, a), pc[t] = "resize_only" PROVE Measured'
            <4>1. pc' = [pc EXCEPT ![t] = "program"] /\ call' = [call EXCEPT ![t] = NoCall]
                BY <3>2 DEF Moved
            <4>3. \A u \in Threads : u # t /\ call[u].at # None
                                       => heap'[call[u].at] = heap[call[u].at]
                BY <3>2, <1>t, Moving DEF IInv, TypeOK, Calls
            <4>4. \A u \in Threads : pc[u] # "program" => call[u].at # None
                BY <1>t DEF Own
            <4> QED
                BY <1>t, <4>1, <4>3, <4>4 DEF TypeOK, Measured
        <3>3. CASE UNCHANGED <<heap, call>> /\ Goto(t, "put_back") /\ pc[t] = "resize"
            BY <1>t, <3>3 DEF TypeOK, Measured
        <3>4. CASE UNCHANGED heap /\ Return(t)
            BY <1>t, <3>4 DEF TypeOK, Measured
        <3> QED
            BY <1>12, <3>1, <3>2, <3>3, <3>4 DEF InnerRealloc, Moved
    <2>2. Written'
        BY <1>t, <1>12, NoneAssumption
            DEF InnerRealloc, TypeOK, Own, Written, NoCall, Free, Owned, tableVars
    <2> QED
        BY <2>1, <2>2
<1>13. ASSUME NEW t \in Threads, PutBack(t) PROVE Measured' /\ Written'
    <2>1. Measured'
        BY <1>t, <1>13, NoneAssumption
            DEF PutBack, TypeOK, Own, Measured, NoCall, Free, Owned, Calls, Resized, tableVars
    <2>2. Written'
        BY <1>t, <1>13, NoneAssumption
            DEF PutBack, TypeOK, Own, Written, NoCall, Free, Owned, tableVars
    <2> QED
        BY <2>1, <2>2
<1>14. ASSUME NEW t \in Threads, ObserveRealloc(t) PROVE Measured' /\ Written'
    <2>1. Measured'
        BY <1>t, <1>14, NoneAssumption
            DEF ObserveRealloc, TypeOK, Own, Measured, NoCall, Free, Owned, Calls, Resized,
                tableVars
    <2>2. Written'
        BY <1>t, <1>14, NoneAssumption
            DEF ObserveRealloc, TypeOK, Own, Written, NoCall, Free, Owned, tableVars
    <2> QED
        BY <2>1, <2>2
<1>15. ASSUME NEW t \in Threads, InsertResized(t) PROVE Measured' /\ Written'
    <2>1. Measured'
        BY <1>t, <1>15, NoneAssumption
            DEF InsertResized, TypeOK, Own, Measured, NoCall, Free, Owned, Calls, Resized, tableVars
    <2>2. Written'
        BY <1>t, <1>15, NoneAssumption
            DEF InsertResized, TypeOK, Own, Written, NoCall, Free, Owned, tableVars
    <2> QED
        BY <2>1, <2>2
<1>16. ASSUME NEW t \in Threads, Forget(t) PROVE Measured' /\ Written'
    <2>1. Measured'
        BY <1>t, <1>16, NoneAssumption
            DEF Forget, TypeOK, Own, Measured, NoCall, Free, Owned, Calls, Resized, tableVars
    <2>2. Written'
        BY <1>t, <1>16, NoneAssumption
            DEF Forget, TypeOK, Own, Written, NoCall, Free, Owned, tableVars
    <2> QED
        BY <2>1, <2>2
<1>17. ASSUME NEW t \in Threads, CountResized(t) PROVE Measured' /\ Written'
    <2>1. Measured'
        BY <1>t, <1>17, NoneAssumption
            DEF CountResized, TypeOK, Own, Measured, NoCall, Free, Owned, Calls, Resized, tableVars
    <2>2. Written'
        BY <1>t, <1>17, NoneAssumption
            DEF CountResized, TypeOK, Own, Written, NoCall, Free, Owned, tableVars
    <2> QED
        BY <2>1, <2>2
<1>s. CASE Start \/ Stop \/ UNCHANGED vars
    BY <1>s DEF Start, Stop, vars, tableVars, Measured, Written
<1> QED
    BY <1>1, <1>2, <1>3, <1>4, <1>5, <1>6, <1>7, <1>8, <1>9, <1>10, <1>11, <1>12, <1>13, <1>14,
        <1>15, <1>16, <1>17, <1>s
    DEF Next, AllocStep, FreeStep, ReallocStep, Exhausted

-----------------------------------------------------------------------------
(* What stands at an address *)

\* Weights are never negative.
LEMMA WeightIsNat ==
    ASSUME TypeOK, NEW n \in Sizes, NEW field \in Fields
    PROVE  Weight(n)[field] \in Nat
BY Weights DEF Fields

\* A block in a thread's hands has what the call has not taken out yet.
LEMMA StandsHeld ==
    ASSUME Own, NEW t \in Threads, call[t].at # None, NEW p, NEW field
    PROVE  Stands(call[t].at, p, field) =
               IF StillCounts(t, p) THEN Weight(call[t].old)[field] ELSE 0
<1>1. Holder(call[t].at) = t
    BY DEF Own, Holder
<1> QED
    BY <1>1 DEF Stands

\* And after a step.
LEMMA WillStandHeld ==
    ASSUME Own', NEW t \in Threads, call'[t].at # None, NEW p, NEW field, NEW a, a = call'[t].at
    PROVE  Stands(a, p, field)' =
               IF StillCounts(t, p)' THEN (Weight(call[t].old)')[field] ELSE 0
<1>1. Holder(a)' = t
    BY DEF Own, Holder
<1> QED
    BY <1>1 DEF Stands

\* An entry nobody has missed is a block's.
LEMMA EntryHasBlock ==
    ASSUME IInv, ~missed, state # "finished", NEW a \in Addresses, entries[a] # None
    PROVE  heap[a] # None
<1>1. TypeOK /\ Unrecorded /\ EntryIsBlock
    BY DEF IInv
<1>2. state # "idle" /\ a \in Tracked
    BY <1>1 DEF Unrecorded, Tracked
<1>3. state = "running" /\ stale = {}
    BY <1>1, <1>2 DEF TypeOK
<1> QED
    BY <1>1, <1>2, <1>3 DEF EntryIsBlock

\* What stands is never negative, before a step and after it.
LEMMA StandsIsNat ==
    ASSUME IInv, ~missed, NEW a \in Addresses, NEW p \in Points, NEW field \in Fields
    PROVE  Stands(a, p, field) \in Nat
<1>t. TypeOK /\ Own /\ Sized
    BY DEF IInv
<1>1. ASSUME NEW t \in Threads, call[t].at = a PROVE Stands(a, p, field) \in Nat
    <2>1. Stands(a, p, field) = IF StillCounts(t, p) THEN Weight(call[t].old)[field] ELSE 0
        BY <1>t, <1>1, StandsHeld, NoneAssumption
    <2>2. StillCounts(t, p) => call[t].old \in Sizes
        BY <1>t DEF StillCounts, Sized
    <2> QED
        BY <1>t, <2>1, <2>2, WeightIsNat
<1>2. ASSUME \A t \in Threads : call[t].at # a PROVE Stands(a, p, field) \in Nat
    <2>1. Stands(a, p, field) = IF state # "finished" /\ entries[a] = p
            THEN Weight(heap[a].size)[field] ELSE 0
        BY <1>2 DEF Stands
    <2>2. state # "finished" /\ entries[a] = p => heap[a].size \in Sizes
        BY <1>t, EntryHasBlock, NoneAssumption DEF TypeOK
    <2> QED
        BY <1>t, <2>1, <2>2, WeightIsNat
<1> QED
    BY <1>1, <1>2

\* A step of one thread's call leaves what stands at the other addresses.
Confined(t, X) ==
    /\ sampled' = sampled /\ state' = state
    /\ \A u \in Threads : u # t => pc'[u] = pc[u] /\ call'[u] = call[u]
    /\ \A a \in Addresses \ X : entries'[a] = entries[a] /\ heap'[a] = heap[a]
    /\ {call[t].at, call'[t].at} \subseteq X \cup {None}

LEMMA StandsElsewhere ==
    ASSUME Own, Own', NEW t \in Threads, NEW X, Confined(t, X),
           NEW a \in Addresses \ X, NEW p, NEW field
    PROVE  Stands(a, p, field)' = Stands(a, p, field)
<1>w. \A n : Weight(n)' = Weight(n)
    BY DEF Weight, Confined
<1>1. ASSUME NEW u \in Threads, call[u].at = a PROVE Stands(a, p, field)' = Stands(a, p, field)
    <2>1. u # t /\ call'[u] = call[u] /\ pc'[u] = pc[u] /\ a # None
        BY <1>1, NoneAssumption DEF Confined
    <2>2. entries'[call[u].at] = entries[call[u].at]
        BY <1>1 DEF Confined
    <2>3. StillCounts(u, p)' = StillCounts(u, p)
        BY <2>1, <2>2 DEF StillCounts
    <2>4. Stands(a, p, field) = IF StillCounts(u, p) THEN Weight(call[u].old)[field] ELSE 0
        BY <1>1, <2>1, StandsHeld
    <2>5. Stands(a, p, field)' = IF StillCounts(u, p)' THEN (Weight(call[u].old)')[field] ELSE 0
        BY <1>1, <2>1, WillStandHeld
    <2>6. Weight(call[u].old)' = Weight(call[u].old)
        BY <2>1 DEF Weight, Confined
    <2> QED
        BY <2>3, <2>4, <2>5, <2>6
<1>2. ASSUME \A u \in Threads : call[u].at # a PROVE Stands(a, p, field)' = Stands(a, p, field)
    <2>1. \A u \in Threads : call'[u].at # a
        BY <1>2, NoneAssumption DEF Confined
    <2>2. heap'[a] = heap[a] /\ entries'[a] = entries[a] /\ state' = state
        BY DEF Confined
    <2>3. Weight(heap[a].size)' = Weight(heap[a].size)
        BY <2>2 DEF Weight, Confined
    <2> QED
        BY <1>2, <2>1, <2>2, <2>3 DEF Stands
<1> QED
    BY <1>1, <1>2

LEMMA EitherWeight ==
    ASSUME NEW n \in Sizes, NEW b \in BOOLEAN, NEW field \in Fields
    PROVE  (IF b THEN Scaled[n] ELSE [bytes |-> n, blocks |-> 1])[field] \in Nat
<1>1. CASE b
    BY <1>1, ScaledAssumption DEF Fields
<1>2. CASE ~b
    BY <1>2, SizesAssumption DEF Fields
<1> QED
    BY <1>1, <1>2

LEMMA WillStandNat ==
    ASSUME IInv', ~missed', NEW a \in Addresses, NEW p \in Points, NEW field \in Fields
    PROVE  Stands(a, p, field)' \in Nat
<1>t. TypeOK' /\ Own' /\ Sized' /\ Unrecorded' /\ EntryIsBlock'
    BY DEF IInv
<1>s. sampled' \in BOOLEAN
    BY <1>t DEF TypeOK
<1>1. ASSUME NEW t \in Threads, call'[t].at = a PROVE Stands(a, p, field)' \in Nat
    <2>1. Stands(a, p, field)' = IF StillCounts(t, p)' THEN (Weight(call[t].old)')[field] ELSE 0
        BY <1>t, <1>1, WillStandHeld, NoneAssumption
    <2>2. StillCounts(t, p)' => call'[t].old \in Sizes
        BY <1>t DEF StillCounts, Sized
    <2>3. Weight(call[t].old)' = IF sampled'
            THEN Scaled[call'[t].old] ELSE [bytes |-> call'[t].old, blocks |-> 1]
        BY DEF Weight
    <2>4. StillCounts(t, p)' => (Weight(call[t].old)')[field] \in Nat
        BY <1>s, <2>2, <2>3, EitherWeight
    <2> QED
        BY <2>1, <2>4
<1>2. ASSUME \A t \in Threads : call'[t].at # a PROVE Stands(a, p, field)' \in Nat
    <2>1. Stands(a, p, field)' = IF state' # "finished" /\ entries'[a] = p
            THEN (Weight(heap[a].size)')[field] ELSE 0
        BY <1>2 DEF Stands
    <2>2. ASSUME state' # "finished", entries'[a] = p PROVE heap'[a].size \in Sizes
        <3>1. entries'[a] # None
            BY <2>2, NoneAssumption
        <3>2. a \in Tracked'
            BY <3>1 DEF Tracked
        <3>3. state' = "running" /\ stale' = {}
            BY <1>t, <2>2, <3>2 DEF Unrecorded, TypeOK
        <3>4. heap'[a] # None
            BY <1>t, <3>2, <3>3 DEF EntryIsBlock
        <3> QED
            BY <1>t, <3>4 DEF TypeOK
    <2>3. Weight(heap[a].size)' = IF sampled'
            THEN Scaled[heap'[a].size] ELSE [bytes |-> heap'[a].size, blocks |-> 1]
        BY DEF Weight
    <2> QED
        BY <1>s, <2>1, <2>2, <2>3, EitherWeight
<1> QED
    BY <1>1, <1>2

\* The counters are integers, before a step and after it.
LEMMA CountedIsInt ==
    ASSUME TypeOK, NEW p \in Points, NEW field \in Fields
    PROVE  counted[p][field] \in Int
BY DEF TypeOK, Fields

LEMMA WillCountInt ==
    ASSUME TypeOK', NEW p \in Points, NEW field \in Fields
    PROVE  counted'[p][field] \in Int
BY DEF TypeOK, Fields

\* So there is a sum of what stands.
LEMMA StandingSums ==
    ASSUME IInv, IInv', ~missed, ~missed', NEW p \in Points, NEW field \in Fields
    PROVE  /\ Standing(p, field) \in [Addresses -> Nat]
           /\ Standing(p, field)' \in [Addresses -> Nat]
           /\ SumFunction(Standing(p, field)) \in Int
           /\ SumFunction(Standing(p, field)') \in Int
<1>1. Standing(p, field) \in [Addresses -> Nat]
    BY StandsIsNat DEF Standing
<1>2. Standing(p, field)' \in [Addresses -> Nat]
    BY WillStandNat DEF Standing
<1> QED
    BY <1>1, <1>2, FiniteAssumption, SumIsInt

\* The books balance over a step that touches one address, when the counters
\* move as what stands there does, or by more.
LEMMA Ledger ==
    ASSUME IInv, IInv', ~missed, ~missed', Kept, NEW t \in Threads, NEW x \in Addresses,
           Confined(t, {x}),
           \A p \in Points, field \in Fields :
              /\ counted'[p][field] - counted[p][field]
                    >= Stands(x, p, field)' - Stands(x, p, field)
              /\ state # "finished" /\ ~lost' =>
                    /\ ~lost
                    /\ counted'[p][field] - counted[p][field]
                          = Stands(x, p, field)' - Stands(x, p, field)
    PROVE  Kept'
<1> SUFFICES ASSUME NEW p \in Points, NEW field \in Fields
             PROVE  /\ counted'[p][field] >= SumFunction(Standing(p, field)')
                    /\ state' # "finished" /\ ~lost' =>
                          counted'[p][field] = SumFunction(Standing(p, field)')
    BY DEF Kept
<1>1. /\ Standing(p, field) \in [Addresses -> Int]
      /\ Standing(p, field)' \in [Addresses -> Int]
    BY StandingSums
<1>2. \A a \in Addresses : a # x => (Standing(p, field)')[a] = Standing(p, field)[a]
    BY StandsElsewhere DEF Standing, IInv
<1>3. Standing(p, field)[x] = Stands(x, p, field) /\ (Standing(p, field)')[x] = Stands(x, p, field)'
    BY DEF Standing
<1>4. Stands(x, p, field) \in Nat /\ Stands(x, p, field)' \in Nat
    BY StandsIsNat, WillStandNat
<1>5. /\ SumFunction(Standing(p, field)) \in Int
      /\ SumFunction(Standing(p, field)') =
            SumFunction(Standing(p, field)) + (Stands(x, p, field)' - Stands(x, p, field))
    <2> HIDE DEF Standing
    <2> QED
        BY <1>1, <1>2, <1>3, SumUpdate, FiniteAssumption
<1>6. /\ counted[p][field] >= SumFunction(Standing(p, field))
      /\ state # "finished" /\ ~lost => counted[p][field] = SumFunction(Standing(p, field))
    BY DEF Kept
<1>7. counted[p][field] \in Int
    BY CountedIsInt DEF IInv
<1>9. counted'[p][field] \in Int
    BY WillCountInt DEF IInv
<1>8. state' = state
    BY DEF Confined
<1> QED
    BY <1>4, <1>5, <1>6, <1>7, <1>8, <1>9

\* A step that moves neither.
LEMMA SameBooks ==
    ASSUME IInv, IInv', ~missed, ~missed', Kept, NEW t \in Threads, NEW x \in Addresses,
           Confined(t, {x}), counted' = counted, lost' = lost,
           \A p \in Points, field \in Fields : Stands(x, p, field)' = Stands(x, p, field)
    PROVE  Kept'
<1>1. ASSUME NEW p \in Points, NEW field \in Fields
      PROVE  /\ counted'[p][field] - counted[p][field]
                    >= Stands(x, p, field)' - Stands(x, p, field)
             /\ state # "finished" /\ ~lost' =>
                    /\ ~lost
                    /\ counted'[p][field] - counted[p][field]
                          = Stands(x, p, field)' - Stands(x, p, field)
    <2>1. counted[p][field] \in Int
        BY CountedIsInt DEF IInv
    <2>2. Stands(x, p, field) \in Nat
        BY StandsIsNat
    <2> QED
        BY <2>1, <2>2
<1> QED
    BY <1>1, Ledger

\* A block that moves takes along what stands.
LEMMA MovedBooks ==
    ASSUME IInv, IInv', ~missed, ~missed', Kept, NEW t \in Threads,
           NEW x \in Addresses, NEW a \in Addresses, a # x,
           Confined(t, {x, a}), counted' = counted, lost' = lost,
           \A p \in Points, field \in Fields :
              /\ Stands(x, p, field)' = 0 /\ Stands(a, p, field) = 0
              /\ Stands(a, p, field)' = Stands(x, p, field)
    PROVE  Kept'
<1> SUFFICES ASSUME NEW p \in Points, NEW field \in Fields
             PROVE  SumFunction(Standing(p, field)') = SumFunction(Standing(p, field))
    BY DEF Kept, Confined
<1> DEFINE f == Standing(p, field)
           h == Standing(p, field)'
           g == [f EXCEPT ![x] = 0]
<1>1. f \in [Addresses -> Int] /\ h \in [Addresses -> Int]
    BY StandingSums
<1>2. \A c \in Addresses : c # x /\ c # a => h[c] = f[c]
    BY StandsElsewhere DEF Standing, IInv
<1>3. f[a] = 0 /\ h[x] = 0 /\ h[a] = f[x]
    BY DEF Standing
<1> HIDE DEF f, h
<1>4. g \in [Addresses -> Int] /\ g[x] = 0 /\ \A c \in Addresses : c # x => g[c] = f[c]
    BY <1>1
<1> HIDE DEF g
<1>5. SumFunction(f) \in Int /\ SumFunction(g) \in Int /\ SumFunction(g) = SumFunction(f) + (g[x] - f[x])
    BY <1>1, <1>4, SumUpdate, FiniteAssumption
<1>6. \A c \in Addresses : c # a => h[c] = g[c]
    BY <1>2, <1>3, <1>4
<1>7. SumFunction(h) \in Int /\ SumFunction(h) = SumFunction(g) + (h[a] - g[a])
    BY <1>1, <1>4, <1>6, SumUpdate, FiniteAssumption
<1>8. f[x] \in Int
    BY <1>1
<1>9. SumFunction(h) = SumFunction(f)
    BY <1>3, <1>4, <1>5, <1>7, <1>8
<1> QED
    BY <1>9 DEF f, h

\* What stands where a thread is, and where it was.
LEMMA StandsAfter ==
    ASSUME Own', NEW t \in Threads, NEW X, Confined(t, X), NEW a \in Addresses,
           call'[t].at = a, NEW p, NEW field
    PROVE  Stands(a, p, field)' = IF StillCounts(t, p)' THEN Weight(call'[t].old)[field] ELSE 0
<1>1. Stands(a, p, field)' = IF StillCounts(t, p)' THEN (Weight(call[t].old)')[field] ELSE 0
    BY WillStandHeld, NoneAssumption
<1>2. Weight(call[t].old)' = Weight(call'[t].old)
    BY DEF Weight, Confined
<1> QED
    BY <1>1, <1>2

LEMMA StandsReleased ==
    ASSUME Own, NEW t \in Threads, NEW X, Confined(t, X), NEW a \in Addresses,
           call[t].at = a \/ \A u \in Threads : call[u].at # a,
           call'[t].at # a, NEW p, NEW field
    PROVE  Stands(a, p, field)' =
               IF state # "finished" /\ entries'[a] = p THEN Weight(heap'[a].size)[field] ELSE 0
<1>1. \A u \in Threads : call'[u].at # a
    BY NoneAssumption DEF Own, Confined
<1>2. Stands(a, p, field)' =
          IF state' # "finished" /\ entries'[a] = p THEN (Weight(heap[a].size)')[field] ELSE 0
    BY <1>1 DEF Stands
<1>3. Weight(heap[a].size)' = Weight(heap'[a].size)
    BY DEF Weight, Confined
<1> QED
    BY <1>2, <1>3 DEF Confined

\* Where there is no block, and where a call has taken the entry out or found
\* none, there is no entry.
LEMMA NoEntry ==
    ASSUME IInv, ~missed, state # "finished", NEW t \in Threads,
           pc[t] \in {"observe", "insert", "free", "resize_only", "observe_realloc",
                     "insert_resized", "uncount", "resize", "put_back", "forget"}
    PROVE  call[t].at \in Addresses /\ entries[call[t].at] = None
<1>t. TypeOK /\ Unrecorded /\ Gone /\ LeftBehind
    BY DEF IInv
<1>1. call[t].at \in Addresses
    BY <1>t DEF TypeOK, At
<1>2. stale = {} /\ state \in {"idle", "running"}
    BY <1>t DEF TypeOK
<1>3. call[t].at \notin Tracked
    BY <1>t, <1>2 DEF Unrecorded, Gone, LeftBehind
<1> QED
    BY <1>1, <1>3 DEF Tracked

LEMMA FreeStandsForNothing ==
    ASSUME IInv, ~missed, NEW a \in Free, NEW p \in Points, NEW field
    PROVE  Stands(a, p, field) = 0 /\ \A u \in Threads : call[u].at # a
<1>1. \A u \in Threads : call[u].at # a
    BY NoneAssumption DEF IInv, Own, Free
<1>2. state # "finished" => entries[a] # p
    BY EntryHasBlock, NoneAssumption DEF Free
<1> QED
    BY <1>1, <1>2 DEF Stands

\* Engine::apply moves the counters of one point by the weight of the block.
LEMMA Applied ==
    ASSUME TypeOK, NEW p \in Points, NEW sign \in Int, NEW n \in Sizes, counted' = Apply(p, sign, n),
           NEW q \in Points, NEW field \in Fields
    PROVE  counted'[q][field] - counted[q][field] =
               IF q = p THEN sign * Weight(n)[field] ELSE 0
<1>1. counted \in [Points -> [bytes : Int, blocks : Int]]
    BY DEF TypeOK
<1>2. Weight(n) \in [bytes : Nat, blocks : Nat]
    BY Weights
<1>3. CASE q = p
    <2>1. counted'[q] = [bytes |-> counted[p].bytes + sign * Weight(n).bytes,
                         blocks |-> counted[p].blocks + sign * Weight(n).blocks]
        BY <1>1, <1>3 DEF Apply
    <2>2. sign * Weight(n).bytes \in Int /\ sign * Weight(n).blocks \in Int
        BY <1>2
    <2>3. counted[p].bytes \in Int /\ counted[p].blocks \in Int
        BY <1>1
    <2> HIDE DEF Weight
    <2>4. CASE field = "bytes"
        BY <1>3, <2>1, <2>2, <2>3, <2>4
    <2>5. CASE field = "blocks"
        BY <1>3, <2>1, <2>2, <2>3, <2>5
    <2> QED
        BY <2>4, <2>5 DEF Fields
<1>4. CASE q # p
    <2>1. counted'[q] = counted[q]
        BY <1>1, <1>4 DEF Apply
    <2>2. counted[q][field] \in Int
        BY CountedIsInt
    <2> QED
        BY <1>4, <2>1, <2>2
<1> QED
    BY <1>3, <1>4

\* A block's weight is taken out of its point.
LEMMA TakenOut ==
    ASSUME TypeOK, NEW p \in Points, NEW n \in Sizes, counted' = Apply(p, -1, n),
           NEW q \in Points, NEW field \in Fields
    PROVE  counted'[q][field] - counted[q][field] = IF q = p THEN 0 - Weight(n)[field] ELSE 0
<1>1. -1 \in Int
    OBVIOUS
<1>2. Weight(n)[field] \in Nat
    BY WeightIsNat
<1>3. counted'[q][field] - counted[q][field] = IF q = p THEN (-1) * Weight(n)[field] ELSE 0
    BY <1>1, Applied
<1> QED
    BY <1>2, <1>3

\* Each step of a call moves the counters as it moves what stands; the end of
\* the run leaves in the table what nobody will take out.
LEMMA NextKept ==
    IInv /\ IInv' /\ Measured /\ Measured' /\ Written /\ Kept /\ [Next]_vars => Kept'
<1> SUFFICES ASSUME IInv, IInv', Measured, Measured', Written, Kept, [Next]_vars, ~missed'
             PROVE  Kept'
    BY DEF Kept
<1> USE DEF At, Goto, tableVars, engineVars, counterVars
<1>t. TypeOK /\ Own /\ Sized
    BY DEF IInv
<1>u. Own'
    BY DEF IInv
<1>1. ASSUME NEW t \in Threads, Alloc(t) PROVE Kept'
    <2>1. PICK n \in Sizes, p \in Points, a \in Free : Alloc(t)!(n, p, a)
        BY <1>1 DEF Alloc
    <2>2. ~missed /\ counted' = counted /\ lost' = lost /\ a \in Addresses
        BY <2>1 DEF Free
    <2>3. Confined(t, {a}) /\ call'[t].at = a /\ pc'[t] = "observe"
        BY <1>t, <2>1, <2>2 DEF Confined, Begin, TypeOK, NoCall, Own
    <2>4. ASSUME NEW q \in Points, NEW field \in Fields
          PROVE  Stands(a, q, field)' = Stands(a, q, field)
        <3>1. Stands(a, q, field) = 0
            BY <2>2, FreeStandsForNothing
        <3>2. ~StillCounts(t, q)'
            BY <2>3 DEF StillCounts
        <3> QED
            BY <1>u, <2>2, <2>3, <3>1, <3>2, StandsAfter
    <2> QED
        BY <2>2, <2>3, <2>4, SameBooks
<1>2. ASSUME NEW t \in Threads, AllocRefused(t) PROVE Kept'
    <2>1. PICK n \in Sizes, p \in Points, a \in Free : AllocRefused(t)!(n, p, a)
        BY <1>2 DEF AllocRefused
    <2>2. ~missed /\ counted' = counted /\ lost' = lost /\ a \in Addresses
        BY <2>1 DEF Free
    <2>3. Confined(t, {a}) /\ call'[t].at # a /\ entries' = entries
        BY <1>t, <2>1, <2>2, NoneAssumption DEF Confined, Begin, TypeOK, Own
    <2>4. ASSUME NEW q \in Points, NEW field \in Fields
          PROVE  Stands(a, q, field)' = Stands(a, q, field)
        <3>1. Stands(a, q, field) = 0 /\ \A u \in Threads : call[u].at # a
            BY <2>2, FreeStandsForNothing
        <3>2. state # "finished" => entries[a] # q
            BY <2>1, <2>2, EntryHasBlock, NoneAssumption DEF Free
        <3> QED
            BY <1>t, <2>2, <2>3, <3>1, <3>2, StandsReleased
    <2> QED
        BY <2>2, <2>3, <2>4, SameBooks
<1>3. ASSUME NEW t \in Threads, Observe(t) PROVE Kept'
    <2>0. PICK x \in Addresses : call[t].at = x
        BY <1>3, <1>t DEF Observe, TypeOK
    <2> USE <2>0
    <2>1. ~missed /\ counted' = counted /\ lost' = lost
        BY <1>3 DEF Observe
    <2>2. x \in Addresses /\ pc[t] = "observe" /\ entries' = entries
        BY <1>3, <1>t DEF Observe, TypeOK
    <2>3. ASSUME NEW q \in Points, NEW field \in Fields PROVE Stands(x, q, field) = 0
        <3>1. ~StillCounts(t, q)
            BY <2>2 DEF StillCounts
        <3> QED
            BY <1>t, <2>2, <3>1, StandsHeld, NoneAssumption
    <2>4. CASE Goto(t, "insert") /\ UNCHANGED call
        <3>1. Confined(t, {x}) /\ call'[t].at = x /\ pc'[t] = "insert"
            BY <1>3, <1>t, <2>4 DEF Observe, Confined, TypeOK
        <3>2. ASSUME NEW q \in Points, NEW field \in Fields
              PROVE  Stands(x, q, field)' = Stands(x, q, field)
            <4>1. ~StillCounts(t, q)'
                BY <3>1 DEF StillCounts
            <4> QED
                BY <1>u, <2>2, <2>3, <3>1, <4>1, StandsAfter
        <3> QED
            BY <2>1, <2>2, <3>1, <3>2, SameBooks
    <2>5. CASE Return(t)
        <3>1. Confined(t, {x}) /\ call'[t].at # x
            BY <1>3, <1>t, <2>2, <2>5, NoneAssumption DEF Observe, Confined, TypeOK, Return, NoCall
        <3>2. ASSUME NEW q \in Points, NEW field \in Fields
              PROVE  Stands(x, q, field)' = Stands(x, q, field)
            <4>1. state # "finished" => entries'[x] # q
                BY <2>1, <2>2, NoEntry, NoneAssumption
            <4> QED
                BY <1>t, <2>2, <2>3, <3>1, <4>1, StandsReleased
        <3> QED
            BY <2>1, <2>2, <3>1, <3>2, SameBooks
    <2> QED
        BY <1>3, <2>4, <2>5 DEF Observe
<1>4. ASSUME NEW t \in Threads, Insert(t) PROVE Kept'
    <2>0. PICK x \in Addresses : call[t].at = x
        BY <1>4, <1>t DEF Insert, TypeOK
    <2> USE <2>0
    <2>1. ~missed /\ counted' = counted /\ lost' = lost
        BY <1>4 DEF Insert, Settles
    <2>2. x \in Addresses /\ pc[t] = "insert"
        BY <1>4, <1>t DEF Insert, TypeOK
    <2>3. ASSUME NEW q \in Points, NEW field \in Fields PROVE Stands(x, q, field) = 0
        <3>1. ~StillCounts(t, q)
            BY <2>2 DEF StillCounts
        <3> QED
            BY <1>t, <2>2, <3>1, StandsHeld, NoneAssumption
    <2>4. CASE ~Refuses(x)
        <3>1. Confined(t, {x}) /\ call'[t].at = x /\ pc'[t] = "count"
            BY <1>4, <1>t, <2>4 DEF Insert, Confined, TypeOK
        <3>2. ASSUME NEW q \in Points, NEW field \in Fields
              PROVE  Stands(x, q, field)' = Stands(x, q, field)
            <4>1. ~StillCounts(t, q)'
                BY <3>1 DEF StillCounts
            <4> QED
                BY <1>u, <2>2, <2>3, <3>1, <4>1, StandsAfter
        <3> QED
            BY <2>1, <2>2, <3>1, <3>2, SameBooks
    <2>5. CASE Refuses(x)
        <3>1. Confined(t, {x}) /\ call'[t].at # x /\ entries' = entries
            BY <1>4, <1>t, <2>2, <2>5, NoneAssumption DEF Insert, Confined, TypeOK, Return, NoCall
        <3>2. ASSUME NEW q \in Points, NEW field \in Fields
              PROVE  Stands(x, q, field)' = Stands(x, q, field)
            <4>1. state # "finished" => entries'[x] # q
                BY <2>1, <2>2, <3>1, NoEntry, NoneAssumption
            <4> QED
                BY <1>t, <2>2, <2>3, <3>1, <4>1, StandsReleased
        <3> QED
            BY <2>1, <2>2, <3>1, <3>2, SameBooks
    <2> QED
        BY <2>4, <2>5
<1>5. ASSUME NEW t \in Threads, CountAlloc(t) PROVE Kept'
    <2>0. PICK x \in Addresses : call[t].at = x
        BY <1>5, <1>t DEF CountAlloc, TypeOK
    <2> USE <2>0
    <2>1. ~missed /\ lost' = lost
        BY <1>5 DEF CountAlloc
    <2>2. x \in Addresses /\ pc[t] = "count" /\ call[t].new \in Sizes /\ call[t].pp \in Points
        BY <1>5, <1>t DEF CountAlloc, TypeOK, Sized
    <2>3. Confined(t, {x}) /\ call'[t].at # x /\ entries' = entries /\ heap' = heap
        BY <1>5, <1>t, <2>2, NoneAssumption DEF CountAlloc, Confined, TypeOK, Return, NoCall
    <2>9. ASSUME NEW q \in Points, NEW field \in Fields
          PROVE  /\ counted'[q][field] - counted[q][field]
                        >= Stands(x, q, field)' - Stands(x, q, field)
                 /\ state # "finished" /\ ~lost' =>
                        /\ ~lost
                        /\ counted'[q][field] - counted[q][field]
                              = Stands(x, q, field)' - Stands(x, q, field)
        <3>1. ~StillCounts(t, q)
            BY <2>2 DEF StillCounts
        <3>2. Stands(x, q, field) = 0
            BY <1>t, <2>2, <3>1, StandsHeld, NoneAssumption
        <3>3. entries'[x] = call[t].pp /\ heap'[x].size = call[t].new
            BY <2>2, <2>3 DEF Written, Measured
        <3>4. Stands(x, q, field)' =
                  IF state # "finished" /\ call[t].pp = q THEN Weight(call[t].new)[field] ELSE 0
            BY <1>t, <2>2, <2>3, <3>3, StandsReleased
        <3>5. counted'[q][field] - counted[q][field] =
                  IF q = call[t].pp THEN 1 * Weight(call[t].new)[field] ELSE 0
            BY <1>5, <1>t, <2>2, Applied DEF CountAlloc
        <3>6. Weight(call[t].new)[field] \in Nat
            BY <1>t, <2>2, WeightIsNat
        <3> QED
            BY <2>1, <3>2, <3>4, <3>5, <3>6
    <2> QED
        BY <2>1, <2>2, <2>3, <2>9, Ledger
<1>6. ASSUME NEW t \in Threads, CallFree(t) PROVE Kept'
    <2>1. PICK a \in Owned, guarded \in BOOLEAN : CallFree(t)!(a, guarded)
        BY <1>6 DEF CallFree
    <2>2. ~missed /\ counted' = counted /\ lost' = lost /\ a \in Addresses /\ heap[a] # None
        BY <2>1 DEF Misses, refusedVars, Owned
    <2>3. /\ Confined(t, {a}) /\ call'[t].at = a /\ call'[t].old = heap[a].size
          /\ entries' = entries /\ \A u \in Threads : call[u].at # a
          /\ pc'[t] = IF guarded /\ Records THEN "remove" ELSE "free"
        BY <1>t, <2>1, <2>2 DEF Confined, Begin, TypeOK, NoCall, Own, Owned
    <2>4. ASSUME NEW q \in Points, NEW field \in Fields
          PROVE  Stands(a, q, field)' = Stands(a, q, field)
        <3>1. Stands(a, q, field) =
                  IF state # "finished" /\ entries[a] = q THEN Weight(heap[a].size)[field] ELSE 0
            BY <2>3 DEF Stands
        <3>2. Stands(a, q, field)' = IF StillCounts(t, q)' THEN Weight(heap[a].size)[field] ELSE 0
            BY <1>u, <2>2, <2>3, StandsAfter
        <3>3. CASE guarded /\ Records
            <4>1. StillCounts(t, q)' <=> entries[a] = q
                BY <2>3, <3>3 DEF StillCounts
            <4> QED
                BY <3>1, <3>2, <3>3, <4>1 DEF Records
        <3>4. CASE ~(guarded /\ Records)
            <4>1. ~StillCounts(t, q)'
                BY <2>3, <3>4 DEF StillCounts
            <4>2. state # "finished" => entries[a] # q
                <5>1. CASE ~guarded
                    <6>1. a \notin Tracked
                        BY <2>1, <5>1 DEF Misses
                    <6> QED
                        BY <2>2, <6>1, NoneAssumption DEF Tracked
                <5>2. CASE state = "idle"
                    BY <2>2, <5>2, NoneAssumption DEF IInv, Unrecorded, Tracked
                <5> QED
                    BY <1>t, <3>4, <5>1, <5>2 DEF TypeOK, Records
            <4> QED
                BY <3>1, <3>2, <4>1, <4>2
        <3> QED
            BY <3>3, <3>4
    <2> QED
        BY <2>2, <2>3, <2>4, SameBooks
<1>7. ASSUME NEW t \in Threads, Remove(t) PROVE Kept'
    <2>0. PICK x \in Addresses : call[t].at = x
        BY <1>7, <1>t DEF Remove, TypeOK
    <2> USE <2>0
    <2>1. ~missed /\ counted' = counted /\ lost' = lost
        BY <1>7 DEF Remove, Settles, refusedVars
    <2>2. x \in Addresses /\ pc[t] = "remove"
        BY <1>7, <1>t DEF Remove, TypeOK
    <2>3. Confined(t, {x}) /\ call'[t].at = x /\ call'[t].old = call[t].old
        BY <1>7, <1>t DEF Remove, Confined, TypeOK, Calls
    <2>4. ASSUME NEW q \in Points, NEW field \in Fields
          PROVE  Stands(x, q, field)' = Stands(x, q, field)
        <3>1. Stands(x, q, field) = IF StillCounts(t, q) THEN Weight(call[t].old)[field] ELSE 0
            BY <1>t, <2>2, StandsHeld, NoneAssumption
        <3>2. Stands(x, q, field)' = IF StillCounts(t, q)' THEN Weight(call[t].old)[field] ELSE 0
            BY <1>u, <2>2, <2>3, StandsAfter
        <3>3. StillCounts(t, q)' <=> StillCounts(t, q)
            BY <1>7, <1>t, <2>2, NoneAssumption DEF Remove, StillCounts, TypeOK, Calls
        <3> QED
            BY <3>1, <3>2, <3>3
    <2> QED
        BY <2>1, <2>2, <2>3, <2>4, SameBooks
<1>8. ASSUME NEW t \in Threads, Uncount(t) PROVE Kept'
    <2>0. PICK x \in Addresses : call[t].at = x
        BY <1>8, <1>t DEF Uncount, TypeOK
    <2> USE <2>0
    <2>1. ~missed /\ lost' = lost
        BY <1>8 DEF Uncount
    <2>2. x \in Addresses /\ pc[t] = "uncount" /\ call[t].old \in Sizes /\ call[t].taken \in Points
        BY <1>8, <1>t DEF Uncount, TypeOK, Sized
    <2>3. Confined(t, {x}) /\ call'[t].at = x /\ pc'[t] = "free"
        BY <1>8, <1>t, <2>2 DEF Uncount, Confined, TypeOK
    <2>9. ASSUME NEW q \in Points, NEW field \in Fields
          PROVE  /\ counted'[q][field] - counted[q][field]
                        >= Stands(x, q, field)' - Stands(x, q, field)
                 /\ state # "finished" /\ ~lost' =>
                        /\ ~lost
                        /\ counted'[q][field] - counted[q][field]
                              = Stands(x, q, field)' - Stands(x, q, field)
        <3>1. StillCounts(t, q) <=> call[t].taken = q
            BY <2>2 DEF StillCounts
        <3>2. Stands(x, q, field) = IF call[t].taken = q THEN Weight(call[t].old)[field] ELSE 0
            BY <1>t, <2>2, <3>1, StandsHeld, NoneAssumption
        <3>3. ~StillCounts(t, q)'
            BY <2>3 DEF StillCounts
        <3>4. Stands(x, q, field)' = 0
            BY <1>u, <2>2, <2>3, <3>3, StandsAfter
        <3>5. counted'[q][field] - counted[q][field] =
                  IF q = call[t].taken THEN 0 - Weight(call[t].old)[field] ELSE 0
            <4>1. counted' = Apply(call[t].taken, -1, call[t].old)
                BY <1>8 DEF Uncount
            <4> QED
                BY <1>t, <2>2, <4>1, TakenOut
        <3>6. Weight(call[t].old)[field] \in Nat
            BY <1>t, <2>2, WeightIsNat
        <3> QED
            BY <2>1, <3>2, <3>4, <3>5, <3>6
    <2> QED
        BY <2>1, <2>2, <2>3, <2>9, Ledger
<1>9. ASSUME NEW t \in Threads, InnerFree(t) PROVE Kept'
    <2>0. PICK x \in Addresses : call[t].at = x
        BY <1>9, <1>t DEF InnerFree, TypeOK
    <2> USE <2>0
    <2>1. ~missed /\ counted' = counted /\ lost' = lost
        BY <1>9 DEF InnerFree
    <2>2. x \in Addresses /\ pc[t] = "free" /\ entries' = entries
        BY <1>9, <1>t DEF InnerFree, TypeOK
    <2>3. Confined(t, {x}) /\ call'[t].at # x
        BY <1>9, <1>t, <2>2, NoneAssumption DEF InnerFree, Confined, TypeOK, Return, NoCall
    <2>4. ASSUME NEW q \in Points, NEW field \in Fields
          PROVE  Stands(x, q, field)' = Stands(x, q, field)
        <3>1. ~StillCounts(t, q)
            BY <2>2 DEF StillCounts
        <3>2. Stands(x, q, field) = 0
            BY <1>t, <2>2, <3>1, StandsHeld, NoneAssumption
        <3>3. state # "finished" => entries'[x] # q
            BY <2>1, <2>2, NoEntry, NoneAssumption
        <3> QED
            BY <1>t, <2>2, <2>3, <3>2, <3>3, StandsReleased
    <2> QED
        BY <2>1, <2>2, <2>3, <2>4, SameBooks
<1>10. ASSUME NEW t \in Threads, CallRealloc(t) PROVE Kept'
    <2>1. PICK a \in Owned, n \in Sizes, p \in Points, guarded \in BOOLEAN : CallRealloc(t)!(a, n, p, guarded)
        BY <1>10 DEF CallRealloc
    <2>2. ~missed /\ counted' = counted /\ lost' = lost /\ a \in Addresses /\ heap[a] # None
        BY <2>1 DEF Misses, refusedVars, Owned
    <2>3. /\ Confined(t, {a}) /\ call'[t].at = a /\ call'[t].old = heap[a].size
          /\ entries' = entries /\ \A u \in Threads : call[u].at # a
          /\ pc'[t] = IF guarded /\ Records THEN "take" ELSE "resize_only"
        BY <1>t, <2>1, <2>2 DEF Confined, Begin, TypeOK, NoCall, Own, Owned
    <2>4. ASSUME NEW q \in Points, NEW field \in Fields
          PROVE  Stands(a, q, field)' = Stands(a, q, field)
        <3>1. Stands(a, q, field) =
                  IF state # "finished" /\ entries[a] = q THEN Weight(heap[a].size)[field] ELSE 0
            BY <2>3 DEF Stands
        <3>2. Stands(a, q, field)' = IF StillCounts(t, q)' THEN Weight(heap[a].size)[field] ELSE 0
            BY <1>u, <2>2, <2>3, StandsAfter
        <3>3. CASE guarded /\ Records
            <4>1. StillCounts(t, q)' <=> entries[a] = q
                BY <2>3, <3>3 DEF StillCounts
            <4> QED
                BY <3>1, <3>2, <3>3, <4>1 DEF Records
        <3>4. CASE ~(guarded /\ Records)
            <4>1. ~StillCounts(t, q)'
                BY <2>3, <3>4 DEF StillCounts
            <4>2. state # "finished" => entries[a] # q
                <5>1. CASE ~guarded
                    <6>1. a \notin Tracked
                        BY <2>1, <5>1 DEF Misses
                    <6> QED
                        BY <2>2, <6>1, NoneAssumption DEF Tracked
                <5>2. CASE state = "idle"
                    BY <2>2, <5>2, NoneAssumption DEF IInv, Unrecorded, Tracked
                <5> QED
                    BY <1>t, <3>4, <5>1, <5>2 DEF TypeOK, Records
            <4> QED
                BY <3>1, <3>2, <4>1, <4>2
        <3> QED
            BY <3>3, <3>4
    <2> QED
        BY <2>2, <2>3, <2>4, SameBooks
<1>11. ASSUME NEW t \in Threads, Take(t) PROVE Kept'
    <2>0. PICK x \in Addresses : call[t].at = x
        BY <1>11, <1>t DEF Take, TypeOK
    <2> USE <2>0
    <2>1. ~missed /\ counted' = counted /\ lost' = lost
        BY <1>11 DEF Take, Settles, refusedVars
    <2>2. x \in Addresses /\ pc[t] = "take"
        BY <1>11, <1>t DEF Take, TypeOK
    <2>3. Confined(t, {x}) /\ call'[t].at = x /\ call'[t].old = call[t].old
        BY <1>11, <1>t DEF Take, Confined, TypeOK, Calls
    <2>4. ASSUME NEW q \in Points, NEW field \in Fields
          PROVE  Stands(x, q, field)' = Stands(x, q, field)
        <3>1. Stands(x, q, field) = IF StillCounts(t, q) THEN Weight(call[t].old)[field] ELSE 0
            BY <1>t, <2>2, StandsHeld, NoneAssumption
        <3>2. Stands(x, q, field)' = IF StillCounts(t, q)' THEN Weight(call[t].old)[field] ELSE 0
            BY <1>u, <2>2, <2>3, StandsAfter
        <3>3. StillCounts(t, q)' <=> StillCounts(t, q)
            BY <1>11, <1>t, <2>2, NoneAssumption DEF Take, StillCounts, TypeOK, Calls
        <3> QED
            BY <3>1, <3>2, <3>3
    <2> QED
        BY <2>1, <2>2, <2>3, <2>4, SameBooks
<1>12. ASSUME NEW t \in Threads, InnerRealloc(t) PROVE Kept'
    <2>0. PICK x \in Addresses : call[t].at = x
        BY <1>12, <1>t DEF InnerRealloc, TypeOK
    <2> USE <2>0
    <2>1. ~missed /\ counted' = counted /\ lost' = lost
        BY <1>12 DEF InnerRealloc, Settles, refusedVars
    <2>2. /\ x \in Addresses /\ pc[t] \in {"resize", "resize_only"} /\ entries' = entries
          /\ sampled' = sampled /\ state' = state
        BY <1>12, <1>t DEF InnerRealloc, TypeOK
    <2>3. ASSUME NEW q \in Points, NEW field \in Fields
          PROVE  Stands(x, q, field) =
                     IF pc[t] = "resize" /\ call[t].taken = q THEN Weight(call[t].old)[field] ELSE 0
        <3>1. StillCounts(t, q) <=> pc[t] = "resize" /\ call[t].taken = q
            BY <2>2 DEF StillCounts
        <3> QED
            BY <1>t, <2>2, <3>1, StandsHeld, NoneAssumption
    <2>4. ASSUME NEW X, Confined(t, X), call'[t].at # x
          PROVE  \A q \in Points, field \in Fields : Stands(x, q, field)' = 0
        <3> TAKE q \in Points, field \in Fields
        <3>1. state # "finished" => entries'[x] # q
            BY <2>1, <2>2, NoEntry, NoneAssumption
        <3> QED
            BY <1>t, <2>2, <2>4, <3>1, StandsReleased
    <2>5. ASSUME NEW a \in Free \cup {x}, Moved(t, a) PROVE Kept'
        <3>1. /\ a \in Addresses /\ (a # x => heap[a] = None)
              /\ \A c \in Addresses \ {x, a} : heap'[c] = heap[c]
            BY <1>t, <2>2, <2>5, Moving
        <3>2. CASE pc[t] = "resize"
            <4>1. call'[t] = [call[t] EXCEPT !.at = a] /\ pc'[t] = "observe_realloc"
                BY <1>t, <2>5, <3>2 DEF Moved, TypeOK
            <4>2. call'[t].at = a /\ call'[t].old = call[t].old /\ call'[t].taken = call[t].taken
                BY <1>t, <4>1 DEF TypeOK, Calls
            <4>3. Confined(t, {x, a})
                BY <1>t, <2>2, <2>5, <3>1, <3>2, <4>2 DEF Moved, Confined, TypeOK
            <4>4. ASSUME NEW q \in Points, NEW field \in Fields
                  PROVE  Stands(a, q, field)' = Stands(x, q, field)
                <5>1. StillCounts(t, q)' <=> call[t].taken = q
                    BY <4>1, <4>2 DEF StillCounts
                <5>2. Stands(a, q, field)' =
                          IF StillCounts(t, q)' THEN Weight(call'[t].old)[field] ELSE 0
                    BY <1>u, <3>1, <4>2, <4>3, StandsAfter
                <5> QED
                    BY <2>3, <3>2, <4>2, <5>1, <5>2
            <4>5. CASE a = x
                BY <2>1, <2>2, <4>3, <4>4, <4>5, SameBooks
            <4>6. CASE a # x
                <5>1. a \in Free
                    BY <2>5, <4>6
                <5>2. \A q \in Points, field \in Fields : Stands(a, q, field) = 0
                    BY <2>1, <5>1, FreeStandsForNothing
                <5>3. \A q \in Points, field \in Fields : Stands(x, q, field)' = 0
                    BY <2>4, <4>2, <4>3, <4>6
                <5> QED
                    BY <2>1, <2>2, <3>1, <4>3, <4>4, <4>6, <5>2, <5>3, MovedBooks
            <4> QED
                BY <4>5, <4>6
        <3>3. CASE pc[t] = "resize_only"
            <4>1. call'[t].at = None
                BY <1>t, <2>5, <3>3 DEF Moved, TypeOK, Return, NoCall
            <4>2. call'[t].at # x /\ call'[t].at # a
                BY <2>2, <3>1, <4>1, NoneAssumption
            <4>3. Confined(t, {x, a})
                BY <1>t, <2>2, <2>5, <3>1, <3>3, <4>1 DEF Moved, Confined, TypeOK, Return
            <4>4. \A q \in Points, field \in Fields :
                     Stands(x, q, field)' = 0 /\ Stands(x, q, field) = 0
                BY <2>3, <2>4, <3>3, <4>2, <4>3
            <4>5. CASE a = x
                BY <2>1, <2>2, <4>3, <4>4, <4>5, SameBooks
            <4>6. CASE a # x
                <5>1. a \in Free
                    BY <2>5, <4>6
                <5>2. \A q \in Points, field \in Fields : Stands(a, q, field) = 0
                    BY <2>1, <5>1, FreeStandsForNothing
                <5>3. ASSUME NEW q \in Points, NEW field \in Fields PROVE Stands(a, q, field)' = 0
                    <6>1. \A u \in Threads : call[u].at # a
                        BY <2>1, <5>1, FreeStandsForNothing
                    <6>2. state # "finished" => entries'[a] # q
                        BY <2>1, <2>2, <3>1, <4>6, EntryHasBlock, NoneAssumption
                    <6> QED
                        BY <1>t, <3>1, <4>2, <4>3, <6>1, <6>2, StandsReleased
                <5> QED
                    BY <2>1, <2>2, <3>1, <4>3, <4>4, <4>6, <5>2, <5>3, MovedBooks
            <4> QED
                BY <4>5, <4>6
        <3> QED
            BY <2>2, <3>2, <3>3
    <2>6. CASE UNCHANGED <<heap, call>> /\ Goto(t, "put_back") /\ pc[t] = "resize"
        <3>1. Confined(t, {x}) /\ pc'[t] = "put_back"
            BY <1>t, <2>2, <2>6 DEF Confined, TypeOK
        <3>2. ASSUME NEW q \in Points, NEW field \in Fields
              PROVE  Stands(x, q, field)' = Stands(x, q, field)
            <4>1. StillCounts(t, q)' <=> call[t].taken = q
                BY <2>6, <3>1 DEF StillCounts
            <4>2. Stands(x, q, field)' =
                      IF StillCounts(t, q)' THEN Weight(call'[t].old)[field] ELSE 0
                BY <1>u, <2>2, <2>6, <3>1, StandsAfter
            <4> QED
                BY <2>3, <2>6, <4>1, <4>2
        <3> QED
            BY <2>1, <2>2, <3>1, <3>2, SameBooks
    <2>7. CASE /\ UNCHANGED heap /\ Return(t)
               /\ pc[t] = "resize_only" \/ call[t].taken = None
        <3>1. Confined(t, {x}) /\ call'[t].at # x
            BY <1>t, <2>2, <2>7, NoneAssumption DEF Confined, TypeOK, Return, NoCall
        <3>2. ASSUME NEW q \in Points, NEW field \in Fields
              PROVE  Stands(x, q, field)' = Stands(x, q, field)
            BY <2>3, <2>4, <2>7, <3>1, NoneAssumption
        <3> QED
            BY <2>1, <2>2, <3>1, <3>2, SameBooks
    <2> QED
        BY <1>12, <2>2, <2>5, <2>6, <2>7 DEF InnerRealloc, Moved
<1>13. ASSUME NEW t \in Threads, PutBack(t) PROVE Kept'
    <2>0. PICK x \in Addresses : call[t].at = x
        BY <1>13, <1>t DEF PutBack, TypeOK
    <2> USE <2>0
    <2>1. ~missed /\ counted' = counted
        BY <1>13 DEF PutBack, Settles
    <2>2. x \in Addresses /\ pc[t] = "put_back" /\ call[t].old \in Sizes /\ call[t].taken \in Points
        BY <1>13, <1>t DEF PutBack, TypeOK, Sized
    <2>3. Confined(t, {x}) /\ call'[t].at # x /\ heap' = heap
        BY <1>13, <1>t, <2>2, NoneAssumption DEF PutBack, Confined, TypeOK, Return, NoCall
    <2>9. ASSUME NEW q \in Points, NEW field \in Fields
          PROVE  /\ counted'[q][field] - counted[q][field]
                        >= Stands(x, q, field)' - Stands(x, q, field)
                 /\ state # "finished" /\ ~lost' =>
                        /\ ~lost
                        /\ counted'[q][field] - counted[q][field]
                              = Stands(x, q, field)' - Stands(x, q, field)
        <3>1. StillCounts(t, q) <=> call[t].taken = q
            BY <2>2 DEF StillCounts
        <3>2. Stands(x, q, field) = IF call[t].taken = q THEN Weight(call[t].old)[field] ELSE 0
            BY <1>t, <2>2, <3>1, StandsHeld, NoneAssumption
        <3>3. heap'[x].size = call[t].old
            BY <2>2, <2>3 DEF Measured
        <3>4. Stands(x, q, field)' =
                  IF state # "finished" /\ entries'[x] = q THEN Weight(call[t].old)[field] ELSE 0
            BY <1>t, <2>2, <2>3, <3>3, StandsReleased
        <3>5. counted[q][field] \in Int /\ Weight(call[t].old)[field] \in Nat
            BY <1>t, <2>2, WeightIsNat, CountedIsInt
        <3>6. CASE Refuses(x)
            <4>1. lost' /\ entries' = entries
                BY <1>13, <3>6 DEF PutBack
            <4>2. state # "finished" => entries'[x] # q
                BY <2>1, <2>2, <4>1, NoEntry, NoneAssumption
            <4> QED
                BY <2>1, <3>2, <3>4, <3>5, <4>1, <4>2
        <3>7. CASE ~Refuses(x)
            <4>1. lost' = lost /\ entries'[x] = call[t].taken
                BY <1>13, <1>t, <2>2, <3>7 DEF PutBack, TypeOK
            <4> QED
                BY <2>1, <3>2, <3>4, <3>5, <4>1
        <3> QED
            BY <3>6, <3>7
    <2> QED
        BY <2>1, <2>2, <2>3, <2>9, Ledger
<1>14. ASSUME NEW t \in Threads, ObserveRealloc(t) PROVE Kept'
    <2>0. PICK x \in Addresses : call[t].at = x
        BY <1>14, <1>t DEF ObserveRealloc, TypeOK
    <2> USE <2>0
    <2>1. ~missed /\ counted' = counted /\ lost' = lost
        BY <1>14 DEF ObserveRealloc
    <2>2. x \in Addresses /\ pc[t] = "observe_realloc" /\ entries' = entries
        BY <1>14, <1>t DEF ObserveRealloc, TypeOK
    <2>3. ASSUME NEW q \in Points, NEW field \in Fields
          PROVE  Stands(x, q, field) = IF call[t].taken = q THEN Weight(call[t].old)[field] ELSE 0
        <3>1. StillCounts(t, q) <=> call[t].taken = q
            BY <2>2 DEF StillCounts
        <3> QED
            BY <1>t, <2>2, <3>1, StandsHeld, NoneAssumption
    <2>4. CASE /\ UNCHANGED call
               /\ Goto(t, IF call[t].taken = None THEN "insert" ELSE "insert_resized")
        <3>1. /\ Confined(t, {x}) /\ call'[t] = call[t]
              /\ pc'[t] = IF call[t].taken = None THEN "insert" ELSE "insert_resized"
            BY <1>14, <1>t, <2>4 DEF ObserveRealloc, Confined, TypeOK
        <3>2. ASSUME NEW q \in Points, NEW field \in Fields
              PROVE  Stands(x, q, field)' = Stands(x, q, field)
            <4>1. StillCounts(t, q)' <=> call[t].taken = q
                BY <3>1, NoneAssumption DEF StillCounts
            <4> QED
                BY <1>u, <2>2, <2>3, <3>1, <4>1, StandsAfter
        <3> QED
            BY <2>1, <2>2, <3>1, <3>2, SameBooks
    <2>5. CASE Return(t) /\ call[t].taken = None
        <3>1. Confined(t, {x}) /\ call'[t].at # x
            BY <1>14, <1>t, <2>2, <2>5, NoneAssumption
                DEF ObserveRealloc, Confined, TypeOK, Return, NoCall
        <3>2. ASSUME NEW q \in Points, NEW field \in Fields
              PROVE  Stands(x, q, field)' = Stands(x, q, field)
            <4>1. state # "finished" => entries'[x] # q
                BY <2>1, <2>2, NoEntry, NoneAssumption
            <4>2. Stands(x, q, field) = 0
                BY <2>3, <2>5, NoneAssumption
            <4> QED
                BY <1>t, <2>2, <4>2, <3>1, <4>1, StandsReleased
        <3> QED
            BY <2>1, <2>2, <3>1, <3>2, SameBooks
    <2> QED
        BY <1>14, <2>4, <2>5 DEF ObserveRealloc
<1>15. ASSUME NEW t \in Threads, InsertResized(t) PROVE Kept'
    <2>0. PICK x \in Addresses : call[t].at = x
        BY <1>15, <1>t DEF InsertResized, TypeOK
    <2> USE <2>0
    <2>1. ~missed /\ counted' = counted /\ lost' = lost
        BY <1>15 DEF InsertResized, Settles, refusedVars
    <2>2. x \in Addresses /\ pc[t] = "insert_resized"
        BY <1>15, <1>t DEF InsertResized, TypeOK
    <2>3. Confined(t, {x}) /\ call'[t].at = x /\ call'[t].old = call[t].old
        BY <1>15, <1>t DEF InsertResized, Confined, TypeOK, Calls
    <2>4. ASSUME NEW q \in Points, NEW field \in Fields
          PROVE  Stands(x, q, field)' = Stands(x, q, field)
        <3>1. Stands(x, q, field) = IF StillCounts(t, q) THEN Weight(call[t].old)[field] ELSE 0
            BY <1>t, <2>2, StandsHeld, NoneAssumption
        <3>2. Stands(x, q, field)' = IF StillCounts(t, q)' THEN Weight(call[t].old)[field] ELSE 0
            BY <1>u, <2>2, <2>3, StandsAfter
        <3>3. StillCounts(t, q)' <=> StillCounts(t, q)
            BY <1>15, <1>t, <2>2, NoneAssumption DEF InsertResized, StillCounts, TypeOK, Calls
        <3> QED
            BY <3>1, <3>2, <3>3
    <2> QED
        BY <2>1, <2>2, <2>3, <2>4, SameBooks
<1>16. ASSUME NEW t \in Threads, Forget(t) PROVE Kept'
    <2>0. PICK x \in Addresses : call[t].at = x
        BY <1>16, <1>t DEF Forget, TypeOK
    <2> USE <2>0
    <2>1. ~missed /\ lost' = lost
        BY <1>16 DEF Forget
    <2>2. x \in Addresses /\ pc[t] = "forget" /\ call[t].old \in Sizes /\ call[t].taken \in Points
        BY <1>16, <1>t DEF Forget, TypeOK, Sized
    <2>3. Confined(t, {x}) /\ call'[t].at # x /\ entries' = entries
        BY <1>16, <1>t, <2>2, NoneAssumption DEF Forget, Confined, TypeOK, Return, NoCall
    <2>9. ASSUME NEW q \in Points, NEW field \in Fields
          PROVE  /\ counted'[q][field] - counted[q][field]
                        >= Stands(x, q, field)' - Stands(x, q, field)
                 /\ state # "finished" /\ ~lost' =>
                        /\ ~lost
                        /\ counted'[q][field] - counted[q][field]
                              = Stands(x, q, field)' - Stands(x, q, field)
        <3>1. StillCounts(t, q) <=> call[t].taken = q
            BY <2>2 DEF StillCounts
        <3>2. Stands(x, q, field) = IF call[t].taken = q THEN Weight(call[t].old)[field] ELSE 0
            BY <1>t, <2>2, <3>1, StandsHeld, NoneAssumption
        <3>3. state # "finished" => entries'[x] # q
            BY <2>1, <2>2, <2>3, NoEntry, NoneAssumption
        <3>4. Stands(x, q, field)' = 0
            BY <1>t, <2>2, <2>3, <3>3, StandsReleased
        <3>5. counted'[q][field] - counted[q][field] =
                  IF q = call[t].taken THEN 0 - Weight(call[t].old)[field] ELSE 0
            <4>1. counted' = Apply(call[t].taken, -1, call[t].old)
                BY <1>16 DEF Forget
            <4> QED
                BY <1>t, <2>2, <4>1, TakenOut
        <3>6. Weight(call[t].old)[field] \in Nat
            BY <1>t, <2>2, WeightIsNat
        <3> QED
            BY <2>1, <3>2, <3>4, <3>5, <3>6
    <2> QED
        BY <2>1, <2>2, <2>3, <2>9, Ledger
<1>17. ASSUME NEW t \in Threads, CountResized(t) PROVE Kept'
    <2>0. PICK x \in Addresses : call[t].at = x
        BY <1>17, <1>t DEF CountResized, TypeOK
    <2> USE <2>0
    <2> DEFINE p == call[t].taken
    <2>1. ~missed /\ lost' = lost
        BY <1>17 DEF CountResized
    <2>2. /\ x \in Addresses /\ pc[t] = "count_resized"
          /\ call[t].old \in Sizes /\ call[t].new \in Sizes /\ p \in Points
        BY <1>17, <1>t DEF CountResized, TypeOK, Sized
    <2>3. Confined(t, {x}) /\ call'[t].at # x /\ entries' = entries /\ heap' = heap
        BY <1>17, <1>t, <2>2, NoneAssumption DEF CountResized, Confined, TypeOK, Return, NoCall
    <2>9. ASSUME NEW q \in Points, NEW field \in Fields
          PROVE  /\ counted'[q][field] - counted[q][field]
                        >= Stands(x, q, field)' - Stands(x, q, field)
                 /\ state # "finished" /\ ~lost' =>
                        /\ ~lost
                        /\ counted'[q][field] - counted[q][field]
                              = Stands(x, q, field)' - Stands(x, q, field)
        <3>1. StillCounts(t, q) <=> p = q
            BY <2>2 DEF StillCounts
        <3>2. Stands(x, q, field) = IF p = q THEN Weight(call[t].old)[field] ELSE 0
            BY <1>t, <2>2, <3>1, StandsHeld, NoneAssumption
        <3>3. entries'[x] = p /\ heap'[x].size = call[t].new
            BY <2>2, <2>3 DEF Written, Measured
        <3>4. Stands(x, q, field)' =
                  IF state # "finished" /\ p = q THEN Weight(call[t].new)[field] ELSE 0
            BY <1>t, <2>2, <2>3, <3>3, StandsReleased
        <3>5. counted'[q][field] - counted[q][field] =
                  IF q = p THEN Weight(call[t].new)[field] - Weight(call[t].old)[field] ELSE 0
            <4>1. counted \in [Points -> [bytes : Int, blocks : Int]]
                BY <1>t DEF TypeOK
            <4>2. Weight(call[t].new) \in [bytes : Nat, blocks : Nat] /\ Weight(call[t].old) \in [bytes : Nat, blocks : Nat]
                BY <1>t, <2>2, Weights
            <4>3. counted' = [counted EXCEPT
                      ![p].bytes = @ + Weight(call[t].new).bytes - Weight(call[t].old).bytes,
                      ![p].blocks = @ + Weight(call[t].new).blocks - Weight(call[t].old).blocks]
                BY <1>17 DEF CountResized
            <4> HIDE DEF p
            <4>4. CASE q = p
                <5>1. counted'[q]
                        = [bytes |-> counted[p].bytes + Weight(call[t].new).bytes - Weight(call[t].old).bytes,
                                     blocks |-> counted[p].blocks + Weight(call[t].new).blocks - Weight(call[t].old).blocks]
                    BY <4>1, <4>3, <4>4
                <5>2. counted[p].bytes \in Int /\ counted[p].blocks \in Int
                    BY <4>1, <4>4
                <5>3. CASE field = "bytes"
                    BY <4>2, <4>4, <5>1, <5>2, <5>3
                <5>4. CASE field = "blocks"
                    BY <4>2, <4>4, <5>1, <5>2, <5>4
                <5> QED
                    BY <5>3, <5>4 DEF Fields
            <4>5. CASE q # p
                <5>1. counted'[q] = counted[q]
                    BY <4>1, <4>3, <4>5
                <5>2. counted[q][field] \in Int
                    BY <1>t, CountedIsInt
                <5> QED
                    BY <4>5, <5>1, <5>2
            <4> QED
                BY <4>4, <4>5
        <3>6. Weight(call[t].new)[field] \in Nat /\ Weight(call[t].old)[field] \in Nat
            BY <1>t, <2>2, WeightIsNat
        <3> QED
            BY <2>1, <3>2, <3>4, <3>5, <3>6
    <2> QED
        BY <2>1, <2>2, <2>3, <2>9, Ledger
<1>18. CASE Start \/ UNCHANGED vars
    <2>1. /\ UNCHANGED <<heap, entries, pc, call, counted, sampled, missed, lost>>
          /\ state # "finished" <=> state' # "finished"
        BY <1>18 DEF Start, vars
    <2>2. ASSUME NEW p \in Points, NEW field \in Fields
          PROVE  Standing(p, field)' = Standing(p, field)
        <3>1. ASSUME NEW a \in Addresses PROVE Stands(a, p, field)' = Stands(a, p, field)
            BY <2>1 DEF Stands, Holder, StillCounts, Weight
        <3> QED
            BY <3>1 DEF Standing
    <2> QED
        BY <2>1, <2>2 DEF Kept
<1>19. CASE Stop
    <2>1. /\ UNCHANGED <<heap, entries, pc, call, counted, sampled, missed, lost>>
          /\ state' = "finished"
        BY <1>19 DEF Stop
    <2>2. ASSUME NEW p \in Points, NEW field \in Fields
          PROVE  counted'[p][field] >= SumFunction(Standing(p, field)')
        <3> DEFINE f == Standing(p, field)'
                   h == Standing(p, field)
                   m == [a \in Addresses |-> a]
        <3>1. f \in [Addresses -> Int] /\ h \in [Addresses -> Nat]
            BY <2>1, StandingSums
        <3>2. ASSUME NEW a \in Addresses PROVE f[a] <= h[a]
            <4>1. Stands(a, p, field)' = Stands(a, p, field) \/ Stands(a, p, field)' = 0
                BY <2>1 DEF Stands, Holder, StillCounts, Weight
            <4>2. Stands(a, p, field) \in Nat
                BY <2>1, StandsIsNat
            <4> QED
                BY <4>1, <4>2 DEF Standing
        <3>3. SumFunction(f) \in Int /\ SumFunction(h) \in Int
            BY <2>1, StandingSums
        <3>4. SumFunction(f) <= SumFunction(h)
            <4>1. /\ \A a \in Addresses : f[a] <= 0 \/ (m[a] \in Addresses /\ f[a] <= h[m[a]])
                  /\ \A a, b \in Addresses : m[a] = m[b] /\ m[a] \in Addresses => a = b
                BY <3>2
            <4> HIDE DEF f, h, m
            <4> QED
                BY <3>1, <4>1, SumsCompare, FiniteAssumption
        <3>5. counted[p][field] >= SumFunction(h) /\ counted[p][field] \in Int
            BY <1>t, <2>1, CountedIsInt DEF Kept
        <3> HIDE DEF f, h
        <3>6. counted'[p][field] >= SumFunction(f)
            BY <2>1, <3>3, <3>4, <3>5
        <3> QED
            BY <3>6 DEF f
    <2> QED
        BY <2>1, <2>2 DEF Kept
<1> QED
    BY <1>1, <1>2, <1>3, <1>4, <1>5, <1>6, <1>7, <1>8, <1>9, <1>10, <1>11, <1>12, <1>13, <1>14,
        <1>15, <1>16, <1>17, <1>18, <1>19
    DEF Next, AllocStep, FreeStep, ReallocStep, Exhausted

\* Initially nothing stands and nothing is counted.
LEMMA InitKept == Init => Measured /\ Written /\ Kept
<1> SUFFICES ASSUME Init PROVE Measured /\ Written /\ Kept
    OBVIOUS
<1>1. Measured /\ Written
    BY DEF Init, Measured, Written
<1>2. ASSUME NEW p \in Points, NEW field \in Fields
      PROVE  counted[p][field] = SumFunction(Standing(p, field))
    <2>1. \A a \in Addresses : Stands(a, p, field) = 0
        BY NoneAssumption DEF Init, Stands, NoCall
    <2>2. Standing(p, field) = [a \in Addresses |-> 0]
        BY <2>1 DEF Standing
    <2>3. SumFunction(Standing(p, field)) = 0
        BY <2>2, SumOfZeros, FiniteAssumption
    <2>4. counted[p][field] = 0
        BY DEF Init, Nothing, Fields
    <2> QED
        BY <2>3, <2>4
<1>3. ASSUME NEW p \in Points, NEW field \in Fields PROVE counted[p][field] \in Int
    BY DEF Init, Nothing, Fields
<1> QED
    BY <1>1, <1>2, <1>3 DEF Kept

LEMMA BooksAreKept == Spec => [](IInv /\ Measured /\ Written /\ Kept)
<1>1. /\ IInv /\ Measured /\ Written /\ Kept /\ [Next]_vars
      => IInv' /\ Measured' /\ Written' /\ Kept'
    BY NextInv, NextNotes, NextKept
<1> QED
    BY <1>1, InitInv, InitKept, PTL DEF Spec

\* Between calls what stands at an address is what its entry says.
LEMMA StandingIsEntries ==
    ASSUME IInv, ~missed, Quiet, state = "running", NEW p \in Points, NEW field \in Fields
    PROVE  SumFunction(Standing(p, field)) = Sum(p, field)
<1> DEFINE f == Standing(p, field)
           h == [a \in Tracked |-> IF entries[a] = p THEN Weight(heap[a].size)[field] ELSE 0]
           m == [a \in Addresses |-> a]
<1>1. \A t \in Threads : call[t].at = None
    BY DEF IInv, Own, Quiet, At
<1>2. ASSUME NEW a \in Addresses
      PROVE  f[a] = IF entries[a] = p THEN Weight(heap[a].size)[field] ELSE 0
    BY <1>1, NoneAssumption DEF Standing, Stands
<1>3. f \in [Addresses -> Nat]
    BY StandsIsNat DEF Standing
<1>4. \A a \in Tracked : a \in Addresses /\ h[a] = f[a]
    BY <1>2 DEF Tracked
<1>5. \A a \in Addresses : a \notin Tracked => f[a] = 0
    BY <1>2, NoneAssumption DEF Tracked
<1>6. h \in [Tracked -> Nat]
    BY <1>3, <1>4
<1>7. IsFiniteSet(Tracked) /\ IsFiniteSet(Addresses)
    BY FiniteAssumption, FS_Subset DEF Tracked
<1>8. \A a \in Addresses : m[a] = a
    OBVIOUS
<1> HIDE DEF f, h, m
<1>9. SumFunction(f) <= SumFunction(h)
    <2>1. \A a \in Addresses : f[a] <= 0 \/ (m[a] \in Tracked /\ f[a] <= h[m[a]])
        BY <1>3, <1>4, <1>5, <1>8
    <2>2. \A a, b \in Addresses : m[a] = m[b] /\ m[a] \in Tracked => a = b
        BY <1>8
    <2>3. f \in [Addresses -> Int]
        BY <1>3
    <2> QED
        BY <1>6, <1>7, <2>1, <2>2, <2>3, SumsCompare
<1>10. SumFunction(h) <= SumFunction(f)
    <2>1. \A a \in Tracked : h[a] <= 0 \/ (m[a] \in Addresses /\ h[a] <= f[m[a]])
        BY <1>3, <1>4, <1>8
    <2>2. \A a, b \in Tracked : m[a] = m[b] /\ m[a] \in Addresses => a = b
        BY <1>4, <1>8
    <2>3. h \in [Tracked -> Int]
        BY <1>6
    <2> QED
        BY <1>3, <1>7, <2>1, <2>2, <2>3, SumsCompare
<1>11. SumFunction(f) \in Int /\ SumFunction(h) \in Int
    BY <1>3, <1>6, <1>7, SumIsInt
<1>12. SumFunction(f) = SumFunction(h)
    BY <1>9, <1>10, <1>11
<1> QED
    BY <1>12 DEF f, h, Sum

\* What a sum of naturals cannot be.
LEMMA StandingIsNat ==
    ASSUME IInv, ~missed, NEW p \in Points, NEW field \in Fields
    PROVE  SumFunction(Standing(p, field)) \in Nat
<1> DEFINE z == [a \in Addresses |-> 0]
           m == [a \in Addresses |-> a]
<1>1. Standing(p, field) \in [Addresses -> Nat] /\ z \in [Addresses -> Int]
    BY StandsIsNat DEF Standing
<1>2. SumFunction(z) = 0
    BY SumOfZeros, FiniteAssumption
<1>3. SumFunction(Standing(p, field)) \in Int
    BY <1>1, SumIsInt, FiniteAssumption
<1>4. \A a \in Addresses : z[a] = 0 /\ m[a] = a
    OBVIOUS
<1> HIDE DEF z, m, Standing
<1>5. SumFunction(z) <= SumFunction(Standing(p, field))
    BY <1>1, <1>4, SumsCompare, FiniteAssumption
<1> QED
    BY <1>2, <1>3, <1>5

\* Accounts: the live counters of a point (Engine::apply) are those of the
\* blocks the table has (record_alloc, record_free, record_realloc_taken in
\* engine.rs, as alloc.rs calls them), and never below zero, however the calls
\* of any number of threads overlap, unless a call that was refused the guard
\* freed or resized a counted block or a failed realloc lost an entry.
THEOREM AccountsBalance == Spec => []Accounts
<1>1. ASSUME IInv, Kept PROVE NeverNegative
    <2> SUFFICES ASSUME ~missed, NEW p \in Points
                 PROVE  counted[p].bytes >= 0 /\ counted[p].blocks >= 0
        BY DEF NeverNegative, RefusalLosesAnEvent
    <2>1. ASSUME NEW field \in Fields PROVE counted[p][field] >= 0
        <3>1. counted[p][field] \in Int
            BY <1>1, CountedIsInt DEF IInv
        <3>2. SumFunction(Standing(p, field)) \in Nat
            BY <1>1, StandingIsNat
        <3>3. counted[p][field] >= SumFunction(Standing(p, field))
            BY <1>1 DEF Kept
        <3> QED
            BY <3>1, <3>2, <3>3
    <2> QED
        BY <2>1 DEF Fields
<1>2. ASSUME IInv, Kept PROVE LiveIsCounted
    <2> SUFFICES ASSUME ~lost, ~missed, Quiet, state = "running", NEW p \in Points, NEW field \in Fields
                 PROVE  counted[p][field] = Sum(p, field)
        BY DEF LiveIsCounted, CountsAreEntries, Fields
    <2>1. counted[p][field] = SumFunction(Standing(p, field))
        BY <1>2 DEF Kept
    <2> QED
        BY <1>2, <2>1, StandingIsEntries
<1>3. IInv /\ Kept /\ ObservedAccounted => Accounts
    BY <1>1, <1>2 DEF Accounts, IInv
<1> QED
    BY <1>3, BooksAreKept, RequestsAreAccounted, PTL

-----------------------------------------------------------------------------
(* Sampling.tla: which requests a sampled run records, and what its        *)
(* histograms say of all of them, for any word, sizes and draws.           *)
CONSTANTS Bits, Requested, Gaps, MaxRequests
VARIABLES countdown, position, landings, shapes, asks, asked, spans

Smp == INSTANCE Sampling WITH Sizes <- Requested, points <- landings, requests <- asks

\* The library's operators are the same in the instance.
LEMMA SameSums ==
    ASSUME NEW f
    PROVE  Smp!SumFunction(f) = SumFunction(f)
BY DEF Smp!SumFunction, Smp!SumFunctionOnSet, Smp!FoldFunctionOnSet, Smp!MapThenFoldSet,
       SumFunction, SumFunctionOnSet, FoldFunctionOnSet, MapThenFoldSet

LEMMA SameSizes ==
    ASSUME NEW S
    PROVE  /\ Smp!IsFiniteSet(S) <=> IsFiniteSet(S)
           /\ Smp!Cardinality(S) = Cardinality(S)
<1>1. Smp!IsFiniteSet(S) <=> IsFiniteSet(S)
    BY DEF Smp!IsFiniteSet, IsFiniteSet
<1>2. Smp!Cardinality(S) = Cardinality(S)
    BY DEF Smp!Cardinality, Cardinality
<1> QED
    BY <1>1, <1>2

LEMMA TotalIsSum ==
    ASSUME NEW gaps
    PROVE  Smp!Total(gaps) = SumFunctionOnSet(gaps, DOMAIN gaps)
BY SameSums DEF Smp!Total, SumFunction

\* A set with more numbers has no smaller sum.
LEMMA SumOfMore ==
    ASSUME NEW B, IsFiniteSet(B), NEW f, \A x \in B : f[x] \in Nat, NEW A \in SUBSET B
    PROVE  /\ SumFunctionOnSet(f, A) \in Nat /\ SumFunctionOnSet(f, B) \in Nat
           /\ SumFunctionOnSet(f, A) <= SumFunctionOnSet(f, B)
<1> DEFINE g == [x \in A |-> f[x]]
           h == [x \in B |-> f[x]]
           m == [x \in A |-> x]
<1>1. IsFiniteSet(A)
    BY FS_Subset
<1>2. /\ g \in [A -> Int] /\ DOMAIN g = A /\ \A x \in A : f[x] = g[x]
      /\ h \in [B -> Nat] /\ DOMAIN h = B /\ \A x \in B : f[x] = h[x]
    OBVIOUS
<1>3. SumFunctionOnSet(f, A) = SumFunction(g) /\ SumFunctionOnSet(f, B) = SumFunction(h)
    <2> HIDE DEF g, h
    <2> QED
        BY <1>1, <1>2, SumSame DEF SumFunction
<1>4. SumFunction(g) <= SumFunction(h)
    <2>1. \A x \in A : m[x] \in B /\ g[x] <= h[m[x]]
        OBVIOUS
    <2>2. \A x, y \in A : m[x] = m[y] /\ m[x] \in B => x = y
        OBVIOUS
    <2> HIDE DEF g, h, m
    <2> QED
        BY <1>1, <1>2, <2>1, <2>2, SumsCompare
<1>5. SumFunctionOnSet(f, A) \in Nat /\ SumFunctionOnSet(f, B) \in Nat
    BY <1>1, SumOnNaturals
<1> QED
    BY <1>3, <1>4, <1>5

-----------------------------------------------------------------------------
(* The sampler *)

LEMMA SamplingConstants ==
    ASSUME Smp!ConstantsAssumption
    PROVE  /\ Bits \in Nat \ {0} /\ MaxRequests \in Nat
           /\ Gaps \subseteq Nat /\ (\A g \in Gaps : g > 0) /\ Gaps # {} /\ IsFiniteSet(Gaps)
BY SameSizes DEF Smp!ConstantsAssumption

\* The gaps drawn one after another add up to no more before the last than at it.
LEMMA PrefixTotals ==
    ASSUME Smp!ConstantsAssumption, NEW gaps \in Smp!Draws
    PROVE  /\ Len(gaps) \in Nat \ {0} /\ gaps[Len(gaps)] \in Gaps
           /\ Smp!Total(gaps) \in Nat /\ Smp!Total(Smp!Front(gaps)) \in Nat
           /\ Smp!Total(gaps) = Smp!Total(Smp!Front(gaps)) + gaps[Len(gaps)]
           /\ SubSeq(gaps, 1, Len(gaps)) = gaps /\ Smp!Total(SubSeq(gaps, 1, 0)) = 0
           /\ \A i \in 0..Len(gaps) :
                 /\ Smp!Total(SubSeq(gaps, 1, i)) \in Nat
                 /\ i # Len(gaps) => Smp!Total(SubSeq(gaps, 1, i)) <= Smp!Total(Smp!Front(gaps))
<1>1. PICK n \in 1..(Smp!MAX + 1) : gaps \in [1..n -> Gaps]
    BY DEF Smp!Draws
<1>2. n \in Nat \ {0} /\ IsFiniteSet(1..n)
    BY <1>1, FS_Interval
<1>3. /\ \A i \in 1..n : gaps[i] \in Gaps /\ gaps[i] \in Nat
      /\ gaps \in Seq(Nat) /\ Len(gaps) = n /\ DOMAIN gaps = 1..n
    BY <1>1, <1>2, SamplingConstants
<1>4. ASSUME NEW i \in 0..n
      PROVE  Smp!Total(SubSeq(gaps, 1, i)) = SumFunctionOnSet(gaps, 1..i)
    <2> DEFINE s == SubSeq(gaps, 1, i)
    <2>1. i \in Nat /\ i <= n /\ 1..i \subseteq 1..n
        BY <1>2, <1>4
    <2>2. /\ s \in Seq(Nat) /\ Len(s) = i
          /\ \A j \in 1..i : s[j] = gaps[j]
        <3>1. \A j \in 1..i : gaps[j] \in Nat
            BY <1>3, <2>1
        <3>2. /\ s \in Seq(Nat) /\ Len(s) = IF 1 <= i THEN i - 1 + 1 ELSE 0
              /\ \A j \in 1..(i - 1 + 1) : s[j] = gaps[1 + j - 1]
            BY <2>1, <3>1, SubSeqProperties
        <3>3. i - 1 + 1 = i /\ \A j \in 1..i : 1 + j - 1 = j
            BY <2>1
        <3> HIDE DEF s
        <3> QED
            BY <2>1, <3>2, <3>3
    <2>3. DOMAIN s = 1..i
        <3> HIDE DEF s
        <3> QED
            BY <2>2
    <2>4. IsFiniteSet(1..i)
        BY <2>1, FS_Interval
    <2> HIDE DEF s
    <2>5. SumFunctionOnSet(s, 1..i) = SumFunctionOnSet(gaps, 1..i)
        BY <2>2, <2>4, SumSame
    <2> QED
        BY <2>3, <2>5, TotalIsSum DEF s
<1>5. ASSUME NEW i \in 0..n, NEW j \in 0..n, i <= j
      PROVE  /\ SumFunctionOnSet(gaps, 1..i) \in Nat /\ SumFunctionOnSet(gaps, 1..j) \in Nat
             /\ SumFunctionOnSet(gaps, 1..i) <= SumFunctionOnSet(gaps, 1..j)
    <2>1. 1..i \in SUBSET (1..j) /\ 1..j \subseteq 1..n
        BY <1>2, <1>5
    <2>2. IsFiniteSet(1..j)
        BY <1>5, FS_Interval
    <2>3. \A x \in 1..j : gaps[x] \in Nat
        BY <1>3, <2>1
    <2> QED
        BY <2>1, <2>2, <2>3, SumOfMore
<1>6. Smp!Front(gaps) = SubSeq(gaps, 1, n - 1) /\ n - 1 \in 0..n /\ n \in 0..n
    BY <1>2, <1>3 DEF Smp!Front
<1>7. SubSeq(gaps, 1, n) = gaps
    <2>1. Len(gaps) = n /\ gaps \in Seq(Nat)
        BY <1>3
    <2> QED
        BY <2>1
<1>8. Smp!Total(gaps) = SumFunctionOnSet(gaps, 1..n)
    BY <1>3, TotalIsSum
<1>9. Smp!Total(gaps) = Smp!Total(Smp!Front(gaps)) + gaps[n]
    <2>1. \A x \in 1..n : gaps[x] \in Int
        BY <1>3
    <2>2. SumFunctionOnSet(gaps, 1..n) = gaps[n] + SumFunctionOnSet(gaps, (1..n) \ {n})
        BY <1>2, <2>1, SumTakes
    <2>3. (1..n) \ {n} = 1..(n - 1)
        BY <1>2
    <2>4. /\ SumFunctionOnSet(gaps, 1..(n - 1)) = Smp!Total(Smp!Front(gaps))
          /\ SumFunctionOnSet(gaps, 1..(n - 1)) \in Nat
        <3>1. Smp!Total(SubSeq(gaps, 1, n - 1)) = SumFunctionOnSet(gaps, 1..(n - 1))
            BY <1>4, <1>6
        <3>2. n - 1 <= n
            BY <1>2
        <3>3. SumFunctionOnSet(gaps, 1..(n - 1)) \in Nat
            BY <1>5, <1>6, <3>2
        <3> QED
            BY <1>6, <3>1, <3>3
    <2>5. gaps[n] \in Nat
        BY <1>2, <1>3
    <2>6. Smp!Total(gaps) = gaps[n] + Smp!Total(Smp!Front(gaps))
        BY <1>8, <2>2, <2>3, <2>4, Zenon
    <2>7. Smp!Total(Smp!Front(gaps)) \in Nat
        BY <2>4, Zenon
    <2> QED
        BY <2>5, <2>6, <2>7
<1>10. ASSUME NEW i \in 0..n
       PROVE  /\ Smp!Total(SubSeq(gaps, 1, i)) \in Nat
              /\ i # n => Smp!Total(SubSeq(gaps, 1, i)) <= Smp!Total(Smp!Front(gaps))
    <2>1. i <= n /\ (i # n => i <= n - 1)
        BY <1>2, <1>10
    <2>2. Smp!Total(SubSeq(gaps, 1, i)) = SumFunctionOnSet(gaps, 1..i)
        BY <1>4, <1>10
    <2>3. Smp!Total(Smp!Front(gaps)) = SumFunctionOnSet(gaps, 1..(n - 1))
        BY <1>4, <1>6
    <2>4. SumFunctionOnSet(gaps, 1..i) \in Nat
        BY <1>5, <1>6, <1>10, <2>1
    <2>5. i # n => SumFunctionOnSet(gaps, 1..i) <= SumFunctionOnSet(gaps, 1..(n - 1))
        BY <1>5, <1>6, <1>10, <2>1
    <2> QED
        BY <2>2, <2>3, <2>4, <2>5
<1>11. Smp!Total(gaps) \in Nat /\ Smp!Total(Smp!Front(gaps)) \in Nat
    BY <1>6, <1>7, <1>10
<1>12. Smp!Total(SubSeq(gaps, 1, 0)) = 0
    <2>1. 0 \in 0..n /\ 1..0 = {}
        BY <1>2
    <2> QED
        BY <1>4, <2>1, SumEmpty
<1> QED
    BY <1>2, <1>3, <1>7, <1>9, <1>10, <1>11, <1>12

\* Every point that was drawn has been passed but the last, which the countdown leads to.
PointsFollow ==
    /\ countdown \in Nat /\ position \in Nat /\ landings \subseteq Nat
    /\ countdown = 0 \/ \E g \in Gaps : countdown <= g
    /\ landings = {} => countdown = 0
    /\ landings # {} =>
          /\ countdown > 0 /\ position + countdown \in landings
          /\ \A q \in landings : q <= position \/ q = position + countdown

\* What the requests got is behind, where no point is drawn any more.
SpansAreBehind ==
    \A span \in spans :
        /\ span.from \in Nat /\ span.to \in Nat /\ span.to <= position
        /\ span.admitted = (\E q \in landings : span.from < q /\ q <= span.to)

\* What a request adds: points beyond the position, of which at most the last is
\* beyond its last byte, and one in its bytes if and only if it is sampled.
Advance(size, left) ==
    /\ position' = position + size
    /\ \E new \in SUBSET Nat, last \in Nat, admitted \in BOOLEAN :
          /\ landings' = landings \cup new /\ last \in new /\ position + left \in new
          /\ countdown' = last - position'
          /\ position' < last /\ \E g \in Gaps : countdown' <= g \/ countdown' <= left
          /\ \A q \in new : position < q /\ (q <= position' \/ q = last)
          /\ admitted = (\E q \in new : q <= position')
          /\ spans' = spans \cup
                {[from |-> position, to |-> position + size, admitted |-> admitted]}

LEMMA AdmitsAdvances ==
    ASSUME Smp!ConstantsAssumption, PointsFollow, NEW size \in Nat, NEW first \in Gaps,
           Smp!Admits(size, first)
    PROVE  Advance(size, Smp!Initialized(first)) /\ Smp!Initialized(first) \in Nat
<1> DEFINE left == Smp!Initialized(first)
           next == position + left
<1>1. left \in Nat /\ left > 0 /\ position \in Nat /\ next \in Nat
    BY SamplingConstants DEF PointsFollow, Smp!Initialized
<1>2. position' = position + size
    BY DEF Smp!Admits
<1>3. CASE Smp!Passed(size, left)
    <2>1. size < left
        BY <1>3 DEF Smp!Passed
    <2>2. /\ countdown' = left - size /\ landings' = landings \cup {next}
          /\ spans' = spans \cup
                {[from |-> position, to |-> position + size, admitted |-> FALSE]}
        BY <1>3 DEF Smp!Admits, Smp!Answers
    <2>3. {next} \in SUBSET Nat /\ next \in {next} /\ next \in Nat /\ FALSE \in BOOLEAN
        BY <1>1
    <2>4. /\ countdown' = next - position' /\ position' < next /\ countdown' <= left
          /\ position < next /\ ~(next <= position')
        BY <1>1, <1>2, <2>1, <2>2
    <2>5. \E g \in Gaps : countdown' <= g \/ countdown' <= left
        BY <2>4
    <2>6. /\ \A q \in {next} : position < q /\ (q <= position' \/ q = next)
          /\ FALSE = (\E q \in {next} : q <= position')
        BY <2>4
    <2>7. position + left \in {next}
        OBVIOUS
    <2> HIDE DEF left, next
    <2>8. Advance(size, left)
        BY <1>2, <2>2, <2>3, <2>4, <2>5, <2>6, <2>7 DEF Advance
    <2> QED
        BY <1>1, <2>8 DEF left
<1>4. CASE ~Smp!Passed(size, left)
    <2>1. left <= size
        BY <1>1, <1>4 DEF Smp!Passed
    <2>2. PICK gaps \in Smp!Draws :
            /\ Smp!EndsBeyond(gaps, size - left)
            /\ countdown' = Smp!Total(gaps) - (size - left)
            /\ landings' = landings \cup {next + Smp!Total(SubSeq(gaps, 1, i)) : i \in 0..Len(gaps)}
            /\ spans' = spans \cup
                  {[from |-> position, to |-> position + size, admitted |-> TRUE]}
        BY <1>4 DEF Smp!Admits, Smp!Answers
    <2> DEFINE n == Len(gaps)
               new == {next + Smp!Total(SubSeq(gaps, 1, i)) : i \in 0..n}
               last == next + Smp!Total(gaps)
    <2>3. /\ n \in Nat \ {0} /\ gaps[n] \in Gaps
          /\ Smp!Total(gaps) \in Nat /\ Smp!Total(Smp!Front(gaps)) \in Nat
          /\ Smp!Total(gaps) = Smp!Total(Smp!Front(gaps)) + gaps[n]
          /\ SubSeq(gaps, 1, n) = gaps /\ Smp!Total(SubSeq(gaps, 1, 0)) = 0
          /\ \A i \in 0..n :
                /\ Smp!Total(SubSeq(gaps, 1, i)) \in Nat
                /\ i # n => Smp!Total(SubSeq(gaps, 1, i)) <= Smp!Total(Smp!Front(gaps))
        BY PrefixTotals
    <2>4. Smp!Total(gaps) > size - left /\ Smp!Total(Smp!Front(gaps)) <= size - left
        BY <2>2 DEF Smp!EndsBeyond
    <2>5. gaps[n] \in Nat
        BY <2>3, SamplingConstants
    <2>6. next = position + left /\ position + left = next
        OBVIOUS
    <2>7. countdown' = Smp!Total(gaps) - (size - left) /\ landings' = landings \cup new
        BY <2>2
    <2> HIDE DEF left, next, n
    <2>8. last \in Nat /\ countdown' = last - position' /\ position' < last
        BY <1>1, <1>2, <2>1, <2>3, <2>4, <2>6, <2>7
    <2>9. countdown' <= gaps[n]
        <3>1. /\ Smp!Total(gaps) = Smp!Total(Smp!Front(gaps)) + gaps[n]
              /\ Smp!Total(Smp!Front(gaps)) \in Nat
            BY <2>3, Zenon
        <3>2. Smp!Total(gaps) - (size - left) <= gaps[n]
            BY <1>1, <2>1, <2>4, <2>5, <3>1
        <3> QED
            BY <2>7, <3>2
    <2>10. new \in SUBSET Nat /\ last \in new /\ next \in new
        <3>1. \A i \in 0..n : next + Smp!Total(SubSeq(gaps, 1, i)) \in Nat
            BY <1>1, <2>3
        <3>2. 0 \in 0..n /\ n \in 0..n
            BY <2>3
        <3>3. last = next + Smp!Total(SubSeq(gaps, 1, n))
            BY <2>3, Zenon
        <3>4. next = next + Smp!Total(SubSeq(gaps, 1, 0))
            <4>1. Smp!Total(SubSeq(gaps, 1, 0)) = 0
                BY <2>3, Zenon
            <4> QED
                BY <1>1, <4>1
        <3> HIDE DEF last
        <3> QED
            BY <3>1, <3>2, <3>3, <3>4
    <2>11. ASSUME NEW q \in new PROVE position < q /\ (q <= position' \/ q = last)
        <3>1. PICK i \in 0..n : q = next + Smp!Total(SubSeq(gaps, 1, i))
            OBVIOUS
        <3>2. Smp!Total(SubSeq(gaps, 1, i)) \in Nat
            BY <2>3
        <3>3. position < q
            BY <1>1, <2>6, <3>1, <3>2
        <3>4. CASE i = n
            BY <2>3, <3>1, <3>3, <3>4, Zenon
        <3>5. CASE i # n
            <4>1. /\ Smp!Total(SubSeq(gaps, 1, i)) <= Smp!Total(Smp!Front(gaps))
                  /\ Smp!Total(Smp!Front(gaps)) \in Nat
                BY <2>3, <3>5
            <4>2. Smp!Total(SubSeq(gaps, 1, i)) <= size - left
                BY <1>1, <2>4, <3>2, <4>1
            <4>3. q <= position'
                BY <1>1, <1>2, <2>6, <3>1, <3>2, <4>2
            <4> QED
                BY <3>3, <4>3
        <3> QED
            BY <3>4, <3>5
    <2>12. \E q \in new : q <= position'
        <3>1. next <= position'
            BY <1>1, <1>2, <2>1, <2>6
        <3> HIDE DEF new
        <3> QED
            BY <2>10, <3>1
    <2>13. \E g \in Gaps : countdown' <= g \/ countdown' <= left
        BY <2>3, <2>9
    <2> HIDE DEF new, last
    <2>14. Advance(size, left)
        BY <1>2, <2>2, <2>6, <2>7, <2>8, <2>10, <2>11, <2>12, <2>13 DEF Advance
    <2> QED
        BY <1>1, <2>14 DEF left
<1> QED
    BY <1>3, <1>4

LEMMA AdvanceKeeps ==
    ASSUME Smp!ConstantsAssumption, PointsFollow, SpansAreBehind, NEW size \in Nat,
           NEW first \in Gaps, Advance(size, Smp!Initialized(first))
    PROVE  PointsFollow' /\ SpansAreBehind'
<1> DEFINE left == Smp!Initialized(first)
<1>1. /\ countdown \in Nat /\ position \in Nat /\ landings \subseteq Nat /\ position' = position + size
      /\ \A q \in landings : q <= position \/ (q = position + left)
      /\ left \in Nat /\ \E g \in Gaps : left <= g
    <2>1. CASE countdown = 0
        <3>1. landings = {} /\ left = first /\ first \in Nat
            BY <2>1, SamplingConstants DEF PointsFollow, Smp!Initialized
        <3> QED
            BY <3>1 DEF PointsFollow, Advance
    <2>2. CASE countdown # 0
        <3>1. left = countdown
            BY <2>2 DEF Smp!Initialized
        <3> QED
            BY <2>2, <3>1 DEF PointsFollow, Advance
    <2> QED
        BY <2>1, <2>2
<1>2. PICK new \in SUBSET Nat, last \in Nat, admitted \in BOOLEAN :
          /\ landings' = landings \cup new /\ last \in new /\ position + left \in new
          /\ countdown' = last - position'
          /\ position' < last /\ \E g \in Gaps : countdown' <= g \/ countdown' <= left
          /\ \A q \in new : position < q /\ (q <= position' \/ q = last)
          /\ admitted = (\E q \in new : q <= position')
          /\ spans' = spans \cup
                {[from |-> position, to |-> position + size, admitted |-> admitted]}
    BY DEF Advance
<1> HIDE DEF left
<1>3. /\ position' \in Nat /\ position <= position' /\ countdown' \in Nat /\ countdown' > 0
      /\ position' + countdown' = last
    BY <1>1, <1>2
<1>4. \A q \in landings' : q <= position \/ q \in new
    BY <1>1, <1>2
<1>5. PointsFollow'
    <2>1. landings' \subseteq Nat /\ landings' # {} /\ last \in landings'
        BY <1>1, <1>2
    <2>2. \E g \in Gaps : countdown' <= g
        <3>1. PICK g \in Gaps : countdown' <= g \/ countdown' <= left
            BY <1>2
        <3>2. PICK h \in Gaps : left <= h
            BY <1>1
        <3>3. g \in Nat /\ h \in Nat
            BY SamplingConstants
        <3> QED
            BY <1>1, <1>3, <3>1, <3>2, <3>3
    <2>3. ASSUME NEW q \in landings' PROVE q <= position' \/ q = position' + countdown'
        <3>1. q \in Nat
            BY <2>1
        <3>2. CASE q <= position
            <4>1. position \in Nat /\ position' \in Nat /\ position <= position'
                BY <1>1, <1>3
            <4> QED
                BY <3>1, <3>2, <4>1
        <3>3. CASE q \in new
            BY <1>2, <1>3, <3>3
        <3> QED
            BY <1>4, <3>2, <3>3
    <2> QED
        BY <1>3, <2>1, <2>2, <2>3 DEF PointsFollow
<1>6. SpansAreBehind'
    <2> SUFFICES ASSUME NEW span \in spans'
                 PROVE  /\ span.from \in Nat /\ span.to \in Nat /\ span.to <= position'
                        /\ span.admitted =
                              (\E q \in landings' : span.from < q /\ q <= span.to)
        BY DEF SpansAreBehind
    <2>1. CASE span \in spans
        <3>1. /\ span.from \in Nat /\ span.to \in Nat /\ span.to <= position
              /\ span.admitted = (\E q \in landings : span.from < q /\ q <= span.to)
            BY <2>1 DEF SpansAreBehind
        <3>2. span.to <= position'
            BY <1>1, <1>3, <3>1
        <3>3. \A q \in new : ~(q <= span.to)
            BY <1>1, <1>2, <3>1
        <3>4. (\E q \in landings' : span.from < q /\ q <= span.to)
                <=> (\E q \in landings : span.from < q /\ q <= span.to)
            BY <1>2, <3>3
        <3> QED
            BY <3>1, <3>2, <3>4
    <2>2. CASE span = [from |-> position, to |-> position + size, admitted |-> admitted]
        <3>1. span.from = position /\ span.to = position' /\ span.admitted = admitted
            BY <1>1, <2>2
        <3>2. position' <= position'
            BY <1>3
        <3>3. (\E q \in landings' : position < q /\ q <= position')
                <=> (\E q \in new : q <= position')
            <4>1. \A q \in new : position < q /\ q \in landings'
                BY <1>2
            <4>2. \A q \in landings' : position < q => q \in new
                <5> SUFFICES ASSUME NEW q \in landings', position < q PROVE q \in new
                    OBVIOUS
                <5>1. q \in Nat
                    BY <1>1, <1>2
                <5>2. ~(q <= position)
                    BY <1>1, <5>1
                <5> QED
                    BY <1>4, <5>2
            <4> QED
                BY <4>1, <4>2
        <3> QED
            BY <1>1, <1>2, <1>3, <3>1, <3>2, <3>3
    <2> QED
        BY <1>2, <2>1, <2>2
<1> QED
    BY <1>5, <1>6

\* A bounded set of numbers has a largest.
LEMMA NumbersHaveLargest ==
    ASSUME NEW S \in SUBSET Nat, S # {}, NEW bound \in Nat, \A q \in S : q <= bound
    PROVE  \E most \in S : \A q \in S : most >= q
<1> DEFINE T == {bound - q : q \in S}
<1>1. T \in SUBSET Nat /\ T # {}
    <2>1. \A q \in S : q \in Nat /\ bound - q \in Nat
        OBVIOUS
    <2> QED
        BY <2>1
<1>2. PICK n \in T : \A m \in T : n <= m
    <2> HIDE DEF T
    <2> QED
        BY <1>1, LeastNumber
<1>3. PICK most \in S : n = bound - most
    BY <1>2
<1>4. \A q \in S : bound - most <= bound - q
    BY <1>2, <1>3
<1>5. \A q \in S : most >= q
    <2> SUFFICES ASSUME NEW q \in S PROVE most >= q
        OBVIOUS
    <2> QED
        BY <1>4
<1> QED
    BY <1>5

\* Max finds it.
LEMMA MaxIsLargest ==
    ASSUME NEW S \in SUBSET Nat, S # {}, NEW bound \in Nat, \A q \in S : q <= bound
    PROVE  Smp!Max(S) \in S /\ \A q \in S : q <= Smp!Max(S)
<1>5. \E x \in S : \A y \in S : x >= y
    BY NumbersHaveLargest
<1>6. Smp!Max(S) = CHOOSE x \in S : \A y \in S : x >= y
    BY DEF Smp!Max
<1>7. Smp!Max(S) \in S /\ \A y \in S : Smp!Max(S) >= y
    BY <1>5, <1>6, Zenon
<1>8. \A q \in S : q <= Smp!Max(S)
    <2> SUFFICES ASSUME NEW q \in S PROVE q <= Smp!Max(S)
        OBVIOUS
    <2>1. Smp!Max(S) >= q /\ Smp!Max(S) \in Nat /\ q \in Nat
        BY <1>7
    <2> QED
        BY <2>1
<1> QED
    BY <1>7, <1>8

\* A finite set of numbers has a bound.
LEMMA FiniteHasBound ==
    ASSUME NEW S \in SUBSET Nat, IsFiniteSet(S)
    PROVE  \E bound \in Nat : \A q \in S : q <= bound
<1> DEFINE f == [q \in S |-> q]
<1>1. f \in [S -> Nat]
    OBVIOUS
<1>2. SumFunction(f) \in Nat /\ \A x \in S : f[x] <= SumFunction(f)
    <2> HIDE DEF f
    <2> QED
        BY <1>1, SumOfNaturals
<1> QED
    BY <1>2

LEMMA SamplerHolds ==
    ASSUME Smp!ConstantsAssumption, PointsFollow, SpansAreBehind
    PROVE  /\ countdown \in 0..Smp!Max(Gaps) /\ position \in Nat
           /\ Smp!CountdownIsDistance /\ Smp!SampledWherePointsLand
<1>1. \A g \in Gaps : g \in Nat /\ g <= Smp!Max(Gaps) /\ Smp!Max(Gaps) \in Nat
    <2>1. Gaps \in SUBSET Nat /\ Gaps # {} /\ IsFiniteSet(Gaps)
        BY SamplingConstants
    <2>2. PICK bound \in Nat : \A q \in Gaps : q <= bound
        BY <2>1, FiniteHasBound
    <2>3. Smp!Max(Gaps) \in Gaps /\ \A q \in Gaps : q <= Smp!Max(Gaps)
        BY <2>1, <2>2, MaxIsLargest
    <2> QED
        BY <2>1, <2>3
<1>2. countdown \in 0..Smp!Max(Gaps) /\ position \in Nat
    <2>1. countdown \in Nat /\ position \in Nat
        BY DEF PointsFollow
    <2>2. CASE countdown = 0
        BY <1>1, <2>1, <2>2, SamplingConstants
    <2>3. CASE countdown # 0
        <3>1. PICK g \in Gaps : countdown <= g
            BY <2>3 DEF PointsFollow
        <3> QED
            BY <1>1, <2>1, <3>1
    <2> QED
        BY <2>2, <2>3
<1>3. Smp!CountdownIsDistance
    <2> SUFFICES ASSUME landings # {}
                 PROVE  countdown > 0 /\ position + countdown = Smp!Max(landings)
        BY DEF Smp!CountdownIsDistance
    <2> DEFINE last == position + countdown
    <2>1. /\ landings \in SUBSET Nat /\ countdown > 0 /\ last \in landings
          /\ last \in Nat /\ position <= last
          /\ \A q \in landings : q <= position \/ q = last
        BY DEF PointsFollow
    <2>2. position \in Nat
        BY DEF PointsFollow
    <2> HIDE DEF last
    <2>3. \A q \in landings : q <= last
        <3> SUFFICES ASSUME NEW q \in landings PROVE q <= last
            OBVIOUS
        <3>1. q \in Nat /\ (q <= position \/ q = last)
            BY <2>1
        <3> QED
            BY <2>1, <2>2, <3>1
    <2>4. Smp!Max(landings) \in landings /\ \A q \in landings : q <= Smp!Max(landings)
        BY <2>1, <2>3, MaxIsLargest
    <2>5. last <= Smp!Max(landings) /\ Smp!Max(landings) <= last /\ Smp!Max(landings) \in Nat
        BY <2>1, <2>3, <2>4
    <2>6. last = Smp!Max(landings)
        BY <2>1, <2>5
    <2> QED
        BY <2>1, <2>6 DEF last
<1>4. Smp!SampledWherePointsLand
    BY DEF SpansAreBehind, Smp!SampledWherePointsLand
<1> QED
    BY <1>2, <1>3, <1>4

LEMMA InitSampler ==
    ASSUME Smp!Init
    PROVE  PointsFollow /\ SpansAreBehind
BY DEF Smp!Init, PointsFollow, SpansAreBehind

LEMMA FollowsKeeps ==
    ASSUME PointsFollow, SpansAreBehind, UNCHANGED <<countdown, position, landings, spans>>
    PROVE  PointsFollow' /\ SpansAreBehind'
BY DEF PointsFollow, SpansAreBehind

LEMMA ClearSlotKeeps ==
    ASSUME Smp!ClearSlot
    PROVE  PointsFollow' /\ SpansAreBehind'
BY DEF Smp!ClearSlot, PointsFollow, SpansAreBehind

-----------------------------------------------------------------------------
(* The classes of the histograms *)

\* The powers of two ascend.
LEMMA PowersAscend ==
    ASSUME Smp!ConstantsAssumption, Smp!PowersDouble
    PROVE  /\ \A b \in 0..Bits : 2^b \in Nat \ {0}
           /\ \A a, b \in 0..Bits : a <= b => 2^a <= 2^b
           /\ Smp!MAX \in Nat /\ Smp!MAX < 2^Bits
<1> DEFINE two(b) == 2^b
<1>1. Bits \in Nat \ {0}
    BY SamplingConstants
<1>2. \A b \in 0..Bits : two(b) \in Nat \ {0}
    <2> SUFFICES ASSUME NEW b \in 0..Bits PROVE two(b) \in Nat \ {0}
        OBVIOUS
    <2>1. CASE b # Bits
        <3>1. b \in 0..(Bits - 1)
            BY <1>1, <2>1
        <3> QED
            BY <3>1 DEF Smp!PowersDouble
    <2>2. CASE b = Bits
        <3>1. Bits - 1 \in 0..(Bits - 1) /\ (Bits - 1) + 1 = Bits
            BY <1>1
        <3>2. two(Bits - 1) \in Nat \ {0} /\ two((Bits - 1) + 1) = 2 * two(Bits - 1)
            BY <3>1 DEF Smp!PowersDouble
        <3> HIDE DEF two
        <3>3. two(Bits) = 2 * two(Bits - 1)
            BY <3>1, <3>2
        <3> QED
            BY <2>2, <3>2, <3>3
    <2> QED
        BY <2>1, <2>2
<1>3. \A b \in 0..(Bits - 1) : two(b + 1) = 2 * two(b)
    BY DEF Smp!PowersDouble
<1>4. ASSUME NEW a \in 0..Bits, NEW d \in 0..Bits, a <= d, ~ (two(a) <= two(d)) PROVE FALSE
    <2> DEFINE T == {n \in Nat : a <= n /\ n <= Bits /\ ~ (two(a) <= two(n))}
    <2> HIDE DEF two
    <2>1. d \in T
        BY <1>1, <1>4
    <2>2. PICK n \in T : \A m \in T : n <= m
        <3>1. T \in SUBSET Nat /\ T # {}
            BY <2>1
        <3> HIDE DEF T
        <3> QED
            BY <3>1, LeastNumber
    <2>3. n \in Nat /\ a \in Nat /\ a < n /\ n <= Bits /\ ~ (two(a) <= two(n))
        <3>1. n \in Nat /\ a \in Nat /\ a <= n /\ n <= Bits /\ ~ (two(a) <= two(n))
            BY <2>2
        <3>2. a \in 0..Bits /\ two(a) \in Nat
            BY <1>2, <1>4
        <3>3. n # a
            BY <3>1, <3>2
        <3> QED
            BY <3>1, <3>3
    <2>4. n - 1 \in 0..(Bits - 1) /\ n - 1 \in 0..Bits /\ (n - 1) + 1 = n
        BY <1>1, <2>3
    <2>5. two(n) = 2 * two(n - 1) /\ two(n - 1) \in Nat /\ two(a) \in Nat
        <3>1. two((n - 1) + 1) = 2 * two(n - 1)
            BY <1>3, <2>4
        <3> QED
            BY <1>2, <2>4, <3>1
    <2>6. ~ (two(a) <= two(n - 1))
        BY <2>3, <2>5
    <2>7. n - 1 \in T
        BY <2>3, <2>4, <2>6
    <2>8. n <= n - 1
        BY <2>2, <2>7
    <2> QED
        BY <2>3, <2>8
<1>5. \A a, b \in 0..Bits : a <= b => two(a) <= two(b)
    BY <1>4
<1>6. Smp!MAX \in Nat /\ Smp!MAX < 2^Bits
    <2>1. two(Bits) \in Nat \ {0} /\ Smp!MAX = two(Bits) - 1
        BY <1>1, <1>2 DEF Smp!MAX
    <2> HIDE DEF two
    <2>2. Smp!MAX \in Nat /\ Smp!MAX < two(Bits)
        BY <2>1
    <2> QED
        BY <2>2 DEF two
<1> QED
    BY <1>2, <1>5, <1>6

\* A size is in one class, whose bounds hold it.
LEMMA ClassHolds ==
    ASSUME Smp!ConstantsAssumption, Smp!PowersDouble, NEW size \in 0..Smp!MAX
    PROVE  /\ Smp!SizeClass(size) \in Smp!SIZE_CLASSES
           /\ \A c \in Smp!SIZE_CLASSES :
                 size \in Smp!SizeClassFloor(c)..Smp!SizeClassCeiling(c) <=> Smp!SizeClass(size) = c
<1> DEFINE two(b) == 2^b
           Above == {b \in 0..Bits : size < two(b)}
<1>1. /\ Bits \in Nat \ {0} /\ size \in Nat /\ size < two(Bits)
      /\ \A b \in 0..Bits : two(b) \in Nat \ {0}
      /\ \A a, b \in 0..Bits : a <= b => two(a) <= two(b)
      /\ Smp!MAX \in Nat /\ size <= Smp!MAX
    <2>1. Smp!MAX \in Nat /\ Smp!MAX < 2^Bits /\ 2^Bits \in Nat /\ Bits \in Nat
        BY PowersAscend, SamplingConstants
    <2>2. size < two(Bits) /\ size \in Nat /\ size <= Smp!MAX
        BY <2>1
    <2> QED
        BY <2>1, <2>2, PowersAscend, SamplingConstants
<1>2. Smp!SizeClass(size) = Bits - Cardinality({b \in 0..(Bits - 1) : size < two(b)})
    BY SameSizes DEF Smp!SizeClass, Smp!LeadingZeros
<1>3. \A c \in Smp!SIZE_CLASSES :
          /\ Smp!SizeClassFloor(c) = IF c = 0 THEN 0 ELSE two(c - 1)
          /\ Smp!SizeClassCeiling(c) = IF c = Bits THEN Smp!MAX ELSE two(c) - 1
    BY DEF Smp!SizeClassFloor, Smp!SizeClassCeiling
<1> HIDE DEF two
<1>4. PICK k \in Above : \A m \in Above : k <= m
    <2>1. Bits \in Above /\ Above \in SUBSET Nat
        BY <1>1
    <2> HIDE DEF Above
    <2> QED
        BY <2>1, LeastNumber
<1>5. k \in Nat /\ k <= Bits /\ size < two(k) /\ \A b \in 0..Bits : b < k => two(b) <= size
    <2>1. k \in Nat /\ k <= Bits /\ size < two(k) /\ k \in 0..Bits
        BY <1>4
    <2>2. ASSUME NEW b \in 0..Bits, b < k PROVE two(b) <= size
        <3>1. b \in Nat /\ two(b) \in Nat
            BY <1>1
        <3>2. b \notin Above
            BY <1>4, <2>1, <2>2, <3>1
        <3>3. ~ (size < two(b))
            BY <3>2
        <3> QED
            BY <1>1, <3>1, <3>3
    <2> QED
        BY <2>1, <2>2
<1>6. {b \in 0..(Bits - 1) : size < two(b)} = k..(Bits - 1)
    <2>1. ASSUME NEW b \in 0..(Bits - 1), size < two(b) PROVE b \in k..(Bits - 1)
        <3>1. b \in 0..Bits /\ two(b) \in Nat
            BY <1>1
        <3>2. ~ (b < k)
            BY <1>1, <1>5, <2>1, <3>1
        <3> QED
            BY <1>1, <1>5, <3>2
    <2>2. ASSUME NEW b \in k..(Bits - 1) PROVE b \in 0..(Bits - 1) /\ size < two(b)
        <3>1. b \in 0..(Bits - 1) /\ b \in 0..Bits /\ k \in 0..Bits /\ k <= b
            BY <1>1, <1>5
        <3>2. two(k) <= two(b) /\ two(k) \in Nat /\ two(b) \in Nat
            BY <1>1, <3>1
        <3> QED
            BY <1>1, <1>5, <3>1, <3>2
    <2> QED
        BY <2>1, <2>2
<1>7. Smp!SizeClass(size) = k
    <2>1. Cardinality(k..(Bits - 1)) = IF k > Bits - 1 THEN 0 ELSE (Bits - 1) - k + 1
        BY <1>1, <1>5, FS_Interval
    <2>2. Smp!SizeClass(size) = Bits - Cardinality(k..(Bits - 1))
        BY <1>2, <1>6
    <2> QED
        BY <1>1, <1>5, <2>1, <2>2
<1>8. ASSUME NEW c \in Smp!SIZE_CLASSES
      PROVE  size \in Smp!SizeClassFloor(c)..Smp!SizeClassCeiling(c) <=> k = c
    <2>1. c \in 0..Bits /\ c \in Nat /\ c <= Bits
        BY <1>1 DEF Smp!SIZE_CLASSES
    <2>2. /\ c # 0 => c - 1 \in 0..Bits /\ two(c - 1) \in Nat
          /\ two(c) \in Nat
        BY <1>1, <2>1
    <2>3. CASE k = c
        <3>1. Smp!SizeClassFloor(c) \in Nat /\ Smp!SizeClassFloor(c) <= size
            <4>1. CASE c = 0
                BY <1>1, <1>3, <4>1
            <4>2. CASE c # 0
                <5>1. c - 1 < k
                    BY <2>1, <2>3
                <5>2. two(c - 1) <= size
                    BY <1>5, <2>2, <4>2, <5>1
                <5> QED
                    BY <1>3, <2>2, <4>2, <5>2
            <4> QED
                BY <4>1, <4>2
        <3>2. Smp!SizeClassCeiling(c) \in Int /\ size <= Smp!SizeClassCeiling(c)
            <4>1. CASE c = Bits
                BY <1>1, <1>3, <4>1
            <4>2. CASE c # Bits
                <5>1. Smp!SizeClassCeiling(c) = two(c) - 1 /\ size < two(c)
                    BY <1>3, <1>5, <2>3, <4>2
                <5> QED
                    BY <1>1, <2>2, <5>1
            <4> QED
                BY <4>1, <4>2
        <3> QED
            BY <1>1, <2>3, <3>1, <3>2
    <2>4. CASE c < k
        <3>1. c # Bits /\ two(c) <= size
            BY <1>1, <1>5, <2>1, <2>4
        <3>2. Smp!SizeClassCeiling(c) = two(c) - 1
            BY <1>3, <3>1
        <3>3. ~ (size <= Smp!SizeClassCeiling(c))
            BY <1>1, <2>2, <3>1, <3>2
        <3>4. k # c /\ Smp!SizeClassCeiling(c) \in Int
            BY <1>5, <2>1, <2>2, <2>4, <3>2
        <3> QED
            BY <3>3, <3>4
    <2>5. CASE k < c
        <3>1. c # 0 /\ k <= c - 1 /\ k \in 0..Bits
            BY <1>5, <2>1, <2>5
        <3>2. two(k) <= two(c - 1) /\ two(k) \in Nat
            BY <1>1, <2>2, <3>1
        <3>3. Smp!SizeClassFloor(c) = two(c - 1)
            BY <1>3, <3>1
        <3>4. ~ (Smp!SizeClassFloor(c) <= size)
            BY <1>1, <1>5, <2>2, <3>1, <3>2, <3>3
        <3>5. k # c
            BY <1>5, <2>1, <2>5
        <3> QED
            BY <3>4, <3>5
    <2> QED
        BY <1>5, <2>1, <2>3, <2>4, <2>5
<1> QED
    BY <1>5, <1>7, <1>8 DEF Smp!SIZE_CLASSES

-----------------------------------------------------------------------------
(* The histograms *)

\* What a request says of itself, and the counters.
Asked == [size : 0..Smp!MAX, zeroed : BOOLEAN, old : 0..Smp!MAX, is : {"alloc", "moved", "in place"}]

ShapesType == [observed : Nat, sizes : [Smp!SIZE_CLASSES -> Nat],
               zeroed_blocks : Nat, zeroed_bytes : Nat,
               reallocs : Nat, moved : Nat, copied : Nat, grown : Nat, shrunk : Nat]

InClass(c) == {i \in DOMAIN asks : Smp!SizeClass(asks[i].size) = c}

\* The counters say of the requests what an observer who kept them all would.
Counts ==
    /\ asks \in Seq(Asked)
    /\ shapes \in ShapesType
    /\ shapes.observed = Len(asks)
    /\ \A c \in Smp!SIZE_CLASSES : shapes.sizes[c] = Cardinality(InClass(c))
    /\ shapes.grown - shapes.shrunk = SumFunction(Smp!Growth)
    /\ shapes.copied <= SumFunction(Smp!OldSizes)

LEMMA SumOfOneMore ==
    ASSUME NEW S, IsFiniteSet(S), NEW x, x \notin S, NEW f \in [S -> Int],
           NEW h \in [S \cup {x} -> Int], \A y \in S : h[y] = f[y]
    PROVE  /\ SumFunction(f) \in Int /\ SumFunction(h) \in Int
           /\ SumFunction(h) = SumFunction(f) + h[x]
<1>1. IsFiniteSet(S \cup {x}) /\ (S \cup {x}) \ {x} = S
    BY FS_AddElement
<1>2. SumFunctionOnSet(h, S) = SumFunctionOnSet(f, S)
    BY SumSame
<1>3. /\ SumFunctionOnSet(h, S \cup {x}) \in Int
      /\ SumFunctionOnSet(h, S) \in Int
      /\ SumFunctionOnSet(h, S \cup {x}) = h[x] + SumFunctionOnSet(h, S)
    <2>1. \A y \in S \cup {x} : h[y] \in Int
        OBVIOUS
    <2> QED
        BY <1>1, <2>1, SumTakes
<1>4. DOMAIN f = S /\ DOMAIN h = S \cup {x} /\ h[x] \in Int
    OBVIOUS
<1>5. SumFunction(f) = SumFunctionOnSet(f, S) /\ SumFunction(h) = SumFunctionOnSet(h, S \cup {x})
    BY <1>4 DEF SumFunction
<1> QED
    BY <1>2, <1>3, <1>4, <1>5

\* A reallocation adds its growth and its old size to the sums of both.
LEMMA SumsFollow ==
    ASSUME NEW n, IsFiniteSet(Smp!Reallocs), n \notin Smp!Reallocs,
           Smp!Growth \in [Smp!Reallocs -> Int], Smp!Growth' \in [Smp!Reallocs \cup {n} -> Int],
           Smp!OldSizes \in [Smp!Reallocs -> Int], Smp!OldSizes' \in [Smp!Reallocs \cup {n} -> Int],
           \A i \in Smp!Reallocs : Smp!Growth'[i] = Smp!Growth[i] /\ Smp!OldSizes'[i] = Smp!OldSizes[i]
    PROVE  /\ SumFunction(Smp!Growth') = SumFunction(Smp!Growth) + Smp!Growth'[n]
           /\ SumFunction(Smp!OldSizes') = SumFunction(Smp!OldSizes) + Smp!OldSizes'[n]
<1>1. SumFunction(Smp!Growth') = SumFunction(Smp!Growth) + Smp!Growth'[n]
    BY SumOfOneMore
<1>2. SumFunction(Smp!OldSizes') = SumFunction(Smp!OldSizes) + Smp!OldSizes'[n]
    BY SumOfOneMore
<1> QED
    BY <1>1, <1>2

\* One more request adds one to its class and what it did to the sums.
LEMMA OneMoreRequest ==
    ASSUME Smp!ConstantsAssumption, Smp!PowersDouble, asks \in Seq(Asked), NEW r \in Asked,
           asks' = Append(asks, r)
    PROVE  /\ asks' \in Seq(Asked) /\ Len(asks') = Len(asks) + 1
           /\ Smp!SizeClass(r.size) \in Smp!SIZE_CLASSES
           /\ \A c \in Smp!SIZE_CLASSES :
                 /\ Cardinality(InClass(c)) \in Nat
                 /\ Cardinality(InClass(c)') = IF c = Smp!SizeClass(r.size)
                        THEN Cardinality(InClass(c)) + 1 ELSE Cardinality(InClass(c))
           /\ SumFunction(Smp!Growth) \in Int /\ SumFunction(Smp!OldSizes) \in Int
           /\ SumFunction(Smp!Growth') = IF r.is = "alloc" THEN SumFunction(Smp!Growth)
                                     ELSE SumFunction(Smp!Growth) + (r.size - r.old)
           /\ SumFunction(Smp!OldSizes') = IF r.is = "alloc" THEN SumFunction(Smp!OldSizes)
                                       ELSE SumFunction(Smp!OldSizes) + r.old
<1> DEFINE n == Len(asks)
<1>1. /\ n \in Nat /\ DOMAIN asks = 1..n /\ n + 1 \notin 1..n
      /\ asks' \in Seq(Asked) /\ Len(asks') = n + 1
      /\ DOMAIN asks' = (1..n) \cup {n + 1}
      /\ \A i \in 1..n : asks'[i] = asks[i] /\ asks[i] \in Asked
      /\ asks'[n + 1] = r /\ IsFiniteSet(1..n)
    <2>1. n \in Nat /\ DOMAIN asks = 1..n /\ n + 1 \notin 1..n
        OBVIOUS
    <2>2. /\ asks' \in Seq(Asked) /\ Len(asks') = n + 1
          /\ \A i \in 1..n : asks'[i] = asks[i] /\ asks[i] \in Asked
          /\ asks'[n + 1] = r
        OBVIOUS
    <2>3. DOMAIN asks' = 1..(n + 1) /\ 1..(n + 1) = (1..n) \cup {n + 1}
        BY <2>1, <2>2
    <2>4. IsFiniteSet(1..n)
        BY <2>1, FS_Interval
    <2> HIDE DEF n
    <2>5. DOMAIN asks' = (1..n) \cup {n + 1}
        BY <2>3, Zenon
    <2> QED
        BY <2>1, <2>2, <2>4, <2>5
<1> HIDE DEF n
<1>2. Smp!SizeClass(r.size) \in Smp!SIZE_CLASSES
    <2>1. r.size \in 0..Smp!MAX
        BY DEF Asked
    <2> QED
        BY <2>1, ClassHolds
<1>3. ASSUME NEW c \in Smp!SIZE_CLASSES
      PROVE  /\ Cardinality(InClass(c)) \in Nat
             /\ Cardinality(InClass(c)') = IF c = Smp!SizeClass(r.size)
                    THEN Cardinality(InClass(c)) + 1 ELSE Cardinality(InClass(c))
    <2>1. InClass(c) \subseteq 1..n /\ IsFiniteSet(InClass(c))
        BY <1>1, FS_Subset DEF InClass
    <2>2. InClass(c)' = IF c = Smp!SizeClass(r.size) THEN InClass(c) \cup {n + 1} ELSE InClass(c)
        BY <1>1 DEF InClass
    <2>3. n + 1 \notin InClass(c)
        BY <1>1, <2>1
    <2>4. Cardinality(InClass(c)) \in Nat
        BY <2>1, FS_CardinalityType
    <2>5. Cardinality(InClass(c) \cup {n + 1}) = Cardinality(InClass(c)) + 1
        BY <2>1, <2>3, FS_AddElement
    <2> QED
        BY <2>2, <2>4, <2>5
<1>4. /\ Smp!Reallocs \subseteq 1..n /\ IsFiniteSet(Smp!Reallocs) /\ n + 1 \notin Smp!Reallocs
      /\ Smp!Reallocs' = IF r.is = "alloc" THEN Smp!Reallocs ELSE Smp!Reallocs \cup {n + 1}
    <2>1. Smp!Reallocs \subseteq 1..n
        BY <1>1 DEF Smp!Reallocs
    <2>2. IsFiniteSet(Smp!Reallocs)
        BY <1>1, <2>1, FS_Subset
    <2>3. Smp!Reallocs' = IF r.is = "alloc" THEN Smp!Reallocs ELSE Smp!Reallocs \cup {n + 1}
        BY <1>1 DEF Smp!Reallocs
    <2> QED
        BY <1>1, <2>1, <2>2, <2>3
<1>5. /\ \A i \in (1..n) \cup {n + 1} : asks'[i].size \in Int /\ asks'[i].old \in Int
      /\ \A i \in 1..n : /\ asks[i].size \in Int /\ asks[i].old \in Int
                         /\ asks'[i] = asks[i]
    <2>1. Smp!MAX \in Nat
        BY PowersAscend
    <2>2. \A q \in Asked : q.size \in 0..Smp!MAX /\ q.old \in 0..Smp!MAX
        BY DEF Asked
    <2>3. \A q \in Asked : q.size \in Int /\ q.old \in Int
        BY <2>1, <2>2
    <2> QED
        BY <1>1, <2>3
<1>6. /\ Smp!Growth \in [Smp!Reallocs -> Int] /\ Smp!OldSizes \in [Smp!Reallocs -> Int]
      /\ Smp!Growth' \in [Smp!Reallocs' -> Int] /\ Smp!OldSizes' \in [Smp!Reallocs' -> Int]
      /\ \A i \in Smp!Reallocs : Smp!Growth'[i] = Smp!Growth[i] /\ Smp!OldSizes'[i] = Smp!OldSizes[i]
      /\ r.is # "alloc" => Smp!Growth'[n + 1] = r.size - r.old /\ Smp!OldSizes'[n + 1] = r.old
    <2>1. Smp!Growth \in [Smp!Reallocs -> Int] /\ Smp!OldSizes \in [Smp!Reallocs -> Int]
        BY <1>4, <1>5 DEF Smp!Growth, Smp!OldSizes
    <2>2. Smp!Reallocs' \subseteq (1..n) \cup {n + 1}
        BY <1>4
    <2>3. /\ Smp!Growth' = [i \in Smp!Reallocs' |-> asks'[i].size - asks'[i].old]
          /\ Smp!OldSizes' = [i \in Smp!Reallocs' |-> asks'[i].old]
        BY DEF Smp!Growth, Smp!OldSizes
    <2>4. Smp!Growth' \in [Smp!Reallocs' -> Int] /\ Smp!OldSizes' \in [Smp!Reallocs' -> Int]
        <3>1. ASSUME NEW i \in Smp!Reallocs' PROVE asks'[i].size - asks'[i].old \in Int
            <4> DEFINE new == asks'[i].size  old == asks'[i].old
            <4>1. new \in Int /\ old \in Int
                BY <1>5, <2>2
            <4> HIDE DEF new, old
            <4>2. new - old \in Int
                BY <4>1
            <4> QED
                BY <4>2 DEF new, old
        <3>2. \A i \in Smp!Reallocs' : asks'[i].old \in Int
            BY <1>5, <2>2
        <3> QED
            BY <2>3, <3>1, <3>2
    <2>5. \A i \in Smp!Reallocs : Smp!Growth'[i] = Smp!Growth[i] /\ Smp!OldSizes'[i] = Smp!OldSizes[i]
        <3> SUFFICES ASSUME NEW i \in Smp!Reallocs
                     PROVE  Smp!Growth'[i] = Smp!Growth[i] /\ Smp!OldSizes'[i] = Smp!OldSizes[i]
            OBVIOUS
        <3>1. i \in Smp!Reallocs' /\ asks'[i] = asks[i]
            BY <1>1, <1>4
        <3>2. Smp!Growth[i] = asks[i].size - asks[i].old /\ Smp!OldSizes[i] = asks[i].old
            BY DEF Smp!Growth, Smp!OldSizes
        <3> QED
            BY <2>3, <3>1, <3>2
    <2>6. r.is # "alloc" => Smp!Growth'[n + 1] = r.size - r.old /\ Smp!OldSizes'[n + 1] = r.old
        BY <1>1, <1>4, <2>3
    <2> QED
        BY <2>1, <2>4, <2>5, <2>6
<1>7. /\ SumFunction(Smp!Growth) \in Int /\ SumFunction(Smp!OldSizes) \in Int
      /\ SumFunction(Smp!Growth') = IF r.is = "alloc" THEN SumFunction(Smp!Growth)
                                ELSE SumFunction(Smp!Growth) + (r.size - r.old)
      /\ SumFunction(Smp!OldSizes') = IF r.is = "alloc" THEN SumFunction(Smp!OldSizes)
                                  ELSE SumFunction(Smp!OldSizes) + r.old
    <2>1. SumFunction(Smp!Growth) \in Int /\ SumFunction(Smp!OldSizes) \in Int
        BY <1>4, <1>6, SumIsInt
    <2>2. CASE r.is = "alloc"
        <3>1. Smp!Reallocs' = Smp!Reallocs
            BY <1>4, <2>2
        <3>2. /\ DOMAIN Smp!Growth = Smp!Reallocs /\ DOMAIN Smp!Growth' = Smp!Reallocs
              /\ DOMAIN Smp!OldSizes = Smp!Reallocs /\ DOMAIN Smp!OldSizes' = Smp!Reallocs
            BY <1>6, <3>1
        <3>3. /\ SumFunctionOnSet(Smp!Growth', Smp!Reallocs)
                    = SumFunctionOnSet(Smp!Growth, Smp!Reallocs)
              /\ SumFunctionOnSet(Smp!OldSizes', Smp!Reallocs)
                    = SumFunctionOnSet(Smp!OldSizes, Smp!Reallocs)
            BY <1>4, <1>6, SumSame
        <3>4. /\ SumFunction(Smp!Growth') = SumFunctionOnSet(Smp!Growth', Smp!Reallocs)
              /\ SumFunction(Smp!OldSizes') = SumFunctionOnSet(Smp!OldSizes', Smp!Reallocs)
              /\ SumFunction(Smp!Growth) = SumFunctionOnSet(Smp!Growth, Smp!Reallocs)
              /\ SumFunction(Smp!OldSizes) = SumFunctionOnSet(Smp!OldSizes, Smp!Reallocs)
            BY <3>2 DEF SumFunction
        <3> QED
            BY <2>1, <2>2, <3>3, <3>4
    <2>3. CASE r.is # "alloc"
        <3>1. Smp!Reallocs' = Smp!Reallocs \cup {n + 1}
            BY <1>4, <2>3
        <3>2. /\ Smp!Growth' \in [Smp!Reallocs \cup {n + 1} -> Int]
              /\ Smp!OldSizes' \in [Smp!Reallocs \cup {n + 1} -> Int]
            BY <1>6, <3>1
        <3>3. /\ SumFunction(Smp!Growth') = SumFunction(Smp!Growth) + Smp!Growth'[n + 1]
              /\ SumFunction(Smp!OldSizes') = SumFunction(Smp!OldSizes) + Smp!OldSizes'[n + 1]
            BY <1>4, <1>6, <3>2, SumsFollow
        <3> QED
            BY <1>6, <2>1, <2>3, <3>3
    <2> QED
        BY <2>1, <2>2, <2>3
<1> QED
    BY <1>1, <1>2, <1>3, <1>7 DEF n

\* What Shapes::record changes, and what it leaves alone.
LEMMA RecordedAdds ==
    ASSUME NEW s \in ShapesType, NEW size \in Nat, Smp!SizeClass(size) \in Smp!SIZE_CLASSES,
           NEW zeroed \in BOOLEAN
    PROVE  /\ Smp!Recorded(s, size, zeroed) \in ShapesType
           /\ Smp!Recorded(s, size, zeroed).observed = s.observed + 1
           /\ \A c \in Smp!SIZE_CLASSES : Smp!Recorded(s, size, zeroed).sizes[c] =
                 IF c = Smp!SizeClass(size) THEN s.sizes[c] + 1 ELSE s.sizes[c]
           /\ Smp!Recorded(s, size, zeroed).copied = s.copied
           /\ Smp!Recorded(s, size, zeroed).grown = s.grown
           /\ Smp!Recorded(s, size, zeroed).shrunk = s.shrunk
<1> DEFINE k == Smp!SizeClass(size)
           classes == [s.sizes EXCEPT ![k] = @ + 1]
           blocks == IF zeroed THEN s.zeroed_blocks + 1 ELSE s.zeroed_blocks
           bytes == IF zeroed THEN s.zeroed_bytes + size ELSE s.zeroed_bytes
           new == Smp!Recorded(s, size, zeroed)
<1>1. /\ s.observed \in Nat /\ s.sizes \in [Smp!SIZE_CLASSES -> Nat] /\ s.zeroed_blocks \in Nat
      /\ s.zeroed_bytes \in Nat /\ s.reallocs \in Nat /\ s.moved \in Nat /\ s.copied \in Nat
      /\ s.grown \in Nat /\ s.shrunk \in Nat
    BY DEF ShapesType
<1>2. /\ classes \in [Smp!SIZE_CLASSES -> Nat] /\ blocks \in Nat /\ bytes \in Nat
      /\ \A c \in Smp!SIZE_CLASSES : classes[c] = IF c = k THEN s.sizes[c] + 1 ELSE s.sizes[c]
    BY <1>1
<1>3. new = [s EXCEPT !.observed = s.observed + 1, !.sizes = classes,
                      !.zeroed_blocks = blocks, !.zeroed_bytes = bytes]
    BY DEF Smp!Recorded, ShapesType
<1> HIDE DEF classes, blocks, bytes, new, k
<1>4. new = [observed |-> s.observed + 1, sizes |-> classes, zeroed_blocks |-> blocks,
             zeroed_bytes |-> bytes, reallocs |-> s.reallocs, moved |-> s.moved,
             copied |-> s.copied, grown |-> s.grown, shrunk |-> s.shrunk]
    BY <1>3 DEF ShapesType
<1>5. new \in ShapesType
    BY <1>1, <1>2, <1>4 DEF ShapesType
<1>6. /\ new.observed = s.observed + 1 /\ new.sizes = classes
      /\ new.copied = s.copied /\ new.grown = s.grown /\ new.shrunk = s.shrunk
    BY <1>4
<1> QED
    BY <1>2, <1>5, <1>6 DEF new, k

LEMMA CopiedIsLess ==
    ASSUME NEW old \in Nat, NEW new \in Nat, NEW moved \in BOOLEAN
    PROVE  Smp!BytesCopied(old, new, moved) \in Nat /\ Smp!BytesCopied(old, new, moved) <= old
<1>1. CASE ~ moved
    BY <1>1 DEF Smp!BytesCopied
<1>2. CASE moved
    <2>1. \E x \in {old, new} : \A y \in {old, new} : x <= y
        OBVIOUS
    <2>2. Smp!Min({old, new}) = CHOOSE x \in {old, new} : \A y \in {old, new} : x <= y
        BY DEF Smp!Min
    <2> DEFINE least == Smp!Min({old, new})
    <2>3. least \in {old, new} /\ \A y \in {old, new} : least <= y
        BY <2>1, <2>2, Zenon
    <2>4. Smp!BytesCopied(old, new, moved) = least
        BY <1>2 DEF Smp!BytesCopied
    <2> HIDE DEF least
    <2> QED
        BY <2>3, <2>4
<1> QED
    BY <1>1, <1>2

LEMMA RecordedReallocAdds ==
    ASSUME NEW s \in ShapesType, NEW old \in Nat, NEW size \in Nat, NEW moved \in BOOLEAN
    PROVE  LET new == Smp!RecordedRealloc(s, old, size, moved) IN
           /\ new \in ShapesType
           /\ new.observed = s.observed /\ new.sizes = s.sizes
           /\ new.copied <= s.copied + old
           /\ new.grown - new.shrunk = (s.grown - s.shrunk) + (size - old)
<1> DEFINE new == Smp!RecordedRealloc(s, old, size, moved)
           times == IF moved THEN s.moved + 1 ELSE s.moved
           bytes == Smp!BytesCopied(old, size, moved)
           more == IF size > old THEN s.grown + size - old ELSE s.grown
           less == IF size > old THEN s.shrunk ELSE s.shrunk + old - size
<1>1. /\ s.observed \in Nat /\ s.sizes \in [Smp!SIZE_CLASSES -> Nat] /\ s.zeroed_blocks \in Nat
      /\ s.zeroed_bytes \in Nat /\ s.reallocs \in Nat /\ s.moved \in Nat /\ s.copied \in Nat
      /\ s.grown \in Nat /\ s.shrunk \in Nat
    BY DEF ShapesType
<1>2. bytes \in Nat /\ bytes <= old
    BY CopiedIsLess
<1>3. times \in Nat
    BY <1>1
<1>4. more \in Nat /\ less \in Nat /\ more - less = (s.grown - s.shrunk) + (size - old)
    BY <1>1
<1>5. new = [s EXCEPT !.reallocs = s.reallocs + 1, !.moved = times, !.copied = s.copied + bytes,
                      !.grown = more, !.shrunk = less]
    BY DEF Smp!RecordedRealloc, ShapesType
<1> HIDE DEF times, bytes, more, less, new
<1>6. new = [observed |-> s.observed, sizes |-> s.sizes, zeroed_blocks |-> s.zeroed_blocks,
             zeroed_bytes |-> s.zeroed_bytes, reallocs |-> s.reallocs + 1, moved |-> times,
             copied |-> s.copied + bytes, grown |-> more, shrunk |-> less]
    BY <1>5 DEF ShapesType
<1>7. new \in ShapesType
    <2>1. s.reallocs + 1 \in Nat /\ s.copied + bytes \in Nat
        BY <1>1, <1>2
    <2> QED
        BY <1>1, <1>3, <1>4, <1>6, <2>1 DEF ShapesType
<1>8. /\ new.observed = s.observed /\ new.sizes = s.sizes /\ new.copied = s.copied + bytes
      /\ new.grown = more /\ new.shrunk = less
    BY <1>6
<1>9. new.copied <= s.copied + old
    BY <1>1, <1>2, <1>8
<1> QED
    BY <1>4, <1>7, <1>8, <1>9 DEF new

LEMMA NothingCounted ==
    ASSUME Smp!ConstantsAssumption, shapes = Smp!NoShapes, asks = <<>>
    PROVE  Counts
<1>1. /\ asks \in Seq(Asked) /\ Len(asks) = 0 /\ DOMAIN asks = {}
    <2>1. asks \in Seq(Asked) /\ Len(asks) = 0
        OBVIOUS
    <2>2. DOMAIN asks = 1..0 /\ 1..0 = {}
        BY <2>1
    <2> QED
        BY <2>1, <2>2
<1>2. shapes \in ShapesType /\ shapes.observed = 0 /\ \A c \in Smp!SIZE_CLASSES : shapes.sizes[c] = 0
    BY DEF Smp!NoShapes, ShapesType
<1>3. shapes.copied = 0 /\ shapes.grown = 0 /\ shapes.shrunk = 0
    BY DEF Smp!NoShapes
<1>4. \A c \in Smp!SIZE_CLASSES : Cardinality(InClass(c)) = 0
    <2>1. \A c \in Smp!SIZE_CLASSES : InClass(c) = {}
        BY <1>1 DEF InClass
    <2> QED
        BY <2>1, FS_EmptySet
<1>5. SumFunction(Smp!Growth) = 0 /\ SumFunction(Smp!OldSizes) = 0
    <2>1. Smp!Reallocs = {}
        BY <1>1 DEF Smp!Reallocs
    <2>2. DOMAIN Smp!Growth = {} /\ DOMAIN Smp!OldSizes = {}
        BY <2>1 DEF Smp!Growth, Smp!OldSizes
    <2> QED
        BY <2>2, SumEmpty DEF SumFunction
<1> QED
    BY <1>1, <1>2, <1>3, <1>4, <1>5 DEF Counts

LEMMA ClearedCounts ==
    ASSUME Smp!ConstantsAssumption, shapes' = Smp!NoShapes, asks' = <<>>
    PROVE  Counts'
<1>1. /\ asks' \in Seq(Asked) /\ Len(asks') = 0 /\ DOMAIN asks' = {}
    <2>1. asks' \in Seq(Asked) /\ Len(asks') = 0
        OBVIOUS
    <2>2. DOMAIN asks' = 1..0 /\ 1..0 = {}
        BY <2>1
    <2> QED
        BY <2>1, <2>2
<1>2. /\ shapes' \in ShapesType /\ shapes'.observed = 0
      /\ \A c \in Smp!SIZE_CLASSES : shapes'.sizes[c] = 0
    BY DEF Smp!NoShapes, ShapesType
<1>3. shapes'.copied = 0 /\ shapes'.grown = 0 /\ shapes'.shrunk = 0
    BY DEF Smp!NoShapes
<1>4. \A c \in Smp!SIZE_CLASSES : Cardinality(InClass(c)') = 0
    <2>1. \A c \in Smp!SIZE_CLASSES : InClass(c)' = {}
        BY <1>1 DEF InClass
    <2> QED
        BY <2>1, FS_EmptySet
<1>5. SumFunction(Smp!Growth') = 0 /\ SumFunction(Smp!OldSizes') = 0
    <2>1. Smp!Reallocs' = {}
        BY <1>1 DEF Smp!Reallocs
    <2>2. DOMAIN Smp!Growth' = {} /\ DOMAIN Smp!OldSizes' = {}
        BY <2>1 DEF Smp!Growth, Smp!OldSizes
    <2> QED
        BY <2>2, SumEmpty DEF SumFunction
<1> QED
    BY <1>1, <1>2, <1>3, <1>4, <1>5 DEF Counts

LEMMA RequestsAreAsked ==
    ASSUME Smp!ConstantsAssumption, Smp!PowersDouble
    PROVE  Smp!MAX \in Nat /\ Requested \subseteq 0..Smp!MAX /\ Requested \subseteq Nat
<1>1. Smp!MAX \in Nat
    BY PowersAscend
<1>2. Requested \subseteq 0..Smp!MAX
    BY DEF Smp!ConstantsAssumption, Smp!MAX
<1> QED
    BY <1>1, <1>2

LEMMA ObserveCounts ==
    ASSUME Smp!ConstantsAssumption, Smp!PowersDouble, Counts,
           NEW size \in Requested, NEW zeroed \in BOOLEAN, NEW first \in Gaps,
           Smp!Observe(size, zeroed, first)
    PROVE  Counts'
<1> DEFINE r == [size |-> size, zeroed |-> zeroed, old |-> 0, is |-> "alloc"]
<1>1. size \in Nat /\ r \in Asked /\ r.is = "alloc" /\ r.size = size
    <2>1. size \in 0..Smp!MAX /\ 0 \in 0..Smp!MAX /\ size \in Nat
        BY RequestsAreAsked
    <2> QED
        BY <2>1 DEF Asked
<1>2. asks' = Append(asks, r) /\ shapes' = Smp!Recorded(shapes, size, zeroed)
    BY DEF Smp!Observe, Smp!Request
<1> HIDE DEF r
<1>3. /\ asks \in Seq(Asked) /\ shapes \in ShapesType /\ shapes.observed = Len(asks)
      /\ \A c \in Smp!SIZE_CLASSES : shapes.sizes[c] = Cardinality(InClass(c))
      /\ shapes.grown - shapes.shrunk = SumFunction(Smp!Growth)
      /\ shapes.copied <= SumFunction(Smp!OldSizes)
    BY DEF Counts
<1>4. /\ asks' \in Seq(Asked) /\ Len(asks') = Len(asks) + 1
      /\ Smp!SizeClass(size) \in Smp!SIZE_CLASSES
      /\ \A c \in Smp!SIZE_CLASSES : Cardinality(InClass(c)') = IF c = Smp!SizeClass(size)
                 THEN Cardinality(InClass(c)) + 1 ELSE Cardinality(InClass(c))
      /\ SumFunction(Smp!Growth') = SumFunction(Smp!Growth)
      /\ SumFunction(Smp!OldSizes') = SumFunction(Smp!OldSizes)
    BY <1>1, <1>2, <1>3, OneMoreRequest
<1>5. /\ shapes' \in ShapesType /\ shapes'.observed = shapes.observed + 1
      /\ \A c \in Smp!SIZE_CLASSES :
            shapes'.sizes[c] = IF c = Smp!SizeClass(size) THEN shapes.sizes[c] + 1 ELSE shapes.sizes[c]
      /\ shapes'.copied = shapes.copied /\ shapes'.grown = shapes.grown
      /\ shapes'.shrunk = shapes.shrunk
    BY <1>1, <1>2, <1>3, <1>4, RecordedAdds
<1>6. \A c \in Smp!SIZE_CLASSES : shapes'.sizes[c] = Cardinality(InClass(c)')
    BY <1>3, <1>4, <1>5
<1> QED
    BY <1>3, <1>4, <1>5, <1>6 DEF Counts

LEMMA ObserveReallocCounts ==
    ASSUME Smp!ConstantsAssumption, Smp!PowersDouble, Counts,
           NEW old \in Requested, NEW size \in Requested, NEW moved \in BOOLEAN, NEW tracked \in BOOLEAN,
           NEW first \in Gaps, Smp!ObserveRealloc(old, size, moved, tracked, first)
    PROVE  Counts'
<1> DEFINE r == [size |-> size, zeroed |-> FALSE, old |-> old,
                 is |-> IF moved THEN "moved" ELSE "in place"]
           mid == Smp!RecordedRealloc(shapes, old, size, moved)
<1>1. /\ size \in Nat /\ old \in Nat /\ r \in Asked
      /\ r.is # "alloc" /\ r.size = size /\ r.old = old
    <2>1. size \in 0..Smp!MAX /\ old \in 0..Smp!MAX /\ size \in Nat /\ old \in Nat
        BY RequestsAreAsked
    <2> QED
        BY <2>1 DEF Asked
<1>2. asks' = Append(asks, r) /\ shapes' = Smp!Recorded(mid, size, FALSE)
    BY DEF Smp!ObserveRealloc, Smp!Request
<1>3. /\ asks \in Seq(Asked) /\ shapes \in ShapesType /\ shapes.observed = Len(asks)
      /\ \A c \in Smp!SIZE_CLASSES : shapes.sizes[c] = Cardinality(InClass(c))
      /\ shapes.grown - shapes.shrunk = SumFunction(Smp!Growth)
      /\ shapes.copied <= SumFunction(Smp!OldSizes)
    BY DEF Counts
<1>4. /\ mid \in ShapesType /\ mid.observed = shapes.observed /\ mid.sizes = shapes.sizes
      /\ mid.copied <= shapes.copied + old
      /\ mid.grown - mid.shrunk = (shapes.grown - shapes.shrunk) + (size - old)
    BY <1>1, <1>3, RecordedReallocAdds
<1> HIDE DEF r, mid
<1>5. /\ asks' \in Seq(Asked) /\ Len(asks') = Len(asks) + 1
      /\ Smp!SizeClass(size) \in Smp!SIZE_CLASSES
      /\ \A c \in Smp!SIZE_CLASSES : Cardinality(InClass(c)') = IF c = Smp!SizeClass(size)
                 THEN Cardinality(InClass(c)) + 1 ELSE Cardinality(InClass(c))
      /\ SumFunction(Smp!Growth) \in Int /\ SumFunction(Smp!OldSizes) \in Int
      /\ SumFunction(Smp!Growth') = SumFunction(Smp!Growth) + (size - old)
      /\ SumFunction(Smp!OldSizes') = SumFunction(Smp!OldSizes) + old
    BY <1>1, <1>2, <1>3, OneMoreRequest
<1>6. /\ shapes' \in ShapesType /\ shapes'.observed = mid.observed + 1
      /\ \A c \in Smp!SIZE_CLASSES :
            shapes'.sizes[c] = IF c = Smp!SizeClass(size) THEN mid.sizes[c] + 1 ELSE mid.sizes[c]
      /\ shapes'.copied = mid.copied /\ shapes'.grown = mid.grown /\ shapes'.shrunk = mid.shrunk
    BY <1>1, <1>2, <1>4, <1>5, RecordedAdds
<1>7. \A c \in Smp!SIZE_CLASSES : shapes'.sizes[c] = Cardinality(InClass(c)')
    BY <1>3, <1>4, <1>5, <1>6
<1>8. shapes'.copied <= SumFunction(Smp!OldSizes')
    <2>1. shapes.copied \in Nat /\ mid.copied \in Nat
        BY <1>3, <1>4 DEF ShapesType
    <2> QED
        BY <1>1, <1>3, <1>4, <1>5, <1>6, <2>1
<1>9. shapes'.grown - shapes'.shrunk = SumFunction(Smp!Growth')
    BY <1>3, <1>4, <1>5, <1>6
<1>10. shapes'.observed = Len(asks')
    BY <1>3, <1>4, <1>5, <1>6
<1> QED
    BY <1>5, <1>6, <1>7, <1>8, <1>9, <1>10 DEF Counts

LEMMA UnchangedCounts ==
    ASSUME Counts, UNCHANGED <<shapes, asks>>
    PROVE  Counts'
<1>1. /\ \A c \in Smp!SIZE_CLASSES : InClass(c)' = InClass(c)
      /\ Smp!Growth' = Smp!Growth /\ Smp!OldSizes' = Smp!OldSizes
    BY DEF InClass, Smp!Growth, Smp!OldSizes, Smp!Reallocs
<1> QED
    BY <1>1 DEF Counts

\* The commonest class has as many requests as any other.
LEMMA CommonestIsMost ==
    ASSUME Smp!ConstantsAssumption, Smp!PowersDouble, Counts, asks # <<>>
    PROVE  /\ Smp!CommonestSize \in Smp!SIZE_CLASSES
           /\ \A c \in Smp!SIZE_CLASSES : shapes.sizes[c] <= shapes.sizes[Smp!CommonestSize]
<1> DEFINE n == Len(asks)
           sizes == shapes.sizes
<1>1. /\ n \in Nat /\ n # 0 /\ DOMAIN asks = 1..n /\ IsFiniteSet(1..n)
      /\ Cardinality(1..n) = n /\ \A i \in 1..n : asks[i].size \in 0..Smp!MAX
    <2>1. asks \in Seq(Asked)
        BY DEF Counts
    <2>2. n \in Nat /\ n # 0 /\ DOMAIN asks = 1..n /\ \A i \in 1..n : asks[i] \in Asked
        BY <2>1
    <2>3. \A q \in Asked : q.size \in 0..Smp!MAX
        BY DEF Asked
    <2> HIDE DEF n
    <2>4. IsFiniteSet(1..n) /\ Cardinality(1..n) = n
        BY <2>2, FS_Interval
    <2> QED
        BY <2>2, <2>3, <2>4
<1>2. \A c \in Smp!SIZE_CLASSES : sizes[c] \in Nat /\ sizes[c] <= n
    <2> SUFFICES ASSUME NEW c \in Smp!SIZE_CLASSES PROVE sizes[c] \in Nat /\ sizes[c] <= n
        OBVIOUS
    <2>1. sizes[c] = Cardinality(InClass(c))
        BY DEF Counts
    <2>2. InClass(c) \subseteq 1..n
        BY <1>1 DEF InClass
    <2>3. Cardinality(InClass(c)) \in Nat /\ Cardinality(InClass(c)) <= Cardinality(1..n)
        BY <1>1, <2>2, FS_Subset, FS_CardinalityType
    <2> QED
        BY <1>1, <2>1, <2>3
<1>3. PICK b \in Smp!SIZE_CLASSES : sizes[b] # 0
    <2> DEFINE b == Smp!SizeClass(asks[1].size)
    <2>1. 1 \in 1..n
        BY <1>1
    <2>2. b \in Smp!SIZE_CLASSES
        BY <1>1, <2>1, ClassHolds
    <2>3. 1 \in InClass(b)
        BY <1>1, <2>1 DEF InClass
    <2> HIDE DEF b
    <2>4. IsFiniteSet(InClass(b))
        <3>1. InClass(b) \subseteq 1..n
            BY <1>1 DEF InClass
        <3> QED
            BY <1>1, <3>1, FS_Subset
    <2>5. Cardinality(InClass(b)) # 0
        BY <2>3, <2>4, FS_EmptySet
    <2>6. sizes[b] = Cardinality(InClass(b))
        BY <2>2 DEF Counts
    <2> QED
        BY <2>2, <2>5, <2>6
<1>4. Smp!Used = {c \in Smp!SIZE_CLASSES : sizes[c] # 0} /\ Smp!SIZE_CLASSES \subseteq Nat
    BY SamplingConstants DEF Smp!Used, Smp!SIZE_CLASSES
<1> HIDE DEF n, sizes
<1>5. PICK most \in Smp!Used : \A c \in Smp!Used : sizes[c] <= sizes[most]
    <2> DEFINE T == {n - sizes[c] : c \in Smp!Used}
    <2>1. T \in SUBSET Nat /\ T # {}
        <3>1. \A c \in Smp!Used : n - sizes[c] \in Nat
            BY <1>1, <1>2, <1>4
        <3>2. b \in Smp!Used
            BY <1>3, <1>4
        <3> QED
            BY <3>1, <3>2
    <2>2. PICK m \in T : \A k \in T : m <= k
        <3> HIDE DEF T
        <3> QED
            BY <2>1, LeastNumber
    <2>3. PICK most \in Smp!Used : m = n - sizes[most]
        BY <2>2
    <2>4. ASSUME NEW c \in Smp!Used PROVE sizes[c] <= sizes[most]
        <3>1. n - sizes[c] \in T
            OBVIOUS
        <3>2. n - sizes[most] <= n - sizes[c]
            BY <2>2, <2>3, <3>1
        <3>3. sizes[c] \in Nat /\ sizes[most] \in Nat
            BY <1>2, <1>4
        <3> QED
            BY <1>1, <3>2, <3>3
    <2> QED
        BY <2>4
<1>6. PICK least \in Smp!Used :
          /\ sizes[least] = sizes[most]
          /\ \A c \in Smp!Used : sizes[c] = sizes[most] => least <= c
    <2> DEFINE T == {c \in Smp!Used : sizes[c] = sizes[most]}
    <2>1. T \in SUBSET Nat /\ most \in T
        BY <1>4
    <2>2. PICK least \in T : \A c \in T : least <= c
        <3> HIDE DEF T
        <3> QED
            BY <2>1, LeastNumber
    <2> QED
        BY <2>2
<1> DEFINE Is(c) == \A other \in Smp!Used :
                        \/ sizes[c] > sizes[other]
                        \/ sizes[c] = sizes[other] /\ c <= other
<1>7. Is(least)
    <2> SUFFICES ASSUME NEW other \in Smp!Used
                 PROVE  \/ sizes[least] > sizes[other]
                        \/ sizes[least] = sizes[other] /\ least <= other
        OBVIOUS
    <2>1. sizes[other] <= sizes[least] /\ sizes[other] \in Nat /\ sizes[least] \in Nat
        BY <1>2, <1>4, <1>5, <1>6
    <2>2. CASE sizes[other] = sizes[least]
        BY <1>6, <2>2
    <2>3. CASE sizes[other] # sizes[least]
        BY <2>1, <2>3
    <2> QED
        BY <2>2, <2>3
<1>8. Smp!CommonestSize = CHOOSE c \in Smp!Used : Is(c)
    BY DEF Smp!CommonestSize, sizes
<1> HIDE DEF Is
<1>9. Smp!CommonestSize \in Smp!Used /\ Is(Smp!CommonestSize)
    BY <1>7, <1>8, Zenon
<1>10. ASSUME NEW c \in Smp!SIZE_CLASSES PROVE sizes[c] <= sizes[Smp!CommonestSize]
    <2>1. sizes[c] \in Nat /\ sizes[Smp!CommonestSize] \in Nat
        BY <1>2, <1>4, <1>9
    <2>2. CASE c \in Smp!Used
        <3>1. sizes[Smp!CommonestSize] > sizes[c] \/ sizes[Smp!CommonestSize] = sizes[c]
            BY <1>9, <2>2 DEF Is
        <3> QED
            BY <2>1, <3>1
    <2>3. CASE c \notin Smp!Used
        <3>1. sizes[c] = 0
            BY <1>4, <2>3
        <3> QED
            BY <2>1, <3>1
    <2> QED
        BY <2>2, <2>3
<1>11. Smp!CommonestSize \in Smp!SIZE_CLASSES
    BY <1>4, <1>9
<1> QED
    BY <1>10, <1>11 DEF sizes

LEMMA CountsAreExact ==
    ASSUME Smp!ConstantsAssumption, Smp!PowersDouble, Counts
    PROVE  Smp!HistogramsAreExact /\ DOMAIN shapes.sizes = Smp!SIZE_CLASSES
<1>1. \A c \in Smp!SIZE_CLASSES : Smp!RequestsIn(c) = InClass(c)
    <2> SUFFICES ASSUME NEW c \in Smp!SIZE_CLASSES PROVE Smp!RequestsIn(c) = InClass(c)
        OBVIOUS
    <2>1. \A i \in DOMAIN asks : asks[i].size \in 0..Smp!MAX
        <3>1. \A i \in DOMAIN asks : asks[i] \in Asked
            BY DEF Counts
        <3>2. \A q \in Asked : q.size \in 0..Smp!MAX
            BY DEF Asked
        <3> QED
            BY <3>1, <3>2
    <2>2. \A i \in DOMAIN asks :
              asks[i].size \in Smp!SizeClassFloor(c)..Smp!SizeClassCeiling(c)
                <=> Smp!SizeClass(asks[i].size) = c
        BY <2>1, ClassHolds
    <2> QED
        BY <2>2 DEF Smp!RequestsIn, InClass
<1>2. \A c \in Smp!SIZE_CLASSES : shapes.sizes[c] = Smp!Cardinality(Smp!RequestsIn(c))
    BY <1>1, SameSizes DEF Counts
<1>3. asks # <<>> => \A c \in Smp!SIZE_CLASSES :
          Smp!Cardinality(Smp!RequestsIn(c)) <= Smp!Cardinality(Smp!RequestsIn(Smp!CommonestSize))
    BY <1>2, CommonestIsMost
<1>4. shapes.sizes \in [Smp!SIZE_CLASSES -> Nat]
    BY DEF Counts, ShapesType
<1> QED
    BY <1>2, <1>3, <1>4, SameSums DEF Counts, Smp!HistogramsAreExact

-----------------------------------------------------------------------------
(* The sampler and the histograms together *)

\* The inductive invariant.
SamplingInv == PointsFollow /\ SpansAreBehind /\ Counts

LEMMA SamplingNext ==
    ASSUME Smp!ConstantsAssumption, Smp!PowersDouble, SamplingInv, [Smp!Next]_Smp!vars
    PROVE  SamplingInv'
<1>1. PointsFollow /\ SpansAreBehind /\ Counts
    BY DEF SamplingInv
<1>2. ASSUME NEW size \in Requested, NEW first \in Gaps, Smp!Admits(size, first)
      PROVE  PointsFollow' /\ SpansAreBehind'
    <2>1. size \in Nat
        BY RequestsAreAsked
    <2> QED
        BY <1>1, <1>2, <2>1, AdmitsAdvances, AdvanceKeeps
<1>3. ASSUME NEW size \in Requested, NEW first \in Gaps, NEW zeroed \in BOOLEAN,
             Smp!Observe(size, zeroed, first)
      PROVE  SamplingInv'
    <2>1. Smp!Admits(size, first)
        BY <1>3 DEF Smp!Observe
    <2>2. Counts'
        BY <1>1, <1>3, ObserveCounts
    <2> QED
        BY <1>2, <2>1, <2>2 DEF SamplingInv
<1>4. ASSUME NEW size \in Requested, NEW first \in Gaps, NEW old \in Requested,
             NEW moved \in BOOLEAN, NEW tracked \in BOOLEAN,
             Smp!ObserveRealloc(old, size, moved, tracked, first)
      PROVE  SamplingInv'
    <2>1. PointsFollow' /\ SpansAreBehind'
        <3>1. CASE tracked
            <4>1. UNCHANGED <<countdown, position, landings, spans>>
                BY <1>4, <3>1 DEF Smp!ObserveRealloc, Smp!Follows
            <4> QED
                BY <1>1, <4>1, FollowsKeeps
        <3>2. CASE ~ tracked
            <4>1. Smp!Admits(size, first)
                BY <1>4, <3>2 DEF Smp!ObserveRealloc
            <4> QED
                BY <1>2, <4>1
        <3> QED
            BY <3>1, <3>2
    <2>2. Counts'
        BY <1>1, <1>4, ObserveReallocCounts
    <2> QED
        BY <2>1, <2>2 DEF SamplingInv
<1>5. CASE Smp!Clear
    <2>1. PointsFollow' /\ SpansAreBehind'
        BY <1>1, <1>5, FollowsKeeps DEF Smp!Clear
    <2>2. shapes' = Smp!NoShapes /\ asks' = <<>>
        BY <1>5 DEF Smp!Clear
    <2>3. Counts'
        BY <2>2, ClearedCounts
    <2> QED
        BY <2>1, <2>3 DEF SamplingInv
<1>6. CASE Smp!ClearSlot
    <2>1. Counts'
        BY <1>1, <1>6, UnchangedCounts DEF Smp!ClearSlot
    <2> QED
        BY <1>6, <2>1, ClearSlotKeeps DEF SamplingInv
<1>7. CASE UNCHANGED Smp!vars
    <2>1. UNCHANGED <<countdown, position, landings, spans>> /\ UNCHANGED <<shapes, asks>>
        BY <1>7 DEF Smp!vars
    <2> QED
        BY <1>1, <2>1, FollowsKeeps, UnchangedCounts DEF SamplingInv
<1> QED
    BY <1>3, <1>4, <1>5, <1>6, <1>7 DEF Smp!Next

(***************************************************************************)
(* A sampled run records exactly the requests a point of one process lands *)
(* in, which no request moves, and its histograms count every request in   *)
(* the class whose bounds hold its size (State::admits, Shapes::record,    *)
(* Shapes::record_realloc, ShapeStats::commonest_size).                    *)
(***************************************************************************)
THEOREM SamplingIsExact ==
    ASSUME Smp!ConstantsAssumption, Smp!PowersDouble
    PROVE  Smp!Spec => []Smp!SampledAndCounted
<1>1. Smp!Init => SamplingInv
    <2> SUFFICES ASSUME Smp!Init PROVE SamplingInv
        OBVIOUS
    <2>1. Counts
        BY NothingCounted DEF Smp!Init
    <2> QED
        BY <2>1, InitSampler DEF SamplingInv
<1>2. SamplingInv /\ [Smp!Next]_Smp!vars => SamplingInv'
    BY SamplingNext
<1>3. SamplingInv => Smp!SampledAndCounted
    <2> SUFFICES ASSUME SamplingInv PROVE Smp!SampledAndCounted
        OBVIOUS
    <2>1. PointsFollow /\ SpansAreBehind /\ Counts
        BY DEF SamplingInv
    <2> QED
        BY <2>1, SamplerHolds, CountsAreExact DEF Smp!SampledAndCounted, Smp!TypeOK
<1> QED
    BY <1>1, <1>2, <1>3, PTL DEF Smp!Spec

-----------------------------------------------------------------------------
(* Unwind.tla: the walk of a stack, and what a capture costs, for any word *)
(* and memory.                                                             *)
CONSTANTS MODULUS, WORD, MAX_FRAME_SPAN, WINDOWS_LIMIT, Stacks, Skips, Rooms,
          FIRST_BATCH, MAX_BATCH, BATCHES, TARGET, BUDGET, Elapsed
VARIABLES stack, walk, chain, cost

Unw == INSTANCE Unwind

\* The library's operators are the same in the instance.
LEMMA SameFiniteness ==
    ASSUME NEW S
    PROVE  /\ Unw!IsFiniteSet(S) <=> IsFiniteSet(S)
           /\ Unw!Cardinality(S) = Cardinality(S)
<1>1. Unw!IsFiniteSet(S) <=> IsFiniteSet(S)
    BY DEF Unw!IsFiniteSet, IsFiniteSet
<1>2. Unw!Cardinality(S) = Cardinality(S)
    BY DEF Unw!Cardinality, Cardinality
<1> QED
    BY <1>1, <1>2

LEMMA UnwindConstants ==
    ASSUME Unw!ConstantsAssumption
    PROVE  /\ MODULUS \in Nat \ {0} /\ WORD \in Nat \ {0} /\ Unw!RECORD \in Nat \ {0}
           /\ MAX_FRAME_SPAN \in Nat /\ Skips \subseteq Nat /\ Rooms \subseteq Nat
           /\ Unw!Addresses \subseteq Nat /\ \A a \in Unw!Addresses : a < MODULUS
           /\ \A bounds \in Stacks : bounds.start \in Unw!Addresses /\ bounds.end \in Unw!Addresses
<1>1. MODULUS \in Nat \ {0} /\ WORD \in Nat \ {0}
    BY DEF Unw!ConstantsAssumption
<1>2. Unw!RECORD \in Nat \ {0}
    BY <1>1 DEF Unw!RECORD
<1>3. Unw!Addresses \subseteq Nat /\ \A a \in Unw!Addresses : a < MODULUS
    BY <1>1 DEF Unw!Addresses
<1>4. \A bounds \in Stacks : bounds.start \in Unw!Addresses /\ bounds.end \in Unw!Addresses
    BY DEF Unw!ConstantsAssumption, Unw!Addresses
<1> QED
    BY <1>1, <1>2, <1>3, <1>4 DEF Unw!ConstantsAssumption

\* What the one comparison of frame_at says: a difference that wrapped is beyond any span.
LEMMA WrappedIsBeyond ==
    ASSUME NEW m \in Nat \ {0}, NEW a \in 0..(m - 1), NEW b \in 0..(m - 1)
    PROVE  (a - b) % m = IF a < b THEN a - b + m ELSE a - b
OBVIOUS

LEMMA InRangeIsInside ==
    ASSUME Unw!ConstantsAssumption, NEW bounds, bounds \in Stacks \cup {Unw!Unknown},
           NEW fp \in Unw!Addresses, Unw!InRange(bounds, fp), Unw!IsBounded(bounds)
    PROVE  fp >= bounds.start /\ fp + Unw!RECORD <= bounds.end
<1>1. /\ bounds.start \in Unw!Addresses /\ bounds.end \in Unw!Addresses
      /\ MODULUS \in Nat \ {0} /\ Unw!RECORD \in Nat \ {0}
      /\ bounds.end - bounds.start >= Unw!RECORD
    <2>1. CASE bounds = Unw!Unknown
        BY <2>1, UnwindConstants DEF Unw!Unknown, Unw!IsBounded, Unw!Addresses
    <2>2. CASE bounds \in Stacks
        BY <2>2, UnwindConstants DEF Unw!IsBounded
    <2> QED
        BY <2>1, <2>2
<1> DEFINE start == bounds.start  end == bounds.end
<1>2. start \in 0..(MODULUS - 1) /\ end \in 0..(MODULUS - 1) /\ fp \in 0..(MODULUS - 1)
    BY <1>1 DEF Unw!Addresses
<1>3. (fp - start) % MODULUS <= (end - Unw!RECORD) - start
    BY <1>1 DEF Unw!InRange, Unw!Base, Unw!Span, Unw!IsBounded
<1>4. end - start >= Unw!RECORD
    BY <1>1
<1> HIDE DEF start, end
<1>5. (fp - start) % MODULUS = IF fp < start THEN fp - start + MODULUS ELSE fp - start
    BY <1>1, <1>2, WrappedIsBeyond
<1>6. fp >= start /\ fp + Unw!RECORD <= end
    <2>1. /\ fp \in Int /\ start \in Int /\ end \in Int /\ MODULUS \in Int /\ Unw!RECORD \in Nat
          /\ fp >= 0 /\ end < MODULUS /\ Unw!RECORD # 0
        BY <1>1, <1>2
    <2>2. CASE fp < start
        BY <1>3, <1>5, <2>1, <2>2
    <2>3. CASE ~ (fp < start)
        BY <1>3, <1>5, <2>1, <2>3
    <2> QED
        BY <2>2, <2>3
<1> QED
    BY <1>6 DEF start, end

-----------------------------------------------------------------------------
(* The walk *)

\* The records read are whole, in the stack, and each above the last.
ChainHolds ==
    /\ chain \in Seq(Unw!Addresses)
    /\ \A i \in DOMAIN chain :
          /\ chain[i] # 0 /\ chain[i] % WORD = 0
          /\ Unw!IsBounded(stack) => chain[i] >= stack.start /\ chain[i] + Unw!RECORD <= stack.end
          /\ i > 1 => chain[i] > chain[i - 1] /\ chain[i] - chain[i - 1] <= MAX_FRAME_SPAN

\* Those not discarded are put out; a walk that ended may have read one more.
OutHolds ==
    LET out == walk.out  n == Len(chain) IN
    /\ walk.skip \in Nat /\ walk.room \in Nat /\ walk.skipped \in Nat /\ out \in Seq(Unw!Addresses)
    /\ walk.fp \in Unw!Addresses \cup {Unw!NoPointer}
    /\ walk.skipped <= walk.skip /\ (Len(out) # 0 => walk.skipped = walk.skip)
    /\ Len(out) <= walk.room
    /\ \A i \in 1..Len(out) : walk.skip + i <= n /\ out[i] = chain[walk.skip + i]
    /\ walk.fp = Unw!NoPointer => n = 0
    /\ walk.outcome = "none" =>
          /\ n = walk.skipped + Len(out)
          /\ walk.previous = IF n = 0 THEN 0 ELSE chain[n]
    /\ walk.outcome # "none" =>
          /\ n = walk.skipped + Len(out) \/ n = walk.skipped + Len(out) + 1
          /\ walk.outcome = "truncated" => Len(out) = walk.room /\ n = walk.skip + walk.room + 1
          /\ walk.outcome = "complete" => walk.fp = 0 \/ (n # 0 /\ chain[n] = walk.fp)
          /\ walk.outcome = "no frames" => n = 0

Outcomes == {"none", "complete", "suspect", "truncated", "no frames"}
Walk == [fp : Unw!Addresses \cup {Unw!NoPointer}, previous : Nat, skip : Skips, room : Rooms,
         skipped : Nat, out : Seq(Unw!Addresses), outcome : Outcomes]

WalkHolds ==
    /\ stack \in Stacks \cup {Unw!Unknown}
    /\ ChainHolds
    /\ \/ walk = Unw!NoWalk /\ chain = <<>>
       \/ walk \in Walk /\ OutHolds

LEMMA WalkSays ==
    ASSUME Unw!ConstantsAssumption, WalkHolds
    PROVE  Unw!WalksTheStack
<1>1. chain \in Seq(Unw!Addresses) /\ Len(chain) \in Nat /\ DOMAIN chain = 1..Len(chain)
    BY DEF WalkHolds, ChainHolds
<1>2. \A i \in DOMAIN chain :
          /\ chain[i] % WORD = 0
          /\ Unw!IsBounded(stack) => chain[i] >= stack.start /\ chain[i] + Unw!RECORD <= stack.end
          /\ i > 1 => chain[i] > chain[i - 1] /\ chain[i] - chain[i - 1] <= MAX_FRAME_SPAN
    BY DEF WalkHolds, ChainHolds
<1>3. CASE walk = Unw!NoWalk /\ chain = <<>>
    <2>1. /\ walk.out = <<>> /\ walk.room = 0 /\ walk.skip = 0 /\ walk.outcome = "not called"
        BY <1>3 DEF Unw!NoWalk
    <2>2. SubSeq(<<>>, 0 + 1, 0 + Len(<<>>)) = <<>> /\ Len(<<>>) = 0
        OBVIOUS
    <2>3. walk.out = SubSeq(chain, walk.skip + 1, walk.skip + Len(walk.out))
        BY <1>3, <2>1, <2>2, Zenon
    <2>4. Len(chain) = 0 /\ Len(walk.out) = 0
        BY <1>3, <2>1, <2>2, Zenon
    <2>5. Len(chain) - walk.skip - Len(walk.out) <= 1 /\ Len(walk.out) <= walk.room
        <3> DEFINE n == Len(chain)  k == Len(walk.out)  skip == walk.skip  room == walk.room
        <3>1. n = 0 /\ k = 0 /\ skip = 0 /\ room = 0
            BY <2>1, <2>4
        <3> HIDE DEF n, k, skip, room
        <3>2. n - skip - k <= 1 /\ k <= room
            BY <3>1
        <3> QED
            BY <3>2 DEF n, k, skip, room
    <2> QED
        BY <1>2, <2>1, <2>3, <2>5 DEF Unw!WalksTheStack
<1>4. CASE OutHolds
    <2> DEFINE out == walk.out  n == Len(chain)  skip == walk.skip  room == walk.room
               k == Len(out)  skipped == walk.skipped
    <2>1. skip \in Nat /\ room \in Nat /\ skipped \in Nat /\ out \in Seq(Unw!Addresses)
        BY <1>4 DEF OutHolds
    <2>2. skipped <= skip /\ (k # 0 => skipped = skip) /\ k <= room
        BY <1>4 DEF OutHolds
    <2>3. \A i \in 1..k : skip + i <= n /\ out[i] = chain[skip + i]
        BY <1>4 DEF OutHolds
    <2>4. /\ n = skipped + k \/ n = skipped + k + 1
          /\ walk.outcome = "truncated" => k = room /\ n = skip + room + 1
          /\ walk.outcome = "complete" => walk.fp = 0 \/ (n # 0 /\ chain[n] = walk.fp)
          /\ walk.outcome = "no frames" => n = 0
        BY <1>4 DEF OutHolds
    <2>5. n \in Nat /\ DOMAIN chain = 1..n /\ k \in Nat
        BY <1>1, <2>1
    <2>6. out = SubSeq(chain, skip + 1, skip + k)
        <3> HIDE DEF n, skip, out
        <3>1. k = Len(out) /\ n \in Nat /\ \A i \in 1..n : chain[i] \in Unw!Addresses
            BY <1>1, <2>5 DEF n
        <3> HIDE DEF k
        <3> DEFINE sub == SubSeq(chain, skip + 1, skip + k)
        <3>2. ASSUME NEW i \in (skip + 1)..(skip + k) PROVE chain[i] \in Unw!Addresses
            <4>1. i - skip \in 1..k /\ skip + (i - skip) = i /\ i >= 1
                BY <2>1, <2>5
            <4>2. i <= n /\ i \in 1..n
                BY <2>3, <2>5, <4>1
            <4> QED
                BY <3>1, <4>2
        <3>3. /\ sub \in Seq(Unw!Addresses)
              /\ Len(sub) = IF skip + 1 <= skip + k THEN skip + k - (skip + 1) + 1 ELSE 0
              /\ \A i \in 1..(skip + k - (skip + 1) + 1) : sub[i] = chain[skip + 1 + i - 1]
            BY <2>1, <2>5, <3>2, SubSeqProperties
        <3> HIDE DEF sub
        <3>4. skip + k - (skip + 1) + 1 = k /\ Len(sub) = k
            BY <2>1, <2>5, <3>3
        <3>5. \A i \in 1..k : sub[i] = out[i]
            <4> SUFFICES ASSUME NEW i \in 1..k PROVE sub[i] = out[i]
                OBVIOUS
            <4>1. skip + 1 + i - 1 = skip + i
                BY <2>1
            <4> QED
                BY <2>3, <3>3, <3>4, <4>1
        <3>6. out = sub
            BY <2>1, <3>1, <3>3, <3>4, <3>5, SeqEqual
        <3> QED
            BY <3>6 DEF sub
    <2> HIDE DEF n, k, skip, room, skipped
    <2>7. n - skip - k <= 1
        <3>1. n = skipped + k \/ n = skipped + k + 1
            BY <2>4
        <3>2. skip \in Nat /\ skipped \in Nat /\ skipped <= skip /\ n \in Nat /\ k \in Nat
            BY <2>1, <2>2, <2>5
        <3> QED
            BY <3>1, <3>2
    <2>8. n # 0 => Unw!Last(chain) = chain[n]
        BY DEF Unw!Last, n
    <2>9. walk.outcome = "no frames" => chain = <<>>
        BY <1>1, <2>4, EmptySeq DEF n
    <2> HIDE DEF out
    <2> QED
        BY <1>2, <2>2, <2>4, <2>6, <2>7, <2>8, <2>9 DEF Unw!WalksTheStack, out, n, k, skip, room
<1> QED
    BY <1>3, <1>4 DEF WalkHolds

\* A link is read as a record above the last one.
LEMMA ChainGrows ==
    ASSUME Unw!ConstantsAssumption, stack \in Stacks \cup {Unw!Unknown}, ChainHolds, NEW fp \in Unw!Addresses,
           NEW previous \in Nat, previous = IF Len(chain) = 0 THEN 0 ELSE chain[Len(chain)],
           Unw!IsPlausible(fp, previous), Unw!InRange(stack, fp),
           chain' = Append(chain, fp), UNCHANGED stack
    PROVE  ChainHolds'
<1> DEFINE n == Len(chain)
<1>1. /\ n \in Nat /\ chain' \in Seq(Unw!Addresses) /\ Len(chain') = n + 1
      /\ DOMAIN chain = 1..n /\ DOMAIN chain' = 1..(n + 1)
      /\ \A i \in 1..n : chain'[i] = chain[i]
      /\ chain'[n + 1] = fp
    <2>1. chain \in Seq(Unw!Addresses) /\ n \in Nat /\ DOMAIN chain = 1..n
        BY DEF ChainHolds
    <2>2. chain' \in Seq(Unw!Addresses) /\ Len(chain') = n + 1
        BY <2>1
    <2> QED
        BY <2>1, <2>2
<1>2. fp # 0 /\ fp % WORD = 0 /\ (previous # 0 => fp > previous /\ fp - previous <= MAX_FRAME_SPAN)
    BY DEF Unw!IsPlausible
<1>3. Unw!IsBounded(stack) => fp >= stack.start /\ fp + Unw!RECORD <= stack.end
    BY InRangeIsInside
<1>4. n # 0 => previous = chain[n] /\ previous # 0
    BY <1>1 DEF ChainHolds
<1> HIDE DEF n
<1> SUFFICES ASSUME NEW i \in 1..(n + 1)
             PROVE  /\ chain'[i] # 0 /\ chain'[i] % WORD = 0
                    /\ Unw!IsBounded(stack) => chain'[i] >= stack.start /\ chain'[i] + Unw!RECORD <= stack.end
                    /\ i > 1 => /\ chain'[i] > chain'[i - 1]
                                /\ chain'[i] - chain'[i - 1] <= MAX_FRAME_SPAN
    BY <1>1 DEF ChainHolds
<1>5. CASE i = n + 1
    <2>1. chain'[i] = fp
        BY <1>1, <1>5
    <2>2. CASE i > 1
        <3>1. n # 0 /\ i - 1 = n /\ n \in 1..n
            BY <1>1, <1>5, <2>2
        <3>2. chain'[i - 1] = previous /\ previous # 0
            BY <1>1, <1>4, <3>1
        <3> QED
            BY <1>2, <1>3, <2>1, <3>2
    <2>3. CASE ~ (i > 1)
        BY <1>2, <1>3, <2>1, <2>3
    <2> QED
        BY <2>2, <2>3
<1>6. CASE i # n + 1
    <2>1. i \in 1..n /\ i \in DOMAIN chain /\ chain'[i] = chain[i]
        BY <1>1, <1>6
    <2>2. CASE i > 1
        <3>1. i - 1 \in 1..n
            BY <1>1, <2>1, <2>2
        <3>2. chain'[i - 1] = chain[i - 1]
            BY <1>1, <3>1
        <3> QED
            BY <2>1, <2>2, <3>2 DEF ChainHolds
    <2>3. CASE ~ (i > 1)
        BY <2>1, <2>3 DEF ChainHolds
    <2> QED
        BY <2>2, <2>3
<1> QED
    BY <1>5, <1>6

LEMMA WalkInitially ==
    ASSUME Unw!ConstantsAssumption, Unw!Init
    PROVE  WalkHolds
<1>1. chain = <<>> /\ chain \in Seq(Unw!Addresses) /\ Len(chain) = 0 /\ DOMAIN chain = {}
    BY DEF Unw!Init
<1>2. stack \in Stacks \cup {Unw!Unknown}
    BY DEF Unw!Init
<1>3. ChainHolds
    BY <1>1 DEF ChainHolds
<1>4. CASE walk = Unw!NoWalk
    BY <1>1, <1>2, <1>3, <1>4 DEF WalkHolds
<1>5. CASE walk \in Unw!Walks(Unw!Addresses \cup {Unw!NoPointer})
    <2>1. /\ walk \in Walk
          /\ walk.fp \in Unw!Addresses \cup {Unw!NoPointer} /\ walk.previous = 0 /\ walk.skip \in Skips
          /\ walk.room \in Rooms /\ walk.skipped = 0 /\ walk.out = <<>> /\ walk.outcome = "none"
        <3>1. /\ walk.fp \in Unw!Addresses \cup {Unw!NoPointer} /\ walk.previous = 0
              /\ walk.skip \in Skips /\ walk.room \in Rooms /\ walk.skipped = 0
              /\ walk.out = <<>> /\ walk.outcome = "none"
            BY <1>5 DEF Unw!Walks
        <3>2. walk = [fp |-> walk.fp, previous |-> walk.previous, skip |-> walk.skip,
                      room |-> walk.room, skipped |-> walk.skipped, out |-> walk.out,
                      outcome |-> walk.outcome]
            BY <1>5 DEF Unw!Walks
        <3>3. walk.previous \in Nat /\ walk.skipped \in Nat /\ walk.out \in Seq(Unw!Addresses)
              /\ walk.outcome \in Outcomes
            BY <3>1 DEF Outcomes
        <3> QED
            BY <3>1, <3>2, <3>3 DEF Walk
    <2>2. walk.skip \in Nat /\ walk.room \in Nat
        BY <2>1, UnwindConstants
    <2>3. Len(walk.out) = 0 /\ walk.out \in Seq(Unw!Addresses)
        BY <2>1
    <2>4. walk.skipped <= walk.skip /\ Len(walk.out) <= walk.room
        <3> DEFINE skip == walk.skip  room == walk.room
        <3>1. skip \in Nat /\ room \in Nat
            BY <2>2
        <3> HIDE DEF skip, room
        <3>2. 0 <= skip /\ 0 <= room
            BY <3>1
        <3> QED
            BY <2>1, <2>3, <3>2 DEF skip, room
    <2>5. Len(chain) = walk.skipped + Len(walk.out)
        BY <1>1, <2>1, <2>3
    <2>6. \A i \in 1..Len(walk.out) : FALSE
        BY <2>3
    <2>7. OutHolds
        BY <1>1, <2>1, <2>2, <2>3, <2>4, <2>5, <2>6 DEF OutHolds
    <2> QED
        BY <1>2, <1>3, <2>1, <2>7 DEF WalkHolds, Walk
<1> QED
    BY <1>4, <1>5 DEF Unw!Init

\* A walk that ends without another record says what it may.
LEMMA EndsHere ==
    ASSUME WalkHolds, Unw!Walking, NEW outcome \in {"complete", "suspect", "no frames"},
           Unw!Ends(outcome), UNCHANGED <<stack, chain>>,
           outcome = "complete" => walk.fp = 0,
           outcome = "no frames" => walk.fp = Unw!NoPointer
    PROVE  WalkHolds'
<1>1. walk.outcome = "none"
    BY DEF Unw!Walking
<1>2. walk # Unw!NoWalk
    <2>1. Unw!NoWalk.outcome = "not called"
        BY DEF Unw!NoWalk
    <2> QED
        BY <1>1, <2>1
<1>3. /\ stack \in Stacks \cup {Unw!Unknown} /\ ChainHolds /\ OutHolds /\ walk \in Walk
    BY <1>2 DEF WalkHolds, Walk
<1>4. /\ walk' = [walk EXCEPT !.outcome = outcome]
      /\ stack' = stack /\ chain' = chain
    BY DEF Unw!Ends
<1>5. /\ walk' \in Walk /\ walk'.fp = walk.fp /\ walk'.skip = walk.skip /\ walk'.room = walk.room
      /\ walk'.skipped = walk.skipped /\ walk'.out = walk.out /\ walk'.outcome = outcome
    <2>1. outcome \in Outcomes
        BY DEF Outcomes
    <2> QED
        BY <1>3, <1>4, <2>1 DEF Walk
<1>6. ChainHolds'
    BY <1>3, <1>4 DEF ChainHolds
<1>7. OutHolds'
    BY <1>1, <1>3, <1>4, <1>5 DEF OutHolds
<1> QED
    BY <1>3, <1>4, <1>5, <1>6, <1>7 DEF WalkHolds, Walk

LEMMA ReadKeeps ==
    ASSUME Unw!ConstantsAssumption, WalkHolds, Unw!ReadsRecord
    PROVE  WalkHolds'
<1> DEFINE fp == walk.fp  out == walk.out  skip == walk.skip  room == walk.room
           skipped == walk.skipped  n == Len(chain)  k == Len(out)
<1>1. walk.outcome = "none" /\ fp # Unw!NoPointer /\ Unw!IsPlausible(fp, walk.previous)
      /\ Unw!InRange(stack, fp) /\ chain' = Append(chain, fp) /\ stack' = stack
    BY DEF Unw!ReadsRecord, Unw!Walking
<1>2. walk # Unw!NoWalk
    <2>1. Unw!NoWalk.outcome = "not called"
        BY DEF Unw!NoWalk
    <2> QED
        BY <1>1, <2>1
<1>3. stack \in Stacks \cup {Unw!Unknown} /\ ChainHolds /\ OutHolds /\ walk \in Walk
    BY <1>2 DEF WalkHolds
<1>4. /\ fp \in Unw!Addresses /\ walk.previous \in Nat /\ out \in Seq(Unw!Addresses)
      /\ skip \in Nat /\ room \in Nat /\ skipped \in Nat /\ skip \in Skips /\ room \in Rooms
    BY <1>1, <1>3, UnwindConstants DEF Walk
<1>5. /\ skipped <= skip /\ (k # 0 => skipped = skip) /\ k <= room
      /\ n = skipped + k
    BY <1>1, <1>3 DEF OutHolds
<1>6. \A i \in 1..k : skip + i <= n /\ out[i] = chain[skip + i]
    BY <1>3 DEF OutHolds
<1>7. walk.previous = IF n = 0 THEN 0 ELSE chain[n]
    BY <1>1, <1>3 DEF OutHolds
<1>8. /\ n \in Nat /\ k \in Nat /\ chain \in Seq(Unw!Addresses) /\ Len(chain') = n + 1
      /\ chain'[n + 1] = fp /\ \A i \in 1..n : chain'[i] = chain[i]
    <2>1. n \in Nat /\ k \in Nat /\ chain \in Seq(Unw!Addresses)
        BY <1>3, <1>4 DEF ChainHolds
    <2> HIDE DEF fp
    <2>2. Len(chain') = n + 1 /\ chain'[n + 1] = fp /\ \A i \in 1..n : chain'[i] = chain[i]
        BY <1>1, <1>4, <2>1
    <2> QED
        BY <2>1, <2>2
<1>9. ChainHolds'
    BY <1>1, <1>3, <1>4, <1>7, ChainGrows
<1>10. \A i \in 1..k : skip + i <= n + 1 /\ out[i] = chain'[skip + i]
    <2> SUFFICES ASSUME NEW i \in 1..k PROVE skip + i <= n + 1 /\ out[i] = chain'[skip + i]
        OBVIOUS
    <2>1. skip + i <= n /\ out[i] = chain[skip + i]
        BY <1>6
    <2> HIDE DEF n, k, skip, out
    <2>2. skip + i \in 1..n
        BY <1>4, <1>8, <2>1
    <2> QED
        BY <1>8, <2>1, <2>2
<1>11. /\ "none" \in Outcomes /\ "complete" \in Outcomes /\ "truncated" \in Outcomes
    BY DEF Outcomes
<1>12. CASE Unw!Ends("complete")
    <2>1. walk' = [walk EXCEPT !.outcome = "complete"]
        BY <1>12 DEF Unw!Ends
    <2>2. /\ walk' \in Walk /\ walk'.fp = fp /\ walk'.skip = skip /\ walk'.room = room
          /\ walk'.skipped = skipped /\ walk'.out = out /\ walk'.outcome = "complete"
        BY <1>3, <1>11, <2>1 DEF Walk
    <2>3. OutHolds'
        <3>1. n + 1 = skipped + k + 1 /\ n + 1 # 0
            BY <1>4, <1>5, <1>8
        <3> HIDE DEF fp, out, skip, room, skipped, n
        <3> QED
            BY <1>1, <1>4, <1>5, <1>8, <1>10, <2>2, <3>1 DEF OutHolds
    <2> QED
        BY <1>1, <1>3, <1>9, <2>2, <2>3 DEF WalkHolds
<1>13. CASE skipped >= skip /\ k = room /\ Unw!Ends("truncated")
    <2>1. walk' = [walk EXCEPT !.outcome = "truncated"]
        BY <1>13 DEF Unw!Ends
    <2>2. /\ walk' \in Walk /\ walk'.fp = fp /\ walk'.skip = skip /\ walk'.room = room
          /\ walk'.skipped = skipped /\ walk'.out = out /\ walk'.outcome = "truncated"
        BY <1>3, <1>11, <2>1 DEF Walk
    <2>3. OutHolds'
        <3> HIDE DEF fp, out, skip, room, skipped, n
        <3>1. n + 1 = skipped + k + 1 /\ n + 1 # 0 /\ n + 1 = skip + room + 1
            <4> HIDE DEF k
            <4> QED
                BY <1>4, <1>5, <1>8, <1>13
        <3> QED
            BY <1>1, <1>4, <1>5, <1>8, <1>10, <1>13, <2>2, <3>1 DEF OutHolds
    <2> QED
        BY <1>1, <1>3, <1>9, <2>2, <2>3 DEF WalkHolds
<1>14. ASSUME NEW saved \in Unw!Addresses, skipped < skip,
              walk' = [walk EXCEPT !.skipped = @ + 1, !.previous = fp, !.fp = saved]
       PROVE  WalkHolds'
    <2>1. skipped + 1 \in Nat /\ fp \in Nat
        <3> HIDE DEF skipped, fp
        <3> QED
            BY <1>4, UnwindConstants
    <2>2. /\ walk' \in Walk /\ walk'.fp = saved /\ walk'.skip = skip /\ walk'.room = room
          /\ walk'.skipped = skipped + 1 /\ walk'.out = out /\ walk'.outcome = "none"
          /\ walk'.previous = fp
        BY <1>1, <1>3, <1>14, <2>1 DEF Walk
    <2>3. saved # Unw!NoPointer
        BY UnwindConstants DEF Unw!NoPointer
    <2>4. OutHolds'
        <3> HIDE DEF fp, out, skip, room, skipped, n
        <3>1. /\ n + 1 = (skipped + 1) + k /\ n + 1 # 0 /\ skipped + 1 <= skip
              /\ k = 0
            <4> HIDE DEF k
            <4> QED
                BY <1>4, <1>5, <1>8, <1>14
        <3> QED
            BY <1>1, <1>4, <1>5, <1>8, <1>10, <2>1, <2>2, <2>3, <3>1 DEF OutHolds
    <2> QED
        BY <1>1, <1>3, <1>9, <2>2, <2>4 DEF WalkHolds
<1>15. ASSUME NEW saved \in Unw!Addresses, skipped >= skip, k < room,
              walk' = [walk EXCEPT !.out = Append(@, fp), !.previous = fp, !.fp = saved]
       PROVE  WalkHolds'
    <2> DEFINE more == Append(out, fp)
    <2>1. /\ fp \in Nat /\ more \in Seq(Unw!Addresses) /\ Len(more) = k + 1
          /\ more[k + 1] = fp /\ \A i \in 1..k : more[i] = out[i]
        <3> HIDE DEF out, fp
        <3> QED
            BY <1>4, UnwindConstants
    <2> HIDE DEF more
    <2>2. walk' = [walk EXCEPT !.out = more, !.previous = fp, !.fp = saved]
        BY <1>3, <1>15 DEF more, Walk
    <2>3. /\ walk' \in Walk /\ walk'.fp = saved /\ walk'.skip = skip /\ walk'.room = room
          /\ walk'.skipped = skipped /\ walk'.out = more /\ walk'.outcome = "none"
          /\ walk'.previous = fp
        BY <1>1, <1>3, <2>1, <2>2 DEF Walk
    <2>4. saved # Unw!NoPointer
        BY UnwindConstants DEF Unw!NoPointer
    <2>5. OutHolds'
        <3> HIDE DEF fp, out, skip, room, skipped, n, k
        <3>1. n + 1 = skipped + (k + 1) /\ n + 1 # 0 /\ k + 1 <= room /\ skipped = skip
            BY <1>4, <1>5, <1>8, <1>15
        <3>2. \A i \in 1..(k + 1) : skip + i <= n + 1 /\ more[i] = chain'[skip + i]
            <4> SUFFICES ASSUME NEW i \in 1..(k + 1)
                         PROVE  skip + i <= n + 1 /\ more[i] = chain'[skip + i]
                OBVIOUS
            <4>1. CASE i = k + 1
                <5>1. skip + i = n + 1
                    BY <1>4, <1>8, <3>1, <4>1
                <5> QED
                    BY <1>8, <2>1, <4>1, <5>1
            <4>2. CASE i # k + 1
                <5>1. i \in 1..k
                    BY <1>8, <4>2
                <5> QED
                    BY <1>10, <2>1, <5>1
            <4> QED
                BY <4>1, <4>2
        <3>3. Len(chain') = n + 1 /\ chain'[n + 1] = fp
            BY <1>8 DEF fp, n
        <3>4. n + 1 \in Nat /\ k + 1 \in Nat /\ k + 1 # 0
            BY <1>4, <1>8
        <3> DEFINE room2 == walk'.room  skip2 == walk'.skip  out2 == walk'.out
        <3>5. /\ skip2 = skip /\ room2 = room /\ out2 = more /\ walk'.skipped = skip /\ skip2 \in Nat /\ room2 \in Nat
            BY <1>4, <2>3, <3>1 DEF skip, room, skipped
        <3>6. walk'.previous = IF n + 1 = 0 THEN 0 ELSE chain'[n + 1]
            BY <1>8, <2>3, <3>1, <3>3
        <3>7. walk'.fp \in Unw!Addresses /\ walk'.fp # Unw!NoPointer /\ walk'.outcome = "none"
            BY <1>15, <2>3, <2>4
        <3> HIDE DEF room2, skip2, out2
        <3>8. /\ out2 \in Seq(Unw!Addresses) /\ Len(out2) <= room2
              /\ \A i \in 1..Len(out2) : skip2 + i <= Len(chain') /\ out2[i] = chain'[skip2 + i]
            BY <2>1, <3>1, <3>2, <3>3, <3>5
        <3>9. Len(chain') = skip + Len(out2)
            BY <2>1, <3>1, <3>3, <3>5
        <3> QED
            BY <3>3, <3>5, <3>6, <3>7, <3>8, <3>9 DEF OutHolds, room2, skip2, out2
    <2> QED
        BY <1>1, <1>3, <1>9, <2>3, <2>5 DEF WalkHolds
<1> QED
    BY <1>12, <1>13, <1>14, <1>15 DEF Unw!ReadsRecord

LEMMA WalkStep ==
    ASSUME Unw!ConstantsAssumption, WalkHolds, [Unw!Next]_Unw!vars
    PROVE  WalkHolds'
<1>1. CASE Unw!HasNoPointer
    BY <1>1, EndsHere DEF Unw!HasNoPointer
<1>2. CASE Unw!StopsAtLink
    <2> DEFINE how == IF walk.fp = 0 THEN "complete" ELSE "suspect"
    <2>1. how \in {"complete", "suspect", "no frames"} /\ (how = "complete" => walk.fp = 0)
          /\ how # "no frames"
        OBVIOUS
    <2>2. Unw!Ends(how) /\ Unw!Walking /\ UNCHANGED <<stack, chain>>
        BY <1>2 DEF Unw!StopsAtLink
    <2> HIDE DEF how
    <2> QED
        BY <2>1, <2>2, EndsHere
<1>3. CASE Unw!LeavesTheStack
    BY <1>3, EndsHere DEF Unw!LeavesTheStack
<1>4. CASE Unw!ReadsRecord
    BY <1>4, ReadKeeps
<1>5. CASE UNCHANGED <<stack, walk, chain>>
    BY <1>5 DEF WalkHolds, ChainHolds, OutHolds
<1> QED
    BY <1>1, <1>2, <1>3, <1>4, <1>5
       DEF Unw!Next, Unw!vars, Unw!FirstBatches, Unw!LaterBatches, Unw!Publishes
-----------------------------------------------------------------------------
(* The cost of a capture *)

BatchesOf(timed, captures) == {j \in DOMAIN timed : timed[j].captures = captures}
Timing == [captures : Nat, elapsed : Elapsed]

\* The batches of one size: how many, the fastest, and that the clock timed one.
Measures(captures, best, batches, timed) ==
    LET of == BatchesOf(timed, captures) IN
    /\ Cardinality(of) = batches
    /\ \E j \in of : timed[j].elapsed = best
    /\ \A j \in of : best <= timed[j].elapsed
    /\ \E j \in of : timed[j].elapsed >= TARGET

CostHolds ==
    /\ cost \in [captures : Nat \ {0}, best : Nat, spent : Nat, batches : Nat,
                 timed : Seq(Timing), published : Seq([nanos : Nat, captures : Nat])]
    /\ cost.captures <= 2 * MAX_BATCH
    /\ cost.spent < BUDGET + Unw!Max(Elapsed)
    /\ cost.batches = 0 => /\ cost.spent < BUDGET
                           /\ \A j \in DOMAIN cost.timed : cost.timed[j].captures < cost.captures
    /\ cost.batches \in 1..BATCHES => Measures(cost.captures, cost.best, cost.batches, cost.timed)
    /\ \/ cost.published = <<>>
       \/ /\ cost.batches \in 1..BATCHES
          /\ cost.published = <<[nanos |-> cost.best, captures |-> cost.captures]>>

LEMMA CostConstants ==
    ASSUME Unw!ConstantsAssumption
    PROVE  /\ FIRST_BATCH \in Nat \ {0} /\ MAX_BATCH \in Nat \ {0} /\ BATCHES \in Nat \ {0}
           /\ BUDGET \in Nat \ {0} /\ FIRST_BATCH <= MAX_BATCH /\ TARGET \in Nat
           /\ Elapsed \subseteq Nat /\ Unw!Max(Elapsed) \in Nat
           /\ \A elapsed \in Elapsed : elapsed <= Unw!Max(Elapsed)
<1>1. /\ FIRST_BATCH \in Nat \ {0} /\ MAX_BATCH \in Nat \ {0} /\ BATCHES \in Nat \ {0}
      /\ BUDGET \in Nat \ {0} /\ FIRST_BATCH <= MAX_BATCH /\ TARGET \in Nat
    BY DEF Unw!ConstantsAssumption
<1>2. Elapsed \in SUBSET Nat /\ Elapsed # {} /\ IsFiniteSet(Elapsed)
    BY SameFiniteness DEF Unw!ConstantsAssumption
<1>3. PICK bound \in Nat : \A q \in Elapsed : q <= bound
    BY <1>2, FiniteHasBound
<1>4. PICK most \in Elapsed : \A q \in Elapsed : most >= q
    BY <1>2, <1>3, NumbersHaveLargest
<1>5. Unw!Max(Elapsed) \in Elapsed /\ \A q \in Elapsed : Unw!Max(Elapsed) >= q
    BY <1>4 DEF Unw!Max
<1> QED
    BY <1>1, <1>2, <1>5

LEMMA FastestIs ==
    ASSUME NEW a \in Nat, NEW b \in Nat
    PROVE  Unw!Fastest(a, b) = IF a <= b THEN a ELSE b
<1> DEFINE IsLeast(x) == x \in {a, b} /\ \A y \in {a, b} : x =< y
<1>1. Unw!Min({a, b}) = CHOOSE x \in {a, b} : \A y \in {a, b} : x =< y
    BY DEF Unw!Min
<1>2. CASE a <= b
    <2>1. \A x \in {a, b} : (\A y \in {a, b} : x =< y) => x = a
        BY <1>2
    <2>2. \A y \in {a, b} : a =< y
        BY <1>2
    <2> QED
        BY <1>1, <1>2, <2>1, <2>2 DEF Unw!Fastest, Unw!Smaller
<1>3. CASE ~(a <= b)
    <2>1. \A x \in {a, b} : (\A y \in {a, b} : x =< y) => x = b
        BY <1>3
    <2>2. \A y \in {a, b} : b =< y
        BY <1>3
    <2> QED
        BY <1>1, <1>3, <2>1, <2>2 DEF Unw!Fastest, Unw!Smaller
<1> QED
    BY <1>2, <1>3

\* One more batch of the size.
LEMMA BatchesGrow ==
    ASSUME NEW timed \in Seq(Timing), NEW batch \in Timing
    PROVE  /\ Append(timed, batch) \in Seq(Timing) /\ Len(timed) \in Nat
           /\ DOMAIN timed = 1..Len(timed)
           /\ DOMAIN Append(timed, batch) = 1..(Len(timed) + 1)
           /\ \A j \in 1..Len(timed) : Append(timed, batch)[j] = timed[j]
           /\ Append(timed, batch)[Len(timed) + 1] = batch
           /\ BatchesOf(Append(timed, batch), batch.captures)
                  = BatchesOf(timed, batch.captures) \cup {Len(timed) + 1}
           /\ IsFiniteSet(BatchesOf(timed, batch.captures))
           /\ Len(timed) + 1 \notin BatchesOf(timed, batch.captures)
<1> DEFINE more == Append(timed, batch)  captures == batch.captures
<1>1. /\ more \in Seq(Timing) /\ Len(more) = Len(timed) + 1 /\ Len(timed) \in Nat
      /\ \A j \in 1..Len(timed) : more[j] = timed[j]
      /\ more[Len(timed) + 1] = batch
    BY AppendProperties
<1> HIDE DEF more
<1>2. DOMAIN timed = 1..Len(timed) /\ DOMAIN more = 1..(Len(timed) + 1)
    BY <1>1
<1>3. BatchesOf(more, captures) = BatchesOf(timed, captures) \cup {Len(timed) + 1}
    <2>1. \A j \in BatchesOf(more, captures) :
              j \in BatchesOf(timed, captures) \/ j = Len(timed) + 1
        <3> SUFFICES ASSUME NEW j \in BatchesOf(more, captures), j # Len(timed) + 1
                     PROVE  j \in BatchesOf(timed, captures)
            OBVIOUS
        <3>1. j \in 1..Len(timed)
            BY <1>1, <1>2 DEF BatchesOf
        <3> QED
            BY <1>1, <1>2, <3>1 DEF BatchesOf
    <2>2. \A j \in BatchesOf(timed, captures) : j \in BatchesOf(more, captures)
        BY <1>1, <1>2 DEF BatchesOf
    <2>3. Len(timed) + 1 \in BatchesOf(more, captures)
        BY <1>1, <1>2 DEF BatchesOf
    <2> QED
        BY <2>1, <2>2, <2>3
<1>4. IsFiniteSet(BatchesOf(timed, captures))
    <2>1. IsFiniteSet(1..Len(timed))
        BY <1>1, FS_Interval
    <2>2. BatchesOf(timed, captures) \subseteq 1..Len(timed)
        BY <1>2 DEF BatchesOf
    <2> QED
        BY <2>1, <2>2, FS_Subset
<1>5. Len(timed) + 1 \notin BatchesOf(timed, captures)
    BY <1>1, <1>2 DEF BatchesOf
<1> QED
    BY <1>1, <1>2, <1>3, <1>4, <1>5 DEF more

LEMMA FirstMeasures ==
    ASSUME NEW timed \in Seq(Timing), NEW captures \in Nat, NEW elapsed \in Elapsed,
           elapsed >= TARGET, Elapsed \subseteq Nat,
           \A j \in DOMAIN timed : timed[j].captures < captures
    PROVE  Measures(captures, elapsed, 1,
                    Append(timed, [captures |-> captures, elapsed |-> elapsed]))
<1> DEFINE one == [captures |-> captures, elapsed |-> elapsed]
           more == Append(timed, one)
           last == Len(timed) + 1
<1>1. BatchesOf(timed, captures) = {}
    BY DEF BatchesOf
<1>a. one \in Timing /\ one.captures = captures /\ one.elapsed = elapsed
    BY DEF Timing
<1> HIDE DEF one
<1>b. /\ BatchesOf(more, captures) = BatchesOf(timed, captures) \cup {Len(timed) + 1}
      /\ more[Len(timed) + 1].elapsed = elapsed
    BY <1>a, BatchesGrow
<1>2. BatchesOf(more, captures) = {last} /\ more[last].elapsed = elapsed
    BY <1>1, <1>b
<1> HIDE DEF last, more
<1>3. Cardinality({last}) = 1
    BY FS_Singleton
<1>4. elapsed \in Nat
    OBVIOUS
<1>5. elapsed <= elapsed
    BY <1>4
<1>6. Measures(captures, elapsed, 1, more)
    BY <1>2, <1>3, <1>5 DEF Measures
<1> QED
    BY <1>6 DEF more, one

LEMMA NextMeasures ==
    ASSUME NEW timed \in Seq(Timing), NEW captures \in Nat, NEW elapsed \in Elapsed,
           NEW best \in Nat, NEW batches \in Nat, Elapsed \subseteq Nat,
           Measures(captures, best, batches, timed)
    PROVE  Measures(captures, Unw!Fastest(best, elapsed), batches + 1,
                    Append(timed, [captures |-> captures, elapsed |-> elapsed]))
<1> DEFINE one == [captures |-> captures, elapsed |-> elapsed]
           more == Append(timed, one)
           last == Len(timed) + 1
           of == BatchesOf(timed, captures)  fastest == Unw!Fastest(best, elapsed)
<1>a. one \in Timing /\ one.captures = captures /\ one.elapsed = elapsed
    BY DEF Timing
<1> HIDE DEF one
<1>1. /\ BatchesOf(more, captures) = of \cup {last} /\ more[last].elapsed = elapsed
      /\ IsFiniteSet(of) /\ last \notin of
    BY <1>a, BatchesGrow
<1>2. \A j \in of : more[j] = timed[j] /\ timed[j].elapsed \in Nat
    <2>1. \A j \in 1..Len(timed) : more[j] = timed[j]
        BY <1>a, BatchesGrow
    <2>2. \A j \in 1..Len(timed) : timed[j] \in Timing
        OBVIOUS
    <2>3. of \subseteq 1..Len(timed)
        BY DEF BatchesOf
    <2> QED
        BY <2>1, <2>2, <2>3 DEF Timing
<1>3. /\ Cardinality(of) = batches /\ \E j \in of : timed[j].elapsed = best
      /\ \A j \in of : best <= timed[j].elapsed
      /\ \E j \in of : timed[j].elapsed >= TARGET
    BY DEF Measures
<1>4. elapsed \in Nat /\ fastest = IF best <= elapsed THEN best ELSE elapsed
    BY FastestIs
<1> HIDE DEF last, of, fastest, more
<1>5. Cardinality(of \cup {last}) = batches + 1
    BY <1>1, <1>3, FS_AddElement
<1>6. \E j \in of \cup {last} : more[j].elapsed = fastest
    BY <1>1, <1>2, <1>3, <1>4
<1>7. \A j \in of \cup {last} : fastest <= more[j].elapsed
    <2>1. fastest <= best /\ fastest <= elapsed /\ fastest \in Nat
        BY <1>4
    <2>2. ASSUME NEW j \in of PROVE fastest <= more[j].elapsed
        <3> DEFINE time == timed[j].elapsed
        <3>1. more[j].elapsed = time /\ time \in Nat /\ best <= time
            BY <1>2, <1>3
        <3> HIDE DEF time
        <3> QED
            BY <2>1, <3>1
    <2> QED
        BY <1>1, <2>1, <2>2
<1>8. \E j \in of \cup {last} : more[j].elapsed >= TARGET
    BY <1>2, <1>3
<1>9. Measures(captures, fastest, batches + 1, more)
    BY <1>1, <1>5, <1>6, <1>7, <1>8 DEF Measures
<1> QED
    BY <1>9 DEF more, fastest, one

LEMMA CostInitially ==
    ASSUME Unw!ConstantsAssumption, cost = Unw!NoCost
    PROVE  CostHolds
<1>1. /\ cost.captures = FIRST_BATCH /\ cost.spent = 0 /\ cost.batches = 0 /\ cost.timed = <<>>
      /\ cost.published = <<>>
      /\ cost \in [captures : Nat \ {0}, best : Nat, spent : Nat, batches : Nat,
                   timed : Seq(Timing), published : Seq([nanos : Nat, captures : Nat])]
    BY CostConstants DEF Unw!NoCost
<1>2. DOMAIN cost.timed = {}
    BY <1>1
<1>3. 0 \notin 1..BATCHES
    OBVIOUS
<1> QED
    BY <1>1, <1>2, <1>3, CostConstants DEF CostHolds

LEMMA CostSays ==
    ASSUME Unw!ConstantsAssumption, CostHolds
    PROVE  Unw!CostIsMeasured
<1> DEFINE captures == cost.captures  best == cost.best  timed == cost.timed
           of == BatchesOf(timed, captures)
<1>1. CASE cost.published = <<>>
    <2>1. DOMAIN cost.published = {}
        BY <1>1
    <2> QED
        BY <2>1 DEF CostHolds, Unw!CostIsMeasured
<1>2. CASE cost.published # <<>>
    <2>1. /\ cost.batches \in 1..BATCHES /\ Measures(captures, best, cost.batches, timed)
          /\ cost.published = <<[nanos |-> best, captures |-> captures]>>
          /\ timed \in Seq(Timing) /\ best \in Nat
        BY <1>2 DEF CostHolds
    <2>2. /\ DOMAIN cost.published = {1} /\ cost.published[1].nanos = best
          /\ cost.published[1].captures = captures
        BY <2>1
    <2> DEFINE times == {timed[j].elapsed : j \in of}
    <2>3. /\ Cardinality(of) = cost.batches /\ best \in times /\ \A x \in times : best =< x
          /\ \E j \in of : timed[j].elapsed >= TARGET
        BY <2>1 DEF Measures
    <2>4. times \subseteq Nat
        <3>1. \A j \in of : timed[j] \in Timing
            BY <2>1 DEF BatchesOf
        <3> QED
            BY <3>1, CostConstants DEF Timing
    <2>5. best = Unw!Min(times)
        <3> HIDE DEF times, best
        <3>1. \A x \in times : (\A y \in times : x =< y) => x = best
            BY <2>1, <2>3, <2>4
        <3> QED
            BY <2>3, <3>1 DEF Unw!Min
    <2>6. Unw!Cardinality(of) <= BATCHES
        BY <2>1, <2>3, SameFiniteness, CostConstants
    <2>7. of = {j \in DOMAIN cost.timed : cost.timed[j].captures = cost.published[1].captures}
        BY <2>2 DEF BatchesOf
    <2>8. times = {cost.timed[j].elapsed : j \in of}
        OBVIOUS
    <2>9. \A i \in DOMAIN cost.published : i = 1
        BY <2>2
    <2> HIDE DEF times, of
    <2>10. \A i \in DOMAIN cost.published :
           LET of1 == {j \in DOMAIN cost.timed : cost.timed[j].captures = cost.published[i].captures} IN
           /\ Unw!Cardinality(of1) <= BATCHES
           /\ cost.published[i].nanos = Unw!Min({cost.timed[j].elapsed : j \in of1})
           /\ \E j \in of1 : cost.timed[j].elapsed >= TARGET
        BY <2>2, <2>3, <2>5, <2>6, <2>7, <2>8, <2>9
    <2> QED
        BY <2>10 DEF CostHolds, Unw!CostIsMeasured
<1> QED
    BY <1>1, <1>2


\* A batch before the clock could time one, or the one that it could.
LEMMA FirstKeeps ==
    ASSUME Unw!ConstantsAssumption, CostHolds, Unw!FirstBatches
    PROVE  CostHolds'
<1> DEFINE captures == cost.captures  spent == cost.spent  timed == cost.timed
<1>1. PICK elapsed \in Elapsed :
          cost' = [cost EXCEPT
              !.best = elapsed, !.spent = @ + elapsed, !.timed = Unw!Timed(elapsed),
              !.captures = IF Unw!StopsGrowing(elapsed) THEN @ ELSE @ * 2,
              !.batches = IF ~Unw!StopsGrowing(elapsed) THEN 0
                          ELSE IF elapsed < TARGET THEN BATCHES + 1 ELSE 1]
    BY DEF Unw!FirstBatches
<1> DEFINE one == [captures |-> captures, elapsed |-> elapsed]
           more == Append(timed, one)
           grown == IF Unw!StopsGrowing(elapsed) THEN captures ELSE captures * 2
           count == IF ~Unw!StopsGrowing(elapsed) THEN 0
                    ELSE IF elapsed < TARGET THEN BATCHES + 1 ELSE 1
           after == spent + elapsed
<1>2. /\ cost \in [captures : Nat \ {0}, best : Nat, spent : Nat, batches : Nat,
                   timed : Seq(Timing), published : Seq([nanos : Nat, captures : Nat])]
      /\ captures \in Nat \ {0} /\ spent \in Nat /\ timed \in Seq(Timing)
      /\ captures <= 2 * MAX_BATCH /\ spent < BUDGET
      /\ \A j \in DOMAIN timed : timed[j].captures < captures
    BY DEF CostHolds, Unw!FirstBatches
<1>3. cost.published = <<>>
    BY DEF CostHolds, Unw!FirstBatches
<1>4. /\ cost'.captures = grown /\ cost'.best = elapsed /\ cost'.spent = after
      /\ cost'.batches = count /\ cost'.timed = more /\ cost'.published = <<>>
      /\ cost' \in [captures : {grown}, best : {elapsed}, spent : {after}, batches : {count},
                    timed : {more}, published : {<<>>}]
    BY <1>1, <1>2, <1>3 DEF Unw!Timed
<1>5. Unw!StopsGrowing(elapsed) <=>
          elapsed >= TARGET \/ captures >= MAX_BATCH \/ after >= BUDGET
    BY DEF Unw!StopsGrowing
<1>a. one \in Timing /\ one.captures = captures /\ one.elapsed = elapsed
    BY <1>2 DEF Timing
<1>6. Measures(captures, elapsed, 1, more) \/ elapsed < TARGET
    <2> SUFFICES ASSUME ~(elapsed < TARGET) PROVE Measures(captures, elapsed, 1, more)
        OBVIOUS
    <2>1. /\ captures \in Nat /\ elapsed >= TARGET /\ Elapsed \subseteq Nat
          /\ timed \in Seq(Timing)
        BY <1>2, CostConstants
    <2>2. \A j \in DOMAIN timed : timed[j].captures < captures
        BY <1>2
    <2> HIDE DEF captures, timed
    <2> QED
        BY <2>1, <2>2, FirstMeasures, Zenon DEF more, one
<1> HIDE DEF captures, spent, timed, more, one
<1>7. /\ more \in Seq(Timing) /\ Len(timed) \in Nat /\ DOMAIN timed = 1..Len(timed)
      /\ DOMAIN more = 1..(Len(timed) + 1) /\ more[Len(timed) + 1].captures = captures
      /\ \A j \in 1..Len(timed) : more[j] = timed[j]
    <2>1. timed \in Seq(Timing) /\ captures \in Nat
        BY <1>2
    <2> QED
        BY <2>1, <1>a, BatchesGrow DEF more
<1>8. /\ elapsed \in Nat /\ Unw!Max(Elapsed) \in Nat /\ elapsed <= Unw!Max(Elapsed)
      /\ BATCHES \in Nat \ {0} /\ MAX_BATCH \in Nat /\ BUDGET \in Nat /\ TARGET \in Nat
    BY CostConstants
<1>9. grown \in Nat \ {0} /\ count \in Nat /\ after \in Nat /\ grown <= 2 * MAX_BATCH
    BY <1>2, <1>5, <1>8
<1>10. after < BUDGET + Unw!Max(Elapsed)
    BY <1>2, <1>8
<1>11. ASSUME count = 0
       PROVE  after < BUDGET /\ \A j \in DOMAIN more : more[j].captures < grown
    <2>1. ~Unw!StopsGrowing(elapsed)
        BY <1>8, <1>11
    <2>2. after < BUDGET /\ grown = captures * 2 /\ captures < grown
        BY <1>2, <1>5, <1>8, <2>1
    <2>3. ASSUME NEW j \in DOMAIN more PROVE more[j].captures < grown
        <3>1. CASE j = Len(timed) + 1
            BY <1>7, <2>2, <3>1
        <3>2. CASE j # Len(timed) + 1
            <4>1. j \in 1..Len(timed)
                BY <1>7, <3>2
            <4> DEFINE size == timed[j].captures
            <4>2. more[j].captures = size /\ size < captures
                BY <1>2, <1>7, <4>1
            <4>3. size \in Nat
                <5>1. timed[j] \in Timing
                    BY <1>2, <4>1
                <5> QED
                    BY <5>1 DEF Timing
            <4> HIDE DEF size, grown
            <4> QED
                BY <1>2, <1>9, <2>2, <4>2, <4>3
        <3> QED
            BY <3>1, <3>2
    <2> QED
        BY <2>2, <2>3
<1>12. ASSUME count \in 1..BATCHES
       PROVE  Measures(grown, elapsed, count, more)
    <2>1. Unw!StopsGrowing(elapsed) /\ ~(elapsed < TARGET)
        BY <1>8, <1>12
    <2>2. grown = captures /\ count = 1
        BY <2>1
    <2> QED
        BY <1>6, <2>1, <2>2
<1> HIDE DEF grown, count, after
<1>13. cost' \in [captures : Nat \ {0}, best : Nat, spent : Nat, batches : Nat,
                  timed : Seq(Timing), published : Seq([nanos : Nat, captures : Nat])]
    <2>1. <<>> \in Seq([nanos : Nat, captures : Nat])
        OBVIOUS
    <2> QED
        BY <1>4, <1>7, <1>8, <1>9, <2>1
<1> QED
    BY <1>4, <1>9, <1>10, <1>11, <1>12, <1>13 DEF CostHolds

LEMMA LaterKeeps ==
    ASSUME Unw!ConstantsAssumption, CostHolds, Unw!LaterBatches
    PROVE  CostHolds'
<1> DEFINE captures == cost.captures  spent == cost.spent  timed == cost.timed
           best == cost.best  batches == cost.batches
<1>1. PICK elapsed \in Elapsed :
          cost' = [cost EXCEPT !.best = Unw!Fastest(@, elapsed), !.spent = @ + elapsed,
                               !.timed = Unw!Timed(elapsed), !.batches = @ + 1]
    BY DEF Unw!LaterBatches
<1> DEFINE one == [captures |-> captures, elapsed |-> elapsed]
           more == Append(timed, one)
           fastest == Unw!Fastest(best, elapsed)
           after == spent + elapsed
<1>2. /\ cost \in [captures : Nat \ {0}, best : Nat, spent : Nat, batches : Nat,
                   timed : Seq(Timing), published : Seq([nanos : Nat, captures : Nat])]
      /\ captures \in Nat \ {0} /\ spent \in Nat /\ timed \in Seq(Timing) /\ best \in Nat
      /\ captures <= 2 * MAX_BATCH /\ spent < BUDGET
      /\ batches \in 1..(BATCHES - 1) /\ cost.published = <<>> /\ batches \in Nat
    BY DEF CostHolds, Unw!LaterBatches
<1>3. Measures(captures, best, batches, timed)
    <2>1. batches \in 1..BATCHES
        BY <1>2, CostConstants
    <2> QED
        BY <2>1 DEF CostHolds
<1>4. /\ cost'.captures = captures /\ cost'.best = fastest /\ cost'.spent = after
      /\ cost'.batches = batches + 1 /\ cost'.timed = more /\ cost'.published = <<>>
      /\ cost' \in [captures : {captures}, best : {fastest}, spent : {after},
                    batches : {batches + 1}, timed : {more}, published : {<<>>}]
    BY <1>1, <1>2 DEF Unw!Timed
<1>5. Measures(captures, fastest, batches + 1, more)
    BY <1>2, <1>3, NextMeasures, CostConstants
<1>a. one \in Timing /\ one.captures = captures /\ one.elapsed = elapsed
    BY <1>2 DEF Timing
<1> HIDE DEF captures, spent, timed, best, batches, more, one
<1>6. more \in Seq(Timing)
    BY <1>2, <1>a, BatchesGrow DEF more
<1>7. /\ elapsed \in Nat /\ Unw!Max(Elapsed) \in Nat /\ elapsed <= Unw!Max(Elapsed)
      /\ BATCHES \in Nat \ {0} /\ MAX_BATCH \in Nat /\ BUDGET \in Nat
    BY CostConstants
<1>8. fastest \in Nat /\ after \in Nat /\ after < BUDGET + Unw!Max(Elapsed)
      /\ batches + 1 \in 1..BATCHES /\ batches + 1 # 0 /\ batches + 1 \in Nat
    BY <1>2, <1>7, FastestIs
<1> HIDE DEF fastest, after
<1>9. cost' \in [captures : Nat \ {0}, best : Nat, spent : Nat, batches : Nat,
                 timed : Seq(Timing), published : Seq([nanos : Nat, captures : Nat])]
    BY <1>2, <1>4, <1>6, <1>8
<1> QED
    BY <1>2, <1>4, <1>5, <1>8, <1>9 DEF CostHolds

LEMMA PublishKeeps ==
    ASSUME Unw!ConstantsAssumption, CostHolds, Unw!Publishes
    PROVE  CostHolds'
<1> DEFINE one == <<[nanos |-> cost.best, captures |-> cost.captures]>>
<1>1. /\ cost' = [cost EXCEPT !.published = one]
      /\ cost.batches \in 1..BATCHES
    BY DEF Unw!Publishes
<1>2. /\ cost \in [captures : Nat \ {0}, best : Nat, spent : Nat, batches : Nat,
                   timed : Seq(Timing), published : Seq([nanos : Nat, captures : Nat])]
      /\ cost.captures <= 2 * MAX_BATCH
      /\ cost.spent < BUDGET + Unw!Max(Elapsed)
      /\ Measures(cost.captures, cost.best, cost.batches, cost.timed)
    BY <1>1 DEF CostHolds
<1>3. one \in Seq([nanos : Nat, captures : Nat])
    BY <1>2
<1>4. one = <<[nanos |-> cost.best, captures |-> cost.captures]>>
    OBVIOUS
<1> HIDE DEF one
<1>5. /\ cost' \in [captures : Nat \ {0}, best : Nat, spent : Nat, batches : Nat,
                    timed : Seq(Timing), published : Seq([nanos : Nat, captures : Nat])]
      /\ cost'.captures = cost.captures /\ cost'.best = cost.best /\ cost'.spent = cost.spent
      /\ cost'.batches = cost.batches /\ cost'.timed = cost.timed /\ cost'.published = one
    BY <1>1, <1>2, <1>3
<1>6. cost.batches # 0
    BY <1>1
<1> QED
    BY <1>1, <1>2, <1>4, <1>5, <1>6 DEF CostHolds

LEMMA CostStep ==
    ASSUME Unw!ConstantsAssumption, CostHolds, [Unw!Next]_Unw!vars
    PROVE  CostHolds'
<1>1. CASE Unw!FirstBatches
    BY <1>1, FirstKeeps
<1>2. CASE Unw!LaterBatches
    BY <1>2, LaterKeeps
<1>3. CASE Unw!Publishes
    BY <1>3, PublishKeeps
<1>4. CASE UNCHANGED cost
    BY <1>4 DEF CostHolds
<1> QED
    BY <1>1, <1>2, <1>3, <1>4
       DEF Unw!Next, Unw!vars, Unw!HasNoPointer, Unw!StopsAtLink, Unw!LeavesTheStack, Unw!ReadsRecord

\* A walk reads whole records of its own stack, each above the last, puts out the
\* frames it read but for those to discard and says complete only of a chain that
\* ended (walk, is_plausible, frame_at); the cost published is the fastest of the
\* batches of one size, of which the clock could time one, and measuring overruns
\* its budget by one batch at most (measure_cost).
THEOREM UnwindingHolds ==
    ASSUME Unw!ConstantsAssumption
    PROVE  Unw!Spec => [](Unw!WalksTheStack /\ Unw!CostIsMeasured)
<1>1. Unw!Init => WalkHolds /\ CostHolds
    BY WalkInitially, CostInitially DEF Unw!Init
<1>2. WalkHolds /\ CostHolds /\ [Unw!Next]_Unw!vars => WalkHolds' /\ CostHolds'
    BY WalkStep, CostStep
<1>3. WalkHolds /\ CostHolds => Unw!WalksTheStack /\ Unw!CostIsMeasured
    BY WalkSays, CostSays
<1> QED
    BY <1>1, <1>2, <1>3, PTL DEF Unw!Spec
=============================================================================
