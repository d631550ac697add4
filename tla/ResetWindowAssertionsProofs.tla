--------------------- MODULE ResetWindowAssertionsProofs ---------------------
(***************************************************************************)
(* A reading is of one window (ResetWindow.tla), proved for any number of  *)
(* readers, recorders and restarts, whichever messages the loads choose.   *)
(*                                                                         *)
(* A counter of window w is released after the odd store of that window,   *)
(* which is the 2w-th message of the sequence (Released): a reader that    *)
(* has one and then meets the even message before it has seen neither the  *)
(* counter nor the window.  The even message, the (2w+1)-th, is released   *)
(* after the counters of w, or after the poison of a restart that did not  *)
(* get to them (Restarted): a reader that has it loads no older counter.   *)
(***************************************************************************)
(***************************************************************************)
(* And what reads such a window to judge it, Assertions.tla: a passing     *)
(* assertion is a fact about the program, for any limits, any room in the  *)
(* live-block table and any number of events.  Its part begins at Asr.     *)
(***************************************************************************)
EXTENDS ResetWindow, SequenceTheorems, TLAPS

Counters == {"total", "max"}
Values == 0..(2 * MaxResets)
Messages == [value : Values, view : Views]
Memories == [Locations -> Seq(Messages)]
PCs == {"idle", "odd", "total", "max", "even", "leave", "peak", "before", "probe",
        "load_max", "load_total", "fence", "after", "poison_check"}
Readings == [host : Threads, before : Values, max : Values, total : Values,
             answer : {"none", "read", "poisoned", "reset in progress"}]

Typed ==
    /\ memory \in Memories
    /\ gate \in Threads \cup {"open"}
    /\ events \in 0..MaxEvents
    /\ pc \in [Threads -> PCs]
    /\ reading \in [Readers -> Readings]

\* The messages of a view are there, and a view is no older than another.
Within(mem, v) == v \in Views /\ \A l \in Locations : v[l] <= Len(mem[l])
Below(v, w) == \A l \in Locations : v[l] <= w[l]
Extends(mem, mem2) ==
    \A l \in Locations : /\ Len(mem[l]) <= Len(mem2[l])
                         /\ \A i \in 1..Len(mem[l]) : mem2[l][i] = mem[l][i]

Known ==
    /\ {cur, acq, rel} \subseteq [Threads -> Views]
    /\ \A t \in Threads : Within(memory, cur[t]) /\ Within(memory, acq[t]) /\ Within(memory, rel[t])
    /\ Within(memory, gate_view)

\* What is written, and in which order.
Written(mem) ==
    /\ \A l \in Locations : Len(mem[l]) >= 1 /\ \A i \in 1..Len(mem[l]) :
          mem[l][i].view[l] = i /\ Within(mem, mem[l][i].view)
    /\ \A i \in 1..Len(mem["sequence"]) : mem["sequence"][i].value = i - 1
    /\ \A i \in 1..Len(mem["poisoned"]) : mem["poisoned"][i].value = IF i = 1 THEN 0 ELSE 1
    /\ \A l \in Counters : \A i, j \in 1..Len(mem[l]) :
          i <= j => mem[l][i].value <= mem[l][j].value
    /\ mem["max"][Len(mem["max"])].value <= mem["total"][Len(mem["total"])].value

\* A counter of window w is released after the odd store that began w.
Released(mem) ==
    \A l \in Counters : \A i \in 1..Len(mem[l]) :
        2 * mem[l][i].value <= mem[l][i].view["sequence"]

\* A view with the counters of the window that sequence number s ends, or with
\* the poison.
Shows(mem, v, s) == v["poisoned"] >= 2
                       \/ \A l \in Counters : s <= 2 * mem[l][v[l]].value

Restarted(mem) ==
    \A i \in 1..Len(mem["sequence"]) :
        i % 2 = 1 => Shows(mem, mem["sequence"][i].view, i - 1)

Stored(mem) == Written(mem) /\ Released(mem) /\ Restarted(mem)

\* The restart's steps, and who is inside the gate.
Restart ==
    LET at == pc[Restarter]
        me == cur[Restarter]
    IN  /\ gate = Restarter <=> at # "idle"
        /\ at \in {"idle", "odd", "total", "max", "even", "leave"}
        /\ at \in {"idle", "odd", "leave"} => Newest("sequence") % 2 = 1
        /\ at = "odd" => Newest("sequence") - 1 < 2 * MaxResets
        /\ at \in {"total", "max", "even"} =>
              Newest("sequence") % 2 = 0 /\ rel[Restarter]["sequence"] = Newest("sequence")
                 /\ Newest("sequence") <= 2 * MaxResets
        /\ at \in {"total", "max", "even", "leave"} => me["sequence"] = Newest("sequence")
        /\ at = "max" => Newest("sequence") <= 2 * memory["total"][me["total"]].value
        /\ at = "even" => Shows(memory, me, Newest("sequence"))

\* Whoever is inside the gate, or was, has seen every store of the sequence.
InGate ==
    /\ gate # Restarter => gate_view["sequence"] = Newest("sequence")
    /\ \A t \in Recorders : pc[t] \in {"idle", "peak"}
          /\ (pc[t] = "peak" => gate = t /\ cur[t]["sequence"] = Newest("sequence"))

\* What a reader that is at the program counter at has loaded, and what its host
\* has seen (v) or will with its next fence (w).
HasMax == {"load_total", "fence", "after", "poison_check"}
HasTotal == {"fence", "after", "poison_check"}
HasBefore == {"load_max"} \cup HasMax

Loaded(value, before, at, v, w) ==
    /\ v["poisoned"] >= 2 \/ before <= 2 * value
    /\ 2 * value <= w["sequence"]
    /\ at \in {"after", "poison_check"} => 2 * value <= v["sequence"]
    /\ at = "poison_check" => 2 * value <= before

Read(mem, at, has, v, w) ==
    /\ at \in {"idle", "before", "probe"} \cup HasBefore
    /\ at # "idle" => has.answer = "none"
    /\ at \in HasBefore => has.before % 2 = 0 /\ Shows(mem, v, has.before)
    /\ at \in HasMax => Loaded(has.max, has.before, at, v, w)
    /\ at \in HasTotal => Loaded(has.total, has.before, at, v, w)

Reading ==
    \A r \in Readers : /\ Host(r) \in {r, Restarter}
                       /\ Read(memory, pc[r], reading[r], cur[Host(r)], acq[Host(r)])

IInv == Typed /\ Known /\ Stored(memory) /\ Restart /\ InGate /\ Reading /\ ReadingIsOneWindow

-----------------------------------------------------------------------------
(* Views and messages *)

LEMMA Parity == \A i \in Nat : i % 2 = 1 => i - 1 \in Nat /\ (i - 1) % 2 = 0
OBVIOUS

LEMMA Halves == \A i \in Nat : i % 2 = 0 => i \div 2 \in Nat /\ 2 * (i \div 2) = i
OBVIOUS

LEMMA EvenBelow == \A i, j \in Nat : i % 2 = 0 /\ 2 * j <= i + 1 => 2 * j <= i
OBVIOUS

LEMMA HalfOfDouble == \A i, j \in Nat : i = 2 * j => j = i \div 2
OBVIOUS

LEMMA ValuesAreNat == Values \subseteq Nat
BY BoundsAssumption DEF Values

\* A join of two views is within what both are, and has what either has.
LEMMA JoinIsAbove ==
    ASSUME NEW mem \in Memories, NEW v, NEW w, Within(mem, v), Within(mem, w)
    PROVE  Within(mem, Join(v, w)) /\ Below(v, Join(v, w)) /\ Below(w, Join(v, w))
BY DEF Within, Below, Join, Views

\* So is a view that goes on to a later message.
LEMMA SeenIsAbove ==
    ASSUME NEW mem \in Memories, NEW v, Within(mem, v), NEW l \in Locations,
           NEW i \in 1..Len(mem[l]), v[l] <= i
    PROVE  /\ Within(mem, Seen(v, l, i)) /\ Below(v, Seen(v, l, i))
           /\ Seen(v, l, i)[l] = i
           /\ \A k \in Locations : k # l => Seen(v, l, i)[k] = v[k]
BY DEF Within, Below, Seen, Views

LEMMA BelowItself == ASSUME NEW v \in Views PROVE Below(v, v)
BY DEF Below, Views

\* More messages.
LEMMA WithinStays ==
    ASSUME NEW mem \in Memories, NEW mem2 \in Memories, Extends(mem, mem2), NEW v, Within(mem, v)
    PROVE  Within(mem2, v)
BY DEF Within, Extends, Views, Memories

\* What a view shows, a later one shows of a later memory.
LEMMA ShowsStays ==
    ASSUME NEW mem \in Memories, NEW mem2 \in Memories, Extends(mem, mem2), Written(mem2),
           NEW v, Within(mem, v), NEW w, Within(mem2, w), Below(v, w),
           NEW s \in Nat, Shows(mem, v, s)
    PROVE  Shows(mem2, w, s)
<1>1. CASE v["poisoned"] >= 2
    BY <1>1 DEF Shows, Below, Within, Views, Locations
<1>2. CASE \A l \in Counters : s <= 2 * mem[l][v[l]].value
    <2> SUFFICES ASSUME NEW l \in Counters PROVE s <= 2 * mem2[l][w[l]].value
        BY DEF Shows
    <2>1. l \in Locations /\ mem2[l] \in Seq(Messages)
        BY DEF Counters, Locations, Memories
    <2>2. v[l] \in 1..Len(mem[l]) /\ v[l] \in 1..Len(mem2[l]) /\ w[l] \in 1..Len(mem2[l]) /\ v[l] <= w[l]
        BY <2>1 DEF Within, Below, Views, Extends, Memories
    <2>3. mem2[l][v[l]] = mem[l][v[l]]
        BY <2>1, <2>2 DEF Extends
    <2>4. mem2[l][v[l]].value <= mem2[l][w[l]].value
        BY <2>2 DEF Written
    <2>5. mem2[l][v[l]] \in Messages /\ mem2[l][w[l]] \in Messages
        BY <2>1, <2>2
    <2>6. mem2[l][v[l]].value \in Nat /\ mem2[l][w[l]].value \in Nat
        BY <2>5, ValuesAreNat DEF Messages
    <2> QED
        BY <1>2, <2>3, <2>4, <2>6
<1> QED
    BY <1>1, <1>2 DEF Shows

\* A reading that did not move holds of later views and a later memory.
LEMMA ReadStays ==
    ASSUME NEW mem \in Memories, NEW mem2 \in Memories, Extends(mem, mem2), Written(mem2),
           NEW v, Within(mem, v), NEW v2, Within(mem2, v2), Below(v, v2),
           NEW w \in Views, NEW w2 \in Views, Below(w, w2),
           NEW at, NEW has \in Readings, Read(mem, at, has, v, w)
    PROVE  Read(mem2, at, has, v2, w2)
<1>1. has.before \in Nat /\ has.max \in Nat /\ has.total \in Nat
    BY ValuesAreNat DEF Readings
<1>2. ASSUME NEW value \in Nat, Loaded(value, has.before, at, v, w)
      PROVE  Loaded(value, has.before, at, v2, w2)
    <2>1. /\ v["poisoned"] \in Nat /\ v2["poisoned"] \in Nat /\ v["poisoned"] <= v2["poisoned"]
          /\ v["sequence"] \in Nat /\ v2["sequence"] \in Nat /\ v["sequence"] <= v2["sequence"]
          /\ w["sequence"] \in Nat /\ w2["sequence"] \in Nat /\ w["sequence"] <= w2["sequence"]
        BY DEF Within, Views, Below, Locations
    <2> QED
        BY <1>1, <1>2, <2>1 DEF Loaded
<1>3. at \in HasBefore => Shows(mem2, v2, has.before)
    BY <1>1, ShowsStays DEF Read
<1> QED
    BY <1>1, <1>2, <1>3 DEF Read

\* What a message must be for the memory to stay as it is stored: the next number
\* of the sequence, the poison, or a counter of no earlier window; released with
\* the view x.
Fits(mem, l, value, x) ==
    /\ l = "sequence" => value = Len(mem[l]) /\ (value % 2 = 0 => Shows(mem, x, value))
    /\ l = "poisoned" => value = 1
    /\ l \in Counters => mem[l][Len(mem[l])].value <= value /\ 2 * value <= x["sequence"]
    /\ l = "max" => value <= mem["total"][Len(mem["total"])].value

LEMMA AppendStored ==
    ASSUME NEW mem \in Memories, Stored(mem), NEW l \in Locations, NEW value \in Values,
           NEW x, Within(mem, x), Fits(mem, l, value, x),
           NEW mem2, mem2 = [mem EXCEPT ![l] =
                        Append(@, [value |-> value, view |-> Seen(x, l, Len(mem[l]) + 1)])]
    PROVE  mem2 \in Memories /\ Extends(mem, mem2) /\ Stored(mem2)
<1> DEFINE m == [value |-> value, view |-> Seen(x, l, Len(mem[l]) + 1)]
<1>0. \A k \in Locations : mem[k] \in Seq(Messages) /\ Len(mem[k]) \in Nat /\ Len(mem[k]) >= 1
    BY DEF Memories, Stored, Written
<1>1. m \in Messages
    BY <1>0 DEF Messages, Within, Views, Seen
<1>2. /\ mem2 \in Memories /\ Extends(mem, mem2)
      /\ Len(mem2[l]) = Len(mem[l]) + 1 /\ mem2[l][Len(mem[l]) + 1] = m
      /\ \A k \in Locations : k # l => mem2[k] = mem[k]
    <2>1. mem2 = [mem EXCEPT ![l] = Append(@, m)]
        OBVIOUS
    <2> HIDE DEF m
    <2> QED
        BY <1>1, <2>1 DEF Memories, Extends
<1>3. Within(mem2, x)
    BY <1>2, WithinStays
<1>4. /\ Within(mem2, m.view) /\ Below(x, m.view) /\ m.view[l] = Len(mem[l]) + 1
      /\ \A k \in Locations : k # l => m.view[k] = x[k]
    <2> DEFINE n == Len(mem[l]) + 1
    <2>1. x[l] <= n /\ n \in 1..Len(mem2[l])
        BY <1>0, <1>2 DEF Within, Views
    <2>2. m.view = Seen(x, l, n)
        OBVIOUS
    <2> HIDE DEF m, n
    <2>3. /\ Within(mem2, Seen(x, l, n)) /\ Below(x, Seen(x, l, n)) /\ Seen(x, l, n)[l] = n
          /\ \A k \in Locations : k # l => Seen(x, l, n)[k] = x[k]
        BY <1>3, <2>1 DEF Within, Below, Seen, Views
    <2> QED
        BY <2>2, <2>3 DEF n
<1> HIDE DEF m
<1>5. ASSUME NEW k \in Locations, NEW i \in 1..Len(mem2[k])
      PROVE  \/ i \in 1..Len(mem[k]) /\ mem2[k][i] = mem[k][i]
             \/ k = l /\ i = Len(mem[l]) + 1 /\ mem2[k][i] = m
    BY <1>0, <1>2 DEF Extends
<1>6. m.value = value
    BY DEF m
<1>7. \A k \in Locations : Len(mem2[k]) \in Nat /\ Len(mem2[k]) >= 1
    BY <1>0, <1>2
<1>8. \A k \in Locations : \A i \in 1..Len(mem[k]) : mem[k][i].value \in Nat
    <2> SUFFICES ASSUME NEW k \in Locations, NEW i \in 1..Len(mem[k]) PROVE mem[k][i].value \in Nat
        OBVIOUS
    <2>1. mem[k][i] \in Messages
        BY <1>0
    <2> QED
        BY <2>1, ValuesAreNat DEF Messages
<1>9. Written(mem2)
    <2>1. \A k \in Locations : Len(mem2[k]) >= 1 /\ \A i \in 1..Len(mem2[k]) :
              mem2[k][i].view[k] = i /\ Within(mem2, mem2[k][i].view)
        <3> SUFFICES ASSUME NEW k \in Locations, NEW i \in 1..Len(mem2[k])
                     PROVE  mem2[k][i].view[k] = i /\ Within(mem2, mem2[k][i].view)
            BY <1>7
        <3>1. CASE i \in 1..Len(mem[k]) /\ mem2[k][i] = mem[k][i]
            <4>1. mem[k][i].view[k] = i /\ Within(mem, mem[k][i].view)
                BY <3>1 DEF Stored, Written
            <4> QED
                BY <1>2, <3>1, <4>1, WithinStays
        <3>2. CASE k = l /\ i = Len(mem[l]) + 1 /\ mem2[k][i] = m
            BY <1>4, <3>2
        <3> QED
            BY <1>5, <3>1, <3>2
    <2>2. \A i \in 1..Len(mem2["sequence"]) : mem2["sequence"][i].value = i - 1
        BY <1>0, <1>5, <1>6 DEF Stored, Written, Fits, Locations
    <2>3. \A i \in 1..Len(mem2["poisoned"]) :
              mem2["poisoned"][i].value = IF i = 1 THEN 0 ELSE 1
        BY <1>0, <1>5, <1>6 DEF Stored, Written, Fits, Locations
    <2>4. \A k \in Counters : \A i, j \in 1..Len(mem2[k]) :
              i <= j => mem2[k][i].value <= mem2[k][j].value
        <3> SUFFICES ASSUME NEW k \in Counters, NEW i \in 1..Len(mem2[k]),
                            NEW j \in 1..Len(mem2[k]), i <= j
                     PROVE  mem2[k][i].value <= mem2[k][j].value
            OBVIOUS
        <3>1. k \in Locations
            BY DEF Counters, Locations
        <3>2. CASE j \in 1..Len(mem[k])
            <4>1. i \in 1..Len(mem[k])
                BY <1>0, <3>1, <3>2
            <4>2. mem2[k][i] = mem[k][i] /\ mem2[k][j] = mem[k][j]
                BY <1>2, <3>1, <3>2, <4>1 DEF Extends
            <4> QED
                BY <3>2, <4>1, <4>2 DEF Stored, Written
        <3>3. CASE k = l /\ j = Len(mem[l]) + 1 /\ mem2[k][j] = m
            <4>1. CASE i = j
                BY <1>6, <3>3, <4>1, ValuesAreNat
            <4>2. CASE i \in 1..Len(mem[k]) /\ mem2[k][i] = mem[k][i]
                <5>1. Len(mem[k]) \in 1..Len(mem[k]) /\ i <= Len(mem[k])
                    BY <1>0, <3>1, <4>2
                <5>2. mem[k][i].value <= mem[k][Len(mem[k])].value
                    BY <4>2, <5>1 DEF Stored, Written
                <5>3. mem[k][Len(mem[k])].value <= value
                    BY <3>3 DEF Fits
                <5> QED
                    BY <1>6, <1>8, <3>1, <3>3, <4>2, <5>1, <5>2, <5>3, ValuesAreNat
            <4> QED
                BY <1>5, <3>1, <3>3, <4>1, <4>2
        <3> QED
            BY <1>5, <3>1, <3>2, <3>3
    <2>5. mem2["max"][Len(mem2["max"])].value <= mem2["total"][Len(mem2["total"])].value
        <3>1. {"max", "total"} \subseteq Locations /\ {"max", "total"} \subseteq Counters
            BY DEF Locations, Counters
        <3>2. /\ Len(mem["max"]) \in 1..Len(mem["max"])
              /\ Len(mem["total"]) \in 1..Len(mem["total"])
            BY <1>0, <3>1
        <3>3. mem["max"][Len(mem["max"])].value <= mem["total"][Len(mem["total"])].value
            BY DEF Stored, Written
        <3>4. CASE l = "max"
            BY <1>2, <1>6, <3>1, <3>4 DEF Fits
        <3>5. CASE l = "total"
            <4>1. mem["total"][Len(mem["total"])].value <= value
                BY <3>1, <3>5 DEF Fits
            <4>2. /\ mem2["max"] = mem["max"]
                  /\ mem2["total"][Len(mem2["total"])].value = value
                BY <1>2, <1>6, <3>1, <3>5
            <4>3. /\ mem["max"][Len(mem["max"])].value \in Nat
                  /\ mem["total"][Len(mem["total"])].value \in Nat /\ value \in Nat
                BY <1>8, <3>1, <3>2, ValuesAreNat
            <4> QED
                BY <3>3, <4>1, <4>2, <4>3
        <3>6. CASE l \notin {"max", "total"}
            BY <1>2, <3>1, <3>3, <3>6
        <3> QED
            BY <3>4, <3>5, <3>6
    <2> QED
        BY <2>1, <2>2, <2>3, <2>4, <2>5 DEF Written
<1>10. Released(mem2)
    <2> SUFFICES ASSUME NEW k \in Counters, NEW i \in 1..Len(mem2[k])
                 PROVE  2 * mem2[k][i].value <= mem2[k][i].view["sequence"]
        BY DEF Released
    <2>1. k \in Locations /\ k # "sequence" /\ "sequence" \in Locations
        BY DEF Counters, Locations
    <2>2. CASE i \in 1..Len(mem[k]) /\ mem2[k][i] = mem[k][i]
        BY <2>2 DEF Stored, Released
    <2>3. CASE k = l /\ i = Len(mem[l]) + 1 /\ mem2[k][i] = m
        BY <1>4, <1>6, <2>1, <2>3 DEF Fits
    <2> QED
        BY <1>5, <2>1, <2>2, <2>3
<1>11. Restarted(mem2)
    <2> SUFFICES ASSUME NEW i \in 1..Len(mem2["sequence"]), i % 2 = 1
                 PROVE  Shows(mem2, mem2["sequence"][i].view, i - 1)
        BY DEF Restarted
    <2>1. "sequence" \in Locations /\ i - 1 \in Nat
        BY DEF Locations
    <2>2. CASE i \in 1..Len(mem["sequence"]) /\ mem2["sequence"][i] = mem["sequence"][i]
        <3> DEFINE v == mem["sequence"][i].view
        <3>1. Within(mem, v) /\ Shows(mem, v, i - 1)
            BY <2>1, <2>2 DEF Stored, Written, Restarted
        <3> HIDE DEF v
        <3>2. Within(mem2, v)
            BY <1>2, <3>1, WithinStays
        <3>3. Below(v, v)
            BY <3>2, BelowItself DEF Within
        <3>4. Shows(mem2, v, i - 1)
            BY <1>2, <1>9, <2>1, <3>1, <3>2, <3>3, ShowsStays
        <3> QED
            BY <2>2, <3>4 DEF v
    <2>3. CASE "sequence" = l /\ i = Len(mem[l]) + 1 /\ mem2["sequence"][i] = m
        <3>0. i \in Nat /\ value = i - 1
            BY <1>0, <2>3 DEF Fits
        <3>1. value = i - 1 /\ value \in Nat /\ value % 2 = 0
            BY <3>0, Parity
        <3>2. Shows(mem, x, value)
            BY <2>3, <3>1 DEF Fits
        <3>3. Shows(mem2, m.view, value)
            BY <1>2, <1>4, <1>9, <3>1, <3>2, ShowsStays
        <3> QED
            BY <2>3, <3>1, <3>3
    <2> QED
        BY <1>5, <2>1, <2>2, <2>3
<1> QED
    BY <1>2, <1>9, <1>10, <1>11 DEF Stored

-----------------------------------------------------------------------------
(* Steps *)

\* No thread's knowledge falls.
Grows == \A u \in Threads : Below(cur[u], cur'[u]) /\ Below(acq[u], acq'[u])

LEMMA Places == /\ Restarter \in Threads /\ Readers \subseteq Threads /\ Recorders \subseteq Threads
                /\ Locations = {"sequence", "poisoned"} \cup Counters
                /\ {"sequence", "total", "max", "poisoned"} \subseteq Locations
                /\ Restarter \notin Recorders /\ Restarter \notin Readers /\ "open" \notin Threads
                /\ Recorders \cap Readers = {}
BY ThreadsAssumption DEF Threads, Locations, Counters

\* A store that fits.
LEMMA AfterWrite ==
    ASSUME Typed, Stored(memory), NEW l \in Locations, NEW value \in Values,
           NEW x, Within(memory, x), Fits(memory, l, value, x), Write(l, value, Seen(x, l, NextOf(l)))
    PROVE  /\ memory' \in Memories /\ Extends(memory, memory') /\ Stored(memory')
           /\ Newest(l)' = Newest(l) + 1 /\ memory'[l][Newest(l) + 1].value = value
           /\ \A k \in Locations : k # l => memory'[k] = memory[k]
<1>1. memory' \in Memories /\ Extends(memory, memory') /\ Stored(memory')
    BY AppendStored DEF Typed, Write, NextOf, Newest
<1> QED
    BY <1>1 DEF Write, Newest, NextOf, Typed, Memories

LEMMA AfterStore ==
    ASSUME Typed, Known, Stored(memory), NEW t \in Threads, NEW l \in Locations,
           NEW value \in Values, NEW x, Within(memory, x), Fits(memory, l, value, x),
           StoreBy(t, l, value, x)
    PROVE  /\ memory' \in Memories /\ Extends(memory, memory') /\ Stored(memory')
           /\ Newest(l)' = Newest(l) + 1 /\ memory'[l][Newest(l) + 1].value = value
           /\ \A k \in Locations : k # l => memory'[k] = memory[k]
           /\ cur' \in [Threads -> Views] /\ acq' \in [Threads -> Views]
           /\ \A u \in Threads : Within(memory', cur'[u]) /\ Within(memory', acq'[u])
           /\ \A u \in Threads : Within(memory', cur[u]) /\ Within(memory', rel[u])
           /\ Within(memory', gate_view)
           /\ Grows
           /\ cur'[t] = Seen(cur[t], l, Newest(l) + 1)
           /\ \A u \in Threads : u # t => cur'[u] = cur[u]
<1>1. /\ memory' \in Memories /\ Extends(memory, memory') /\ Stored(memory')
      /\ Newest(l)' = Newest(l) + 1 /\ memory'[l][Newest(l) + 1].value = value
      /\ \A k \in Locations : k # l => memory'[k] = memory[k]
    BY AfterWrite DEF StoreBy
<1>2. memory \in Memories
    BY DEF Typed
<1>3. /\ \A u \in Threads : Within(memory', cur[u]) /\ Within(memory', acq[u]) /\ Within(memory', rel[u])
      /\ Within(memory', gate_view)
    BY <1>1, <1>2, WithinStays DEF Known
<1>4. /\ cur' = [cur EXCEPT ![t] = Seen(cur[t], l, Newest(l) + 1)]
      /\ acq' = [acq EXCEPT ![t] = Seen(acq[t], l, Newest(l) + 1)]
    BY DEF StoreBy, NextOf
<1>5. ASSUME NEW v, Within(memory, v)
      PROVE  Within(memory', Seen(v, l, Newest(l) + 1)) /\ Below(v, Seen(v, l, Newest(l) + 1))
    <2>1. Newest(l) \in Nat /\ Newest(l)' = Len(memory'[l])
        BY <1>2 DEF Newest, Memories
    <2>2. Within(memory', v)
        BY <1>1, <1>2, <1>5, WithinStays
    <2>3. v[l] <= Newest(l) + 1 /\ Newest(l) + 1 \in 1..Len(memory'[l])
        BY <1>1, <1>5, <2>1 DEF Within, Views, Newest
    <2> QED
        BY <2>1, <2>2, <2>3 DEF Within, Below, Seen, Views
<1>6. \A u \in Threads : /\ Within(memory', cur'[u]) /\ Below(cur[u], cur'[u])
                         /\ Within(memory', acq'[u]) /\ Below(acq[u], acq'[u])
    <2> SUFFICES ASSUME NEW u \in Threads
                 PROVE  /\ Within(memory', cur'[u]) /\ Below(cur[u], cur'[u])
                        /\ Within(memory', acq'[u]) /\ Below(acq[u], acq'[u])
        OBVIOUS
    <2>1. CASE u = t
        BY <1>4, <1>5, <2>1 DEF Known
    <2>2. CASE u # t
        <3>1. cur'[u] = cur[u] /\ acq'[u] = acq[u]
            BY <1>4, <2>2 DEF Known
        <3>2. cur[u] \in Views /\ acq[u] \in Views
            BY DEF Known
        <3> QED
            BY <1>3, <3>1, <3>2, BelowItself
    <2> QED
        BY <2>1, <2>2
<1>7. cur' \in [Threads -> Views] /\ acq' \in [Threads -> Views]
    BY <1>4, <1>6 DEF Known, Within
<1> QED
    BY <1>1, <1>3, <1>4, <1>6, <1>7 DEF Grows, Known

\* The memory is as it was, and one thread's view is joined with a message's.
Keeps == /\ memory' \in Memories /\ Extends(memory, memory') /\ Stored(memory')
         /\ Known' /\ Grows

LEMMA AfterUnchanged ==
    ASSUME Typed, Known, Stored(memory), UNCHANGED <<memory, viewVars>>,
           Within(memory, gate_view')
    PROVE  Keeps
BY DEF Typed, Known, Keeps, Extends, Grows, Below, viewVars, Within, Views, Stored

LEMMA AfterLooking ==
    ASSUME Typed, Known, Stored(memory), UNCHANGED <<memory, rel, gate_view>>, NEW t \in Threads,
           NEW v, Within(memory, v), Below(cur[t], v), cur' = [cur EXCEPT ![t] = v],
           NEW w, Within(memory, w), Below(acq[t], w), acq' = [acq EXCEPT ![t] = w]
    PROVE  Keeps /\ cur'[t] = v /\ acq'[t] = w
<1>1. memory' \in Memories /\ Extends(memory, memory') /\ Stored(memory')
    BY DEF Typed, Extends, Memories
<1>2. Known' /\ cur'[t] = v /\ acq'[t] = w
    BY DEF Known, Within
<1>3. Grows
    <2> SUFFICES ASSUME NEW u \in Threads PROVE Below(cur[u], cur'[u]) /\ Below(acq[u], acq'[u])
        BY DEF Grows
    <2>1. CASE u = t
        BY <1>2, <2>1
    <2>2. CASE u # t
        <3>1. cur'[u] = cur[u] /\ acq'[u] = acq[u] /\ cur[u] \in Views /\ acq[u] \in Views
            BY <2>2 DEF Known
        <3> QED
            BY <3>1, BelowItself
    <2> QED
        BY <2>1, <2>2
<1> QED
    BY <1>1, <1>2, <1>3 DEF Keeps

\* A reader that does not move.
LEMMA OthersRead ==
    ASSUME Typed, Known, Reading, Keeps, NEW r \in Readers, pc'[r] = pc[r], reading'[r] = reading[r]
    PROVE  /\ Host(r)' \in {r, Restarter}
           /\ Read(memory', pc'[r], reading'[r], cur'[Host(r)'], acq'[Host(r)'])
<1>1. Host(r) \in Threads /\ Host(r)' = Host(r) /\ Host(r) \in {r, Restarter}
    BY Places DEF Host, Reading
<1>2. reading[r] \in Readings /\ memory \in Memories
    BY DEF Typed
<1>3. /\ Within(memory, cur[Host(r)]) /\ Within(memory', cur'[Host(r)])
      /\ acq[Host(r)] \in Views /\ acq'[Host(r)] \in Views
      /\ Below(cur[Host(r)], cur'[Host(r)]) /\ Below(acq[Host(r)], acq'[Host(r)])
    BY <1>1 DEF Known, Keeps, Grows
<1>4. Read(memory, pc[r], reading[r], cur[Host(r)], acq[Host(r)])
    BY DEF Reading
<1>5. Read(memory', pc[r], reading[r], cur'[Host(r)], acq'[Host(r)])
    BY <1>2, <1>3, <1>4, ReadStays DEF Keeps, Stored
<1> QED
    BY <1>1, <1>5

\* A view that had the last store of the sequence has it until the next.
LEMMA LastStays ==
    ASSUME NEW mem, NEW mem2, mem2["sequence"] = mem["sequence"],
           NEW v, NEW w, Within(mem, v), Within(mem2, w), Below(v, w),
           Len(mem["sequence"]) \in Nat, v["sequence"] = Len(mem["sequence"])
    PROVE  w["sequence"] = Len(mem2["sequence"])
BY DEF Within, Below, Views, Locations

\* The restart while others step.
LEMMA RestartStays ==
    ASSUME Typed, Known, Restart, Keeps, memory'["sequence"] = memory["sequence"],
           pc'[Restarter] = pc[Restarter], rel'[Restarter] = rel[Restarter],
           gate' = Restarter <=> gate = Restarter
    PROVE  Restart'
<1> DEFINE at == pc[Restarter]
           me == cur[Restarter]
           me2 == cur'[Restarter]
<1>1. /\ memory \in Memories /\ memory' \in Memories /\ Extends(memory, memory') /\ Written(memory')
      /\ Within(memory, me) /\ Within(memory', me2) /\ Below(me, me2)
      /\ Newest("sequence") \in Nat /\ Newest("sequence")' = Newest("sequence")
    BY Places DEF Typed, Keeps, Known, Grows, Stored, Newest, Memories
<1>2. me["sequence"] = Newest("sequence") => me2["sequence"] = Newest("sequence")'
    BY <1>1, LastStays DEF Newest
<1>3. Newest("sequence") <= 2 * memory["total"][me["total"]].value
         => Newest("sequence")' <= 2 * memory'["total"][me2["total"]].value
    <2>1. /\ me["total"] \in 1..Len(memory["total"]) /\ me["total"] \in 1..Len(memory'["total"])
          /\ me2["total"] \in 1..Len(memory'["total"]) /\ me["total"] <= me2["total"]
        BY <1>1, Places DEF Within, Below, Views, Extends, Memories
    <2>2. memory'["total"][me["total"]] = memory["total"][me["total"]]
        BY <1>1, <2>1, Places DEF Extends
    <2>3. memory'["total"][me["total"]].value <= memory'["total"][me2["total"]].value
        BY <1>1, <2>1 DEF Written, Counters
    <2>4. memory'["total"][me["total"]] \in Messages /\ memory'["total"][me2["total"]] \in Messages
        BY <1>1, <2>1, Places DEF Memories
    <2>5. memory'["total"][me["total"]].value \in Nat /\ memory'["total"][me2["total"]].value \in Nat
        BY <2>4, ValuesAreNat DEF Messages
    <2> QED
        BY <1>1, <2>2, <2>3, <2>5
<1>4. Shows(memory, me, Newest("sequence")) => Shows(memory', me2, Newest("sequence")')
    BY <1>1, ShowsStays
<1> QED
    BY <1>1, <1>2, <1>3, <1>4 DEF Restart

\* And the gate, while nobody moves in or out.
LEMMA InGateStays ==
    ASSUME Typed, Known, InGate, Keeps, memory'["sequence"] = memory["sequence"],
           UNCHANGED gateVars, \A t \in Recorders : pc'[t] = pc[t]
    PROVE  InGate'
<1>1. Newest("sequence") \in Nat /\ Newest("sequence")' = Newest("sequence")
    BY Places DEF Typed, Memories, Newest
<1>2. \A t \in Recorders : cur[t]["sequence"] = Newest("sequence")
                             => cur'[t]["sequence"] = Newest("sequence")'
    BY <1>1, LastStays, Places DEF Known, Keeps, Grows, Newest
<1> QED
    BY <1>1, <1>2 DEF InGate, gateVars

LEMMA ReadingStays ==
    ASSUME Typed, Known, Reading, ReadingIsOneWindow, Keeps, UNCHANGED reading,
           \A r \in Readers : pc'[r] = pc[r]
    PROVE  Reading' /\ ReadingIsOneWindow'
BY OthersRead DEF Reading, ReadingIsOneWindow

\* No counter is of a window that has not begun.
LEMMA LastValues ==
    ASSUME Typed, Stored(memory)
    PROVE  /\ \A l \in Locations : Newest(l) \in Nat /\ Newest(l) >= 1
           /\ Value("sequence") = Newest("sequence") - 1
           /\ \A l \in Counters : Value(l) \in Values /\ 2 * Value(l) <= Newest("sequence")
           /\ \A l \in Locations : Within(memory, memory[l][Newest(l)].view)
           /\ \A l \in Counters : 2 * Value(l) <= memory[l][Newest(l)].view["sequence"]
           /\ Value("max") <= Value("total")
<1>1. \A l \in Locations : Newest(l) \in Nat /\ Newest(l) >= 1
    BY DEF Typed, Memories, Stored, Written, Newest
<1>2. \A l \in Locations : memory[l][Newest(l)] \in Messages /\ Newest(l) \in 1..Len(memory[l])
    BY <1>1 DEF Typed, Memories, Newest
<1>3. Value("sequence") = Newest("sequence") - 1
    BY <1>2, Places DEF Stored, Written, Value
<1>4. \A l \in Locations : Within(memory, memory[l][Newest(l)].view)
    BY <1>2 DEF Stored, Written
<1>5. \A l \in Counters : 2 * Value(l) <= memory[l][Newest(l)].view["sequence"]
    BY <1>2, Places DEF Stored, Released, Value
<1>6. \A l \in Counters : Value(l) \in Values
    BY <1>2, Places DEF Messages, Value
<1>7. \A l \in Counters : 2 * Value(l) <= Newest("sequence")
    <2> SUFFICES ASSUME NEW l \in Counters PROVE 2 * Value(l) <= Newest("sequence")
        OBVIOUS
    <2> DEFINE v == memory[l][Newest(l)].view
    <2>1. v["sequence"] \in Nat /\ v["sequence"] <= Newest("sequence")
        BY <1>4, Places DEF Within, Views, Newest
    <2>2. 2 * Value(l) <= v["sequence"] /\ Value(l) \in Nat
        BY <1>5, <1>6, ValuesAreNat
    <2> QED
        BY <1>1, <2>1, <2>2, Places
<1> QED
    BY <1>1, <1>3, <1>4, <1>5, <1>6, <1>7 DEF Stored, Written, Value, Newest

LEMMA InitInv == Init => IInv
<1> SUFFICES ASSUME Init PROVE IInv
    OBVIOUS
<1> USE DEF Init
<1>1. FirstView \in Views /\ [value |-> 0, view |-> FirstView] \in Messages
    BY BoundsAssumption DEF FirstView, Views, Messages, Values
<1>2. memory \in Memories /\ \A l \in Locations :
          Len(memory[l]) = 1 /\ memory[l][1] = [value |-> 0, view |-> FirstView]
    BY <1>1 DEF Memories
<1>3. Within(memory, FirstView) /\ \A l \in Locations : FirstView[l] = 1
    <2>1. \A l \in Locations : FirstView[l] = 1
        BY DEF FirstView
    <2> QED
        BY <1>1, <1>2, <2>1 DEF Within
<1>4. Typed
    BY <1>2, Places, BoundsAssumption DEF Typed, NoReading, Readings, PCs, Values
<1>5. Known
    BY <1>1, <1>3 DEF Known
<1>6. Stored(memory)
    <2>1. Written(memory)
        <3>1. \A l \in Locations : \A i \in 1..Len(memory[l]) :
                  i = 1 /\ memory[l][i].view = FirstView /\ memory[l][i].value = 0
            BY <1>2
        <3>2. \A l \in Locations : Len(memory[l]) >= 1 /\ \A i \in 1..Len(memory[l]) :
                  memory[l][i].view[l] = i /\ Within(memory, memory[l][i].view)
            BY <1>2, <1>3, <3>1
        <3>3. \A i \in 1..Len(memory["sequence"]) : memory["sequence"][i].value = i - 1
            BY <3>1, Places
        <3>4. \A i \in 1..Len(memory["poisoned"]) :
                  memory["poisoned"][i].value = IF i = 1 THEN 0 ELSE 1
            BY <3>1, Places
        <3>5. /\ \A l \in Counters : \A i, j \in 1..Len(memory[l]) :
                     i <= j => memory[l][i].value <= memory[l][j].value
              /\ memory["max"][Len(memory["max"])].value <= memory["total"][Len(memory["total"])].value
            BY <1>2, <3>1, Places
        <3> QED
            BY <3>2, <3>3, <3>4, <3>5 DEF Written
    <2>2. Released(memory)
        BY <1>2, Places DEF Released, FirstView
    <2>3. Restarted(memory)
        <3> SUFFICES ASSUME NEW i \in 1..Len(memory["sequence"])
                     PROVE  Shows(memory, memory["sequence"][i].view, i - 1)
            BY DEF Restarted
        <3>1. i = 1 /\ memory["sequence"][i].view = FirstView
            BY <1>2, Places
        <3>2. \A l \in Locations : memory[l][FirstView[l]].value = 0
            BY <1>2, <1>3
        <3> QED
            BY <3>1, <3>2 DEF Shows, Counters, Locations
    <2> QED
        BY <2>1, <2>2, <2>3 DEF Stored
<1>7. Restart
    <2>1. pc[Restarter] = "idle" /\ gate # Restarter /\ Newest("sequence") = 1
        BY <1>2, Places, ThreadsAssumption DEF Newest
    <2> QED
        BY <2>1 DEF Restart
<1>8. InGate
    BY <1>2, Places DEF InGate, FirstView, Newest
<1>9. Reading
    BY <1>2, Places DEF Reading, Read, HasBefore, HasMax, HasTotal, NoReading, Host
<1> QED
    BY <1>4, <1>5, <1>6, <1>7, <1>8, <1>9 DEF IInv, ReadingIsOneWindow, NoReading

\* The total is added to by a thread that enters the gate.
LEMMA AfterAdd ==
    ASSUME Typed, Known, Stored(memory), NEW t \in Threads, AddTotal(t, Entered(t))
    PROVE  /\ memory' \in Memories /\ Extends(memory, memory') /\ Stored(memory')
           /\ memory'["sequence"] = memory["sequence"]
           /\ cur' \in [Threads -> Views] /\ acq' \in [Threads -> Views]
           /\ \A u \in Threads : Within(memory', cur'[u]) /\ Within(memory', acq'[u])
           /\ \A u \in Threads : Within(memory', cur[u]) /\ Within(memory', rel[u])
           /\ Within(memory', gate_view) /\ Below(gate_view, cur'[t])
           /\ Grows
<1> DEFINE last == memory["total"][Newest("total")]
           x == Join(rel[t], last.view)
           here == Entered(t)
           new == Newest("total") + 1
           now == Seen(here, "total", new)
<1>1. /\ Newest("total") \in Nat /\ Newest("total") >= 1 /\ memory \in Memories
      /\ last.value = Value("total") /\ Value("total") \in Values /\ Value("total") \in Nat
      /\ Within(memory, last.view) /\ 2 * Value("total") <= last.view["sequence"]
      /\ "total" \in Locations /\ "sequence" \in Locations
    BY LastValues, ValuesAreNat, Places DEF Value, Counters, Typed
<1>2. Within(memory, x) /\ Below(last.view, x)
    <2> HIDE DEF last
    <2> QED
        BY <1>1, JoinIsAbove DEF Known
<1>3. Within(memory, here) /\ Below(cur[t], here) /\ Below(gate_view, here)
    BY <1>1, JoinIsAbove DEF Known, Entered
<1>4. Fits(memory, "total", last.value, x)
    <2> HIDE DEF x
    <2>1. last.view["sequence"] \in Nat /\ x["sequence"] \in Nat /\ last.view["sequence"] <= x["sequence"]
        BY <1>1, <1>2 DEF Within, Below, Views
    <2>2. 2 * last.value <= x["sequence"]
        BY <1>1, <2>1
    <2> QED
        BY <1>1, <2>2 DEF Fits, Newest
<1>5. /\ Write("total", last.value, Seen(x, "total", new))
      /\ cur' = [cur EXCEPT ![t] = now]
      /\ acq' = [acq EXCEPT ![t] = Join(acq[t], Join(now, last.view))]
    BY DEF AddTotal, NextOf
<1>6. /\ memory' \in Memories /\ Extends(memory, memory') /\ Stored(memory')
      /\ Newest("total")' = new
      /\ \A k \in Locations : k # "total" => memory'[k] = memory[k]
    <2> HIDE DEF x, last
    <2> QED
        BY <1>1, <1>2, <1>4, <1>5, AfterWrite DEF NextOf, last
<1>7. /\ \A u \in Threads : Within(memory', cur[u]) /\ Within(memory', acq[u]) /\ Within(memory', rel[u])
      /\ Within(memory', gate_view) /\ Within(memory', here) /\ Within(memory', last.view)
    BY <1>1, <1>3, <1>6, WithinStays DEF Known
<1>8. Within(memory', now) /\ Below(here, now)
    <2> HIDE DEF here
    <2>1. here["total"] <= new /\ new \in 1..Len(memory'["total"])
        BY <1>1, <1>3, <1>6 DEF Within, Views, Newest
    <2>2. new \in Nat \ {0} /\ Within(memory', here) /\ "total" \in Locations
        BY <1>1, <1>7
    <2> HIDE DEF new
    <2>3. Within(memory', Seen(here, "total", new)) /\ Below(here, Seen(here, "total", new))
        BY <2>1, <2>2 DEF Within, Below, Seen, Views
    <2> QED
        BY <2>3 DEF new
<1>9. /\ Within(memory', Join(acq[t], Join(now, last.view)))
      /\ Below(acq[t], Join(acq[t], Join(now, last.view)))
    <2> HIDE DEF now, last
    <2>1. Within(memory', Join(now, last.view))
        BY <1>6, <1>7, <1>8, JoinIsAbove
    <2> QED
        BY <1>6, <1>7, <2>1, JoinIsAbove
<1>10. Below(cur[t], now) /\ Below(gate_view, now)
    <2> HIDE DEF now, here
    <2>1. cur[t] \in Views /\ gate_view \in Views /\ here \in Views /\ now \in Views
        BY <1>3, <1>8 DEF Known, Within
    <2> QED
        BY <1>3, <1>8, <2>1 DEF Below, Views
<1> HIDE DEF last, x, here, now
<1>11. ASSUME NEW u \in Threads
       PROVE  /\ Within(memory', cur'[u]) /\ Below(cur[u], cur'[u])
              /\ Within(memory', acq'[u]) /\ Below(acq[u], acq'[u])
    <2>1. CASE u = t
        BY <1>5, <1>8, <1>9, <1>10, <2>1 DEF Known
    <2>2. CASE u # t
        <3>1. cur'[u] = cur[u] /\ acq'[u] = acq[u] /\ cur[u] \in Views /\ acq[u] \in Views
            BY <1>5, <2>2 DEF Known
        <3> QED
            BY <1>7, <3>1, BelowItself
    <2> QED
        BY <2>1, <2>2
<1>12. cur' \in [Threads -> Views] /\ acq' \in [Threads -> Views]
    BY <1>5, <1>11 DEF Known, Within
<1> QED
    BY <1>1, <1>5, <1>6, <1>7, <1>10, <1>11, <1>12 DEF Grows, Known

\* A reader's own step.
LEMMA ReaderMoves ==
    ASSUME IInv, Keeps, NEW r \in Readers, NEW p \in PCs, NEW has \in Readings,
           UNCHANGED <<memory, rel, gateVars, events>>,
           pc' = [pc EXCEPT ![r] = p], reading' = [reading EXCEPT ![r] = has],
           has.host \in {r, Restarter},
           Read(memory, p, has, cur'[has.host], acq'[has.host]),
           has.answer = "read" => has.total = has.before \div 2 /\ has.max = has.before \div 2
    PROVE  IInv'
<1>1. Typed'
    BY DEF IInv, Typed, gateVars
<1>2. Restart'
    BY RestartStays, Places DEF IInv, gateVars, Typed
<1>3. InGate'
    BY InGateStays, Places DEF IInv, Typed
<1>4. Reading'
    <2> SUFFICES ASSUME NEW q \in Readers
                 PROVE  /\ Host(q)' \in {q, Restarter}
                        /\ Read(memory', pc'[q], reading'[q], cur'[Host(q)'], acq'[Host(q)'])
        BY DEF Reading
    <2>1. CASE q = r
        <3>1. pc'[r] = p /\ reading'[r] = has /\ Host(r)' = has.host
            BY Places DEF IInv, Typed, Host
        <3> QED
            BY <2>1, <3>1
    <2>2. CASE q # r
        BY <2>2, OthersRead DEF IInv, Typed
    <2> QED
        BY <2>1, <2>2
<1>5. ReadingIsOneWindow'
    BY DEF IInv, Typed, ReadingIsOneWindow
<1> QED
    BY <1>1, <1>2, <1>3, <1>4, <1>5 DEF IInv, Keeps

\* A load of a message that its thread may see.
LEMMA AfterLoad ==
    ASSUME Typed, Known, Stored(memory), UNCHANGED <<memory, rel, gate_view>>,
           NEW h \in Threads, NEW l \in Locations, NEW i \in cur[h][l]..Newest(l),
           LoadRelaxed(h, l, i)
    PROVE  /\ Keeps /\ i \in 1..Len(memory[l]) /\ memory[l][i] \in Messages
           /\ Within(memory, memory[l][i].view) /\ Below(memory[l][i].view, acq'[h])
           /\ cur[h][l] <= i /\ cur'[h] = Seen(cur[h], l, i)
<1> DEFINE v == memory[l][i].view
<1>1. cur[h][l] \in 1..Newest(l) /\ Newest(l) = Len(memory[l]) /\ Newest(l) \in Nat /\ memory \in Memories
    BY LastValues DEF Known, Within, Views, Newest, Typed
<1>2. i \in 1..Len(memory[l]) /\ cur[h][l] <= i
    BY <1>1
<1>3. memory[l][i] \in Messages /\ Within(memory, v)
    BY <1>1, <1>2 DEF Memories, Stored, Written
<1>4. Within(memory, Seen(cur[h], l, i)) /\ Below(cur[h], Seen(cur[h], l, i))
    BY <1>1, <1>2, SeenIsAbove DEF Known
<1> HIDE DEF v
<1>5. Within(memory, Join(acq[h], v)) /\ Below(acq[h], Join(acq[h], v)) /\ Below(v, Join(acq[h], v))
    BY <1>1, <1>3, JoinIsAbove DEF Known
<1>6. Keeps /\ cur'[h] = Seen(cur[h], l, i) /\ acq'[h] = Join(acq[h], v)
    BY <1>4, <1>5, AfterLooking DEF LoadRelaxed, v
<1> QED
    BY <1>2, <1>3, <1>5, <1>6 DEF v

-----------------------------------------------------------------------------
(* The inductive step *)

LEMMA NextInv == IInv /\ [Next]_vars => IInv'
<1> SUFFICES ASSUME IInv, [Next]_vars PROVE IInv'
    OBVIOUS
<1> USE DEF IInv
<1> DEFINE n == Newest("sequence")
<1>a. /\ \A l \in Locations : Newest(l) \in Nat /\ Newest(l) >= 1
      /\ Value("sequence") = n - 1 /\ n \in Nat /\ n >= 1
      /\ \A l \in Counters : Value(l) \in Values /\ Value(l) \in Nat /\ 2 * Value(l) <= n
      /\ \A l \in Locations : Within(memory, memory[l][Newest(l)].view)
      /\ \A l \in Counters : 2 * Value(l) <= memory[l][Newest(l)].view["sequence"]
      /\ Value("max") <= Value("total")
    BY LastValues, ValuesAreNat, Places
<1>b. /\ Within(memory, cur[Restarter]) /\ Within(memory, rel[Restarter])
      /\ Restarter \in Threads /\ {"sequence", "total", "max", "poisoned"} \subseteq Locations
      /\ {"total", "max"} \subseteq Counters
    BY Places DEF Known, Counters
<1>1. ASSUME StartReset PROVE IInv'
    <2>1. /\ pc[Restarter] = "idle" /\ gate = "open" /\ gate' = Restarter
          /\ pc' = [pc EXCEPT ![Restarter] = "odd"]
          /\ UNCHANGED <<memory, acq, rel, gate_view, reading, events>>
          /\ cur' = [cur EXCEPT ![Restarter] = Join(cur[Restarter], gate_view)]
          /\ n - 1 < 2 * MaxResets
        BY <1>1, <1>a DEF StartReset, At, Goto, Entered
    <2>2. Within(memory, Join(cur[Restarter], gate_view)) /\ Below(cur[Restarter], Join(cur[Restarter], gate_view))
        BY <1>b, JoinIsAbove DEF Known, Typed
    <2>3. Within(memory, acq[Restarter]) /\ Below(acq[Restarter], acq[Restarter])
          /\ acq' = [acq EXCEPT ![Restarter] = acq[Restarter]]
        <3>1. acq \in [Threads -> Views] /\ acq' = acq
            BY <2>1 DEF Known
        <3>2. acq' = [acq EXCEPT ![Restarter] = acq[Restarter]]
            BY <3>1
        <3>3. Within(memory, acq[Restarter])
            BY <1>b DEF Known
        <3> QED
            BY <3>2, <3>3 DEF Below, Within, Views
    <2>4. Keeps
        BY <1>b, <2>1, <2>2, <2>3, AfterLooking
    <2>5. Typed'
        BY <1>b, <2>1, <2>4 DEF Typed, Keeps, PCs
    <2>6. Restart'
        BY <2>1, <2>5 DEF Restart, Typed, Newest
    <2>7. InGate'
        BY <2>1, <2>4, Places DEF InGate, Typed
    <2>8. Reading' /\ ReadingIsOneWindow'
        BY <2>1, <2>4, ReadingStays, Places DEF Typed
    <2> QED
        BY <2>4, <2>5, <2>6, <2>7, <2>8 DEF Keeps
<1>2. ASSUME StoreOdd PROVE IInv'
    <2>1. /\ pc[Restarter] = "odd" /\ gate = Restarter /\ gate # "open"
          /\ pc' = [pc EXCEPT ![Restarter] = "total"]
          /\ UNCHANGED <<gate, gate_view, reading, events>>
          /\ StoreBy(Restarter, "sequence", n, rel[Restarter])
        BY <1>2, <1>a, Places DEF StoreOdd, At, Goto, StoreRelaxed, StoreRelease, Restart, gateVars
    <2>2. n % 2 = 1 /\ n <= 2 * MaxResets /\ n + 1 <= 2 * MaxResets /\ (n + 1) % 2 = 0
        BY <1>a, <2>1, BoundsAssumption DEF Restart
    <2>3. n \in Values /\ Within(memory, rel[Restarter]) /\ Fits(memory, "sequence", n, rel[Restarter])
        <3>1. n \in Values
            BY <1>a, <2>2, BoundsAssumption DEF Values
        <3>2. Fits(memory, "sequence", n, rel[Restarter])
            <4> HIDE DEF n
            <4>1. n = Len(memory["sequence"])
                BY DEF n, Newest
            <4>2. n % 2 # 0
                BY <1>a, <2>2
            <4> QED
                BY <4>1, <4>2 DEF Fits, Counters
        <3> QED
            BY <1>b, <3>1, <3>2
    <2>4. /\ memory' \in Memories /\ Extends(memory, memory') /\ Stored(memory')
          /\ Newest("sequence")' = Newest("sequence") + 1 /\ memory'["sequence"][Newest("sequence") + 1].value = n
          /\ \A k \in Locations : k # "sequence" => memory'[k] = memory[k]
          /\ cur' \in [Threads -> Views] /\ acq' \in [Threads -> Views]
          /\ \A u \in Threads : Within(memory', cur'[u]) /\ Within(memory', acq'[u])
          /\ \A u \in Threads : Within(memory', cur[u]) /\ Within(memory', rel[u])
          /\ Within(memory', gate_view)
          /\ Grows
          /\ cur'[Restarter] = Seen(cur[Restarter], "sequence", Newest("sequence") + 1)
        BY <1>b, <2>1, <2>3, AfterStore
    <2>5. rel' = [rel EXCEPT ![Restarter] = cur'[Restarter]]
        BY <1>2 DEF StoreOdd
    <2>6. Keeps
        BY <2>1, <2>4, <2>5 DEF Keeps, Known, Within
    <2>7. Typed'
        BY <1>b, <2>1, <2>4 DEF Typed, PCs
    <2>8. /\ cur'[Restarter]["sequence"] = Newest("sequence") + 1
          /\ \A k \in Locations : k # "sequence" => cur'[Restarter][k] = cur[Restarter][k]
        BY <1>b, <2>4 DEF Seen, Within, Views
    <2>9. Restart'
        <3>1. /\ pc'[Restarter] = "total" /\ Newest("sequence")' = n + 1
              /\ rel'[Restarter] = cur'[Restarter]
            BY <1>b, <2>1, <2>4, <2>5 DEF Typed, Known
        <3> QED
            BY <2>1, <2>2, <2>8, <3>1 DEF Restart
    <2>10. InGate'
        BY <2>1, Places DEF InGate, Typed
    <2>11. Reading' /\ ReadingIsOneWindow'
        BY <2>1, <2>6, ReadingStays, Places DEF Typed
    <2> QED
        BY <2>6, <2>7, <2>9, <2>10, <2>11 DEF Keeps
<1>3. ASSUME StoreTotal PROVE IInv'
    <2>1. /\ pc[Restarter] = "total" /\ gate = Restarter /\ gate # "open"
          /\ pc' = [pc EXCEPT ![Restarter] = "max"]
          /\ UNCHANGED <<gate, gate_view, reading, events>>
          /\ StoreBy(Restarter, "total", n \div 2, rel[Restarter])
        BY <1>3, <1>a, Places DEF StoreTotal, At, Goto, StoreRelaxed, StoreRelease, Restart,
           gateVars, Window
    <2>2. n % 2 = 0 /\ n <= 2 * MaxResets /\ n \div 2 \in Nat /\ 2 * (n \div 2) = n
          /\ rel[Restarter]["sequence"] = n
        BY <1>a, <2>1, Halves DEF Restart
    <2>3. n \div 2 \in Values /\ Within(memory, rel[Restarter]) /\ Fits(memory, "total", n \div 2, rel[Restarter])
        <3>1. n \div 2 \in Values
            BY <1>a, <2>2, BoundsAssumption DEF Values
        <3>2. Value("total") <= n \div 2
            BY <1>a, <1>b, <2>2
        <3> DEFINE w == n \div 2
        <3> HIDE DEF w
        <3>6. 2 * w <= rel[Restarter]["sequence"]
            BY <1>a, <2>2 DEF w
        <3>7. Fits(memory, "total", w, rel[Restarter])
            BY <3>2, <3>6 DEF Fits, Value, Newest, w
        <3> QED
            BY <1>b, <3>1, <3>7 DEF w
    <2>4. /\ memory' \in Memories /\ Extends(memory, memory') /\ Stored(memory')
          /\ Newest("total")' = Newest("total") + 1 /\ memory'["total"][Newest("total") + 1].value = n \div 2
          /\ \A k \in Locations : k # "total" => memory'[k] = memory[k]
          /\ cur' \in [Threads -> Views] /\ acq' \in [Threads -> Views]
          /\ \A u \in Threads : Within(memory', cur'[u]) /\ Within(memory', acq'[u])
          /\ \A u \in Threads : Within(memory', cur[u]) /\ Within(memory', rel[u])
          /\ Within(memory', gate_view)
          /\ Grows
          /\ cur'[Restarter] = Seen(cur[Restarter], "total", Newest("total") + 1)
        BY <1>b, <2>1, <2>3, AfterStore
    <2>5. rel' = rel
        BY <1>3 DEF StoreTotal
    <2>6. Keeps
        BY <2>1, <2>4, <2>5 DEF Keeps, Known, Within
    <2>7. Typed'
        BY <1>b, <2>1, <2>4 DEF Typed, PCs
    <2>8. /\ cur'[Restarter]["total"] = Newest("total") + 1
          /\ \A k \in Locations : k # "total" => cur'[Restarter][k] = cur[Restarter][k]
        BY <1>b, <2>4 DEF Seen, Within, Views
    <2>9. Restart'
        <3>1. /\ pc'[Restarter] = "max" /\ Newest("sequence")' = n
              /\ cur'[Restarter]["sequence"] = cur[Restarter]["sequence"]
            BY <1>b, <2>1, <2>4, <2>8 DEF Typed, Newest
        <3> QED
            BY <1>b, <2>1, <2>2, <2>4, <2>5, <2>8, <3>1 DEF Restart
    <2>10. InGate'
        BY <2>1, Places DEF InGate, Typed
    <2>11. Reading' /\ ReadingIsOneWindow'
        BY <2>1, <2>6, ReadingStays, Places DEF Typed
    <2> QED
        BY <2>6, <2>7, <2>9, <2>10, <2>11 DEF Keeps
<1>4. ASSUME StoreMax PROVE IInv'
    <2>1. /\ pc[Restarter] = "max" /\ gate = Restarter /\ gate # "open"
          /\ pc' = [pc EXCEPT ![Restarter] = "even"]
          /\ UNCHANGED <<gate, gate_view, reading, events>>
          /\ StoreBy(Restarter, "max", n \div 2, rel[Restarter])
        BY <1>4, <1>a, Places DEF StoreMax, At, Goto, StoreRelaxed, StoreRelease, Restart, gateVars,
           Window
    <2>2. n % 2 = 0 /\ n <= 2 * MaxResets /\ n \div 2 \in Nat /\ 2 * (n \div 2) = n
          /\ rel[Restarter]["sequence"] = n
        BY <1>a, <2>1, Halves DEF Restart
    <2>3. n \div 2 \in Values /\ Within(memory, rel[Restarter]) /\ Fits(memory, "max", n \div 2, rel[Restarter])
        <3>1. n \div 2 \in Values
            BY <1>a, <2>2, BoundsAssumption DEF Values
        <3>2. Value("max") <= n \div 2
            BY <1>a, <1>b, <2>2
        <3>3. cur[Restarter]["total"] \in 1..Newest("total") /\ Newest("total") \in 1..Newest("total")
            <4>1. Within(memory, cur[Restarter]) /\ "total" \in Locations
                BY <1>b
            <4>2. Newest("total") \in Nat /\ Newest("total") >= 1
                BY <1>a, <4>1
            <4> QED
                BY <4>1, <4>2 DEF Within, Views, Newest
        <3>4. /\ memory["total"][cur[Restarter]["total"]].value <= Value("total")
              /\ memory["total"][cur[Restarter]["total"]] \in Messages
            BY <1>b, <3>3 DEF Stored, Written, Value, Newest, Typed, Memories
        <3>5. n \div 2 <= Value("total")
            <4>1. memory["total"][cur[Restarter]["total"]].value \in Nat
                BY <3>4, ValuesAreNat DEF Messages
            <4>2. n <= 2 * memory["total"][cur[Restarter]["total"]].value
                BY <2>1 DEF Restart
            <4> QED
                BY <1>a, <1>b, <2>2, <3>4, <4>1, <4>2
        <3> DEFINE w == n \div 2
        <3> HIDE DEF w
        <3>6. 2 * w <= rel[Restarter]["sequence"]
            BY <1>a, <2>2 DEF w
        <3>7. Fits(memory, "max", w, rel[Restarter])
            BY <3>2, <3>5, <3>6 DEF Fits, Value, Newest, w
        <3> QED
            BY <1>b, <3>1, <3>7 DEF w
    <2>4. /\ memory' \in Memories /\ Extends(memory, memory') /\ Stored(memory')
          /\ Newest("max")' = Newest("max") + 1 /\ memory'["max"][Newest("max") + 1].value = n \div 2
          /\ \A k \in Locations : k # "max" => memory'[k] = memory[k]
          /\ cur' \in [Threads -> Views] /\ acq' \in [Threads -> Views]
          /\ \A u \in Threads : Within(memory', cur'[u]) /\ Within(memory', acq'[u])
          /\ \A u \in Threads : Within(memory', cur[u]) /\ Within(memory', rel[u])
          /\ Within(memory', gate_view)
          /\ Grows
          /\ cur'[Restarter] = Seen(cur[Restarter], "max", Newest("max") + 1)
        BY <1>b, <2>1, <2>3, AfterStore
    <2>5. rel' = rel
        BY <1>4 DEF StoreMax
    <2>6. Keeps
        BY <2>1, <2>4, <2>5 DEF Keeps, Known, Within
    <2>7. Typed'
        BY <1>b, <2>1, <2>4 DEF Typed, PCs
    <2>8. /\ cur'[Restarter]["max"] = Newest("max") + 1
          /\ \A k \in Locations : k # "max" => cur'[Restarter][k] = cur[Restarter][k]
        BY <1>b, <2>4 DEF Seen, Within, Views
    <2>9. Restart'
        <3>1. /\ pc'[Restarter] = "even" /\ Newest("sequence")' = n
              /\ cur'[Restarter]["sequence"] = cur[Restarter]["sequence"]
            BY <1>b, <2>1, <2>4, <2>8 DEF Typed, Newest
        <3>2. Shows(memory', cur'[Restarter], n)
            <4>1. n <= 2 * memory'["total"][cur'[Restarter]["total"]].value
                BY <1>b, <2>1, <2>4, <2>8 DEF Restart
            <4>2. n <= 2 * memory'["max"][cur'[Restarter]["max"]].value
                BY <1>a, <2>2, <2>4, <2>8
            <4> QED
                BY <4>1, <4>2 DEF Shows, Counters
        <3> QED
            BY <1>b, <2>1, <2>2, <2>5, <3>1, <3>2 DEF Restart
    <2>10. InGate'
        BY <2>1, Places DEF InGate, Typed
    <2>11. Reading' /\ ReadingIsOneWindow'
        BY <2>1, <2>6, ReadingStays, Places DEF Typed
    <2> QED
        BY <2>6, <2>7, <2>9, <2>10, <2>11 DEF Keeps
<1>5. ASSUME Unwind PROVE IInv'
    <2>1. /\ pc[Restarter] \in {"total", "max"} /\ gate = Restarter /\ gate # "open"
          /\ pc' = [pc EXCEPT ![Restarter] = "even"]
          /\ UNCHANGED <<gate, gate_view, reading, events>>
          /\ StoreBy(Restarter, "poisoned", 1, cur[Restarter])
        BY <1>5, <1>a, Places DEF Unwind, At, Goto, StoreRelaxed, StoreRelease, Restart, gateVars
    <2>3. 1 \in Values /\ Within(memory, cur[Restarter]) /\ Fits(memory, "poisoned", 1, cur[Restarter])
        <3>1. 1 \in Values
            BY <1>a, <2>1, BoundsAssumption DEF Values, Restart
        <3> QED
            BY <1>b, <3>1 DEF Fits, Counters
    <2>4. /\ memory' \in Memories /\ Extends(memory, memory') /\ Stored(memory')
          /\ Newest("poisoned")' = Newest("poisoned") + 1 /\ memory'["poisoned"][Newest("poisoned") + 1].value = 1
          /\ \A k \in Locations : k # "poisoned" => memory'[k] = memory[k]
          /\ cur' \in [Threads -> Views] /\ acq' \in [Threads -> Views]
          /\ \A u \in Threads : Within(memory', cur'[u]) /\ Within(memory', acq'[u])
          /\ \A u \in Threads : Within(memory', cur[u]) /\ Within(memory', rel[u])
          /\ Within(memory', gate_view)
          /\ Grows
          /\ cur'[Restarter] = Seen(cur[Restarter], "poisoned", Newest("poisoned") + 1)
        BY <1>b, <2>1, <2>3, AfterStore
    <2>5. rel' = rel
        BY <1>5 DEF Unwind
    <2>6. Keeps
        BY <2>1, <2>4, <2>5 DEF Keeps, Known, Within
    <2>7. Typed'
        BY <1>b, <2>1, <2>4 DEF Typed, PCs
    <2>8. /\ cur'[Restarter]["poisoned"] = Newest("poisoned") + 1
          /\ \A k \in Locations : k # "poisoned" => cur'[Restarter][k] = cur[Restarter][k]
        BY <1>b, <2>4 DEF Seen, Within, Views
    <2>9. Restart'
        <3>1. /\ pc'[Restarter] = "even" /\ Newest("sequence")' = n
              /\ cur'[Restarter]["sequence"] = cur[Restarter]["sequence"]
            BY <1>b, <2>1, <2>4, <2>8 DEF Typed, Newest
        <3>2. Shows(memory', cur'[Restarter], n)
            BY <1>a, <1>b, <2>8 DEF Shows
        <3> QED
            BY <1>b, <2>1, <2>5, <3>1, <3>2 DEF Restart
    <2>10. InGate'
        BY <2>1, Places DEF InGate, Typed
    <2>11. Reading' /\ ReadingIsOneWindow'
        BY <2>1, <2>6, ReadingStays, Places DEF Typed
    <2> QED
        BY <2>6, <2>7, <2>9, <2>10, <2>11 DEF Keeps
<1>6. ASSUME StoreEven PROVE IInv'
    <2>1. /\ pc[Restarter] = "even" /\ gate = Restarter /\ gate # "open"
          /\ pc' = [pc EXCEPT ![Restarter] = "leave"]
          /\ UNCHANGED <<gate, gate_view, reading, events>>
          /\ StoreBy(Restarter, "sequence", n, cur[Restarter])
        BY <1>6, <1>a, Places DEF StoreEven, At, Goto, StoreRelaxed, StoreRelease, Restart, gateVars
    <2>2. n % 2 = 0 /\ n <= 2 * MaxResets /\ (n + 1) % 2 = 1 /\ Shows(memory, cur[Restarter], n)
        BY <1>a, <2>1 DEF Restart
    <2>3. n \in Values /\ Within(memory, cur[Restarter]) /\ Fits(memory, "sequence", n, cur[Restarter])
        BY <1>a, <1>b, <2>2, BoundsAssumption DEF Values, Fits, Newest, Counters
    <2>4. /\ memory' \in Memories /\ Extends(memory, memory') /\ Stored(memory')
          /\ Newest("sequence")' = Newest("sequence") + 1 /\ memory'["sequence"][Newest("sequence") + 1].value = n
          /\ \A k \in Locations : k # "sequence" => memory'[k] = memory[k]
          /\ cur' \in [Threads -> Views] /\ acq' \in [Threads -> Views]
          /\ \A u \in Threads : Within(memory', cur'[u]) /\ Within(memory', acq'[u])
          /\ \A u \in Threads : Within(memory', cur[u]) /\ Within(memory', rel[u])
          /\ Within(memory', gate_view)
          /\ Grows
          /\ cur'[Restarter] = Seen(cur[Restarter], "sequence", Newest("sequence") + 1)
        BY <1>b, <2>1, <2>3, AfterStore
    <2>5. rel' = rel
        BY <1>6 DEF StoreEven
    <2>6. Keeps
        BY <2>1, <2>4, <2>5 DEF Keeps, Known, Within
    <2>7. Typed'
        BY <1>b, <2>1, <2>4 DEF Typed, PCs
    <2>8. /\ cur'[Restarter]["sequence"] = Newest("sequence") + 1
          /\ \A k \in Locations : k # "sequence" => cur'[Restarter][k] = cur[Restarter][k]
        BY <1>b, <2>4 DEF Seen, Within, Views
    <2>9. Restart'
        <3>1. pc'[Restarter] = "leave" /\ Newest("sequence")' = n + 1
            BY <1>b, <2>1, <2>4 DEF Typed
        <3> QED
            BY <2>1, <2>2, <2>8, <3>1 DEF Restart
    <2>10. InGate'
        BY <2>1, Places DEF InGate, Typed
    <2>11. Reading' /\ ReadingIsOneWindow'
        BY <2>1, <2>6, ReadingStays, Places DEF Typed
    <2> QED
        BY <2>6, <2>7, <2>9, <2>10, <2>11 DEF Keeps
<1>7. ASSUME LeaveReset PROVE IInv'
    <2>1. /\ pc[Restarter] = "leave" /\ gate' = "open"
          /\ pc' = [pc EXCEPT ![Restarter] = "idle"]
          /\ UNCHANGED <<memory, viewVars, reading, events>>
          /\ gate_view' = Join(gate_view, cur[Restarter])
        BY <1>7 DEF LeaveReset, At, Goto, Leave, viewVars
    <2>2. Within(memory, gate_view') /\ Below(cur[Restarter], gate_view')
        BY <1>b, <2>1, JoinIsAbove DEF Known, Typed
    <2>3. Keeps
        BY <2>1, <2>2, AfterUnchanged
    <2>4. Typed'
        BY <1>b, <2>1, <2>3 DEF Typed, Keeps, PCs
    <2>5. Restart'
        BY <1>b, <2>1, Places DEF Restart, Typed, Newest
    <2>6. InGate'
        <3>1. cur[Restarter]["sequence"] = n /\ gate = Restarter /\ gate # "open"
            BY <2>1, Places DEF Restart
        <3>2. gate_view'["sequence"] = n
            BY <1>a, <1>b, <2>2, <3>1 DEF Within, Below, Views, Newest
        <3> QED
            BY <2>1, <3>1, <3>2, Places DEF InGate, Typed, Newest
    <2>7. Reading' /\ ReadingIsOneWindow'
        BY <2>1, <2>3, ReadingStays, Places DEF Typed
    <2> QED
        BY <2>3, <2>4, <2>5, <2>6, <2>7 DEF Keeps
<1>8. ASSUME NEW t \in Recorders, RecordShared(t) PROVE IInv'
    <2>1. /\ t \in Threads /\ t # Restarter /\ t \notin Readers /\ gate = "open" /\ pc[t] = "idle"
          /\ events < MaxEvents /\ events' = events + 1 /\ AddTotal(t, Entered(t))
          /\ rel' = rel /\ reading' = reading
        BY <1>8, Places DEF RecordShared
    <2>2. /\ memory' \in Memories /\ Extends(memory, memory') /\ Stored(memory')
          /\ memory'["sequence"] = memory["sequence"]
          /\ cur' \in [Threads -> Views] /\ acq' \in [Threads -> Views]
          /\ \A u \in Threads : Within(memory', cur'[u]) /\ Within(memory', acq'[u])
          /\ \A u \in Threads : Within(memory', cur[u]) /\ Within(memory', rel[u])
          /\ Within(memory', gate_view) /\ Below(gate_view, cur'[t])
          /\ Grows
        BY <2>1, AfterAdd
    <2>3. gate' = gate /\ pc' = pc /\ gate_view' = Join(gate_view, cur'[t])
        BY <1>8 DEF RecordShared, Goto
    <2>4. Within(memory', gate_view') /\ Below(gate_view, gate_view')
        BY <2>1, <2>2, <2>3, JoinIsAbove
    <2>5. Keeps
        BY <2>1, <2>2, <2>4 DEF Keeps, Known, Within
    <2>6. Typed'
        BY <2>1, <2>2, <2>3, BoundsAssumption DEF Typed
    <2>7. Restart'
        BY <2>1, <2>2, <2>3, <2>5, RestartStays
    <2>8. InGate'
        <3>1. gate_view["sequence"] = n /\ \A u \in Recorders : pc[u] = "idle"
            BY <2>1, Places DEF InGate, Typed
        <3>2. gate_view'["sequence"] = Newest("sequence")'
            BY <1>a, <2>2, <2>4, <3>1, LastStays DEF Known, Newest
        <3> QED
            BY <2>3, <3>1, <3>2 DEF InGate
    <2>9. Reading' /\ ReadingIsOneWindow'
        BY <2>1, <2>3, <2>5, ReadingStays
    <2> QED
        BY <2>5, <2>6, <2>7, <2>8, <2>9 DEF Keeps
<1>9. ASSUME NEW t \in Recorders, RecordPeak(t) PROVE IInv'
    <2>1. /\ t \in Threads /\ t # Restarter /\ t \notin Readers /\ gate = "open" /\ pc[t] = "idle"
          /\ events < MaxEvents /\ events' = events + 1 /\ AddTotal(t, Entered(t))
          /\ rel' = rel /\ reading' = reading
        BY <1>9, Places DEF RecordPeak
    <2>2. /\ memory' \in Memories /\ Extends(memory, memory') /\ Stored(memory')
          /\ memory'["sequence"] = memory["sequence"]
          /\ cur' \in [Threads -> Views] /\ acq' \in [Threads -> Views]
          /\ \A u \in Threads : Within(memory', cur'[u]) /\ Within(memory', acq'[u])
          /\ \A u \in Threads : Within(memory', cur[u]) /\ Within(memory', rel[u])
          /\ Within(memory', gate_view) /\ Below(gate_view, cur'[t])
          /\ Grows
        BY <2>1, AfterAdd
    <2>3. gate' = t /\ pc' = [pc EXCEPT ![t] = "peak"] /\ gate_view' = gate_view
        BY <1>9 DEF RecordPeak, Goto
    <2>5. Keeps
        BY <2>1, <2>2, <2>3 DEF Keeps, Known, Within
    <2>6. Typed'
        BY <2>1, <2>2, <2>3, BoundsAssumption DEF Typed, PCs
    <2>7. Restart'
        <3>1. pc'[Restarter] = pc[Restarter] /\ gate # Restarter /\ gate' # Restarter
            BY <1>b, <2>1, <2>3, Places DEF Typed
        <3> QED
            BY <2>1, <2>2, <2>5, <3>1, RestartStays
    <2>8. InGate'
        <3>1. gate_view["sequence"] = n /\ \A u \in Recorders : pc[u] = "idle"
            BY <2>1, Places DEF InGate, Typed
        <3>2. Newest("sequence")' = n
            BY <2>2 DEF Newest
        <3>3. cur'[t]["sequence"] = Newest("sequence")'
            BY <1>a, <2>1, <2>2, <3>1, LastStays DEF Known, Newest
        <3> QED
            BY <2>1, <2>3, <3>1, <3>2, <3>3, Places DEF InGate, Typed
    <2>9. Reading' /\ ReadingIsOneWindow'
        BY <2>1, <2>3, <2>5, ReadingStays DEF Typed
    <2> QED
        BY <2>5, <2>6, <2>7, <2>8, <2>9 DEF Keeps
<1>10. ASSUME NEW t \in Recorders, StorePeak(t) PROVE IInv'
    <2>1. /\ t \in Threads /\ t # Restarter /\ t \notin Readers /\ pc[t] = "peak" /\ gate = t
          /\ StoreBy(t, "max", Value("total"), cur[t]) /\ cur[t]["sequence"] = n
          /\ rel' = [rel EXCEPT ![t] = cur[t]] /\ gate' = "open"
          /\ gate_view' = Join(gate_view, cur'[t]) /\ pc' = [pc EXCEPT ![t] = "idle"]
          /\ reading' = reading /\ events' = events
        BY <1>10, Places DEF StorePeak, StoreRelease, Leave, Goto, InGate
    <2>2. Fits(memory, "max", Value("total"), cur[t]) /\ Within(memory, cur[t])
        BY <1>a, <1>b, <2>1 DEF Fits, Value, Newest, Known
    <2>3. /\ memory' \in Memories /\ Extends(memory, memory') /\ Stored(memory')
          /\ \A k \in Locations : k # "max" => memory'[k] = memory[k]
          /\ cur' \in [Threads -> Views] /\ acq' \in [Threads -> Views]
          /\ \A u \in Threads : Within(memory', cur'[u]) /\ Within(memory', acq'[u])
          /\ \A u \in Threads : Within(memory', cur[u]) /\ Within(memory', rel[u])
          /\ Within(memory', gate_view)
          /\ Grows
        BY <1>a, <1>b, <2>1, <2>2, AfterStore
    <2>4. Within(memory', gate_view') /\ Below(gate_view, gate_view')
        BY <2>1, <2>3, JoinIsAbove
    <2>5. Keeps
        BY <2>1, <2>3, <2>4 DEF Keeps, Known, Within
    <2>6. Typed'
        BY <2>1, <2>3 DEF Typed, PCs
    <2>7. memory'["sequence"] = memory["sequence"]
        BY <1>b, <2>3
    <2>8. Restart'
        <3>1. /\ pc'[Restarter] = pc[Restarter] /\ rel'[Restarter] = rel[Restarter]
              /\ gate # Restarter /\ gate' # Restarter
            BY <1>b, <2>1, Places DEF Typed, Known
        <3> QED
            BY <2>5, <2>7, <3>1, RestartStays
    <2>9. InGate'
        <3>1. gate_view["sequence"] = n /\ \A u \in Recorders : u # t => pc[u] = "idle"
            BY <2>1, Places DEF InGate, Typed
        <3>2. gate_view'["sequence"] = Newest("sequence")'
            BY <1>a, <2>4, <2>7, <3>1, LastStays DEF Known, Newest
        <3> QED
            BY <2>1, <3>1, <3>2, Places DEF InGate, Typed
    <2>10. Reading' /\ ReadingIsOneWindow'
        BY <2>1, <2>5, ReadingStays DEF Typed
    <2> QED
        BY <2>5, <2>6, <2>8, <2>9, <2>10 DEF Keeps
<1>c. ASSUME NEW r \in Readers
      PROVE  /\ r \in Threads /\ Host(r) \in Threads /\ Host(r) \in {r, Restarter}
             /\ reading[r] \in Readings /\ Host(r) = reading[r].host
             /\ reading[r].before \in Nat /\ reading[r].max \in Nat /\ reading[r].total \in Nat
             /\ Within(memory, cur[Host(r)]) /\ Within(memory, acq[Host(r)])
             /\ Read(memory, pc[r], reading[r], cur[Host(r)], acq[Host(r)])
             /\ cur[Host(r)]["sequence"] \in Nat /\ acq[Host(r)]["sequence"] \in Nat
             /\ cur[Host(r)]["poisoned"] \in Nat
    <2>1. /\ r \in Threads /\ Host(r) \in Threads /\ Host(r) \in {r, Restarter}
          /\ reading[r] \in Readings /\ Host(r) = reading[r].host
          /\ Read(memory, pc[r], reading[r], cur[Host(r)], acq[Host(r)])
        BY <1>b, Places DEF Typed, Reading, Host
    <2>2. Within(memory, cur[Host(r)]) /\ Within(memory, acq[Host(r)])
        BY <2>1 DEF Known
    <2> QED
        BY <1>b, <2>1, <2>2, ValuesAreNat DEF Readings, Within, Views
<1>d. UNCHANGED <<memory, viewVars, gateVars>> => Keeps
    BY AfterUnchanged DEF gateVars, Known
<1>11. ASSUME NEW r \in Readers, StartReading(r) PROVE IInv'
    <2>1. PICK h \in {r, Restarter} : reading' = [reading EXCEPT ![r] = [NoReading EXCEPT !.host = h]]
        BY <1>11 DEF StartReading
    <2> DEFINE has == [NoReading EXCEPT !.host = h]
    <2>2. has \in Readings /\ has.host = h /\ has.answer = "none"
        <3>1. h \in Threads /\ Restarter \in Threads
            BY <1>b, <1>c
        <3>2. 0 \in Values
            BY BoundsAssumption DEF Values
        <3> QED
            BY <3>1, <3>2 DEF NoReading, Readings
    <2> HIDE DEF has
    <2>3. pc' = [pc EXCEPT ![r] = "before"] /\ UNCHANGED <<memory, viewVars, gateVars, events>>
        BY <1>11 DEF StartReading, Goto
    <2>4. Read(memory, "before", has, cur'[has.host], acq'[has.host])
        BY <2>2 DEF Read, HasBefore, HasMax, HasTotal
    <2>5. reading' = [reading EXCEPT ![r] = has] /\ rel' = rel /\ "before" \in PCs
        BY <2>1, <2>3 DEF has, viewVars, PCs
    <2> QED
        BY <1>d, <2>2, <2>3, <2>4, <2>5, ReaderMoves
<1>12. ASSUME NEW r \in Readers, NEW i \in Visible(r, "sequence"), LoadBefore(r, i) PROVE IInv'
    <2> DEFINE h == Host(r)
           m == memory["sequence"][i]
           has == [reading[r] EXCEPT !.before = m.value]
           p == IF m.value % 2 = 1 THEN "probe" ELSE "load_max"
    <2>1. /\ i \in cur[h]["sequence"]..n /\ LoadAcquire(h, "sequence", i)
          /\ reading' = [reading EXCEPT ![r] = has] /\ pc' = [pc EXCEPT ![r] = p]
          /\ pc[r] = "before" /\ UNCHANGED <<memory, rel, gateVars, events>>
        BY <1>12 DEF LoadBefore, Visible, Goto
    <2>2. i \in 1..Len(memory["sequence"]) /\ i \in Nat /\ m \in Messages /\ m.value = i - 1 /\ Within(memory, m.view)
        <3>1. i \in 1..Len(memory["sequence"]) /\ i \in Nat
            <4>1. cur[h]["sequence"] \in Nat /\ cur[h]["sequence"] >= 1
                BY <1>b, <1>c DEF Within, Views
            <4>2. n = Len(memory["sequence"]) /\ i \in cur[h]["sequence"]..n
                BY <2>1 DEF Newest
            <4> QED
                BY <1>a, <4>1, <4>2
        <3> QED
            BY <1>b, <3>1 DEF Typed, Memories, Stored, Written
    <2> HIDE DEF m
    <2>3. /\ Within(memory, Join(cur[h], m.view)) /\ Below(cur[h], Join(cur[h], m.view))
          /\ Within(memory, Join(acq[h], m.view)) /\ Below(acq[h], Join(acq[h], m.view))
          /\ Below(m.view, Join(cur[h], m.view))
        BY <1>c, <2>2, JoinIsAbove DEF Typed
    <2>4. Keeps /\ cur'[h] = Join(cur[h], m.view)
        <3>1. /\ cur' = [cur EXCEPT ![h] = Join(cur[h], m.view)]
              /\ acq' = [acq EXCEPT ![h] = Join(acq[h], m.view)]
            BY <2>1 DEF LoadAcquire, m
        <3>2. h \in Threads /\ UNCHANGED <<memory, rel, gate_view>>
            BY <1>c, <2>1 DEF gateVars
        <3> DEFINE v == Join(cur[h], m.view)
                   w == Join(acq[h], m.view)
        <3> HIDE DEF h, v, w
        <3> QED
            BY <2>3, <3>1, <3>2, AfterLooking DEF v, w
    <2>5. has \in Readings /\ has.before = m.value /\ has.host = h /\ has.answer = reading[r].answer
          /\ has.max = reading[r].max /\ has.total = reading[r].total
        BY <1>c, <2>2 DEF Readings, Messages
    <2>6. m.value % 2 # 1 => has.before % 2 = 0 /\ Shows(memory, cur'[h], has.before)
        <3> SUFFICES ASSUME m.value % 2 # 1
                     PROVE  has.before % 2 = 0 /\ Shows(memory, cur'[h], has.before)
            OBVIOUS
        <3>1. m.value \in Nat /\ m.value % 2 = 0 /\ i % 2 = 1
            BY <2>2
        <3>2. Shows(memory, m.view, m.value)
            BY <2>2, <3>1 DEF Stored, Restarted, m
        <3>3. memory \in Memories /\ Extends(memory, memory) /\ Written(memory)
            BY DEF Typed, Extends, Memories, Stored
        <3>4. Shows(memory, cur'[h], m.value)
            BY <2>2, <2>3, <2>4, <3>1, <3>2, <3>3, ShowsStays
        <3> QED
            BY <2>5, <3>1, <3>4
    <2> HIDE DEF has
    <2>7. has.answer = "none"
        BY <1>c, <2>1, <2>5 DEF Read
    <2>8. p \in PCs /\ Read(memory, p, has, cur'[has.host], acq'[has.host])
        BY <2>5, <2>6, <2>7 DEF Read, HasBefore, HasMax, HasTotal, PCs
    <2> QED
        BY <1>c, <2>1, <2>4, <2>5, <2>7, <2>8, ReaderMoves
<1>13. ASSUME NEW r \in Readers, Probe(r) PROVE IInv'
    <2>1. pc[r] = "probe" /\ UNCHANGED <<memory, viewVars, gateVars, events>> /\ rel' = rel
        BY <1>13 DEF Probe, viewVars
    <2>2. CASE /\ pc' = [pc EXCEPT ![r] = "before"]
               /\ UNCHANGED reading
        <3>1. reading' = [reading EXCEPT ![r] = reading[r]] /\ "before" \in PCs
            BY <1>c, <2>2 DEF Typed, PCs
        <3>2. reading[r].answer = "none"
            BY <1>c, <2>1 DEF Read
        <3>3. Read(memory, "before", reading[r], cur'[reading[r].host], acq'[reading[r].host])
            BY <3>2 DEF Read, HasBefore, HasMax, HasTotal
        <3> QED
            BY <1>c, <1>d, <2>1, <2>2, <3>1, <3>2, <3>3, ReaderMoves
    <2>3. CASE End(r, "reset in progress")
        <3> DEFINE has == [reading[r] EXCEPT !.answer = "reset in progress"]
        <3>1. /\ reading' = [reading EXCEPT ![r] = has] /\ pc' = [pc EXCEPT ![r] = "idle"]
              /\ "idle" \in PCs
            BY <2>3 DEF End, Goto, PCs
        <3>2. has \in Readings /\ has.host = Host(r) /\ has.answer = "reset in progress"
            BY <1>c DEF Readings
        <3> HIDE DEF has
        <3>3. Read(memory, "idle", has, cur'[has.host], acq'[has.host])
            BY DEF Read, HasBefore, HasMax, HasTotal
        <3> QED
            BY <1>c, <1>d, <2>1, <3>1, <3>2, <3>3, ReaderMoves
    <2> QED
        BY <1>13, <2>2, <2>3 DEF Probe, Goto
<1>14. ASSUME NEW r \in Readers, LoadMax(r) PROVE IInv'
    <2>0. PICK i \in Visible(r, "max") : /\ LoadRelaxed(Host(r), "max", i)
                                     /\ reading' = [reading EXCEPT ![r].max = memory["max"][i].value]
        BY <1>14 DEF LoadMax
    <2> DEFINE h == Host(r)
           m == memory["max"][i]
           has == [reading[r] EXCEPT !.max = m.value]
    <2>1. /\ reading' = [reading EXCEPT ![r] = has] /\ pc' = [pc EXCEPT ![r] = "load_total"]
          /\ pc[r] = "load_max" /\ UNCHANGED <<memory, rel, gateVars, events>> /\ "load_total" \in PCs
        BY <1>14, <2>0 DEF LoadMax, Goto, PCs
    <2>2. /\ h \in Threads /\ i \in cur[h]["max"]..Newest("max") /\ LoadRelaxed(h, "max", i)
          /\ UNCHANGED <<memory, rel, gate_view>>
        BY <1>c, <2>0, <2>1 DEF Visible, gateVars
    <2>3. /\ Keeps /\ i \in 1..Len(memory["max"]) /\ m \in Messages
          /\ Within(memory, m.view) /\ Below(m.view, acq'[h]) /\ cur[h]["max"] <= i
        <3> HIDE DEF h
        <3> QED
            BY <1>b, <2>2, AfterLoad
    <2>4. /\ has \in Readings /\ has.max = m.value /\ has.before = reading[r].before
          /\ has.total = reading[r].total
          /\ has.answer = reading[r].answer /\ has.host = h /\ m.value \in Nat
        BY <1>c, <2>3, ValuesAreNat DEF Readings, Messages
    <2>5. /\ Within(memory, cur[h]) /\ Within(memory, cur'[h]) /\ Below(cur[h], cur'[h])
          /\ acq[h] \in Views /\ acq'[h] \in Views /\ Below(acq[h], acq'[h])
        BY <2>2, <2>3 DEF Keeps, Known, Grows
    <2>6. Loaded(has.max, has.before, "load_total", cur[h], acq'[h])
        <3>1. cur[h]["poisoned"] >= 2 \/ has.before <= 2 * memory["max"][cur[h]["max"]].value
            BY <1>b, <1>c, <2>1, <2>4 DEF Read, HasBefore, HasMax, Shows
        <3>2. cur[h]["max"] \in 1..Len(memory["max"])
            <4>1. "max" \in Locations /\ Within(memory, cur[h])
                BY <1>b, <2>5
            <4> QED
                BY <4>1 DEF Within, Views
        <3>3. memory["max"][cur[h]["max"]].value <= m.value /\ 2 * m.value <= m.view["sequence"]
            <4>1. "max" \in Counters /\ cur[h]["max"] <= i /\ i \in 1..Len(memory["max"])
                BY <1>b, <2>3
            <4> QED
                BY <3>2, <4>1 DEF Stored, Written, Released
        <3>4. memory["max"][cur[h]["max"]] \in Messages
            BY <1>b, <3>2 DEF Typed, Memories
        <3>5. memory["max"][cur[h]["max"]].value \in Nat
            BY <3>4, ValuesAreNat DEF Messages
        <3>6. m.view["sequence"] \in Nat /\ acq'[h]["sequence"] \in Nat /\ m.view["sequence"] <= acq'[h]["sequence"]
            BY <1>b, <2>3, <2>5 DEF Within, Below, Views
        <3>7. has.before \in Nat /\ has.max \in Nat /\ has.max = m.value
            BY <1>c, <2>4
        <3> HIDE DEF m, has, h
        <3>8. cur[h]["poisoned"] >= 2 \/ has.before <= 2 * has.max
            BY <3>1, <3>3, <3>5, <3>7
        <3>9. 2 * has.max <= acq'[h]["sequence"]
            BY <3>3, <3>6, <3>7
        <3> QED
            BY <3>8, <3>9 DEF Loaded
    <2>7. Read(memory, "load_total", has, cur[h], acq'[h])
        BY <1>c, <2>1, <2>4, <2>6 DEF Read, HasBefore, HasMax, HasTotal
    <2>8. Read(memory, "load_total", has, cur'[h], acq'[h])
        <3>1. memory \in Memories /\ Extends(memory, memory) /\ Written(memory)
            BY DEF Typed, Extends, Memories, Stored
        <3>2. Below(acq'[h], acq'[h])
            BY <2>5 DEF Below, Views
        <3> HIDE DEF h, has
        <3> QED
            BY <2>4, <2>5, <2>7, <3>1, <3>2, ReadStays
    <2>9. /\ has.host \in {r, Restarter} /\ has.answer = "none"
          /\ Read(memory, pc'[r], has, cur'[has.host], acq'[has.host]) /\ pc'[r] \in PCs
          /\ pc' = [pc EXCEPT ![r] = pc'[r]]
        <3>1. has.host \in {r, Restarter} /\ pc'[r] \in PCs /\ pc' = [pc EXCEPT ![r] = pc'[r]]
            BY <1>c, <2>1, <2>4 DEF Typed
        <3> HIDE DEF has
        <3> QED
            BY <1>c, <2>1, <2>4, <2>8, <3>1 DEF Read, Typed
    <2> HIDE DEF has, h
    <2> QED
        BY <2>1, <2>3, <2>4, <2>9, ReaderMoves
<1>15. ASSUME NEW r \in Readers, LoadTotal(r) PROVE IInv'
    <2>0. PICK i \in Visible(r, "total") : /\ LoadRelaxed(Host(r), "total", i)
                                     /\ reading' = [reading EXCEPT ![r].total = memory["total"][i].value]
        BY <1>15 DEF LoadTotal
    <2> DEFINE h == Host(r)
           m == memory["total"][i]
           has == [reading[r] EXCEPT !.total = m.value]
    <2>1. /\ reading' = [reading EXCEPT ![r] = has] /\ pc' = [pc EXCEPT ![r] = "fence"]
          /\ pc[r] = "load_total" /\ UNCHANGED <<memory, rel, gateVars, events>> /\ "fence" \in PCs
        BY <1>15, <2>0 DEF LoadTotal, Goto, PCs
    <2>2. /\ h \in Threads /\ i \in cur[h]["total"]..Newest("total") /\ LoadRelaxed(h, "total", i)
          /\ UNCHANGED <<memory, rel, gate_view>>
        BY <1>c, <2>0, <2>1 DEF Visible, gateVars
    <2>3. /\ Keeps /\ i \in 1..Len(memory["total"]) /\ m \in Messages
          /\ Within(memory, m.view) /\ Below(m.view, acq'[h]) /\ cur[h]["total"] <= i
        <3> HIDE DEF h
        <3> QED
            BY <1>b, <2>2, AfterLoad
    <2>4. /\ has \in Readings /\ has.total = m.value /\ has.before = reading[r].before
          /\ has.max = reading[r].max
          /\ has.answer = reading[r].answer /\ has.host = h /\ m.value \in Nat
        BY <1>c, <2>3, ValuesAreNat DEF Readings, Messages
    <2>5. /\ Within(memory, cur[h]) /\ Within(memory, cur'[h]) /\ Below(cur[h], cur'[h])
          /\ acq[h] \in Views /\ acq'[h] \in Views /\ Below(acq[h], acq'[h])
        BY <2>2, <2>3 DEF Keeps, Known, Grows
    <2>6. Loaded(has.total, has.before, "fence", cur[h], acq'[h])
        <3>1. cur[h]["poisoned"] >= 2 \/ has.before <= 2 * memory["total"][cur[h]["total"]].value
            BY <1>b, <1>c, <2>1, <2>4 DEF Read, HasBefore, HasMax, Shows
        <3>2. cur[h]["total"] \in 1..Len(memory["total"])
            <4>1. "total" \in Locations /\ Within(memory, cur[h])
                BY <1>b, <2>5
            <4> QED
                BY <4>1 DEF Within, Views
        <3>3. memory["total"][cur[h]["total"]].value <= m.value /\ 2 * m.value <= m.view["sequence"]
            <4>1. "total" \in Counters /\ cur[h]["total"] <= i /\ i \in 1..Len(memory["total"])
                BY <1>b, <2>3
            <4> QED
                BY <3>2, <4>1 DEF Stored, Written, Released
        <3>4. memory["total"][cur[h]["total"]] \in Messages
            BY <1>b, <3>2 DEF Typed, Memories
        <3>5. memory["total"][cur[h]["total"]].value \in Nat
            BY <3>4, ValuesAreNat DEF Messages
        <3>6. m.view["sequence"] \in Nat /\ acq'[h]["sequence"] \in Nat /\ m.view["sequence"] <= acq'[h]["sequence"]
            BY <1>b, <2>3, <2>5 DEF Within, Below, Views
        <3>7. has.before \in Nat /\ has.total \in Nat /\ has.total = m.value
            BY <1>c, <2>4
        <3> HIDE DEF m, has, h
        <3>8. cur[h]["poisoned"] >= 2 \/ has.before <= 2 * has.total
            BY <3>1, <3>3, <3>5, <3>7
        <3>9. 2 * has.total <= acq'[h]["sequence"]
            BY <3>3, <3>6, <3>7
        <3> QED
            BY <3>8, <3>9 DEF Loaded
    <2>7. Read(memory, "fence", has, cur[h], acq'[h])
        <3>1. Loaded(has.max, has.before, "fence", cur[h], acq'[h])
            <4>1. Loaded(has.max, has.before, "load_total", cur[h], acq[h])
                BY <1>c, <2>1, <2>4 DEF Read, HasMax
            <4>2. acq[h]["sequence"] \in Nat /\ acq'[h]["sequence"] \in Nat /\ acq[h]["sequence"] <= acq'[h]["sequence"]
                BY <1>b, <2>5 DEF Below, Views
            <4>3. has.max \in Nat /\ has.before \in Nat
                BY <1>c, <2>4
            <4> HIDE DEF has, h
            <4> QED
                BY <4>1, <4>2, <4>3 DEF Loaded
        <3> QED
            BY <1>c, <2>1, <2>4, <2>6, <3>1 DEF Read, HasBefore, HasMax, HasTotal
    <2>8. Read(memory, "fence", has, cur'[h], acq'[h])
        <3>1. memory \in Memories /\ Extends(memory, memory) /\ Written(memory)
            BY DEF Typed, Extends, Memories, Stored
        <3>2. Below(acq'[h], acq'[h])
            BY <2>5 DEF Below, Views
        <3> HIDE DEF h, has
        <3> QED
            BY <2>4, <2>5, <2>7, <3>1, <3>2, ReadStays
    <2>9. /\ has.host \in {r, Restarter} /\ has.answer = "none"
          /\ Read(memory, pc'[r], has, cur'[has.host], acq'[has.host]) /\ pc'[r] \in PCs
          /\ pc' = [pc EXCEPT ![r] = pc'[r]]
        <3>1. has.host \in {r, Restarter} /\ pc'[r] \in PCs /\ pc' = [pc EXCEPT ![r] = pc'[r]]
            BY <1>c, <2>1, <2>4 DEF Typed
        <3> HIDE DEF has
        <3> QED
            BY <1>c, <2>1, <2>4, <2>8, <3>1 DEF Read, Typed
    <2> HIDE DEF has, h
    <2> QED
        BY <2>1, <2>3, <2>4, <2>9, ReaderMoves
<1>16. ASSUME NEW r \in Readers, AcquireFence(r) PROVE IInv'
    <2> DEFINE h == Host(r)
               v == Join(cur[h], acq[h])
    <2>1. /\ pc[r] = "fence" /\ pc' = [pc EXCEPT ![r] = "after"] /\ cur' = [cur EXCEPT ![h] = v]
          /\ acq' = acq /\ reading' = reading /\ UNCHANGED <<memory, rel, gateVars, events>>
        BY <1>16 DEF AcquireFence, Goto
    <2>2. /\ h \in Threads /\ Within(memory, v) /\ Below(cur[h], v) /\ Below(acq[h], v)
          /\ Within(memory, acq[h]) /\ Below(acq[h], acq[h]) /\ acq' = [acq EXCEPT ![h] = acq[h]]
        <3>1. h \in Threads /\ Within(memory, cur[h]) /\ Within(memory, acq[h])
            BY <1>c
        <3>2. Below(acq[h], acq[h])
            BY <3>1 DEF Below, Within, Views
        <3>3. acq' = [acq EXCEPT ![h] = acq[h]]
            BY <2>1 DEF Known
        <3> QED
            BY <3>1, <3>2, <3>3, JoinIsAbove DEF Typed
    <2> HIDE DEF v, h
    <2>3. Keeps /\ cur'[h] = v /\ acq'[h] = acq[h]
        BY <2>1, <2>2, AfterLooking DEF gateVars
    <2>4. Read(memory, "after", reading[r], v, acq[h])
        <3>1. Read(memory, "fence", reading[r], v, acq[h])
            <4>1. memory \in Memories /\ Extends(memory, memory) /\ Written(memory)
                BY DEF Typed, Extends, Memories, Stored
            <4>2. Read(memory, "fence", reading[r], cur[h], acq[h]) /\ Within(memory, cur[h]) /\ acq[h] \in Views
                  /\ reading[r] \in Readings
                BY <1>c, <2>1 DEF h, Within
            <4> QED
                BY <2>2, <4>1, <4>2, ReadStays
        <3>2. /\ v["sequence"] \in Nat /\ acq[h]["sequence"] \in Nat /\ acq[h]["sequence"] <= v["sequence"]
              /\ reading[r].max \in Nat /\ reading[r].total \in Nat
            BY <1>b, <1>c, <2>2 DEF Within, Below, Views
        <3>3. \A value \in {reading[r].max, reading[r].total} :
                  Loaded(value, reading[r].before, "fence", v, acq[h])
            BY <3>1 DEF Read, HasMax, HasTotal
        <3>4. \A value \in {reading[r].max, reading[r].total} :
                  Loaded(value, reading[r].before, "after", v, acq[h])
            BY <3>2, <3>3 DEF Loaded
        <3> QED
            BY <3>1, <3>4 DEF Read, HasBefore, HasMax, HasTotal
    <2>5. /\ reading' = [reading EXCEPT ![r] = reading[r]] /\ reading[r].host = h /\ "after" \in PCs
          /\ reading[r].answer = "none"
        BY <1>c, <2>1 DEF Typed, PCs, h, Read
    <2>6. /\ Read(memory, "after", reading[r], cur'[reading[r].host], acq'[reading[r].host])
          /\ reading[r].host \in {r, Restarter} /\ reading[r] \in Readings
        BY <1>c, <2>3, <2>4, <2>5
    <2> QED
        BY <2>1, <2>3, <2>5, <2>6, ReaderMoves
<1>17. ASSUME NEW r \in Readers, LoadAfter(r) PROVE IInv'
    <2> DEFINE h == Host(r)
               has == reading[r]
    <2>0. PICK i \in Visible(r, "sequence") :
              /\ LoadRelaxed(h, "sequence", i)
              /\ pc' = [pc EXCEPT ![r] = IF memory["sequence"][i].value = has.before
                                         THEN "poison_check" ELSE "before"]
        BY <1>17 DEF LoadAfter, Goto
    <2>1. pc[r] = "after" /\ reading' = reading /\ UNCHANGED <<memory, rel, gateVars, events>>
        BY <1>17 DEF LoadAfter
    <2>2. /\ h \in Threads /\ i \in cur[h]["sequence"]..Newest("sequence") /\ LoadRelaxed(h, "sequence", i)
          /\ UNCHANGED <<memory, rel, gate_view>>
        BY <1>c, <2>0, <2>1 DEF Visible, gateVars
    <2>3. /\ Keeps /\ i \in 1..Len(memory["sequence"]) /\ cur[h]["sequence"] <= i
        <3> HIDE DEF h
        <3> QED
            BY <1>b, <2>2, AfterLoad
    <2>4. /\ Within(memory, cur[h]) /\ Within(memory, cur'[h]) /\ Below(cur[h], cur'[h])
          /\ acq[h] \in Views /\ acq'[h] \in Views /\ Below(acq[h], acq'[h])
        BY <2>2, <2>3 DEF Keeps, Known, Grows
    <2>5. /\ reading' = [reading EXCEPT ![r] = has] /\ has \in Readings /\ has.host = h /\ has.answer = "none"
          /\ {"before", "poison_check"} \subseteq PCs /\ h \in {r, Restarter}
        BY <1>c, <2>1 DEF Typed, PCs, Read
    <2>6. Read(memory, "after", has, cur'[h], acq'[h])
        <3>1. memory \in Memories /\ Extends(memory, memory) /\ Written(memory)
            BY DEF Typed, Extends, Memories, Stored
        <3>2. Read(memory, "after", has, cur[h], acq[h])
            BY <1>c, <2>1
        <3> HIDE DEF h, has
        <3> QED
            BY <2>4, <2>5, <3>1, <3>2, ReadStays
    <2>7. CASE memory["sequence"][i].value = has.before
        <3>1. i - 1 = has.before /\ i \in Nat /\ i >= 1
            BY <1>b, <2>3, <2>7 DEF Stored, Written
        <3>2. /\ has.before % 2 = 0 /\ has.before \in Nat /\ has.max \in Nat /\ has.total \in Nat
              /\ cur[h]["sequence"] \in Nat
            BY <1>c, <2>1 DEF Read, HasBefore, HasMax
        <3>3. \A value \in {has.max, has.total} : /\ Loaded(value, has.before, "after", cur[h], acq[h])
                                                /\ Loaded(value, has.before, "after", cur'[h], acq'[h])
            BY <1>c, <2>1, <2>6 DEF Read, HasMax, HasTotal
        <3>4. ASSUME NEW value \in {has.max, has.total} PROVE 2 * value <= has.before
            <4>1. value \in Nat /\ 2 * value <= cur[h]["sequence"]
                BY <3>2, <3>3 DEF Loaded
            <4>2. 2 * value <= has.before + 1
                BY <2>3, <3>1, <3>2, <4>1
            <4> HIDE DEF has
            <4> QED
                BY <3>2, <4>1, <4>2, EvenBelow
        <3>5. \A value \in {has.max, has.total} : Loaded(value, has.before, "poison_check", cur'[h], acq'[h])
            BY <3>3, <3>4 DEF Loaded
        <3>6. Read(memory, "poison_check", has, cur'[h], acq'[h])
            BY <2>6, <3>5 DEF Read, HasBefore, HasMax, HasTotal
        <3>7. pc' = [pc EXCEPT ![r] = "poison_check"]
            BY <2>0, <2>7
        <3> HIDE DEF h, has
        <3> QED
            BY <2>1, <2>3, <2>5, <3>6, <3>7, ReaderMoves
    <2>8. CASE memory["sequence"][i].value # has.before
        <3>1. pc' = [pc EXCEPT ![r] = "before"]
            BY <2>0, <2>8
        <3>2. Read(memory, "before", has, cur'[h], acq'[h])
            BY <2>5 DEF Read, HasBefore, HasMax, HasTotal
        <3> HIDE DEF h, has
        <3> QED
            BY <2>1, <2>3, <2>5, <3>1, <3>2, ReaderMoves
    <2> QED
        BY <2>7, <2>8
<1>18. ASSUME NEW r \in Readers, CheckPoison(r) PROVE IInv'
    <2> DEFINE h == Host(r)
    <2>0. PICK i \in Visible(r, "poisoned") :
              /\ LoadRelaxed(h, "poisoned", i)
              /\ End(r, IF memory["poisoned"][i].value = 1 THEN "poisoned" ELSE "read")
        BY <1>18 DEF CheckPoison
    <2> DEFINE answer == IF memory["poisoned"][i].value = 1 THEN "poisoned" ELSE "read"
               has == [reading[r] EXCEPT !.answer = answer]
    <2>1. /\ pc[r] = "poison_check" /\ UNCHANGED <<memory, rel, gateVars, events>>
          /\ reading' = [reading EXCEPT ![r] = has] /\ pc' = [pc EXCEPT ![r] = "idle"]
        BY <1>18, <2>0 DEF CheckPoison, End, Goto
    <2>2. /\ h \in Threads /\ i \in cur[h]["poisoned"]..Newest("poisoned") /\ LoadRelaxed(h, "poisoned", i)
          /\ UNCHANGED <<memory, rel, gate_view>>
        BY <1>c, <2>0, <2>1 DEF Visible, gateVars
    <2>3. /\ Keeps /\ i \in 1..Len(memory["poisoned"]) /\ cur[h]["poisoned"] <= i
        <3> HIDE DEF h
        <3> QED
            BY <1>b, <2>2, AfterLoad
    <2>4. /\ has \in Readings /\ has.host = h /\ has.answer = answer /\ has.before = reading[r].before
          /\ has.max = reading[r].max /\ has.total = reading[r].total /\ "idle" \in PCs
        BY <1>c DEF Readings, PCs
    <2>5. answer = "read" => has.total = has.before \div 2 /\ has.max = has.before \div 2
        <3> SUFFICES ASSUME answer = "read"
                     PROVE  has.total = has.before \div 2 /\ has.max = has.before \div 2
            OBVIOUS
        <3>1. i = 1
            BY <2>3 DEF Stored, Written
        <3>2. ~(cur[h]["poisoned"] >= 2)
            BY <1>c, <2>3, <3>1
        <3>3. \A value \in {has.max, has.total} : Loaded(value, has.before, "poison_check", cur[h], acq[h])
            BY <1>c, <2>1, <2>4 DEF Read, HasMax, HasTotal
        <3>4. has.before \in Nat /\ has.max \in Nat /\ has.total \in Nat
            BY <1>c, <2>4
        <3> HIDE DEF has
        <3>5. has.before = 2 * has.max /\ has.before = 2 * has.total
            BY <3>2, <3>3, <3>4 DEF Loaded
        <3> QED
            BY <3>4, <3>5, HalfOfDouble
    <2> HIDE DEF has
    <2>6. Read(memory, "idle", has, cur'[has.host], acq'[has.host])
        BY DEF Read, HasBefore, HasMax, HasTotal
    <2> HIDE DEF h, answer
    <2> QED
        BY <1>c, <2>1, <2>3, <2>4, <2>5, <2>6, ReaderMoves DEF h
<1>19. CASE UNCHANGED vars
    <2>1. Keeps
        BY <1>19, <1>d DEF vars, gateVars, viewVars
    <2> QED
        BY <1>19, <2>1 DEF vars, gateVars, viewVars, Keeps, Typed, Restart, InGate, Reading, Host,
                           ReadingIsOneWindow, Newest
<1> QED
    BY <1>1, <1>2, <1>3, <1>4, <1>5, <1>6, <1>7, <1>8, <1>9, <1>10, <1>11, <1>12, <1>13, <1>14,
       <1>15,
       <1>16, <1>17, <1>18, <1>19
    DEF Next, ResetStep, RecordStep, ReadStep

LEMMA Invariance == Spec => []IInv
BY InitInv, NextInv, PTL DEF Spec

\* Types: a message is in its own view, no view is of a message not yet stored,
\* and the sequence is odd only while a restart holds the gate.
THEOREM TypeCorrect == Spec => []TypeOK
<1>1. IInv => TypeOK
    <2> SUFFICES ASSUME IInv PROVE TypeOK
        OBVIOUS
    <2> USE DEF IInv
    <2>1. \A l \in Locations : \A i \in DOMAIN memory[l] :
              /\ memory[l][i].value \in 0..(2 * MaxResets)
              /\ memory[l][i].view[l] = i
              /\ \A m \in Locations : memory[l][i].view[m] \in DOMAIN memory[m]
        <3> SUFFICES ASSUME NEW l \in Locations, NEW i \in DOMAIN memory[l]
                     PROVE  /\ memory[l][i].value \in 0..(2 * MaxResets)
                            /\ memory[l][i].view[l] = i
                            /\ \A m \in Locations : memory[l][i].view[m] \in DOMAIN memory[m]
            OBVIOUS
        <3>1. \A m \in Locations : memory[m] \in Seq(Messages) /\ DOMAIN memory[m] = 1..Len(memory[m])
            BY DEF Typed, Memories
        <3>2. memory[l][i] \in Messages
            BY <3>1
        <3>3. memory[l][i].view[l] = i /\ Within(memory, memory[l][i].view)
            BY <3>1 DEF Stored, Written
        <3>4. \A m \in Locations : memory[l][i].view[m] \in 1..Len(memory[m])
            BY <3>1, <3>3 DEF Within, Views
        <3> QED
            BY <3>1, <3>2, <3>3, <3>4 DEF Messages, Values
    <2>2. \A t \in Threads, l \in Locations : cur[t][l] <= Newest(l)
        BY DEF Known, Within, Newest
    <2>3. gate # Restarter => Value("sequence") % 2 = 0
        BY LastValues, Parity, Places DEF Restart
    <2> QED
        BY <2>1, <2>2, <2>3 DEF TypeOK, Typed, Known, Within
<1> QED
    BY <1>1, Invariance, PTL

\* A reading that read_window returns pairs its counters with the window it
\* names, for any number of readers, recorders and restarts.
THEOREM ReadingsAreWhole == Spec => []ReadingIsOneWindow
BY Invariance, PTL DEF IInv

\* Both, the invariant the run checks.
THEOREM WindowsHold == Spec => []Windows
BY TypeCorrect, ReadingsAreWhole, PTL DEF Windows
-----------------------------------------------------------------------------
(***************************************************************************)
(* Assertions beside the program they judge (Assertions.tla)               *)
(*                                                                         *)
(* The inductive invariant, FactsInv, says that the counters are the truth *)
(* while nothing was dropped and the profiler records (CountsAreTrue);     *)
(* that each counter an assertion has read was the truth at some moment    *)
(* since it began, or will be found short of blocks (MeasureIsTrue);   *)
(* that the same holds of a mark (MarkIsTrue); and that totals only grow   *)
(* in a window (WindowsKept), so that a mark of it is never ahead unless   *)
(* its holder edited it.                                                   *)
(***************************************************************************)
CONSTANTS MAX_BLOCKS, Modes, MaxSteps, Limits
VARIABLES state, mode, sampled, poisoned, stats, resets, truth, steps, mark, measure, verdict

Asr == INSTANCE Assertions WITH MaxEvents <- MaxSteps, events <- steps, reading <- measure

Truths == [live : Nat, untracked : Nat, peak : Nat, made : Nat]
Figures == [curr : Int, max : Int, total : Int, dropped : Nat]
Measures == [at : 1..5, read : Seq(Int), window : Nat, seen : SUBSET Truths]
Reads == [curr : Int, max : Int, total : Int, dropped : Nat, resets : Nat]
Marks == [at : {"read", "edited"}, read : Reads, seen : SUBSET Truths]
Answered == {"none", "refused", "incomplete", "pass", "over budget", "leaked",
             "mark", "wrong count", "over ceiling"}

Types ==
    /\ state \in {"idle", "running", "finished", "forked child"}
    /\ poisoned \in BOOLEAN
    /\ stats \in Figures /\ truth \in Truths
    /\ steps \in Nat /\ steps <= MaxSteps /\ resets \in Nat /\ resets <= steps
    /\ mark = Asr!None \/ mark \in Marks
    /\ measure = Asr!None
       \/ /\ measure \in Measures /\ Len(measure.read) = measure.at - 1
          /\ measure.at = 5 => measure.read[4] \in Nat

\* While nothing was dropped and the profiler records, the counters are the truth.
CountsAreTrue ==
    ~poisoned /\ stats.dropped = 0 =>
        /\ truth.untracked = 0
        /\ stats.curr = truth.live /\ stats.max = truth.peak /\ stats.total = truth.made

\* Each counter that was read was the truth at a moment of the reading, if nothing was
\* dropped until the last of them was read.
NoneDropped == IF measure.at = 5 THEN measure.read[4] = 0 ELSE stats.dropped = 0
MeasureIsTrue ==
    measure # Asr!None =>
        /\ truth \in measure.seen
        /\ measure.at > 4 => measure.read[4] <= stats.dropped
        /\ ~poisoned /\ NoneDropped =>
            /\ measure.at > 1 => \E t \in measure.seen : measure.read[1] = Asr!Live(t)
            /\ measure.at > 2 => \E t \in measure.seen : measure.read[2] = t.peak
            /\ measure.at > 3 => \E t \in measure.seen : measure.read[3] = t.made

MarkIsTrue ==
    mark # Asr!None =>
        /\ mark.read.dropped <= stats.dropped
        /\ measure # Asr!None /\ measure.at = 5 => mark.read.dropped <= measure.read[4]
        /\ mark.at = "read" /\ mark.read.dropped = 0 =>
            /\ \E m \in mark.seen : mark.read.curr = Asr!Live(m)
            /\ \E m \in mark.seen : mark.read.total = m.made

\* Totals only grow in a window, and a reading or a mark of it is behind.
WindowsKept ==
    /\ measure # Asr!None =>
        /\ measure.window <= resets
        /\ measure.at > 3 /\ measure.window = resets => measure.read[3] <= stats.total
    /\ mark # Asr!None =>
        /\ mark.read.resets <= resets
        /\ mark.at = "read" /\ mark.read.resets = resets => mark.read.total <= stats.total
    /\ measure # Asr!None /\ mark # Asr!None /\ measure.at > 3 =>
        (mark.at = "read" /\ mark.read.resets = resets /\ measure.window = resets
            => mark.read.total <= measure.read[3])

VerdictIsTrue == verdict.at \in Answered /\ Asr!AnswersAreTrue /\ Asr!MarksAreKept

FactsInv ==
    Types /\ CountsAreTrue /\ MeasureIsTrue /\ MarkIsTrue /\ WindowsKept /\ VerdictIsTrue

-----------------------------------------------------------------------------
(* The shapes of readings, marks and verdicts *)

LEMMA NoneIsNone == Asr!None \notin Measures /\ Asr!None \notin Marks /\ Asr!None.at = "none"
BY DEF Asr!None, Measures, Marks

LEMMA AssertionsConstants ==
    ASSUME Asr!ConstantsAssumption PROVE MaxSteps \in Nat /\ Limits \subseteq Nat
BY DEF Asr!ConstantsAssumption

LEMMA ReadingShape ==
    ASSUME Types, measure # Asr!None
    PROVE  /\ measure \in Measures /\ measure.at \in 1..5 /\ measure.read \in Seq(Int)
           /\ Len(measure.read) = measure.at - 1 /\ measure.window \in Nat
           /\ measure.seen \in SUBSET Truths
           /\ \A i \in 1..(measure.at - 1) : measure.read[i] \in Int
<1>1. measure \in Measures /\ Len(measure.read) = measure.at - 1
    BY DEF Types
<1>2. /\ measure.at \in 1..5 /\ measure.read \in Seq(Int) /\ measure.window \in Nat
      /\ measure.seen \in SUBSET Truths
    BY <1>1 DEF Measures
<1>3. \A i \in 1..Len(measure.read) : measure.read[i] \in Int
    BY <1>2
<1> QED
    BY <1>1, <1>2, <1>3

LEMMA MarkShape ==
    ASSUME Types, mark # Asr!None
    PROVE  /\ mark \in Marks /\ mark.at \in {"read", "edited"} /\ mark.read \in Reads
           /\ mark.read.curr \in Int /\ mark.read.total \in Int /\ mark.read.dropped \in Nat
           /\ mark.read.resets \in Nat /\ mark.seen \in SUBSET Truths
BY DEF Types, Marks, Reads

LEMMA EngineShape ==
    ASSUME Types
    PROVE  /\ stats.curr \in Int /\ stats.max \in Int /\ stats.total \in Int
           /\ stats.dropped \in Nat
           /\ truth.live \in Nat /\ truth.untracked \in Nat /\ truth.peak \in Nat
           /\ truth.made \in Nat
           /\ resets \in Nat /\ steps \in Nat /\ poisoned \in BOOLEAN
BY DEF Types, Figures, Truths

LEMMA NoVerdictYet ==
    ASSUME verdict' = Asr!None
    PROVE  VerdictIsTrue'
<1>1. verdict'.at = "none"
    BY NoneIsNone
<1> QED
    BY <1>1 DEF VerdictIsTrue, Asr!AnswersAreTrue, Asr!MarksAreKept, Asr!Measured, Answered

-----------------------------------------------------------------------------
(* The program *)

\* A step of the program: what it did is seen by a reading under way, dropped blocks
\* stay dropped, and totals fall at a restart only.
Moved ==
    /\ stats' \in Figures /\ truth' \in Truths
    /\ stats.dropped <= stats'.dropped
    /\ \/ resets' = resets /\ stats.total <= stats'.total
       \/ resets' = resets + 1
    /\ CountsAreTrue'
    /\ steps < MaxSteps /\ steps' = steps + 1
    /\ state' = state /\ poisoned' = poisoned /\ mark' = mark /\ verdict' = verdict
    /\ Asr!Witness

LEMMA WitnessShape ==
    ASSUME Types, Asr!Witness
    PROVE  /\ measure' # Asr!None <=> measure # Asr!None
           /\ measure # Asr!None =>
                /\ measure'.at = measure.at /\ measure'.read = measure.read
                /\ measure'.window = measure.window
                /\ measure'.seen = measure.seen \cup {truth'}
                /\ measure' = [at |-> measure.at, read |-> measure.read,
                               window |-> measure.window, seen |-> measure.seen \cup {truth'}]
<1>1. CASE measure = Asr!None
    BY <1>1 DEF Asr!Witness
<1>2. CASE measure # Asr!None
    <2>1. measure \in Measures
        BY <1>2, ReadingShape
    <2>2. measure' = [measure EXCEPT !.seen = measure.seen \cup {truth'}]
        BY <1>2 DEF Asr!Witness
    <2>3. measure' = [at |-> measure.at, read |-> measure.read,
                      window |-> measure.window, seen |-> measure.seen \cup {truth'}]
        BY <2>1, <2>2 DEF Measures
    <2>4. measure' # Asr!None
        BY <2>3 DEF Asr!None
    <2> QED
        BY <1>2, <2>3, <2>4
<1> QED
    BY <1>1, <1>2

LEMMA MovedKeeps ==
    ASSUME Asr!ConstantsAssumption, FactsInv, verdict = Asr!None, Moved
    PROVE  FactsInv'
<1>0. /\ Types /\ CountsAreTrue /\ MeasureIsTrue /\ MarkIsTrue /\ WindowsKept
      /\ stats' \in Figures /\ truth' \in Truths /\ CountsAreTrue'
      /\ poisoned' = poisoned /\ mark' = mark /\ Asr!Witness
    BY DEF FactsInv, Moved
<1>1. /\ stats.dropped \in Nat /\ stats'.dropped \in Nat /\ stats.dropped <= stats'.dropped
      /\ stats.total \in Int /\ stats'.total \in Int
      /\ resets \in Nat /\ resets' \in Nat
      /\ (resets' = resets /\ stats.total <= stats'.total) \/ resets' = resets + 1
    BY <1>0, EngineShape DEF Moved, Figures
<1>2. /\ measure' # Asr!None <=> measure # Asr!None
      /\ measure # Asr!None =>
            /\ measure'.at = measure.at /\ measure'.read = measure.read
            /\ measure'.window = measure.window
            /\ measure'.seen = measure.seen \cup {truth'}
    BY <1>0, WitnessShape
<1>3. Types'
    <2>1. measure # Asr!None => measure' \in Measures
        <3> SUFFICES ASSUME measure # Asr!None PROVE measure' \in Measures
            OBVIOUS
        <3>1. /\ measure.at \in 1..5 /\ measure.read \in Seq(Int) /\ measure.window \in Nat
              /\ measure.seen \in SUBSET Truths
            BY <1>0, ReadingShape
        <3>2. measure' = [at |-> measure.at, read |-> measure.read,
                          window |-> measure.window, seen |-> measure.seen \cup {truth'}]
            BY <1>0, WitnessShape
        <3> QED
            BY <3>1, <3>2, <1>0 DEF Measures
    <2>2. \/ measure' = Asr!None
          \/ /\ measure' \in Measures /\ Len(measure'.read) = measure'.at - 1
             /\ measure'.at = 5 => measure'.read[4] \in Nat
        <3>1. CASE measure = Asr!None
            BY <3>1, <1>2, Zenon
        <3>2. CASE measure # Asr!None
            <4>1. /\ Len(measure.read) = measure.at - 1
                  /\ measure.at = 5 => measure.read[4] \in Nat
                BY <3>2, <1>0 DEF Types
            <4>2. measure'.at = measure.at /\ measure'.read = measure.read
                BY <3>2, <1>2, Zenon
            <4> QED
                BY <3>2, <4>1, <4>2, <2>1, Zenon
        <3> QED
            BY <3>1, <3>2
    <2>3. /\ steps' \in Nat /\ steps' <= MaxSteps /\ resets' \in Nat /\ resets' <= steps'
          /\ state' \in {"idle", "running", "finished", "forked child"}
        <3>1. /\ steps \in Nat /\ resets \in Nat /\ resets <= steps
              /\ state \in {"idle", "running", "finished", "forked child"}
            BY <1>0 DEF Types
        <3>2. state' = state /\ steps' = steps + 1 /\ steps < MaxSteps
            BY DEF Moved
        <3>3. steps' \in Nat /\ steps' <= MaxSteps /\ resets' \in Nat /\ resets' <= steps'
            <4>1. /\ steps \in Nat /\ resets \in Nat /\ resets <= steps
                  /\ steps' = steps + 1 /\ steps < MaxSteps
                  /\ resets' = resets \/ resets' = resets + 1
                BY <3>1, <3>2, <1>1
            <4> QED
                BY <4>1, AssertionsConstants
        <3> QED
            BY <3>1, <3>2, <3>3, Zenon
    <2>4. poisoned' \in BOOLEAN /\ (mark' = Asr!None \/ mark' \in Marks)
        BY <1>0 DEF Types
    <2> QED
        BY <2>2, <2>3, <2>4, <1>0, Zenon DEF Types
<1>4. MeasureIsTrue'
    <2> SUFFICES ASSUME measure # Asr!None
                 PROVE  /\ truth' \in measure'.seen
                        /\ measure'.at > 4 => measure'.read[4] <= stats'.dropped
                        /\ ~poisoned' /\ NoneDropped' =>
                            /\ measure'.at > 1 =>
                                  \E t \in measure'.seen : measure'.read[1] = Asr!Live(t)
                            /\ measure'.at > 2 => \E t \in measure'.seen : measure'.read[2] = t.peak
                            /\ measure'.at > 3 => \E t \in measure'.seen : measure'.read[3] = t.made
        BY <1>2 DEF MeasureIsTrue, Asr!Live
    <2>1. measure.at \in 1..5 /\ (measure.at = 5 => measure.read[4] \in Nat)
        BY <1>0, ReadingShape DEF Types
    <2>2. NoneDropped' => NoneDropped
        BY <1>1, <1>2, <2>1 DEF NoneDropped
    <2>3. measure'.at > 4 => measure'.read[4] <= stats'.dropped
        BY <1>0, <1>1, <1>2, <2>1 DEF MeasureIsTrue
    <2>4. ~poisoned' /\ NoneDropped' =>
            /\ measure.at > 1 => \E t \in measure.seen : measure.read[1] = Asr!Live(t)
            /\ measure.at > 2 => \E t \in measure.seen : measure.read[2] = t.peak
            /\ measure.at > 3 => \E t \in measure.seen : measure.read[3] = t.made
        BY <1>0, <2>2 DEF MeasureIsTrue
    <2> QED
        BY <1>2, <2>3, <2>4
<1>5. MarkIsTrue'
    <2> SUFFICES ASSUME mark # Asr!None PROVE MarkIsTrue'
        BY <1>0 DEF MarkIsTrue
    <2>1. mark.read.dropped \in Nat
        BY <1>0, MarkShape
    <2>2. mark.read.dropped <= stats.dropped
        BY <1>0 DEF MarkIsTrue
    <2>3. mark.read.dropped <= stats'.dropped
        BY <2>1, <2>2, <1>1
    <2> QED
        BY <2>3, <1>0, <1>2 DEF MarkIsTrue, Asr!Live
<1>6. WindowsKept'
    <2>1. measure # Asr!None =>
              /\ measure.window \in Nat /\ measure.at \in 1..5
              /\ measure.at > 3 => measure.read[3] \in Int
        BY <1>0, ReadingShape
    <2>2. mark # Asr!None => mark.read.resets \in Nat /\ mark.read.total \in Int
        BY <1>0, MarkShape
    <2>3. measure' # Asr!None =>
            /\ measure'.window <= resets'
            /\ measure'.at > 3 /\ measure'.window = resets' => measure'.read[3] <= stats'.total
        <3> SUFFICES ASSUME measure # Asr!None
                     PROVE  /\ measure.window <= resets'
                            /\ measure.at > 3 /\ measure.window = resets' =>
                                  measure.read[3] <= stats'.total
            BY <1>2, Zenon
        <3>1. /\ measure.window <= resets
              /\ measure.at > 3 /\ measure.window = resets => measure.read[3] <= stats.total
            BY <1>0 DEF WindowsKept
        <3> QED
            <4>1. CASE resets' = resets /\ stats.total <= stats'.total
                BY <1>1, <2>1, <3>1, <4>1
            <4>2. CASE resets' = resets + 1
                <5>1. measure.window \in Nat /\ measure.window <= resets /\ resets \in Nat
                    BY <1>1, <2>1, <3>1
                <5>2. measure.window <= resets' /\ measure.window # resets'
                    BY <5>1, <4>2
                <5> QED
                    BY <5>2
            <4> QED
                BY <1>1, <4>1, <4>2
    <2>4. mark' # Asr!None =>
            /\ mark'.read.resets <= resets'
            /\ mark'.at = "read" /\ mark'.read.resets = resets' => mark'.read.total <= stats'.total
        BY <1>0, <1>1, <2>2 DEF WindowsKept
    <2>5. measure' # Asr!None /\ mark' # Asr!None /\ measure'.at > 3 =>
            (mark'.at = "read" /\ mark'.read.resets = resets' /\ measure'.window = resets'
                => mark'.read.total <= measure'.read[3])
        BY <1>0, <1>1, <1>2, <2>1, <2>2 DEF WindowsKept
    <2> QED
        BY <2>3, <2>4, <2>5 DEF WindowsKept
<1>7. VerdictIsTrue'
    BY NoVerdictYet DEF Moved
<1> QED
    BY <1>0, <1>3, <1>4, <1>5, <1>6, <1>7 DEF FactsInv

LEMMA AllocateKeeps ==
    ASSUME Asr!ConstantsAssumption, FactsInv, verdict = Asr!None, Asr!Allocate
    PROVE  FactsInv'
<1> DEFINE recorded == ~poisoned /\ truth.live < MAX_BLOCKS
           live == IF recorded THEN truth.live + 1 ELSE truth.live
           untracked == IF recorded THEN truth.untracked ELSE truth.untracked + 1
<1>0. Types /\ CountsAreTrue
    BY DEF FactsInv
<1>1. /\ stats.curr \in Int /\ stats.max \in Int /\ stats.total \in Int /\ stats.dropped \in Nat
      /\ truth.live \in Nat /\ truth.untracked \in Nat /\ truth.peak \in Nat /\ truth.made \in Nat
      /\ resets \in Nat /\ poisoned \in BOOLEAN
    BY <1>0, EngineShape
<1>2. truth' = [live |-> live, untracked |-> untracked, made |-> truth.made + 1,
                peak |-> Asr!Greater(truth.peak, live + untracked)]
    BY DEF Asr!Allocate
<1>3. live \in Nat /\ untracked \in Nat /\ Asr!Greater(truth.peak, live + untracked) \in Nat
    BY <1>1 DEF Asr!Greater
<1>4. truth' \in Truths
    <2> HIDE DEF live, untracked
    <2> QED
        BY <1>1, <1>2, <1>3 DEF Truths
<1>5. CASE recorded
    <2>1. stats' = [curr |-> stats.curr + 1, total |-> stats.total + 1,
                    max |-> Asr!Greater(stats.max, stats.curr + 1), dropped |-> stats.dropped]
        BY <1>5 DEF Asr!Allocate
    <2>2. stats' \in Figures /\ stats.dropped <= stats'.dropped /\ stats.total <= stats'.total
        BY <1>1, <2>1 DEF Figures, Asr!Greater
    <2>3. CountsAreTrue'
        <3> SUFFICES ASSUME stats.dropped = 0
                     PROVE  /\ truth'.untracked = 0 /\ stats'.curr = truth'.live
                            /\ stats'.max = truth'.peak /\ stats'.total = truth'.made
            BY <2>1, <1>2 DEF CountsAreTrue
        <3>1. /\ truth.untracked = 0 /\ stats.curr = truth.live /\ stats.max = truth.peak
              /\ stats.total = truth.made
            BY <1>0, <1>5 DEF CountsAreTrue
        <3>2. /\ truth'.live = truth.live + 1 /\ truth'.untracked = 0
              /\ truth'.made = truth.made + 1
              /\ truth'.peak = Asr!Greater(truth.peak, truth.live + 1)
            BY <1>1, <1>2, <1>5, <3>1
        <3>3. /\ stats'.curr = stats.curr + 1 /\ stats'.total = stats.total + 1
              /\ stats'.max = Asr!Greater(stats.max, stats.curr + 1)
            BY <2>1
        <3> QED
            BY <3>1, <3>2, <3>3, Zenon
    <2>4. Moved
        BY <2>2, <2>3, <1>4 DEF Moved, Asr!Allocate, Asr!Event
    <2> QED
        BY <2>4, MovedKeeps
<1>6. CASE ~recorded /\ ~poisoned
    <2>1. stats' = [stats EXCEPT !.dropped = @ + 1]
        BY <1>6 DEF Asr!Allocate
    <2>2. /\ stats' \in Figures /\ stats'.dropped = stats.dropped + 1 /\ stats'.total = stats.total
        <3>1. stats \in Figures
            BY <1>0 DEF Types
        <3>2. stats.dropped + 1 \in Nat
            BY <1>1
        <3> QED
            BY <2>1, <3>1, <3>2 DEF Figures
    <2>3. stats.dropped <= stats'.dropped /\ stats.total <= stats'.total /\ stats'.dropped # 0
        BY <1>1, <2>2
    <2>4. Moved
        BY <2>2, <2>3, <1>4 DEF Moved, Asr!Allocate, Asr!Event, CountsAreTrue
    <2> QED
        BY <2>4, MovedKeeps
<1>7. CASE poisoned
    <2>1. stats' = stats /\ poisoned'
        BY <1>7 DEF Asr!Allocate
    <2>2. stats' \in Figures /\ stats.dropped <= stats'.dropped /\ stats.total <= stats'.total
        <3>1. stats \in Figures
            BY <1>0 DEF Types
        <3>2. stats.dropped <= stats.dropped /\ stats.total <= stats.total
            BY <1>1
        <3> QED
            BY <2>1, <3>1, <3>2, Zenon
    <2>4. Moved
        BY <2>1, <2>2, <1>4 DEF Moved, Asr!Allocate, Asr!Event, CountsAreTrue
    <2> QED
        BY <2>4, MovedKeeps
<1> QED
    BY <1>5, <1>6, <1>7

LEMMA FreeKeeps ==
    ASSUME Asr!ConstantsAssumption, FactsInv, verdict = Asr!None, Asr!Free
    PROVE  FactsInv'
<1>0. Types /\ CountsAreTrue /\ truth \in Truths /\ stats \in Figures
    BY DEF FactsInv, Types
<1>1. /\ stats.curr \in Int /\ stats.total \in Int /\ stats.dropped \in Nat
      /\ truth.live \in Nat /\ truth.untracked \in Nat /\ resets \in Nat
    BY <1>0, EngineShape
<1>2. CASE /\ truth.live > 0 /\ truth' = [truth EXCEPT !.live = @ - 1]
           /\ stats' = IF poisoned THEN stats ELSE [stats EXCEPT !.curr = @ - 1]
    <2>1. /\ truth' \in Truths /\ truth'.live = truth.live - 1
          /\ truth'.untracked = truth.untracked /\ truth'.peak = truth.peak
          /\ truth'.made = truth.made
        BY <1>0, <1>1, <1>2 DEF Truths
    <2>2. /\ stats' \in Figures /\ stats'.dropped = stats.dropped /\ stats'.total = stats.total
          /\ stats'.max = stats.max
          /\ ~poisoned => stats'.curr = stats.curr - 1
        BY <1>0, <1>1, <1>2 DEF Figures
    <2>3. stats.dropped <= stats'.dropped /\ stats.total <= stats'.total
        BY <1>1, <2>2
    <2>4. CountsAreTrue'
        BY <1>0, <2>1, <2>2 DEF CountsAreTrue, Asr!Free
    <2>5. Moved
        BY <2>1, <2>2, <2>3, <2>4 DEF Moved, Asr!Free, Asr!Event
    <2> QED
        BY <2>5, MovedKeeps
<1>3. CASE /\ truth.untracked > 0 /\ truth' = [truth EXCEPT !.untracked = @ - 1] /\ UNCHANGED stats
    <2>1. truth' \in Truths
        BY <1>0, <1>1, <1>3 DEF Truths
    <2>2. stats.dropped <= stats'.dropped /\ stats.total <= stats'.total /\ stats' \in Figures
        BY <1>0, <1>1, <1>3
    <2>3. truth.untracked # 0
        BY <1>1, <1>3
    <2>4. CountsAreTrue'
        BY <1>0, <1>3, <2>3 DEF CountsAreTrue, Asr!Free
    <2>5. Moved
        BY <2>1, <2>2, <2>4 DEF Moved, Asr!Free, Asr!Event
    <2> QED
        BY <2>5, MovedKeeps
<1> QED
    BY <1>2, <1>3 DEF Asr!Free

LEMMA RestartKeeps ==
    ASSUME Asr!ConstantsAssumption, FactsInv, verdict = Asr!None, Asr!Restart
    PROVE  FactsInv'
<1>0. Types /\ CountsAreTrue /\ truth \in Truths /\ stats \in Figures
    BY DEF FactsInv, Types
<1>1. /\ stats.curr \in Int /\ stats.dropped \in Nat /\ truth.live \in Nat
      /\ truth.untracked \in Nat /\ Asr!Live(truth) \in Nat
    BY <1>0, EngineShape DEF Asr!Live
<1>2. /\ truth' \in Truths /\ truth'.made = 0 /\ truth'.peak = truth.live + truth.untracked
      /\ truth'.live = truth.live /\ truth'.untracked = truth.untracked
    BY <1>0, <1>1 DEF Asr!Restart, Truths, Asr!Live
<1>3. /\ stats' \in Figures /\ stats'.total = 0 /\ stats'.max = stats.curr
      /\ stats'.curr = stats.curr /\ stats'.dropped = stats.dropped
    <2>1. stats' = [stats EXCEPT !.total = 0, !.max = stats.curr]
        BY DEF Asr!Restart, Asr!Restarted
    <2>2. stats = [curr |-> stats.curr, max |-> stats.max, total |-> stats.total,
                   dropped |-> stats.dropped]
        BY <1>0 DEF Figures
    <2>3. stats' = [curr |-> stats.curr, max |-> stats.curr, total |-> 0,
                    dropped |-> stats.dropped]
        BY <2>1, <2>2
    <2> QED
        BY <1>1, <2>3 DEF Figures
<1>4. CountsAreTrue'
    <2> SUFFICES ASSUME stats.dropped = 0
                 PROVE  /\ truth'.untracked = 0 /\ stats'.curr = truth'.live
                        /\ stats'.max = truth'.peak /\ stats'.total = truth'.made
        BY <1>3 DEF CountsAreTrue
    <2>1. truth.untracked = 0 /\ stats.curr = truth.live
        BY <1>0 DEF CountsAreTrue, Asr!Restart
    <2> QED
        BY <1>1, <1>2, <1>3, <2>1
<1>5. stats.dropped <= stats'.dropped
    BY <1>1, <1>3
<1>6. Moved
    BY <1>2, <1>3, <1>4, <1>5 DEF Moved, Asr!Restart, Asr!Event
<1> QED
    BY <1>6, MovedKeeps

\* Poison, the end of the run and steps of others: what was counted and read stays.
LEMMA QuietKeeps ==
    ASSUME FactsInv, stats' = stats, truth' = truth, resets' = resets, mark' = mark,
           measure' = measure, verdict' = verdict,
           poisoned' \in BOOLEAN, poisoned => poisoned',
           steps' \in Nat, steps' <= MaxSteps, resets <= steps',
           state' \in {"idle", "running", "finished", "forked child"}
    PROVE  FactsInv'
<1>0. Types /\ CountsAreTrue /\ MeasureIsTrue /\ MarkIsTrue /\ WindowsKept /\ VerdictIsTrue
    BY DEF FactsInv
<1>1. Types'
    BY <1>0 DEF Types
<1>2. CountsAreTrue'
    BY <1>0 DEF CountsAreTrue
<1>3. MeasureIsTrue'
    <2>1. NoneDropped' <=> NoneDropped
        BY DEF NoneDropped
    <2>2. measure # Asr!None =>
            /\ truth \in measure.seen
            /\ measure.at > 4 => measure.read[4] <= stats.dropped
        BY <1>0 DEF MeasureIsTrue
    <2>3. measure # Asr!None /\ ~poisoned /\ NoneDropped =>
            /\ measure.at > 1 => \E t \in measure.seen : measure.read[1] = Asr!Live(t)
            /\ measure.at > 2 => \E t \in measure.seen : measure.read[2] = t.peak
            /\ measure.at > 3 => \E t \in measure.seen : measure.read[3] = t.made
        BY <1>0 DEF MeasureIsTrue
    <2> QED
        BY <2>1, <2>2, <2>3 DEF MeasureIsTrue, Asr!Live
<1>4. MarkIsTrue'
    BY <1>0 DEF MarkIsTrue, Asr!Live
<1>5. WindowsKept'
    BY <1>0 DEF WindowsKept
<1>6. VerdictIsTrue'
    <2>1. verdict.at \in Answered /\ Asr!AnswersAreTrue /\ Asr!MarksAreKept
        BY <1>0 DEF VerdictIsTrue
    <2>2. Asr!Measured' = Asr!Measured /\ Asr!FromMark' = Asr!FromMark
        BY DEF Asr!Measured, Asr!FromMark
    <2>3. Asr!Moments' = Asr!Moments
        BY <2>2 DEF Asr!Moments, Asr!Live
    <2>4. Asr!AnswersAreTrue'
        BY <2>1, <2>2, <2>3 DEF Asr!AnswersAreTrue, Asr!Holds, Asr!Live
    <2>5. Asr!MarksAreKept'
        BY <2>1, <2>2 DEF Asr!MarksAreKept
    <2> QED
        BY <2>1, <2>4, <2>5 DEF VerdictIsTrue
<1> QED
    BY <1>1, <1>2, <1>3, <1>4, <1>5, <1>6 DEF FactsInv

LEMMA PoisonKeeps ==
    ASSUME Asr!ConstantsAssumption, FactsInv, Asr!Poison PROVE FactsInv'
<1>1. /\ steps \in Nat /\ resets \in Nat /\ resets <= steps /\ MaxSteps \in Nat
      /\ state \in {"idle", "running", "finished", "forked child"}
    BY AssertionsConstants DEF FactsInv, Types
<1>2. /\ stats' = stats /\ truth' = truth /\ resets' = resets /\ mark' = mark
      /\ measure' = measure /\ verdict' = verdict /\ poisoned' = TRUE /\ state' = state
      /\ steps < MaxSteps /\ steps' = steps + 1
    BY DEF Asr!Poison, Asr!Event
<1>3. steps' \in Nat /\ steps' <= MaxSteps /\ resets <= steps'
    <2>1. /\ steps \in Nat /\ resets \in Nat /\ resets <= steps /\ MaxSteps \in Nat
          /\ steps < MaxSteps /\ steps' = steps + 1
        BY <1>1, <1>2, Zenon
    <2> QED
        BY <2>1
<1>4. /\ poisoned' \in BOOLEAN /\ (poisoned => poisoned')
      /\ state' \in {"idle", "running", "finished", "forked child"}
    BY <1>1, <1>2, Zenon
<1> QED
    BY <1>2, <1>3, <1>4, QuietKeeps

LEMMA StopKeeps == ASSUME FactsInv, Asr!Stop PROVE FactsInv'
<1>1. /\ steps \in Nat /\ steps <= MaxSteps /\ resets <= steps /\ poisoned \in BOOLEAN
    BY DEF FactsInv, Types
<1>2. /\ stats' = stats /\ truth' = truth /\ resets' = resets /\ mark' = mark
      /\ measure' = measure /\ verdict' = verdict /\ poisoned' = poisoned /\ steps' = steps
      /\ state' \in {"idle", "running", "finished", "forked child"}
    BY DEF Asr!Stop
<1> QED
    BY <1>1, <1>2, QuietKeeps

LEMMA StutterKeeps == ASSUME FactsInv, UNCHANGED Asr!vars PROVE FactsInv'
<1>1. /\ steps \in Nat /\ steps <= MaxSteps /\ resets <= steps /\ poisoned \in BOOLEAN
      /\ state \in {"idle", "running", "finished", "forked child"}
    BY DEF FactsInv, Types
<1>2. /\ stats' = stats /\ truth' = truth /\ resets' = resets /\ mark' = mark
      /\ measure' = measure /\ verdict' = verdict /\ poisoned' = poisoned /\ steps' = steps
      /\ state' = state
    BY DEF Asr!vars, Asr!engine
<1> QED
    BY <1>1, <1>2, QuietKeeps

-----------------------------------------------------------------------------
(* The reader *)

\* A step of the reader: the engine and the mark stay.
LEMMA ReaderKeeps ==
    ASSUME FactsInv, UNCHANGED Asr!engine, mark' = mark, verdict' = Asr!None,
           measure' \in Measures, Len(measure'.read) = measure'.at - 1,
           measure'.at = 5 => measure'.read[4] \in Nat,
           MeasureIsTrue',
           mark # Asr!None /\ measure'.at = 5 => mark.read.dropped <= measure'.read[4],
           measure'.window <= resets,
           measure'.at > 3 /\ measure'.window = resets => measure'.read[3] <= stats.total,
           mark # Asr!None /\ measure'.at > 3 /\ mark.at = "read" /\ mark.read.resets = resets
                /\ measure'.window = resets => mark.read.total <= measure'.read[3]
    PROVE  FactsInv'
<1>0. /\ Types /\ CountsAreTrue /\ MarkIsTrue /\ WindowsKept
      /\ stats' = stats /\ truth' = truth /\ resets' = resets /\ poisoned' = poisoned
      /\ steps' = steps /\ state' = state
    BY DEF FactsInv, Asr!engine
<1>1. Types'
    BY <1>0 DEF Types
<1>2. CountsAreTrue'
    BY <1>0 DEF CountsAreTrue
<1>3. MarkIsTrue'
    BY <1>0 DEF MarkIsTrue, Asr!Live
<1>4. WindowsKept'
    BY <1>0 DEF WindowsKept
<1> QED
    BY <1>1, <1>2, <1>3, <1>4, NoVerdictYet DEF FactsInv

\* A reading begins, for the first time or again, with the moment it is.
LEMMA FreshKeeps ==
    ASSUME FactsInv, UNCHANGED Asr!engine, mark' = mark, verdict' = Asr!None,
           measure' = [at |-> 1, read |-> <<>>, window |-> resets, seen |-> {truth}]
    PROVE  FactsInv'
<1>1. resets \in Nat /\ truth \in Truths
    BY DEF FactsInv, Types
<1>2. /\ measure'.at = 1 /\ measure'.read = <<>> /\ measure'.window = resets
      /\ measure'.seen = {truth}
    OBVIOUS
<1>3. measure' \in Measures
    <2>1. <<>> \in Seq(Int)
        OBVIOUS
    <2> QED
        BY <2>1, <1>1 DEF Measures
<1>4. Len(measure'.read) = measure'.at - 1
    BY <1>2
<1>5. MeasureIsTrue'
    <2>1. truth' = truth
        BY DEF Asr!engine
    <2> QED
        BY <2>1, <1>2 DEF MeasureIsTrue
<1>6. measure'.window <= resets
    BY <1>1, <1>2
<1> QED
    BY <1>2, <1>3, <1>4, <1>5, <1>6, ReaderKeeps

LEMMA BeginKeeps == ASSUME FactsInv, verdict = Asr!None, Asr!Begin PROVE FactsInv'
<1>0. Types
    BY DEF FactsInv
<1>1. CASE Asr!Refusal # "none"
    <2>1. /\ verdict' = [at |-> "refused", why |-> Asr!Refusal] /\ measure' = measure
          /\ UNCHANGED Asr!engine /\ mark' = mark
        BY <1>1 DEF Asr!Begin
    <2>2. verdict'.at = "refused"
        BY <2>1
    <2>3. VerdictIsTrue'
        BY <2>2 DEF VerdictIsTrue, Asr!AnswersAreTrue, Asr!MarksAreKept, Asr!Measured, Answered
    <2>4. Types' /\ CountsAreTrue' /\ MeasureIsTrue' /\ MarkIsTrue' /\ WindowsKept'
        <3>1. /\ stats' = stats /\ truth' = truth /\ resets' = resets /\ poisoned' = poisoned
              /\ steps' = steps /\ state' = state /\ measure' = measure /\ mark' = mark
            BY <2>1 DEF Asr!engine
        <3>2. Types /\ CountsAreTrue /\ MeasureIsTrue /\ MarkIsTrue /\ WindowsKept
            BY DEF FactsInv
        <3>3. Types'
            BY <3>1, <3>2 DEF Types
        <3>4. CountsAreTrue'
            BY <3>1, <3>2 DEF CountsAreTrue
        <3>5. MeasureIsTrue'
            <4>1. NoneDropped' <=> NoneDropped
                BY <3>1 DEF NoneDropped
            <4> QED
                BY <3>1, <3>2, <4>1 DEF MeasureIsTrue, Asr!Live
        <3>6. MarkIsTrue'
            BY <3>1, <3>2 DEF MarkIsTrue, Asr!Live
        <3>7. WindowsKept'
            BY <3>1, <3>2 DEF WindowsKept
        <3> QED
            BY <3>3, <3>4, <3>5, <3>6, <3>7
    <2> QED
        BY <2>3, <2>4 DEF FactsInv
<1>2. CASE Asr!Refusal = "none"
    <2>1. /\ measure' = [at |-> 1, read |-> <<>>, window |-> resets, seen |-> {truth}]
          /\ verdict' = Asr!None /\ UNCHANGED Asr!engine /\ mark' = mark
        BY <1>2 DEF Asr!Begin
    <2> QED
        BY <2>1, FreshKeeps
<1> QED
    BY <1>1, <1>2

LEMMA ReadNextKeeps == ASSUME FactsInv, verdict = Asr!None, Asr!ReadNext PROVE FactsInv'
<1> DEFINE value == stats[Asr!Counters[measure.at]]
<1>0. /\ Types /\ CountsAreTrue /\ MeasureIsTrue /\ MarkIsTrue /\ WindowsKept
      /\ measure # Asr!None
    BY DEF FactsInv, Asr!ReadNext
<1>1. /\ measure \in Measures /\ measure.read \in Seq(Int)
      /\ Len(measure.read) = measure.at - 1 /\ measure.window \in Nat
      /\ measure.seen \in SUBSET Truths /\ measure.at \in 1..5
    BY <1>0, ReadingShape
<1>2. measure.at \in 1..4
    <2>1. Len(Asr!Counters) = 4
        BY DEF Asr!Counters
    <2>2. measure.at <= 4
        BY <2>1 DEF Asr!ReadNext
    <2> QED
        BY <1>1, <2>2
<1>3. /\ measure.at = 1 => value = stats.curr
      /\ measure.at = 2 => value = stats.max
      /\ measure.at = 3 => value = stats.total
      /\ measure.at = 4 => value = stats.dropped
    BY DEF Asr!Counters
<1>4. /\ stats.curr \in Int /\ stats.max \in Int /\ stats.total \in Int
      /\ stats.dropped \in Nat /\ resets \in Nat
      /\ truth.live \in Nat /\ truth.untracked \in Nat
    BY <1>0, EngineShape
<1>5. value \in Int
    <2> HIDE DEF value
    <2>1. measure.at = 1 \/ measure.at = 2 \/ measure.at = 3 \/ measure.at = 4
        BY <1>2
    <2>2. value = stats.curr \/ value = stats.max \/ value = stats.total \/ value = stats.dropped
        BY <1>3, <2>1
    <2> QED
        BY <1>4, <2>2
<1>6. measure' = [at |-> measure.at + 1, read |-> Append(measure.read, value),
                  window |-> measure.window, seen |-> measure.seen]
    <2>1. measure' = [measure EXCEPT !.at = @ + 1, !.read = Append(@, value)]
        BY DEF Asr!ReadNext
    <2>2. measure = [at |-> measure.at, read |-> measure.read,
                     window |-> measure.window, seen |-> measure.seen]
        BY <1>1 DEF Measures
    <2> HIDE DEF value
    <2> QED
        BY <2>1, <2>2
<1>7. /\ stats' = stats /\ truth' = truth /\ resets' = resets /\ poisoned' = poisoned
      /\ mark' = mark /\ verdict' = Asr!None /\ UNCHANGED Asr!engine
    BY DEF Asr!ReadNext, Asr!engine
<1> HIDE DEF value
<1>8. /\ measure'.at = measure.at + 1 /\ measure'.read = Append(measure.read, value)
      /\ measure'.window = measure.window /\ measure'.seen = measure.seen
    BY <1>6
<1>9. /\ measure'.read \in Seq(Int) /\ Len(measure'.read) = measure.at
      /\ \A i \in 1..(measure.at - 1) : measure'.read[i] = measure.read[i]
      /\ measure'.read[measure.at] = value
    <2>1. measure.read \in Seq(Int) /\ value \in Int
        BY <1>1, <1>5
    <2>2. /\ Append(measure.read, value) \in Seq(Int)
          /\ Len(Append(measure.read, value)) = Len(measure.read) + 1
          /\ \A i \in 1..Len(measure.read) :
                Append(measure.read, value)[i] = measure.read[i]
          /\ Append(measure.read, value)[Len(measure.read) + 1] = value
        BY <2>1, AppendProperties
    <2>3. Len(measure.read) = measure.at - 1 /\ Len(measure.read) + 1 = measure.at
        BY <1>1
    <2> QED
        BY <1>8, <2>2, <2>3, Zenon
<1>10. measure' \in Measures /\ Len(measure'.read) = measure'.at - 1
    <2>1. measure.at + 1 \in 1..5 /\ measure.at = (measure.at + 1) - 1
        BY <1>2
    <2>2. Append(measure.read, value) \in Seq(Int)
        BY <1>8, <1>9
    <2>3. measure' \in Measures
        BY <1>1, <1>6, <2>1, <2>2 DEF Measures
    <2> QED
        BY <1>8, <1>9, <2>1, <2>3
<1>11. CASE measure.at = 1
    <2>1. measure'.at = 2 /\ measure'.read[1] = stats.curr
        BY <1>3, <1>8, <1>9, <1>11
    <2>2. MeasureIsTrue'
        <3>1. truth \in measure.seen
            BY <1>0 DEF MeasureIsTrue
        <3>2. ~poisoned /\ stats.dropped = 0 => stats.curr = Asr!Live(truth)
            BY <1>0, <1>4 DEF CountsAreTrue, Asr!Live
        <3>3. NoneDropped' => stats.dropped = 0
            BY <1>7, <2>1 DEF NoneDropped
        <3> QED
            BY <1>7, <1>8, <2>1, <3>1, <3>2, <3>3 DEF MeasureIsTrue, Asr!Live
    <2>3. measure'.window <= resets
        BY <1>0, <1>8 DEF WindowsKept
    <2> QED
        BY <1>7, <1>10, <2>1, <2>2, <2>3, ReaderKeeps
<1>12. CASE measure.at = 2
    <2>1. /\ measure'.at = 3 /\ measure'.read[2] = stats.max
          /\ measure'.read[1] = measure.read[1]
        BY <1>3, <1>8, <1>9, <1>12
    <2>2. MeasureIsTrue'
        <3>1. truth \in measure.seen
            BY <1>0 DEF MeasureIsTrue
        <3>2. ~poisoned /\ stats.dropped = 0 => stats.max = truth.peak
            BY <1>0 DEF CountsAreTrue
        <3>3. NoneDropped' => stats.dropped = 0
            BY <1>7, <2>1 DEF NoneDropped
        <3>4. stats.dropped = 0 => NoneDropped
            BY <1>12 DEF NoneDropped
        <3>5. ~poisoned /\ NoneDropped => \E t \in measure.seen : measure.read[1] = Asr!Live(t)
            BY <1>0, <1>12 DEF MeasureIsTrue
        <3> QED
            BY <1>7, <1>8, <2>1, <3>1, <3>2, <3>3, <3>4, <3>5 DEF MeasureIsTrue, Asr!Live
    <2>3. measure'.window <= resets
        BY <1>0, <1>8 DEF WindowsKept
    <2> QED
        BY <1>7, <1>10, <2>1, <2>2, <2>3, ReaderKeeps
<1>13. CASE measure.at = 3
    <2>1. /\ measure'.at = 4 /\ measure'.read[3] = stats.total
          /\ measure'.read[1] = measure.read[1] /\ measure'.read[2] = measure.read[2]
        BY <1>3, <1>8, <1>9, <1>13
    <2>2. MeasureIsTrue'
        <3>1. truth \in measure.seen
            BY <1>0 DEF MeasureIsTrue
        <3>2. ~poisoned /\ stats.dropped = 0 => stats.total = truth.made
            BY <1>0 DEF CountsAreTrue
        <3>3. NoneDropped' => stats.dropped = 0
            BY <1>7, <2>1 DEF NoneDropped
        <3>4. stats.dropped = 0 => NoneDropped
            BY <1>13 DEF NoneDropped
        <3>5. ~poisoned /\ NoneDropped =>
                /\ \E t \in measure.seen : measure.read[1] = Asr!Live(t)
                /\ \E t \in measure.seen : measure.read[2] = t.peak
            BY <1>0, <1>13 DEF MeasureIsTrue
        <3> QED
            BY <1>7, <1>8, <2>1, <3>1, <3>2, <3>3, <3>4, <3>5 DEF MeasureIsTrue, Asr!Live
    <2>3. measure'.window <= resets
        BY <1>0, <1>8 DEF WindowsKept
    <2>4. stats.total <= stats.total
        BY <1>4
    <2>5. mark # Asr!None /\ mark.at = "read" /\ mark.read.resets = resets
            => mark.read.total <= stats.total
        BY <1>0 DEF WindowsKept
    <2> QED
        BY <1>7, <1>10, <2>1, <2>2, <2>3, <2>4, <2>5, ReaderKeeps
<1>14. CASE measure.at = 4
    <2>1. /\ measure'.at = 5 /\ measure'.read[4] = stats.dropped
          /\ measure'.read[1] = measure.read[1] /\ measure'.read[2] = measure.read[2]
          /\ measure'.read[3] = measure.read[3]
        BY <1>3, <1>8, <1>9, <1>14
    <2>2. MeasureIsTrue'
        <3>1. truth \in measure.seen /\ stats.dropped <= stats.dropped
            BY <1>0, <1>4 DEF MeasureIsTrue
        <3>3. NoneDropped' => stats.dropped = 0
            BY <1>7, <2>1 DEF NoneDropped
        <3>4. stats.dropped = 0 => NoneDropped
            BY <1>14 DEF NoneDropped
        <3>5. ~poisoned /\ NoneDropped =>
                /\ \E t \in measure.seen : measure.read[1] = Asr!Live(t)
                /\ \E t \in measure.seen : measure.read[2] = t.peak
                /\ \E t \in measure.seen : measure.read[3] = t.made
            BY <1>0, <1>14 DEF MeasureIsTrue
        <3> QED
            BY <1>7, <1>8, <2>1, <3>1, <3>3, <3>4, <3>5 DEF MeasureIsTrue, Asr!Live
    <2>3. measure'.window <= resets
        BY <1>0, <1>8 DEF WindowsKept
    <2>4. measure'.window = resets => measure'.read[3] <= stats.total
        BY <1>0, <1>8, <1>14, <2>1 DEF WindowsKept
    <2>5. mark # Asr!None /\ mark.at = "read" /\ mark.read.resets = resets
                /\ measure'.window = resets => mark.read.total <= measure'.read[3]
        BY <1>0, <1>8, <1>14, <2>1 DEF WindowsKept
    <2>6. mark # Asr!None => mark.read.dropped <= stats.dropped
        BY <1>0 DEF MarkIsTrue
    <2> QED
        BY <1>4, <1>7, <1>10, <2>1, <2>2, <2>3, <2>4, <2>5, <2>6, ReaderKeeps
<1> QED
    BY <1>2, <1>11, <1>12, <1>13, <1>14

LEMMA ReadAgainKeeps == ASSUME FactsInv, verdict = Asr!None, Asr!ReadAgain PROVE FactsInv'
<1>1. measure # Asr!None /\ measure \in Measures
    BY ReadingShape DEF FactsInv, Asr!ReadAgain, Asr!AllRead
<1>2. measure' = [measure EXCEPT !.at = 1, !.read = <<>>, !.window = resets, !.seen = {truth}]
    BY DEF Asr!ReadAgain
<1>3. measure = [at |-> measure.at, read |-> measure.read,
                 window |-> measure.window, seen |-> measure.seen]
    BY <1>1 DEF Measures
<1>4. measure' = [at |-> 1, read |-> <<>>, window |-> resets, seen |-> {truth}]
    BY <1>2, <1>3
<1> QED
    BY <1>4, FreshKeeps DEF Asr!ReadAgain

-----------------------------------------------------------------------------
(* What a reading ends in *)

\* A reading that is whole: its figures are of the window it is still in, and, where
\* nothing was dropped, each is the truth of a moment of the reading.
LEMMA WholeReading ==
    ASSUME FactsInv, Asr!AllRead, measure.window = resets, ~poisoned
    PROVE  /\ Asr!Read \in Reads
           /\ Asr!Read.curr \in Int /\ Asr!Read.max \in Int /\ Asr!Read.total \in Int
           /\ Asr!Read.dropped \in Nat /\ Asr!Read.resets = resets
           /\ measure.seen \in SUBSET Truths
           /\ Asr!Read.dropped <= stats.dropped /\ Asr!Read.total <= stats.total
           /\ mark # Asr!None =>
                  /\ mark.read.dropped <= Asr!Read.dropped
                  /\ mark.at = "read" /\ mark.read.resets = Asr!Read.resets
                         => mark.read.total <= Asr!Read.total
           /\ Asr!Read.dropped = 0 =>
                  /\ \E t \in measure.seen : Asr!Read.curr = Asr!Live(t)
                  /\ \E t \in measure.seen : Asr!Read.max = t.peak
                  /\ \E t \in measure.seen : Asr!Read.total = t.made
<1>0. Types /\ MeasureIsTrue /\ MarkIsTrue /\ WindowsKept /\ measure # Asr!None
    BY DEF FactsInv, Asr!AllRead
<1>1. measure.at = 5
    <2>1. Len(Asr!Counters) = 4
        BY DEF Asr!Counters
    <2> QED
        BY <2>1 DEF Asr!AllRead
<1>2. /\ measure.read[1] \in Int /\ measure.read[2] \in Int /\ measure.read[3] \in Int
      /\ measure.read[4] \in Nat /\ resets \in Nat /\ measure.seen \in SUBSET Truths
    <2>1. \A i \in 1..4 : measure.read[i] \in Int
        BY <1>0, <1>1, ReadingShape
    <2>2. measure.read[4] \in Nat /\ resets \in Nat
        BY <1>0, <1>1 DEF Types
    <2> QED
        BY <1>0, <2>1, <2>2, ReadingShape
<1>3. /\ Asr!Read.curr = measure.read[1] /\ Asr!Read.max = measure.read[2]
      /\ Asr!Read.total = measure.read[3] /\ Asr!Read.dropped = measure.read[4]
      /\ Asr!Read.resets = resets
    BY DEF Asr!Read
<1>4. Asr!Read \in Reads
    BY <1>2 DEF Asr!Read, Reads
<1>5. Asr!Read.dropped <= stats.dropped
    BY <1>0, <1>1, <1>3 DEF MeasureIsTrue
<1>6. Asr!Read.total <= stats.total
    BY <1>0, <1>1, <1>3 DEF WindowsKept
<1>7. mark # Asr!None =>
          /\ mark.read.dropped <= Asr!Read.dropped
          /\ mark.at = "read" /\ mark.read.resets = Asr!Read.resets
                 => mark.read.total <= Asr!Read.total
    BY <1>0, <1>1, <1>3 DEF MarkIsTrue, WindowsKept
<1>8. Asr!Read.dropped = 0 =>
          /\ \E t \in measure.seen : Asr!Read.curr = Asr!Live(t)
          /\ \E t \in measure.seen : Asr!Read.max = t.peak
          /\ \E t \in measure.seen : Asr!Read.total = t.made
    BY <1>0, <1>1, <1>3 DEF MeasureIsTrue, NoneDropped
<1> QED
    BY <1>2, <1>3, <1>4, <1>5, <1>6, <1>7, <1>8

\* A reading that is done, with what it leaves of the mark and the verdict.
LEMMA DoneKeeps ==
    ASSUME FactsInv, UNCHANGED Asr!engine, measure' = Asr!None, VerdictIsTrue',
           mark' = Asr!None \/ mark' \in Marks,
           mark' # Asr!None =>
                /\ mark'.read.dropped <= stats.dropped
                /\ mark'.at = "read" /\ mark'.read.dropped = 0 =>
                    /\ \E m \in mark'.seen : mark'.read.curr = Asr!Live(m)
                    /\ \E m \in mark'.seen : mark'.read.total = m.made
                /\ mark'.read.resets <= resets
                /\ mark'.at = "read" /\ mark'.read.resets = resets
                        => mark'.read.total <= stats.total
    PROVE  FactsInv'
<1>0. /\ Types /\ CountsAreTrue
      /\ stats' = stats /\ truth' = truth /\ resets' = resets /\ poisoned' = poisoned
      /\ steps' = steps /\ state' = state
    BY DEF FactsInv, Asr!engine
<1>1. Types'
    BY <1>0 DEF Types
<1>2. CountsAreTrue'
    BY <1>0 DEF CountsAreTrue
<1>3. MeasureIsTrue'
    BY DEF MeasureIsTrue
<1>4. MarkIsTrue'
    BY <1>0 DEF MarkIsTrue, Asr!Live
<1>5. WindowsKept'
    BY <1>0 DEF WindowsKept
<1> QED
    BY <1>1, <1>2, <1>3, <1>4, <1>5 DEF FactsInv

\* The mark as it was is one such.
LEMMA MarkStays ==
    ASSUME FactsInv, UNCHANGED Asr!engine, measure' = Asr!None, VerdictIsTrue', mark' = mark
    PROVE  FactsInv'
<1>1. Types /\ MarkIsTrue /\ WindowsKept
    BY DEF FactsInv
<1>2. mark' = Asr!None \/ mark' \in Marks
    BY <1>1 DEF Types
<1>3. mark' # Asr!None =>
                /\ mark'.read.dropped <= stats.dropped
                /\ mark'.at = "read" /\ mark'.read.dropped = 0 =>
                    /\ \E m \in mark'.seen : mark'.read.curr = Asr!Live(m)
                    /\ \E m \in mark'.seen : mark'.read.total = m.made
                /\ mark'.read.resets <= resets
                /\ mark'.at = "read" /\ mark'.read.resets = resets
                        => mark'.read.total <= stats.total
    BY <1>1 DEF MarkIsTrue, WindowsKept
<1> QED
    BY <1>2, <1>3, DoneKeeps

LEMMA RefusedKeeps ==
    ASSUME FactsInv, UNCHANGED Asr!engine, measure' = Asr!None, mark' = mark,
           verdict' = [at |-> "refused", why |-> "poisoned"]
    PROVE  FactsInv'
<1>1. verdict'.at = "refused"
    OBVIOUS
<1>2. VerdictIsTrue'
    BY <1>1 DEF VerdictIsTrue, Asr!AnswersAreTrue, Asr!MarksAreKept, Asr!Measured, Answered
<1> QED
    BY <1>2, MarkStays

LEMMA KeepMarkKeeps ==
    ASSUME FactsInv, verdict = Asr!None, Asr!AllRead, measure.window = resets, ~poisoned,
           UNCHANGED Asr!engine, measure' = Asr!None, Asr!KeepMark
    PROVE  FactsInv'
<1>1. /\ Asr!Read \in Reads /\ Asr!Read.dropped \in Nat /\ Asr!Read.resets = resets
      /\ measure.seen \in SUBSET Truths
      /\ Asr!Read.dropped <= stats.dropped /\ Asr!Read.total <= stats.total
      /\ Asr!Read.dropped = 0 =>
             /\ \E t \in measure.seen : Asr!Read.curr = Asr!Live(t)
             /\ \E t \in measure.seen : Asr!Read.total = t.made
    BY WholeReading
<1>2. mark' = [at |-> "read", read |-> Asr!Read, seen |-> measure.seen] /\ verdict' = Asr!None
    BY DEF Asr!KeepMark
<1>3. mark' \in Marks /\ mark'.read = Asr!Read /\ mark'.seen = measure.seen
    BY <1>1, <1>2 DEF Marks
<1>4. resets \in Nat
    BY EngineShape DEF FactsInv
<1>5. Asr!Read.resets <= resets
    BY <1>1, <1>4
<1>6. VerdictIsTrue'
    BY <1>2, NoVerdictYet
<1> QED
    BY <1>1, <1>3, <1>5, <1>6, DoneKeeps

LEMMA EditMarkKeeps == ASSUME FactsInv, verdict = Asr!None, Asr!EditMark PROVE FactsInv'
<1>0. Types /\ MarkIsTrue /\ WindowsKept /\ mark # Asr!None
    BY DEF FactsInv, Asr!EditMark
<1>1. /\ mark \in Marks /\ mark.read \in Reads /\ mark.read.total \in Int
      /\ mark.seen \in SUBSET Truths
    BY <1>0, MarkShape
<1>2. /\ measure' = Asr!None /\ UNCHANGED Asr!engine /\ verdict' = Asr!None
      /\ mark' = [mark EXCEPT !.at = "edited", !.read.total = @ + 1]
    BY DEF Asr!EditMark
<1>3. mark = [at |-> mark.at, read |-> mark.read, seen |-> mark.seen]
    BY <1>1 DEF Marks
<1>4. mark' = [at |-> "edited", read |-> [mark.read EXCEPT !.total = @ + 1], seen |-> mark.seen]
    BY <1>2, <1>3
<1>5. /\ [mark.read EXCEPT !.total = @ + 1] \in Reads
      /\ [mark.read EXCEPT !.total = @ + 1].dropped = mark.read.dropped
      /\ [mark.read EXCEPT !.total = @ + 1].resets = mark.read.resets
    <2>1. mark.read.total + 1 \in Int
        BY <1>1
    <2> QED
        BY <1>1, <2>1 DEF Reads
<1>6. mark' \in Marks /\ mark'.at = "edited"
    BY <1>1, <1>4, <1>5 DEF Marks
<1>7. mark'.read.dropped = mark.read.dropped /\ mark'.read.resets = mark.read.resets
    BY <1>4, <1>5
<1>8. mark.read.dropped <= stats.dropped /\ mark.read.resets <= resets
    BY <1>0 DEF MarkIsTrue, WindowsKept
<1>9. VerdictIsTrue'
    BY <1>2, NoVerdictYet
<1> QED
    BY <1>2, <1>6, <1>7, <1>8, <1>9, DoneKeeps

LEMMA AssertionShape ==
    ASSUME Asr!ConstantsAssumption, NEW a \in Asr!Assertions
    PROVE  \/ a.assert = "max bytes" /\ a.limit \in Nat /\ "since" \notin DOMAIN a
           \/ a.assert = "no leaks" /\ a.since \in BOOLEAN /\ "since" \in DOMAIN a
           \/ /\ a.assert \in {"alloc count", "alloc count at most"} /\ a.limit \in Nat
              /\ a.since \in BOOLEAN /\ "since" \in DOMAIN a
<1>0. \/ a \in [assert : {"max bytes"}, limit : Limits]
      \/ a \in [assert : {"alloc count", "alloc count at most"}, limit : Limits, since : BOOLEAN]
      \/ a \in [assert : {"no leaks"}, since : BOOLEAN]
    BY DEF Asr!Assertions
<1>1. CASE a \in [assert : {"max bytes"}, limit : Limits]
    <2>1. a.assert = "max bytes" /\ a.limit \in Limits /\ DOMAIN a = {"assert", "limit"}
        BY <1>1
    <2> QED
        BY <2>1, AssertionsConstants
<1>2. CASE a \in [assert : {"alloc count", "alloc count at most"}, limit : Limits, since : BOOLEAN]
    <2>1. /\ a.assert \in {"alloc count", "alloc count at most"} /\ a.limit \in Limits
          /\ a.since \in BOOLEAN /\ DOMAIN a = {"assert", "limit", "since"}
        BY <1>2
    <2> QED
        BY <2>1, AssertionsConstants
<1>3. CASE a \in [assert : {"no leaks"}, since : BOOLEAN]
    <2>1. a.assert = "no leaks" /\ a.since \in BOOLEAN /\ DOMAIN a = {"assert", "since"}
        BY <1>3
    <2> QED
        BY <2>1
<1> QED
    BY <1>0, <1>1, <1>2, <1>3

\* What the checks answer.  A total counted from a mark is judged where the mark is usable.
LEMMA JudgedCases ==
    ASSUME NEW read, NEW a,
           \/ a.assert = "max bytes"
           \/ a.assert = "no leaks"
           \/ a.assert \in {"alloc count", "alloc count at most"}
    PROVE  /\ a.assert = "max bytes" =>
                  /\ Asr!Judged(read, a) \in {"over budget", "pass"}
                  /\ Asr!Judged(read, a) = "pass" <=> ~(read.max > a.limit)
           /\ a.assert = "no leaks" =>
                  /\ Asr!Judged(read, a) \in {"leaked", "pass"}
                  /\ Asr!Judged(read, a) = "pass" <=> ~(read.curr > Asr!LiveSince(a))
           /\ a.assert \in {"alloc count", "alloc count at most"} =>
                  /\ Asr!Judged(read, a) \in {"mark", "wrong count", "over ceiling", "pass"}
                  /\ Asr!Judged(read, a) = "mark" <=> a.since /\ ~Asr!Usable(read, mark)
           /\ a.assert = "alloc count" /\ ~(a.since /\ ~Asr!Usable(read, mark)) =>
                  (Asr!Judged(read, a) = "pass" <=> Asr!Counted(read, a) = a.limit)
           /\ a.assert = "alloc count at most" /\ ~(a.since /\ ~Asr!Usable(read, mark)) =>
                  (Asr!Judged(read, a) = "pass" <=> ~(Asr!Counted(read, a) > a.limit))
<1>1. CASE a.assert = "max bytes"
    <2>1. Asr!Judged(read, a) = IF read.max > a.limit THEN "over budget" ELSE "pass"
        BY <1>1 DEF Asr!Judged
    <2> QED
        BY <1>1, <2>1
<1>2. CASE a.assert = "no leaks"
    <2>1. Asr!Judged(read, a) = IF read.curr > Asr!LiveSince(a) THEN "leaked" ELSE "pass"
        BY <1>2 DEF Asr!Judged
    <2> QED
        BY <1>2, <2>1
<1>3. CASE a.assert = "alloc count"
    <2>1. Asr!Judged(read, a) =
              IF a.since /\ ~Asr!Usable(read, mark) THEN "mark"
              ELSE IF Asr!Counted(read, a) # a.limit THEN "wrong count" ELSE "pass"
        BY <1>3 DEF Asr!Judged
    <2> QED
        BY <1>3, <2>1
<1>4. CASE a.assert = "alloc count at most"
    <2>1. Asr!Judged(read, a) =
              IF a.since /\ ~Asr!Usable(read, mark) THEN "mark"
              ELSE IF Asr!Counted(read, a) > a.limit THEN "over ceiling" ELSE "pass"
        BY <1>4 DEF Asr!Judged
    <2> QED
        BY <1>4, <2>1
<1> QED
    BY <1>1, <1>2, <1>3, <1>4

LEMMA AssertKeeps ==
    ASSUME Asr!ConstantsAssumption, FactsInv, verdict = Asr!None, Asr!AllRead,
           measure.window = resets, ~poisoned, UNCHANGED Asr!engine, measure' = Asr!None,
           NEW a \in Asr!Assertions, Asr!Assert(a)
    PROVE  FactsInv'
<1> DEFINE answer == IF Asr!Incomplete(Asr!Read) THEN "incomplete" ELSE Asr!Judged(Asr!Read, a)
           since == "since" \in DOMAIN a /\ a.since
<1>0. Types /\ MarkIsTrue /\ WindowsKept
    BY DEF FactsInv
<1>1. /\ Asr!Read.curr \in Int /\ Asr!Read.max \in Int /\ Asr!Read.total \in Int
      /\ Asr!Read.dropped \in Nat /\ measure.seen \in SUBSET Truths
      /\ mark # Asr!None =>
             /\ mark.read.dropped <= Asr!Read.dropped
             /\ mark.at = "read" /\ mark.read.resets = Asr!Read.resets
                    => mark.read.total <= Asr!Read.total
      /\ Asr!Read.dropped = 0 =>
             /\ \E t \in measure.seen : Asr!Read.curr = Asr!Live(t)
             /\ \E t \in measure.seen : Asr!Read.max = t.peak
             /\ \E t \in measure.seen : Asr!Read.total = t.made
    BY WholeReading
<1>2. verdict' = [at |-> answer, assertion |-> a, read |-> Asr!Read, seen |-> measure.seen]
    BY DEF Asr!Assert
<1>3. /\ verdict'.at = answer /\ verdict'.assertion = a /\ verdict'.read = Asr!Read
      /\ verdict'.seen = measure.seen /\ mark' = mark
    <2> HIDE DEF answer
    <2> QED
        BY <1>2 DEF Asr!Assert
<1>4. since => mark # Asr!None
    BY DEF Asr!Assert
<1>5. \/ a.assert = "max bytes" /\ a.limit \in Nat /\ "since" \notin DOMAIN a
      \/ a.assert = "no leaks" /\ a.since \in BOOLEAN /\ "since" \in DOMAIN a
      \/ /\ a.assert \in {"alloc count", "alloc count at most"} /\ a.limit \in Nat
         /\ a.since \in BOOLEAN /\ "since" \in DOMAIN a
    BY AssertionShape
<1>6. a.assert \in {"max bytes", "no leaks", "alloc count", "alloc count at most"}
    BY <1>5
<1>7. answer \in Answered
    <2>1. Asr!Judged(Asr!Read, a) \in {"over budget", "pass", "leaked", "mark", "wrong count",
                               "over ceiling"}
        BY <1>6, JudgedCases
    <2> QED
        BY <2>1 DEF Answered
<1>8. Asr!FromMark' = since
    BY <1>3 DEF Asr!FromMark
<1>9. Asr!Measured' => Asr!Read.dropped = 0 /\ answer = Asr!Judged(Asr!Read, a) /\ answer # "mark"
    <2>1. Asr!Measured' => ~Asr!Incomplete(Asr!Read) /\ answer # "mark"
        BY <1>3 DEF Asr!Measured
    <2> QED
        BY <1>1, <2>1 DEF Asr!Incomplete
\* The mark counted from.
<1>10. ASSUME Asr!Measured', since, mark.at = "read"
       PROVE  /\ mark.seen \in SUBSET Truths /\ mark.read.total \in Int
              /\ Asr!Moments' = {[live |-> Asr!Live(m), made |-> m.made] : m \in mark.seen}
              /\ \E m \in mark.seen : mark.read.curr = Asr!Live(m)
              /\ \E m \in mark.seen : mark.read.total = m.made
    <2>1. /\ mark # Asr!None /\ mark.read.dropped \in Nat /\ mark.read.total \in Int
          /\ mark.seen \in SUBSET Truths
        BY <1>0, <1>4, <1>10, MarkShape
    <2>2. mark.read.dropped = 0
        <3>1. Asr!Read.dropped = 0 /\ Asr!Read.dropped \in Nat
            BY <1>1, <1>9, <1>10, Zenon
        <3>2. mark.read.dropped <= Asr!Read.dropped
            BY <2>1, WholeReading
        <3> QED
            BY <2>1, <3>1, <3>2
    <2>3. Asr!Moments' = {[live |-> Asr!Live(m), made |-> m.made] : m \in mark.seen}
        BY <1>3, <1>8, <1>10 DEF Asr!Moments, Asr!Live
    <2> QED
        BY <1>0, <1>10, <2>1, <2>2, <2>3 DEF MarkIsTrue
<1>11. ~since => Asr!Moments' = {[live |-> 0, made |-> 0]}
    BY <1>8 DEF Asr!Moments
<1> HIDE DEF answer, since
<1>12. Asr!AnswersAreTrue'
    <2> SUFFICES ASSUME Asr!Measured', since => mark.at = "read"
                 PROVE  \E t \in measure.seen, m \in Asr!Moments' :
                            (answer = "pass") = Asr!Holds(a, t, m)
        BY <1>3, <1>8 DEF Asr!AnswersAreTrue, Asr!Holds, Asr!Live
    <2>1. Asr!Read.dropped = 0 /\ answer = Asr!Judged(Asr!Read, a) /\ answer # "mark"
        BY <1>9
    <2>2. CASE a.assert = "max bytes"
        <3>1. PICK t \in measure.seen : Asr!Read.max = t.peak
            BY <1>1, <2>1
        <3>2. [live |-> 0, made |-> 0] \in Asr!Moments'
            BY <1>5, <1>11, <2>2 DEF since
        <3>3. (answer = "pass") <=> ~(Asr!Read.max > a.limit)
            BY <2>1, <2>2, JudgedCases
        <3>4. a.limit \in Nat
            BY <1>5, <2>2
        <3>5. Asr!Holds(a, t, [live |-> 0, made |-> 0]) = (t.peak <= a.limit)
            BY <2>2 DEF Asr!Holds
        <3>6. ~(Asr!Read.max > a.limit) <=> t.peak <= a.limit
            BY <1>1, <3>1, <3>4
        <3> QED
            BY <3>2, <3>3, <3>5, <3>6
    <2>3. CASE a.assert = "no leaks"
        <3>1. PICK t \in measure.seen : Asr!Read.curr = Asr!Live(t)
            BY <1>1, <2>1
        <3>2. PICK m \in Asr!Moments' : m.live = Asr!LiveSince(a) /\ m.live \in Int
            <4>1. CASE since
                <5>1. PICK n \in mark.seen : mark.read.curr = Asr!Live(n)
                    BY <1>10, <2>1, <4>1
                <5>2. [live |-> Asr!Live(n), made |-> n.made] \in Asr!Moments'
                    BY <1>10, <4>1, <5>1
                <5>3. n \in Truths
                    BY <1>10, <4>1
                <5>4. Asr!Live(n) \in Int
                    BY <5>3 DEF Truths, Asr!Live
                <5>5. Asr!LiveSince(a) = Asr!Live(n)
                    BY <4>1, <5>1 DEF Asr!LiveSince, since
                <5> QED
                    BY <5>2, <5>4, <5>5
            <4>2. CASE ~since
                <5>1. Asr!LiveSince(a) = 0
                    BY <1>5, <2>3, <4>2 DEF Asr!LiveSince, since
                <5>2. [live |-> 0, made |-> 0] \in Asr!Moments'
                    BY <1>11, <4>2
                <5> QED
                    BY <5>1, <5>2
            <4> QED
                BY <4>1, <4>2
        <3>3. (answer = "pass") <=> ~(Asr!Read.curr > Asr!LiveSince(a))
            BY <2>1, <2>3, JudgedCases
        <3>4. Asr!Holds(a, t, m) = (Asr!Live(t) <= m.live)
            BY <2>3 DEF Asr!Holds
        <3>5. ~(Asr!Read.curr > Asr!LiveSince(a)) <=> Asr!Live(t) <= m.live
            BY <1>1, <3>1, <3>2
        <3> QED
            BY <3>2, <3>3, <3>4, <3>5
    <2>4. CASE a.assert \in {"alloc count", "alloc count at most"}
        <3>1. PICK t \in measure.seen : Asr!Read.total = t.made
            BY <1>1, <2>1
        <3>2. PICK m \in Asr!Moments' : t.made - m.made = Asr!Counted(Asr!Read, a) /\ m.made \in Int
            <4>1. CASE since
                <5>1. PICK n \in mark.seen : mark.read.total = n.made
                    BY <1>10, <2>1, <4>1
                <5>2. [live |-> Asr!Live(n), made |-> n.made] \in Asr!Moments'
                    BY <1>10, <4>1, <5>1
                <5>3. n.made \in Int
                    BY <1>10, <4>1, <5>1
                <5>4. Asr!Counted(Asr!Read, a) = Asr!Read.total - mark.read.total
                    BY <4>1 DEF Asr!Counted, since
                <5>5. t.made - n.made = Asr!Counted(Asr!Read, a)
                    BY <3>1, <5>1, <5>4
                <5> QED
                    BY <5>2, <5>3, <5>5
            <4>2. CASE ~since
                <5>1. Asr!Counted(Asr!Read, a) = Asr!Read.total - 0
                    BY <1>5, <2>4, <4>2 DEF Asr!Counted, since
                <5>2. [live |-> 0, made |-> 0] \in Asr!Moments'
                    BY <1>11, <4>2
                <5>3. t.made - 0 = Asr!Counted(Asr!Read, a)
                    BY <5>1, <3>1
                <5> QED
                    BY <5>2, <5>3
            <4> QED
                BY <4>1, <4>2
        <3>3. Asr!Counted(Asr!Read, a) \in Int /\ a.limit \in Nat
            <4>1. Asr!Counted(Asr!Read, a) = t.made - m.made /\ t.made \in Int
                BY <3>1, <3>2, <1>1
            <4>2. Asr!Counted(Asr!Read, a) \in Int
                BY <4>1, <3>2
            <4> QED
                BY <4>2, <1>5, <2>4
        <3>4. ~(a.since /\ ~Asr!Usable(Asr!Read, mark))
            BY <2>1, <2>4, JudgedCases
        <3>5. CASE a.assert = "alloc count"
            <4>1. (answer = "pass") <=> Asr!Counted(Asr!Read, a) = a.limit
                BY <2>1, <3>4, <3>5, JudgedCases
            <4>2. Asr!Holds(a, t, m) = (t.made - m.made = a.limit)
                BY <3>5 DEF Asr!Holds
            <4> QED
                BY <3>2, <4>1, <4>2
        <3>6. CASE a.assert = "alloc count at most"
            <4>1. (answer = "pass") <=> ~(Asr!Counted(Asr!Read, a) > a.limit)
                BY <2>1, <3>4, <3>6, JudgedCases
            <4>2. Asr!Holds(a, t, m) = (t.made - m.made <= a.limit)
                BY <3>6 DEF Asr!Holds
            <4>3. ~(Asr!Counted(Asr!Read, a) > a.limit) <=> t.made - m.made <= a.limit
                BY <3>2, <3>3
            <4> QED
                BY <3>2, <4>1, <4>2, <4>3
        <3> QED
            BY <2>4, <3>5, <3>6
    <2> QED
        BY <1>6, <2>2, <2>3, <2>4
<1>13. Asr!MarksAreKept'
    <2>1. ASSUME answer = "mark"
          PROVE  mark.at = "edited" \/ mark.read.resets # Asr!Read.resets
        <3>1. answer = Asr!Judged(Asr!Read, a)
            BY <2>1 DEF answer
        <3>2. a.assert \in {"alloc count", "alloc count at most"}
            BY <1>6, <2>1, <3>1, JudgedCases
        <3>3. a.since /\ ~Asr!Usable(Asr!Read, mark)
            BY <2>1, <3>1, <3>2, JudgedCases
        <3>4. since
            BY <1>5, <3>2, <3>3 DEF since
        <3>5. mark # Asr!None /\ mark.at \in {"read", "edited"} /\ mark.read.total \in Int
            BY <1>0, <1>4, <3>4, MarkShape
        <3> QED
            <4>1. CASE mark.at = "edited"
                BY <4>1
            <4>2. CASE mark.at = "read"
                <5>1. mark.read.resets = Asr!Read.resets => mark.read.total <= Asr!Read.total
                    BY <3>5, <4>2, WholeReading
                <5>2. ~(mark.read.resets = Asr!Read.resets /\ mark.read.total <= Asr!Read.total)
                    BY <3>3 DEF Asr!Usable, Asr!SameWindow
                <5> QED
                    BY <5>1, <5>2, Zenon
            <4> QED
                BY <3>5, <4>1, <4>2
    <2>2. ASSUME Asr!Measured', since, a.assert # "no leaks"
          PROVE  mark.read.resets = Asr!Read.resets
        <3>1. a.assert \in {"alloc count", "alloc count at most"}
            BY <1>5, <2>2 DEF since
        <3>2. answer = Asr!Judged(Asr!Read, a) /\ answer # "mark"
            BY <1>9, <2>2
        <3>3. ~(a.since /\ ~Asr!Usable(Asr!Read, mark))
            BY <3>1, <3>2, JudgedCases
        <3> QED
            BY <2>2, <3>3 DEF Asr!Usable, Asr!SameWindow, since
    <2> QED
        BY <1>3, <1>8, <2>1, <2>2 DEF Asr!MarksAreKept
<1>14. VerdictIsTrue'
    BY <1>3, <1>7, <1>12, <1>13 DEF VerdictIsTrue
<1> QED
    BY <1>3, <1>14, MarkStays

-----------------------------------------------------------------------------
(* The theorem *)

LEMMA FactsInitially == ASSUME Asr!ConstantsAssumption, Asr!Init PROVE FactsInv
<1>1. /\ stats = [curr |-> 0, max |-> 0, total |-> 0, dropped |-> 0]
      /\ truth = [live |-> 0, untracked |-> 0, peak |-> 0, made |-> 0]
      /\ resets = 0 /\ steps = 0 /\ mark = Asr!None /\ measure = Asr!None /\ verdict = Asr!None
      /\ poisoned = FALSE /\ state \in {"idle", "running"}
    BY DEF Asr!Init
<1>2. stats \in Figures /\ truth \in Truths
    BY <1>1 DEF Figures, Truths
<1>3. Types
    <2>1. steps \in Nat /\ steps <= MaxSteps /\ resets \in Nat /\ resets <= steps
        BY <1>1, AssertionsConstants
    <2> QED
        BY <1>1, <1>2, <2>1 DEF Types
<1>4. CountsAreTrue
    BY <1>1 DEF CountsAreTrue
<1>5. MeasureIsTrue /\ MarkIsTrue /\ WindowsKept
    BY <1>1 DEF MeasureIsTrue, MarkIsTrue, WindowsKept
<1>6. VerdictIsTrue
    <2>1. verdict.at = "none"
        BY <1>1, NoneIsNone
    <2> QED
        BY <2>1 DEF VerdictIsTrue, Asr!AnswersAreTrue, Asr!MarksAreKept, Asr!Measured, Answered
<1> QED
    BY <1>3, <1>4, <1>5, <1>6 DEF FactsInv

LEMMA FactsStep ==
    ASSUME Asr!ConstantsAssumption, FactsInv, [Asr!Next]_Asr!vars PROVE FactsInv'
<1>1. CASE UNCHANGED Asr!vars
    BY <1>1, StutterKeeps
<1>2. CASE Asr!Next
    <2>0. verdict = Asr!None
        BY <1>2 DEF Asr!Next
    <2>1. CASE Asr!Allocate
        BY <2>0, <2>1, AllocateKeeps
    <2>2. CASE Asr!Free
        BY <2>0, <2>2, FreeKeeps
    <2>3. CASE Asr!Restart
        BY <2>0, <2>3, RestartKeeps
    <2>4. CASE Asr!Poison
        BY <2>4, PoisonKeeps
    <2>5. CASE Asr!Stop
        BY <2>5, StopKeeps
    <2>6. CASE Asr!Begin
        BY <2>0, <2>6, BeginKeeps
    <2>7. CASE Asr!ReadNext
        BY <2>0, <2>7, ReadNextKeeps
    <2>8. CASE Asr!ReadAgain
        BY <2>0, <2>8, ReadAgainKeeps
    <2>9. CASE Asr!Finish(Asr!KeepMark)
        <3>1. Asr!AllRead /\ measure.window = resets /\ measure' = Asr!None /\ UNCHANGED Asr!engine
            BY <2>9 DEF Asr!Finish
        <3>2. CASE poisoned
            <4>1. verdict' = [at |-> "refused", why |-> "poisoned"] /\ mark' = mark
                BY <2>9, <3>2 DEF Asr!Finish
            <4> QED
                BY <3>1, <4>1, RefusedKeeps
        <3>3. CASE ~poisoned
            <4>1. Asr!KeepMark
                BY <2>9, <3>3 DEF Asr!Finish
            <4> QED
                BY <2>0, <3>1, <3>3, <4>1, KeepMarkKeeps
        <3> QED
            BY <3>2, <3>3
    <2>10. CASE Asr!EditMark
        BY <2>0, <2>10, EditMarkKeeps
    <2>11. CASE \E a \in Asr!Assertions : Asr!Finish(Asr!Assert(a))
        <3>0. PICK a \in Asr!Assertions : Asr!Finish(Asr!Assert(a))
            BY <2>11
        <3>1. Asr!AllRead /\ measure.window = resets /\ measure' = Asr!None /\ UNCHANGED Asr!engine
            BY <3>0 DEF Asr!Finish
        <3>2. CASE poisoned
            <4>1. verdict' = [at |-> "refused", why |-> "poisoned"] /\ mark' = mark
                BY <3>0, <3>2 DEF Asr!Finish
            <4> QED
                BY <3>1, <4>1, RefusedKeeps
        <3>3. CASE ~poisoned
            <4>1. Asr!Assert(a)
                BY <3>0, <3>3 DEF Asr!Finish
            <4> QED
                BY <2>0, <3>1, <3>3, <4>1, AssertKeeps
        <3> QED
            BY <3>2, <3>3
    <2> QED
        BY <1>2, <2>1, <2>2, <2>3, <2>4, <2>5, <2>6, <2>7, <2>8, <2>9, <2>10, <2>11 DEF Asr!Next
<1> QED
    BY <1>1, <1>2

LEMMA FactsAnswer ==
    ASSUME Asr!ConstantsAssumption, FactsInv PROVE Asr!PassesAreFacts
<1>1. Types /\ VerdictIsTrue
    BY DEF FactsInv
<1>2. steps \in 0..MaxSteps /\ resets \in 0..MaxSteps
    <2>1. steps \in Nat /\ steps <= MaxSteps /\ resets \in Nat /\ resets <= steps
        BY <1>1 DEF Types
    <2> QED
        BY <2>1, AssertionsConstants
<1>3. mark.at \in {"none", "read", "edited"}
    BY <1>1, NoneIsNone, MarkShape
<1>4. Asr!TypeOK
    BY <1>1, <1>2, <1>3 DEF Asr!TypeOK, Types, VerdictIsTrue, Answered
<1> QED
    BY <1>1, <1>4 DEF Asr!PassesAreFacts, VerdictIsTrue

(***************************************************************************)
(* An assertion that answers answers what was true of the program, dropped *)
(* blocks included, at a moment while it read, counted from a moment while *)
(* its mark was read; one whose reading is short of blocks does not answer *)
(* (HeapStats::of, assertable, check_max_bytes, check_alloc_count,         *)
(* check_no_leaks).  A mark of another window, or ahead of the run, is     *)
(* refused, and no other (HeapStats::allocations_since).                   *)
(***************************************************************************)
THEOREM AssertionsAreFacts ==
    ASSUME Asr!ConstantsAssumption PROVE Asr!Spec => []Asr!PassesAreFacts
<1>1. Asr!Init => FactsInv
    BY FactsInitially
<1>2. FactsInv /\ [Asr!Next]_Asr!vars => FactsInv'
    BY FactsStep
<1>3. FactsInv => Asr!PassesAreFacts
    BY FactsAnswer
<1> QED
    BY <1>1, <1>2, <1>3, PTL DEF Asr!Spec
=============================================================================
