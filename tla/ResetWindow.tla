----------------------------- MODULE ResetWindow -----------------------------
(***************************************************************************)
(* A reading of the counters outside the gate (Engine::read_window, as     *)
(* HeapStats::get calls it) beside a restart of the counts (Engine::reset):*)
(* a sequence lock over relaxed loads and stores.                          *)
(*                                                                         *)
(* Memory is weak.  Each location keeps every message written to it, in    *)
(* modification order; a thread's view says which message of each it has   *)
(* seen, and a load may return that one or any later one.  The view of a   *)
(* message has the message and what its writer released with it; a reader  *)
(* makes it its own with an acquire load, or keeps it until its next       *)
(* acquire fence.                                                          *)
(*                                                                         *)
(* A total and the peak stand for the counters a window owns, the first    *)
(* written by read-modify-writes and the second by plain stores; the value *)
(* of each is the window it counts.                                        *)
(***************************************************************************)
EXTENDS Integers, Sequences, FiniteSets

CONSTANTS Recorders, Readers,
          Restarter,  \* the thread that owns the Profiler
          MaxResets, MaxEvents  \* bounds

ASSUME ThreadsAssumption ==
    /\ Restarter \notin Recorders \cup Readers /\ Recorders \cap Readers = {}
    /\ "open" \notin Recorders \cup Readers \cup {Restarter}
ASSUME BoundsAssumption == {MaxResets, MaxEvents} \subseteq Nat

Threads == Recorders \cup Readers \cup {Restarter}
Locations == {"sequence", "total", "max", "poisoned"}

VARIABLES memory,    \* the messages of each location
          cur,       \* what each thread has seen
          acq,       \* and what its next acquire fence lets it see
          rel,       \* what its last release fence covers
          gate,      \* the thread inside the gate exclusively, or "open"
          gate_view, \* what leaving the gate has released
          pc,
          reading,   \* a reader's host thread and what it has loaded
          events

viewVars == <<cur, acq, rel>>
gateVars == <<gate, gate_view>>
vars == <<memory, viewVars, gateVars, pc, reading, events>>

FirstView == [l \in Locations |-> 1]
NoReading == [host |-> Restarter, before |-> 0, max |-> 0, total |-> 0, answer |-> "none"]

Init ==
    /\ memory = [l \in Locations |-> << [value |-> 0, view |-> FirstView] >>]
    /\ cur = [t \in Threads |-> FirstView]
    /\ acq = [t \in Threads |-> FirstView]
    /\ rel = [t \in Threads |-> FirstView]
    /\ gate = "open" /\ gate_view = FirstView
    /\ pc = [t \in Threads |-> "idle"]
    /\ reading = [r \in Readers |-> NoReading]
    /\ events = 0

-----------------------------------------------------------------------------
(* Memory *)

Join(v, w) == [l \in Locations |-> IF v[l] > w[l] THEN v[l] ELSE w[l]]
Seen(v, l, i) == [v EXCEPT ![l] = i]
Newest(l) == Len(memory[l])
Value(l) == memory[l][Newest(l)].value
NextOf(l) == Newest(l) + 1

Write(l, value, view) == memory' = [memory EXCEPT ![l] = Append(@, [value |-> value, view |-> view])]

\* The i-th message of l, loaded by t with Relaxed or with Acquire.
LoadRelaxed(t, l, i) ==
    /\ cur' = [cur EXCEPT ![t] = Seen(@, l, i)]
    /\ acq' = [acq EXCEPT ![t] = Join(@, memory[l][i].view)]
LoadAcquire(t, l, i) ==
    /\ cur' = [cur EXCEPT ![t] = Join(@, memory[l][i].view)]
    /\ acq' = [acq EXCEPT ![t] = Join(@, memory[l][i].view)]

\* A plain store of the thread whose view is v, released up to the view r.
StoreBy(t, l, value, r) ==
    /\ Write(l, value, Seen(r, l, NextOf(l)))
    /\ cur' = [cur EXCEPT ![t] = Seen(@, l, NextOf(l))]
    /\ acq' = [acq EXCEPT ![t] = Seen(@, l, NextOf(l))]

StoreRelaxed(t, l, value) == StoreBy(t, l, value, rel[t])
StoreRelease(t, l, value) == StoreBy(t, l, value, cur[t])

\* Entering the gate acquires what leaving it released.
Entered(t) == Join(cur[t], gate_view)
Leave(t) == gate' = "open" /\ gate_view' = Join(gate_view, cur'[t])

Goto(t, to) == pc' = [pc EXCEPT ![t] = to]

-----------------------------------------------------------------------------
(* Engine::reset *)

\* A signal handler reading on this thread stops it.
Interrupted == \E r \in Readers : pc[r] # "idle" /\ reading[r].host = Restarter
At(from) == pc[Restarter] = from /\ ~Interrupted

StartReset ==
    /\ At("idle")
    /\ gate = "open"
    /\ Value("poisoned") = 0
    /\ Value("sequence") < 2 * MaxResets
    /\ gate' = Restarter
    /\ cur' = [cur EXCEPT ![Restarter] = Entered(Restarter)]
    /\ Goto(Restarter, "odd")
    /\ UNCHANGED <<memory, acq, rel, gate_view, reading, events>>

\* The odd store, then a release fence.
StoreOdd ==
    /\ At("odd")
    /\ StoreRelaxed(Restarter, "sequence", Value("sequence") + 1)
    /\ rel' = [rel EXCEPT ![Restarter] = cur'[Restarter]]
    /\ Goto(Restarter, "total")
    /\ UNCHANGED <<gateVars, reading, events>>

Window == (Value("sequence") + 1) \div 2

StoreTotal ==
    /\ At("total")
    /\ StoreRelaxed(Restarter, "total", Window)
    /\ Goto(Restarter, "max")
    /\ UNCHANGED <<rel, gateVars, reading, events>>

StoreMax ==
    /\ At("max")
    /\ StoreRelaxed(Restarter, "max", Window)
    /\ Goto(Restarter, "even")
    /\ UNCHANGED <<rel, gateVars, reading, events>>

\* Restarting::drop while panicking.
Unwind ==
    /\ pc[Restarter] \in {"total", "max"} /\ At(pc[Restarter])
    /\ StoreRelease(Restarter, "poisoned", 1)
    /\ Goto(Restarter, "even")
    /\ UNCHANGED <<rel, gateVars, reading, events>>

StoreEven ==
    /\ At("even")
    /\ StoreRelease(Restarter, "sequence", Value("sequence") + 1)
    /\ Goto(Restarter, "leave")
    /\ UNCHANGED <<rel, gateVars, reading, events>>

LeaveReset ==
    /\ At("leave")
    /\ UNCHANGED <<memory, viewVars, reading, events>>
    /\ Leave(Restarter)
    /\ Goto(Restarter, "idle")

-----------------------------------------------------------------------------
(* Engine::apply *)

\* The total's fetch_add: it carries on the release of the message it replaces.
\* With the gate held shared, this is the whole event.
AddTotal(t, seen) ==
    LET last == memory["total"][Newest("total")]
        now == Seen(seen, "total", NextOf("total"))
    IN  /\ Write("total", last.value,
                 Seen(Join(rel[t], last.view), "total", NextOf("total")))
        /\ cur' = [cur EXCEPT ![t] = now]
        /\ acq' = [acq EXCEPT ![t] = Join(@, Join(now, last.view))]

RecordShared(t) ==
    /\ pc[t] = "idle" /\ gate = "open"
    /\ events < MaxEvents
    /\ events' = events + 1
    /\ AddTotal(t, Entered(t))
    /\ gate_view' = Join(gate_view, cur'[t])
    /\ UNCHANGED <<rel, gate, pc, reading>>

\* A new peak, with the gate held exclusively.
RecordPeak(t) ==
    /\ pc[t] = "idle" /\ gate = "open"
    /\ events < MaxEvents
    /\ events' = events + 1
    /\ gate' = t
    /\ AddTotal(t, Entered(t))
    /\ Goto(t, "peak")
    /\ UNCHANGED <<rel, gate_view, reading>>

\* Mutant: the peak is stored without the fence.
StorePeakUnfenced(t) ==
    /\ pc[t] = "peak"
    /\ StoreRelaxed(t, "max", Value("total"))
    /\ Leave(t)
    /\ Goto(t, "idle")
    /\ UNCHANGED <<rel, reading, events>>

StorePeak(t) ==
    /\ pc[t] = "peak"
    /\ rel' = [rel EXCEPT ![t] = cur[t]]
    /\ StoreRelease(t, "max", Value("total"))
    /\ Leave(t)
    /\ Goto(t, "idle")
    /\ UNCHANGED <<reading, events>>

-----------------------------------------------------------------------------
(* HeapStats::get: recording, read_window, unpoisoned *)

Host(r) == reading[r].host
Visible(r, l) == cur[Host(r)][l]..Newest(l)

\* On a thread of its own, or in a signal handler of the restarting one.
StartReading(r) ==
    /\ pc[r] = "idle" /\ ~Interrupted
    /\ \E h \in {r, Restarter} :
          reading' = [reading EXCEPT ![r] = [NoReading EXCEPT !.host = h]]
    /\ Goto(r, "before")
    /\ UNCHANGED <<memory, viewVars, gateVars, events>>

End(r, answer) ==
    /\ reading' = [reading EXCEPT ![r].answer = answer]
    /\ Goto(r, "idle")

LoadBefore(r, i) ==
    /\ pc[r] = "before"
    /\ i \in Visible(r, "sequence")
    /\ LoadAcquire(Host(r), "sequence", i)
    /\ reading' = [reading EXCEPT ![r].before = memory["sequence"][i].value]
    /\ Goto(r, IF memory["sequence"][i].value % 2 = 1 THEN "probe" ELSE "load_max")
    /\ UNCHANGED <<memory, rel, gateVars, events>>

\* Mutant: a restart is waited out wherever the reading runs.
ProbeNothing(r) ==
    /\ pc[r] = "probe"
    /\ Goto(r, "before")
    /\ UNCHANGED <<memory, viewVars, gateVars, reading, events>>

\* guard::enter, which a thread inside Engine::reset is refused.
Probe(r) ==
    /\ pc[r] = "probe"
    /\ IF Host(r) = Restarter /\ pc[Restarter] # "idle"
       THEN End(r, "reset in progress")
       ELSE Goto(r, "before") /\ UNCHANGED reading
    /\ UNCHANGED <<memory, viewVars, gateVars, events>>

LoadMax(r) ==
    /\ pc[r] = "load_max"
    /\ \E i \in Visible(r, "max") :
          /\ LoadRelaxed(Host(r), "max", i)
          /\ reading' = [reading EXCEPT ![r].max = memory["max"][i].value]
    /\ Goto(r, "load_total")
    /\ UNCHANGED <<memory, rel, gateVars, events>>

LoadTotal(r) ==
    /\ pc[r] = "load_total"
    /\ \E i \in Visible(r, "total") :
          /\ LoadRelaxed(Host(r), "total", i)
          /\ reading' = [reading EXCEPT ![r].total = memory["total"][i].value]
    /\ Goto(r, "fence")
    /\ UNCHANGED <<memory, rel, gateVars, events>>

AcquireFence(r) ==
    /\ pc[r] = "fence"
    /\ cur' = [cur EXCEPT ![Host(r)] = Join(@, acq[Host(r)])]
    /\ Goto(r, "after")
    /\ UNCHANGED <<memory, acq, rel, gateVars, reading, events>>

LoadAfter(r) ==
    /\ pc[r] = "after"
    /\ \E i \in Visible(r, "sequence") :
          /\ LoadRelaxed(Host(r), "sequence", i)
          /\ Goto(r, IF memory["sequence"][i].value = reading[r].before
                     THEN "poison_check" ELSE "before")
    /\ UNCHANGED <<memory, rel, gateVars, reading, events>>

CheckPoison(r) ==
    /\ pc[r] = "poison_check"
    /\ \E i \in Visible(r, "poisoned") :
          /\ LoadRelaxed(Host(r), "poisoned", i)
          /\ End(r, IF memory["poisoned"][i].value = 1 THEN "poisoned" ELSE "read")
    /\ UNCHANGED <<memory, rel, gateVars, events>>

-----------------------------------------------------------------------------
ResetStep == StoreOdd \/ StoreTotal \/ StoreMax \/ StoreEven \/ LeaveReset
RecordStep(t) == RecordShared(t) \/ RecordPeak(t) \/ StorePeak(t)
ReadStep(r) == (\E i \in Visible(r, "sequence") : LoadBefore(r, i)) \/ Probe(r)
                  \/ LoadMax(r) \/ LoadTotal(r) \/ AcquireFence(r) \/ LoadAfter(r) \/ CheckPoison(r)

Next ==
    \/ StartReset \/ ResetStep \/ Unwind
    \/ \E t \in Recorders : RecordStep(t)
    \/ \E r \in Readers : StartReading(r) \/ ReadStep(r)

Spec == Init /\ [][Next]_vars

\* A restart under way and a reading go on, and a store is seen in the end.
Fairness ==
    /\ WF_vars(ResetStep)
    /\ \A t \in Recorders : WF_vars(StorePeak(t))
    /\ \A r \in Readers : /\ WF_vars(ReadStep(r))
                          /\ SF_vars(LoadBefore(r, Newest("sequence")))

FairSpec == Spec /\ Fairness

-----------------------------------------------------------------------------
(* Properties *)

Views == [Locations -> Nat \ {0}]

TypeOK ==
    /\ \A l \in Locations : \A i \in DOMAIN memory[l] :
          /\ memory[l][i].value \in 0..(2 * MaxResets)
          /\ memory[l][i].view[l] = i
          /\ \A m \in Locations : memory[l][i].view[m] \in DOMAIN memory[m]
    /\ {cur, acq, rel} \subseteq [Threads -> Views]
    /\ \A t \in Threads, l \in Locations : cur[t][l] <= Newest(l)
    /\ gate \in Threads \cup {"open"}
    /\ gate_view \in Views
    /\ events \in 0..MaxEvents
    /\ gate # Restarter => Value("sequence") % 2 = 0

\* "guaranteeing that no restart landed in between" (read_window): a reading
\* that is returned has every counter from the window it names, whichever
\* messages its loads chose and however a restart ended.
ReadingIsOneWindow ==
    \A r \in Readers :
       reading[r].answer = "read" =>
          /\ reading[r].total = reading[r].before \div 2
          /\ reading[r].max = reading[r].before \div 2

\* Every reading ends, one in a handler that interrupted the restart included.
ReadingEnds == \A r \in Readers : pc[r] # "idle" ~> pc[r] = "idle"

\* The messages in flight keep their order, and a reading is of one window.
Windows == TypeOK /\ ReadingIsOneWindow
=============================================================================
