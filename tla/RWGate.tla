------------------------------- MODULE RWGate -------------------------------
(***************************************************************************)
(* What the peak gate promises: a reader-writer lock.  Recording events    *)
(* hold it shared, the event that may set a new peak holds it exclusively. *)
(* Gate.tla is the algorithm and implements this specification; the        *)
(* modules of the recording engine are built on this one.                  *)
(***************************************************************************)
EXTENDS FiniteSets

CONSTANTS Threads,   \* the threads of the process
          NoThread   \* "no thread holds it"

ASSUME NoThreadAssumption == NoThread \notin Threads

VARIABLES readers,   \* the threads holding the gate shared
          writer     \* the thread holding it exclusively, or NoThread

gateVars == <<readers, writer>>

GateTypeOK == readers \subseteq Threads /\ writer \in Threads \cup {NoThread}

GateInit == readers = {} /\ writer = NoThread

AcquireShared(t) ==
    /\ writer = NoThread
    /\ t \notin readers
    /\ readers' = readers \cup {t}
    /\ writer' = writer

ReleaseShared(t) ==
    /\ t \in readers
    /\ readers' = readers \ {t}
    /\ writer' = writer

AcquireExclusive(t) ==
    /\ writer = NoThread
    /\ readers = {}
    /\ writer' = t
    /\ readers' = readers

ReleaseExclusive(t) ==
    /\ writer = t
    /\ writer' = NoThread
    /\ readers' = readers

\* A fork child starts with the gate open, whatever the parent held.
ResetGate == readers' = {} /\ writer' = NoThread

GateNext ==
    \/ \E t \in Threads :
          \/ AcquireShared(t)
          \/ ReleaseShared(t)
          \/ AcquireExclusive(t)
          \/ ReleaseExclusive(t)
    \/ ResetGate

GateSpec == GateInit /\ [][GateNext]_gateVars

\* The two modes exclude each other.
GateExclusion == writer # NoThread => readers = {}
=============================================================================
