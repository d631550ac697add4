----------------------------- MODULE EagerPeak ------------------------------
(***************************************************************************)
(* What the at-peak columns of a profile mean: the bytes every program     *)
(* point held at the latest instant at which the whole process held the    *)
(* most.  One event is one step, and a step that reaches the peak copies   *)
(* every point, which the engine cannot afford; PeakEngine.tla implements  *)
(* this with a lazy copy and several steps per event.                      *)
(***************************************************************************)
EXTENDS Integers, Functions

CONSTANT Points

VARIABLES held,   \* live bytes of each point
          peak,   \* the most the points held together in this window
          atPeak, \* what each of them held then
          exact   \* no flush has gone on beside an event: atPeak means something

eagerVars == <<held, peak, atPeak, exact>>

EagerInit ==
    /\ held = [p \in Points |-> 0]
    /\ peak = 0
    /\ atPeak = [p \in Points |-> 0]
    /\ exact = TRUE

OnlyChanges(p) == held' = [held EXCEPT ![p] = held'[p]]
Copies(counts) == exact => atPeak' = counts

\* An equal peak replaces the earlier one.
Grow(p) ==
    /\ held'[p] > held[p]
    /\ OnlyChanges(p)
    /\ IF SumFunction(held') >= peak
       THEN peak' = SumFunction(held') /\ Copies(held')
       ELSE peak' = peak /\ Copies(atPeak)
    /\ exact' = exact

Shrink(p) ==
    /\ held'[p] < held[p]
    /\ OnlyChanges(p)
    /\ Copies(atPeak)
    /\ UNCHANGED <<peak, exact>>

\* A restart of the counts is a peak of the new window, and so is, of its own,
\* an event at the peak that moves no bytes.
PeakIsNow ==
    /\ UNCHANGED <<held, exact>>
    /\ peak' = SumFunction(held)
    /\ Copies(held)

\* A flush that could not reach a quiet point says so, and the copies may no
\* longer be those of one instant.  What is held and the peak are not touched.
Blur ==
    /\ exact' = FALSE
    /\ UNCHANGED <<held, peak>>

EagerNext == PeakIsNow \/ Blur \/ \E p \in Points : Grow(p) \/ Shrink(p)

EagerSpec == EagerInit /\ [][EagerNext]_eagerVars
=============================================================================
