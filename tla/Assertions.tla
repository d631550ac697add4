----------------------------- MODULE Assertions -----------------------------
(***************************************************************************)
(* assert_max_bytes!, assert_alloc_count! and assert_no_leaks!, and the    *)
(* marks they count from, beside the program they judge: HeapStats::of     *)
(* reads one counter after another while other threads allocate, free,     *)
(* overflow the live-block table, restart the counts, poison the profiler  *)
(* and stop it.                                                            *)
(*                                                                         *)
(* Every block is one byte.  `truth` is what the program has really done,  *)
(* whether or not the profiler could record it.                            *)
(***************************************************************************)
EXTENDS Integers, Sequences, FiniteSets

CONSTANTS MAX_BLOCKS,            \* room in the live-block table
          Modes, MaxEvents,      \* modes run in, bound on events
          Limits                 \* budgets and counts asserted

ConstantsAssumption ==
    /\ {MAX_BLOCKS, MaxEvents} \subseteq Nat /\ Limits \subseteq Nat
    /\ Modes \subseteq {"heap", "ad-hoc", "copy"}

VARIABLES state, mode, sampled, poisoned,  \* of the engine
          stats,    \* its counters
          resets,   \* restarts of the counts
          truth,    \* live blocks, their peak and the allocations of the window
          events,
          mark,     \* a reading kept, and the truth it was read in
          reading,  \* an assertion, as far as it has read
          verdict   \* what the last one answered
engine == <<state, mode, sampled, poisoned, stats, resets, truth, events>>
vars == <<engine, mark, reading, verdict>>

Counters == <<"curr", "max", "total", "dropped">>  \* as Engine::stats reads them
None == [at |-> "none"]

Init == /\ state \in {"idle", "running"}
        /\ mode \in Modes
        /\ sampled \in BOOLEAN
        /\ poisoned = FALSE
        /\ stats = [curr |-> 0, max |-> 0, total |-> 0, dropped |-> 0]
        /\ resets = 0
        /\ truth = [live |-> 0, untracked |-> 0, peak |-> 0, made |-> 0]
        /\ events = 0
        /\ mark = None
        /\ reading = None
        /\ verdict = None

Greater(a, b) == IF a >= b THEN a ELSE b
Event == /\ state = "running" /\ events < MaxEvents
         /\ events' = events + 1
         /\ UNCHANGED <<mode, sampled>>
(* What was true at some moment since the assertion began. *)
Live(t) == t.live + t.untracked
Witness == reading' = IF reading = None THEN None
                      ELSE [reading EXCEPT !.seen = @ \cup {truth'}]

(***************************************************************************)
(* The program.  A block the table has no room for is dropped whole: it is *)
(* in no counter, and its free finds nothing.  A poisoned profiler records *)
(* nothing more.                                                           *)
(***************************************************************************)
Allocate ==
    /\ Event
    /\ LET recorded == ~poisoned /\ truth.live < MAX_BLOCKS
           live == IF recorded THEN truth.live + 1 ELSE truth.live
           untracked == IF recorded THEN truth.untracked ELSE truth.untracked + 1 IN
       /\ truth' = [live |-> live, untracked |-> untracked, made |-> truth.made + 1,
                    peak |-> Greater(truth.peak, live + untracked)]
       /\ stats' = CASE recorded -> [curr |-> stats.curr + 1, total |-> stats.total + 1,
                                     max |-> Greater(stats.max, stats.curr + 1),
                                     dropped |-> stats.dropped]
                     [] ~recorded /\ ~poisoned -> [stats EXCEPT !.dropped = @ + 1]
                     [] poisoned -> stats
    /\ Witness
    /\ UNCHANGED <<state, poisoned, resets, mark, verdict>>

Free ==
    /\ Event
    /\ \/ /\ truth.live > 0
          /\ truth' = [truth EXCEPT !.live = @ - 1]
          /\ stats' = IF poisoned THEN stats ELSE [stats EXCEPT !.curr = @ - 1]
       \/ /\ truth.untracked > 0
          /\ truth' = [truth EXCEPT !.untracked = @ - 1]
          /\ UNCHANGED stats
    /\ Witness
    /\ UNCHANGED <<state, poisoned, resets, mark, verdict>>

(* Engine::reset.  The dropped blocks are not forgotten: they may be live. *)
Restarted == [stats EXCEPT !.total = 0, !.max = stats.curr]
Restart ==
    /\ Event
    /\ ~poisoned
    /\ resets' = resets + 1
    /\ stats' = Restarted
    /\ truth' = [truth EXCEPT !.made = 0, !.peak = Live(truth)]
    /\ Witness
    /\ UNCHANGED <<state, poisoned, mark, verdict>>

Poison ==
    /\ Event /\ ~poisoned
    /\ poisoned' = TRUE
    /\ UNCHANGED <<state, stats, resets, truth, mark, reading, verdict>>

Stop ==
    /\ state = "running"
    /\ state' \in {"finished", "forked child"}
    /\ UNCHANGED <<mode, sampled, poisoned, stats, resets, truth, events, mark, reading, verdict>>

(***************************************************************************)
(* HeapStats::of: what refuses before anything is read.                    *)
(***************************************************************************)
Refusal == IF state = "idle" THEN "not recording"
           ELSE IF state = "forked child" THEN "forked child"
           ELSE IF mode # "heap" THEN "not a heap run"
           ELSE IF sampled THEN "sampled"
           ELSE "none"

Assertions == [assert : {"max bytes"}, limit : Limits]
        \cup [assert : {"alloc count", "alloc count at most"}, limit : Limits, since : BOOLEAN]
        \cup [assert : {"no leaks"}, since : BOOLEAN]

Begin ==
    /\ reading = None
    /\ IF Refusal # "none"
       THEN verdict' = [at |-> "refused", why |-> Refusal] /\ UNCHANGED reading
       ELSE /\ reading' = [at |-> 1, read |-> <<>>, window |-> resets, seen |-> {truth}]
            /\ UNCHANGED verdict
    /\ UNCHANGED <<engine, mark>>

(* Engine::stats, a counter at a time. *)
ReadNext ==
    /\ reading # None /\ reading.at <= Len(Counters)
    /\ reading' = [reading EXCEPT !.at = @ + 1, !.read = Append(@, stats[Counters[reading.at]])]
    /\ UNCHANGED <<engine, mark, verdict>>

(* Engine::read_window: begun again where a restart was seen. *)
AllRead == reading # None /\ reading.at = Len(Counters) + 1
ReadAgain ==
    /\ AllRead /\ reading.window # resets
    /\ reading' = [reading EXCEPT !.at = 1, !.read = <<>>, !.window = resets, !.seen = {truth}]
    /\ UNCHANGED <<engine, mark, verdict>>

(***************************************************************************)
(* The reading, or the reason there is none: assertable.                   *)
(***************************************************************************)
Read == [curr |-> reading.read[1], max |-> reading.read[2], total |-> reading.read[3],
         dropped |-> reading.read[4], resets |-> reading.window]

Incomplete(read) == read.dropped > 0

(* HeapStats::allocations_since, and same_window. *)
SameWindow(read, m) == m.read.resets = read.resets
UsableByTotals(read, m) == m.read.total <= read.total
Usable(read, m) == SameWindow(read, m) /\ m.read.total <= read.total

Counted(read, assertion) == read.total - (IF assertion.since THEN mark.read.total ELSE 0)
LiveSince(assertion) == IF assertion.since THEN mark.read.curr ELSE 0

(* check_max_bytes, check_alloc_count, check_no_leaks. *)
Judged(read, assertion) ==
    LET a == assertion.assert
        Count(wrong, why) == IF assertion.since /\ ~Usable(read, mark) THEN "mark"
                             ELSE IF wrong THEN why ELSE "pass" IN
    CASE a = "max bytes" -> IF read.max > assertion.limit THEN "over budget" ELSE "pass"
      [] a = "no leaks" -> IF read.curr > LiveSince(assertion) THEN "leaked" ELSE "pass"
      [] a = "alloc count" ->
            Count(Counted(read, assertion) # assertion.limit, "wrong count")
      [] a = "alloc count at most" ->
            Count(Counted(read, assertion) > assertion.limit, "over ceiling")

(* What the reading was for does not show until it is done. *)
Finish(outcome) ==
    /\ AllRead /\ reading.window = resets
    /\ reading' = None
    /\ IF poisoned THEN verdict' = [at |-> "refused", why |-> "poisoned"] /\ UNCHANGED mark
       ELSE outcome
    /\ UNCHANGED engine

KeepMark == /\ mark' = [at |-> "read", read |-> Read, seen |-> reading.seen]
            /\ UNCHANGED verdict

Assert(assertion) ==
    /\ "since" \in DOMAIN assertion /\ assertion.since => mark # None
    /\ verdict' = [at |-> IF Incomplete(Read) THEN "incomplete" ELSE Judged(Read, assertion),
                   assertion |-> assertion, read |-> Read, seen |-> reading.seen]
    /\ UNCHANGED mark

(* The fields of a mark are public: nothing stops its holder changing one. *)
EditMark ==
    /\ mark # None /\ mark.at = "read" /\ reading = None
    /\ mark' = [mark EXCEPT !.at = "edited", !.read.total = @ + 1]
    /\ UNCHANGED <<engine, reading, verdict>>

(* One assertion is judged. *)
Next == /\ verdict = None
        /\ \/ Allocate \/ Free \/ Restart \/ Poison \/ Stop
           \/ Begin \/ ReadNext \/ ReadAgain
           \/ Finish(KeepMark) \/ EditMark
           \/ \E assertion \in Assertions : Finish(Assert(assertion))

Spec == Init /\ [][Next]_vars
-----------------------------------------------------------------------------
TypeOK == /\ state \in {"idle", "running", "finished", "forked child"}
          /\ events \in 0..MaxEvents /\ resets \in 0..MaxEvents
          /\ mark.at \in {"none", "read", "edited"}
          /\ verdict.at \in {"none", "refused", "incomplete", "pass", "over budget", "leaked",
                             "mark", "wrong count", "over ceiling"}

Measured == verdict.at \notin {"none", "refused", "incomplete", "mark"}
FromMark == "since" \in DOMAIN verdict.assertion /\ verdict.assertion.since

(* Whether the assertion held of the program as it was at moment t, counted *)
(* from the moment m.                                                       *)
Holds(assertion, t, m) ==
    CASE assertion.assert = "max bytes" -> t.peak <= assertion.limit
      [] assertion.assert = "no leaks" -> Live(t) <= m.live
      [] assertion.assert = "alloc count" -> t.made - m.made = assertion.limit
      [] assertion.assert = "alloc count at most" -> t.made - m.made <= assertion.limit
Moments == IF FromMark THEN {[live |-> Live(m), made |-> m.made] : m \in mark.seen}
           ELSE {[live |-> 0, made |-> 0]}

(* An assertion answers what was true of the program, dropped blocks       *)
(* included, at some moment while it read and some moment while its mark   *)
(* was read; one whose figures are short of blocks does not answer.        *)
AnswersAreTrue ==
    Measured /\ (FromMark => mark.at = "read") =>
        \E t \in verdict.seen, m \in Moments :
            (verdict.at = "pass") = Holds(verdict.assertion, t, m)

(* A mark of another window is refused wherever a total is counted from it,*)
(* so is one ahead of the run, and no other.                               *)
MarksAreKept ==
    /\ verdict.at = "mark" =>
           mark.at = "edited" \/ mark.read.resets # verdict.read.resets
    /\ Measured /\ FromMark /\ verdict.assertion.assert # "no leaks" =>
           mark.read.resets = verdict.read.resets

(* A passing assertion is a fact about the program (stats.rs: "refuse      *)
(* rather than compare against an incomplete measurement").                *)
PassesAreFacts == TypeOK /\ AnswersAreTrue /\ MarksAreKept
=============================================================================
