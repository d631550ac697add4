------------------------------ MODULE Lifecycle ------------------------------
(***************************************************************************)
(* Starting and ending a run: Profiler::start, Profiler::drop and the      *)
(* atexit handler (src/src/profiler.rs), the registration of the fork      *)
(* handlers (internals/fork.rs), and the engine's state they share         *)
(* (internals/engine.rs: start, stop, fork_child).  Any thread may build a *)
(* profiler, any may end the process, any may fork; only the thread that   *)
(* built it can drop it.                                                   *)
(*                                                                         *)
(* The variables are one process's.  A fork goes on as the parent, for     *)
(* which it changes nothing here, or as the child, which has the forking   *)
(* thread alone.                                                           *)
(***************************************************************************)
EXTENDS Naturals, FiniteSets

CONSTANTS Threads, NoThread

ASSUME NoThreadAssumption == NoThread \notin Threads

VARIABLES pc,
          outputs,     \* whether the profiler a thread builds is given outputs
          handlers,    \* fork.rs STATE
          exit_swap,   \* EXIT_HANDLER_INSTALLED
          atexit,      \* what became of the handler: not registered yet, on the
                       \* C library's list, refused by it, or taken off to run
          state,       \* Engine::state
          shutdown,    \* Engine::shutdown
          exit_outputs, exit_mutex,  \* EXIT_OUTPUTS and who holds its lock
          claimed,     \* AUTOMATIC_WRITE_CLAIMED
          ending,      \* the thread that called exit
          written,     \* history: who wrote a profile, and what it says
          child,       \* history: this process forked from one with a profiler
          holder,      \* history: the thread whose profiler records the run
          at_start     \* history: what atexit was when the run began

engineVars == <<state, shutdown>>
hookVars == <<handlers, exit_swap, atexit>>
outputVars == <<exit_outputs, exit_mutex, claimed>>
runVars == <<child, holder, at_start>>
vars == <<pc, outputs, hookVars, engineVars, outputVars, ending, written, runVars>>

Init ==
    /\ pc = [t \in Threads |-> "program"]
    /\ outputs \in [Threads -> BOOLEAN]
    /\ handlers = "unregistered"
    /\ exit_swap = FALSE /\ atexit = "none"
    /\ state = "idle" /\ shutdown = "running"
    /\ exit_outputs = FALSE /\ exit_mutex = NoThread
    /\ claimed = FALSE
    /\ ending = NoThread
    /\ written = {}
    /\ child = FALSE
    /\ holder = NoThread
    /\ at_start = "listed"

Move(t, from, to) == pc[t] = from /\ pc' = [pc EXCEPT ![t] = to]

-----------------------------------------------------------------------------
(* Profiler::start *)

\* The probes found frame pointers and the shim: a failure changes nothing.
Build(t) ==
    /\ Move(t, "program", "install")
    /\ UNCHANGED <<outputs, hookVars, engineVars, outputVars, ending, written, runVars>>

\* fork::install.  A thread that meets another one in here waits for it.
Install(t) ==
    /\ pc[t] = "install"
    /\ \/ /\ handlers = "unregistered"
          /\ handlers' = "registering"
          /\ Move(t, "install", "register")
       \/ /\ handlers \in {"registered", "failed"}
          /\ Move(t, "install", "exit_swap")
          /\ UNCHANGED handlers
    /\ UNCHANGED <<outputs, exit_swap, atexit, engineVars, outputVars, ending, written, runVars>>

\* pthread_atfork, which may fail.
Register(t) ==
    /\ Move(t, "register", "exit_swap")
    /\ handlers' \in {"registered", "failed"}
    /\ UNCHANGED <<outputs, exit_swap, atexit, engineVars, outputVars, ending, written, runVars>>

\* install_exit_handler: the flag first, then the registration.
ExitSwap(t) ==
    /\ Move(t, "exit_swap", IF exit_swap THEN "claim" ELSE "atexit")
    /\ exit_swap' = TRUE
    /\ UNCHANGED <<outputs, handlers, atexit, engineVars, outputVars, ending, written, runVars>>

\* A handler that is refused is reported, and the run starts without one.
AtExit(t) ==
    /\ Move(t, "atexit", "claim")
    /\ atexit' \in {"listed", "failed"}
    /\ UNCHANGED <<outputs, handlers, exit_swap, engineVars, outputVars, ending, written, runVars>>

\* Engine::start, its first step: StartError::AlreadyRunning or AlreadyRecorded
\* to all but one.
Claim(t) ==
    /\ \/ state = "idle" /\ state' = "starting" /\ Move(t, "claim", "configure")
       \/ state # "idle" /\ Move(t, "claim", "failed") /\ UNCHANGED state
    /\ UNCHANGED <<outputs, hookVars, shutdown, outputVars, ending, written, runVars>>

\* Its second: the settings are in, and events are recorded from here on.
Run(t) ==
    /\ Move(t, "configure", "set_outputs")
    /\ state' = "running"
    /\ holder' = t
    /\ at_start' = atexit
    /\ UNCHANGED <<outputs, hookVars, shutdown, outputVars, ending, written, child>>

\* set_exit_outputs
LockOutputs(t) ==
    /\ Move(t, "set_outputs", "locked")
    /\ exit_mutex = NoThread
    /\ exit_mutex' = t
    /\ UNCHANGED <<outputs, hookVars, engineVars, exit_outputs, claimed, ending, written, runVars>>

SetOutputs(t) ==
    /\ Move(t, "locked", "owner")
    /\ exit_outputs' = outputs[t]
    /\ exit_mutex' = NoThread
    /\ UNCHANGED <<outputs, hookVars, engineVars, claimed, ending, written, runVars>>

-----------------------------------------------------------------------------
(* Profiler::drop *)

\* Mutant: a fork child is not told apart.
DropAnywhere(t) ==
    /\ Move(t, "owner", IF state = "running" THEN "drop_cause" ELSE "drop_claim")
    /\ UNCHANGED <<outputs, hookVars, engineVars, outputVars, ending, written, runVars>>

Drop(t) ==
    /\ Move(t, "owner", CASE state = "forked_child" -> "dropped"
                          [] state = "running" -> "drop_cause"
                          [] OTHER -> "drop_claim")
    /\ UNCHANGED <<outputs, hookVars, engineVars, outputVars, ending, written, runVars>>

\* Engine::stop: the first cause is kept, then recording ends.  The wait for
\* events in flight changes nothing here.
Cause(t, from, to, cause) ==
    /\ Move(t, from, to)
    /\ shutdown' = IF shutdown = "running" THEN cause ELSE shutdown
    /\ UNCHANGED <<outputs, hookVars, state, outputVars, ending, written, runVars>>

Stop(t, from, to) ==
    /\ Move(t, from, to)
    /\ state' = "finished"
    /\ UNCHANGED <<outputs, hookVars, shutdown, outputVars, ending, written, runVars>>

DropStop(t) == Cause(t, "drop_cause", "drop_stop", "drop") \/ Stop(t, "drop_stop", "drop_claim")

\* Mutant: the claim is a load, and a store that comes later.
DropClaimLoads(t) ==
    /\ Move(t, "drop_claim", IF claimed /\ outputs[t] THEN "dropped" ELSE "drop_outputs")
    /\ UNCHANGED <<outputs, hookVars, engineVars, outputVars, ending, written, runVars>>

\* claim_automatic_write.  A profiler with nothing to write claims it as well.
DropClaim(t) ==
    /\ Move(t, "drop_claim", IF claimed /\ outputs[t] THEN "dropped" ELSE "drop_outputs")
    /\ claimed' = TRUE
    /\ UNCHANGED <<outputs, hookVars, engineVars, exit_outputs, exit_mutex, ending,
                   written, runVars>>

\* set_exit_outputs(&[])
DropLock(t) ==
    /\ Move(t, "drop_outputs", "drop_locked")
    /\ exit_mutex = NoThread
    /\ exit_mutex' = t
    /\ UNCHANGED <<outputs, hookVars, engineVars, exit_outputs, claimed, ending, written, runVars>>

DropUnlock(t) ==
    /\ Move(t, "drop_locked", IF outputs[t] THEN "drop_write" ELSE "dropped")
    /\ exit_outputs' = FALSE
    /\ exit_mutex' = NoThread
    /\ UNCHANGED <<outputs, hookVars, engineVars, claimed, ending, written, runVars>>

\* write_outputs: the snapshot says how the run ended.
DropWrite(t) ==
    /\ Move(t, "drop_write", "dropped")
    /\ written' = written \cup {[by |-> "drop", thread |-> t, says |-> shutdown]}
    /\ UNCHANGED <<outputs, hookVars, engineVars, outputVars, ending, runVars>>

-----------------------------------------------------------------------------
(* exit *)

AtRest(t) == pc[t] \in {"program", "failed", "owner", "dropped"}

\* A call to exit, or the return of main.  One thread does it, the others run on.
Exit(t) ==
    /\ AtRest(t)
    /\ ending = NoThread
    /\ ending' = t
    /\ pc' = [pc EXCEPT ![t] = IF atexit = "listed" THEN "exit_check" ELSE "ended"]
    /\ atexit' = IF atexit = "listed" THEN "run" ELSE atexit
    /\ UNCHANGED <<outputs, handlers, exit_swap, engineVars, outputVars, written, runVars>>

\* Mutant: the handler runs whatever the engine is doing.
ExitCheckNothing(t) ==
    /\ Move(t, "exit_check", "exit_cause")
    /\ UNCHANGED <<outputs, hookVars, engineVars, outputVars, ending, written, runVars>>

\* on_process_exit
ExitCheck(t) ==
    /\ Move(t, "exit_check", IF state = "running" THEN "exit_cause" ELSE "ended")
    /\ UNCHANGED <<outputs, hookVars, engineVars, outputVars, ending, written, runVars>>

ExitStop(t) == Cause(t, "exit_cause", "exit_stop", "atexit") \/ Stop(t, "exit_stop", "exit_claim")

ExitClaim(t) ==
    /\ Move(t, "exit_claim", IF claimed THEN "ended" ELSE "exit_outputs")
    /\ claimed' = TRUE
    /\ UNCHANGED <<outputs, hookVars, engineVars, exit_outputs, exit_mutex, ending,
                   written, runVars>>

ExitLock(t) ==
    /\ Move(t, "exit_outputs", "exit_locked")
    /\ exit_mutex = NoThread
    /\ exit_mutex' = t
    /\ UNCHANGED <<outputs, hookVars, engineVars, exit_outputs, claimed, ending, written, runVars>>

ExitUnlock(t) ==
    /\ Move(t, "exit_locked", IF exit_outputs THEN "exit_write" ELSE "ended")
    /\ exit_mutex' = NoThread
    /\ UNCHANGED <<outputs, hookVars, engineVars, exit_outputs, claimed, ending, written, runVars>>

ExitWrite(t) ==
    /\ Move(t, "exit_write", "ended")
    /\ written' = written \cup {[by |-> "atexit", thread |-> t, says |-> shutdown]}
    /\ UNCHANGED <<outputs, hookVars, engineVars, outputVars, ending, runVars>>

-----------------------------------------------------------------------------
(* fork *)

\* The process is the child from here on: Engine::fork_child disowns a run that
\* is being recorded.  Without handlers ("may wedge the child") it is not
\* followed.
ForkChild(t) ==
    /\ AtRest(t)
    /\ handlers = "registered"
    /\ pc' = [u \in Threads |-> IF u = t THEN pc[t] ELSE "gone"]
    /\ ending' = NoThread
    /\ written' = {}
    /\ child' = (child \/ state # "idle")
    /\ IF state = "running"
       THEN state' = "forked_child" /\ shutdown' = "forked_child"
       ELSE UNCHANGED engineVars
    /\ UNCHANGED <<outputs, hookVars, outputVars, holder, at_start>>

-----------------------------------------------------------------------------
StartStep(t) == Build(t) \/ Install(t) \/ Register(t) \/ ExitSwap(t) \/ AtExit(t)
                   \/ Claim(t) \/ Run(t) \/ LockOutputs(t) \/ SetOutputs(t)

DropStep(t) == Drop(t) \/ DropStop(t) \/ DropClaim(t) \/ DropLock(t) \/ DropUnlock(t)
                  \/ DropWrite(t)

ExitStep(t) == ExitCheck(t) \/ ExitStop(t) \/ ExitClaim(t) \/ ExitLock(t) \/ ExitUnlock(t)
                  \/ ExitWrite(t)

\* Once a thread's exit handler has returned the process is gone.
Ended == \E t \in Threads : pc[t] = "ended"

Next == \E t \in Threads :
           ~Ended /\ (StartStep(t) \/ DropStep(t) \/ Exit(t) \/ ExitStep(t) \/ ForkChild(t))

Spec == Init /\ [][Next]_vars

\* A thread in the middle of one of these functions is scheduled again.
Fairness == \A t \in Threads :
    /\ WF_vars(~Ended /\ (StartStep(t) /\ pc[t] # "program"))
    /\ WF_vars(~Ended /\ (DropStep(t) /\ pc[t] # "owner"))
    /\ WF_vars(~Ended /\ ExitStep(t))

FairSpec == Spec /\ Fairness

-----------------------------------------------------------------------------
(* Properties *)

PCs == {"program", "install", "register", "exit_swap", "atexit", "claim", "configure",
        "set_outputs", "locked", "owner", "failed",
        "drop_cause", "drop_stop", "drop_claim", "drop_outputs", "drop_locked",
        "drop_write", "dropped",
        "exit_check", "exit_cause", "exit_stop", "exit_claim", "exit_outputs",
        "exit_locked", "exit_write", "ended", "gone"}

Causes == {"running", "drop", "atexit", "forked_child"}

TypeOK ==
    /\ pc \in [Threads -> PCs]
    /\ outputs \in [Threads -> BOOLEAN]
    /\ handlers \in {"unregistered", "registering", "registered", "failed"}
    /\ exit_swap \in BOOLEAN /\ {atexit, at_start} \subseteq {"none", "listed", "failed", "run"}
    /\ state \in {"idle", "starting", "running", "finished", "forked_child"}
    /\ shutdown \in Causes
    /\ state = "forked_child" <=> shutdown = "forked_child"
    /\ exit_outputs \in BOOLEAN /\ exit_mutex \in Threads \cup {NoThread}
    /\ claimed \in BOOLEAN
    /\ ending \in Threads \cup {NoThread}
    /\ written \subseteq [by : {"drop", "atexit"}, thread : Threads, says : Causes]
    /\ child \in BOOLEAN /\ holder \in Threads \cup {NoThread}

Writing == {t \in Threads : pc[t] \in {"drop_write", "exit_write"}}

\* "Only one of the two writes": the drop and the exit handler never write the
\* same files side by side, nor one after the other, and what is written says
\* how the run ended.
WrittenOnce ==
    /\ Cardinality(written) + Cardinality(Writing) <= 1
    /\ \A w \in written : w.says \in {"drop", "atexit"}

\* No run is recorded while fork::install is still under way on some thread.
ForkHooksFirst == state = "running" => handlers \in {"registered", "failed"}

\* A child forked from a process that was recording writes nothing, whether it
\* drops the profiler it inherited or exits, and never asks for a lock that a
\* thread fork did not copy may hold.
DisownedIsSilent ==
    state = "forked_child" =>
        /\ written = {}
        /\ \A t \in Threads : pc[t] \notin {"drop_outputs", "drop_locked", "drop_write",
                                            "exit_outputs", "exit_locked", "exit_write"}

\* Whoever ends the process leaves a profile behind, unless the run began
\* without an exit handler or the holder is in the middle of starting or
\* dropping: dropped or not, and whatever other threads tried to build.
ProfileLeft ==
    Ended /\ ~child /\ at_start = "listed" =>
        \A t \in Threads :
           holder = t /\ outputs[t] /\ pc[t] \in {"owner", "dropped", "ended"}
              => written # {}

\* exit returns: the handler waits for no lock that nobody will release.
ExitEnds == \A t \in Threads : pc[t] = "exit_check" ~> (Ended \/ pc[t] = "gone")

-----------------------------------------------------------------------------
(* What the documentation says *)

\* docs/lifecycle.md: "A child that exits, or that drops the inherited
\* `Profiler`, writes nothing."
ChildWritesNothing == child => written = {}

\* Profiler::start: both hooks are there "before the engine starts recording".
HooksFirst == at_start # "none"


\* At most one automatic profile, none before the fork hooks are in, and one
\* when whoever ends the process could write it.
OneProfile == TypeOK /\ WrittenOnce /\ ForkHooksFirst /\ ProfileLeft
=============================================================================
