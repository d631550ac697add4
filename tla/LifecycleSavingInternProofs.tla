-------------------- MODULE LifecycleSavingInternProofs ---------------------
(***************************************************************************)
(* What Lifecycle.tla promises, proved for any set of threads: one profile *)
(* at most, none from a child that was disowned, the fork hooks first, and *)
(* a profile left by whoever ends the process.                             *)
(*                                                                         *)
(* The inductive invariant says how far the run can be while a thread is   *)
(* at a program counter (Stages), who has won the claim of the automatic   *)
(* write (OneWinner), what a thread that called exit may be doing          *)
(* (OneExit), and, for a run that began with the exit handler listed, why  *)
(* its profile is not lost: it is written, or the claim has a winner who   *)
(* will write it (NotLost).                                                *)
(***************************************************************************)
(***************************************************************************)
(* And what Saving.tla promises, for any threads, processes, pieces and    *)
(* bounds; its part begins at Sav.                                         *)
(***************************************************************************)
(***************************************************************************)
(* Last what PpIntern.tla promises, for any threads, stacks and hashes,    *)
(* any number of shards, and any ceilings on points, slots and words: ids  *)
(* lead to the stacks they were answered for, and the records, the maps    *)
(* and the arena agree.  Its part begins at AWord.                         *)
(*                                                                         *)
(* The inductive invariant says what lookups rest on (a key leads to a     *)
(* record whose id was answered, and the stack of the one thread inside a  *)
(* shard is not found there), why a stack may have a second record (its    *)
(* first one has lost its key, or never had it, for a stack that shares    *)
(* its hash or a refusal), what was older when a number was taken, and     *)
(* that each block lies below the cursor of the last chunk or in a chunk   *)
(* that was left, so that the next block is apart from all.  The sums of   *)
(* words follow the step of one thread in one shard.                       *)
(***************************************************************************)
EXTENDS Lifecycle, PpIntern, Sums, SequenceTheorems, Integers, Sequences, FiniteSetTheorems, TLAPS

CONSTANTS Savers, ProcessOf, BaselineSavers, Formats, Pids, Pieces,
          MaxSaves, MaxFailures, MaxCrashes
VARIABLES pid, handed_out, directory, content, saver, kept, outcome, failures, crashes

Sav == INSTANCE Saving

Hooked == {"exit_swap", "atexit", "claim", "configure"}
Dropping == {"drop_outputs", "drop_locked", "drop_write"}
Handling == {"exit_outputs", "exit_locked", "exit_write"}
Exiting == {"exit_check", "exit_cause", "exit_stop", "exit_claim"} \cup Handling
Held == {"set_outputs", "locked", "owner"}

\* What a child that was disowned may still be doing.
Harmless == {"program", "install", "register", "exit_swap", "atexit", "claim", "failed",
             "owner", "dropped", "exit_check", "ended", "gone"}

\* How far the run is.
Stages ==
    /\ \A t \in Threads :
          /\ pc[t] \in Hooked => handlers \in {"registered", "failed"}
          /\ pc[t] = "atexit" => exit_swap /\ atexit = "none"
          /\ pc[t] = "configure" => state = "starting"
          /\ pc[t] \in Held => state \in {"running", "finished", "forked_child"}
          /\ pc[t] \in {"drop_cause", "exit_cause"} => state \in {"running", "finished"}
          /\ pc[t] \in {"drop_stop", "exit_stop"} =>
                state \in {"running", "finished"} /\ shutdown \in {"drop", "atexit"}
          /\ pc[t] \in {"drop_claim", "exit_claim"} \cup Dropping \cup Handling => state = "finished"
    /\ \A t, u \in Threads : pc[t] = "configure" /\ pc[u] = "configure" => t = u
    /\ \A t, u \in Threads : pc[t] = "atexit" /\ pc[u] = "atexit" => t = u
    /\ ~exit_swap => atexit = "none"
    /\ state = "finished" => shutdown \in {"drop", "atexit"}
    /\ state = "running" => handlers \in {"registered", "failed"}

Disowned == state = "forked_child" => child /\ written = {} /\ \A t \in Threads : pc[t] \in Harmless

\* The threads that will write the profile: the claim is theirs.
Winner(t) == pc[t] \in Handling \/ (pc[t] \in Dropping /\ outputs[t])

OneWinner ==
    /\ claimed => state = "finished"
    /\ \A t, u \in Threads : Winner(t) /\ Winner(u) => t = u
    /\ \A t \in Threads : Winner(t) => claimed /\ written = {}
    /\ written # {} => claimed /\ \E w \in written : written = {w}
    /\ \A w \in written : w.says \in {"drop", "atexit"}
    /\ \A t \in Threads : pc[t] = "drop_write" => outputs[t]

\* One thread calls exit, and the handler is taken off the list for it.
OneExit == \A t \in Threads : pc[t] \in Exiting => ending = t /\ atexit = "run"

\* The profiler that records the run is at one of these, once Run was taken.
HolderHas ==
    /\ holder = NoThread <=> state \in {"idle", "starting"}
    /\ \A t \in Threads :
          pc[t] \in Held \cup Dropping \cup {"drop_cause", "drop_stop", "drop_claim", "dropped"}
             => holder = t
    /\ ~child => \A t \in Threads : holder = t =>
          pc[t] \in Held \cup Dropping \cup {"drop_cause", "drop_stop", "drop_claim", "dropped", "ended"} \cup Exiting

\* The run began with the handler listed, has outputs, and nobody has ended the
\* process.
Promised(h) == ~child /\ at_start = "listed" /\ holder = h /\ outputs[h] /\ ~Ended

ExitWins == \E e \in Threads : pc[e] \in Handling

NotLost ==
    \A h \in Threads : Promised(h) =>
       /\ atexit = "listed" \/ (atexit = "run" /\ ending # NoThread)
       /\ \A t \in Threads : pc[t] # "atexit"
       /\ pc[h] = "dropped" => written # {} \/ ExitWins
       /\ claimed => written # {} \/ pc[h] \in Dropping \/ ExitWins
       /\ written = {} => pc[h] \in {"set_outputs", "locked", "drop_write"} \/ exit_outputs
       /\ state = "finished" =>
             \/ written # {} \/ ExitWins
             \/ pc[h] \in Dropping \cup {"drop_claim", "dropped"}
             \/ \E e \in Threads : pc[e] = "exit_claim"

IInv == TypeOK /\ Stages /\ Disowned /\ OneWinner /\ OneExit /\ HolderHas /\ NotLost /\ ProfileLeft

LEMMA NextInv == IInv /\ [Next]_vars => IInv'
<1> SUFFICES ASSUME IInv, [Next]_vars PROVE IInv'
    OBVIOUS
<1> USE DEF IInv, TypeOK, Move, engineVars, hookVars, outputVars, runVars
<1>1. ASSUME NEW t \in Threads, ~Ended, Build(t) PROVE IInv'
    <2>1. TypeOK'
        BY <1>1 DEF Build, PCs
    <2>2. Stages'
        BY <1>1 DEF Build, Stages, Hooked, Held, Dropping, Handling
    <2>3. Disowned'
        BY <1>1 DEF Build, Disowned, Harmless
    <2>4. OneWinner'
        BY <1>1 DEF Build, OneWinner, Winner, Dropping, Handling
    <2>5. OneExit'
        BY <1>1 DEF Build, OneExit, Exiting, Handling
    <2>6. HolderHas'
        BY <1>1 DEF Build, HolderHas, Held, Dropping, Exiting, Handling
    <2>7. NotLost'
        BY <1>1 DEF Build, NotLost, Promised, ExitWins, Dropping, Handling
    <2>8. ProfileLeft'
        BY <1>1 DEF Build, ProfileLeft, Ended
    <2> QED
        BY <2>1, <2>2, <2>3, <2>4, <2>5, <2>6, <2>7, <2>8
<1>2. ASSUME NEW t \in Threads, ~Ended, Install(t) PROVE IInv'
    <2>1. TypeOK'
        BY <1>2 DEF Install, PCs
    <2>2. Stages'
        BY <1>2 DEF Install, Stages, Hooked, Held, Dropping, Handling
    <2>3. Disowned'
        BY <1>2 DEF Install, Disowned, Harmless
    <2>4. OneWinner'
        BY <1>2 DEF Install, OneWinner, Winner, Dropping, Handling
    <2>5. OneExit'
        BY <1>2 DEF Install, OneExit, Exiting, Handling
    <2>6. HolderHas'
        BY <1>2 DEF Install, HolderHas, Held, Dropping, Exiting, Handling
    <2>7. NotLost'
        BY <1>2 DEF Install, NotLost, Promised, ExitWins, Dropping, Handling
    <2>8. ProfileLeft'
        BY <1>2 DEF Install, ProfileLeft, Ended
    <2> QED
        BY <2>1, <2>2, <2>3, <2>4, <2>5, <2>6, <2>7, <2>8
<1>3. ASSUME NEW t \in Threads, ~Ended, Register(t) PROVE IInv'
    <2>1. TypeOK'
        BY <1>3 DEF Register, PCs
    <2>2. Stages'
        BY <1>3 DEF Register, Stages, Held, Dropping, Handling
    <2>3. Disowned'
        BY <1>3 DEF Register, Disowned, Harmless
    <2>4. OneWinner'
        BY <1>3 DEF Register, OneWinner, Winner, Dropping, Handling
    <2>5. OneExit'
        BY <1>3 DEF Register, OneExit, Exiting, Handling
    <2>6. HolderHas'
        BY <1>3 DEF Register, HolderHas, Held, Dropping, Exiting, Handling
    <2>7. NotLost'
        BY <1>3 DEF Register, NotLost, Promised, ExitWins, Dropping, Handling
    <2>8. ProfileLeft'
        BY <1>3 DEF Register, ProfileLeft, Ended
    <2> QED
        BY <2>1, <2>2, <2>3, <2>4, <2>5, <2>6, <2>7, <2>8
<1>4. ASSUME NEW t \in Threads, ~Ended, ExitSwap(t) PROVE IInv'
    <2>1. TypeOK'
        BY <1>4 DEF ExitSwap, PCs
    <2>2. Stages'
        BY <1>4 DEF ExitSwap, Stages, Hooked, Held, Dropping, Handling
    <2>3. Disowned'
        BY <1>4 DEF ExitSwap, Disowned, Harmless
    <2>4. OneWinner'
        BY <1>4 DEF ExitSwap, OneWinner, Winner, Dropping, Handling
    <2>5. OneExit'
        BY <1>4 DEF ExitSwap, OneExit, Exiting, Handling
    <2>6. HolderHas'
        BY <1>4 DEF ExitSwap, HolderHas, Held, Dropping, Exiting, Handling
    <2>7. NotLost'
        BY <1>4 DEF ExitSwap, NotLost, Promised, ExitWins, Stages, Dropping, Handling
    <2>8. ProfileLeft'
        BY <1>4 DEF ExitSwap, ProfileLeft, Ended
    <2> QED
        BY <2>1, <2>2, <2>3, <2>4, <2>5, <2>6, <2>7, <2>8
<1>5. ASSUME NEW t \in Threads, ~Ended, AtExit(t) PROVE IInv'
    <2>1. TypeOK'
        BY <1>5 DEF AtExit, PCs
    <2>2. Stages'
        BY <1>5 DEF AtExit, Stages, Hooked, Held, Dropping, Handling
    <2>3. Disowned'
        BY <1>5 DEF AtExit, Disowned, Harmless
    <2>4. OneWinner'
        BY <1>5 DEF AtExit, OneWinner, Winner, Dropping, Handling
    <2>5. OneExit'
        BY <1>5 DEF AtExit, OneExit, Exiting, Handling, Stages
    <2>6. HolderHas'
        BY <1>5 DEF AtExit, HolderHas, Held, Dropping, Exiting, Handling
    <2>7. NotLost'
        BY <1>5 DEF AtExit, NotLost, Promised
    <2>8. ProfileLeft'
        BY <1>5 DEF AtExit, ProfileLeft, NotLost, Promised
    <2> QED
        BY <2>1, <2>2, <2>3, <2>4, <2>5, <2>6, <2>7, <2>8
<1>6. ASSUME NEW t \in Threads, ~Ended, Claim(t) PROVE IInv'
    <2>1. TypeOK'
        BY <1>6 DEF Claim, PCs
    <2>2. Stages'
        BY <1>6 DEF Claim, Stages, Hooked, Held, Dropping, Handling
    <2>3. Disowned'
        BY <1>6 DEF Claim, Disowned, Harmless
    <2>4. OneWinner'
        BY <1>6 DEF Claim, OneWinner, Winner, Dropping, Handling
    <2>5. OneExit'
        BY <1>6 DEF Claim, OneExit, Exiting, Handling
    <2>6. HolderHas'
        BY <1>6 DEF Claim, HolderHas, Held, Dropping, Exiting, Handling
    <2>7. NotLost'
        BY <1>6 DEF Claim, NotLost, Promised, ExitWins, Dropping, Handling
    <2>8. ProfileLeft'
        BY <1>6 DEF Claim, ProfileLeft, Ended
    <2> QED
        BY <2>1, <2>2, <2>3, <2>4, <2>5, <2>6, <2>7, <2>8
<1>7. ASSUME NEW t \in Threads, ~Ended, Run(t) PROVE IInv'
    <2>1. TypeOK'
        BY <1>7 DEF Run, PCs, Stages
    <2>2. Stages'
        BY <1>7 DEF Run, Stages, Hooked, Dropping, Handling
    <2>3. Disowned'
        BY <1>7 DEF Run, Disowned
    <2>4. OneWinner'
        BY <1>7 DEF Run, OneWinner, Winner, Stages, Dropping, Handling
    <2>5. OneExit'
        BY <1>7 DEF Run, OneExit, Exiting, Handling
    <2>6. HolderHas'
        BY <1>7, NoThreadAssumption DEF Run, HolderHas, Held, Stages
    <2>7. NotLost'
        BY <1>7 DEF Run, NotLost, Promised, Stages, OneWinner
    <2>8. ProfileLeft'
        BY <1>7 DEF Run, ProfileLeft
    <2> QED
        BY <2>1, <2>2, <2>3, <2>4, <2>5, <2>6, <2>7, <2>8
<1>8. ASSUME NEW t \in Threads, ~Ended, LockOutputs(t) PROVE IInv'
    <2>1. TypeOK'
        BY <1>8 DEF LockOutputs, PCs
    <2>2. Stages'
        BY <1>8 DEF LockOutputs, Stages, Hooked, Held, Dropping, Handling
    <2>3. Disowned'
        BY <1>8 DEF LockOutputs, Disowned, Harmless
    <2>4. OneWinner'
        BY <1>8 DEF LockOutputs, OneWinner, Winner, Dropping, Handling
    <2>5. OneExit'
        BY <1>8 DEF LockOutputs, OneExit, Exiting, Handling
    <2>6. HolderHas'
        BY <1>8 DEF LockOutputs, HolderHas, Held
    <2>7. NotLost'
        BY <1>8 DEF LockOutputs, NotLost, Promised, ExitWins, Dropping, Handling
    <2>8. ProfileLeft'
        BY <1>8 DEF LockOutputs, ProfileLeft, HolderHas, Held
    <2> QED
        BY <2>1, <2>2, <2>3, <2>4, <2>5, <2>6, <2>7, <2>8
<1>9. ASSUME NEW t \in Threads, ~Ended, SetOutputs(t) PROVE IInv'
    <2>1. TypeOK'
        BY <1>9 DEF SetOutputs, PCs
    <2>2. Stages'
        BY <1>9 DEF SetOutputs, Stages, Hooked, Held, Dropping, Handling
    <2>3. Disowned'
        BY <1>9 DEF SetOutputs, Disowned, Harmless
    <2>4. OneWinner'
        BY <1>9 DEF SetOutputs, OneWinner, Winner, Dropping, Handling
    <2>5. OneExit'
        BY <1>9 DEF SetOutputs, OneExit, Exiting, Handling
    <2>6. HolderHas'
        BY <1>9 DEF SetOutputs, HolderHas, Held
    <2>7. NotLost'
        BY <1>9 DEF SetOutputs, NotLost, Promised, ExitWins, HolderHas, Held, Dropping, Handling
    <2>8. ProfileLeft'
        BY <1>9 DEF SetOutputs, ProfileLeft, Ended
    <2> QED
        BY <2>1, <2>2, <2>3, <2>4, <2>5, <2>6, <2>7, <2>8
<1>10. ASSUME NEW t \in Threads, ~Ended, Drop(t) PROVE IInv'
    <2>1. TypeOK'
        BY <1>10 DEF Drop, PCs
    <2>2. Stages'
        BY <1>10 DEF Drop, Stages, Hooked, Held, Dropping, Handling
    <2>3. Disowned'
        BY <1>10 DEF Drop, Disowned, Harmless
    <2>4. OneWinner'
        BY <1>10 DEF Drop, OneWinner, Winner, Dropping, Handling
    <2>5. OneExit'
        BY <1>10 DEF Drop, OneExit, Exiting, Handling
    <2>6. HolderHas'
        BY <1>10 DEF Drop, HolderHas, Held
    <2>7. NotLost'
        BY <1>10 DEF Drop, NotLost, Disowned, Promised, ExitWins, Dropping, Handling
    <2>8. ProfileLeft'
        BY <1>10 DEF Drop, ProfileLeft, Ended
    <2> QED
        BY <2>1, <2>2, <2>3, <2>4, <2>5, <2>6, <2>7, <2>8
<1>11. ASSUME NEW t \in Threads, ~Ended, Cause(t, "drop_cause", "drop_stop", "drop") PROVE IInv'
    <2>1. TypeOK'
        BY <1>11 DEF Cause, PCs, Causes
    <2>2. Stages'
        BY <1>11 DEF Cause, Stages, Hooked, Dropping, Handling, Causes
    <2>3. Disowned'
        BY <1>11 DEF Cause, Disowned, Harmless
    <2>4. OneWinner'
        BY <1>11 DEF Cause, OneWinner, Winner, Dropping, Handling
    <2>5. OneExit'
        BY <1>11 DEF Cause, OneExit, Exiting, Handling
    <2>6. HolderHas'
        BY <1>11 DEF Cause, HolderHas
    <2>7. NotLost'
        BY <1>11 DEF Cause, NotLost, Promised, ExitWins, Dropping, Handling
    <2>8. ProfileLeft'
        BY <1>11 DEF Cause, ProfileLeft, HolderHas
    <2> QED
        BY <2>1, <2>2, <2>3, <2>4, <2>5, <2>6, <2>7, <2>8
<1>12. ASSUME NEW t \in Threads, ~Ended, Stop(t, "drop_stop", "drop_claim") PROVE IInv'
    <2>1. TypeOK'
        BY <1>12 DEF Stop, PCs, Stages
    <2>2. Stages'
        BY <1>12 DEF Stop, Stages, Hooked
    <2>3. Disowned'
        BY <1>12 DEF Stop, Disowned
    <2>4. OneWinner'
        BY <1>12 DEF Stop, OneWinner, Winner, Dropping, Handling
    <2>5. OneExit'
        BY <1>12 DEF Stop, OneExit, Exiting, Handling
    <2>6. HolderHas'
        BY <1>12, NoThreadAssumption DEF Stop, HolderHas
    <2>7. NotLost'
        BY <1>12 DEF Stop, NotLost, Promised, ExitWins, HolderHas, Dropping, Handling
    <2>8. ProfileLeft'
        BY <1>12 DEF Stop, ProfileLeft, HolderHas
    <2> QED
        BY <2>1, <2>2, <2>3, <2>4, <2>5, <2>6, <2>7, <2>8
<1>13. ASSUME NEW t \in Threads, ~Ended, DropClaim(t) PROVE IInv'
    <2>1. TypeOK'
        BY <1>13 DEF DropClaim, PCs
    <2>2. Stages'
        BY <1>13 DEF DropClaim, Stages, Hooked
    <2>3. Disowned'
        BY <1>13 DEF DropClaim, Disowned, Harmless
    <2>4. OneWinner'
        BY <1>13 DEF DropClaim, OneWinner, Winner, Stages, Dropping, Handling
    <2>5. OneExit'
        BY <1>13 DEF DropClaim, OneExit, Exiting, Handling
    <2>6. HolderHas'
        BY <1>13 DEF DropClaim, HolderHas, Dropping
    <2>7. NotLost'
        BY <1>13 DEF DropClaim, NotLost, Promised, ExitWins, HolderHas, Dropping, Handling
    <2>8. ProfileLeft'
        BY <1>13 DEF DropClaim, ProfileLeft, Ended
    <2> QED
        BY <2>1, <2>2, <2>3, <2>4, <2>5, <2>6, <2>7, <2>8
<1>14. ASSUME NEW t \in Threads, ~Ended, DropLock(t) PROVE IInv'
    <2>1. TypeOK'
        BY <1>14 DEF DropLock, PCs
    <2>2. Stages'
        BY <1>14 DEF DropLock, Stages, Hooked, Dropping
    <2>3. Disowned'
        BY <1>14 DEF DropLock, Disowned, Harmless
    <2>4. OneWinner'
        BY <1>14 DEF DropLock, OneWinner, Winner, Dropping, Handling
    <2>5. OneExit'
        BY <1>14 DEF DropLock, OneExit, Exiting, Handling
    <2>6. HolderHas'
        BY <1>14 DEF DropLock, HolderHas, Dropping
    <2>7. NotLost'
        BY <1>14 DEF DropLock, NotLost, Promised, HolderHas, Dropping
    <2>8. ProfileLeft'
        BY <1>14 DEF DropLock, ProfileLeft, HolderHas, Dropping
    <2> QED
        BY <2>1, <2>2, <2>3, <2>4, <2>5, <2>6, <2>7, <2>8
<1>15. ASSUME NEW t \in Threads, ~Ended, DropUnlock(t) PROVE IInv'
    <2>1. TypeOK'
        <3>1. pc' \in [Threads -> PCs]
            BY <1>15 DEF DropUnlock, PCs
        <3>2. exit_outputs' \in BOOLEAN /\ exit_mutex' \in Threads \cup {NoThread}
            BY <1>15 DEF DropUnlock
        <3>3. UNCHANGED <<outputs, hookVars, engineVars, claimed, ending, written, runVars>>
            BY <1>15 DEF DropUnlock
        <3> QED
            BY <3>1, <3>2, <3>3
    <2>2. Stages'
        BY <1>15 DEF DropUnlock, Stages, Hooked, Dropping
    <2>3. Disowned'
        BY <1>15 DEF DropUnlock, Disowned, Harmless
    <2>4. OneWinner'
        BY <1>15 DEF DropUnlock, OneWinner, Winner, Dropping, Handling
    <2>5. OneExit'
        BY <1>15 DEF DropUnlock, OneExit, Exiting, Handling
    <2>6. HolderHas'
        BY <1>15 DEF DropUnlock, HolderHas, Dropping
    <2>7. NotLost'
        BY <1>15 DEF DropUnlock, NotLost, Promised, HolderHas, Dropping
    <2>8. ProfileLeft'
        BY <1>15 DEF DropUnlock, ProfileLeft, HolderHas, Dropping
    <2> QED
        BY <2>1, <2>2, <2>3, <2>4, <2>5, <2>6, <2>7, <2>8
<1>16. ASSUME NEW t \in Threads, ~Ended, DropWrite(t) PROVE IInv'
    <2>1. TypeOK'
        BY <1>16 DEF DropWrite, PCs
    <2>2. Stages'
        BY <1>16 DEF DropWrite, Stages, Hooked, Dropping
    <2>3. Disowned'
        BY <1>16 DEF DropWrite, Disowned, Harmless
    <2>4. OneWinner'
        BY <1>16 DEF DropWrite, OneWinner, Winner, Stages, Dropping, Handling
    <2>5. OneExit'
        BY <1>16 DEF DropWrite, OneExit, Exiting, Handling
    <2>6. HolderHas'
        BY <1>16 DEF DropWrite, HolderHas, Dropping
    <2>7. NotLost'
        <3>1. written' # {} /\ UNCHANGED <<outputs, hookVars, engineVars, outputVars, ending, runVars>>
            BY <1>16 DEF DropWrite
        <3>2. pc[t] = "drop_write" /\ pc' = [pc EXCEPT ![t] = "dropped"]
            BY <1>16 DEF DropWrite
        <3> SUFFICES ASSUME NEW h \in Threads, Promised(h)'
                     PROVE  /\ atexit = "listed" \/ (atexit = "run" /\ ending # NoThread)
                            /\ \A u \in Threads : pc'[u] # "atexit"
            BY <3>1 DEF NotLost
        <3>3. Promised(h)
            BY <1>16, <3>1 DEF Promised
        <3> QED
            BY <3>2, <3>3 DEF NotLost
    <2>8. ProfileLeft'
        BY <1>16 DEF DropWrite, ProfileLeft, Ended
    <2> QED
        BY <2>1, <2>2, <2>3, <2>4, <2>5, <2>6, <2>7, <2>8
<1>17. ASSUME NEW t \in Threads, ~Ended, Exit(t) PROVE IInv'
    <2>1. TypeOK'
        BY <1>17 DEF Exit, PCs
    <2>2. Stages'
        BY <1>17 DEF Exit, Stages, Hooked, Held, Dropping, Handling
    <2>3. Disowned'
        BY <1>17 DEF Exit, Disowned, Harmless
    <2>4. OneWinner'
        BY <1>17 DEF Exit, OneWinner, Winner, Dropping, Handling
    <2>5. OneExit'
        BY <1>17, NoThreadAssumption DEF Exit, OneExit, Exiting, Handling
    <2>6. HolderHas'
        BY <1>17 DEF Exit, HolderHas, Held, Dropping, Exiting
    <2>7. NotLost'
        BY <1>17, NoThreadAssumption DEF Exit, AtRest, NotLost, Promised, ExitWins, OneExit,
           Dropping, Exiting
    <2>8. ProfileLeft'
        BY <1>17 DEF Exit, ProfileLeft, NotLost, Promised, Ended
    <2> QED
        BY <2>1, <2>2, <2>3, <2>4, <2>5, <2>6, <2>7, <2>8
<1>18. ASSUME NEW t \in Threads, ~Ended, ExitCheck(t) PROVE IInv'
    <2>1. TypeOK'
        BY <1>18 DEF ExitCheck, PCs
    <2>2. Stages'
        BY <1>18 DEF ExitCheck, Stages, Hooked, Held, Dropping, Handling
    <2>3. Disowned'
        BY <1>18 DEF ExitCheck, Disowned, Harmless
    <2>4. OneWinner'
        BY <1>18 DEF ExitCheck, OneWinner, Winner, Dropping, Handling
    <2>5. OneExit'
        BY <1>18 DEF ExitCheck, OneExit, Exiting
    <2>6. HolderHas'
        BY <1>18 DEF ExitCheck, HolderHas, Held, Dropping, Exiting
    <2>7. NotLost'
        BY <1>18 DEF ExitCheck, NotLost, Promised, ExitWins, Dropping, Handling
    <2>8. ProfileLeft'
        BY <1>18, NoThreadAssumption DEF ExitCheck, ProfileLeft, NotLost, Promised, ExitWins,
           OneExit, HolderHas, Dropping, Exiting, Handling, Ended, Disowned
    <2> QED
        BY <2>1, <2>2, <2>3, <2>4, <2>5, <2>6, <2>7, <2>8
<1>19. ASSUME NEW t \in Threads, ~Ended, Cause(t, "exit_cause", "exit_stop", "atexit") PROVE IInv'
    <2>1. TypeOK'
        BY <1>19 DEF Cause, PCs, Causes
    <2>2. Stages'
        BY <1>19 DEF Cause, Stages, Hooked, Dropping, Handling, Causes
    <2>3. Disowned'
        BY <1>19 DEF Cause, Disowned, Harmless
    <2>4. OneWinner'
        BY <1>19 DEF Cause, OneWinner, Winner, Dropping, Handling
    <2>5. OneExit'
        BY <1>19 DEF Cause, OneExit, Exiting
    <2>6. HolderHas'
        BY <1>19 DEF Cause, HolderHas, Held, Dropping, Exiting
    <2>7. NotLost'
        BY <1>19 DEF Cause, NotLost, Promised, ExitWins, Dropping, Handling
    <2>8. ProfileLeft'
        BY <1>19 DEF Cause, ProfileLeft, Ended
    <2> QED
        BY <2>1, <2>2, <2>3, <2>4, <2>5, <2>6, <2>7, <2>8
<1>20. ASSUME NEW t \in Threads, ~Ended, Stop(t, "exit_stop", "exit_claim") PROVE IInv'
    <2>1. TypeOK'
        BY <1>20 DEF Stop, PCs, Stages
    <2>2. Stages'
        BY <1>20 DEF Stop, Stages, Hooked
    <2>3. Disowned'
        BY <1>20 DEF Stop, Disowned
    <2>4. OneWinner'
        BY <1>20 DEF Stop, OneWinner, Winner, Dropping, Handling
    <2>5. OneExit'
        BY <1>20 DEF Stop, OneExit, Exiting
    <2>6. HolderHas'
        BY <1>20 DEF Stop, HolderHas, Held, Dropping, Exiting, Stages
    <2>7. NotLost'
        BY <1>20 DEF Stop, NotLost, Promised, ExitWins, Dropping, Handling
    <2>8. ProfileLeft'
        BY <1>20 DEF Stop, ProfileLeft, Ended
    <2> QED
        BY <2>1, <2>2, <2>3, <2>4, <2>5, <2>6, <2>7, <2>8
<1>21. ASSUME NEW t \in Threads, ~Ended, ExitClaim(t) PROVE IInv'
    <2>1. TypeOK'
        BY <1>21 DEF ExitClaim, PCs
    <2>2. Stages'
        BY <1>21 DEF ExitClaim, Stages, Hooked
    <2>3. Disowned'
        BY <1>21 DEF ExitClaim, Disowned, Harmless
    <2>4. OneWinner'
        BY <1>21 DEF ExitClaim, OneWinner, Winner, Stages, Dropping, Handling
    <2>5. OneExit'
        BY <1>21 DEF ExitClaim, OneExit, Exiting
    <2>6. HolderHas'
        BY <1>21 DEF ExitClaim, HolderHas, Held, Dropping, Exiting, Handling
    <2>7. NotLost'
        BY <1>21 DEF ExitClaim, NotLost, Promised, ExitWins, Dropping, Handling
    <2>8. ProfileLeft'
        BY <1>21 DEF ExitClaim, ProfileLeft, NotLost, Promised, ExitWins, OneExit, Dropping,
           Exiting, Handling, Ended
    <2> QED
        BY <2>1, <2>2, <2>3, <2>4, <2>5, <2>6, <2>7, <2>8
<1>22. ASSUME NEW t \in Threads, ~Ended, ExitLock(t) PROVE IInv'
    <2>1. TypeOK'
        BY <1>22 DEF ExitLock, PCs
    <2>2. Stages'
        BY <1>22 DEF ExitLock, Stages, Hooked, Handling
    <2>3. Disowned'
        BY <1>22 DEF ExitLock, Disowned, Harmless
    <2>4. OneWinner'
        BY <1>22 DEF ExitLock, OneWinner, Winner, Handling
    <2>5. OneExit'
        BY <1>22 DEF ExitLock, OneExit, Exiting, Handling
    <2>6. HolderHas'
        BY <1>22 DEF ExitLock, HolderHas, Held, Dropping, Exiting, Handling
    <2>7. NotLost'
        BY <1>22 DEF ExitLock, NotLost, Promised, ExitWins, Handling
    <2>8. ProfileLeft'
        BY <1>22 DEF ExitLock, ProfileLeft, Ended
    <2> QED
        BY <2>1, <2>2, <2>3, <2>4, <2>5, <2>6, <2>7, <2>8
<1>23. ASSUME NEW t \in Threads, ~Ended, ExitUnlock(t) PROVE IInv'
    <2>1. TypeOK'
        BY <1>23 DEF ExitUnlock, PCs
    <2>2. Stages'
        BY <1>23 DEF ExitUnlock, Stages, Hooked, Handling
    <2>3. Disowned'
        BY <1>23 DEF ExitUnlock, Disowned, Harmless
    <2>4. OneWinner'
        BY <1>23 DEF ExitUnlock, OneWinner, Winner, Handling
    <2>5. OneExit'
        BY <1>23 DEF ExitUnlock, OneExit, Exiting, Handling
    <2>6. HolderHas'
        BY <1>23 DEF ExitUnlock, HolderHas, Held, Dropping, Exiting, Handling
    <2>7. NotLost'
        BY <1>23 DEF ExitUnlock, NotLost, Promised, ExitWins, Handling, Ended
    <2>8. ProfileLeft'
        BY <1>23 DEF ExitUnlock, ProfileLeft, NotLost, Promised, Ended
    <2> QED
        BY <2>1, <2>2, <2>3, <2>4, <2>5, <2>6, <2>7, <2>8
<1>24. ASSUME NEW t \in Threads, ~Ended, ExitWrite(t) PROVE IInv'
    <2>1. TypeOK'
        BY <1>24 DEF ExitWrite, PCs
    <2>2. Stages'
        BY <1>24 DEF ExitWrite, Stages, Hooked, Handling
    <2>3. Disowned'
        BY <1>24 DEF ExitWrite, Disowned, Harmless
    <2>4. OneWinner'
        BY <1>24 DEF ExitWrite, OneWinner, Winner, Stages, Dropping, Handling
    <2>5. OneExit'
        BY <1>24 DEF ExitWrite, OneExit, Exiting, Handling
    <2>6. HolderHas'
        BY <1>24 DEF ExitWrite, HolderHas, Held, Dropping
    <2>7. NotLost'
        BY <1>24 DEF ExitWrite, NotLost, Promised, Ended
    <2>8. ProfileLeft'
        BY <1>24, NoThreadAssumption DEF ExitWrite, ProfileLeft, NotLost, Promised, ExitWins,
           Stages, OneExit, HolderHas, OneWinner, Winner, Held, Dropping, Exiting, Handling, Ended,
           Disowned
    <2> QED
        BY <2>1, <2>2, <2>3, <2>4, <2>5, <2>6, <2>7, <2>8
<1>25. ASSUME NEW t \in Threads, ~Ended, ForkChild(t) PROVE IInv'
    <2>1. TypeOK'
        BY <1>25 DEF ForkChild, PCs, Causes
    <2>2. Stages'
        BY <1>25 DEF ForkChild, AtRest, Stages, Held, Dropping, Handling
    <2>3. Disowned'
        BY <1>25, NoThreadAssumption DEF ForkChild, AtRest, Disowned, Harmless, Stages, Dropping,
           Handling, Held
    <2>4. OneWinner'
        BY <1>25 DEF ForkChild, OneWinner, Winner, Dropping, Handling
    <2>5. OneExit'
        BY <1>25 DEF ForkChild, AtRest, OneExit, Exiting, Handling
    <2>6. HolderHas'
        BY <1>25, NoThreadAssumption DEF ForkChild, AtRest, HolderHas, Held, Dropping, Exiting,
           Handling, Stages
    <2>7. NotLost'
        BY <1>25, NoThreadAssumption DEF ForkChild, NotLost, Promised, HolderHas
    <2>8. ProfileLeft'
        BY <1>25, NoThreadAssumption DEF ForkChild, ProfileLeft, HolderHas
    <2> QED
        BY <2>1, <2>2, <2>3, <2>4, <2>5, <2>6, <2>7, <2>8
<1>26. CASE UNCHANGED vars
    BY <1>26 DEF vars, PCs, Causes, Stages, Hooked, Held, Dropping, Handling, Disowned, Harmless,
       OneWinner, Winner, OneExit, Exiting, HolderHas, NotLost, Promised, ExitWins, ProfileLeft,
       Ended
<1> QED
    BY <1>1, <1>2, <1>3, <1>4, <1>5, <1>6, <1>7, <1>8, <1>9, <1>10, <1>11, <1>12, <1>13, <1>14,
       <1>15, <1>16, <1>17, <1>18, <1>19, <1>20, <1>21, <1>22, <1>23, <1>24, <1>25, <1>26
    DEF Next, StartStep, DropStep, DropStop, ExitStep, ExitStop

\* Initially every thread is in the program, and nothing has happened.
LEMMA InitInv == Init => IInv
<1> SUFFICES ASSUME Init PROVE IInv
    OBVIOUS
<1> USE NoThreadAssumption DEF Init
<1>1. TypeOK
    BY DEF TypeOK, PCs, Causes
<1>2. Stages /\ Disowned
    BY DEF Stages, Disowned, Hooked, Held, Dropping, Handling
<1>3. OneWinner /\ OneExit /\ HolderHas
    BY DEF OneWinner, Winner, OneExit, HolderHas, Held, Dropping, Exiting, Handling
<1>4. NotLost /\ ProfileLeft
    BY DEF NotLost, Promised, ProfileLeft, Ended
<1> QED
    BY <1>1, <1>2, <1>3, <1>4 DEF IInv

LEMMA Invariance == Spec => []IInv
BY InitInv, NextInv, PTL DEF Spec

\* At most one thread is writing or has won the right to, and only as long as
\* nothing is written.
LEMMA OneWinnerWrites == OneWinner => WrittenOnce
<1> SUFFICES ASSUME OneWinner PROVE WrittenOnce
    OBVIOUS
<1>1. \A t, u \in Writing : t = u /\ written = {}
    BY DEF OneWinner, Winner, Writing, Dropping, Handling
<1>2. Cardinality({}) = 0
    BY FS_EmptySet
<1>3. CASE Writing = {}
    <2>1. CASE written = {}
        BY <1>2, <1>3, <2>1 DEF WrittenOnce, OneWinner
    <2>2. CASE written # {}
        <3>1. PICK w \in written : written = {w}
            BY <2>2 DEF OneWinner
        <3>2. Cardinality(written) = 1
            BY <3>1, FS_Singleton
        <3> QED
            BY <1>2, <1>3, <3>2 DEF WrittenOnce, OneWinner
    <2> QED
        BY <2>1, <2>2
<1>4. CASE Writing # {}
    <2>1. PICK t \in Writing : Writing = {t}
        BY <1>1, <1>4
    <2>2. Cardinality(Writing) = 1 /\ written = {}
        BY <1>1, <2>1, FS_Singleton
    <2> QED
        BY <1>2, <2>2 DEF WrittenOnce, OneWinner
<1> QED
    BY <1>3, <1>4

\* Types, for any set of threads (profiler.rs, fork.rs and engine.rs).
THEOREM TypeCorrect == Spec => []TypeOK
BY Invariance, PTL DEF IInv

\* The drop of the profiler and the exit handler (claim_automatic_write) write
\* one profile between them, which says how the run ended.
THEOREM WritesOneProfile == Spec => []WrittenOnce
BY Invariance, OneWinnerWrites, PTL DEF IInv

\* What the run of Lifecycle.tla checks: one profile at most, the fork hooks
\* before the recording, and a profile left by whoever ends the process.
THEOREM ProfileIsLeft == Spec => []OneProfile
<1>1. IInv => OneProfile
    BY OneWinnerWrites DEF IInv, OneProfile, Stages, ForkHooksFirst
<1> QED
    BY <1>1, Invariance, PTL

\* A child whose run fork disowned (Engine::fork_child) writes nothing and asks
\* for no lock of the outputs.
THEOREM ChildIsSilent == Spec => []DisownedIsSilent
<1>1. IInv => DisownedIsSilent
    BY DEF IInv, Disowned, DisownedIsSilent, Harmless
<1> QED
    BY <1>1, Invariance, PTL

-----------------------------------------------------------------------------
(***************************************************************************)
(* Saving.  Two things make the rename safe.  The file it puts in place    *)
(* has every piece and nothing else (OpenFiles), which needs the temporary *)
(* to be this save's alone (SavesApart): process ids apart among the       *)
(* living, call numbers apart in a process (IdsApart).  And the file that  *)
(* is then at the destination is never written again (KeptFiles), since no *)
(* two names lead to one (NamesApart) and no temporary is a destination    *)
(* (NamesDiffer); a temporary a crash left is cut by whoever creates it    *)
(* again.                                                                  *)
(***************************************************************************)
ProfileName(i, n) == <<"profile", i, n>>
Temporaries == {Sav!Partial} \cup {ProfileName(i, n) : i \in Pids, n \in Nat}

SaveStates ==
    [at : {"create", "emit", "rename", "remove"}, save : Nat,
     format : Formats \cup {"baseline"}, inode : Nat, done : Nat, buffer : {0, 1},
     temporary : Temporaries]
Outcomes == {"begun", "ok", "failed", "crashed"}
Files == Seq([save : Nat, piece : Nat])

\* What was written of a save's file so far.
Start(save, n) == [i \in 1..n |-> Sav!Piece(save, i)]

Active(t) == saver[t] # Sav!Idle

SaveTypes ==
    /\ pid \in [Sav!Processes -> Pids]
    /\ handed_out \in [Sav!Processes -> Nat]
    /\ outcome \in Seq(Outcomes) /\ Len(outcome) <= MaxSaves
    /\ content \in Seq(Files)
    /\ directory \in [DOMAIN directory -> 1..Len(content)]
    /\ saver \in [Savers -> {Sav!Idle} \cup SaveStates]
    /\ kept \in [Sav!Destinations -> 0..MaxSaves]
    /\ failures \in 0..MaxFailures /\ crashes \in 0..MaxCrashes

\* Live processes have their own ids, and a call its own number.
IdsApart ==
    /\ \A p, q \in Sav!Processes : pid[p] = pid[q] => p = q
    /\ \A p \in Sav!Processes : handed_out[p] <= Len(outcome)

\* So have the saves under way, and their temporaries.
SavesApart ==
    /\ \A t \in Savers : Active(t) =>
          /\ saver[t].save \in 1..Len(outcome)
          /\ outcome[saver[t].save] = "begun"
          /\ IF t \in BaselineSavers THEN saver[t].temporary = Sav!Partial
             ELSE \E n \in Nat : /\ n < handed_out[ProcessOf[t]]
                                 /\ saver[t].temporary = ProfileName(pid[ProcessOf[t]], n)
    /\ \A t, u \in Savers : Active(t) /\ Active(u) /\ t # u =>
          saver[t].save # saver[u].save /\ saver[t].temporary # saver[u].temporary

\* No two names are one file.
NamesApart ==
    \A m, n \in DOMAIN directory : directory[m] = directory[n] => m = n

\* The file a save writes is the one its temporary names, and has all that was
\* written.
OpenFile(t) ==
    /\ saver[t].at = "create" => saver[t].done = 0 /\ saver[t].buffer = 0
    /\ saver[t].at \in {"emit", "rename"} =>
          /\ saver[t].temporary \in DOMAIN directory
          /\ directory[saver[t].temporary] = saver[t].inode
          /\ content[saver[t].inode] = Start(saver[t].save, saver[t].done)
          /\ saver[t].done + saver[t].buffer <= Pieces
          /\ t \in BaselineSavers => saver[t].buffer = 0
    /\ saver[t].at = "rename" => saver[t].done = Pieces

OpenFiles == \A t \in Savers : Active(t) => OpenFile(t)

\* The file at a destination is the last one a save put there, whole.
KeptFile(d) ==
    IF kept[d] = 0 THEN <<d>> \notin DOMAIN directory
    ELSE /\ <<d>> \in DOMAIN directory
         /\ kept[d] \in 1..Len(outcome) /\ outcome[kept[d]] = "ok"
         /\ content[directory[<<d>>]] = Start(kept[d], Pieces)

KeptFiles == \A d \in Sav!Destinations : KeptFile(d)

\* Before any crash, every other name is some save's that will remove it.
Removes(t, n) == saver[t] # Sav!Idle /\ saver[t].temporary = n /\ saver[t].inode # 0
IsDestination(n) == \E d \in Sav!Destinations : n = <<d>>

Removers ==
    crashes = 0 => \A n \in DOMAIN directory : IsDestination(n) \/ \E t \in Savers : Removes(t, n)

SaveInv == /\ SaveTypes /\ IdsApart /\ SavesApart /\ NamesApart
           /\ OpenFiles /\ KeptFiles /\ Removers

\* What the model checker's counterexamples ask for: two saves of a baseline share
\* a temporary, and the folded writer does not flush.
OneBaseline == \A t, u \in BaselineSavers : t = u
AllFlush == "folded" \notin Formats

SavingHypotheses ==
    Sav!SaversAssumption /\ Sav!PiecesAssumption /\ OneBaseline /\ AllFlush

LEMMA NamesDiffer ==
    /\ \A d \in Sav!Destinations : <<d>> \notin Temporaries
    /\ \A i \in Pids, n \in Nat : ProfileName(i, n) # Sav!Partial
    /\ \A i, j \in Pids : \A m, n \in Nat : ProfileName(i, m) = ProfileName(j, n) => i = j /\ m = n
    /\ \A d, e \in Sav!Destinations : <<d>> = <<e>> => d = e
<1>1. ASSUME NEW d \in Sav!Destinations PROVE <<d>> \notin Temporaries
    BY DEF Temporaries, ProfileName, Sav!Partial, Sav!Destinations
<1>2. \A i \in Pids, n \in Nat : ProfileName(i, n) # Sav!Partial
    BY DEF Temporaries, ProfileName, Sav!Partial
<1>3. \A i, j \in Pids : \A m, n \in Nat : ProfileName(i, m) = ProfileName(j, n) => i = j /\ m = n
    BY DEF ProfileName
<1>4. \A d, e \in Sav!Destinations : <<d>> = <<e>> => d = e
    OBVIOUS
<1> QED BY <1>1, <1>2, <1>3, <1>4

LEMMA Replaced ==
    ASSUME NEW S, NEW f \in Seq(S), NEW i \in 1..Len(f), NEW x \in S,
           NEW g, g = [f EXCEPT ![i] = x]
    PROVE  /\ g \in Seq(S) /\ Len(g) = Len(f) /\ g[i] = x
           /\ \A j \in 1..Len(f) : j # i => g[j] = f[j]
OBVIOUS

LEMMA PutAtEnd ==
    ASSUME NEW s, NEW n \in Nat
    PROVE  Sav!PutAt(Start(s, n), n + 1, Sav!Piece(s, n + 1)) = Start(s, n + 1)
<1>1. Len(Start(s, n)) = n /\ DOMAIN Start(s, n) = 1..n
    BY DEF Start
<1> QED BY <1>1 DEF Sav!PutAt, Start

LEMMA StartIsFile ==
    ASSUME NEW s \in Nat, NEW n \in Nat PROVE Start(s, n) \in Files
BY DEF Start, Files, Sav!Piece

LEMMA SaveInitInv == SavingHypotheses /\ Sav!Init => SaveInv
<1> SUFFICES ASSUME SavingHypotheses, Sav!Init PROVE SaveInv
    OBVIOUS
<1> USE DEF SavingHypotheses, Sav!Init
<1>1. SaveTypes
    BY DEF SaveTypes, Sav!PiecesAssumption
<1>2. IdsApart
    <2>1. \A p, q \in Sav!Processes : pid[p] = pid[q] => p = q
        BY <1>1 DEF Sav!IsInjective, SaveTypes
    <2>2. \A p \in Sav!Processes : handed_out[p] <= Len(outcome)
        OBVIOUS
    <2> QED BY <2>1, <2>2 DEF IdsApart
<1>3. SavesApart
    BY DEF SavesApart, Active
<1>4. NamesApart /\ KeptFiles /\ Removers
    BY DEF NamesApart, KeptFiles, KeptFile, Removers
<1>5. OpenFiles
    BY DEF OpenFiles, Active
<1> QED BY <1>1, <1>2, <1>3, <1>4, <1>5 DEF SaveInv

\* A thread goes on with its save: the saves under way are the same.
SameSaves(t) ==
    /\ UNCHANGED <<pid, handed_out, outcome>>
    /\ \A u \in Savers : u # t => saver'[u] = saver[u]
    /\ saver'[t] # Sav!Idle /\ saver[t] # Sav!Idle
    /\ saver'[t].save = saver[t].save /\ saver'[t].temporary = saver[t].temporary

LEMMA SavesKept ==
    ASSUME SavesApart, IdsApart, NEW t \in Savers, SameSaves(t) PROVE SavesApart' /\ IdsApart'
<1> USE DEF SameSaves
<1>1. \A u \in Savers :
        /\ saver'[u] # Sav!Idle <=> saver[u] # Sav!Idle
        /\ saver'[u].save = saver[u].save /\ saver'[u].temporary = saver[u].temporary
    OBVIOUS
<1>2. IdsApart'
    BY DEF IdsApart
<1>3. ASSUME NEW u \in Savers, saver'[u] # Sav!Idle
      PROVE  /\ saver'[u].save \in 1..Len(outcome')
             /\ outcome'[saver'[u].save] = "begun"
             /\ IF u \in BaselineSavers THEN saver'[u].temporary = Sav!Partial
                ELSE \E n \in Nat : /\ n < handed_out'[ProcessOf[u]]
                                    /\ saver'[u].temporary = ProfileName(pid'[ProcessOf[u]], n)
    BY <1>1, <1>3 DEF SavesApart, Active
<1>4. ASSUME NEW u \in Savers, NEW v \in Savers, saver'[u] # Sav!Idle, saver'[v] # Sav!Idle, u # v
      PROVE  saver'[u].save # saver'[v].save /\ saver'[u].temporary # saver'[v].temporary
    <2>1. saver[u] # Sav!Idle /\ saver[v] # Sav!Idle
        BY <1>1, <1>4
    <2>2. saver[u].save # saver[v].save /\ saver[u].temporary # saver[v].temporary
        BY <1>4, <2>1 DEF SavesApart, Active
    <2> QED BY <1>1, <2>2
<1> QED BY <1>2, <1>3, <1>4 DEF SavesApart, Active

LEMMA CreateInv ==
    ASSUME SavingHypotheses, SaveInv, NEW t \in Savers, Sav!Create(t) PROVE SaveInv'
<1> DEFINE name == saver[t].temporary
           known == name \in DOMAIN directory
           inode == IF known THEN directory[name] ELSE Len(content) + 1
<1> USE DEF SaveInv, SavingHypotheses
<1>1. /\ saver[t] \in SaveStates /\ saver[t].at = "create" /\ Active(t)
      /\ name \in Temporaries
    BY DEF SaveTypes, Sav!Create, Sav!At, Active, Sav!Idle, SaveStates
<1>2. /\ saver' = [saver EXCEPT ![t].at = "emit", ![t].inode = inode]
      /\ directory' = Sav!Named(directory, name, inode)
      /\ content' = IF known THEN [content EXCEPT ![inode] = <<>>] ELSE Append(content, <<>>)
      /\ UNCHANGED <<pid, handed_out, kept, outcome, failures, crashes>>
    BY DEF Sav!Create
<1>3. /\ inode \in 1..Len(content') /\ Len(content) <= Len(content') /\ content' \in Seq(Files)
      /\ content'[inode] = <<>>
      /\ \A i \in 1..Len(content) : i # inode => content'[i] = content[i]
    <2>1. <<>> \in Files
        BY DEF Files
    <2>2. CASE known
        BY <2>1, <2>2, <1>2 DEF SaveTypes
    <2>3. CASE ~known
        BY <2>1, <2>3, <1>2 DEF SaveTypes
    <2> QED BY <2>2, <2>3
<1>4. /\ DOMAIN directory' = DOMAIN directory \cup {name} /\ directory'[name] = inode
      /\ \A n \in DOMAIN directory : n # name => directory'[n] = directory[n]
      /\ \A n \in DOMAIN directory : n # name => directory[n] # inode
      /\ \A n \in DOMAIN directory : directory[n] \in 1..Len(content)
    <2>1. \A n \in DOMAIN directory : directory[n] \in 1..Len(content)
        BY DEF SaveTypes
    <2> QED BY <1>2, <2>1 DEF Sav!Named, NamesApart, SaveTypes
<1>5. /\ saver'[t] = [saver[t] EXCEPT !.at = "emit", !.inode = inode]
      /\ \A u \in Savers : u # t => saver'[u] = saver[u]
    BY <1>2 DEF SaveTypes
<1>6. /\ saver'[t] \in SaveStates /\ saver'[t] # Sav!Idle
      /\ saver'[t].at = "emit" /\ saver'[t].inode = inode
      /\ saver'[t].save = saver[t].save /\ saver'[t].temporary = saver[t].temporary
      /\ saver'[t].done = saver[t].done /\ saver'[t].buffer = saver[t].buffer
    <2>1. inode \in Nat
        BY <1>3, <1>2 DEF SaveTypes
    <2>2. saver'[t] \in SaveStates /\ saver'[t].at = "emit"
        BY <1>1, <1>5, <2>1 DEF SaveStates
    <2>3. saver'[t] # Sav!Idle
        BY <2>2 DEF Sav!Idle
    <2> QED BY <1>1, <1>5, <2>2, <2>3 DEF SaveStates
<1>7. SaveTypes'
    <2>1. saver' \in [Savers -> {Sav!Idle} \cup SaveStates]
        BY <1>2, <1>5, <1>6 DEF SaveTypes
    <2>2. directory' \in [DOMAIN directory' -> 1..Len(content')]
        BY <1>2, <1>3, <1>4 DEF Sav!Named
    <2> QED BY <1>2, <1>3, <2>1, <2>2 DEF SaveTypes
<1>8. SavesApart' /\ IdsApart'
    BY <1>1, <1>2, <1>5, <1>6, SavesKept DEF SameSaves, Active
<1>9. NamesApart'
    BY <1>4 DEF NamesApart
<1>10. OpenFiles'
    <2>1. OpenFile(t)'
        <3>1. content'[inode] = Start(saver[t].save, 0)
            BY <1>3 DEF Start
        <3>2. saver[t].done = 0 /\ saver[t].buffer = 0
            BY <1>1 DEF OpenFiles, OpenFile
        <3> QED BY <1>1, <1>4, <1>6, <3>1, <3>2 DEF OpenFile, Sav!PiecesAssumption
    <2>2. ASSUME NEW u \in Savers, u # t, Active(u) PROVE OpenFile(u)'
        <3>1. OpenFile(u) /\ saver[u].temporary # name /\ saver'[u] = saver[u]
            BY <1>1, <1>5, <2>2 DEF OpenFiles, SavesApart
        <3>2. CASE saver[u].at \in {"emit", "rename"}
            <4>1. saver[u].inode \in 1..Len(content) /\ saver[u].inode # inode
                BY <1>4, <3>1, <3>2 DEF OpenFile
            <4> QED BY <1>3, <1>4, <3>1, <3>2, <4>1 DEF OpenFile
        <3>3. CASE saver[u].at \notin {"emit", "rename"}
            BY <3>1, <3>3 DEF OpenFile
        <3> QED BY <3>2, <3>3
    <2> QED BY <1>5, <2>1, <2>2 DEF OpenFiles, Active
<1>11. KeptFiles'
    <2> SUFFICES ASSUME NEW d \in Sav!Destinations PROVE KeptFile(d)'
        BY DEF KeptFiles
    <2>1. <<d>> # name /\ KeptFile(d)
        BY <1>1, NamesDiffer DEF KeptFiles
    <2>2. CASE kept[d] = 0
        BY <1>2, <1>4, <2>1, <2>2 DEF KeptFile
    <2>3. CASE kept[d] # 0
        <3>1. /\ <<d>> \in DOMAIN directory'
              /\ directory'[<<d>>] = directory[<<d>>]
              /\ directory[<<d>>] \in 1..Len(content) /\ directory[<<d>>] # inode
            BY <1>4, <2>1, <2>3 DEF KeptFile
        <3> QED BY <1>2, <1>3, <2>1, <2>3, <3>1 DEF KeptFile
    <2> QED BY <2>2, <2>3
<1>12. Removers'
    <2>1. inode # 0
        BY <1>3
    <2>3. ASSUME NEW n \in DOMAIN directory, n # name, NEW u \in Savers, Removes(u, n)
          PROVE  Removes(u, n)'
        BY <1>1, <1>5, <2>3 DEF Removes
    <2> SUFFICES ASSUME crashes' = 0, NEW n \in DOMAIN directory'
                 PROVE  IsDestination(n) \/ \E u \in Savers : Removes(u, n)'
        BY DEF Removers
    <2>4. CASE n = name
        BY <1>1, <1>6, <2>1, <2>4 DEF Removes
    <2>5. CASE n # name
        BY <1>2, <1>4, <2>3, <2>5 DEF Removers
    <2> QED BY <2>4, <2>5
<1> QED BY <1>7, <1>8, <1>9, <1>10, <1>11, <1>12
\* A thread goes on with its save, and writes to its own file if to any.
LEMMA GoesOn ==
    ASSUME SaveInv, NEW t \in Savers, SameSaves(t),
           UNCHANGED <<directory, kept, crashes>>, failures' \in 0..MaxFailures,
           saver' \in [Savers -> {Sav!Idle} \cup SaveStates],
           saver'[t].inode = saver[t].inode, OpenFile(t)',
           content' \in Seq(Files), Len(content') = Len(content),
           \/ content' = content
           \/ /\ saver[t].at = "emit"
              /\ \A i \in 1..Len(content) : i # saver[t].inode => content'[i] = content[i]
    PROVE  SaveInv'
<1> USE DEF SaveInv, SameSaves
<1>1. SaveTypes'
    BY DEF SaveTypes
<1>2. SavesApart' /\ IdsApart'
    BY SavesKept
<1>3. NamesApart'
    BY DEF NamesApart
<1>4. \A n \in DOMAIN directory : directory[n] \in 1..Len(content)
    BY DEF SaveTypes
<1>5. ASSUME NEW n \in DOMAIN directory, n # saver[t].temporary
      PROVE  content'[directory[n]] = content[directory[n]]
    BY <1>4, <1>5 DEF OpenFiles, OpenFile, Active, NamesApart
<1>6. OpenFiles'
    <2>1. ASSUME NEW u \in Savers, u # t, saver[u] # Sav!Idle PROVE OpenFile(u)'
        <3>1. OpenFile(u) /\ saver[u].temporary # saver[t].temporary /\ saver'[u] = saver[u]
            BY <2>1 DEF OpenFiles, SavesApart, Active
        <3>2. CASE saver[u].at \in {"emit", "rename"}
            BY <1>5, <3>1, <3>2 DEF OpenFile
        <3>3. CASE saver[u].at \notin {"emit", "rename"}
            BY <3>1, <3>3 DEF OpenFile
        <3> QED BY <3>2, <3>3
    <2> QED BY <2>1 DEF OpenFiles, Active
<1>7. KeptFiles'
    <2> SUFFICES ASSUME NEW d \in Sav!Destinations PROVE KeptFile(d)'
        BY DEF KeptFiles
    <2>1. saver[t].temporary \in Temporaries
        BY DEF SaveTypes, SaveStates
    <2>2. <<d>> # saver[t].temporary /\ KeptFile(d)
        BY <2>1, NamesDiffer DEF KeptFiles
    <2> QED BY <1>5, <2>2 DEF KeptFile
<1>8. Removers'
    <2>1. ASSUME NEW n, NEW u \in Savers, Removes(u, n) PROVE Removes(u, n)'
        BY <2>1 DEF Removes
    <2> QED BY <2>1 DEF Removers
<1> QED BY <1>1, <1>2, <1>3, <1>6, <1>7, <1>8

LEMMA EmitInv ==
    ASSUME SavingHypotheses, SaveInv, NEW t \in Savers, Sav!Emit(t) PROVE SaveInv'
<1> USE DEF SaveInv, SavingHypotheses
<1> DEFINE s == saver[t]
<1>1. s \in SaveStates /\ s.at = "emit" /\ Active(t) /\ OpenFile(t)
    BY DEF SaveTypes, Sav!Emit, Sav!At, Active, Sav!Idle, OpenFiles
<1>2. /\ s.done \in Nat /\ s.buffer \in {0, 1} /\ s.save \in Nat
      /\ s.inode \in 1..Len(content) /\ content[s.inode] = Start(s.save, s.done)
      /\ s.done + s.buffer < Pieces /\ Pieces \in Nat
      /\ saver \in [Savers -> {Sav!Idle} \cup SaveStates] /\ content \in Seq(Files)
    BY <1>1 DEF SaveStates, OpenFile, SaveTypes, Sav!Emit, Sav!Emitted, Sav!PiecesAssumption
<1>3. /\ UNCHANGED <<pid, handed_out, outcome, directory, kept, failures, crashes>>
      /\ failures \in 0..MaxFailures
    BY DEF Sav!Emit, SaveTypes
<1>4. CASE t \in BaselineSavers \/ s.buffer = 1
    <2>1. /\ content' = [content EXCEPT ![s.inode] = Start(s.save, s.done + 1)]
          /\ saver' = [saver EXCEPT ![t].done = s.done + 1]
        BY <1>2, <1>4, PutAtEnd DEF Sav!Emit, Sav!Put
    <2>2. /\ content' \in Seq(Files) /\ Len(content') = Len(content)
          /\ \A i \in 1..Len(content) : i # s.inode => content'[i] = content[i]
          /\ content'[s.inode] = Start(s.save, s.done + 1)
        BY <1>2, <2>1, StartIsFile
    <2>3. /\ saver'[t] = [s EXCEPT !.done = s.done + 1]
          /\ \A u \in Savers : u # t => saver'[u] = saver[u]
        BY <1>2, <2>1
    <2>4. saver'[t] \in SaveStates /\ saver'[t] # Sav!Idle
        <3>1. saver'[t] \in SaveStates /\ saver'[t].at = "emit"
            BY <1>1, <1>2, <2>3 DEF SaveStates
        <3> QED BY <3>1 DEF Sav!Idle
    <2>5. saver' \in [Savers -> {Sav!Idle} \cup SaveStates]
        BY <1>2, <2>1, <2>3, <2>4
    <2>6. SameSaves(t)
        BY <1>1, <1>3, <2>3, <2>4 DEF SameSaves, Active, SaveStates
    <2>7. OpenFile(t)'
        BY <1>1, <1>2, <1>3, <2>2, <2>3 DEF OpenFile, SaveStates
    <2> QED BY <1>1, <1>3, <2>2, <2>3, <2>5, <2>6, <2>7, GoesOn DEF SaveStates
<1>5. CASE ~(t \in BaselineSavers \/ s.buffer = 1)
    <2>1. content' = content /\ saver' = [saver EXCEPT ![t].buffer = 1]
        BY <1>5 DEF Sav!Emit
    <2>2. /\ saver'[t] = [s EXCEPT !.buffer = 1]
          /\ \A u \in Savers : u # t => saver'[u] = saver[u]
        BY <1>2, <2>1
    <2>3. saver'[t] \in SaveStates /\ saver'[t] # Sav!Idle
        BY <1>1, <1>2, <2>2 DEF SaveStates, Sav!Idle
    <2>4. saver' \in [Savers -> {Sav!Idle} \cup SaveStates]
        BY <1>2, <2>1, <2>2, <2>3
    <2>5. SameSaves(t)
        BY <1>1, <1>3, <2>2, <2>3 DEF SameSaves, Active, SaveStates
    <2>6. OpenFile(t)'
        BY <1>1, <1>2, <1>3, <1>5, <2>1, <2>2 DEF OpenFile, SaveStates
    <2> QED BY <1>1, <1>2, <1>3, <2>1, <2>2, <2>4, <2>5, <2>6, GoesOn DEF SaveStates
<1> QED BY <1>4, <1>5
LEMMA FlushInv ==
    ASSUME SavingHypotheses, SaveInv, NEW t \in Savers, Sav!Flush(t) PROVE SaveInv'
<1> USE DEF SaveInv, SavingHypotheses
<1> DEFINE s == saver[t]
<1>1. s \in SaveStates /\ s.at = "emit" /\ Active(t) /\ OpenFile(t)
    BY DEF SaveTypes, Sav!Flush, Sav!At, Active, Sav!Idle, OpenFiles
<1>2. /\ s.done \in Nat /\ s.buffer \in {0, 1} /\ s.save \in Nat
      /\ s.inode \in 1..Len(content) /\ content[s.inode] = Start(s.save, s.done)
      /\ s.done + s.buffer = Pieces /\ Pieces \in Nat
      /\ saver \in [Savers -> {Sav!Idle} \cup SaveStates] /\ content \in Seq(Files)
    BY <1>1 DEF SaveStates, OpenFile, SaveTypes, Sav!Flush, Sav!Emitted, Sav!PiecesAssumption
<1>3. /\ UNCHANGED <<pid, handed_out, outcome, directory, kept, failures, crashes>>
      /\ failures \in 0..MaxFailures
      /\ saver' = [saver EXCEPT ![t].at = "rename", ![t].done = Pieces, ![t].buffer = 0]
    BY DEF Sav!Flush, SaveTypes
<1>4. /\ content' \in Seq(Files) /\ Len(content') = Len(content)
      /\ \A i \in 1..Len(content) : i # s.inode => content'[i] = content[i]
      /\ content'[s.inode] = Start(s.save, Pieces)
    <2>1. CASE s.buffer = 1
        <3>1. s.done + 1 = Pieces
            BY <1>2, <2>1
        <3>2. content' = [content EXCEPT ![s.inode] = Start(s.save, Pieces)]
            BY <1>2, <2>1, <3>1, PutAtEnd DEF Sav!Flush, Sav!Put
        <3> QED BY <1>2, <3>2, StartIsFile
    <2>2. CASE s.buffer = 0
        BY <1>2, <2>2 DEF Sav!Flush
    <2> QED BY <1>2, <2>1, <2>2
<1>5. /\ saver'[t] = [s EXCEPT !.at = "rename", !.done = Pieces, !.buffer = 0]
      /\ \A u \in Savers : u # t => saver'[u] = saver[u]
    BY <1>2, <1>3
<1>6. saver'[t] \in SaveStates /\ saver'[t] # Sav!Idle
    <2>1. saver'[t] \in SaveStates /\ saver'[t].at = "rename"
        BY <1>1, <1>2, <1>5 DEF SaveStates
    <2> QED BY <2>1 DEF Sav!Idle
<1>7. saver' \in [Savers -> {Sav!Idle} \cup SaveStates]
    BY <1>2, <1>3, <1>5, <1>6
<1>8. SameSaves(t)
    <2>1. saver'[t].save = s.save /\ saver'[t].temporary = s.temporary
        BY <1>1, <1>5 DEF SaveStates
    <2> QED BY <1>1, <1>3, <1>5, <1>6, <2>1 DEF SameSaves, Active
<1>9. OpenFile(t)'
    BY <1>1, <1>2, <1>3, <1>4, <1>5 DEF OpenFile, SaveStates
<1> QED BY <1>1, <1>3, <1>4, <1>5, <1>7, <1>8, <1>9, GoesOn DEF SaveStates

LEMMA FailInv ==
    ASSUME SavingHypotheses, SaveInv, NEW t \in Savers, Sav!Fail(t) PROVE SaveInv'
<1> USE DEF SaveInv, SavingHypotheses
<1> DEFINE s == saver[t]
<1>1. s \in SaveStates /\ s.at \in {"create", "emit", "rename"} /\ Active(t)
    BY DEF SaveTypes, Sav!Fail, Sav!At, Active, Sav!Idle
<1>2. ~Sav!Discarded(t)
    BY <1>1 DEF Sav!Discarded, Sav!Flushes, AllFlush, SaveStates
<1>3. /\ UNCHANGED <<pid, handed_out, outcome, directory, content, kept, crashes>>
      /\ saver' = [saver EXCEPT ![t].at = "remove", ![t].buffer = 0]
    BY <1>2 DEF Sav!Fail, Sav!files
<1>4. failures' \in 0..MaxFailures
    BY DEF Sav!Fail, SaveTypes, Sav!PiecesAssumption
<1>5. saver \in [Savers -> {Sav!Idle} \cup SaveStates] /\ content \in Seq(Files)
    BY DEF SaveTypes
<1>6. /\ saver'[t] = [s EXCEPT !.at = "remove", !.buffer = 0]
      /\ \A u \in Savers : u # t => saver'[u] = saver[u]
    BY <1>3, <1>5
<1>7. /\ saver'[t] \in SaveStates /\ saver'[t] # Sav!Idle /\ saver'[t].at = "remove"
      /\ saver'[t].save = s.save /\ saver'[t].temporary = s.temporary /\ saver'[t].inode = s.inode
    <2>1. saver'[t] \in SaveStates /\ saver'[t].at = "remove"
        BY <1>1, <1>6 DEF SaveStates
    <2>2. saver'[t] # Sav!Idle
        BY <2>1 DEF Sav!Idle
    <2> QED BY <1>1, <1>6, <2>1, <2>2 DEF SaveStates
<1>8. saver' \in [Savers -> {Sav!Idle} \cup SaveStates]
    BY <1>3, <1>5, <1>6, <1>7
<1>9. SameSaves(t) /\ OpenFile(t)'
    BY <1>1, <1>3, <1>6, <1>7 DEF SameSaves, Active, OpenFile
<1> QED BY <1>3, <1>4, <1>5, <1>7, <1>8, <1>9, GoesOn

\* A save ends, and with it its temporary: the others go on.
LEMMA Ends ==
    ASSUME SaveInv, NEW t \in Savers, Active(t),
           saver'[t] = Sav!Idle, \A u \in Savers : u # t => saver'[u] = saver[u],
           UNCHANGED <<pid, handed_out, content>>, Len(outcome') = Len(outcome),
           \A i \in 1..Len(outcome) : i # saver[t].save => outcome'[i] = outcome[i],
           \A n \in DOMAIN directory : n \in Temporaries /\ n # saver[t].temporary =>
              n \in DOMAIN directory' /\ directory'[n] = directory[n]
    PROVE  SavesApart' /\ OpenFiles' /\ IdsApart'
<1> USE DEF SaveInv
<1>1. ASSUME NEW u \in Savers, saver'[u] # Sav!Idle
      PROVE  /\ u # t /\ saver'[u] = saver[u] /\ Active(u)
             /\ saver[u].save # saver[t].save /\ saver[u].temporary # saver[t].temporary
    BY <1>1 DEF SavesApart, Active
<1>2. SavesApart'
    <2>1. ASSUME NEW u \in Savers, saver'[u] # Sav!Idle
          PROVE  /\ saver'[u].save \in 1..Len(outcome')
                 /\ outcome'[saver'[u].save] = "begun"
                 /\ IF u \in BaselineSavers THEN saver'[u].temporary = Sav!Partial
                    ELSE \E n \in Nat : /\ n < handed_out'[ProcessOf[u]]
                                        /\ saver'[u].temporary = ProfileName(pid'[ProcessOf[u]], n)
        <3>1. saver'[u] = saver[u] /\ Active(u) /\ saver[u].save # saver[t].save
            BY <1>1, <2>1
        <3>2. /\ saver[u].save \in 1..Len(outcome) /\ outcome[saver[u].save] = "begun"
              /\ IF u \in BaselineSavers THEN saver[u].temporary = Sav!Partial
                 ELSE \E n \in Nat : /\ n < handed_out[ProcessOf[u]]
                                     /\ saver[u].temporary = ProfileName(pid[ProcessOf[u]], n)
            BY <3>1 DEF SavesApart
        <3>3. saver'[u].save \in 1..Len(outcome') /\ outcome'[saver'[u].save] = "begun"
            BY <3>1, <3>2
        <3> QED BY <3>1, <3>2, <3>3
    <2>2. ASSUME NEW u \in Savers, NEW v \in Savers, u # v,
                 saver'[u] # Sav!Idle, saver'[v] # Sav!Idle
          PROVE  saver'[u].save # saver'[v].save /\ saver'[u].temporary # saver'[v].temporary
        <3>1. saver[u].save # saver[v].save /\ saver[u].temporary # saver[v].temporary
            BY <1>1, <2>2 DEF SavesApart
        <3> QED BY <1>1, <2>2, <3>1
    <2> QED BY <2>1, <2>2 DEF SavesApart, Active
<1>3. OpenFiles'
    <2>1. ASSUME NEW u \in Savers, saver'[u] # Sav!Idle PROVE OpenFile(u)'
        <3>1. saver[u].temporary \in Temporaries
            BY <1>1, <2>1 DEF SaveTypes, SaveStates, Active
        <3>2. OpenFile(u) /\ saver'[u] = saver[u]
            BY <1>1, <2>1 DEF OpenFiles
        <3> QED BY <1>1, <2>1, <3>1, <3>2 DEF OpenFile
    <2> QED BY <2>1 DEF OpenFiles, Active
<1>4. IdsApart'
    BY DEF IdsApart
<1> QED BY <1>2, <1>3, <1>4

LEMMA CleanUpInv ==
    ASSUME SavingHypotheses, SaveInv, NEW t \in Savers, Sav!CleanUp(t) PROVE SaveInv'
<1> USE DEF SaveInv, SavingHypotheses
<1> DEFINE s == saver[t]
<1>1. /\ s \in SaveStates /\ s.at = "remove" /\ Active(t)
      /\ s.temporary \in Temporaries /\ s.save \in 1..Len(outcome) /\ outcome[s.save] = "begun"
    <2>1. s \in SaveStates /\ s.at = "remove" /\ Active(t)
        BY DEF SaveTypes, Sav!CleanUp, Sav!At, Active, Sav!Idle
    <2>2. s.temporary \in Temporaries
        BY <2>1 DEF SaveStates
    <2> QED BY <2>1, <2>2 DEF SavesApart
<1>2. /\ UNCHANGED <<pid, handed_out, content, kept, failures, crashes>>
      /\ outcome' = [outcome EXCEPT ![s.save] = "failed"]
      /\ saver' = [saver EXCEPT ![t] = Sav!Idle]
    BY DEF Sav!CleanUp
<1>3. /\ saver'[t] = Sav!Idle
      /\ \A u \in Savers : u # t => saver'[u] = saver[u]
      /\ saver' \in [Savers -> {Sav!Idle} \cup SaveStates]
    BY <1>2 DEF SaveTypes
<1>4. /\ outcome' \in Seq(Outcomes) /\ Len(outcome') = Len(outcome)
      /\ \A i \in 1..Len(outcome) : i # s.save => outcome'[i] = outcome[i]
    <2>1. outcome \in Seq(Outcomes) /\ "failed" \in Outcomes
        BY DEF SaveTypes, Outcomes
    <2>2. PICK i \in 1..Len(outcome) : i = s.save
        BY <1>1
    <2>3. outcome' = [outcome EXCEPT ![i] = "failed"]
        BY <1>2, <2>2
    <2> QED BY <2>1, <2>2, <2>3, Replaced
<1>5. /\ DOMAIN directory' \subseteq DOMAIN directory
      /\ \A n \in DOMAIN directory : n # s.temporary => n \in DOMAIN directory'
      /\ \A n \in DOMAIN directory' : directory'[n] = directory[n]
      /\ directory' \in [DOMAIN directory' -> 1..Len(content)]
    <2>1. CASE t \in BaselineSavers /\ s.inode = 0
        BY <2>1 DEF Sav!CleanUp, SaveTypes
    <2>2. CASE ~(t \in BaselineSavers /\ s.inode = 0)
        BY <2>2 DEF Sav!CleanUp, Sav!Without, Sav!Restrict, SaveTypes
    <2> QED BY <2>1, <2>2
<1>6. SaveTypes'
    BY <1>2, <1>3, <1>4, <1>5 DEF SaveTypes
<1>7. SavesApart' /\ OpenFiles' /\ IdsApart'
    BY <1>1, <1>2, <1>3, <1>4, <1>5, Ends
<1>8. NamesApart'
    BY <1>5 DEF NamesApart
<1>9. KeptFiles'
    <2> SUFFICES ASSUME NEW d \in Sav!Destinations PROVE KeptFile(d)'
        BY DEF KeptFiles
    <2>1. <<d>> # s.temporary /\ KeptFile(d)
        BY <1>1, NamesDiffer DEF KeptFiles
    <2> QED BY <1>1, <1>2, <1>4, <1>5, <2>1 DEF KeptFile
<1>10. Removers'
    <2> SUFFICES ASSUME crashes = 0, NEW n \in DOMAIN directory', ~IsDestination(n)
                 PROVE  \E u \in Savers : Removes(u, n)'
        BY <1>2 DEF Removers
    <2>1. PICK u \in Savers : Removes(u, n)
        BY <1>5 DEF Removers
    <2>2. u # t
        <3>1. SUFFICES ASSUME u = t PROVE FALSE
            OBVIOUS
        <3>2. n = s.temporary /\ s.inode # 0
            BY <2>1, <3>1 DEF Removes
        <3>3. n \notin DOMAIN directory'
            BY <3>2 DEF Sav!CleanUp, Sav!Without, Sav!Restrict
        <3> QED BY <3>3
    <2> QED BY <1>3, <2>1, <2>2 DEF Removes
<1> QED BY <1>6, <1>7, <1>8, <1>9, <1>10

LEMMA RenameInv ==
    ASSUME SavingHypotheses, SaveInv, NEW t \in Savers, Sav!Rename(t) PROVE SaveInv'
<1> USE DEF SaveInv, SavingHypotheses
<1> DEFINE s == saver[t]
           e == Sav!Destination(t)
<1>1. /\ s \in SaveStates /\ s.at = "rename" /\ Active(t) /\ OpenFile(t)
      /\ s.temporary \in Temporaries /\ s.save \in 1..Len(outcome) /\ outcome[s.save] = "begun"
    <2>1. s \in SaveStates /\ s.at = "rename" /\ Active(t)
        BY DEF SaveTypes, Sav!Rename, Sav!At, Active, Sav!Idle
    <2>2. s.temporary \in Temporaries
        BY <2>1 DEF SaveStates
    <2> QED BY <2>1, <2>2 DEF SavesApart, OpenFiles
<1>2. /\ UNCHANGED <<pid, handed_out, content, failures, crashes>>
      /\ outcome' = [outcome EXCEPT ![s.save] = "ok"]
      /\ saver' = [saver EXCEPT ![t] = Sav!Idle]
      /\ kept' = [kept EXCEPT ![e] = s.save]
      /\ directory' = Sav!Named(Sav!Without(directory, s.temporary), <<e>>, directory[s.temporary])
      /\ s.temporary \in DOMAIN directory
    BY DEF Sav!Rename
<1>3. /\ saver'[t] = Sav!Idle
      /\ \A u \in Savers : u # t => saver'[u] = saver[u]
      /\ saver' \in [Savers -> {Sav!Idle} \cup SaveStates]
    BY <1>2 DEF SaveTypes
<1>4. /\ outcome' \in Seq(Outcomes) /\ Len(outcome') = Len(outcome)
      /\ \A i \in 1..Len(outcome) : i # s.save => outcome'[i] = outcome[i]
      /\ outcome'[s.save] = "ok"
    <2>1. outcome \in Seq(Outcomes) /\ "ok" \in Outcomes
        BY DEF SaveTypes, Outcomes
    <2>2. PICK i \in 1..Len(outcome) : i = s.save
        BY <1>1
    <2>3. outcome' = [outcome EXCEPT ![i] = "ok"]
        BY <1>2, <2>2
    <2> QED BY <2>1, <2>2, <2>3, Replaced
<1>5. /\ e \in Sav!Destinations /\ <<e>> \notin Temporaries
      /\ kept'[e] = s.save
      /\ \A d \in Sav!Destinations : d # e => kept'[d] = kept[d]
      /\ kept' \in [Sav!Destinations -> 0..MaxSaves]
    <2>1. e \in Sav!Destinations
        BY DEF Sav!Destination, Sav!Destinations
    <2>2. s.save \in 0..MaxSaves
        <3>1. outcome \in Seq(Outcomes) /\ Len(outcome) <= MaxSaves /\ MaxSaves \in Nat
            BY DEF SaveTypes, Sav!PiecesAssumption
        <3>2. Len(outcome) \in Nat
            BY <3>1
        <3>3. PICK i \in 1..Len(outcome) : i = s.save
            BY <1>1
        <3> QED BY <3>1, <3>2, <3>3
    <2> QED BY <1>2, <2>1, <2>2, NamesDiffer DEF SaveTypes
<1>6. /\ DOMAIN directory' = (DOMAIN directory \ {s.temporary}) \cup {<<e>>}
      /\ directory'[<<e>>] = directory[s.temporary]
      /\ \A n \in DOMAIN directory : n # s.temporary /\ n # <<e>> => directory'[n] = directory[n]
      /\ directory' \in [DOMAIN directory' -> 1..Len(content)]
    BY <1>2 DEF Sav!Named, Sav!Without, Sav!Restrict, SaveTypes
<1>7. SaveTypes'
    BY <1>2, <1>3, <1>4, <1>5, <1>6 DEF SaveTypes
<1>8. SavesApart' /\ OpenFiles' /\ IdsApart'
    <2>1. \A n \in DOMAIN directory : n \in Temporaries /\ n # s.temporary =>
             n \in DOMAIN directory' /\ directory'[n] = directory[n]
        BY <1>5, <1>6
    <2> QED BY <1>1, <1>2, <1>3, <1>4, <2>1, Ends
<1>9. NamesApart'
    <2>1. ASSUME NEW m \in DOMAIN directory', NEW n \in DOMAIN directory', directory'[m] = directory'[n]
          PROVE  m = n
        BY <1>2, <1>6, <2>1 DEF NamesApart
    <2> QED BY <2>1 DEF NamesApart
<1>10. KeptFiles'
    <2> SUFFICES ASSUME NEW d \in Sav!Destinations PROVE KeptFile(d)'
        BY DEF KeptFiles
    <2>1. CASE d = e
        <3>1. content[directory[s.temporary]] = Start(s.save, Pieces)
            BY <1>1 DEF OpenFile
        <3>2. kept'[d] = s.save /\ s.save \in 1..Len(outcome') /\ s.save # 0
            <4>1. PICK i \in 1..Len(outcome) : i = s.save
                BY <1>1
            <4> QED BY <1>4, <1>5, <2>1, <4>1
        <3>3. <<d>> \in DOMAIN directory' /\ content'[directory'[<<d>>]] = Start(s.save, Pieces)
            BY <1>2, <1>6, <2>1, <3>1
        <3> QED BY <1>4, <3>2, <3>3 DEF KeptFile
    <2>2. CASE d # e
        <3>1. <<d>> # s.temporary /\ <<d>> # <<e>> /\ KeptFile(d) /\ kept'[d] = kept[d]
            BY <1>1, <1>5, <2>2, NamesDiffer DEF KeptFiles
        <3>2. kept[d] # 0 => kept[d] # s.save
            BY <1>1, <3>1 DEF KeptFile
        <3> QED BY <1>2, <1>4, <1>6, <3>1, <3>2 DEF KeptFile
    <2> QED BY <2>1, <2>2
<1>11. Removers'
    <2> SUFFICES ASSUME crashes = 0, NEW n \in DOMAIN directory', ~IsDestination(n)
                 PROVE  \E u \in Savers : Removes(u, n)'
        BY <1>2 DEF Removers
    <2>1. n \in DOMAIN directory /\ n # s.temporary
        BY <1>1, <1>5, <1>6 DEF IsDestination
    <2>2. PICK u \in Savers : Removes(u, n)
        BY <2>1 DEF Removers
    <2>3. u # t
        BY <2>1, <2>2 DEF Removes
    <2> QED BY <1>3, <2>2, <2>3 DEF Removes
<1> QED BY <1>7, <1>8, <1>9, <1>10, <1>11
LEMMA BeginInv ==
    ASSUME SavingHypotheses, SaveInv, NEW t \in Savers, NEW format \in Sav!FormatsOf(t),
           Sav!Begin(t, format)
    PROVE  SaveInv'
<1> USE DEF SaveInv, SavingHypotheses
<1> DEFINE p == ProcessOf[t]
           new == IF t \in BaselineSavers THEN Sav!Partial ELSE Sav!TemporaryPath(t)
           n == Len(outcome) + 1
<1>1. /\ ~Active(t) /\ Len(outcome) < MaxSaves /\ outcome' = Append(outcome, "begun")
      /\ saver' = [saver EXCEPT ![t] =
            [at |-> "create", save |-> n, format |-> format, inode |-> 0, done |-> 0,
             buffer |-> 0, temporary |-> new]]
      /\ handed_out' = IF t \in BaselineSavers THEN handed_out
                       ELSE [handed_out EXCEPT ![p] = @ + 1]
      /\ UNCHANGED <<pid, directory, content, kept, failures, crashes>>
    BY DEF Sav!Begin, Sav!files, Active
<1>2. /\ outcome \in Seq(Outcomes) /\ Len(outcome) \in Nat /\ MaxSaves \in Nat
      /\ pid \in [Sav!Processes -> Pids] /\ handed_out \in [Sav!Processes -> Nat]
      /\ saver \in [Savers -> {Sav!Idle} \cup SaveStates]
    <2>1. outcome \in Seq(Outcomes)
        BY DEF SaveTypes
    <2>2. Len(outcome) \in Nat
        BY <2>1
    <2> QED BY <2>1, <2>2 DEF SaveTypes, Sav!PiecesAssumption
<1>3. \A u \in Savers : ProcessOf[u] \in Sav!Processes
    BY DEF Sav!Processes, Sav!Range, Sav!SaversAssumption
<1>4. /\ outcome' \in Seq(Outcomes) /\ Len(outcome') = n /\ outcome'[n] = "begun"
      /\ \A i \in 1..Len(outcome) : outcome'[i] = outcome[i] /\ i \in 1..Len(outcome') /\ i # n
      /\ n \in 1..Len(outcome')
    <2>1. "begun" \in Outcomes
        BY DEF Outcomes
    <2>2. outcome' = Append(outcome, "begun") /\ outcome \in Seq(Outcomes)
        BY <1>1, <1>2
    <2>3. outcome' \in Seq(Outcomes) /\ Len(outcome) \in Nat
        BY <2>1, <2>2
    <2>4. Len(outcome') = n
        BY <2>2
    <2>5. outcome'[n] = "begun"
        BY <2>2
    <2>6. \A i \in 1..Len(outcome) : outcome'[i] = outcome[i]
        BY <2>2
    <2>7. \A i \in 1..Len(outcome) : i \in 1..n /\ i # n
        BY <2>3
    <2>8. n \in 1..n
        BY <2>3
    <2> QED BY <2>3, <2>4, <2>5, <2>6, <2>7, <2>8
<1>5. new \in Temporaries /\ (t \notin BaselineSavers => new = ProfileName(pid[p], handed_out[p]))
    BY <1>2, <1>3 DEF Temporaries, Sav!TemporaryPath, ProfileName
<1>6. /\ saver'[t].at = "create" /\ saver'[t].save = n /\ saver'[t].temporary = new
      /\ saver'[t].done = 0 /\ saver'[t].buffer = 0
      /\ saver'[t] \in SaveStates /\ saver'[t] # Sav!Idle
      /\ \A u \in Savers : u # t => saver'[u] = saver[u]
    <2>1. saver'[t] = [at |-> "create", save |-> n, format |-> format, inode |-> 0, done |-> 0,
                       buffer |-> 0, temporary |-> new]
        BY <1>1, <1>2
    <2>2. format \in Formats \cup {"baseline"}
        BY DEF Sav!FormatsOf
    <2>3. saver'[t] \in SaveStates /\ saver'[t].at = "create"
        BY <1>2, <1>5, <2>1, <2>2 DEF SaveStates
    <2>4. saver'[t] # Sav!Idle
        BY <2>3 DEF Sav!Idle
    <2> QED BY <1>1, <1>2, <2>1, <2>3, <2>4
<1>7. /\ handed_out' \in [Sav!Processes -> Nat]
      /\ \A q \in Sav!Processes : handed_out[q] <= handed_out'[q] /\ handed_out'[q] <= handed_out[q] + 1
      /\ t \notin BaselineSavers => handed_out'[p] = handed_out[p] + 1
    <2>1. handed_out' = IF t \in BaselineSavers THEN handed_out
                        ELSE [handed_out EXCEPT ![p] = handed_out[p] + 1]
        BY <1>1
    <2>2. p \in Sav!Processes /\ handed_out \in [Sav!Processes -> Nat]
        BY <1>2, <1>3
    <2> HIDE DEF p
    <2> QED BY <2>1, <2>2
<1>8. SaveTypes'
    <2>1. saver' \in [Savers -> {Sav!Idle} \cup SaveStates]
        BY <1>1, <1>2, <1>6
    <2>2. Len(outcome') <= MaxSaves
        <3>1. Len(outcome) < MaxSaves /\ Len(outcome) \in Nat /\ MaxSaves \in Nat
            BY <1>1, <1>2
        <3>2. Len(outcome') = Len(outcome) + 1
            BY <1>4
        <3> QED BY <3>1, <3>2
    <2> QED BY <1>1, <1>4, <1>7, <2>1, <2>2 DEF SaveTypes
<1>9. IdsApart'
    <2>1. ASSUME NEW q \in Sav!Processes PROVE handed_out'[q] <= Len(outcome')
        <3>1. Len(outcome') = Len(outcome) + 1 /\ Len(outcome) \in Nat
            BY <1>2, <1>4
        <3>2. handed_out[q] <= Len(outcome)
            BY DEF IdsApart
        <3>3. handed_out[q] \in Nat /\ handed_out'[q] \in Nat /\ handed_out'[q] <= handed_out[q] + 1
            BY <1>2, <1>7
        <3> QED BY <3>1, <3>2, <3>3
    <2>2. \A q, r \in Sav!Processes : pid'[q] = pid'[r] => q = r
        BY <1>1 DEF IdsApart
    <2> QED BY <2>1, <2>2 DEF IdsApart
<1>10. ASSUME NEW u \in Savers, Active(u)
       PROVE  saver[u].temporary # new
    <2>1. CASE u \in BaselineSavers
        <3>1. saver[u].temporary = Sav!Partial
            BY <1>10, <2>1 DEF SavesApart
        <3>2. t \notin BaselineSavers
            BY <1>1, <1>10, <2>1 DEF OneBaseline
        <3>3. pid[p] \in Pids /\ handed_out[p] \in Nat
            BY <1>2, <1>3
        <3>4. new = ProfileName(pid[p], handed_out[p])
            BY <1>5, <3>2
        <3> QED BY <3>1, <3>3, <3>4, NamesDiffer
    <2>2. CASE u \notin BaselineSavers
        <3>1. PICK k \in Nat : /\ k < handed_out[ProcessOf[u]]
                              /\ saver[u].temporary = ProfileName(pid[ProcessOf[u]], k)
            BY <1>10, <2>2 DEF SavesApart
        <3>2. pid[ProcessOf[u]] \in Pids /\ pid[p] \in Pids /\ handed_out[p] \in Nat
            BY <1>2, <1>3
        <3>3. CASE t \in BaselineSavers
            BY <3>1, <3>2, <3>3, NamesDiffer
        <3>4. CASE t \notin BaselineSavers
            <4>1. SUFFICES ASSUME saver[u].temporary = new PROVE FALSE
                OBVIOUS
            <4>2. pid[ProcessOf[u]] = pid[p] /\ k = handed_out[p]
                <5>1. ProfileName(pid[ProcessOf[u]], k) = ProfileName(pid[p], handed_out[p])
                    BY <1>5, <3>1, <3>4, <4>1
                <5> QED BY <3>2, <5>1, NamesDiffer
            <4>3. ProcessOf[u] = p
                BY <1>3, <4>2 DEF IdsApart
            <4> QED BY <3>1, <4>2, <4>3, <3>2
        <3> QED BY <3>3, <3>4
    <2> QED BY <2>1, <2>2
<1>11. SavesApart'
    <2>1. ASSUME NEW u \in Savers, saver'[u] # Sav!Idle
          PROVE  /\ saver'[u].save \in 1..Len(outcome')
                 /\ outcome'[saver'[u].save] = "begun"
                 /\ IF u \in BaselineSavers THEN saver'[u].temporary = Sav!Partial
                    ELSE \E k \in Nat : /\ k < handed_out'[ProcessOf[u]]
                                        /\ saver'[u].temporary = ProfileName(pid'[ProcessOf[u]], k)
        <3>1. CASE u = t
            <4>1. saver'[u].save \in 1..Len(outcome') /\ outcome'[saver'[u].save] = "begun"
                <5>1. saver'[u].save = n /\ n \in 1..Len(outcome')
                    BY <1>4, <1>6, <3>1
                <5> QED BY <1>4, <5>1
            <4>2. handed_out[p] \in Nat
                BY <1>2, <1>3
            <4>3. CASE t \in BaselineSavers
                BY <1>6, <3>1, <4>1, <4>3
            <4>4. CASE t \notin BaselineSavers
                <5>1. saver'[u].temporary = ProfileName(pid'[ProcessOf[u]], handed_out[p])
                    BY <1>1, <1>5, <1>6, <3>1, <4>4
                <5>2. handed_out[p] < handed_out'[ProcessOf[u]]
                    BY <1>7, <3>1, <4>2, <4>4
                <5> QED BY <3>1, <4>1, <4>2, <4>4, <5>1, <5>2
            <4> QED BY <4>3, <4>4
        <3>2. CASE u # t
            <4>1. saver'[u] = saver[u] /\ Active(u)
                BY <1>6, <2>1, <3>2 DEF Active
            <4>2. saver'[u].save \in 1..Len(outcome') /\ outcome'[saver'[u].save] = "begun"
                <5>1. saver[u].save \in 1..Len(outcome) /\ outcome[saver[u].save] = "begun"
                    BY <4>1 DEF SavesApart
                <5>2. PICK i \in 1..Len(outcome) : i = saver[u].save
                    BY <5>1
                <5> QED BY <1>4, <4>1, <5>1, <5>2
            <4>3. CASE u \in BaselineSavers
                BY <4>1, <4>2, <4>3 DEF SavesApart
            <4>4. CASE u \notin BaselineSavers
                <5>1. PICK k \in Nat : /\ k < handed_out[ProcessOf[u]]
                                      /\ saver[u].temporary = ProfileName(pid[ProcessOf[u]], k)
                    BY <4>1, <4>4 DEF SavesApart
                <5>2. k < handed_out'[ProcessOf[u]]
                    BY <1>2, <1>3, <1>7, <5>1
                <5> QED BY <1>1, <4>1, <4>2, <4>4, <5>1, <5>2
            <4> QED BY <4>3, <4>4
        <3> QED BY <3>1, <3>2
    <2>2. ASSUME NEW u \in Savers, NEW v \in Savers, u # v,
                 saver'[u] # Sav!Idle, saver'[v] # Sav!Idle
          PROVE  saver'[u].save # saver'[v].save /\ saver'[u].temporary # saver'[v].temporary
        <3>1. ASSUME NEW w \in Savers, w # t, saver'[w] # Sav!Idle
              PROVE  saver'[w] = saver[w] /\ Active(w) /\ saver[w].save # n /\ saver[w].temporary # new
            <4>1. saver'[w] = saver[w] /\ Active(w)
                BY <1>6, <3>1 DEF Active
            <4>2. saver[w].save \in 1..Len(outcome)
                BY <4>1 DEF SavesApart
            <4> QED BY <1>2, <1>10, <4>1, <4>2
        <3>2. CASE u = t
            BY <1>6, <2>2, <3>1, <3>2
        <3>3. CASE v = t
            BY <1>6, <2>2, <3>1, <3>3
        <3>4. CASE u # t /\ v # t
            <4>1. saver[u].save # saver[v].save /\ saver[u].temporary # saver[v].temporary
                BY <2>2, <3>1, <3>4 DEF SavesApart
            <4> QED BY <2>2, <3>1, <3>4, <4>1
        <3> QED BY <3>2, <3>3, <3>4
    <2> QED BY <2>1, <2>2 DEF SavesApart, Active
<1>12. NamesApart'
    BY <1>1 DEF NamesApart
<1>13. OpenFiles'
    <2>1. OpenFile(t)'
        BY <1>6 DEF OpenFile
    <2>2. ASSUME NEW u \in Savers, u # t, saver'[u] # Sav!Idle PROVE OpenFile(u)'
        BY <1>1, <1>6, <2>2 DEF OpenFiles, OpenFile, Active
    <2> QED BY <2>1, <2>2 DEF OpenFiles, Active
<1>14. KeptFiles'
    <2> SUFFICES ASSUME NEW d \in Sav!Destinations PROVE KeptFile(d)'
        BY DEF KeptFiles
    <2>1. KeptFile(d)
        BY DEF KeptFiles
    <2>2. CASE kept[d] = 0
        BY <1>1, <2>1, <2>2 DEF KeptFile
    <2>3. CASE kept[d] # 0
        <3>1. PICK i \in 1..Len(outcome) : i = kept[d]
            BY <2>1, <2>3 DEF KeptFile
        <3>2. i \in 1..Len(outcome') /\ outcome'[i] = outcome[i]
            BY <1>4
        <3> QED BY <1>1, <2>1, <2>3, <3>1, <3>2 DEF KeptFile
    <2> QED BY <2>2, <2>3
<1>15. Removers'
    <2>1. ASSUME NEW m, NEW u \in Savers, Removes(u, m) PROVE Removes(u, m)'
        BY <1>1, <1>6, <2>1 DEF Removes, Active
    <2> QED BY <1>1, <2>1 DEF Removers
<1> QED BY <1>8, <1>9, <1>11, <1>12, <1>13, <1>14, <1>15

LEMMA CrashInv ==
    ASSUME SavingHypotheses, SaveInv, NEW p \in Sav!Processes, Sav!Crash(p) PROVE SaveInv'
<1> USE DEF SaveInv, SavingHypotheses
<1> DEFINE Dead(u) == ProcessOf[u] = p
           Lost(s) == \E u \in Savers : Dead(u) /\ saver[u] # Sav!Idle /\ saver[u].save = s
<1>1. /\ crashes < MaxCrashes /\ crashes' = crashes + 1
      /\ handed_out' = [handed_out EXCEPT ![p] = 0]
      /\ outcome' = [s \in DOMAIN outcome |-> IF Lost(s) THEN "crashed" ELSE outcome[s]]
      /\ saver' = [u \in Savers |-> IF Dead(u) THEN Sav!Idle ELSE saver[u]]
      /\ UNCHANGED <<directory, content, kept, failures>>
    BY DEF Sav!Crash, Sav!files
<1>2. PICK new \in Pids \ {pid[q] : q \in Sav!Processes \ {p}} : pid' = [pid EXCEPT ![p] = new]
    BY DEF Sav!Crash
<1>3. /\ outcome \in Seq(Outcomes) /\ Len(outcome) \in Nat /\ DOMAIN outcome = 1..Len(outcome)
      /\ pid \in [Sav!Processes -> Pids] /\ handed_out \in [Sav!Processes -> Nat]
      /\ saver \in [Savers -> {Sav!Idle} \cup SaveStates]
    <2>1. outcome \in Seq(Outcomes)
        BY DEF SaveTypes
    <2> QED BY <2>1 DEF SaveTypes
<1>4. /\ outcome' \in Seq(Outcomes) /\ Len(outcome') = Len(outcome)
      /\ \A s \in 1..Len(outcome) : outcome'[s] = IF Lost(s) THEN "crashed" ELSE outcome[s]
    <2>1. outcome' \in [1..Len(outcome) -> Outcomes]
        <3>1. \A i \in 1..Len(outcome) : outcome[i] \in Outcomes
            BY <1>3
        <3> HIDE DEF Lost
        <3>2. "crashed" \in Outcomes
            BY DEF Outcomes
        <3> QED BY <1>1, <1>3, <3>1, <3>2
    <2> QED BY <1>1, <1>3, <2>1
<1>5. /\ handed_out' \in [Sav!Processes -> Nat] /\ handed_out'[p] = 0
      /\ \A q \in Sav!Processes : q # p => handed_out'[q] = handed_out[q]
      /\ pid' \in [Sav!Processes -> Pids] /\ pid'[p] = new
      /\ \A q \in Sav!Processes : q # p => pid'[q] = pid[q] /\ pid[q] # new
    BY <1>1, <1>2, <1>3
<1>6. \A u \in Savers : /\ ~Dead(u) => saver'[u] = saver[u]
                        /\ Dead(u) => saver'[u] = Sav!Idle
    BY <1>1
<1>7. SaveTypes'
    <2>1. saver' \in [Savers -> {Sav!Idle} \cup SaveStates]
        BY <1>1, <1>3
    <2>2. crashes' \in 0..MaxCrashes
        BY <1>1 DEF SaveTypes, Sav!PiecesAssumption
    <2> QED BY <1>1, <1>4, <1>5, <2>1, <2>2 DEF SaveTypes
<1>8. IdsApart'
    <2>1. ASSUME NEW q \in Sav!Processes, NEW r \in Sav!Processes, pid'[q] = pid'[r] PROVE q = r
        BY <1>5, <2>1 DEF IdsApart
    <2>2. ASSUME NEW q \in Sav!Processes PROVE handed_out'[q] <= Len(outcome')
        <3>1. Len(outcome') = Len(outcome) /\ Len(outcome) \in Nat
            BY <1>3, <1>4
        <3>2. CASE q = p
            BY <1>5, <3>1, <3>2
        <3>3. CASE q # p
            BY <1>5, <3>1, <3>3 DEF IdsApart
        <3> QED BY <3>2, <3>3
    <2> QED BY <2>1, <2>2 DEF IdsApart
<1>9. ASSUME NEW u \in Savers, saver'[u] # Sav!Idle
      PROVE  /\ ~Dead(u) /\ saver'[u] = saver[u] /\ Active(u)
             /\ saver[u].save \in 1..Len(outcome) /\ outcome'[saver[u].save] = "begun"
    <2>1. ~Dead(u) /\ saver'[u] = saver[u] /\ Active(u)
        BY <1>6, <1>9 DEF Active
    <2>2. saver[u].save \in 1..Len(outcome) /\ outcome[saver[u].save] = "begun"
        BY <2>1 DEF SavesApart
    <2>3. ~Lost(saver[u].save)
        BY <2>1 DEF SavesApart, Active
    <2> QED BY <1>4, <2>1, <2>2, <2>3
<1>10. SavesApart'
    <2>1. ASSUME NEW u \in Savers, saver'[u] # Sav!Idle
          PROVE  IF u \in BaselineSavers THEN saver'[u].temporary = Sav!Partial
                 ELSE \E k \in Nat : /\ k < handed_out'[ProcessOf[u]]
                                     /\ saver'[u].temporary = ProfileName(pid'[ProcessOf[u]], k)
        <3>1. ProcessOf[u] \in Sav!Processes /\ ProcessOf[u] # p
            BY <1>9, <2>1 DEF Sav!Processes, Sav!Range, Sav!SaversAssumption
        <3>2. handed_out'[ProcessOf[u]] = handed_out[ProcessOf[u]] /\ pid'[ProcessOf[u]] = pid[ProcessOf[u]]
            BY <1>5, <3>1
        <3>3. saver'[u] = saver[u] /\ Active(u)
            BY <1>9, <2>1
        <3> QED BY <3>2, <3>3 DEF SavesApart
    <2>2. ASSUME NEW u \in Savers, NEW v \in Savers, u # v,
                 saver'[u] # Sav!Idle, saver'[v] # Sav!Idle
          PROVE  saver'[u].save # saver'[v].save /\ saver'[u].temporary # saver'[v].temporary
        <3>1. saver[u].save # saver[v].save /\ saver[u].temporary # saver[v].temporary
            BY <1>9, <2>2 DEF SavesApart
        <3> QED BY <1>9, <2>2, <3>1
    <2> QED BY <1>4, <1>9, <2>1, <2>2 DEF SavesApart, Active
<1>11. NamesApart'
    BY <1>1 DEF NamesApart
<1>12. OpenFiles'
    <2>1. ASSUME NEW u \in Savers, saver'[u] # Sav!Idle PROVE OpenFile(u)'
        BY <1>1, <1>9, <2>1 DEF OpenFiles, OpenFile
    <2> QED BY <2>1 DEF OpenFiles, Active
<1>13. KeptFiles'
    <2> SUFFICES ASSUME NEW d \in Sav!Destinations PROVE KeptFile(d)'
        BY DEF KeptFiles
    <2>1. KeptFile(d)
        BY DEF KeptFiles
    <2>2. CASE kept[d] = 0
        BY <1>1, <2>1, <2>2 DEF KeptFile
    <2>3. CASE kept[d] # 0
        <3>1. ~Lost(kept[d])
            BY <2>1, <2>3 DEF KeptFile, SavesApart, Active
        <3> QED BY <1>1, <1>4, <2>1, <2>3, <3>1 DEF KeptFile
    <2> QED BY <2>2, <2>3
<1>14. Removers'
    BY <1>1 DEF Removers, SaveTypes
<1> QED BY <1>7, <1>8, <1>10, <1>11, <1>12, <1>13, <1>14

LEMMA SaveNextInv == SavingHypotheses /\ SaveInv /\ [Sav!Next]_Sav!vars => SaveInv'
<1> SUFFICES ASSUME SavingHypotheses, SaveInv, [Sav!Next]_Sav!vars PROVE SaveInv'
    OBVIOUS
<1>1. CASE Sav!Next
    BY <1>1, BeginInv, CreateInv, EmitInv, FlushInv, RenameInv, FailInv, CleanUpInv, CrashInv
       DEF Sav!Next
<1>2. CASE UNCHANGED Sav!vars
    <2>1. SaveTypes' /\ IdsApart' /\ NamesApart'
        BY <1>2 DEF Sav!vars, SaveInv, SaveTypes, IdsApart, NamesApart
    <2>2. SavesApart' /\ OpenFiles' /\ KeptFiles' /\ Removers'
        BY <1>2 DEF Sav!vars, SaveInv, SavesApart, OpenFiles, OpenFile, KeptFiles, KeptFile,
                    Removers, Removes, Active
    <2> QED BY <2>1, <2>2 DEF SaveInv
<1> QED BY <1>1, <1>2

LEMMA SaveInvImplies == SavingHypotheses /\ SaveInv => Sav!SavesAreWhole
<1> SUFFICES ASSUME SavingHypotheses, SaveInv PROVE Sav!SavesAreWhole
    OBVIOUS
<1> USE DEF SaveInv, SavingHypotheses
<1>1. /\ outcome \in Seq(Outcomes) /\ Len(outcome) \in Nat /\ Len(outcome) <= MaxSaves
      /\ MaxSaves \in Nat
      /\ content \in Seq(Files) /\ DOMAIN content = 1..Len(content)
    <2>1. outcome \in Seq(Outcomes) /\ content \in Seq(Files)
        BY DEF SaveTypes
    <2> QED BY <2>1 DEF SaveTypes, Sav!PiecesAssumption
<1>2. Sav!TypeOK
    <2>1. Sav!Range(outcome) \subseteq Outcomes
        BY <1>1 DEF Sav!Range
    <2>2. \A q \in Sav!Processes : handed_out[q] \in 0..MaxSaves
        BY <1>1 DEF SaveTypes, IdsApart
    <2>3. \A n \in DOMAIN directory : directory[n] \in DOMAIN content
        BY <1>1 DEF SaveTypes
    <2>4. failures \in 0..MaxFailures /\ crashes \in 0..MaxCrashes
        BY DEF SaveTypes
    <2> QED BY <2>1, <2>2, <2>3, <2>4 DEF Sav!TypeOK, Outcomes
<1>3. \A s : Sav!Whole(s) = Start(s, Pieces)
    BY DEF Sav!Whole, Start
<1>4. Sav!DestinationIsWhole /\ Sav!AnswersAreTrue
    <2> SUFFICES ASSUME NEW d \in Sav!Destinations, kept[d] # 0
                 PROVE  /\ kept[d] \in Sav!SaveIds /\ <<d>> \in DOMAIN directory
                        /\ outcome[kept[d]] = "ok" /\ Sav!FileAt(d) = Sav!Whole(kept[d])
        BY DEF Sav!DestinationIsWhole, Sav!AnswersAreTrue, KeptFiles, KeptFile
    <2>1. KeptFile(d)
        BY DEF KeptFiles
    <2> QED BY <1>1, <1>3, <2>1 DEF KeptFile, Sav!SaveIds, Sav!FileAt
<1>5. Sav!NothingLeftBehind
    BY DEF Sav!NothingLeftBehind, Removers, Removes, IsDestination
<1> QED BY <1>2, <1>4, <1>5 DEF Sav!SavesAreWhole

(***************************************************************************)
(* A save replaces its destination with the whole of its own file or       *)
(* leaves it alone: through refused calls, crashes, restarts under another *)
(* process's old id and saves beside it, whatever is at a destination is   *)
(* one save's whole file, a save that answers ok put its own there, and    *)
(* only a crash leaves a temporary behind (Snapshot::save_with,            *)
(* Baseline::save).                                                        *)
(***************************************************************************)
THEOREM SavesWhole ==
    ASSUME SavingHypotheses PROVE Sav!Spec => []Sav!SavesAreWhole
<1>1. SavingHypotheses /\ Sav!Init => SaveInv
    BY SaveInitInv
<1>2. SavingHypotheses /\ SaveInv /\ [Sav!Next]_Sav!vars => SaveInv'
    BY SaveNextInv
<1>3. SavingHypotheses /\ SaveInv => Sav!SavesAreWhole
    BY SaveInvImplies
<1> QED BY <1>1, <1>2, <1>3, PTL DEF Sav!Spec


-----------------------------------------------------------------------------
(* PpIntern: the inductive invariant *)

AWord      == [chunk : Nat, at : Nat, size : Nat]
Chunk      == [phase : Nat, size : Nat]
ArenaState == [chunks : Seq(Chunk), cursor : Nat, end : Nat, next_chunk : Nat,
               bytes_reserved : Nat, bytes_used : Nat, refused : Nat, limit : Nat,
               poisoned : BOOLEAN]

LastChunk(a) == a.chunks[Len(a.chunks)]
HandedOut(a) == a.bytes_used + (a.end - a.cursor) <= a.bytes_reserved - HEADER * Len(a.chunks)
InLast(a) ==
    /\ a.cursor <= a.end
    /\ a.chunks # <<>> =>
        /\ LastChunk(a).phase + HEADER <= a.cursor
        /\ a.end = LastChunk(a).phase + LastChunk(a).size

\* The arena, which is never poisoned, has room for what it says.
ArenaOk(a) ==
    /\ a \in ArenaState
    /\ ~a.poisoned
    /\ a.bytes_reserved = SumFunction([i \in DOMAIN a.chunks |-> a.chunks[i].size])
    /\ a.bytes_reserved <= a.limit
    /\ HandedOut(a)
    /\ InLast(a)

\* A block that was handed out.
Placed(a, b) ==
    /\ b.chunk \in DOMAIN a.chunks
    /\ Inside(a, b)
    /\ b.chunk = Len(a.chunks) => b.at + b.size <= a.cursor

APoint   == [stack : Stacks, block : AWord, sequence : Nat]
AVec     == [elements : Seq(APoint), capacity : Nat, max_capacity : {MaxRecords},
             wasted : Nat, block : AWord]
AnAnswer == [stack : Stacks, id : 0..OVERFLOW, before : Nat]
ACall    == {Idle}
              \cup [at : {"lookup", "frames"}, stack : Stacks, before : Nat]
              \cup [at : {"number"}, stack : Stacks, before : Nat, block : AWord]
              \cup [at : {"push"}, stack : Stacks, before : Nat, block : AWord, sequence : Nat]
              \cup [at : {"insert"}, stack : Stacks, before : Nat, index : Nat \ {0}]

\* Inside the lock, and with a number taken.
InTable(t)  == call[t].at \in {"frames", "number", "push", "insert"}
Unlinked(t) == call[t].at \in {"number", "push"}
Numbered    == {t \in Callers : call[t].at \in {"push", "insert"}}
ShardOfCall(t) == ShardOf(call[t].stack)

StateTypes ==
    /\ hash \in [Stacks -> Keys] /\ frames \in [Stacks -> FrameWords]
    /\ sequence \in Nat /\ leaked \in Nat
    /\ call \in [Callers -> ACall]
    /\ answers \in Seq(AnAnswer)
    /\ records \in [ShardIds -> AVec]

CallsBounded ==
    /\ Len(answers) + Cardinality(Busy) <= MaxInterns
    /\ sequence <= Len(answers) + Cardinality(Numbered)
    /\ \A t \in Busy : call[t].before <= Len(answers)
    /\ \A t \in Callers : Unlinked(t) => call[t].block.size = frames[call[t].stack]

\* A vector has elements from its first block on, and a map is at most half full.
VecOk(vec) ==
    /\ vec \in AVec
    /\ Len(vec.elements) <= vec.capacity /\ vec.capacity <= MaxRecords
    /\ vec.elements = <<>> => vec.capacity = 0

MapOk(map) ==
    /\ map = [index |-> map.index, slots |-> map.slots, wasted |-> map.wasted]
    /\ map.slots \in 0..MaxSlots /\ map.slots % 2 = 0
    /\ map.wasted \in Nat
    /\ DOMAIN map.index \subseteq Keys
    /\ IsFiniteSet(DOMAIN map.index)
    /\ 2 * Cardinality(DOMAIN map.index) <= map.slots

ShardsOk ==
    /\ \A i \in ShardIds : /\ VecOk(records[i])
                           /\ \A n \in DOMAIN Points(i) : ShardOf(Points(i)[n].stack) = i
    /\ intern = [i \in ShardIds |-> intern[i]]
    /\ \A i \in ShardIds : MapOk(intern[i])

\* A key leads to a record of its own, whose id was answered.
KeysLead ==
    \A i \in ShardIds : \A k \in DOMAIN intern[i].index :
        /\ intern[i].index[k] \in DOMAIN Points(i)
        /\ hash[Points(i)[intern[i].index[k]].stack] = k
        /\ HasId(i, intern[i].index[k])
        /\ \E n \in DOMAIN answers : answers[n].id = PpId(i, intern[i].index[k])

\* The lock: one thread in a shard, and its stack is not there.
OneInShard ==
    /\ \A t, u \in Callers : InTable(t) /\ InTable(u) /\ ShardOfCall(t) = ShardOfCall(u) => t = u
    /\ \A t \in Callers : InTable(t) => ~Found(call[t].stack)

\* A record was pushed, and has no key yet.
InsertsItsOwn ==
    \A t \in Callers : call[t].at = "insert" =>
        /\ call[t].index \in DOMAIN Points(ShardOfCall(t))
        /\ Points(ShardOfCall(t))[call[t].index].stack = call[t].stack
        /\ HasId(ShardOfCall(t), call[t].index)

\* The record an id was given for.
Leads(n, i, m) ==
    /\ m \in DOMAIN Points(i) /\ HasId(i, m)
    /\ answers[n].id = PpId(i, m)
    /\ Points(i)[m].stack = answers[n].stack

AnswersHaveRecords ==
    \A n \in DOMAIN answers :
        /\ answers[n].id # OVERFLOW => \E i \in ShardIds, m \in Nat \ {0} : Leads(n, i, m)
        /\ answers[n].before < n

\* Why a stack may have another record than this one.
HasKey(i, m)   == /\ hash[Points(i)[m].stack] \in DOMAIN intern[i].index
                  /\ intern[i].index[hash[Points(i)[m].stack]] = m
Inserting(i, m) == \E t \in Callers : /\ call[t].at = "insert" /\ ShardOfCall(t) = i
                                      /\ call[t].index = m
SharesHash(s)  == \E r \in Stacks \ {s} : hash[r] = hash[s]
WasRefused(s)  == \E n \in DOMAIN answers : answers[n].id = OVERFLOW /\ answers[n].stack = s
KeptOrExcused ==
    \A i \in ShardIds : \A m \in DOMAIN Points(i) :
        \/ HasKey(i, m) \/ Inserting(i, m)
        \/ SharesHash(Points(i)[m].stack) \/ WasRefused(Points(i)[m].stack)

\* The sequence numbers: below the next, apart, and in order in a shard.
NumbersApart ==
    /\ \A i, j \in ShardIds : \A m \in DOMAIN Points(i), n \in DOMAIN Points(j) :
        Points(i)[m].sequence = Points(j)[n].sequence => i = j /\ m = n
    /\ \A i \in ShardIds : \A m \in DOMAIN Points(i) : Points(i)[m].sequence < sequence
    /\ \A i \in ShardIds : \A m, n \in DOMAIN Points(i) :
        m < n => Points(i)[m].sequence < Points(i)[n].sequence
    /\ \A t \in Callers : call[t].at = "push" =>
        /\ call[t].sequence < sequence
        /\ \A i \in ShardIds : \A m \in DOMAIN Points(i) : Points(i)[m].sequence # call[t].sequence
        /\ \A m \in DOMAIN Points(ShardOfCall(t)) :
               Points(ShardOfCall(t))[m].sequence < call[t].sequence
    /\ \A t, u \in Callers :
        /\ call[t].at = "push" /\ call[u].at = "push" /\ call[t].sequence = call[u].sequence
        => t = u

\* The answers up to `before` are of points older than the one made now.
OlderAnswers(before, number) ==
    \A m \in 1..before : answers[m].id # OVERFLOW => RecordAt(answers[m].id).sequence < number

NumbersInOrder ==
    /\ \A t \in Callers :
        /\ call[t].at = "push" => OlderAnswers(call[t].before, call[t].sequence)
        /\ call[t].at = "insert" =>
            OlderAnswers(call[t].before, Points(ShardOfCall(t))[call[t].index].sequence)
    /\ \A n \in DOMAIN answers :
        /\ answers[n].id # OVERFLOW
        /\ \A i \in 1..n - 1 : answers[i].id # answers[n].id
        => OlderAnswers(answers[n].before, RecordAt(answers[n].id).sequence)

BlocksApart ==
    \A b \in Blocks : b \in AWord /\ Placed(arena, b) /\ \A c \in Blocks \ {b} : Apart(b, c)

BooksAgree == arena.bytes_used = TableBytes + Wasted + UnderWay + leaked

PointsInv ==
    /\ StateTypes /\ CallsBounded /\ ShardsOk /\ KeysLead /\ OneInShard
    /\ InsertsItsOwn /\ AnswersHaveRecords /\ KeptOrExcused /\ NumbersApart /\ NumbersInOrder
    /\ ArenaOk(arena) /\ BlocksApart /\ BooksAgree

-----------------------------------------------------------------------------
(* Ids and the arena *)

LEMMA InternConstants ==
    /\ IsFiniteSet(Callers) /\ Keys \subseteq Nat
    /\ SHARDS \in Nat /\ SHARDS >= 1 /\ FIRST_CAPACITY \in Nat /\ FIRST_CAPACITY >= 1
    /\ MAX_POINTS \in Nat /\ OVERFLOW \in Nat /\ MaxInterns \in Nat
    /\ Limits \subseteq Nat /\ FrameWords \subseteq Nat
BY TableAssumption

LEMMA ArenaConstants ==
    /\ CHUNK_ALIGN \in Nat /\ CHUNK_ALIGN >= 1 /\ FIRST_CHUNK \in Nat /\ FIRST_CHUNK >= 1
    /\ MAX_CHUNK \in Nat /\ MAX_CHUNK >= 1 /\ MaxAlign \in Nat /\ MaxAlign >= 1
    /\ HEADER \in Nat
BY ArenaAssumption

LEMMA CeilingTypes == MaxRecords \in Nat /\ MaxSlots \in Nat /\ MaxSlots = 4 * MaxRecords
<1>1. \A m \in Nat, s \in Nat \ {0} : m \div s \in Nat
    BY SMT
<1>2. MAX_POINTS \div SHARDS \in Nat
    BY <1>1, InternConstants
<1> QED
    BY <1>2 DEF MaxRecords, MaxSlots

\* The number of an id in its shard, and the shard.
LEMMA PlaceOfId ==
    ASSUME NEW i \in ShardIds, NEW m \in Nat \ {0}
    PROVE  /\ PpId(i, m) \in Nat
           /\ PpId(i, m) % SHARDS = i /\ PpId(i, m) \div SHARDS = m - 1
<1> DEFINE n == SHARDS  x == PpId(i, m)  q == x \div n  b == x % n  p == m - 1
<1>0. n \in Nat /\ n >= 1 /\ i \in 0..(n - 1) /\ p \in Nat /\ p + 1 = m
    BY InternConstants DEF ShardIds
<1>1. x = (n * p) + i /\ x \in Nat
    <2>1. x = i + p * n
        BY DEF PpId
    <2>2. p * n = n * p /\ n * p \in Nat
        BY <1>0
    <2> QED
        BY <2>1, <2>2, <1>0
<1> HIDE DEF x, p
<1>2. x = (n * q) + b /\ q \in Int /\ b \in 0..(n - 1)
    BY <1>0, <1>1, SMT
<1> HIDE DEF n, q, b
<1>3. n * (p - q) = b - i
    BY <1>0, <1>1, <1>2
<1>4. ASSUME q > p PROVE FALSE
    <2>1. n * (q - p) >= n
        BY <1>0, <1>2, <1>4
    <2>2. n * (q - p) = i - b
        BY <1>0, <1>1, <1>2
    <2> QED
        BY <2>1, <2>2, <1>0, <1>2
<1>5. ASSUME q < p PROVE FALSE
    <2>1. n * (p - q) >= n
        BY <1>0, <1>2, <1>5
    <2> QED
        BY <2>1, <1>0, <1>2, <1>3
<1>6. q = p
    BY <1>0, <1>2, <1>4, <1>5
<1>7. b = i
    BY <1>0, <1>1, <1>2, <1>6
<1> QED
    BY <1>0, <1>1, <1>6, <1>7 DEF n, q, b, x, p

\* An id leads to the record it was made for, and to no other.
LEMMA RecordOfId ==
    ASSUME NEW i \in ShardIds, NEW m \in Nat \ {0}
    PROVE  RecordAt(PpId(i, m)) = Points(i)[m]
<1>1. PpId(i, m) % SHARDS = i /\ PpId(i, m) \div SHARDS + 1 = m
    BY PlaceOfId
<1> QED
    BY <1>1 DEF RecordAt, Points

LEMMA RoundsUp ==
    ASSUME NEW x \in Nat, NEW n \in Nat, n >= 1
    PROVE  RoundUp(x, n) \in Nat /\ RoundUp(x, n) >= x
<1> DEFINE y == x + n - 1  q == y \div n  b == y % n
<1>1. y = (n * q) + b /\ q \in Int /\ b \in 0..(n - 1)
    BY SMT
<1>2. RoundUp(x, n) = q * n
    BY DEF RoundUp
<1>3. y \in Nat /\ y = x + n - 1
    OBVIOUS
<1> HIDE DEF y, q, b
<1>4. q * n = n * q /\ n * q = y - b
    BY <1>1, <1>3
<1> QED
    BY <1>1, <1>2, <1>3, <1>4

LEMMA RoundsToOne ==
    ASSUME NEW x \in Nat
    PROVE  RoundUp(x, 1) = x
BY SMT DEF RoundUp

\* A sum with one more.
LEMMA SumOfOneMore ==
    ASSUME NEW S, NEW x, NEW f, NEW g, IsFiniteSet(S), x \notin S, f \in [S -> Int],
           g \in [S \cup {x} -> Int], \A y \in S : g[y] = f[y]
    PROVE  /\ SumFunction(f) \in Int /\ SumFunction(g) \in Int
           /\ SumFunction(g) = SumFunction(f) + g[x]
<1> DEFINE T == S \cup {x}
<1>1. IsFiniteSet(T) /\ T \ {x} = S /\ x \in T
    BY FS_AddElement
<1>2. SumFunctionOnSet(g, T) = g[x] + SumFunctionOnSet(g, T \ {x})
    BY <1>1, SumTakes
<1>3. SumFunctionOnSet(g, S) = SumFunctionOnSet(f, S)
    BY SumSame
<1>4. SumFunction(f) \in Int /\ SumFunction(g) \in Int
    BY <1>1, SumIsInt
<1>5. SumFunction(f) = SumFunctionOnSet(f, S) /\ SumFunction(g) = SumFunctionOnSet(g, T)
    BY DEF SumFunction
<1>6. g[x] \in Int
    OBVIOUS
<1> HIDE DEF T
<1>7. SumFunctionOnSet(g, T \ {x}) = SumFunction(f)
    BY <1>1, <1>3, <1>5, Zenon
<1>8. SumFunction(g) = g[x] + SumFunction(f)
    BY <1>2, <1>5, <1>7, Zenon
<1> QED
    BY <1>4, <1>6, <1>8

\* What an allocation of unaligned words answers.
Grants1(a, size, r) ==
    /\ ArenaOk(r.arena)
    /\ r.arena.limit = a.limit
    /\ r.ok \in BOOLEAN
    /\ r.block \in AWord
    /\ r.block.size = IF r.ok THEN size ELSE 0
    /\ r.arena.bytes_used = a.bytes_used + (IF r.ok THEN size ELSE 0)
    /\ \A b \in AWord : Placed(a, b) => Placed(r.arena, b)
    /\ r.block.size # 0 =>
        /\ Placed(r.arena, r.block)
        /\ \A b \in AWord : Placed(a, b) => Apart(b, r.block) /\ Apart(r.block, b)

Scalars(a) ==
    /\ a.cursor \in Nat /\ a.end \in Nat /\ a.next_chunk \in Nat
    /\ a.bytes_reserved \in Nat /\ a.bytes_used \in Nat /\ a.refused \in Nat
    /\ a.limit \in Nat /\ a.poisoned \in BOOLEAN
Chunks(a) ==
    /\ a.chunks \in Seq(Chunk) /\ Len(a.chunks) \in Nat /\ DOMAIN a.chunks = 1..Len(a.chunks)
    /\ \A i \in 1..Len(a.chunks) : /\ a.chunks[i] \in Chunk
                                   /\ a.chunks[i].phase \in Nat /\ a.chunks[i].size \in Nat
    /\ a.chunks # <<>> => Len(a.chunks) \in 1..Len(a.chunks)

LEMMA ArenaTypes ==
    ASSUME NEW a, a \in ArenaState
    PROVE  Scalars(a) /\ Chunks(a) /\ HEADER * Len(a.chunks) \in Nat
<1>1. a.chunks \in Seq(Chunk)
    BY DEF ArenaState
<1>2. Len(a.chunks) \in Nat /\ DOMAIN a.chunks = 1..Len(a.chunks)
    BY <1>1, LenProperties
<1>3. \A x \in Nat, y \in Nat : x * y \in Nat
    BY SMT
<1>4. HEADER * Len(a.chunks) \in Nat
    BY <1>2, <1>3, ArenaConstants
<1>5. \A i \in 1..Len(a.chunks) : a.chunks[i] \in Chunk
    BY <1>1, <1>2
<1>6. a.chunks # <<>> => Len(a.chunks) \in 1..Len(a.chunks)
    BY <1>1, <1>2, EmptySeq
<1> QED
    BY <1>1, <1>2, <1>4, <1>5, <1>6 DEF ArenaState, Chunk, Scalars, Chunks

\* A block in the last chunk, after all others in it.
LEMMA BumpGrants ==
    ASSUME NEW a, ArenaOk(a), NEW size \in Nat, size # 0, Fits(a, Layout(size, 1)),
           NEW r, r = Grants(a, Layout(size, 1))
    PROVE  r.ok /\ Grants1(a, size, r)
<1> DEFINE l == Layout(size, 1)  n == Len(a.chunks)  c == a.chunks[n]
<1>1. a \in ArenaState /\ l.size = size /\ l.align = 1
    BY DEF ArenaOk, Layout
<1>t. Scalars(a) /\ Chunks(a) /\ HEADER * Len(a.chunks) \in Nat
    BY <1>1, ArenaTypes
<1>2. Aligned(a, l) = a.cursor
    BY <1>1, RoundsToOne, <1>t DEF Aligned, Scalars
<1>3. a.chunks # <<>> /\ a.cursor + size <= a.end
    BY <1>1, <1>2 DEF Fits
<1>4. /\ r.ok = TRUE
      /\ r.block = [chunk |-> n, at |-> a.cursor, size |-> size]
      /\ r.arena = Bumped(a, l)
    BY <1>1, <1>2 DEF Grants, Block
<1>u. /\ a.cursor \in Nat /\ a.end \in Nat /\ a.bytes_used \in Nat /\ a.bytes_reserved \in Nat
      /\ HEADER \in Nat
    BY <1>t, ArenaConstants DEF Scalars
<1> HIDE DEF l
<1>5. /\ r.arena \in ArenaState
      /\ r.arena.cursor = a.cursor + size
      /\ r.arena.bytes_used = a.bytes_used + size
      /\ r.arena.chunks = a.chunks /\ r.arena.end = a.end
      /\ r.arena.bytes_reserved = a.bytes_reserved
      /\ r.arena.limit = a.limit /\ r.arena.poisoned = a.poisoned
    <2>1. r.arena = [a EXCEPT !.cursor = a.cursor + size,
                              !.bytes_used = @ + (a.cursor - a.cursor) + size]
        BY <1>1, <1>2, <1>4 DEF Bumped
    <2>2. a.bytes_used + (a.cursor - a.cursor) + size = a.bytes_used + size
        BY <1>u
    <2>3. r.arena = [a EXCEPT !.cursor = a.cursor + size, !.bytes_used = a.bytes_used + size]
        BY <2>1, <2>2
    <2>4. a.cursor + size \in Nat /\ a.bytes_used + size \in Nat
        BY <1>u
    <2> QED
        BY <1>1, <2>3, <2>4 DEF ArenaState
<1>6. n \in Nat /\ n \in DOMAIN a.chunks /\ c.phase \in Nat /\ c.size \in Nat
    BY <1>1, <1>3, <1>t DEF Scalars, Chunks
<1>7. c.phase + HEADER <= a.cursor /\ a.end = c.phase + c.size
    BY <1>3 DEF ArenaOk, InLast, LastChunk
<1> DEFINE h == HEADER * n
<1>8. h \in Nat /\ a.bytes_used + (a.end - a.cursor) <= a.bytes_reserved - h
    BY <1>t DEF ArenaOk, HandedOut
<1>9. Len(r.arena.chunks) = n /\ r.arena.chunks # <<>> /\ LastChunk(r.arena) = c
    BY <1>3, <1>5, Zenon DEF LastChunk
<1>10. r.block \in AWord /\ r.block.size = size /\ r.block.at = a.cursor /\ r.block.chunk = n
    BY <1>1, <1>4, <1>6, <1>u DEF AWord
<1> HIDE DEF h
<1>11. HandedOut(r.arena)
    <2>1. (a.bytes_used + size) + (a.end - (a.cursor + size)) <= a.bytes_reserved - h
        BY <1>8, <1>u
    <2> QED
        BY <2>1, <1>5, Zenon DEF HandedOut, h
<1>12. InLast(r.arena)
    <2>1. a.cursor + size <= a.end /\ c.phase + HEADER <= a.cursor + size
        <3>1. a.cursor + size <= a.end /\ c.phase \in Nat
            BY <1>3, <1>6, Zenon
        <3> HIDE DEF n, c
        <3> QED
            BY <3>1, <1>7, <1>u
    <2>2. r.arena.cursor <= r.arena.end
        BY <2>1, <1>5, Zenon
    <2>3. LastChunk(r.arena).phase + HEADER <= r.arena.cursor
        BY <2>1, <1>5, <1>9, Zenon
    <2>4. r.arena.end = LastChunk(r.arena).phase + LastChunk(r.arena).size
        BY <1>5, <1>7, <1>9, Zenon
    <2> QED
        BY <2>2, <2>3, <2>4 DEF InLast
<1>13. ArenaOk(r.arena)
    BY <1>5, <1>11, <1>12 DEF ArenaOk
<1>14. Placed(r.arena, r.block)
    <2>1. a.cursor >= c.phase + HEADER /\ a.cursor + size <= c.phase + c.size
        BY <1>3, <1>6, <1>7, <1>u
    <2>2. r.block.chunk \in DOMAIN r.arena.chunks
        BY <1>5, <1>6, <1>10, Zenon
    <2>3. Inside(r.arena, r.block)
        BY <2>1, <1>5, <1>10, Zenon DEF Inside
    <2>4. r.block.at + r.block.size <= r.arena.cursor
        BY <1>5, <1>10, <1>u
    <2> QED
        BY <2>2, <2>3, <2>4 DEF Placed
<1>15. ASSUME NEW b \in AWord, Placed(a, b)
       PROVE  Placed(r.arena, b) /\ Apart(b, r.block) /\ Apart(r.block, b)
    <2>1. b.chunk \in Nat /\ b.at \in Nat /\ b.size \in Nat
        BY DEF AWord
    <2>2. b.chunk = n => b.at + b.size <= a.cursor
        BY <1>15 DEF Placed
    <2>3. b.chunk = n => b.at + b.size <= a.cursor + size
        BY <2>1, <2>2, <1>u
    <2>4. b.chunk \in DOMAIN a.chunks /\ Inside(a, b)
        BY <1>15 DEF Placed
    <2>5. Inside(r.arena, b)
        BY <2>4, <1>5 DEF Inside
    <2>6. Placed(r.arena, b)
        BY <2>3, <2>4, <2>5, <1>5, <1>9, Zenon DEF Placed
    <2> QED
        BY <1>10, <2>2, <2>6 DEF Apart
<1>16. r.arena.bytes_used = a.bytes_used + (IF r.ok THEN size ELSE 0)
       /\ r.ok \in BOOLEAN /\ r.block.size = IF r.ok THEN size ELSE 0
    BY <1>4, <1>5, <1>10, Zenon
<1> QED
    BY <1>4, <1>5, <1>10, <1>13, <1>14, <1>15, <1>16 DEF Grants1

LEMMA ChunkHolds ==
    ASSUME NEW a, a \in ArenaState, NEW size \in Nat
    PROVE  /\ ChunkFor(a, Layout(size, 1)) \in Nat
           /\ ChunkFor(a, Layout(size, 1)) >= HEADER + size
<1> DEFINE x == Larger(a.next_chunk, HEADER + 1 + size)
<1>0. a.next_chunk \in Nat
    BY ArenaTypes DEF Scalars
<1>1. x \in Nat /\ x >= HEADER + size
    BY <1>0, ArenaConstants DEF Larger
<1>2. ChunkFor(a, Layout(size, 1)) = RoundUp(x, CHUNK_ALIGN)
    BY DEF ChunkFor, Layout
<1> HIDE DEF x
<1>3. RoundUp(x, CHUNK_ALIGN) \in Nat /\ RoundUp(x, CHUNK_ALIGN) >= x
    BY <1>1, RoundsUp, ArenaConstants
<1> QED
    BY <1>1, <1>2, <1>3, ArenaConstants

LEMMA PhaseTypes ==
    ASSUME NEW phase \in Phases
    PROVE  phase \in Nat
<1>1. PICK i \in 0..(MaxAlign \div CHUNK_ALIGN - 1) : phase = i * CHUNK_ALIGN
    BY DEF Phases
<1>2. \A x \in Nat, y \in Nat : x * y \in Nat
    BY SMT
<1>3. i \in Nat
    <2>1. \A x \in Nat, y \in Nat \ {0} : x \div y \in Int
        BY SMT
    <2> QED
        BY <2>1, <1>1, ArenaConstants
<1> QED
    BY <1>1, <1>2, <1>3, ArenaConstants

\* A new chunk moves nothing and has room for what it was made for.
LEMMA GrowKeeps ==
    ASSUME NEW a, ArenaOk(a), NEW size \in Nat, CanGrow(a, Layout(size, 1)),
           NEW phase \in Phases, NEW g, g = Grown(a, Layout(size, 1), phase)
    PROVE  /\ ArenaOk(g) /\ Fits(g, Layout(size, 1))
           /\ g.limit = a.limit /\ g.bytes_used = a.bytes_used
           /\ \A b \in AWord : Placed(a, b) => Placed(g, b)
<1> DEFINE l == Layout(size, 1)  w == ChunkFor(a, l)  n == Len(a.chunks)
           new == [phase |-> phase, size |-> w]
<1>1. a \in ArenaState /\ phase \in Nat /\ w \in Nat /\ w >= HEADER + size
    BY PhaseTypes, ChunkHolds DEF ArenaOk
<1>t. Scalars(a) /\ Chunks(a) /\ HEADER * Len(a.chunks) \in Nat
    BY <1>1, ArenaTypes
<1> HIDE DEF w, l
<1>2. new \in Chunk /\ new.phase = phase /\ new.size = w
    BY <1>1 DEF Chunk
<1> HIDE DEF new
<1>3. /\ g.chunks = Append(a.chunks, new)
      /\ g.cursor = phase + HEADER /\ g.end = phase + w
      /\ g.bytes_reserved = a.bytes_reserved + w
      /\ g.limit = a.limit /\ g.bytes_used = a.bytes_used /\ g.poisoned = a.poisoned
      /\ g.refused = a.refused
      /\ g.next_chunk = Smaller(2 * a.next_chunk, MAX_CHUNK)
      /\ g = [chunks |-> g.chunks, cursor |-> g.cursor, end |-> g.end,
              next_chunk |-> g.next_chunk, bytes_reserved |-> g.bytes_reserved,
              bytes_used |-> g.bytes_used, refused |-> g.refused, limit |-> g.limit,
              poisoned |-> g.poisoned]
    BY <1>1 DEF Grown, ArenaState, l, w, new
<1>4. a.bytes_reserved + w <= a.limit
    BY DEF CanGrow, l, w
<1>s. a.chunks \in Seq(Chunk) /\ n \in Nat /\ DOMAIN a.chunks = 1..n /\ n = Len(a.chunks)
    BY <1>t DEF Chunks
<1>u. /\ a.cursor \in Nat /\ a.end \in Nat /\ a.bytes_used \in Nat /\ a.bytes_reserved \in Nat
      /\ a.next_chunk \in Nat /\ a.limit \in Nat /\ a.refused \in Nat /\ a.poisoned \in BOOLEAN
      /\ HEADER \in Nat /\ MAX_CHUNK \in Nat
    BY <1>t, ArenaConstants DEF Scalars
<1>v. HEADER * n \in Nat
    BY <1>t
<1>x. \A i \in 1..n : a.chunks[i].size \in Nat
    BY <1>t DEF Chunks
<1> HIDE DEF n
<1>5. g.chunks \in Seq(Chunk)
    BY <1>2, <1>3, <1>s, AppendProperties
<1>6. Len(g.chunks) = n + 1 /\ g.chunks[n + 1] = new /\ \A i \in 1..n : g.chunks[i] = a.chunks[i]
    <2>1. g.chunks = Append(a.chunks, new)
        BY <1>3, Zenon
    <2> QED
        BY <1>2, <1>s, <2>1, AppendProperties
<1>7. DOMAIN g.chunks = 1..(n + 1) /\ g.chunks # <<>>
    <2>1. DOMAIN g.chunks = 1..Len(g.chunks) /\ (g.chunks = <<>> <=> Len(g.chunks) = 0)
        BY <1>5, LenProperties, EmptySeq
    <2>2. n \in Nat /\ n + 1 # 0
        BY <1>s
    <2> QED
        BY <2>1, <2>2, <1>6
<1>8. g \in ArenaState
    <2>1. /\ phase + HEADER \in Nat /\ phase + w \in Nat /\ a.bytes_reserved + w \in Nat
          /\ Smaller(2 * a.next_chunk, MAX_CHUNK) \in Nat
        BY <1>1, <1>u DEF Smaller
    <2>2. g.cursor \in Nat /\ g.end \in Nat /\ g.next_chunk \in Nat /\ g.bytes_reserved \in Nat
          /\ g.limit \in Nat /\ g.bytes_used \in Nat /\ g.poisoned \in BOOLEAN /\ g.refused \in Nat
        BY <2>1, <1>3, <1>u, Zenon
    <2> QED
        BY <1>3, <1>5, <2>2 DEF ArenaState
<1>9. g.bytes_reserved = SumFunction([i \in DOMAIN g.chunks |-> g.chunks[i].size])
    <2> DEFINE f == [i \in 1..n |-> a.chunks[i].size]
               h == [i \in 1..(n + 1) |-> g.chunks[i].size]
    <2>0. n \in Nat
        BY <1>s
    <2>1. IsFiniteSet(1..n)
        BY <2>0, FS_Interval
    <2>2. n + 1 \notin 1..n
        BY <2>0
    <2>3. 1..(n + 1) = (1..n) \cup {n + 1}
        BY <2>0
    <2>4. f \in [1..n -> Int]
        BY <1>x
    <2>5. \A i \in 1..(n + 1) : g.chunks[i].size \in Int
        BY <2>0, <1>1, <1>2, <1>6, <1>x
    <2>6. h \in [(1..n) \cup {n + 1} -> Int]
        BY <2>3, <2>5, Zenon
    <2>7. \A i \in 1..n : i \in 1..(n + 1)
        BY <2>0
    <2>8. \A i \in 1..n : h[i] = f[i]
        BY <2>7, <1>6, Zenon
    <2>9. n + 1 \in 1..(n + 1)
        BY <2>0
    <2>10. h[n + 1] = w
        BY <2>9, <1>2, <1>6, Zenon
    <2>11. SumFunction(f) = a.bytes_reserved
        BY <1>s DEF ArenaOk
    <2>12. SumFunction([i \in DOMAIN g.chunks |-> g.chunks[i].size]) = SumFunction(h)
        BY <1>7
    <2> DEFINE S == 1..n  m == n + 1
    <2>a. IsFiniteSet(S) /\ m \notin S /\ f \in [S -> Int] /\ h \in [S \cup {m} -> Int]
          /\ \A i \in S : h[i] = f[i]
        BY <2>1, <2>2, <2>4, <2>6, <2>8, Zenon
    <2> HIDE DEF f, h, m, S
    <2>b. SumFunction(h) = SumFunction(f) + h[m]
        BY <2>a, SumOfOneMore
    <2>13. SumFunction(h) = SumFunction(f) + h[n + 1]
        BY <2>b DEF m
    <2> QED
        BY <1>3, <2>10, <2>11, <2>12, <2>13
<1> DEFINE h == HEADER * n
<1>10. HEADER * (n + 1) = h + HEADER /\ h \in Nat
    BY <1>s, <1>u, <1>v, SMT
<1>11. a.cursor <= a.end /\ a.bytes_used + (a.end - a.cursor) <= a.bytes_reserved - h
    BY <1>s DEF ArenaOk, HandedOut, InLast
<1> HIDE DEF h
<1>12. HandedOut(g)
    <2>1. a.bytes_used + ((phase + w) - (phase + HEADER)) <= (a.bytes_reserved + w) - (h + HEADER)
        BY <1>1, <1>10, <1>11, <1>u
    <2> QED
        BY <2>1, <1>3, <1>6, <1>10, Zenon DEF HandedOut
<1>13. InLast(g)
    <2>1. LastChunk(g) = new
        BY <1>6 DEF LastChunk
    <2>2. phase + HEADER <= phase + w
        BY <1>1, <1>u
    <2>3. LastChunk(g).phase + HEADER <= g.cursor
        <3>1. phase + HEADER <= phase + HEADER
            BY <1>1, <1>u
        <3>2. LastChunk(g).phase = phase /\ g.cursor = phase + HEADER
            BY <2>1, <1>2, <1>3, Zenon
        <3> QED
            BY <3>1, <3>2, Zenon
    <2>4. g.end = LastChunk(g).phase + LastChunk(g).size
        BY <2>1, <1>2, <1>3, Zenon
    <2>5. g.cursor <= g.end
        BY <2>2, <1>3, Zenon
    <2> QED
        BY <2>3, <2>4, <2>5 DEF InLast
<1>14. ArenaOk(g)
    <2>1. g.bytes_reserved <= g.limit
        BY <1>3, <1>4, Zenon
    <2>2. ~g.poisoned
        BY <1>3 DEF ArenaOk
    <2> QED
        BY <2>1, <2>2, <1>8, <1>9, <1>12, <1>13 DEF ArenaOk
<1>15. Fits(g, l)
    <2>1. l.size = size /\ l.align = 1
        BY DEF Layout, l
    <2>2. g.cursor \in Nat
        BY <1>8 DEF ArenaState
    <2>3. Aligned(g, l) = g.cursor
        BY <2>1, <2>2, RoundsToOne DEF Aligned
    <2>4. phase + HEADER + size <= phase + w
        BY <1>1, <1>u
    <2>5. Aligned(g, l) + l.size <= g.end
        BY <2>1, <2>3, <2>4, <1>3, Zenon
    <2> QED
        BY <2>5, <1>7 DEF Fits
<1>16. ASSUME NEW b \in AWord, Placed(a, b) PROVE Placed(g, b)
    <2>1. b.chunk \in 1..n /\ Inside(a, b)
        BY <1>s, <1>16 DEF Placed
    <2>2. Inside(g, b)
        BY <1>6, <2>1 DEF Inside
    <2>3. b.chunk \in 1..(n + 1) /\ b.chunk # n + 1
        BY <1>s, <2>1
    <2> QED
        BY <1>6, <1>7, <2>2, <2>3 DEF Placed
<1> QED
    BY <1>3, <1>14, <1>15, <1>16 DEF l

LEMMA RefusalGrants ==
    ASSUME NEW a, ArenaOk(a), NEW size \in Nat, NEW r, r = Refusal(a)
    PROVE  Grants1(a, size, r)
<1>1. a \in ArenaState
    BY DEF ArenaOk
<1>t. Scalars(a) /\ Chunks(a) /\ HEADER * Len(a.chunks) \in Nat
    BY <1>1, ArenaTypes
<1>2. /\ r.ok = FALSE /\ r.block = Nothing /\ r.arena = [a EXCEPT !.refused = @ + 1]
    BY DEF Refusal
<1>3. /\ r.arena \in ArenaState
      /\ r.arena.cursor = a.cursor /\ r.arena.bytes_used = a.bytes_used
      /\ r.arena.chunks = a.chunks /\ r.arena.end = a.end
      /\ r.arena.bytes_reserved = a.bytes_reserved
      /\ r.arena.limit = a.limit /\ r.arena.poisoned = a.poisoned
    <2>1. a.refused + 1 \in Nat
        BY <1>t DEF Scalars
    <2> QED
        BY <1>1, <1>2, <2>1 DEF ArenaState
<1>4. ArenaOk(r.arena)
    BY <1>3 DEF ArenaOk, HandedOut, InLast, LastChunk
<1>5. \A b \in AWord : Placed(a, b) => Placed(r.arena, b)
    BY <1>3 DEF Placed, Inside
<1>6. r.block \in AWord /\ r.block.size = 0
    BY <1>2 DEF AWord, Nothing
<1>7. r.arena.bytes_used = a.bytes_used + (IF r.ok THEN size ELSE 0)
    <2>1. a.bytes_used \in Nat /\ ~r.ok
        BY <1>2, <1>t DEF Scalars, Chunks
    <2> QED
        BY <2>1, <1>3
<1>8. r.ok \in BOOLEAN /\ r.block.size = IF r.ok THEN size ELSE 0
    BY <1>2, <1>6
<1> QED
    BY <1>3, <1>4, <1>5, <1>6, <1>7, <1>8 DEF Grants1

\* alloc_locked, for all of what it may answer.
LEMMA AllocGrants ==
    ASSUME NEW a, ArenaOk(a), NEW size \in Nat, NEW r \in Alloc(a, Layout(size, 1))
    PROVE  Grants1(a, size, r)
<1> DEFINE l == Layout(size, 1)
<1>0. a \in ArenaState /\ l.size = size
    BY DEF ArenaOk, Layout
<1>t. Scalars(a) /\ Chunks(a) /\ HEADER * Len(a.chunks) \in Nat
    BY <1>0, ArenaTypes
<1>1. CASE size = 0
    <2>1. r = [arena |-> a, block |-> Nothing, ok |-> TRUE]
        BY <1>0, <1>1 DEF Alloc
    <2>2. r.arena = a /\ r.ok = TRUE /\ r.block \in AWord /\ r.block.size = 0
        BY <2>1 DEF AWord, Nothing
    <2>3. a.bytes_used \in Nat
        BY <1>t DEF Scalars
    <2>4. r.arena.bytes_used = a.bytes_used + (IF r.ok THEN size ELSE 0)
        BY <1>1, <2>2, <2>3
    <2> QED
        BY <1>1, <2>2, <2>3, <2>4 DEF Grants1
<1>2. CASE size # 0 /\ Fits(a, l)
    <2>1. r = Grants(a, l)
        BY <1>0, <1>2 DEF Alloc
    <2> QED
        BY <1>2, <2>1, BumpGrants
<1>3. CASE size # 0 /\ ~Fits(a, l) /\ r = Refusal(a)
    BY <1>3, RefusalGrants
<1>4. CASE size # 0 /\ ~Fits(a, l) /\ r # Refusal(a)
    <2>1. CanGrow(a, l) /\ \E phase \in Phases :
              LET g == Grown(a, l, phase)
              IN  r = IF Fits(g, l) THEN Grants(g, l) ELSE Refusal([g EXCEPT !.poisoned = TRUE])
        BY <1>0, <1>4 DEF Alloc
    <2>2. PICK phase \in Phases :
              r = IF Fits(Grown(a, l, phase), l) THEN Grants(Grown(a, l, phase), l)
                  ELSE Refusal([Grown(a, l, phase) EXCEPT !.poisoned = TRUE])
        BY <2>1
    <2>3. PICK g : g = Grown(a, l, phase)
        OBVIOUS
    <2>4. /\ ArenaOk(g) /\ Fits(g, l)
          /\ g.limit = a.limit /\ g.bytes_used = a.bytes_used
          /\ \A b \in AWord : Placed(a, b) => Placed(g, b)
        BY <2>1, <2>3, GrowKeeps
    <2>5. r = Grants(g, l)
        BY <2>2, <2>3, <2>4
    <2>6. Grants1(g, size, r)
        BY <1>4, <2>4, <2>5, BumpGrants
    <2> QED
        BY <2>4, <2>6 DEF Grants1
<1> QED
    BY <1>1, <1>2, <1>3, <1>4

-----------------------------------------------------------------------------
(* The vectors and the maps *)

\* A block, if there is one, that is apart from all before it.
NewBlock(a, b, block) ==
    block.size # 0 =>
        /\ Placed(b, block)
        /\ \A c \in AWord : Placed(a, c) => Apart(c, block) /\ Apart(block, c)

\* What a push answers.
Pushes(a, vec, value, r) ==
    /\ ArenaOk(r.arena)
    /\ \A b \in AWord : Placed(a, b) => Placed(r.arena, b)
    /\ VecOk(r.vec)
    /\ r.arena.bytes_used + 2 * vec.capacity + vec.wasted
         = a.bytes_used + 2 * r.vec.capacity + r.vec.wasted
    /\ r.vec.block = vec.block \/ NewBlock(a, r.arena, r.vec.block)
    /\ \/ r.index = 0 /\ r.vec = vec
       \/ r.index = Len(vec.elements) + 1 /\ r.vec.elements = Append(vec.elements, value)

LEMMA RecordLayoutIs == RecordLayout.size = 2 /\ RecordLayout.align = 1
BY DEF RecordLayout, Layout

LEMMA VecTypes ==
    ASSUME NEW vec, vec \in AVec
    PROVE  /\ vec.elements \in Seq(APoint) /\ Len(vec.elements) \in Nat
           /\ vec.capacity \in Nat /\ vec.wasted \in Nat /\ vec.block \in AWord
           /\ vec.max_capacity = MaxRecords
           /\ vec.elements = <<>> <=> Len(vec.elements) = 0
<1>1. vec.elements \in Seq(APoint)
    BY DEF AVec
<1>2. Len(vec.elements) \in Nat /\ (vec.elements = <<>> <=> Len(vec.elements) = 0)
    BY <1>1, LenProperties, EmptySeq
<1> QED
    BY <1>1, <1>2 DEF AVec

\* The vector with one more, in a block of its own size.
Longer(vec, value, capacity, wasted, block) ==
    [vec EXCEPT !.elements = Append(vec.elements, value), !.capacity = capacity,
                !.wasted = wasted, !.block = block]

LEMMA AppendKeeps ==
    ASSUME NEW vec, VecOk(vec), NEW value \in APoint, NEW capacity \in Nat, NEW wasted \in Nat,
           NEW block \in AWord, Len(vec.elements) < capacity, capacity <= MaxRecords,
           NEW new, new = Longer(vec, value, capacity, wasted, block)
    PROVE  /\ VecOk(new) /\ new.elements = Append(vec.elements, value)
           /\ new.capacity = capacity /\ new.wasted = wasted /\ new.block = block
<1>1. vec \in AVec /\ vec.elements \in Seq(APoint) /\ Len(vec.elements) \in Nat
    BY VecTypes DEF VecOk
<1>2. PICK es : es = Append(vec.elements, value)
    OBVIOUS
<1>3. es \in Seq(APoint) /\ Len(es) = Len(vec.elements) + 1
    BY <1>1, <1>2, AppendProperties
<1>4. new = [vec EXCEPT !.elements = es, !.capacity = capacity, !.wasted = wasted,
                        !.block = block]
    BY <1>2 DEF Longer
<1>5. new \in AVec
    BY <1>1, <1>3, <1>4 DEF AVec
<1>6. /\ new.elements = es /\ new.capacity = capacity /\ new.wasted = wasted
      /\ new.block = block
    BY <1>1, <1>4 DEF AVec
<1>7. es # <<>> /\ Len(es) <= capacity
    <2>1. es = <<>> => Len(es) = 0
        BY <1>3, EmptySeq
    <2> QED
        BY <2>1, <1>1, <1>3
<1> QED
    BY <1>2, <1>5, <1>6, <1>7 DEF VecOk

LEMMA PushGrants ==
    ASSUME NEW a, ArenaOk(a), NEW vec, VecOk(vec), NEW value \in APoint,
           NEW r \in Push(a, vec, value, FIRST_CAPACITY, RecordLayout)
    PROVE  Pushes(a, vec, value, r)
<1> DEFINE n == Len(vec.elements)  m == NewVecCapacity(vec, FIRST_CAPACITY)
<1>1. /\ vec \in AVec /\ vec.elements \in Seq(APoint) /\ n \in Nat
      /\ vec.capacity \in Nat /\ vec.wasted \in Nat /\ vec.block \in AWord
      /\ n <= vec.capacity /\ vec.capacity <= MaxRecords
      /\ vec.max_capacity = MaxRecords /\ (vec.elements = <<>> <=> n = 0)
      /\ (vec.elements = <<>> => vec.capacity = 0)
    BY VecTypes DEF VecOk
<1>2. m \in Nat /\ m <= MaxRecords
    BY <1>1, InternConstants, CeilingTypes DEF NewVecCapacity, Smaller
<1>3. a.bytes_used \in Nat
    BY ArenaTypes DEF ArenaOk, Scalars
<1>4. CASE n < vec.capacity
    <2>1. r = [arena |-> a, vec |-> [vec EXCEPT !.elements = Append(@, value)], index |-> n + 1]
        BY <1>4 DEF Push
    <2>2. r.vec = Longer(vec, value, vec.capacity, vec.wasted, vec.block)
        BY <1>1, <2>1 DEF AVec, Longer
    <2>3. /\ VecOk(r.vec) /\ r.vec.elements = Append(vec.elements, value)
          /\ r.vec.capacity = vec.capacity /\ r.vec.wasted = vec.wasted /\ r.vec.block = vec.block
        <3> HIDE DEF n
        <3>1. Len(vec.elements) < vec.capacity
            BY <1>4 DEF n
        <3>2. vec.capacity \in Nat /\ vec.wasted \in Nat /\ vec.block \in AWord
              /\ vec.capacity <= MaxRecords
            BY <1>1
        <3> QED
            BY <2>2, <3>1, <3>2, AppendKeeps
    <2>4. r.arena = a /\ r.index = Len(vec.elements) + 1
        BY <2>1
    <2>5. r.arena.bytes_used + 2 * vec.capacity + vec.wasted
            = a.bytes_used + 2 * r.vec.capacity + r.vec.wasted
        BY <2>3, <2>4
    <2> QED
        BY <2>3, <2>4, <2>5 DEF Pushes
<1>5. ASSUME r.index = 0, r.vec = vec, ArenaOk(r.arena), r.arena.bytes_used = a.bytes_used,
             \A b \in AWord : Placed(a, b) => Placed(r.arena, b)
      PROVE  Pushes(a, vec, value, r)
    <2>1. r.arena.bytes_used + 2 * vec.capacity + vec.wasted
            = a.bytes_used + 2 * r.vec.capacity + r.vec.wasted
        BY <1>5
    <2> QED
        BY <1>5, <2>1 DEF Pushes
<1>6. CASE ~(n < vec.capacity) /\ m <= vec.capacity
    <2>1. r = [arena |-> a, vec |-> vec, index |-> 0]
        BY <1>6 DEF Push
    <2> QED
        BY <2>1, <1>5
<1>7. CASE ~(n < vec.capacity) /\ ~(m <= vec.capacity)
    <2> DEFINE size == m * RecordLayout.size
    <2>1. size = 2 * m /\ size \in Nat /\ RecordLayout.align = 1
        BY <1>2, RecordLayoutIs
    <2> HIDE DEF m, n
    <2>2. PICK q \in Alloc(a, Layout(size, 1)) :
              r = IF q.ok
                  THEN [arena |-> q.arena, index |-> Len(vec.elements) + 1,
                        vec |-> [GrownVec(vec, FIRST_CAPACITY, RecordLayout, q.block)
                                    EXCEPT !.elements = Append(@, value)]]
                  ELSE [arena |-> q.arena, vec |-> vec, index |-> 0]
        BY <1>7, <2>1 DEF Push, m, n
    <2> HIDE DEF size
    <2>3. Grants1(a, size, q)
        BY <2>1, AllocGrants
    <2>4. CASE ~q.ok
        <3>1. r = [arena |-> q.arena, vec |-> vec, index |-> 0]
            BY <2>2, <2>4
        <3>2. q.arena.bytes_used = a.bytes_used
            BY <2>3, <2>4, <1>3 DEF Grants1
        <3>3. /\ ArenaOk(q.arena)
              /\ \A b \in AWord : Placed(a, b) => Placed(q.arena, b)
            BY <2>3 DEF Grants1
        <3> QED
            BY <3>1, <3>2, <3>3, <1>5
    <2>5. CASE q.ok
        <3> DEFINE more == IF vec.elements = <<>> THEN 0 ELSE VecBytes(vec, RecordLayout)
        <3>1. /\ r.arena = q.arena /\ r.index = Len(vec.elements) + 1
              /\ r.vec = [GrownVec(vec, FIRST_CAPACITY, RecordLayout, q.block)
                             EXCEPT !.elements = Append(@, value)]
            BY <2>2, <2>5
        <3>2. more = 2 * vec.capacity /\ more \in Nat /\ vec.wasted + more \in Nat
            <4>1. VecBytes(vec, RecordLayout) = 2 * vec.capacity
                BY <1>1, RecordLayoutIs DEF VecBytes
            <4>2. vec.elements = <<>> => 2 * vec.capacity = 0
                BY <1>1
            <4>3. more = 2 * vec.capacity
                BY <4>1, <4>2
            <4> HIDE DEF more
            <4> QED
                BY <1>1, <4>3
        <3>3. r.vec = Longer(vec, value, m, vec.wasted + more, q.block)
            BY <1>1, <3>1 DEF GrownVec, AVec, Longer, m
        <3> HIDE DEF more
        <3>4. q.block \in AWord /\ ArenaOk(q.arena)
              /\ q.arena.bytes_used = a.bytes_used + size
            BY <2>3, <2>5 DEF Grants1
        <3>5. Len(vec.elements) < m
            BY <1>1, <1>2, <1>7 DEF n
        <3>6. /\ VecOk(r.vec) /\ r.vec.elements = Append(vec.elements, value)
              /\ r.vec.capacity = m /\ r.vec.wasted = vec.wasted + more /\ r.vec.block = q.block
            BY <1>2, <3>2, <3>3, <3>4, <3>5, AppendKeeps
        <3>7. r.arena.bytes_used + 2 * vec.capacity + vec.wasted
                = a.bytes_used + 2 * r.vec.capacity + r.vec.wasted
            <4>1. size = 2 * m /\ more = 2 * vec.capacity
                BY <2>1, <3>2
            <4>2. m \in Nat /\ vec.capacity \in Nat /\ vec.wasted \in Nat /\ a.bytes_used \in Nat
                BY <1>1, <1>2, <1>3
            <4>3. a.bytes_used + size + 2 * vec.capacity + vec.wasted
                    = a.bytes_used + 2 * m + (vec.wasted + more)
                BY <4>1, <4>2
            <4> QED
                BY <4>3, <3>1, <3>4, <3>6, Zenon
        <3>8. NewBlock(a, r.arena, r.vec.block)
            BY <2>3, <3>1, <3>6 DEF Grants1, NewBlock
        <3>9. \A b \in AWord : Placed(a, b) => Placed(r.arena, b)
            BY <2>3, <3>1 DEF Grants1
        <3> QED
            BY <3>1, <3>4, <3>6, <3>7, <3>8, <3>9 DEF Pushes
    <2> QED
        BY <2>4, <2>5
<1> QED
    BY <1>4, <1>6, <1>7

-----------------------------------------------------------------------------
\* What an insertion answers.
Inserts(a, map, key, index, r) ==
    /\ ArenaOk(r.arena)
    /\ \A b \in AWord : Placed(a, b) => Placed(r.arena, b)
    /\ r.full \in BOOLEAN
    /\ r.full => r.arena.bytes_used = a.bytes_used
    /\ ~r.full =>
        /\ MapOk(r.map)
        /\ r.map.index = [k \in DOMAIN map.index \cup {key} |->
                            IF k = key THEN index ELSE map.index[k]]
        /\ r.arena.bytes_used + 2 * map.slots + map.wasted
             = a.bytes_used + 2 * r.map.slots + r.map.wasted

LEMMA SlotLayoutIs == SlotLayout.size = 2 /\ SlotLayout.align = 1
BY DEF SlotLayout, Layout

WithKey(map, key, index, slots, wasted) ==
    [index |-> [k \in DOMAIN map.index \cup {key} |-> IF k = key THEN index ELSE map.index[k]],
     slots |-> slots, wasted |-> wasted]

\* Where there is room, or no new key, the map is whole after the insertion.
LEMMA IndexedKeeps ==
    ASSUME NEW map, MapOk(map), NEW key \in Keys, NEW index,
           NEW slots \in 0..MaxSlots, NEW wasted \in Nat, slots % 2 = 0, map.slots <= slots,
           key \in DOMAIN map.index \/ 2 * (Cardinality(DOMAIN map.index) + 1) <= slots,
           NEW new, new = WithKey(map, key, index, slots, wasted)
    PROVE  MapOk(new)
<1> DEFINE D == DOMAIN map.index
<1>1. D \subseteq Keys /\ IsFiniteSet(D) /\ 2 * Cardinality(D) <= map.slots /\ map.slots \in Nat
    BY CeilingTypes DEF MapOk
<1>2. DOMAIN new.index = D \cup {key} /\ new.slots = slots /\ new.wasted = wasted
      /\ new = [index |-> new.index, slots |-> new.slots, wasted |-> new.wasted]
    BY DEF WithKey
<1>3. key \in D \/ 2 * (Cardinality(D) + 1) <= slots
    OBVIOUS
<1> HIDE DEF D
<1>4. IsFiniteSet(D \cup {key}) /\ Cardinality(D) \in Nat
      /\ Cardinality(D \cup {key}) = IF key \in D THEN Cardinality(D) ELSE Cardinality(D) + 1
    BY <1>1, FS_AddElement, FS_CardinalityType
<1>5. 2 * Cardinality(D \cup {key}) <= slots
    BY <1>1, <1>3, <1>4, CeilingTypes
<1>6. D \cup {key} \subseteq Keys
    BY <1>1
<1> QED
    BY <1>2, <1>4, <1>5, <1>6 DEF MapOk

\* A larger table has room for one more.
LEMMA LargerHasRoom ==
    ASSUME NEW map, MapOk(map), NewSlots(map) # map.slots
    PROVE  /\ NewSlots(map) \in 0..MaxSlots /\ NewSlots(map) % 2 = 0
           /\ map.slots <= NewSlots(map)
           /\ 2 * (Cardinality(DOMAIN map.index) + 1) <= NewSlots(map)
<1> DEFINE c == Cardinality(DOMAIN map.index)  s == map.slots  m == MaxRecords  n == NewSlots(map)
<1>1. c \in Nat /\ s \in Nat /\ s <= 4 * m /\ s % 2 = 0 /\ 2 * c <= s /\ m \in Nat
    BY FS_CardinalityType, CeilingTypes DEF MapOk
<1>2. n = Smaller(IF s = 0 THEN 2 ELSE 2 * s, 4 * m)
    BY CeilingTypes DEF NewSlots, MIN_CAPACITY
<1>3. n # s
    OBVIOUS
<1> HIDE DEF c, s, m, n
<1>4. PICK h \in Int : s = 2 * h
    BY <1>1, SMT
<1>5. n \in Nat /\ n <= 4 * m /\ s <= n /\ 2 * (c + 1) <= n
    BY <1>1, <1>2, <1>3, <1>4, SMT DEF Smaller
<1>6. n % 2 = 0
    BY <1>1, <1>2, <1>4, SMT DEF Smaller
<1>7. MaxSlots = 4 * m
    BY CeilingTypes DEF m
<1> QED
    BY <1>5, <1>6, <1>7 DEF c, s, n

LEMMA InsertGrants ==
    ASSUME NEW a, ArenaOk(a), NEW map, MapOk(map), NEW key \in Keys, NEW index,
           NEW r \in InsertKey(a, map, key, index)
    PROVE  Inserts(a, map, key, index, r)
<1> DEFINE index2 == [k \in DOMAIN map.index \cup {key} |-> IF k = key THEN index ELSE map.index[k]]
           here == [index |-> index2, slots |-> map.slots, wasted |-> map.wasted]
<1>1. /\ map = [index |-> map.index, slots |-> map.slots, wasted |-> map.wasted]
      /\ map.slots \in 0..MaxSlots /\ map.slots \in Nat /\ map.slots % 2 = 0 /\ map.wasted \in Nat
    BY CeilingTypes DEF MapOk
<1>2. Indexed(map, key, index) = here
    <2>1. Indexed(map, key, index) = [map EXCEPT !.index = index2]
        BY DEF Indexed
    <2> HIDE DEF index2
    <2> QED
        BY <1>1, <2>1
<1>3. a.bytes_used \in Nat
    BY ArenaTypes DEF ArenaOk, Scalars
<1>4. ASSUME NEW b, ArenaOk(b), b.bytes_used = a.bytes_used,
             \A c \in AWord : Placed(a, c) => Placed(b, c),
             r.arena = b, r.map = Indexed(map, key, index), r.full \in BOOLEAN,
             r.full \/ key \in DOMAIN map.index
                 \/ 2 * (Cardinality(DOMAIN map.index) + 1) <= map.slots
      PROVE  Inserts(a, map, key, index, r)
    <2>1. r.map.index = index2 /\ r.map.slots = map.slots /\ r.map.wasted = map.wasted
        BY <1>2, <1>4
    <2>2. ~r.full => MapOk(r.map)
        <3>1. map.slots <= map.slots
            BY <1>1
        <3>2. r.map = WithKey(map, key, index, map.slots, map.wasted)
            BY <1>2, <1>4 DEF WithKey
        <3> QED
            BY <1>1, <1>4, <3>1, <3>2, IndexedKeeps
    <2>3. r.arena.bytes_used + 2 * map.slots + map.wasted
            = a.bytes_used + 2 * r.map.slots + r.map.wasted
        BY <1>4, <2>1
    <2> QED
        BY <1>4, <2>1, <2>2, <2>3 DEF Inserts
<1>5. CASE ~NeedsGrowth(map)
    <2>1. r = [arena |-> a, map |-> Indexed(map, key, index), full |-> FALSE]
        BY <1>5 DEF InsertKey
    <2>2. 2 * (Cardinality(DOMAIN map.index) + 1) <= map.slots
        <3>1. Cardinality(DOMAIN map.index) \in Nat
            BY FS_CardinalityType DEF MapOk
        <3> QED
            BY <1>1, <1>5, <3>1 DEF NeedsGrowth
    <2>3. r.arena = a /\ r.map = Indexed(map, key, index) /\ r.full = FALSE
        BY <2>1
    <2> QED
        BY <1>4, <2>2, <2>3
<1>6. CASE NeedsGrowth(map) /\ NewSlots(map) = map.slots
    <2>1. r = [arena |-> a, map |-> Indexed(map, key, index), full |-> key \notin DOMAIN map.index]
        BY <1>6 DEF InsertKey
    <2>2. /\ r.arena = a /\ r.map = Indexed(map, key, index) /\ r.full \in BOOLEAN
          /\ r.full \/ key \in DOMAIN map.index
        BY <2>1
    <2> QED
        BY <1>4, <2>2
<1>7. CASE NeedsGrowth(map) /\ NewSlots(map) # map.slots
    <2> DEFINE n == NewSlots(map)  size == n * SlotLayout.size
    <2>1. /\ n \in 0..MaxSlots /\ n % 2 = 0 /\ map.slots <= n
          /\ 2 * (Cardinality(DOMAIN map.index) + 1) <= n
        BY <1>7, LargerHasRoom
    <2>2. n \in Nat
        BY <2>1, CeilingTypes
    <2>3. PICK q \in Alloc(a, Layout(size, SlotLayout.align)) :
              r = IF q.ok
                  THEN [arena |-> q.arena, full |-> FALSE,
                        map |-> Indexed(WithMoreSlots(map), key, index)]
                  ELSE [arena |-> q.arena, map |-> Indexed(map, key, index),
                        full |-> key \notin DOMAIN map.index]
        BY <1>7 DEF InsertKey
    <2> HIDE DEF n
    <2>4. size = 2 * n /\ size \in Nat /\ SlotLayout.align = 1
        BY <2>2, SlotLayoutIs
    <2> HIDE DEF size
    <2>5. Grants1(a, size, q)
        BY <2>3, <2>4, AllocGrants
    <2>6. CASE ~q.ok
        <3>1. r = [arena |-> q.arena, map |-> Indexed(map, key, index),
                   full |-> key \notin DOMAIN map.index]
            BY <2>3, <2>6
        <3>2. q.arena.bytes_used = a.bytes_used
            BY <2>5, <2>6, <1>3 DEF Grants1
        <3>3. ArenaOk(q.arena) /\ \A b \in AWord : Placed(a, b) => Placed(q.arena, b)
            BY <2>5 DEF Grants1
        <3>4. /\ r.arena = q.arena /\ r.map = Indexed(map, key, index) /\ r.full \in BOOLEAN
              /\ r.full \/ key \in DOMAIN map.index
            BY <3>1
        <3> QED
            BY <1>4, <3>2, <3>3, <3>4
    <2>7. CASE q.ok
        <3> DEFINE w == map.wasted + map.slots * SlotLayout.size
                   new == WithKey(map, key, index, n, w)
        <3>1. r.arena = q.arena /\ r.full = FALSE /\ r.map = Indexed(WithMoreSlots(map), key, index)
            BY <2>3, <2>7
        <3>2. w = map.wasted + 2 * map.slots /\ w \in Nat
            BY <1>1, SlotLayoutIs
        <3> HIDE DEF w
        <3>3. WithMoreSlots(map) = [index |-> map.index, slots |-> n, wasted |-> w]
            <4>1. WithMoreSlots(map) = [map EXCEPT !.slots = n, !.wasted = w]
                BY Zenon DEF WithMoreSlots, n, w
            <4> QED
                BY <1>1, <4>1
        <3>4. Indexed(WithMoreSlots(map), key, index) = new
            <4>1. PICK more : more = WithMoreSlots(map)
                OBVIOUS
            <4>2. more = [index |-> map.index, slots |-> n, wasted |-> w] /\ more.index = map.index
                BY <3>3, <4>1
            <4>3. Indexed(more, key, index) = [more EXCEPT !.index = index2]
                BY <4>2 DEF Indexed
            <4>4. new = [index |-> index2, slots |-> n, wasted |-> w]
                BY DEF WithKey
            <4> HIDE DEF index2, new
            <4> QED
                BY <4>1, <4>2, <4>3, <4>4
        <3>5. MapOk(new)
            BY <2>1, <3>2, IndexedKeeps
        <3>6. ArenaOk(q.arena) /\ q.arena.bytes_used = a.bytes_used + size
              /\ \A b \in AWord : Placed(a, b) => Placed(q.arena, b)
            BY <2>5, <2>7 DEF Grants1
        <3>7. r.map = new /\ r.map.index = index2 /\ r.map.slots = n /\ r.map.wasted = w
            BY <3>1, <3>4 DEF WithKey
        <3>8. r.arena.bytes_used + 2 * map.slots + map.wasted
                = a.bytes_used + 2 * r.map.slots + r.map.wasted
            <4>1. a.bytes_used + size + 2 * map.slots + map.wasted = a.bytes_used + 2 * n + w
                BY <1>1, <1>3, <2>2, <2>4, <3>2
            <4> QED
                BY <4>1, <3>1, <3>6, <3>7, Zenon
        <3> QED
            BY <3>1, <3>5, <3>6, <3>7, <3>8 DEF Inserts
    <2> QED
        BY <2>6, <2>7
<1> QED
    BY <1>5, <1>6, <1>7

-----------------------------------------------------------------------------
(* A step: one thread's call, what it adds to the records, and what it answers *)

LEMMA CallTypes ==
    ASSUME NEW c \in ACall
    PROVE  /\ c.at \in {"idle", "lookup", "frames", "number", "push", "insert"}
           /\ c.at = "idle" <=> c = Idle
           /\ c # Idle => c.stack \in Stacks /\ c.before \in Nat
           /\ c.at \in {"number", "push"} => c.block \in AWord
           /\ c.at = "push" => c.sequence \in Nat
           /\ c.at = "insert" => c.index \in Nat \ {0}
BY DEF ACall, Idle

\* The same of the call of a thread.
LEMMA ThreadTypes ==
    ASSUME StateTypes, NEW t \in Callers
    PROVE  /\ call[t] \in ACall
           /\ call[t].at \in {"idle", "lookup", "frames", "number", "push", "insert"}
           /\ call[t].at = "idle" <=> call[t] = Idle
           /\ call[t] # Idle => call[t].stack \in Stacks /\ call[t].before \in Nat
           /\ call[t].at \in {"number", "push"} => call[t].block \in AWord
           /\ call[t].at = "push" => call[t].sequence \in Nat
           /\ call[t].at = "insert" => call[t].index \in Nat \ {0}
<1>1. call[t] \in ACall
    BY DEF StateTypes
<1> QED
    BY <1>1, CallTypes

LEMMA ShardTypes ==
    ASSUME hash \in [Stacks -> Keys], NEW s \in Stacks
    PROVE  hash[s] \in Nat /\ ShardOf(s) \in ShardIds
<1>1. \A x \in Nat, n \in Nat \ {0} : x % n \in 0..(n - 1)
    BY SMT
<1>0. hash[s] \in Keys
    OBVIOUS
<1>2. hash[s] \in Nat
    BY <1>0, InternConstants
<1>4. SHARDS \in Nat \ {0}
    BY InternConstants
<1>3. hash[s] % SHARDS \in 0..(SHARDS - 1)
    BY <1>1, <1>2, <1>4
<1> QED
    BY <1>2, <1>3 DEF ShardOf, ShardIds

LEMMA PointTypes ==
    ASSUME StateTypes, NEW i \in ShardIds
    PROVE  /\ Points(i) \in Seq(APoint) /\ Len(Points(i)) \in Nat
           /\ DOMAIN Points(i) = 1..Len(Points(i))
           /\ \A m \in DOMAIN Points(i) :
                  /\ m \in Nat \ {0} /\ Points(i)[m] \in APoint
                  /\ Points(i)[m].stack \in Stacks /\ Points(i)[m].block \in AWord
                  /\ Points(i)[m].sequence \in Nat
<1>1. Points(i) \in Seq(APoint)
    BY DEF StateTypes, AVec, Points
<1>2. Len(Points(i)) \in Nat /\ DOMAIN Points(i) = 1..Len(Points(i))
    BY <1>1, LenProperties
<1>3. \A m \in 1..Len(Points(i)) : Points(i)[m] \in APoint
    BY <1>1, ElementOfSeq
<1> QED
    BY <1>1, <1>2, <1>3 DEF APoint

LEMMA AnswerTypes ==
    ASSUME StateTypes
    PROVE  /\ Len(answers) \in Nat /\ DOMAIN answers = 1..Len(answers)
           /\ \A n \in DOMAIN answers :
                  /\ n \in Nat /\ n >= 1 /\ answers[n].stack \in Stacks
                  /\ answers[n].id \in 0..OVERFLOW /\ answers[n].before \in Nat
<1>1. answers \in Seq(AnAnswer)
    BY DEF StateTypes
<1>2. Len(answers) \in Nat /\ DOMAIN answers = 1..Len(answers)
    BY <1>1, LenProperties
<1>3. \A m \in 1..Len(answers) : answers[m] \in AnAnswer
    BY <1>1, ElementOfSeq
<1> QED
    BY <1>2, <1>3 DEF AnAnswer

\* What every step leaves.
Stepped(t) ==
    /\ hash' = hash /\ frames' = frames
    /\ call' \in [Callers -> ACall]
    /\ \A u \in Callers \ {t} : call'[u] = call[u]

\* An answer is the last.
Answered(t, id) ==
    /\ call[t] # Idle /\ call'[t] = Idle
    /\ Len(answers') = Len(answers) + 1 /\ DOMAIN answers' = 1..(Len(answers) + 1)
    /\ \A n \in DOMAIN answers : n # Len(answers) + 1 /\ answers'[n] = answers[n]
    /\ answers'[Len(answers) + 1].stack = call[t].stack
    /\ answers'[Len(answers) + 1].id = id
    /\ answers'[Len(answers) + 1].before = call[t].before

\* The call goes on.
Moved(t) ==
    /\ call[t] # Idle /\ call'[t] # Idle /\ answers' = answers
    /\ call'[t].stack = call[t].stack /\ call'[t].before = call[t].before

\* No record is gone or changed, and one at most is new.
Extends ==
    \A j \in ShardIds : \A m \in DOMAIN Points(j) :
        m \in DOMAIN records'[j].elements /\ records'[j].elements[m] = Points(j)[m]
NoneIsNew ==
    \A j \in ShardIds : \A m \in DOMAIN records'[j].elements : m \in DOMAIN Points(j)
OneIsNew(i, n, p) ==
    /\ n \in DOMAIN records'[i].elements /\ n \notin DOMAIN Points(i)
    /\ \A m \in DOMAIN Points(i) : m < n
    /\ records'[i].elements[n] = p
    /\ \A j \in ShardIds : \A m \in DOMAIN records'[j].elements :
           m \in DOMAIN Points(j) \/ (j = i /\ m = n)

LEMMA AnswersAppend ==
    ASSUME StateTypes, NEW t \in Callers, call[t] # Idle, NEW id \in 0..OVERFLOW, Answers(t, id),
           hash' = hash, frames' = frames
    PROVE  /\ Stepped(t)
           /\ Answered(t, id) /\ answers' \in Seq(AnAnswer)
<1>1. call[t].stack \in Stacks /\ call[t].before \in Nat /\ call \in [Callers -> ACall]
    BY ThreadTypes DEF StateTypes
<1> DEFINE n == Len(answers)
<1>2. answers \in Seq(AnAnswer) /\ n \in Nat /\ DOMAIN answers = 1..n
    BY AnswerTypes DEF StateTypes
<1>3. PICK x : x = [stack |-> call[t].stack, id |-> id, before |-> call[t].before]
    OBVIOUS
<1>4. x \in AnAnswer /\ answers' = Append(answers, x)
    BY <1>1, <1>3 DEF AnAnswer, Answers
<1> HIDE DEF n
<1>5. answers' \in Seq(AnAnswer) /\ Len(answers') = Len(answers) + 1
    BY <1>2, <1>4, AppendProperties
<1>6. answers'[n + 1] = x /\ \A m \in 1..n : answers'[m] = answers[m]
    BY <1>2, <1>4, AppendProperties DEF n
<1>7. DOMAIN answers' = 1..(n + 1)
    BY <1>5, LenProperties DEF n
<1>8. \A m \in 1..n : m # n + 1
    BY <1>2
<1>9. call' \in [Callers -> ACall] /\ call'[t] = Idle /\ \A u \in Callers \ {t} : call'[u] = call[u]
    <2>1. Idle \in ACall /\ call' = [call EXCEPT ![t] = Idle]
        BY DEF ACall, Answers
    <2> QED
        BY <1>1, <2>1
<1>10. Answered(t, id)
    <2>1. answers'[n + 1].stack = call[t].stack /\ answers'[n + 1].id = id
          /\ answers'[n + 1].before = call[t].before
        BY <1>3, <1>6
    <2> QED
        BY <1>2, <1>5, <1>6, <1>7, <1>8, <1>9, <2>1 DEF Answered, n
<1> QED
    BY <1>5, <1>9, <1>10 DEF Stepped

-----------------------------------------------------------------------------
(* Calls, their bound, and the lock *)

LEMMA BusyCounts ==
    ASSUME NEW S \in SUBSET Callers
    PROVE  /\ IsFiniteSet(S) /\ Cardinality(S) \in Nat
           /\ \A t \in Callers :
                /\ t \in S => Cardinality(S \ {t}) = Cardinality(S) - 1
                /\ t \notin S => Cardinality(S \cup {t}) = Cardinality(S) + 1
<1>1. IsFiniteSet(S)
    BY InternConstants, FS_Subset
<1> QED
    BY <1>1, FS_CardinalityType, FS_AddElement, FS_RemoveElement

LEMMA BoundedBegin ==
    ASSUME StateTypes, CallsBounded, NEW t \in Callers, NEW s \in Stacks, Begin(t, s)
    PROVE  CallsBounded'
<1>1. Len(answers) \in Nat /\ sequence \in Nat
    BY AnswerTypes DEF StateTypes
<1>2. /\ call'[t] = [at |-> "lookup", stack |-> s, before |-> Len(answers)]
      /\ \A u \in Callers \ {t} : call'[u] = call[u]
      /\ call[t] = Idle /\ answers' = answers /\ sequence' = sequence /\ frames' = frames
    BY DEF Begin, StateTypes
<1>3. call'[t] # Idle /\ call'[t].at = "lookup" /\ call'[t].before = Len(answers)
      /\ call[t].at = "idle"
    BY <1>2 DEF Idle
<1>4. Busy' = Busy \cup {t} /\ t \notin Busy /\ Numbered' = Numbered
    BY <1>2, <1>3 DEF Busy, Numbered
<1>5. Cardinality(Busy') = Cardinality(Busy) + 1 /\ Cardinality(Busy) \in Nat
    <2>1. Busy \in SUBSET Callers
        BY DEF Busy
    <2> QED
        BY <1>4, <2>1, BusyCounts
<1>6. Len(answers') + Cardinality(Busy') <= MaxInterns
    <2>1. Len(answers) + Cardinality(Busy) < MaxInterns
        BY DEF Begin
    <2> QED
        BY <1>1, <1>2, <1>5, <2>1, InternConstants
<1>7. ASSUME NEW u \in Busy' PROVE call'[u].before <= Len(answers')
    <2>1. CASE u = t
        BY <1>1, <1>2, <1>3, <2>1
    <2>2. CASE u # t
        BY <1>2, <1>7, <2>2 DEF CallsBounded, Busy
    <2> QED
        BY <2>1, <2>2
<1>8. ASSUME NEW u \in Callers, Unlinked(u)' PROVE call'[u].block.size = frames'[call'[u].stack]
    BY <1>2, <1>3, <1>8 DEF CallsBounded, Unlinked
<1>9. sequence' <= Len(answers') + Cardinality(Numbered')
    BY <1>2, <1>4 DEF CallsBounded
<1> QED
    BY <1>6, <1>7, <1>8, <1>9 DEF CallsBounded

LEMMA BoundedAnswer ==
    ASSUME StateTypes, CallsBounded, NEW t \in Callers, NEW id, Stepped(t), Answered(t, id),
           sequence' = sequence
    PROVE  CallsBounded'
<1>1. Len(answers) \in Nat /\ sequence \in Nat
    BY AnswerTypes DEF StateTypes
<1>2. /\ call'[t] = Idle /\ call[t] # Idle /\ Len(answers') = Len(answers) + 1
      /\ \A u \in Callers \ {t} : call'[u] = call[u]
      /\ frames' = frames
    BY DEF Stepped, Answered
<1>3. call'[t].at = "idle"
    BY <1>2 DEF Idle
<1>4. Busy' = Busy \ {t} /\ t \in Busy /\ Numbered' = Numbered \ {t}
      /\ Busy \in SUBSET Callers /\ Numbered \in SUBSET Callers
    BY <1>2, <1>3 DEF Busy, Numbered
<1>5. Cardinality(Busy') = Cardinality(Busy) - 1 /\ Cardinality(Busy) \in Nat
    BY <1>4, BusyCounts
<1>6. Cardinality(Numbered') >= Cardinality(Numbered) - 1 /\ Cardinality(Numbered) \in Nat
      /\ Cardinality(Numbered') \in Nat
    <2>1. CASE t \in Numbered
        <3>1. Numbered' \in SUBSET Callers
            BY <1>4
        <3> QED
            BY <1>4, <2>1, <3>1, BusyCounts
    <2>2. CASE t \notin Numbered
        <3>1. Numbered' = Numbered
            BY <1>4, <2>2
        <3>2. Cardinality(Numbered) \in Nat
            BY <1>4, BusyCounts
        <3> QED
            BY <3>1, <3>2
    <2> QED
        BY <2>1, <2>2
<1>7. Len(answers) + Cardinality(Busy) <= MaxInterns
      /\ sequence <= Len(answers) + Cardinality(Numbered)
      /\ \A u \in Busy : call[u].before <= Len(answers)
    BY DEF CallsBounded
<1>8. Len(answers') + Cardinality(Busy') <= MaxInterns
      /\ sequence' <= Len(answers') + Cardinality(Numbered')
    BY <1>1, <1>2, <1>5, <1>6, <1>7, InternConstants
<1>9. ASSUME NEW u \in Busy' PROVE call'[u].before <= Len(answers')
    <2>1. u \in Busy /\ u # t /\ call'[u] = call[u] /\ u \in Callers
        BY <1>2, <1>4, <1>9
    <2>2. call[u].before \in Nat
        BY <2>1, ThreadTypes DEF Busy
    <2> QED
        BY <1>1, <1>2, <1>7, <2>1, <2>2
<1>10. ASSUME NEW u \in Callers, Unlinked(u)' PROVE call'[u].block.size = frames'[call'[u].stack]
    <2>1. u # t
        BY <1>3, <1>10 DEF Unlinked
    <2> QED
        BY <1>2, <1>10, <2>1 DEF CallsBounded, Unlinked
<1> QED
    BY <1>8, <1>9, <1>10 DEF CallsBounded

LEMMA BoundedMove ==
    ASSUME StateTypes, CallsBounded, NEW t \in Callers, Stepped(t), Moved(t),
           \/ sequence' = sequence /\ (t \in Numbered <=> call'[t].at \in {"push", "insert"})
           \/ /\ sequence' = sequence + 1 /\ t \notin Numbered
              /\ call'[t].at \in {"push", "insert"},
           call'[t].at \in {"number", "push"} => call'[t].block.size = frames[call[t].stack]
    PROVE  CallsBounded'
<1>1. Len(answers) \in Nat /\ sequence \in Nat
    BY AnswerTypes DEF StateTypes
<1>2. /\ call'[t] # Idle /\ call[t] # Idle /\ answers' = answers
      /\ \A u \in Callers \ {t} : call'[u] = call[u]
      /\ call'[t].stack = call[t].stack /\ call'[t].before = call[t].before
      /\ frames' = frames
    BY DEF Stepped, Moved
<1>3. Busy' = Busy
    BY <1>2 DEF Busy
<1>4. Cardinality(Numbered) \in Nat /\ Numbered \in SUBSET Callers
    <2>1. Numbered \in SUBSET Callers
        BY DEF Numbered
    <2> QED
        BY <2>1, BusyCounts
<1>5. sequence' <= Len(answers') + Cardinality(Numbered')
    <2>1. sequence <= Len(answers) + Cardinality(Numbered)
        BY DEF CallsBounded
    <2>2. CASE sequence' = sequence /\ (t \in Numbered <=> call'[t].at \in {"push", "insert"})
        <3>1. Numbered' = Numbered
            BY <1>2, <2>2 DEF Numbered
        <3> QED
            BY <1>2, <2>1, <2>2, <3>1
    <2>3. CASE sequence' = sequence + 1 /\ t \notin Numbered
               /\ call'[t].at \in {"push", "insert"}
        <3>1. Numbered' = Numbered \cup {t}
            BY <1>2, <2>3 DEF Numbered
        <3>2. Cardinality(Numbered') = Cardinality(Numbered) + 1
            BY <1>4, <2>3, <3>1, BusyCounts
        <3> QED
            BY <1>1, <1>2, <1>4, <2>1, <2>3, <3>2
    <2> QED
        BY <2>2, <2>3
<1>6. ASSUME NEW u \in Busy' PROVE call'[u].before <= Len(answers')
    <2>1. u \in Busy /\ u \in Callers /\ call'[u].before = call[u].before
        BY <1>2, <1>3, <1>6 DEF Busy
    <2> QED
        BY <1>2, <2>1 DEF CallsBounded
<1>7. ASSUME NEW u \in Callers, Unlinked(u)' PROVE call'[u].block.size = frames'[call'[u].stack]
    <2>1. CASE u = t
        BY <1>2, <1>7, <2>1 DEF Unlinked
    <2>2. CASE u # t
        BY <1>2, <1>7, <2>2 DEF CallsBounded, Unlinked
    <2> QED
        BY <2>1, <2>2
<1> QED
    BY <1>2, <1>3, <1>5, <1>6, <1>7 DEF CallsBounded

\* What is said of the calls of others is still said.
LEMMA OthersStay ==
    ASSUME NEW t \in Callers, Stepped(t)
    PROVE  /\ \A s \in Stacks : ShardOf(s)' = ShardOf(s)
           /\ \A u \in Callers \ {t} : /\ InTable(u)' <=> InTable(u)
                                      /\ ShardOfCall(u)' = ShardOfCall(u)
<1>1. hash' = hash /\ \A u \in Callers \ {t} : call'[u] = call[u]
    BY DEF Stepped
<1>2. \A s \in Stacks : ShardOf(s)' = ShardOf(s)
    BY <1>1 DEF ShardOf
<1>3. \A u \in Callers \ {t} : InTable(u)' <=> InTable(u)
    BY <1>1 DEF InTable
<1>4. \A u \in Callers \ {t} : ShardOfCall(u)' = ShardOfCall(u)
    BY <1>1, Zenon DEF ShardOfCall, ShardOf
<1> QED
    BY <1>2, <1>3, <1>4

LEMMA ShardOfMoved ==
    ASSUME NEW t \in Callers, Stepped(t), Moved(t)
    PROVE  ShardOfCall(t)' = ShardOfCall(t)
BY Zenon DEF Stepped, Moved, ShardOfCall, ShardOf

\* A stack that is not found is not found later, while its map is as it was.
LEMMA NotFoundKept ==
    ASSUME StateTypes, KeysLead, NEW t \in Callers, Stepped(t), Extends, NEW s \in Stacks,
           intern'[ShardOf(s)] = intern[ShardOf(s)], ~Found(s)
    PROVE  ~Found(s)'
<1>1. PICK i \in ShardIds : i = ShardOf(s)
    BY ShardTypes DEF StateTypes
<1>2. hash' = hash /\ ShardOf(s)' = i
    BY <1>1, OthersStay DEF Stepped
<1>3. ASSUME Found(s)' PROVE FALSE
    <2>1. hash[s] \in DOMAIN intern[i].index
          /\ records'[i].elements[intern[i].index[hash[s]]].stack = s
        BY <1>1, <1>2, <1>3, Zenon DEF Found
    <2>2. intern[i].index[hash[s]] \in DOMAIN Points(i)
        BY <2>1 DEF KeysLead
    <2>3. records'[i].elements[intern[i].index[hash[s]]] = Points(i)[intern[i].index[hash[s]]]
        BY <2>2 DEF Extends
    <2>4. Points(i)[intern[i].index[hash[s]]].stack = s
        BY <2>1, <2>3
    <2>5. records[i].elements[intern[i].index[hash[s]]].stack = s
        BY <2>4 DEF Points
    <2> QED
        BY <1>1, <2>1, <2>5, Zenon DEF Found
<1> QED
    BY <1>3

\* The thread goes on in the shard, or comes into a shard that is free, or leaves it.
LEMMA LockKept ==
    ASSUME StateTypes, OneInShard, KeysLead, NEW t \in Callers, Stepped(t), Extends,
           InTable(t)' => /\ Moved(t)
                          /\ \/ InTable(t)
                             \/ ~Locked(ShardOfCall(t)) /\ ~Found(call[t].stack)
                          /\ intern'[ShardOfCall(t)] = intern[ShardOfCall(t)],
           \A i \in ShardIds : intern'[i] = intern[i] \/ (InTable(t) /\ i = ShardOfCall(t))
    PROVE  OneInShard'
<1>1. \A u \in Callers \ {t} : call'[u] = call[u] /\ (InTable(u)' <=> InTable(u))
                              /\ ShardOfCall(u)' = ShardOfCall(u)
    BY OthersStay DEF Stepped
<1>2. \A u \in Callers : InTable(u) => u \in Busy /\ call[u].at # "lookup" /\ call[u].stack \in Stacks
    <2>1. SUFFICES ASSUME NEW u \in Callers, InTable(u)
                   PROVE  u \in Busy /\ call[u].at # "lookup" /\ call[u].stack \in Stacks
        OBVIOUS
    <2>2. call[u].at \in {"frames", "number", "push", "insert"}
        BY <2>1 DEF InTable
    <2>3. call[u] # Idle
        BY <2>2, ThreadTypes
    <2> QED
        BY <2>2, <2>3, ThreadTypes DEF Busy
<1>3. ASSUME InTable(t)', NEW u \in Callers \ {t}, InTable(u), ShardOfCall(u) = ShardOfCall(t)'
      PROVE  FALSE
    <2>1. ShardOfCall(t)' = ShardOfCall(t)
        BY <1>3, ShardOfMoved
    <2>2. CASE InTable(t)
        BY <1>3, <2>1, <2>2 DEF OneInShard
    <2>3. CASE ~InTable(t)
        <3>1. ~Locked(ShardOfCall(t))
            BY <1>3, <2>3
        <3>2. u \in Busy /\ call[u].at # "lookup" /\ ShardOf(call[u].stack) = ShardOfCall(t)
            BY <1>2, <1>3, <2>1 DEF ShardOfCall
        <3> QED
            BY <3>1, <3>2 DEF Locked
    <2> QED
        BY <2>2, <2>3
<1>4. ASSUME NEW u \in Callers, NEW v \in Callers, InTable(u)', InTable(v)',
             ShardOfCall(u)' = ShardOfCall(v)'
      PROVE  u = v
    <2>1. CASE u # t /\ v # t
        BY <1>1, <1>4, <2>1 DEF OneInShard
    <2>2. CASE u = t /\ v # t
        BY <1>1, <1>3, <1>4, <2>2
    <2>3. CASE u # t /\ v = t
        BY <1>1, <1>3, <1>4, <2>3
    <2> QED
        BY <2>1, <2>2, <2>3
<1>5. ASSUME NEW u \in Callers, InTable(u)' PROVE ~Found(call[u].stack)'
    <2>1. CASE u = t
        <3>1. call'[t].stack = call[t].stack /\ call[t].stack \in Stacks /\ call[t] # Idle
            BY <1>5, <2>1, ThreadTypes DEF Moved
        <3>2. ~Found(call[t].stack)
            BY <1>5, <2>1 DEF OneInShard
        <3>3. intern'[ShardOf(call[t].stack)] = intern[ShardOf(call[t].stack)]
            BY <1>5, <2>1 DEF ShardOfCall
        <3>4. PICK s \in Stacks : s = call[t].stack
            BY <3>1
        <3>5. ~Found(s)'
            BY <3>2, <3>3, <3>4, NotFoundKept
        <3> QED
            BY <2>1, <3>1, <3>4, <3>5, Zenon DEF Found, ShardOf
    <2>2. CASE u # t
        <3>1. call'[u] = call[u] /\ InTable(u) /\ call[u].stack \in Stacks
            BY <1>1, <1>2, <1>5, <2>2
        <3>2. ~Found(call[u].stack)
            BY <3>1 DEF OneInShard
        <3>3. intern'[ShardOfCall(u)] = intern[ShardOfCall(u)]
            <4>1. ShardOfCall(u) \in ShardIds
                BY <3>1, ShardTypes DEF ShardOfCall, StateTypes
            <4>2. ~(InTable(t) /\ ShardOfCall(u) = ShardOfCall(t))
                BY <2>2, <3>1 DEF OneInShard
            <4> QED
                BY <4>1, <4>2
        <3>4. PICK s \in Stacks : s = call[u].stack
            BY <3>1
        <3>5. ~Found(s)'
            BY <3>2, <3>3, <3>4, NotFoundKept DEF ShardOfCall
        <3> QED
            BY <3>1, <3>4, <3>5, Zenon DEF Found, ShardOf
    <2> QED
        BY <2>1, <2>2
<1> QED
    BY <1>4, <1>5 DEF OneInShard

-----------------------------------------------------------------------------
(* The records, the keys that lead to them, and the answers *)

AnswersStay ==
    \A n \in DOMAIN answers : n \in DOMAIN answers' /\ answers'[n] = answers[n]

LEMMA AnswersAreKept ==
    ASSUME StateTypes, NEW t, NEW id, answers' = answers \/ Answered(t, id)
    PROVE  AnswersStay
<1>1. Len(answers) \in Nat /\ DOMAIN answers = 1..Len(answers)
    BY AnswerTypes
<1>2. CASE answers' = answers
    BY <1>2 DEF AnswersStay
<1>3. CASE Answered(t, id)
    <2>1. DOMAIN answers' = 1..(Len(answers) + 1) /\ \A n \in DOMAIN answers : answers'[n] = answers[n]
        BY <1>3 DEF Answered
    <2>2. \A n \in 1..Len(answers) : n \in 1..(Len(answers) + 1)
        BY <1>1
    <2> QED
        BY <1>1, <2>1, <2>2 DEF AnswersStay
<1> QED
    BY <1>2, <1>3

LEMMA KeysLeadKept ==
    ASSUME StateTypes, KeysLead, NEW t \in Callers, Stepped(t), Extends, AnswersStay,
           intern' = intern
    PROVE  KeysLead'
<1>1. hash' = hash
    BY DEF Stepped
<1>2. ASSUME NEW i \in ShardIds, NEW k \in DOMAIN intern[i].index
      PROVE  /\ intern[i].index[k] \in DOMAIN records'[i].elements
             /\ hash[records'[i].elements[intern[i].index[k]].stack] = k
             /\ HasId(i, intern[i].index[k])
             /\ \E n \in DOMAIN answers' : answers'[n].id = PpId(i, intern[i].index[k])
    <2>1. /\ intern[i].index[k] \in DOMAIN Points(i)
          /\ hash[Points(i)[intern[i].index[k]].stack] = k
          /\ HasId(i, intern[i].index[k])
          /\ \E n \in DOMAIN answers : answers[n].id = PpId(i, intern[i].index[k])
        BY DEF KeysLead
    <2>2. /\ intern[i].index[k] \in DOMAIN records'[i].elements
          /\ records'[i].elements[intern[i].index[k]] = Points(i)[intern[i].index[k]]
        BY <2>1 DEF Extends
    <2>3. \E n \in DOMAIN answers' : answers'[n].id = PpId(i, intern[i].index[k])
        BY <2>1 DEF AnswersStay
    <2> QED
        BY <2>1, <2>2, <2>3, Zenon
<1> QED
    BY <1>1, <1>2, ZenonT(40) DEF KeysLead, Points

\* A new key leads to the record the thread pushed.
LEMMA KeysLeadInsert ==
    ASSUME StateTypes, KeysLead, InsertsItsOwn, NEW t \in Callers, Stepped(t),
           call[t].at = "insert", NEW i \in ShardIds, i = ShardOfCall(t), records' = records,
           Answered(t, PpId(i, call[t].index)),
           \A j \in ShardIds \ {i} : intern'[j] = intern[j],
           intern'[i].index = [k \in DOMAIN intern[i].index \cup {hash[call[t].stack]} |->
                                 IF k = hash[call[t].stack] THEN call[t].index
                                 ELSE intern[i].index[k]]
    PROVE  KeysLead'
<1>1. hash' = hash
    BY DEF Stepped
<1>2. /\ call[t].index \in DOMAIN Points(i) /\ Points(i)[call[t].index].stack = call[t].stack
      /\ HasId(i, call[t].index)
    BY DEF InsertsItsOwn
<1>3. AnswersStay /\ \E n \in DOMAIN answers' : answers'[n].id = PpId(i, call[t].index)
    <2>1. Len(answers) \in Nat
        BY AnswerTypes
    <2>2. Len(answers) + 1 \in DOMAIN answers' /\ answers'[Len(answers) + 1].id = PpId(i, call[t].index)
        BY <2>1 DEF Answered
    <2> QED
        BY <2>2, AnswersAreKept
<1>4. ASSUME NEW j \in ShardIds, NEW k \in DOMAIN intern'[j].index
      PROVE  /\ intern'[j].index[k] \in DOMAIN Points(j)
             /\ hash[Points(j)[intern'[j].index[k]].stack] = k
             /\ HasId(j, intern'[j].index[k])
             /\ \E n \in DOMAIN answers' : answers'[n].id = PpId(j, intern'[j].index[k])
    <2>1. CASE j = i /\ k = hash[call[t].stack]
        <3>1. intern'[j].index[k] = call[t].index
            BY <2>1
        <3> QED
            BY <2>1, <3>1, <1>2, <1>3
    <2>2. CASE j # i \/ k # hash[call[t].stack]
        <3>1. k \in DOMAIN intern[j].index /\ intern'[j].index[k] = intern[j].index[k]
            BY <2>2, <1>4
        <3>2. /\ intern[j].index[k] \in DOMAIN Points(j)
              /\ hash[Points(j)[intern[j].index[k]].stack] = k
              /\ HasId(j, intern[j].index[k])
              /\ \E n \in DOMAIN answers : answers[n].id = PpId(j, intern[j].index[k])
            BY <3>1 DEF KeysLead
        <3>3. \E n \in DOMAIN answers' : answers'[n].id = PpId(j, intern[j].index[k])
            BY <1>3, <3>2 DEF AnswersStay
        <3> QED
            BY <3>1, <3>2, <3>3, Zenon
    <2> QED
        BY <2>1, <2>2
<1> QED
    BY <1>1, <1>4, ZenonT(40) DEF KeysLead, Points

LEMMA OwnKept ==
    ASSUME StateTypes, InsertsItsOwn, NEW t \in Callers, Stepped(t), Extends,
           call'[t].at = "insert" =>
             /\ Moved(t)
             /\ call'[t].index \in DOMAIN records'[ShardOfCall(t)].elements
             /\ records'[ShardOfCall(t)].elements[call'[t].index].stack = call[t].stack
             /\ HasId(ShardOfCall(t), call'[t].index)
    PROVE  InsertsItsOwn'
<1>1. ASSUME NEW u \in Callers, call'[u].at = "insert"
      PROVE  /\ call'[u].index \in DOMAIN records'[ShardOfCall(u)'].elements
             /\ records'[ShardOfCall(u)'].elements[call'[u].index].stack = call'[u].stack
             /\ HasId(ShardOfCall(u)', call'[u].index)
    <2>1. CASE u = t
        <3>1. ShardOfCall(u)' = ShardOfCall(t) /\ call'[t].stack = call[t].stack
            BY <1>1, <2>1, ShardOfMoved DEF Moved
        <3> QED
            BY <1>1, <2>1, <3>1, Zenon
    <2>2. CASE u # t
        <3>1. call'[u] = call[u] /\ ShardOfCall(u)' = ShardOfCall(u)
            BY <2>2, OthersStay DEF Stepped
        <3>2. call[u] # Idle /\ call[u].stack \in Stacks
            BY <1>1, <3>1, ThreadTypes
        <3>3. ShardOfCall(u) \in ShardIds
            BY <3>2, ShardTypes DEF ShardOfCall, StateTypes
        <3>4. /\ call[u].index \in DOMAIN Points(ShardOfCall(u))
              /\ Points(ShardOfCall(u))[call[u].index].stack = call[u].stack
              /\ HasId(ShardOfCall(u), call[u].index)
            BY <1>1, <3>1 DEF InsertsItsOwn
        <3>5. call[u].index \in DOMAIN records'[ShardOfCall(u)].elements
              /\ records'[ShardOfCall(u)].elements[call[u].index] = Points(ShardOfCall(u))[call[u].index]
            BY <3>3, <3>4 DEF Extends
        <3> QED
            BY <3>1, <3>4, <3>5, Zenon
    <2> QED
        BY <2>1, <2>2
<1> QED
    BY <1>1, Zenon DEF InsertsItsOwn, Points

\* Where the id of an answer leads, now and after the step.
LEMMA AnswerLeads ==
    ASSUME StateTypes, AnswersHaveRecords, Extends, NEW n \in DOMAIN answers,
           NEW x, x = answers[n].id, x # OVERFLOW
    PROVE  \E i \in ShardIds, m \in Nat \ {0} :
               /\ Leads(n, i, m) /\ x = PpId(i, m)
               /\ RecordAt(x) = Points(i)[m]
               /\ m \in DOMAIN records'[i].elements
               /\ records'[i].elements[m] = Points(i)[m]
               /\ records'[x % SHARDS].elements[x \div SHARDS + 1] = Points(i)[m]
<1>1. PICK i \in ShardIds, m \in Nat \ {0} : Leads(n, i, m)
    BY DEF AnswersHaveRecords
<1>2. x = PpId(i, m) /\ m \in DOMAIN Points(i)
    BY <1>1 DEF Leads
<1>3. x % SHARDS = i /\ x \div SHARDS + 1 = m
    BY <1>2, PlaceOfId
<1>4. RecordAt(x) = Points(i)[m]
    BY <1>2, RecordOfId
<1>5. m \in DOMAIN records'[i].elements /\ records'[i].elements[m] = Points(i)[m]
    BY <1>2 DEF Extends
<1> QED
    BY <1>1, <1>2, <1>3, <1>4, <1>5, Zenon

LEMMA RecordStays ==
    ASSUME StateTypes, AnswersHaveRecords, Extends, NEW n \in DOMAIN answers,
           NEW x, x = answers[n].id, x # OVERFLOW
    PROVE  RecordAt(x)' = RecordAt(x) /\ RecordAt(x).sequence \in Nat
<1>1. PICK i \in ShardIds, m \in Nat \ {0} :
          /\ Leads(n, i, m) /\ RecordAt(x) = Points(i)[m]
          /\ records'[x % SHARDS].elements[x \div SHARDS + 1] = Points(i)[m]
    BY AnswerLeads
<1>2. RecordAt(x)' = records'[x % SHARDS].elements[x \div SHARDS + 1]
    BY Zenon DEF RecordAt
<1>3. Points(i)[m].sequence \in Nat
    BY <1>1, PointTypes DEF Leads
<1> QED
    BY <1>1, <1>2, <1>3, Zenon

\* A new answer is the overflow point's, or leads to a record of its stack.
LEMMA AnswersKept ==
    ASSUME StateTypes, CallsBounded, AnswersHaveRecords, NEW t \in Callers, Stepped(t), Extends,
           NEW id,
           \/ answers' = answers
           \/ /\ Answered(t, id)
              /\ \/ id = OVERFLOW
                 \/ \E i \in ShardIds, m \in Nat \ {0} :
                        /\ m \in DOMAIN Points(i) /\ HasId(i, m) /\ id = PpId(i, m)
                        /\ Points(i)[m].stack = call[t].stack
    PROVE  AnswersHaveRecords'
<1> DEFINE Lead2(n, i, m) == /\ m \in DOMAIN records'[i].elements /\ HasId(i, m)
                             /\ answers'[n].id = PpId(i, m)
                             /\ records'[i].elements[m].stack = answers'[n].stack
<1>1. AnswersStay /\ Len(answers) \in Nat /\ DOMAIN answers = 1..Len(answers)
    BY AnswersAreKept, AnswerTypes
<1>2. ASSUME NEW n \in DOMAIN answers
      PROVE  /\ answers'[n].id # OVERFLOW => \E i \in ShardIds, m \in Nat \ {0} : Lead2(n, i, m)
             /\ answers'[n].before < n
    <2>1. answers'[n] = answers[n] /\ answers[n].before < n
        BY <1>1, <1>2 DEF AnswersStay, AnswersHaveRecords
    <2>2. ASSUME answers[n].id # OVERFLOW
          PROVE  \E i \in ShardIds, m \in Nat \ {0} : Lead2(n, i, m)
        <3>1. PICK i \in ShardIds, m \in Nat \ {0} : Leads(n, i, m)
            BY <2>2 DEF AnswersHaveRecords
        <3>2. Lead2(n, i, m)
            BY <2>1, <3>1 DEF Leads, Extends
        <3> QED
            BY <3>2
    <2> QED
        BY <2>1, <2>2
<1>3. ASSUME NEW n \in DOMAIN answers'
      PROVE  /\ answers'[n].id # OVERFLOW => \E i \in ShardIds, m \in Nat \ {0} : Lead2(n, i, m)
             /\ answers'[n].before < n
    <2>1. CASE n \in DOMAIN answers
        BY <2>1, <1>2
    <2>2. CASE n \notin DOMAIN answers
        <3>1. /\ Answered(t, id)
              /\ \/ id = OVERFLOW
                 \/ \E i \in ShardIds, m \in Nat \ {0} :
                        /\ m \in DOMAIN Points(i) /\ HasId(i, m) /\ id = PpId(i, m)
                        /\ Points(i)[m].stack = call[t].stack
            BY <1>3, <2>2
        <3>2. n = Len(answers) + 1
            BY <1>1, <1>3, <2>2, <3>1 DEF Answered
        <3>3. answers'[n].id = id /\ answers'[n].stack = call[t].stack
              /\ answers'[n].before = call[t].before /\ call[t] # Idle
            BY <3>1, <3>2 DEF Answered
        <3>4. answers'[n].before < n
            <4>1. t \in Busy
                BY <3>3 DEF Busy
            <4>2. call[t].before <= Len(answers) /\ call[t].before \in Nat
                BY <3>3, <4>1, ThreadTypes DEF CallsBounded
            <4> QED
                BY <1>1, <3>2, <3>3, <4>2
        <3>5. ASSUME id # OVERFLOW PROVE \E i \in ShardIds, m \in Nat \ {0} : Lead2(n, i, m)
            <4>1. PICK i \in ShardIds, m \in Nat \ {0} :
                        /\ m \in DOMAIN Points(i) /\ HasId(i, m) /\ id = PpId(i, m)
                        /\ Points(i)[m].stack = call[t].stack
                BY <3>1, <3>5
            <4>2. Lead2(n, i, m)
                BY <3>3, <4>1 DEF Extends
            <4> QED
                BY <4>2
        <3> QED
            BY <3>3, <3>4, <3>5
    <2> QED
        BY <2>1, <2>2
<1> QED
    BY <1>3, Zenon DEF AnswersHaveRecords, Leads, Points

-----------------------------------------------------------------------------
(* One record for each stack, and the order of their numbers *)

\* A refusal, once answered, is remembered.
LEMMA RefusalsStay ==
    ASSUME StateTypes, AnswersStay, NEW s, WasRefused(s)
    PROVE  WasRefused(s)'
<1>1. \E n \in DOMAIN answers : answers[n].id = OVERFLOW /\ answers[n].stack = s
    BY DEF WasRefused
<1>2. \E n \in DOMAIN answers' : answers'[n].id = OVERFLOW /\ answers'[n].stack = s
    BY <1>1 DEF AnswersStay
<1> QED
    BY <1>2, Zenon DEF WasRefused

LEMMA RefusalAnswers ==
    ASSUME StateTypes, NEW t, NEW s, Answered(t, OVERFLOW), call[t].stack = s
    PROVE  WasRefused(s)'
<1>1. Len(answers) + 1 \in DOMAIN answers'
    BY AnswerTypes DEF Answered
<1>2. \E n \in DOMAIN answers' : answers'[n].id = OVERFLOW /\ answers'[n].stack = s
    BY <1>1 DEF Answered
<1> QED
    BY <1>2, Zenon DEF WasRefused

\* The keys are as they were, and what is new is under way or refused.
LEMMA ExcusesKept ==
    ASSUME StateTypes, KeptOrExcused, InsertsItsOwn, NEW t \in Callers, Stepped(t), Extends,
           AnswersStay, intern' = intern,
           call[t].at = "insert" => Answered(t, OVERFLOW),
           \A i \in ShardIds : \A m \in DOMAIN records'[i].elements :
               \/ m \in DOMAIN Points(i)
               \/ /\ i = ShardOfCall(t) /\ records'[i].elements[m].stack = call[t].stack
                  /\ \/ Moved(t) /\ call'[t].at = "insert" /\ call'[t].index = m
                     \/ Answered(t, OVERFLOW)
    PROVE  KeptOrExcused'
<1>1. hash' = hash
    BY DEF Stepped
<1> DEFINE Key2(i, m, s) == hash[s] \in DOMAIN intern[i].index /\ intern[i].index[hash[s]] = m
           Inserting2(i, m) == \E u \in Callers : /\ call'[u].at = "insert"
                                                  /\ ShardOfCall(u)' = i /\ call'[u].index = m
           Excused(i, m, s) == Key2(i, m, s) \/ Inserting2(i, m) \/ SharesHash(s) \/ WasRefused(s)'
<1>2. ASSUME NEW i \in ShardIds, NEW m \in DOMAIN Points(i), NEW s, s = Points(i)[m].stack
      PROVE  Excused(i, m, s)
    <2>1. s = Points(i)[m].stack
        BY <1>2
    <2>2. \/ HasKey(i, m) \/ Inserting(i, m) \/ SharesHash(s) \/ WasRefused(s)
        BY <2>1 DEF KeptOrExcused
    <2>3. CASE HasKey(i, m)
        BY <2>1, <2>3 DEF HasKey
    <2>4. CASE Inserting(i, m)
        <3>1. PICK u \in Callers : call[u].at = "insert" /\ ShardOfCall(u) = i /\ call[u].index = m
            BY <2>4 DEF Inserting
        <3>2. CASE u = t
            <4>1. call[t].stack = s /\ Answered(t, OVERFLOW)
                BY <2>1, <3>1, <3>2 DEF InsertsItsOwn
            <4> QED
                BY <2>1, <4>1, RefusalAnswers
        <3>3. CASE u # t
            <4>1. call'[u] = call[u] /\ ShardOfCall(u)' = ShardOfCall(u)
                BY <3>3, OthersStay DEF Stepped
            <4>2. Inserting2(i, m)
                BY <3>1, <4>1
            <4> QED
                BY <4>2
        <3> QED
            BY <3>2, <3>3
    <2>5. CASE SharesHash(s)
        BY <2>1, <2>5
    <2>6. CASE WasRefused(s)
        BY <2>1, <2>6, RefusalsStay
    <2> QED
        BY <2>2, <2>3, <2>4, <2>5, <2>6
<1>3. ASSUME NEW i \in ShardIds, NEW m \in DOMAIN records'[i].elements,
             NEW s, s = records'[i].elements[m].stack
      PROVE  Excused(i, m, s)
    <2>1. CASE m \in DOMAIN Points(i)
        <3>1. records'[i].elements[m] = Points(i)[m]
            BY <2>1 DEF Extends
        <3> HIDE DEF Excused
        <3> QED
            BY <1>2, <1>3, <2>1, <3>1
    <2>2. CASE m \notin DOMAIN Points(i)
        <3>1. /\ i = ShardOfCall(t) /\ records'[i].elements[m].stack = call[t].stack
              /\ \/ Moved(t) /\ call'[t].at = "insert" /\ call'[t].index = m
                 \/ Answered(t, OVERFLOW)
            BY <1>3, <2>2
        <3>2. CASE Moved(t) /\ call'[t].at = "insert" /\ call'[t].index = m
            <4>1. ShardOfCall(t)' = i
                BY <3>1, <3>2, ShardOfMoved
            <4>2. Inserting2(i, m)
                BY <3>2, <4>1
            <4> QED
                BY <4>2
        <3>3. CASE Answered(t, OVERFLOW)
            <4>1. s = call[t].stack
                BY <1>3, <3>1
            <4> QED
                BY <3>3, <4>1, RefusalAnswers
        <3> QED
            BY <3>1, <3>2, <3>3
    <2> QED
        BY <2>1, <2>2
<1>4. \A i \in ShardIds : \A m \in DOMAIN records'[i].elements :
          \/ HasKey(i, m)' \/ Inserting(i, m)'
          \/ SharesHash(records[i].elements[m].stack)' \/ WasRefused(records[i].elements[m].stack)'
    <2> SUFFICES ASSUME NEW i \in ShardIds, NEW m \in DOMAIN records'[i].elements
                 PROVE  \/ HasKey(i, m)' \/ Inserting(i, m)'
                        \/ SharesHash(records[i].elements[m].stack)'
                        \/ WasRefused(records[i].elements[m].stack)'
        OBVIOUS
    <2>1. PICK s : s = records'[i].elements[m].stack
        OBVIOUS
    <2>2. Excused(i, m, s)
        BY <1>3, <2>1
    <2>3. CASE Key2(i, m, s)
        BY <1>1, <2>1, <2>3, Zenon DEF HasKey, Points
    <2>4. CASE Inserting2(i, m)
        BY <2>4, Zenon DEF Inserting
    <2>5. CASE SharesHash(s)
        BY <1>1, <2>1, <2>5, Zenon DEF SharesHash
    <2>6. CASE WasRefused(s)'
        BY <2>1, <2>6, Zenon DEF WasRefused
    <2> QED
        BY <2>2, <2>3, <2>4, <2>5, <2>6
<1> QED
    BY <1>4, Zenon DEF KeptOrExcused, Points

\* A new key: the record that had it is of another stack with the same hash.
LEMMA ExcusesInsert ==
    ASSUME StateTypes, KeptOrExcused, KeysLead, OneInShard, InsertsItsOwn, ShardsOk,
           NEW t \in Callers, Stepped(t), AnswersStay, records' = records,
           call[t].at = "insert", NEW i \in ShardIds, i = ShardOfCall(t),
           \A j \in ShardIds \ {i} : intern'[j] = intern[j],
           intern'[i].index = [k \in DOMAIN intern[i].index \cup {hash[call[t].stack]} |->
                                 IF k = hash[call[t].stack] THEN call[t].index
                                 ELSE intern[i].index[k]]
    PROVE  KeptOrExcused'
<1>1. hash' = hash /\ call[t].stack \in Stacks
    <2>1. call[t] # Idle
        BY ThreadTypes
    <2> QED
        BY <2>1, ThreadTypes DEF Stepped
<1>2. Points(i)[call[t].index].stack = call[t].stack
    BY DEF InsertsItsOwn
<1> DEFINE Key2(j, m, s) == hash[s] \in DOMAIN intern'[j].index /\ intern'[j].index[hash[s]] = m
           Inserting2(j, m) == \E u \in Callers : /\ call'[u].at = "insert"
                                                  /\ ShardOfCall(u)' = j /\ call'[u].index = m
           Excused(j, m, s) == Key2(j, m, s) \/ Inserting2(j, m) \/ SharesHash(s) \/ WasRefused(s)'
<1>3. ASSUME NEW j \in ShardIds, NEW m \in DOMAIN Points(j), NEW s, s = Points(j)[m].stack
      PROVE  Excused(j, m, s)
    <2>1. s \in Stacks /\ s = Points(j)[m].stack
        BY <1>3, PointTypes
    <2>2. HasKey(j, m) \/ Inserting(j, m) \/ SharesHash(s) \/ WasRefused(s)
        BY <2>1 DEF KeptOrExcused
    <2>3. CASE HasKey(j, m)
        <3>1. hash[s] \in DOMAIN intern[j].index /\ intern[j].index[hash[s]] = m
            BY <2>1, <2>3 DEF HasKey
        <3>2. CASE j = i /\ hash[s] = hash[call[t].stack]
            <4>1. s # call[t].stack
                <5>1. ASSUME s = call[t].stack PROVE Found(s)
                    <6>1. ShardOf(s) = i
                        BY <5>1 DEF ShardOfCall
                    <6>2. records[i].elements[intern[i].index[hash[s]]].stack = s
                        BY <2>1, <3>1, <3>2 DEF Points
                    <6> QED
                        BY <3>1, <3>2, <6>1, <6>2, Zenon DEF Found
                <5>2. ~Found(call[t].stack)
                    BY DEF OneInShard, InTable
                <5> QED
                    BY <5>1, <5>2
            <4>2. SharesHash(s)
                BY <1>1, <3>2, <4>1 DEF SharesHash
            <4> QED
                BY <2>1, <4>2
        <3>3. CASE j # i \/ hash[s] # hash[call[t].stack]
            <4>1. hash[s] \in DOMAIN intern'[j].index /\ intern'[j].index[hash[s]] = m
                BY <3>1, <3>3
            <4> QED
                BY <2>1, <4>1
        <3> QED
            BY <3>2, <3>3
    <2>4. CASE Inserting(j, m)
        <3>1. PICK u \in Callers : call[u].at = "insert" /\ ShardOfCall(u) = j /\ call[u].index = m
            BY <2>4 DEF Inserting
        <3>2. CASE u = t
            <4>1. j = i /\ m = call[t].index /\ s = call[t].stack
                BY <1>2, <2>1, <3>1, <3>2
            <4>2. hash[s] \in DOMAIN intern'[j].index /\ intern'[j].index[hash[s]] = m
                BY <4>1
            <4> QED
                BY <2>1, <4>2
        <3>3. CASE u # t
            <4>1. call'[u] = call[u] /\ ShardOfCall(u)' = ShardOfCall(u)
                BY <3>3, OthersStay DEF Stepped
            <4>2. Inserting2(j, m)
                BY <3>1, <4>1
            <4> QED
                BY <4>2
        <3> QED
            BY <3>2, <3>3
    <2>5. CASE SharesHash(s)
        BY <2>1, <2>5
    <2>6. CASE WasRefused(s)
        BY <2>1, <2>6, RefusalsStay
    <2> QED
        BY <2>2, <2>3, <2>4, <2>5, <2>6
<1>4. \A j \in ShardIds : \A m \in DOMAIN records'[j].elements :
          \/ HasKey(j, m)' \/ Inserting(j, m)'
          \/ SharesHash(records[j].elements[m].stack)' \/ WasRefused(records[j].elements[m].stack)'
    <2> SUFFICES ASSUME NEW j \in ShardIds, NEW m \in DOMAIN records'[j].elements
                 PROVE  \/ HasKey(j, m)' \/ Inserting(j, m)'
                        \/ SharesHash(records[j].elements[m].stack)'
                        \/ WasRefused(records[j].elements[m].stack)'
        OBVIOUS
    <2>1. PICK s : s = records'[j].elements[m].stack
        OBVIOUS
    <2>2. m \in DOMAIN Points(j) /\ s = Points(j)[m].stack
        BY <2>1 DEF Points
    <2>3. Excused(j, m, s)
        BY <1>3, <2>2
    <2>4. CASE Key2(j, m, s)
        BY <1>1, <2>1, <2>4, Zenon DEF HasKey, Points
    <2>5. CASE Inserting2(j, m)
        BY <2>5, Zenon DEF Inserting
    <2>6. CASE SharesHash(s)
        BY <1>1, <2>1, <2>6, Zenon DEF SharesHash
    <2>7. CASE WasRefused(s)'
        BY <2>1, <2>7, Zenon DEF WasRefused
    <2> QED
        BY <2>3, <2>4, <2>5, <2>6, <2>7
<1> QED
    BY <1>4, Zenon DEF KeptOrExcused, Points

\* The records are as they were, and no thread has taken a number.
LEMMA ApartKept ==
    ASSUME StateTypes, NumbersApart, NEW t \in Callers, Stepped(t), records' = records,
           sequence' = sequence, call'[t].at # "push"
    PROVE  NumbersApart'
<1>1. \A u \in Callers : call'[u].at = "push" => u # t /\ call'[u] = call[u]
                                              /\ ShardOfCall(u)' = ShardOfCall(u)
    BY OthersStay DEF Stepped
<1> DEFINE P(i) == records'[i].elements
<1>2. \A i : Points(i) = P(i)
    BY DEF Points
<1>3. /\ \A i, j \in ShardIds : \A m \in DOMAIN P(i), n \in DOMAIN P(j) :
            P(i)[m].sequence = P(j)[n].sequence => i = j /\ m = n
      /\ \A i \in ShardIds : \A m \in DOMAIN P(i) : P(i)[m].sequence < sequence
      /\ \A i \in ShardIds : \A m, n \in DOMAIN P(i) :
            m < n => P(i)[m].sequence < P(i)[n].sequence
    BY DEF NumbersApart, Points
<1>4. \A u \in Callers : call'[u].at = "push" =>
            /\ call'[u].sequence < sequence
            /\ \A i \in ShardIds : \A m \in DOMAIN P(i) : P(i)[m].sequence # call'[u].sequence
            /\ \A m \in DOMAIN P(ShardOfCall(u)') :
                   P(ShardOfCall(u)')[m].sequence < call'[u].sequence
    BY <1>1, <1>2 DEF NumbersApart
<1>5. \A u, v \in Callers :
            call'[u].at = "push" /\ call'[v].at = "push" /\ call'[u].sequence = call'[v].sequence
            => u = v
    BY <1>1 DEF NumbersApart
<1> QED
    BY <1>3, <1>4, <1>5, Zenon DEF NumbersApart, Points

\* next_sequence.fetch_add.
LEMMA ApartNumber ==
    ASSUME StateTypes, NumbersApart, NEW t \in Callers, Stepped(t), Moved(t), records' = records,
           sequence' = sequence + 1, call'[t].at = "push", call'[t].sequence = sequence,
           ShardOfCall(t) \in ShardIds
    PROVE  NumbersApart'
<1>1. \A u \in Callers \ {t} : call'[u] = call[u] /\ ShardOfCall(u)' = ShardOfCall(u)
    BY OthersStay DEF Stepped
<1>2. ShardOfCall(t)' = ShardOfCall(t)
    BY ShardOfMoved
<1> DEFINE P(i) == records'[i].elements
<1>3. \A i : Points(i) = P(i)
    BY DEF Points
<1>4. sequence \in Nat /\ \A i \in ShardIds : \A m \in DOMAIN P(i) :
            P(i)[m].sequence \in Nat /\ P(i)[m].sequence < sequence
    BY <1>3, PointTypes DEF NumbersApart, StateTypes
<1>5. /\ \A i, j \in ShardIds : \A m \in DOMAIN P(i), n \in DOMAIN P(j) :
            P(i)[m].sequence = P(j)[n].sequence => i = j /\ m = n
      /\ \A i \in ShardIds : \A m, n \in DOMAIN P(i) :
            m < n => P(i)[m].sequence < P(i)[n].sequence
    BY DEF NumbersApart, Points
<1>6. \A u \in Callers \ {t} : call'[u].at = "push" =>
            /\ call'[u].sequence \in Nat /\ call'[u].sequence < sequence
            /\ \A i \in ShardIds : \A m \in DOMAIN P(i) : P(i)[m].sequence # call'[u].sequence
            /\ \A m \in DOMAIN P(ShardOfCall(u)') :
                   P(ShardOfCall(u)')[m].sequence < call'[u].sequence
    BY <1>1, <1>3, ThreadTypes DEF NumbersApart
<1>7. \A i \in ShardIds : \A m \in DOMAIN P(i) : P(i)[m].sequence < sequence'
    BY <1>4
<1>8. \A u \in Callers : call'[u].at = "push" =>
            /\ call'[u].sequence < sequence'
            /\ \A i \in ShardIds : \A m \in DOMAIN P(i) : P(i)[m].sequence # call'[u].sequence
            /\ \A m \in DOMAIN P(ShardOfCall(u)') :
                   P(ShardOfCall(u)')[m].sequence < call'[u].sequence
    <2> SUFFICES ASSUME NEW u \in Callers, call'[u].at = "push"
                 PROVE  /\ call'[u].sequence < sequence'
                        /\ \A i \in ShardIds : \A m \in DOMAIN P(i) :
                               P(i)[m].sequence # call'[u].sequence
                        /\ \A m \in DOMAIN P(ShardOfCall(u)') :
                               P(ShardOfCall(u)')[m].sequence < call'[u].sequence
        OBVIOUS
    <2>1. CASE u = t
        <3>1. \A i \in ShardIds : \A m \in DOMAIN P(i) : P(i)[m].sequence # sequence
            BY <1>4
        <3>2. sequence < sequence'
            BY <1>4
        <3>3. \A m \in DOMAIN P(ShardOfCall(t)) : P(ShardOfCall(t))[m].sequence < sequence
            BY <1>4
        <3> QED
            BY <2>1, <3>1, <3>2, <3>3, <1>2, Zenon
    <2>2. CASE u # t
        <3>1. call'[u].sequence < sequence'
            BY <1>4, <1>6, <2>2
        <3> QED
            BY <1>6, <2>2, <3>1
    <2> QED
        BY <2>1, <2>2
<1>9. \A u, v \in Callers :
            call'[u].at = "push" /\ call'[v].at = "push" /\ call'[u].sequence = call'[v].sequence
            => u = v
    <2> SUFFICES ASSUME NEW u \in Callers, NEW v \in Callers, call'[u].at = "push",
                        call'[v].at = "push", call'[u].sequence = call'[v].sequence
                 PROVE  u = v
        OBVIOUS
    <2>1. CASE u # t /\ v # t
        BY <1>1, <2>1 DEF NumbersApart
    <2>2. CASE u = t /\ v # t
        BY <1>4, <1>6, <2>2
    <2>3. CASE u # t /\ v = t
        BY <1>4, <1>6, <2>3
    <2> QED
        BY <2>1, <2>2, <2>3
<1> QED
    BY <1>5, <1>7, <1>8, <1>9, Zenon DEF NumbersApart, Points

\* A record is pushed with the number its thread took.
LEMMA ApartPush ==
    ASSUME StateTypes, NumbersApart, OneInShard, NEW t \in Callers, Stepped(t), Extends,
           NEW i \in ShardIds, i = ShardOfCall(t), NEW n \in Nat, NEW p, OneIsNew(i, n, p),
           sequence' = sequence, call[t].at = "push", p.sequence = call[t].sequence,
           call'[t].at # "push"
    PROVE  NumbersApart'
<1>1. \A u \in Callers : call'[u].at = "push" => u # t /\ call'[u] = call[u]
                                              /\ ShardOfCall(u)' = ShardOfCall(u)
    BY OthersStay DEF Stepped
<1> DEFINE P(j) == records'[j].elements
           old == {x \in ShardIds \X Nat : x[2] \in DOMAIN Points(x[1])}
<1>2. \A j \in ShardIds : \A m \in DOMAIN P(j) :
          \/ m \in DOMAIN Points(j) /\ P(j)[m] = Points(j)[m]
          \/ j = i /\ m = n /\ P(j)[m].sequence = call[t].sequence /\ m \notin DOMAIN Points(j)
    BY DEF OneIsNew, Extends
<1>3. call[t].sequence \in Nat /\ call[t].sequence < sequence /\ sequence \in Nat
    BY ThreadTypes DEF NumbersApart, StateTypes
<1>4. \A j \in ShardIds : \A m \in DOMAIN Points(j) :
          /\ m \in Nat /\ Points(j)[m].sequence \in Nat /\ Points(j)[m].sequence < sequence
          /\ Points(j)[m].sequence # call[t].sequence
    BY PointTypes DEF NumbersApart
<1>5. \A m \in DOMAIN Points(i) : m < n /\ Points(i)[m].sequence < call[t].sequence
    BY DEF NumbersApart, OneIsNew
<1>6. ASSUME NEW j \in ShardIds, NEW k \in ShardIds, NEW m \in DOMAIN P(j), NEW q \in DOMAIN P(k),
             P(j)[m].sequence = P(k)[q].sequence
      PROVE  j = k /\ m = q
    <2>1. CASE m \in DOMAIN Points(j) /\ q \in DOMAIN Points(k)
        BY <1>2, <1>6, <2>1 DEF NumbersApart
    <2>2. CASE m \in DOMAIN Points(j) /\ q \notin DOMAIN Points(k)
        BY <1>2, <1>4, <1>6, <2>2
    <2>3. CASE m \notin DOMAIN Points(j) /\ q \in DOMAIN Points(k)
        BY <1>2, <1>4, <1>6, <2>3
    <2>4. CASE m \notin DOMAIN Points(j) /\ q \notin DOMAIN Points(k)
        BY <1>2, <2>4
    <2> QED
        BY <2>1, <2>2, <2>3, <2>4
<1>7. \A j \in ShardIds : \A m \in DOMAIN P(j) : P(j)[m].sequence < sequence
    BY <1>2, <1>3, <1>4
<1>8. ASSUME NEW j \in ShardIds, NEW m \in DOMAIN P(j), NEW q \in DOMAIN P(j), m < q
      PROVE  P(j)[m].sequence < P(j)[q].sequence
    <2>1. CASE m \in DOMAIN Points(j) /\ q \in DOMAIN Points(j)
        BY <1>2, <1>8, <2>1 DEF NumbersApart
    <2>2. CASE m \in DOMAIN Points(j) /\ q \notin DOMAIN Points(j)
        BY <1>2, <1>5, <2>2
    <2>3. CASE m \notin DOMAIN Points(j) /\ q \in DOMAIN Points(j)
        <3>1. j = i /\ m = n /\ q < n /\ q \in Nat
            BY <1>2, <1>4, <1>5, <2>3
        <3> QED
            BY <1>8, <3>1
    <2>4. CASE m \notin DOMAIN Points(j) /\ q \notin DOMAIN Points(j)
        <3>1. m = n /\ q = n
            BY <1>2, <2>4
        <3> QED
            BY <1>8, <3>1
    <2> QED
        BY <2>1, <2>2, <2>3, <2>4
<1>9. ASSUME NEW u \in Callers, call'[u].at = "push"
      PROVE  /\ call'[u].sequence < sequence
             /\ \A j \in ShardIds : \A m \in DOMAIN P(j) : P(j)[m].sequence # call'[u].sequence
             /\ \A m \in DOMAIN P(ShardOfCall(u)') :
                    P(ShardOfCall(u)')[m].sequence < call'[u].sequence
    <2>1. u # t /\ call'[u] = call[u] /\ ShardOfCall(u)' = ShardOfCall(u) /\ call[u].at = "push"
        BY <1>1, <1>9
    <2>2. /\ call[u].sequence < sequence /\ call[u].sequence # call[t].sequence
          /\ \A j \in ShardIds : \A m \in DOMAIN Points(j) : Points(j)[m].sequence # call[u].sequence
          /\ \A m \in DOMAIN Points(ShardOfCall(u)) :
                 Points(ShardOfCall(u))[m].sequence < call[u].sequence
        BY <2>1 DEF NumbersApart
    <2>3. ShardOfCall(u) # i
        BY <2>1 DEF OneInShard, InTable
    <2>4. ShardOfCall(u) \in ShardIds
        <3>1. call[u] # Idle
            BY <2>1, ThreadTypes
        <3>2. call[u].stack \in Stacks
            BY <3>1, ThreadTypes
        <3> QED
            BY <3>2, ShardTypes DEF ShardOfCall, StateTypes
    <2>5. \A j \in ShardIds : \A m \in DOMAIN P(j) : P(j)[m].sequence # call[u].sequence
        BY <1>2, <2>2
    <2>6. \A m \in DOMAIN P(ShardOfCall(u)) : P(ShardOfCall(u))[m].sequence < call[u].sequence
        BY <1>2, <2>2, <2>3, <2>4
    <2> QED
        BY <2>1, <2>2, <2>5, <2>6
<1>10. \A u, v \in Callers :
            call'[u].at = "push" /\ call'[v].at = "push" /\ call'[u].sequence = call'[v].sequence
            => u = v
    BY <1>1 DEF NumbersApart
<1> QED
    BY <1>6, <1>7, <1>8, <1>9, <1>10, Zenon DEF NumbersApart, Points

\* What is older stays older.
LEMMA OlderKept ==
    ASSUME StateTypes, AnswersHaveRecords, AnswersStay, Extends,
           NEW before \in Nat, before <= Len(answers), NEW number, OlderAnswers(before, number)
    PROVE  OlderAnswers(before, number)'
<1>1. ASSUME NEW m \in 1..before, NEW x, x = answers'[m].id, x # OVERFLOW
      PROVE  RecordAt(x).sequence < number /\ RecordAt(x)' = RecordAt(x)
    <2>1. m \in DOMAIN answers
        BY <1>1, AnswerTypes
    <2>2. x = answers[m].id
        BY <1>1, <2>1 DEF AnswersStay
    <2>3. RecordAt(x).sequence < number
        BY <1>1, <2>2 DEF OlderAnswers
    <2> QED
        BY <1>1, <2>1, <2>2, <2>3, RecordStays
<1>2. \A m \in 1..before : answers'[m].id # OVERFLOW => RecordAt(answers[m].id)'.sequence < number
    <2> TAKE m \in 1..before
    <2>1. PICK x : x = answers'[m].id
        OBVIOUS
    <2>2. RecordAt(answers[m].id)' = RecordAt(x)'
        BY <2>1, Zenon DEF RecordAt
    <2> QED
        BY <1>1, <2>1, <2>2
<1> QED
    BY <1>2, Zenon DEF OlderAnswers

LEMMA BeforeIsPast ==
    ASSUME StateTypes, CallsBounded, NEW u \in Callers, call[u] # Idle
    PROVE  call[u].before \in Nat /\ call[u].before <= Len(answers)
<1>1. u \in Busy
    BY DEF Busy
<1> QED
    BY <1>1, ThreadTypes DEF CallsBounded

LEMMA OrderKept ==
    ASSUME StateTypes, CallsBounded, AnswersHaveRecords, InsertsItsOwn, NumbersInOrder,
           NEW t \in Callers, Stepped(t), Extends, NEW id,
           \/ answers' = answers
           \/ /\ Answered(t, id)
              /\ \/ id = OVERFLOW
                 \/ \E n \in DOMAIN answers : answers[n].id = id
                 \/ \E i \in ShardIds : \E m \in DOMAIN Points(i) :
                        /\ id = PpId(i, m)
                        /\ OlderAnswers(call[t].before, Points(i)[m].sequence),
           call'[t].at = "push" => Moved(t) /\ OlderAnswers(call[t].before, call'[t].sequence),
           call'[t].at = "insert" =>
              /\ Moved(t)
              /\ OlderAnswers(call[t].before,
                              records'[ShardOfCall(t)].elements[call'[t].index].sequence)
    PROVE  NumbersInOrder'
<1>1. AnswersStay /\ Len(answers) \in Nat /\ DOMAIN answers = 1..Len(answers)
    BY AnswersAreKept, AnswerTypes
<1>2. ASSUME NEW u \in Callers, call'[u].at = "push", NEW b, b = call'[u].before,
             NEW x, x = call'[u].sequence
      PROVE  OlderAnswers(b, x)'
    <2>1. CASE u = t
        <3>1. Moved(t) /\ OlderAnswers(call[t].before, x)
            BY <1>2, <2>1
        <3>2. b = call[t].before /\ call[t] # Idle
            BY <1>2, <2>1, <3>1 DEF Moved
        <3>3. b \in Nat /\ b <= Len(answers)
            BY <3>2, BeforeIsPast
        <3> QED
            BY <1>1, <3>1, <3>2, <3>3, OlderKept
    <2>2. CASE u # t
        <3>1. call'[u] = call[u] /\ call[u].at = "push"
            BY <1>2, <2>2 DEF Stepped
        <3>2. call[u] # Idle
            BY <3>1, ThreadTypes
        <3>3. b \in Nat /\ b <= Len(answers) /\ OlderAnswers(b, x)
            BY <1>2, <3>1, <3>2, BeforeIsPast DEF NumbersInOrder
        <3> QED
            BY <1>1, <3>3, OlderKept
    <2> QED
        BY <2>1, <2>2
<1>3. ASSUME NEW u \in Callers, call'[u].at = "insert", NEW b, b = call'[u].before,
             NEW x, x = records'[ShardOfCall(u)'].elements[call'[u].index].sequence
      PROVE  OlderAnswers(b, x)'
    <2>1. CASE u = t
        <3>1. Moved(t) /\ ShardOfCall(t)' = ShardOfCall(t)
            BY <1>3, <2>1, ShardOfMoved
        <3>2. OlderAnswers(call[t].before, x)
            BY <1>3, <2>1, <3>1
        <3>3. b = call[t].before /\ call[t] # Idle
            BY <1>3, <2>1, <3>1 DEF Moved
        <3>4. b \in Nat /\ b <= Len(answers)
            BY <3>3, BeforeIsPast
        <3> QED
            BY <1>1, <3>2, <3>3, <3>4, OlderKept
    <2>2. CASE u # t
        <3>1. call'[u] = call[u] /\ call[u].at = "insert" /\ ShardOfCall(u)' = ShardOfCall(u)
            BY <1>3, <2>2, OthersStay DEF Stepped
        <3>2. call[u] # Idle /\ call[u].stack \in Stacks
            BY <3>1, ThreadTypes
        <3>3. ShardOfCall(u) \in ShardIds
            BY <3>2, ShardTypes DEF ShardOfCall, StateTypes
        <3>4. call[u].index \in DOMAIN Points(ShardOfCall(u))
            BY <3>1 DEF InsertsItsOwn
        <3>5. x = Points(ShardOfCall(u))[call[u].index].sequence
            BY <1>3, <3>1, <3>3, <3>4 DEF Extends
        <3>6. b \in Nat /\ b <= Len(answers) /\ OlderAnswers(b, x)
            BY <1>3, <3>1, <3>2, <3>5, BeforeIsPast DEF NumbersInOrder
        <3> QED
            BY <1>1, <3>6, OlderKept
    <2> QED
        BY <2>1, <2>2
<1>4. ASSUME NEW n \in DOMAIN answers', answers'[n].id # OVERFLOW,
             \A i \in 1..n - 1 : answers'[i].id # answers'[n].id,
             NEW b, b = answers'[n].before,
             NEW y, y = answers'[n].id, NEW x, x = RecordAt(y)'.sequence
      PROVE  OlderAnswers(b, x)'
    <2>1. CASE n \in DOMAIN answers
        <3>1. answers'[n] = answers[n] /\ b \in Nat /\ b < n /\ n <= Len(answers) /\ n \in Nat
            BY <1>1, <1>4, <2>1, AnswerTypes DEF AnswersStay, AnswersHaveRecords
        <3>2. \A i \in 1..n - 1 : answers[i].id # answers[n].id
            BY <1>1, <1>4, <3>1 DEF AnswersStay
        <3>3. x = RecordAt(y).sequence
            BY <1>4, <2>1, <3>1, RecordStays
        <3>4. OlderAnswers(b, x)
            BY <1>4, <2>1, <3>1, <3>2, <3>3 DEF NumbersInOrder
        <3>5. b <= Len(answers)
            BY <1>1, <3>1
        <3> QED
            BY <1>1, <3>1, <3>4, <3>5, OlderKept
    <2>2. CASE n \notin DOMAIN answers
        <3>1. /\ Answered(t, id)
              /\ \/ id = OVERFLOW
                 \/ \E m \in DOMAIN answers : answers[m].id = id
                 \/ \E i \in ShardIds : \E m \in DOMAIN Points(i) :
                        /\ id = PpId(i, m)
                        /\ OlderAnswers(call[t].before, Points(i)[m].sequence)
            BY <1>4, <2>2
        <3>2. n = Len(answers) + 1
            BY <1>1, <1>4, <2>2, <3>1 DEF Answered
        <3>3. y = id /\ b = call[t].before /\ call[t] # Idle
            BY <1>4, <3>1, <3>2 DEF Answered
        <3>4. \A m \in DOMAIN answers : answers[m].id # id
            <4>1. \A m \in DOMAIN answers : m \in 1..n - 1
                BY <1>1, <3>2
            <4> QED
                BY <1>1, <1>4, <3>3, <4>1 DEF AnswersStay
        <3>5. PICK i \in ShardIds : \E m \in DOMAIN Points(i) :
                        /\ id = PpId(i, m)
                        /\ OlderAnswers(call[t].before, Points(i)[m].sequence)
            BY <1>4, <3>1, <3>3, <3>4
        <3>6. PICK m \in DOMAIN Points(i) :
                        /\ id = PpId(i, m)
                        /\ OlderAnswers(call[t].before, Points(i)[m].sequence)
            BY <3>5
        <3>7. m \in Nat \ {0}
            BY <3>6, PointTypes
        <3>8. y % SHARDS = i /\ y \div SHARDS + 1 = m
            BY <3>3, <3>6, <3>7, PlaceOfId
        <3>9. RecordAt(y)' = records'[i].elements[m]
            BY <3>8, Zenon DEF RecordAt
        <3>10. x = Points(i)[m].sequence
            BY <1>4, <3>6, <3>9 DEF Extends
        <3>11. b \in Nat /\ b <= Len(answers)
            BY <3>3, BeforeIsPast
        <3>12. OlderAnswers(b, x)
            BY <3>3, <3>6, <3>10
        <3> QED
            BY <1>1, <3>11, <3>12, OlderKept
    <2> QED
        BY <2>1, <2>2
<1>5. \A u \in Callers :
        /\ call'[u].at = "push" => OlderAnswers(call[u].before, call[u].sequence)'
        /\ call'[u].at = "insert" =>
             OlderAnswers(call[u].before, records[ShardOfCall(u)].elements[call[u].index].sequence)'
    BY <1>2, <1>3, Zenon DEF OlderAnswers
<1>6. \A n \in DOMAIN answers' :
        /\ answers'[n].id # OVERFLOW
        /\ \A i \in 1..n - 1 : answers'[i].id # answers'[n].id
        => OlderAnswers(answers[n].before, RecordAt(answers[n].id).sequence)'
    BY <1>4, Zenon DEF OlderAnswers, RecordAt
<1> QED
    BY <1>5, <1>6, Zenon DEF NumbersInOrder, Points

-----------------------------------------------------------------------------
(* The blocks *)

LEMMA PushedIs ==
    \A p : p \in Pushed <=> \E i \in ShardIds : \E n \in DOMAIN Points(i) : p = <<i, n>>
BY DEF Pushed

LEMMA BlocksAre ==
    \A b : b \in Blocks <=>
        /\ b.size # 0
        /\ \/ \E i \in ShardIds : \E n \in DOMAIN Points(i) : b = Points(i)[n].block
           \/ \E t \in Callers : Unlinked(t) /\ b = call[t].block
           \/ \E i \in ShardIds : b = records[i].block
<1> TAKE b
<1>1. (\E p \in Pushed : b = RecordOf(p).block)
        <=> \E i \in ShardIds : \E n \in DOMAIN Points(i) : b = Points(i)[n].block
    <2>1. ASSUME NEW p \in Pushed, b = RecordOf(p).block
          PROVE  \E i \in ShardIds : \E n \in DOMAIN Points(i) : b = Points(i)[n].block
        <3>1. PICK i \in ShardIds : \E n \in DOMAIN Points(i) : p = <<i, n>>
            BY PushedIs
        <3>2. PICK n \in DOMAIN Points(i) : p = <<i, n>>
            BY <3>1
        <3>3. RecordOf(p) = Points(i)[n]
            BY <3>2 DEF RecordOf
        <3> QED
            BY <2>1, <3>3
    <2>2. ASSUME NEW i \in ShardIds, NEW n \in DOMAIN Points(i), b = Points(i)[n].block
          PROVE  \E p \in Pushed : b = RecordOf(p).block
        <3>1. <<i, n>> \in Pushed
            BY PushedIs
        <3>2. RecordOf(<<i, n>>) = Points(i)[n]
            BY DEF RecordOf
        <3> QED
            BY <2>2, <3>1, <3>2
    <2> QED
        BY <2>1, <2>2
<1>2. (\E t \in {u \in Busy : call[u].at \in {"number", "push"}} : b = call[t].block)
        <=> \E t \in Callers : Unlinked(t) /\ b = call[t].block
    <2>1. \A t \in Callers : Unlinked(t) => t \in Busy
        BY DEF Unlinked, Busy, Idle
    <2> QED
        BY <2>1 DEF Unlinked, Busy
<1>3. b \in Blocks <=>
        /\ b.size # 0
        /\ \/ \E p \in Pushed : b = RecordOf(p).block
           \/ \E t \in {u \in Busy : call[u].at \in {"number", "push"}} : b = call[t].block
           \/ \E i \in ShardIds : b = records[i].block
    BY DEF Blocks, FrameBlocks, VecBlocks
<1> QED
    BY <1>1, <1>2, <1>3

LEMMA BlocksAreNext ==
    (\A b : b \in Blocks <=>
        /\ b.size # 0
        /\ \/ \E i \in ShardIds : \E n \in DOMAIN Points(i) : b = Points(i)[n].block
           \/ \E t \in Callers : Unlinked(t) /\ b = call[t].block
           \/ \E i \in ShardIds : b = records[i].block)'
BY BlocksAre, PTL

LEMMA PushedIsNext ==
    (\A p : p \in Pushed <=> \E i \in ShardIds : \E n \in DOMAIN Points(i) : p = <<i, n>>)'
BY PushedIs, PTL

\* One block more at most, apart from all that were there.
LEMMA BlocksKept ==
    ASSUME BlocksApart, NEW block \in AWord, NewBlock(arena, arena', block),
           \A b \in AWord : Placed(arena, b) => Placed(arena', b),
           \A b \in Blocks' : b \in Blocks \/ b = block
    PROVE  BlocksApart'
<1>1. \A b \in Blocks' : b.size # 0
    BY BlocksAreNext
<1>2. ASSUME NEW b \in Blocks' PROVE b \in AWord /\ Placed(arena', b)
    <2>1. CASE b \in Blocks
        BY <2>1 DEF BlocksApart
    <2>2. CASE b = block
        BY <1>1, <2>2 DEF NewBlock
    <2> QED
        BY <2>1, <2>2
<1>3. ASSUME NEW b \in Blocks', NEW c \in Blocks', c # b PROVE Apart(b, c)
    <2>1. CASE b \in Blocks /\ c \in Blocks
        BY <1>3, <2>1 DEF BlocksApart
    <2>2. CASE b \in Blocks /\ c \notin Blocks
        <3>1. c = block /\ c.size # 0 /\ b \in AWord /\ Placed(arena, b)
            BY <1>1, <2>2 DEF BlocksApart
        <3> QED
            BY <3>1 DEF NewBlock
    <2>3. CASE b \notin Blocks /\ c \in Blocks
        <3>1. b = block /\ b.size # 0 /\ c \in AWord /\ Placed(arena, c)
            BY <1>1, <2>3 DEF BlocksApart
        <3> QED
            BY <3>1 DEF NewBlock
    <2>4. CASE b \notin Blocks /\ c \notin Blocks
        BY <1>3, <2>4
    <2> QED
        BY <2>1, <2>2, <2>3, <2>4
<1>4. \A b \in Blocks' : Placed(arena, b)' <=> Placed(arena', b)
    BY Zenon DEF Placed, Inside
<1> QED
    BY <1>2, <1>3, <1>4, Zenon DEF BlocksApart, Apart

\* A block is of a record, of a vector, or of a call that goes on.
LEMMA BlocksComeFrom ==
    ASSUME NEW t \in Callers, Stepped(t), Extends, NEW block,
           \A i \in ShardIds : records'[i].block \in {records[i].block, block},
           \A i \in ShardIds : \A m \in DOMAIN records'[i].elements :
               \/ m \in DOMAIN Points(i)
               \/ Unlinked(t) /\ records'[i].elements[m].block = call[t].block,
           call'[t].at \in {"number", "push"} =>
               call'[t].block = block \/ (Unlinked(t) /\ call'[t].block = call[t].block)
    PROVE  \A b \in Blocks' : b \in Blocks \/ b = block
<1> TAKE b \in Blocks'
<1>1. /\ b.size # 0
      /\ \/ \E i \in ShardIds : \E n \in DOMAIN records'[i].elements :
                b = records'[i].elements[n].block
         \/ \E u \in Callers : call'[u].at \in {"number", "push"} /\ b = call'[u].block
         \/ \E i \in ShardIds : b = records'[i].block
    BY BlocksAreNext, Zenon DEF Points, Unlinked
<1>2. ASSUME NEW u \in Callers, Unlinked(u), b = call[u].block PROVE b \in Blocks
    BY <1>1, <1>2, BlocksAre
<1>3. ASSUME NEW i \in ShardIds, NEW n \in DOMAIN records'[i].elements,
             b = records'[i].elements[n].block
      PROVE  b \in Blocks
    <2>1. CASE n \in DOMAIN Points(i)
        <3>1. b = Points(i)[n].block
            BY <1>3, <2>1 DEF Extends
        <3> QED
            BY <1>1, <2>1, <3>1, BlocksAre
    <2>2. CASE n \notin DOMAIN Points(i)
        BY <1>2, <1>3, <2>2
    <2> QED
        BY <2>1, <2>2
<1>4. ASSUME NEW u \in Callers, call'[u].at \in {"number", "push"}, b = call'[u].block
      PROVE  b \in Blocks \/ b = block
    <2>1. CASE u = t
        BY <1>2, <1>4, <2>1
    <2>2. CASE u # t
        <3>1. Unlinked(u) /\ b = call[u].block
            BY <1>4, <2>2 DEF Stepped, Unlinked
        <3> QED
            BY <1>2, <3>1
    <2> QED
        BY <2>1, <2>2
<1>5. ASSUME NEW i \in ShardIds, b = records'[i].block PROVE b \in Blocks \/ b = block
    <2>1. b = block \/ b = records[i].block
        BY <1>5
    <2> QED
        BY <1>1, <2>1, BlocksAre
<1> QED
    BY <1>1, <1>3, <1>4, <1>5

-----------------------------------------------------------------------------
(* The books *)

OfShards == SumFunction([i \in ShardIds |-> intern[i].slots * SlotLayout.size
                                              + VecBytes(records[i], RecordLayout)])
OfFrames == SumFunction([p \in Pushed |-> frames[RecordOf(p).stack]])
FramesHeld(t)  == IF call[t].at \in {"number", "push"} THEN frames[call[t].stack] ELSE 0

LEMMA ShardIdsAre == IsFiniteSet(ShardIds) /\ ShardIds \subseteq Nat
BY InternConstants, FS_Interval DEF ShardIds

\* What a shard has of the arena.
LEMMA ShardHas ==
    ASSUME ShardsOk
    PROVE  \A i \in ShardIds :
             /\ intern[i].slots \in Nat /\ records[i].capacity \in Nat
             /\ intern[i].wasted \in Nat /\ records[i].wasted \in Nat
             /\ intern[i].slots * SlotLayout.size + VecBytes(records[i], RecordLayout)
                  = 2 * intern[i].slots + 2 * records[i].capacity
<1> TAKE i \in ShardIds
<1>1. intern[i].slots \in Nat /\ intern[i].wasted \in Nat
    BY CeilingTypes DEF ShardsOk, MapOk
<1>2. records[i].capacity \in Nat /\ records[i].wasted \in Nat
    BY DEF ShardsOk, VecOk, AVec
<1>3. intern[i].slots * 2 + records[i].capacity * 2 = 2 * intern[i].slots + 2 * records[i].capacity
    BY <1>1, <1>2
<1> QED
    BY <1>1, <1>2, <1>3, RecordLayoutIs, SlotLayoutIs DEF VecBytes

LEMMA ShardHasNext ==
    (ShardsOk => \A i \in ShardIds :
             /\ intern[i].slots \in Nat /\ records[i].capacity \in Nat
             /\ intern[i].wasted \in Nat /\ records[i].wasted \in Nat
             /\ intern[i].slots * SlotLayout.size + VecBytes(records[i], RecordLayout)
                  = 2 * intern[i].slots + 2 * records[i].capacity)'
BY ShardHas, PTL

\* The sums over the shards, after a change in one.
LEMMA ShardSums ==
    ASSUME ShardsOk, ShardsOk', NEW i \in ShardIds,
           \A j \in ShardIds \ {i} : records'[j] = records[j] /\ intern'[j] = intern[j]
    PROVE  /\ OfShards \in Int /\ OfShards' \in Int /\ Wasted \in Int /\ Wasted' \in Int
           /\ OfShards' = OfShards + ((2 * intern'[i].slots + 2 * records'[i].capacity)
                                        - (2 * intern[i].slots + 2 * records[i].capacity))
           /\ Wasted' = Wasted + ((intern'[i].wasted + records'[i].wasted)
                                        - (intern[i].wasted + records[i].wasted))
<1> DEFINE f == [j \in ShardIds |-> intern[j].slots * SlotLayout.size
                                      + VecBytes(records[j], RecordLayout)]
           g == [j \in ShardIds |-> intern'[j].slots * SlotLayout.size
                                      + VecBytes(records'[j], RecordLayout)]
           v == [j \in ShardIds |-> intern[j].wasted + records[j].wasted]
           w == [j \in ShardIds |-> intern'[j].wasted + records'[j].wasted]
<1>1. \A j \in ShardIds :
         /\ intern[j].slots \in Nat /\ records[j].capacity \in Nat
         /\ intern[j].wasted \in Nat /\ records[j].wasted \in Nat
         /\ f[j] = 2 * intern[j].slots + 2 * records[j].capacity
    BY ShardHas
<1>2. \A j \in ShardIds :
         /\ intern'[j].slots \in Nat /\ records'[j].capacity \in Nat
         /\ intern'[j].wasted \in Nat /\ records'[j].wasted \in Nat
         /\ g[j] = 2 * intern'[j].slots + 2 * records'[j].capacity
    BY ShardHasNext DEF VecBytes
<1>3. OfShards = SumFunction(f) /\ Wasted = SumFunction(v)
    BY DEF OfShards, Wasted
<1>4. OfShards' = SumFunction(g) /\ Wasted' = SumFunction(w)
    BY DEF OfShards, Wasted, VecBytes
<1>5. \A j \in ShardIds : j # i => g[j] = f[j] /\ w[j] = v[j]
    OBVIOUS
<1>6. /\ DOMAIN f = ShardIds /\ f = [j \in ShardIds |-> f[j]]
      /\ DOMAIN g = ShardIds /\ g = [j \in ShardIds |-> g[j]]
    OBVIOUS
<1>7. v \in [ShardIds -> Int] /\ w \in [ShardIds -> Int]
    BY <1>1, <1>2
<1>8. v[i] = intern[i].wasted + records[i].wasted /\ w[i] = intern'[i].wasted + records'[i].wasted
    OBVIOUS
<1> HIDE DEF f, g, v, w
<1>9. f \in [ShardIds -> Int] /\ g \in [ShardIds -> Int]
    <2>1. \A j \in ShardIds : f[j] \in Int /\ g[j] \in Int
        BY <1>1, <1>2
    <2> QED
        BY <1>6, <2>1
<1>s. IsFiniteSet(ShardIds) /\ (\A j \in ShardIds : j # i => g[j] = f[j])
      /\ (\A j \in ShardIds : j # i => w[j] = v[j])
    BY <1>5, ShardIdsAre
<1>10. /\ SumFunction(f) \in Int /\ SumFunction(g) \in Int
       /\ SumFunction(g) = SumFunction(f) + (g[i] - f[i])
    BY <1>s, <1>9, SumUpdate
<1>11. /\ SumFunction(v) \in Int /\ SumFunction(w) \in Int
       /\ SumFunction(w) = SumFunction(v) + (w[i] - v[i])
    BY <1>s, <1>7, SumUpdate
<1>12. f[i] = 2 * intern[i].slots + 2 * records[i].capacity
       /\ g[i] = 2 * intern'[i].slots + 2 * records'[i].capacity
    BY <1>1, <1>2
<1> QED
    BY <1>3, <1>4, <1>8, <1>10, <1>11, <1>12, Zenon

\* What calls under way hold.
LEMMA HeldSums ==
    ASSUME StateTypes, NEW t \in Callers, Stepped(t),
           call'[t] # Idle => call'[t].stack \in Stacks
    PROVE  /\ UnderWay \in Int /\ UnderWay' \in Int
           /\ UnderWay' = UnderWay + (FramesHeld(t)' - FramesHeld(t))
<1> DEFINE f == [u \in Callers |-> FramesHeld(u)]
           g == [u \in Callers |-> IF call'[u].at \in {"number", "push"}
                                   THEN frames[call'[u].stack] ELSE 0]
<1>1. UnderWay = SumFunction(f)
    BY DEF UnderWay, FramesHeld
<1>2. UnderWay' = SumFunction(g) /\ FramesHeld(t)' = g[t]
    BY DEF UnderWay, FramesHeld, Stepped
<1>3. \A u \in Callers : u # t => g[u] = f[u]
    BY DEF Stepped, FramesHeld
<1>4. \A s \in Stacks : frames[s] \in Int
    <2>1. \A x \in FrameWords : x \in Int
        BY InternConstants
    <2> QED
        BY <2>1 DEF StateTypes
<1>5. \A u \in Callers : f[u] \in Int
    <2> TAKE u \in Callers
    <2>1. CASE call[u].at \in {"number", "push"}
        <3>1. call[u].stack \in Stacks
            BY <2>1, ThreadTypes
        <3> QED
            BY <1>4, <3>1 DEF FramesHeld
    <2>2. CASE call[u].at \notin {"number", "push"}
        BY <2>2 DEF FramesHeld
    <2> QED
        BY <2>1, <2>2
<1>6. \A u \in Callers : g[u] \in Int
    <2> TAKE u \in Callers
    <2>1. CASE u = t /\ call'[t] # Idle
        BY <1>4, <2>1
    <2>2. CASE u = t /\ call'[t] = Idle
        BY <2>2 DEF Idle
    <2>3. CASE u # t
        BY <1>3, <1>5, <2>3
    <2> QED
        BY <2>1, <2>2, <2>3
<1>7. f[t] = FramesHeld(t)
    OBVIOUS
<1>8. f \in [Callers -> Int] /\ g \in [Callers -> Int]
    BY <1>5, <1>6
<1> HIDE DEF f, g
<1>9. /\ SumFunction(f) \in Int /\ SumFunction(g) \in Int
      /\ SumFunction(g) = SumFunction(f) + (g[t] - f[t])
    BY <1>3, <1>8, InternConstants, SumUpdate
<1> QED
    BY <1>1, <1>2, <1>7, <1>9, Zenon

LEMMA PushedFinite ==
    ASSUME StateTypes
    PROVE  IsFiniteSet(Pushed)
<1> DEFINE P(i) == {<<i, n>> : n \in DOMAIN Points(i)}  F == {P(i) : i \in ShardIds}
<1>1. ASSUME NEW i \in ShardIds PROVE IsFiniteSet(P(i))
    <2>1. IsFiniteSet(DOMAIN Points(i))
        BY PointTypes, FS_Interval
    <2>2. IsFiniteSet({i} \X DOMAIN Points(i))
        BY <2>1, FS_Singleton, FS_Product
    <2>3. P(i) = {i} \X DOMAIN Points(i)
        OBVIOUS
    <2> QED
        BY <2>2, <2>3
<1>2. IsFiniteSet(F)
    <2> DEFINE g == [i \in ShardIds |-> P(i)]
    <2>1. g \in Surjection(ShardIds, F)
        BY DEF Surjection
    <2> HIDE DEF g, F
    <2> QED
        BY <2>1, ShardIdsAre, FS_Surjection
<1>3. \A T \in F : IsFiniteSet(T)
    BY <1>1
<1> HIDE DEF F
<1>4. IsFiniteSet(UNION F)
    BY <1>2, <1>3, FS_UNION
<1>5. Pushed = UNION F
    BY DEF Pushed, F
<1> QED
    BY <1>4, <1>5

\* The frames of the records.
FramesOf(p) == frames[RecordOf(p).stack]

LEMMA FramesTypes ==
    ASSUME StateTypes
    PROVE  \A p \in Pushed : RecordOf(p).stack \in Stacks /\ FramesOf(p) \in Nat
<1> TAKE p \in Pushed
<1>1. PICK i \in ShardIds : \E n \in DOMAIN Points(i) : p = <<i, n>>
    BY PushedIs
<1>2. PICK n \in DOMAIN Points(i) : p = <<i, n>>
    BY <1>1
<1>3. RecordOf(p).stack \in Stacks
    BY <1>2, PointTypes DEF RecordOf
<1>4. \A x \in FrameWords : x \in Nat
    BY InternConstants
<1> QED
    BY <1>3, <1>4 DEF StateTypes, FramesOf

LEMMA FramesStay ==
    ASSUME StateTypes, frames' = frames, Extends
    PROVE  \A p \in Pushed : p \in Pushed' /\ FramesOf(p)' = FramesOf(p)
<1> TAKE p \in Pushed
<1>1. PICK i \in ShardIds : \E n \in DOMAIN Points(i) : p = <<i, n>>
    BY PushedIs
<1>2. PICK n \in DOMAIN Points(i) : p = <<i, n>>
    BY <1>1
<1>3. n \in DOMAIN records'[i].elements /\ records'[i].elements[n] = Points(i)[n]
    BY <1>2 DEF Extends
<1>4. p \in Pushed'
    BY <1>2, <1>3, PushedIsNext DEF Points
<1>5. RecordOf(p) = Points(i)[n]
    BY <1>2 DEF RecordOf
<1>6. RecordOf(p)' = records'[i].elements[n]
    BY <1>2 DEF RecordOf, Points
<1>7. FramesOf(p)' = frames'[(RecordOf(p)').stack] /\ FramesOf(p) = frames[RecordOf(p).stack]
    BY Zenon DEF FramesOf
<1> QED
    BY <1>3, <1>4, <1>5, <1>6, <1>7

LEMMA FramesSame ==
    ASSUME StateTypes, frames' = frames, Extends, NoneIsNew
    PROVE  OfFrames' = OfFrames /\ OfFrames \in Int
<1>1. Pushed' = Pushed
    <2>1. ASSUME NEW p \in Pushed' PROVE p \in Pushed
        <3>1. PICK i \in ShardIds : \E n \in DOMAIN records'[i].elements : p = <<i, n>>
            BY PushedIsNext DEF Points
        <3>2. PICK n \in DOMAIN records'[i].elements : p = <<i, n>>
            BY <3>1
        <3>3. n \in DOMAIN Points(i)
            BY <3>2 DEF NoneIsNew
        <3> QED
            BY <3>2, <3>3, PushedIs
    <2>2. \A p : p \in Pushed' <=> p \in Pushed
        BY <2>1, FramesStay
    <2> QED
        BY <2>2, Zenon
<1> DEFINE f == [p \in Pushed |-> FramesOf(p)]  g == [p \in Pushed' |-> FramesOf(p)']
<1>2. f = g
    BY <1>1, FramesStay
<1>3. OfFrames = SumFunction(f) /\ OfFrames' = SumFunction(g)
    BY Zenon DEF OfFrames, FramesOf
<1>4. f \in [Pushed -> Int]
    BY FramesTypes
<1> HIDE DEF f, g
<1>5. SumFunction(f) \in Int
    BY <1>4, PushedFinite, SumIsInt
<1> QED
    BY <1>2, <1>3, <1>5

LEMMA FramesGrow ==
    ASSUME StateTypes, frames' = frames, Extends, NEW i \in ShardIds, NEW n, NEW p,
           OneIsNew(i, n, p), p.stack \in Stacks
    PROVE  /\ OfFrames' = OfFrames + frames[p.stack]
           /\ OfFrames \in Int /\ OfFrames' \in Int /\ frames[p.stack] \in Int
<1> DEFINE x == <<i, n>>
<1>1. x \notin Pushed
    <2> SUFFICES ASSUME x \in Pushed PROVE FALSE
        OBVIOUS
    <2>1. PICK j \in ShardIds : \E m \in DOMAIN Points(j) : x = <<j, m>>
        BY PushedIs
    <2>2. PICK m \in DOMAIN Points(j) : x = <<j, m>>
        BY <2>1
    <2>3. j = i /\ m = n
        BY <2>2
    <2> QED
        BY <2>2, <2>3 DEF OneIsNew
<1>2. Pushed' = Pushed \cup {x}
    <2>1. ASSUME NEW q \in Pushed' PROVE q \in Pushed \cup {x}
        <3>1. PICK j \in ShardIds : \E m \in DOMAIN records'[j].elements : q = <<j, m>>
            BY PushedIsNext DEF Points
        <3>2. PICK m \in DOMAIN records'[j].elements : q = <<j, m>>
            BY <3>1
        <3>3. m \in DOMAIN Points(j) \/ (j = i /\ m = n)
            BY <3>2 DEF OneIsNew
        <3> QED
            BY <3>2, <3>3, PushedIs
    <2>2. x \in Pushed'
        BY PushedIsNext DEF Points, OneIsNew
    <2>3. \A q : q \in Pushed' <=> q \in Pushed \cup {x}
        BY <2>1, <2>2, FramesStay
    <2> QED
        BY <2>3, Zenon
<1> DEFINE f == [q \in Pushed |-> FramesOf(q)]  g == [q \in Pushed' |-> FramesOf(q)']
<1>3. OfFrames = SumFunction(f) /\ OfFrames' = SumFunction(g)
    BY Zenon DEF OfFrames, FramesOf
<1>4. f \in [Pushed -> Int]
    BY FramesTypes
<1>5. FramesOf(x)' = frames[p.stack]
    <2>1. RecordOf(x)' = p
        BY DEF RecordOf, Points, OneIsNew
    <2>2. FramesOf(x)' = frames'[(RecordOf(x)').stack]
        BY Zenon DEF FramesOf
    <2> QED
        BY <2>1, <2>2
<1>6. frames[p.stack] \in Int
    <2>1. \A y \in FrameWords : y \in Int
        BY InternConstants
    <2> QED
        BY <2>1 DEF StateTypes
<1>7. \A q \in Pushed : g[q] = f[q]
    BY <1>2, FramesStay
<1>8. g[x] = frames[p.stack]
    BY <1>2, <1>5
<1>9. \A q \in Pushed \cup {x} : g[q] \in Int
    <2>1. \A q \in Pushed : f[q] \in Int
        BY FramesTypes
    <2> QED
        BY <1>6, <1>7, <1>8, <2>1
<1>10. g \in [Pushed \cup {x} -> Int]
    BY <1>2, <1>9
<1> HIDE DEF f, g, x
<1>11. /\ SumFunction(f) \in Int /\ SumFunction(g) \in Int
       /\ SumFunction(g) = SumFunction(f) + g[x]
    <2>1. IsFiniteSet(Pushed)
        BY PushedFinite
    <2>2. PICK S, y, h, k : S = Pushed /\ y = x /\ h = f /\ k = g
        OBVIOUS
    <2>3. /\ IsFiniteSet(S) /\ y \notin S /\ h \in [S -> Int] /\ k \in [S \cup {y} -> Int]
          /\ \A z \in S : k[z] = h[z]
        BY <1>1, <1>4, <1>7, <1>10, <2>1, <2>2, Zenon
    <2>4. SumFunction(k) = SumFunction(h) + k[y]
        BY <2>3, SumOfOneMore
    <2>5. SumFunction(h) \in Int /\ SumFunction(k) \in Int
        BY <2>3, SumIsInt, FS_AddElement
    <2> QED
        BY <2>2, <2>4, <2>5, Zenon
<1> QED
    BY <1>3, <1>6, <1>8, <1>11

BooksSum == arena.bytes_used = OfShards + OfFrames + Wasted + UnderWay + leaked

LEMMA BooksAre == BooksAgree <=> BooksSum
BY DEF BooksAgree, BooksSum, TableBytes, OfShards, OfFrames

LEMMA BooksAreNext == BooksAgree' <=> BooksSum'
BY BooksAre, PTL

\* What one shard has of the arena, and what its growth wasted.
ShardWords(i) == (2 * intern[i].slots + 2 * records[i].capacity)
                   + (intern[i].wasted + records[i].wasted)

\* The books after any step: new is the frames of the record it pushes.
LEMMA BooksKept ==
    ASSUME StateTypes, ShardsOk, ShardsOk', BooksAgree, NEW t \in Callers, Stepped(t),
           call'[t] # Idle => call'[t].stack \in Stacks,
           NEW i \in ShardIds,
           \A j \in ShardIds \ {i} : records'[j] = records[j] /\ intern'[j] = intern[j],
           Extends, NEW new \in Int,
           \/ NoneIsNew /\ new = 0
           \/ \E n, p : OneIsNew(i, n, p) /\ p.stack \in Stacks /\ new = frames[p.stack],
           arena.bytes_used \in Int, arena'.bytes_used \in Int, leaked' \in Int, FramesHeld(t) \in Int, FramesHeld(t)' \in Int,
           arena'.bytes_used + ShardWords(i) + FramesHeld(t) + leaked
             = arena.bytes_used + ShardWords(i)' + FramesHeld(t)' + leaked' + new
    PROVE  BooksAgree'
<1> DEFINE a == 2 * intern[i].slots + 2 * records[i].capacity
           b == 2 * intern'[i].slots + 2 * records'[i].capacity
           c == intern[i].wasted + records[i].wasted
           d == intern'[i].wasted + records'[i].wasted
<1>1. /\ OfShards \in Int /\ OfShards' \in Int /\ Wasted \in Int /\ Wasted' \in Int
      /\ OfShards' = OfShards + (b - a) /\ Wasted' = Wasted + (d - c)
    BY ShardSums
<1>2. /\ UnderWay \in Int /\ UnderWay' \in Int
      /\ UnderWay' = UnderWay + (FramesHeld(t)' - FramesHeld(t))
    BY HeldSums
<1>3. OfFrames' = OfFrames + new /\ OfFrames \in Int
    <2>1. CASE NoneIsNew /\ new = 0
        BY <2>1, FramesSame DEF Stepped
    <2>2. CASE \E n, p : OneIsNew(i, n, p) /\ p.stack \in Stacks /\ new = frames[p.stack]
        <3>1. PICK n : \E p : OneIsNew(i, n, p) /\ p.stack \in Stacks /\ new = frames[p.stack]
            BY <2>2
        <3>2. PICK p : OneIsNew(i, n, p) /\ p.stack \in Stacks /\ new = frames[p.stack]
            BY <3>1
        <3>3. frames' = frames
            BY DEF Stepped
        <3> QED
            BY <3>2, <3>3, FramesGrow
    <2> QED
        BY <2>1, <2>2
<1>4. a \in Int /\ b \in Int /\ c \in Int /\ d \in Int
    BY ShardHas, ShardHasNext
<1>5. ShardWords(i) = a + c /\ ShardWords(i)' = b + d
    BY DEF ShardWords
<1>6. arena.bytes_used = OfShards + OfFrames + Wasted + UnderWay + leaked /\ leaked \in Int
    BY BooksAre DEF BooksSum, StateTypes
<1> HIDE DEF a, b, c, d
<1>7. arena'.bytes_used + (a + c) + FramesHeld(t) + leaked
        = arena.bytes_used + (b + d) + FramesHeld(t)' + leaked' + new
    BY <1>5
<1> DEFINE h == FramesHeld(t)  k == FramesHeld(t)'
<1>8. h \in Int /\ k \in Int
    OBVIOUS
<1>9. UnderWay' = UnderWay + (k - h)
    BY <1>2
<1>10. arena'.bytes_used + (a + c) + h + leaked = arena.bytes_used + (b + d) + k + leaked' + new
    BY <1>7
<1> HIDE DEF h, k
<1>11. arena'.bytes_used = (OfShards + (b - a)) + (OfFrames + new) + (Wasted + (d - c))
                             + (UnderWay + (k - h)) + leaked'
    BY <1>1, <1>2, <1>3, <1>4, <1>6, <1>8, <1>10
<1>12. arena'.bytes_used = OfShards' + OfFrames' + Wasted' + UnderWay' + leaked'
    BY <1>1, <1>3, <1>9, <1>11, Zenon
<1> QED
    BY <1>12, BooksAreNext DEF BooksSum

-----------------------------------------------------------------------------
(* The steps *)

LEMMA SameRecords ==
    ASSUME records' = records
    PROVE  Extends /\ NoneIsNew
BY DEF Extends, NoneIsNew, Points

LEMMA ShardsSame ==
    ASSUME StateTypes, ShardsOk, NEW t \in Callers, Stepped(t), records' = records, intern' = intern
    PROVE  ShardsOk'
<1>1. ASSUME NEW i \in ShardIds, NEW n \in DOMAIN records'[i].elements
      PROVE  hash'[records'[i].elements[n].stack] % SHARDS = i
    BY DEF ShardsOk, Points, ShardOf, Stepped
<1>2. \A i \in ShardIds : VecOk(records'[i]) /\ MapOk(intern'[i])
    BY DEF ShardsOk
<1>3. intern' = [i \in ShardIds |-> intern'[i]]
    BY DEF ShardsOk
<1> QED
    BY <1>1, <1>2, <1>3, Zenon DEF ShardsOk, ShardOf, Points

\* A step that leaves the table as it is, but may number, answer and allocate.
LEMMA QuietStep ==
    ASSUME PointsInv, NEW t \in Callers, NEW id, Stepped(t), records' = records, intern' = intern,
           leaked' = leaked \/ leaked' \in Nat, sequence' \in Nat, answers' \in Seq(AnAnswer),
           \/ answers' = answers
           \/ /\ Answered(t, id)
              /\ \/ id = OVERFLOW
                 \/ \E i \in ShardIds, m \in Nat \ {0} :
                        /\ m \in DOMAIN Points(i) /\ HasId(i, m) /\ id = PpId(i, m)
                        /\ Points(i)[m].stack = call[t].stack,
           InTable(t)' => /\ Moved(t)
                          /\ \/ InTable(t)
                             \/ ~Locked(ShardOfCall(t)) /\ ~Found(call[t].stack),
           call[t].at # "insert", call'[t].at # "insert"
    PROVE  /\ StateTypes' /\ ShardsOk' /\ KeysLead' /\ OneInShard' /\ InsertsItsOwn'
           /\ AnswersHaveRecords' /\ KeptOrExcused'
<1>1. Extends /\ NoneIsNew
    BY SameRecords
<1>2. StateTypes'
    BY DEF PointsInv, StateTypes, Stepped
<1>3. ShardsOk'
    BY ShardsSame DEF PointsInv
<1>4. AnswersStay
    BY AnswersAreKept DEF PointsInv
<1>5. KeysLead'
    BY <1>1, <1>4, KeysLeadKept DEF PointsInv
<1>6. OneInShard'
    BY <1>1, LockKept DEF PointsInv
<1>7. InsertsItsOwn'
    BY <1>1, OwnKept DEF PointsInv
<1>8. AnswersHaveRecords'
    BY <1>1, AnswersKept DEF PointsInv
<1>9. KeptOrExcused'
    <2>1. \A i \in ShardIds : \A m \in DOMAIN records'[i].elements : m \in DOMAIN Points(i)
        BY <1>1 DEF NoneIsNew
    <2> QED
        BY <1>1, <1>4, <2>1, ExcusesKept DEF PointsInv
<1> QED
    BY <1>2, <1>3, <1>5, <1>6, <1>7, <1>8, <1>9

LEMMA NothingIsAWord == Nothing \in AWord /\ Nothing.size = 0
BY DEF Nothing, AWord

LEMMA HeldTypes ==
    ASSUME StateTypes, NEW t \in Callers, Stepped(t), call'[t] # Idle => call'[t].stack \in Stacks
    PROVE  FramesHeld(t) \in Nat /\ FramesHeld(t)' \in Nat
<1>1. \A x \in FrameWords : x \in Nat
    BY InternConstants
<1>2. \A s \in Stacks : frames[s] \in Nat /\ frames'[s] \in Nat
    BY <1>1 DEF StateTypes, Stepped
<1>3. call[t].at \in {"number", "push"} => call[t].stack \in Stacks
    BY ThreadTypes
<1>4. call'[t].at \in {"number", "push"} => call'[t].stack \in Stacks
    BY DEF Idle
<1> QED
    BY <1>2, <1>3, <1>4 DEF FramesHeld

\* The arena and its books after such a step.
LEMMA QuietArena ==
    ASSUME PointsInv, NEW t \in Callers, Stepped(t), records' = records, intern' = intern,
           leaked' = leaked, call'[t] # Idle => call'[t].stack \in Stacks,
           ArenaOk(arena'), \A b \in AWord : Placed(arena, b) => Placed(arena', b),
           NEW block \in AWord, NewBlock(arena, arena', block),
           call'[t].at \in {"number", "push"} =>
               call'[t].block = block \/ (Unlinked(t) /\ call'[t].block = call[t].block),
           arena'.bytes_used + FramesHeld(t) = arena.bytes_used + FramesHeld(t)'
    PROVE  ArenaOk(arena)' /\ BlocksApart' /\ BooksAgree'
<1>1. Extends /\ NoneIsNew
    BY SameRecords
<1>2. ArenaOk(arena)'
    BY Zenon DEF ArenaOk, HandedOut, InLast, LastChunk
<1>3. \A b \in Blocks' : b \in Blocks \/ b = block
    <2>1. \A i \in ShardIds : records'[i].block \in {records[i].block, block}
        OBVIOUS
    <2>2. \A i \in ShardIds : \A m \in DOMAIN records'[i].elements :
                \/ m \in DOMAIN Points(i)
                \/ Unlinked(t) /\ records'[i].elements[m].block = call[t].block
        BY <1>1 DEF NoneIsNew
    <2> QED
        BY <1>1, <2>1, <2>2, BlocksComeFrom
<1>4. BlocksApart'
    BY <1>3, BlocksKept DEF PointsInv
<1>5. arena \in ArenaState /\ arena' \in ArenaState
    BY DEF PointsInv, ArenaOk
<1>6. arena.bytes_used \in Int /\ arena'.bytes_used \in Int
    BY <1>5 DEF ArenaState
<1>7. StateTypes /\ ShardsOk /\ BooksAgree
    BY DEF PointsInv
<1>8. ShardsOk'
    BY <1>7, ShardsSame
<1>9. leaked \in Int /\ leaked' \in Int
    BY <1>7 DEF StateTypes
<1>10. FramesHeld(t) \in Int /\ FramesHeld(t)' \in Int
    BY <1>7, HeldTypes
<1>11. PICK i \in ShardIds : i = 0
    BY InternConstants DEF ShardIds
<1>12. ShardWords(i)' = ShardWords(i) /\ ShardWords(i) \in Int
    <2>1. ShardWords(i) \in Int
        BY <1>7, ShardHas DEF ShardWords
    <2> QED
        BY <2>1 DEF ShardWords
<1>13. arena'.bytes_used + ShardWords(i) + FramesHeld(t) + leaked
             = arena.bytes_used + ShardWords(i)' + FramesHeld(t)' + leaked' + 0
    <2> DEFINE x == arena'.bytes_used  y == arena.bytes_used  h == FramesHeld(t)  k == FramesHeld(t)'
               w == ShardWords(i)
    <2>1. x + h = y + k /\ x \in Int /\ y \in Int /\ h \in Int /\ k \in Int /\ w \in Int
        BY <1>6, <1>10, <1>12
    <2> HIDE DEF x, y, h, k, w
    <2>2. x + w + h + leaked = y + w + k + leaked + 0
        BY <2>1, <1>9
    <2> QED
        BY <2>2, <1>12 DEF x, y, h, k, w
<1>14. BooksAgree'
    <2>1. \A j \in ShardIds \ {i} : records'[j] = records[j] /\ intern'[j] = intern[j]
        OBVIOUS
    <2> QED
        BY <1>1, <1>6, <1>7, <1>8, <1>9, <1>10, <1>13, <2>1, BooksKept
<1> QED
    BY <1>2, <1>4, <1>14

\* A call that is replaced.
LEMMA CallReplaced ==
    ASSUME StateTypes, NEW t \in Callers, NEW c \in ACall, hash' = hash, frames' = frames,
           call' \in [Callers -> ACall], call'[t] = c, \A u \in Callers \ {t} : call'[u] = call[u]
    PROVE  Stepped(t) /\ (c # Idle => c.stack \in Stacks)
BY CallTypes DEF Stepped

LEMMA ArenaUntouched ==
    ASSUME PointsInv, NEW t \in Callers, Stepped(t), records' = records, intern' = intern,
           leaked' = leaked, arena' = arena, call'[t] # Idle => call'[t].stack \in Stacks,
           call'[t].at \in {"number", "push"} =>
               Unlinked(t) /\ call'[t].block = call[t].block,
           FramesHeld(t)' = FramesHeld(t)
    PROVE  ArenaOk(arena)' /\ BlocksApart' /\ BooksAgree'
<1>1. NewBlock(arena, arena', Nothing)
    BY NothingIsAWord DEF NewBlock
<1>2. ArenaOk(arena')
    BY DEF PointsInv
<1> QED
    BY <1>1, <1>2, NothingIsAWord, QuietArena

LEMMA PreservedByBegin ==
    ASSUME PointsInv, NEW t \in Callers, NEW s \in Stacks, Begin(t, s)
    PROVE  PointsInv'
<1> DEFINE c == [at |-> "lookup", stack |-> s, before |-> Len(answers)]
<1>0. StateTypes /\ CallsBounded /\ NumbersApart /\ NumbersInOrder /\ AnswersHaveRecords
      /\ InsertsItsOwn
    BY DEF PointsInv
<1>1. /\ call[t] = Idle /\ hash' = hash /\ frames' = frames /\ arena' = arena
      /\ records' = records /\ intern' = intern /\ sequence' = sequence
      /\ answers' = answers /\ leaked' = leaked
      /\ call' = [call EXCEPT ![t] = c]
    BY DEF Begin
<1>2. c \in ACall
    BY <1>0, AnswerTypes DEF ACall
<1>3. Stepped(t) /\ call'[t] = c
    BY <1>0, <1>1, <1>2 DEF StateTypes, Stepped
<1>4. call[t].at = "idle" /\ call'[t].at = "lookup" /\ call'[t].stack = s
    BY <1>1, <1>3 DEF Idle
<1>5. sequence' \in Nat /\ answers' \in Seq(AnAnswer)
    BY <1>0, <1>1 DEF StateTypes
<1>6. /\ StateTypes' /\ ShardsOk' /\ KeysLead' /\ OneInShard' /\ InsertsItsOwn'
      /\ AnswersHaveRecords' /\ KeptOrExcused'
    BY <1>1, <1>3, <1>4, <1>5, QuietStep DEF InTable
<1>7. CallsBounded'
    BY <1>0, BoundedBegin
<1>8. NumbersApart'
    BY <1>0, <1>1, <1>3, <1>4, ApartKept
<1>9. NumbersInOrder'
    BY <1>0, <1>1, <1>3, <1>4, SameRecords, OrderKept
<1>10. ArenaOk(arena)' /\ BlocksApart' /\ BooksAgree'
    <2>1. FramesHeld(t)' = FramesHeld(t)
        BY <1>4 DEF FramesHeld
    <2> QED
        BY <1>1, <1>3, <1>4, <2>1, ArenaUntouched
<1> QED
    BY <1>6, <1>7, <1>8, <1>9, <1>10 DEF PointsInv

LEMMA PreservedByLookup ==
    ASSUME PointsInv, NEW t \in Callers, Lookup(t)
    PROVE  PointsInv'
<1> DEFINE s == call[t].stack  shard == ShardOf(s)
<1>0. /\ StateTypes /\ CallsBounded /\ NumbersApart /\ NumbersInOrder /\ AnswersHaveRecords
      /\ InsertsItsOwn /\ KeysLead
    BY DEF PointsInv
<1>1. /\ call[t].at = "lookup" /\ hash' = hash /\ frames' = frames /\ arena' = arena
      /\ records' = records /\ intern' = intern /\ sequence' = sequence /\ leaked' = leaked
      /\ ~Locked(shard)
    BY DEF Lookup
<1>2. call[t] # Idle /\ s \in Stacks /\ call[t].before \in Nat
    BY <1>0, <1>1, ThreadTypes
<1>3. shard \in ShardIds
    BY <1>0, <1>2, ShardTypes DEF StateTypes
<1>4. sequence' \in Nat
    BY <1>0, <1>1 DEF StateTypes
<1>5. CASE Found(s)
    <2> DEFINE m == intern[shard].index[hash[s]]  id == PpId(shard, m)
    <2>1. Answers(t, id)
        BY <1>5 DEF Lookup
    <2>2. /\ m \in DOMAIN Points(shard) /\ HasId(shard, m)
          /\ \E n \in DOMAIN answers : answers[n].id = id
        BY <1>0, <1>3, <1>5 DEF Found, KeysLead
    <2>3. Points(shard)[m].stack = s
        BY <1>5 DEF Found, Points
    <2>4. m \in Nat \ {0}
        BY <1>0, <1>3, <2>2, PointTypes
    <2> HIDE DEF m
    <2>5. id \in 0..OVERFLOW
        BY <1>3, <2>2, <2>4, PlaceOfId, InternConstants DEF HasId
    <2> HIDE DEF id
    <2>6. Stepped(t) /\ Answered(t, id) /\ answers' \in Seq(AnAnswer)
        BY <1>0, <1>1, <1>2, <2>1, <2>5, AnswersAppend
    <2>7. call'[t] = Idle /\ call'[t].at = "idle"
        BY <2>6 DEF Answered, Idle
    <2>8. \E i \in ShardIds, n \in Nat \ {0} :
             /\ n \in DOMAIN Points(i) /\ HasId(i, n) /\ id = PpId(i, n)
             /\ Points(i)[n].stack = call[t].stack
        BY <1>3, <2>2, <2>3, <2>4 DEF id
    <2>9. /\ StateTypes' /\ ShardsOk' /\ KeysLead' /\ OneInShard' /\ InsertsItsOwn'
          /\ AnswersHaveRecords' /\ KeptOrExcused'
        BY <1>1, <1>4, <2>6, <2>7, <2>8, QuietStep DEF InTable
    <2>10. CallsBounded'
        BY <1>0, <1>1, <2>6, BoundedAnswer
    <2>11. NumbersApart'
        BY <1>0, <1>1, <2>6, <2>7, ApartKept
    <2>12. NumbersInOrder'
        <3>1. Extends
            BY <1>1, SameRecords
        <3> QED
            BY <1>0, <1>1, <2>2, <2>6, <2>7, <3>1, OrderKept
    <2>13. ArenaOk(arena)' /\ BlocksApart' /\ BooksAgree'
        <3>1. FramesHeld(t)' = FramesHeld(t)
            BY <1>1, <2>7 DEF FramesHeld
        <3> QED
            BY <1>1, <2>6, <2>7, <3>1, ArenaUntouched
    <2> QED
        BY <2>9, <2>10, <2>11, <2>12, <2>13 DEF PointsInv
<1>6. CASE ~Found(s)
    <2> DEFINE c == [call[t] EXCEPT !.at = "frames"]
    <2>1. call' = [call EXCEPT ![t].at = "frames"] /\ answers' = answers
        BY <1>6 DEF Lookup
    <2>2. call[t] \in [at : {"lookup", "frames"}, stack : Stacks, before : Nat]
        BY <1>0, <1>1, ThreadTypes DEF ACall, Idle
    <2>3. c \in ACall /\ c.at = "frames" /\ c.stack = s /\ c.before = call[t].before
        BY <2>2 DEF ACall
    <2>4. Stepped(t) /\ call'[t] = c
        BY <1>0, <1>1, <2>1, <2>3 DEF StateTypes, Stepped
    <2>5. c # Idle
        BY <2>3 DEF Idle
    <2> HIDE DEF c
    <2>6. Moved(t)
        BY <1>2, <2>1, <2>3, <2>4, <2>5 DEF Moved
    <2>7. answers' \in Seq(AnAnswer)
        BY <1>0, <2>1 DEF StateTypes
    <2>8. ~Locked(ShardOfCall(t)) /\ ~Found(call[t].stack)
        BY <1>1, <1>6 DEF ShardOfCall
    <2>9. /\ StateTypes' /\ ShardsOk' /\ KeysLead' /\ OneInShard' /\ InsertsItsOwn'
          /\ AnswersHaveRecords' /\ KeptOrExcused'
        <3>1. call[t].at # "insert" /\ call'[t].at # "insert"
            BY <1>1, <2>3, <2>4
        <3> QED
            BY <1>1, <1>4, <2>1, <2>4, <2>6, <2>7, <2>8, <3>1, QuietStep
    <2>10. CallsBounded'
        BY <1>0, <1>1, <2>3, <2>4, <2>6, BoundedMove DEF Numbered
    <2>11. NumbersApart'
        BY <1>0, <1>1, <2>3, <2>4, ApartKept
    <2>12. NumbersInOrder'
        <3>1. Extends
            BY <1>1, SameRecords
        <3>2. call'[t].at # "push" /\ call'[t].at # "insert"
            BY <2>3, <2>4
        <3> QED
            BY <1>0, <1>1, <2>1, <2>4, <3>1, <3>2, OrderKept
    <2>13. ArenaOk(arena)' /\ BlocksApart' /\ BooksAgree'
        <3>1. FramesHeld(t)' = FramesHeld(t)
            BY <1>1, <2>3, <2>4 DEF FramesHeld
        <3>2. call'[t].at \notin {"number", "push"} /\ call'[t].stack \in Stacks
            BY <1>2, <2>3, <2>4
        <3> QED
            BY <1>1, <2>4, <3>1, <3>2, ArenaUntouched
    <2> QED
        BY <2>9, <2>10, <2>11, <2>12, <2>13 DEF PointsInv
<1> QED
    BY <1>5, <1>6

LEMMA PreservedByStoreFrames ==
    ASSUME PointsInv, NEW t \in Callers, StoreFrames(t)
    PROVE  PointsInv'
<1> DEFINE s == call[t].stack
<1>0. /\ StateTypes /\ CallsBounded /\ NumbersApart /\ NumbersInOrder /\ AnswersHaveRecords
      /\ InsertsItsOwn /\ ArenaOk(arena)
    BY DEF PointsInv
<1>1. /\ call[t].at = "frames" /\ hash' = hash /\ frames' = frames
      /\ records' = records /\ intern' = intern /\ sequence' = sequence /\ leaked' = leaked
    BY DEF StoreFrames
<1>2. call[t] # Idle /\ s \in Stacks /\ call[t].before \in Nat
    BY <1>0, <1>1, ThreadTypes
<1>3. sequence' \in Nat /\ InTable(t) /\ Extends
    BY <1>0, <1>1, SameRecords DEF StateTypes, InTable
<1>4. PICK r \in Alloc(arena, Layout(frames[s], 1)) :
        /\ arena' = r.arena
        /\ IF r.ok
           THEN /\ call' = [call EXCEPT ![t] = [at |-> "number", stack |-> s,
                                            before |-> call[t].before, block |-> r.block]]
                /\ answers' = answers
           ELSE Answers(t, OVERFLOW)
    BY DEF StoreFrames
<1>5. frames[s] \in Nat
    <2>1. \A x \in FrameWords : x \in Nat
        BY InternConstants
    <2> QED
        BY <1>0, <1>2, <2>1 DEF StateTypes
<1>6. Grants1(arena, frames[s], r)
    BY <1>0, <1>4, <1>5, AllocGrants
<1>7. /\ ArenaOk(arena') /\ r.ok \in BOOLEAN /\ r.block \in AWord
      /\ \A b \in AWord : Placed(arena, b) => Placed(arena', b)
      /\ NewBlock(arena, arena', r.block)
    BY <1>4, <1>6 DEF Grants1, NewBlock
<1>8. FramesHeld(t) = 0
    BY <1>1 DEF FramesHeld
<1>9. arena.bytes_used \in Nat
    <2>1. arena \in ArenaState
        BY <1>0 DEF ArenaOk
    <2> QED
        BY <2>1 DEF ArenaState
<1>10. CASE r.ok
    <2> DEFINE c == [at |-> "number", stack |-> s, before |-> call[t].before, block |-> r.block]
    <2>1. call' = [call EXCEPT ![t] = c] /\ answers' = answers
        BY <1>4, <1>10
    <2>2. c \in ACall
        BY <1>2, <1>7 DEF ACall
    <2>3. Stepped(t) /\ call'[t] = c
        BY <1>0, <1>1, <2>1, <2>2 DEF StateTypes, Stepped
    <2>4. c # Idle
        BY DEF Idle
    <2>5. /\ call'[t].at = "number" /\ call'[t].stack = s /\ call'[t].block = r.block
          /\ call'[t].before = call[t].before /\ call'[t] # Idle
        BY <2>3, <2>4
    <2> HIDE DEF c
    <2>6. Moved(t)
        BY <1>2, <2>1, <2>5 DEF Moved
    <2>7. answers' \in Seq(AnAnswer)
        BY <1>0, <2>1 DEF StateTypes
    <2>8. r.block.size = frames[s] /\ arena'.bytes_used = arena.bytes_used + frames[s]
        BY <1>4, <1>6, <1>10 DEF Grants1
    <2>9. /\ StateTypes' /\ ShardsOk' /\ KeysLead' /\ OneInShard' /\ InsertsItsOwn'
          /\ AnswersHaveRecords' /\ KeptOrExcused'
        <3>1. call[t].at # "insert" /\ call'[t].at # "insert"
            BY <1>1, <2>5
        <3> QED
            BY <1>1, <1>3, <2>1, <2>3, <2>6, <2>7, <3>1, QuietStep
    <2>10. CallsBounded'
        BY <1>0, <1>1, <2>3, <2>5, <2>6, <2>8, BoundedMove DEF Numbered
    <2>11. NumbersApart'
        BY <1>0, <1>1, <2>3, <2>5, ApartKept
    <2>12. NumbersInOrder'
        <3>1. call'[t].at # "push" /\ call'[t].at # "insert"
            BY <2>5
        <3> QED
            BY <1>0, <1>3, <2>1, <2>3, <3>1, OrderKept
    <2>13. ArenaOk(arena)' /\ BlocksApart' /\ BooksAgree'
        <3>1. FramesHeld(t)' = frames[s]
            BY <1>1, <2>5 DEF FramesHeld
        <3>2. arena'.bytes_used + FramesHeld(t) = arena.bytes_used + FramesHeld(t)'
            BY <1>5, <1>8, <1>9, <2>8, <3>1
        <3>3. call'[t].stack \in Stacks
            BY <1>2, <2>5
        <3> QED
            BY <1>1, <1>7, <2>3, <2>5, <3>2, <3>3, QuietArena
    <2> QED
        BY <2>9, <2>10, <2>11, <2>12, <2>13 DEF PointsInv
<1>11. CASE ~r.ok
    <2>1. Answers(t, OVERFLOW)
        BY <1>4, <1>11
    <2>2. OVERFLOW \in 0..OVERFLOW
        BY InternConstants
    <2>3. Stepped(t) /\ Answered(t, OVERFLOW) /\ answers' \in Seq(AnAnswer)
        BY <1>0, <1>1, <1>2, <2>1, <2>2, AnswersAppend
    <2>4. call'[t] = Idle /\ call'[t].at = "idle"
        BY <2>3 DEF Answered, Idle
    <2>5. r.block.size = 0 /\ arena'.bytes_used = arena.bytes_used
        BY <1>4, <1>6, <1>9, <1>11 DEF Grants1
    <2>9. /\ StateTypes' /\ ShardsOk' /\ KeysLead' /\ OneInShard' /\ InsertsItsOwn'
          /\ AnswersHaveRecords' /\ KeptOrExcused'
        BY <1>1, <1>3, <2>3, <2>4, QuietStep DEF InTable
    <2>10. CallsBounded'
        BY <1>0, <1>1, <2>3, BoundedAnswer
    <2>11. NumbersApart'
        BY <1>0, <1>1, <2>3, <2>4, ApartKept
    <2>12. NumbersInOrder'
        BY <1>0, <1>3, <2>3, <2>4, OrderKept
    <2>13. ArenaOk(arena)' /\ BlocksApart' /\ BooksAgree'
        <3>1. FramesHeld(t)' = 0
            BY <2>4 DEF FramesHeld
        <3>2. arena'.bytes_used + FramesHeld(t) = arena.bytes_used + FramesHeld(t)'
            BY <1>8, <2>5, <3>1
        <3> QED
            BY <1>1, <1>7, <2>3, <2>4, <3>2, QuietArena
    <2> QED
        BY <2>9, <2>10, <2>11, <2>12, <2>13 DEF PointsInv
<1> QED
    BY <1>7, <1>10, <1>11

LEMMA PreservedByNumber ==
    ASSUME PointsInv, NEW t \in Callers, Number(t)
    PROVE  PointsInv'
<1> DEFINE s == call[t].stack
           c == [at |-> "push", stack |-> s, before |-> call[t].before,
                 block |-> call[t].block, sequence |-> sequence]
<1>0. /\ StateTypes /\ CallsBounded /\ NumbersApart /\ NumbersInOrder /\ AnswersHaveRecords
      /\ InsertsItsOwn
    BY DEF PointsInv
<1>1. /\ call[t].at = "number" /\ hash' = hash /\ frames' = frames /\ arena' = arena
      /\ records' = records /\ intern' = intern /\ sequence' = sequence + 1 /\ leaked' = leaked
      /\ answers' = answers /\ call' = [call EXCEPT ![t] = c]
    BY DEF Number
<1>2. call[t] # Idle /\ s \in Stacks /\ call[t].before \in Nat /\ call[t].block \in AWord
    BY <1>0, <1>1, ThreadTypes
<1>3. sequence \in Nat /\ sequence' \in Nat /\ InTable(t) /\ Unlinked(t) /\ Extends
    BY <1>0, <1>1, SameRecords DEF StateTypes, InTable, Unlinked
<1>4. c \in ACall
    BY <1>2, <1>3 DEF ACall
<1>5. Stepped(t) /\ call'[t] = c
    BY <1>0, <1>1, <1>4 DEF StateTypes, Stepped
<1>6. /\ call'[t].at = "push" /\ call'[t].stack = s /\ call'[t].block = call[t].block
      /\ call'[t].before = call[t].before /\ call'[t] # Idle /\ call'[t].sequence = sequence
    BY <1>5 DEF Idle
<1> HIDE DEF c
<1>7. Moved(t)
    BY <1>1, <1>2, <1>6 DEF Moved
<1>8. answers' \in Seq(AnAnswer)
    BY <1>0, <1>1 DEF StateTypes
<1>9. /\ StateTypes' /\ ShardsOk' /\ KeysLead' /\ OneInShard' /\ InsertsItsOwn'
      /\ AnswersHaveRecords' /\ KeptOrExcused'
    <2>1. call[t].at # "insert" /\ call'[t].at # "insert"
        BY <1>1, <1>6
    <2> QED
        BY <1>1, <1>3, <1>5, <1>7, <1>8, <2>1, QuietStep
<1>10. CallsBounded'
    <2>1. t \notin Numbered /\ call'[t].at \in {"push", "insert"}
        BY <1>1, <1>6 DEF Numbered
    <2>2. call'[t].block.size = frames[call[t].stack]
        BY <1>0, <1>3, <1>6 DEF CallsBounded
    <2> QED
        BY <1>0, <1>1, <1>5, <1>7, <2>1, <2>2, BoundedMove
<1>11. NumbersApart'
    <2>1. ShardOfCall(t) \in ShardIds
        BY <1>0, <1>2, ShardTypes DEF ShardOfCall, StateTypes
    <2> QED
        BY <1>0, <1>1, <1>5, <1>6, <1>7, <2>1, ApartNumber
<1>12. NumbersInOrder'
    <2>1. OlderAnswers(call[t].before, sequence)
        <3> SUFFICES ASSUME NEW m \in 1..call[t].before, answers[m].id # OVERFLOW
                     PROVE  RecordAt(answers[m].id).sequence < sequence
            BY DEF OlderAnswers
        <3>1. call[t].before \in Nat /\ call[t].before <= Len(answers)
            BY <1>0, <1>2, BeforeIsPast
        <3>2. m \in DOMAIN answers
            BY <1>0, <3>1, AnswerTypes
        <3>3. PICK i \in ShardIds, n \in Nat \ {0} :
                /\ Leads(m, i, n) /\ RecordAt(answers[m].id) = Points(i)[n]
            BY <1>0, <1>3, <3>2, AnswerLeads
        <3>4. Points(i)[n].sequence < sequence
            BY <1>0, <3>3 DEF Leads, NumbersApart
        <3> QED
            BY <3>3, <3>4
    <2>2. call'[t].at # "insert"
        BY <1>6
    <2> QED
        BY <1>0, <1>1, <1>3, <1>5, <1>6, <1>7, <2>1, <2>2, OrderKept
<1>13. ArenaOk(arena)' /\ BlocksApart' /\ BooksAgree'
    <2>1. FramesHeld(t)' = FramesHeld(t)
        BY <1>1, <1>6 DEF FramesHeld
    <2>2. call'[t].stack \in Stacks
        BY <1>2, <1>6
    <2> QED
        BY <1>1, <1>3, <1>5, <1>6, <2>1, <2>2, ArenaUntouched
<1> QED
    BY <1>9, <1>10, <1>11, <1>12, <1>13 DEF PointsInv

\* The record a call pushes, and what it leaves.
NewPoint(t) == [stack |-> call[t].stack, block |-> call[t].block, sequence |-> call[t].sequence]
PushStep(t, r) ==
    /\ Pushes(arena, records[ShardOfCall(t)], NewPoint(t), r)
    /\ arena' = r.arena /\ records' \in [ShardIds -> AVec] /\ records'[ShardOfCall(t)] = r.vec
    /\ \A j \in ShardIds \ {ShardOfCall(t)} : records'[j] = records[j]
    /\ intern' = intern /\ sequence' = sequence
    /\ leaked' = IF r.index = 0 THEN leaked + frames[call[t].stack] ELSE leaked
    /\ Stepped(t) /\ answers' \in Seq(AnAnswer)
    /\ \/ /\ r.index # 0 /\ HasId(ShardOfCall(t), r.index)
          /\ Moved(t) /\ call'[t].at = "insert" /\ call'[t].index = r.index
       \/ Answered(t, OVERFLOW) /\ call'[t].at = "idle"

LEMMA PushTypes ==
    ASSUME StateTypes, NEW t \in Callers, call[t].at = "push"
    PROVE  /\ call[t] # Idle /\ call[t].stack \in Stacks /\ call[t].before \in Nat
           /\ ShardOfCall(t) \in ShardIds /\ InTable(t) /\ Unlinked(t)
           /\ NewPoint(t) \in APoint /\ NewPoint(t).stack = call[t].stack
           /\ NewPoint(t).block = call[t].block /\ NewPoint(t).sequence = call[t].sequence
           /\ frames[call[t].stack] \in Nat
<1>1. /\ call[t] # Idle /\ call[t].stack \in Stacks /\ call[t].before \in Nat
      /\ call[t].block \in AWord /\ call[t].sequence \in Nat
    BY ThreadTypes
<1>2. ShardOfCall(t) \in ShardIds
    BY <1>1, ShardTypes DEF ShardOfCall, StateTypes
<1>3. InTable(t) /\ Unlinked(t)
    BY DEF InTable, Unlinked
<1>4. frames[call[t].stack] \in Nat
    <2>1. \A x \in FrameWords : x \in Nat
        BY InternConstants
    <2> QED
        BY <1>1, <2>1 DEF StateTypes
<1> QED
    BY <1>1, <1>2, <1>3, <1>4 DEF NewPoint, APoint

LEMMA PushAnswers ==
    ASSUME PointsInv, NEW t \in Callers, PushRecord(t)
    PROVE  call[t].at = "push" /\ \E r : PushStep(t, r)
<1> DEFINE s == call[t].stack  shard == ShardOf(s)
<1>0. StateTypes /\ ShardsOk /\ ArenaOk(arena)
    BY DEF PointsInv
<1>1. /\ call[t].at = "push" /\ hash' = hash /\ frames' = frames
      /\ intern' = intern /\ sequence' = sequence
    BY DEF PushRecord
<1>2. /\ call[t] # Idle /\ s \in Stacks /\ call[t].before \in Nat
      /\ shard \in ShardIds /\ NewPoint(t) \in APoint
    BY <1>0, <1>1, PushTypes DEF ShardOfCall
<1>3. PICK r \in Push(arena, records[shard], NewPoint(t), FIRST_CAPACITY, RecordLayout) :
           /\ arena' = r.arena
           /\ records' = [records EXCEPT ![shard] = r.vec]
           /\ leaked' = IF r.index = 0 THEN leaked + frames[s] ELSE leaked
           /\ IF r.index # 0 /\ HasId(shard, r.index)
              THEN /\ call' = [call EXCEPT ![t] = [at |-> "insert", stack |-> s,
                                               before |-> call[t].before, index |-> r.index]]
                   /\ answers' = answers
              ELSE Answers(t, OVERFLOW)
    BY DEF PushRecord, NewPoint
<1>4. VecOk(records[shard])
    BY <1>0, <1>2 DEF ShardsOk
<1>5. Pushes(arena, records[shard], NewPoint(t), r)
    BY <1>0, <1>2, <1>3, <1>4, PushGrants
<1>6. r.vec \in AVec
    BY <1>5 DEF Pushes, VecOk
<1>7. /\ records' \in [ShardIds -> AVec] /\ records'[shard] = r.vec
      /\ \A j \in ShardIds \ {shard} : records'[j] = records[j]
    BY <1>0, <1>2, <1>3, <1>6 DEF StateTypes
<1>8. CASE r.index # 0 /\ HasId(shard, r.index)
    <2> DEFINE c == [at |-> "insert", stack |-> s, before |-> call[t].before, index |-> r.index]
    <2>1. call' = [call EXCEPT ![t] = c] /\ answers' = answers
        BY <1>3, <1>8
    <2>2. Len(records[shard].elements) \in Nat
        BY <1>4, VecTypes DEF VecOk
    <2>3. r.index \in Nat \ {0}
        BY <1>5, <1>8, <2>2 DEF Pushes
    <2>4. c \in ACall
        BY <1>2, <2>3 DEF ACall
    <2>5. Stepped(t) /\ call'[t] = c
        BY <1>0, <1>1, <2>1, <2>4 DEF StateTypes, Stepped
    <2>6. /\ call'[t].at = "insert" /\ call'[t].stack = s /\ call'[t].before = call[t].before
          /\ call'[t] # Idle /\ call'[t].index = r.index
        BY <2>5 DEF Idle
    <2> HIDE DEF c
    <2>7. Moved(t) /\ answers' \in Seq(AnAnswer)
        BY <1>0, <1>2, <2>1, <2>6 DEF Moved, StateTypes
    <2> QED
        BY <1>1, <1>3, <1>5, <1>7, <1>8, <2>5, <2>6, <2>7 DEF PushStep, ShardOfCall
<1>9. CASE ~(r.index # 0 /\ HasId(shard, r.index))
    <2>1. Answers(t, OVERFLOW)
        BY <1>3, <1>9
    <2>2. OVERFLOW \in 0..OVERFLOW
        BY InternConstants
    <2>3. Stepped(t) /\ Answered(t, OVERFLOW) /\ answers' \in Seq(AnAnswer)
        BY <1>0, <1>1, <1>2, <2>1, <2>2, AnswersAppend
    <2>4. call'[t].at = "idle"
        BY <2>3 DEF Answered, Idle
    <2> QED
        BY <1>1, <1>3, <1>5, <1>7, <2>3, <2>4 DEF PushStep, ShardOfCall
<1> QED
    BY <1>1, <1>8, <1>9

\* The vector is longer by the record, or is what it was.
LEMMA PushExtends ==
    ASSUME PointsInv, NEW t \in Callers, call[t].at = "push", NEW r, PushStep(t, r)
    PROVE  /\ Extends
           /\ r.index = 0 => records' = records /\ NoneIsNew /\ r.vec = records[ShardOfCall(t)]
           /\ r.index # 0 => /\ r.index \in Nat \ {0}
                             /\ OneIsNew(ShardOfCall(t), r.index, NewPoint(t))
<1> DEFINE i == ShardOfCall(t)  q == Points(i)
<1>0. StateTypes
    BY DEF PointsInv
<1>1. i \in ShardIds /\ NewPoint(t) \in APoint
    BY <1>0, PushTypes
<1>2. q \in Seq(APoint) /\ Len(q) \in Nat /\ DOMAIN q = 1..Len(q)
    BY <1>0, <1>1, PointTypes
<1>3. \A j \in ShardIds \ {i} : records'[j].elements = Points(j)
    BY DEF PushStep, Points
<1>4. CASE r.index = 0
    <2>1. r.vec = records[i]
        <3>1. Len(records[i].elements) + 1 # 0
            BY <1>2 DEF Points
        <3> QED
            BY <1>4, <3>1 DEF PushStep, Pushes
    <2>2. \A j \in ShardIds : records'[j] = records[j]
        BY <2>1 DEF PushStep
    <2>3. records' = records
        BY <1>0, <2>2 DEF PushStep, StateTypes
    <2> QED
        BY <1>4, <2>1, <2>3, SameRecords
<1>5. CASE r.index # 0
    <2>1. r.index = Len(q) + 1 /\ r.vec.elements = Append(q, NewPoint(t))
        BY <1>5 DEF PushStep, Pushes, Points
    <2>2. records'[i].elements = Append(q, NewPoint(t))
        BY <2>1 DEF PushStep
    <2>3. DOMAIN (records'[i].elements) = 1..(Len(q) + 1)
        BY <1>1, <1>2, <2>2, AppendProperties
    <2>4. \A m \in DOMAIN q : records'[i].elements[m] = q[m]
        BY <1>1, <1>2, <2>2, AppendProperties
    <2>5. records'[i].elements[Len(q) + 1] = NewPoint(t)
        BY <1>1, <1>2, <2>2, AppendProperties
    <2> HIDE DEF i, q
    <2>6. \A m \in DOMAIN q : m \in 1..(Len(q) + 1) /\ m < Len(q) + 1
        BY <1>2
    <2>7. Len(q) + 1 \in 1..(Len(q) + 1) /\ Len(q) + 1 \notin DOMAIN q
        BY <1>2
    <2>8. \A m \in 1..(Len(q) + 1) : m \in DOMAIN q \/ m = Len(q) + 1
        BY <1>2
    <2>9. Extends
        <3> SUFFICES ASSUME NEW j \in ShardIds, NEW m \in DOMAIN Points(j)
                     PROVE  /\ m \in DOMAIN records'[j].elements
                            /\ records'[j].elements[m] = Points(j)[m]
            BY DEF Extends
        <3>1. CASE j = i
            BY <2>3, <2>4, <2>6, <3>1 DEF q
        <3>2. CASE j # i
            BY <1>3, <3>2
        <3> QED
            BY <3>1, <3>2
    <2>10. OneIsNew(i, r.index, NewPoint(t))
        <3>1. \A j \in ShardIds : \A m \in DOMAIN records'[j].elements :
                    m \in DOMAIN Points(j) \/ (j = i /\ m = r.index)
            <4> TAKE j \in ShardIds
            <4> TAKE m \in DOMAIN records'[j].elements
            <4>1. CASE j = i
                BY <2>1, <2>3, <2>8, <4>1 DEF q
            <4>2. CASE j # i
                BY <1>3, <4>2
            <4> QED
                BY <4>1, <4>2
        <3>2. r.index \in DOMAIN records'[i].elements /\ r.index \notin DOMAIN Points(i)
            BY <2>1, <2>3, <2>7 DEF q
        <3>3. \A m \in DOMAIN Points(i) : m < r.index
            BY <2>1, <2>6 DEF q
        <3>4. records'[i].elements[r.index] = NewPoint(t)
            BY <2>1, <2>5
        <3> QED
            BY <3>1, <3>2, <3>3, <3>4 DEF OneIsNew
    <2>11. r.index \in Nat \ {0}
        BY <1>2, <2>1
    <2> QED
        BY <1>5, <2>9, <2>10, <2>11 DEF i
<1> QED
    BY <1>4, <1>5

LEMMA PushShards ==
    ASSUME PointsInv, NEW t \in Callers, call[t].at = "push", NEW r, PushStep(t, r)
    PROVE  ShardsOk'
<1> DEFINE i == ShardOfCall(t)
<1>0. StateTypes /\ ShardsOk
    BY DEF PointsInv
<1>1. i \in ShardIds /\ NewPoint(t).stack = call[t].stack /\ call[t].stack \in Stacks
    BY <1>0, PushTypes
<1>2. \A j \in ShardIds : VecOk(records'[j]) /\ MapOk(intern'[j])
    <2> TAKE j \in ShardIds
    <2>1. MapOk(intern'[j]) /\ VecOk(records[j])
        BY <1>0 DEF PushStep, ShardsOk
    <2>2. CASE j = i
        BY <2>1, <2>2 DEF PushStep, Pushes
    <2>3. CASE j # i
        BY <2>1, <2>3 DEF PushStep
    <2> QED
        BY <2>2, <2>3
<1>3. intern' = [j \in ShardIds |-> intern'[j]]
    BY <1>0 DEF PushStep, ShardsOk
<1>4. ASSUME NEW j \in ShardIds, NEW n \in DOMAIN records'[j].elements
      PROVE  hash'[records'[j].elements[n].stack] % SHARDS = j
    <2>1. hash' = hash
        BY DEF PushStep, Stepped
    <2>2. CASE n \in DOMAIN Points(j)
        <3>1. records'[j].elements[n] = Points(j)[n]
            BY <2>2, PushExtends DEF Extends
        <3>2. ShardOf(Points(j)[n].stack) = j
            BY <1>0, <2>2 DEF ShardsOk
        <3> QED
            BY <2>1, <3>1, <3>2 DEF ShardOf
    <2>3. CASE n \notin DOMAIN Points(j)
        <3>1. r.index # 0
            BY <2>3, PushExtends DEF NoneIsNew
        <3>2. OneIsNew(i, r.index, NewPoint(t))
            BY <3>1, PushExtends
        <3>3. j = i /\ records'[j].elements[n] = NewPoint(t)
            BY <2>3, <3>2 DEF OneIsNew
        <3> QED
            BY <1>1, <2>1, <3>3 DEF ShardOfCall, ShardOf
    <2> QED
        BY <2>2, <2>3
<1> QED
    BY <1>2, <1>3, <1>4, Zenon DEF ShardsOk, ShardOf, Points

LEMMA PushBlocks ==
    ASSUME PointsInv, NEW t \in Callers, call[t].at = "push", NEW r, PushStep(t, r)
    PROVE  ArenaOk(arena)' /\ BlocksApart'
<1> DEFINE i == ShardOfCall(t)
<1>0. StateTypes /\ BlocksApart /\ i \in ShardIds
    BY PushTypes DEF PointsInv
<1>1. /\ ArenaOk(arena') /\ \A b \in AWord : Placed(arena, b) => Placed(arena', b)
      /\ r.vec.block = records[i].block \/ NewBlock(arena, arena', r.vec.block)
      /\ r.vec.block \in AWord
    BY DEF PushStep, Pushes, VecOk, AVec
<1>2. ArenaOk(arena)'
    BY <1>1, Zenon DEF ArenaOk, HandedOut, InLast, LastChunk
<1>3. PICK block \in AWord : NewBlock(arena, arena', block) /\ r.vec.block \in {records[i].block, block}
    <2>1. CASE r.vec.block = records[i].block
        BY <2>1, NothingIsAWord DEF NewBlock
    <2>2. CASE NewBlock(arena, arena', r.vec.block)
        BY <1>1, <2>2
    <2> QED
        BY <1>1, <2>1, <2>2
<1>4. \A b \in Blocks' : b \in Blocks \/ b = block
    <2>1. \A j \in ShardIds : records'[j].block \in {records[j].block, block}
        BY <1>3 DEF PushStep
    <2>2. \A j \in ShardIds : \A m \in DOMAIN records'[j].elements :
                \/ m \in DOMAIN Points(j)
                \/ Unlinked(t) /\ records'[j].elements[m].block = call[t].block
        <3>1. NewPoint(t).block = call[t].block /\ Unlinked(t)
            BY <1>0, PushTypes
        <3>2. CASE r.index = 0
            BY <3>2, PushExtends DEF NoneIsNew
        <3>3. CASE r.index # 0
            <4>1. OneIsNew(i, r.index, NewPoint(t))
                BY <3>3, PushExtends
            <4> QED
                BY <3>1, <4>1 DEF OneIsNew
        <3> QED
            BY <3>2, <3>3
    <2>3. call'[t].at \notin {"number", "push"} /\ Stepped(t)
        BY DEF PushStep
    <2>4. Extends
        BY PushExtends
    <2> QED
        BY <2>1, <2>2, <2>3, <2>4, BlocksComeFrom
<1>5. BlocksApart'
    BY <1>0, <1>1, <1>3, <1>4, BlocksKept
<1> QED
    BY <1>2, <1>5

LEMMA PushBooks ==
    ASSUME PointsInv, NEW t \in Callers, call[t].at = "push", NEW r, PushStep(t, r)
    PROVE  BooksAgree' /\ leaked' \in Nat
<1>i. PICK i \in ShardIds : i = ShardOfCall(t)
    BY PushTypes DEF PointsInv
<1> DEFINE fr == frames[call[t].stack]
           x == arena'.bytes_used  y == arena.bytes_used
           cap == records[i].capacity  cap2 == records'[i].capacity
           w == records[i].wasted  w2 == records'[i].wasted
           sl == intern[i].slots  mw == intern[i].wasted
           new == IF r.index = 0 THEN 0 ELSE fr
<1>0. StateTypes /\ ShardsOk /\ BooksAgree /\ fr \in Nat
    BY PushTypes DEF PointsInv
<1>1. FramesHeld(t) = fr
    BY DEF FramesHeld
<1>2. FramesHeld(t)' = 0
    BY DEF PushStep, FramesHeld
<1>3. ShardsOk'
    BY PushShards
<1>4. cap \in Nat /\ w \in Nat /\ sl \in Nat /\ mw \in Nat
    BY <1>0, ShardHas
<1>5. cap2 \in Nat /\ w2 \in Nat
    BY <1>0, <1>3, ShardHasNext
<1>6. x \in Nat /\ y \in Nat
    <2>1. arena \in ArenaState /\ arena' \in ArenaState
        BY DEF PointsInv, PushStep, Pushes, ArenaOk
    <2> QED
        BY <2>1 DEF ArenaState
<1>7. x + 2 * cap + w = y + 2 * cap2 + w2
    BY <1>i DEF PushStep, Pushes
<1>8. leaked \in Nat /\ leaked' = leaked + (fr - new) /\ new \in Nat /\ leaked' \in Nat
    BY <1>0 DEF StateTypes, PushStep
<1>9. ShardWords(i) = (2 * sl + 2 * cap) + (mw + w)
      /\ ShardWords(i)' = (2 * sl + 2 * cap2) + (mw + w2)
    BY DEF ShardWords, PushStep
<1> HIDE DEF fr, x, y, cap, cap2, w, w2, sl, mw, new
<1>10. x + ((2 * sl + 2 * cap) + (mw + w)) + fr + leaked
         = y + ((2 * sl + 2 * cap2) + (mw + w2)) + 0 + leaked' + new
    BY <1>0, <1>4, <1>5, <1>6, <1>7, <1>8
<1>11. x + ShardWords(i) + FramesHeld(t) + leaked = y + ShardWords(i)' + FramesHeld(t)' + leaked' + new
    BY <1>1, <1>2, <1>9, <1>10, Zenon
<1>12. \/ NoneIsNew /\ new = 0
       \/ \E n, p : OneIsNew(i, n, p) /\ p.stack \in Stacks /\ new = frames[p.stack]
    <2>1. CASE r.index = 0
        BY <2>1, PushExtends DEF new
    <2>2. CASE r.index # 0
        <3>1. OneIsNew(i, r.index, NewPoint(t))
            BY <1>i, <2>2, PushExtends
        <3>2. NewPoint(t).stack = call[t].stack /\ call[t].stack \in Stacks
            BY <1>0, PushTypes
        <3>3. new = frames[NewPoint(t).stack]
            BY <2>2, <3>2 DEF new, fr
        <3> QED
            BY <3>1, <3>2, <3>3
    <2> QED
        BY <2>1, <2>2
<1>13. /\ \A j \in ShardIds \ {i} : records'[j] = records[j] /\ intern'[j] = intern[j]
       /\ Stepped(t)
       /\ call'[t] # Idle => call'[t].stack \in Stacks
    BY <1>0, <1>i, PushTypes DEF PushStep, Moved, Answered
<1>14. Extends /\ new \in Int /\ leaked' \in Int /\ FramesHeld(t) \in Int /\ FramesHeld(t)' \in Int
    BY <1>0, <1>1, <1>2, <1>8, PushExtends
<1>15. arena.bytes_used \in Int /\ arena'.bytes_used \in Int
    BY <1>6 DEF x, y
<1>16. arena'.bytes_used + ShardWords(i) + FramesHeld(t) + leaked
             = arena.bytes_used + ShardWords(i)' + FramesHeld(t)' + leaked' + new
    BY <1>11 DEF x, y
<1>17. BooksAgree'
    BY <1>0, <1>3, <1>12, <1>13, <1>14, <1>15, <1>16, BooksKept
<1> QED
    BY <1>8, <1>17

LEMMA PreservedByPushRecord ==
    ASSUME PointsInv, NEW t \in Callers, PushRecord(t)
    PROVE  PointsInv'
<1>0. /\ StateTypes /\ CallsBounded /\ NumbersApart /\ NumbersInOrder /\ AnswersHaveRecords
      /\ InsertsItsOwn /\ KeysLead /\ KeptOrExcused /\ OneInShard
    BY DEF PointsInv
<1>1. call[t].at = "push"
    BY PushAnswers
<1>2. PICK r : PushStep(t, r)
    BY PushAnswers
<1>3. PICK i \in ShardIds : i = ShardOfCall(t)
    BY <1>0, <1>1, PushTypes
<1>4. /\ call[t] # Idle /\ call[t].stack \in Stacks /\ InTable(t)
      /\ NewPoint(t).stack = call[t].stack /\ NewPoint(t).sequence = call[t].sequence
    BY <1>0, <1>1, PushTypes
<1>5. /\ Stepped(t) /\ answers' \in Seq(AnAnswer) /\ intern' = intern /\ sequence' = sequence
      /\ records' \in [ShardIds -> AVec]
    BY <1>2 DEF PushStep
<1>6. Extends
    BY <1>1, <1>2, PushExtends
<1>7. ShardsOk' /\ ArenaOk(arena)' /\ BlocksApart' /\ BooksAgree' /\ leaked' \in Nat
    BY <1>1, <1>2, PushShards, PushBlocks, PushBooks
<1>8. StateTypes'
    BY <1>0, <1>5, <1>7 DEF StateTypes, Stepped
<1>9. r.index # 0 => r.index \in Nat \ {0} /\ OneIsNew(i, r.index, NewPoint(t))
    BY <1>1, <1>2, <1>3, PushExtends
<1>10. \/ /\ r.index # 0 /\ HasId(i, r.index) /\ Moved(t) /\ answers' = answers
          /\ call'[t].at = "insert" /\ call'[t].index = r.index
       \/ Answered(t, OVERFLOW) /\ call'[t].at = "idle"
    BY <1>2, <1>3 DEF PushStep, Moved
<1>11. call'[t].at # "push"
    BY <1>10
<1>12. call'[t].at = "insert" =>
          /\ Moved(t) /\ call'[t].index = r.index /\ r.index # 0 /\ HasId(i, r.index)
          /\ r.index \in DOMAIN records'[i].elements
          /\ records'[i].elements[r.index] = NewPoint(t)
    BY <1>9, <1>10 DEF OneIsNew
<1>13. AnswersStay
    BY <1>0, <1>10, AnswersAreKept
<1>14. KeysLead'
    BY <1>0, <1>5, <1>6, <1>13, KeysLeadKept
<1>15. OneInShard'
    <2>1. InTable(t)' => Moved(t)
        BY <1>10 DEF InTable
    <2> QED
        BY <1>0, <1>4, <1>5, <1>6, <2>1, LockKept
<1>16. InsertsItsOwn'
    <2>1. call'[t].at = "insert" =>
             /\ Moved(t)
             /\ call'[t].index \in DOMAIN records'[ShardOfCall(t)].elements
             /\ records'[ShardOfCall(t)].elements[call'[t].index].stack = call[t].stack
             /\ HasId(ShardOfCall(t), call'[t].index)
        BY <1>3, <1>4, <1>12
    <2> QED
        BY <1>0, <1>5, <1>6, <2>1, OwnKept
<1>17. AnswersHaveRecords'
    BY <1>0, <1>5, <1>6, <1>10, AnswersKept
<1>18. KeptOrExcused'
    <2>1. \A j \in ShardIds : \A m \in DOMAIN records'[j].elements :
             \/ m \in DOMAIN Points(j)
             \/ /\ j = ShardOfCall(t) /\ records'[j].elements[m].stack = call[t].stack
                /\ \/ Moved(t) /\ call'[t].at = "insert" /\ call'[t].index = m
                   \/ Answered(t, OVERFLOW)
        <3> TAKE j \in ShardIds
        <3> TAKE m \in DOMAIN records'[j].elements
        <3>1. CASE r.index = 0
            BY <1>1, <1>2, <3>1, PushExtends DEF NoneIsNew
        <3>2. CASE r.index # 0
            <4>1. m \in DOMAIN Points(j) \/ (j = i /\ m = r.index)
                BY <1>9, <3>2 DEF OneIsNew
            <4>2. CASE j = i /\ m = r.index
                <5>1. records'[j].elements[m].stack = call[t].stack
                    BY <1>4, <1>9, <3>2, <4>2 DEF OneIsNew
                <5> QED
                    BY <1>3, <1>10, <4>2, <5>1
            <4> QED
                BY <4>1, <4>2
        <3> QED
            BY <3>1, <3>2
    <2>2. call[t].at # "insert"
        BY <1>1
    <2> QED
        BY <1>0, <1>5, <1>6, <1>13, <2>1, <2>2, ExcusesKept
<1>19. NumbersApart'
    <2>1. CASE r.index = 0
        <3>1. records' = records
            BY <1>1, <1>2, <2>1, PushExtends
        <3> QED
            BY <1>0, <1>5, <1>11, <3>1, ApartKept
    <2>2. CASE r.index # 0
        BY <1>0, <1>1, <1>3, <1>4, <1>5, <1>6, <1>9, <1>11, <2>2, ApartPush
    <2> QED
        BY <2>1, <2>2
<1>20. NumbersInOrder'
    <2>1. OlderAnswers(call[t].before, call[t].sequence)
        BY <1>0, <1>1 DEF NumbersInOrder
    <2>2. call'[t].at = "insert" =>
             /\ Moved(t)
             /\ OlderAnswers(call[t].before,
                             records'[ShardOfCall(t)].elements[call'[t].index].sequence)
        BY <1>3, <1>4, <1>12, <2>1
    <2> QED
        BY <1>0, <1>5, <1>6, <1>10, <1>11, <2>2, OrderKept
<1>21. CallsBounded'
    <2>1. CASE Answered(t, OVERFLOW)
        BY <1>0, <1>5, <2>1, BoundedAnswer
    <2>2. CASE Moved(t) /\ call'[t].at = "insert"
        <3>1. t \in Numbered
            BY <1>1 DEF Numbered
        <3> QED
            BY <1>0, <1>5, <2>2, <3>1, BoundedMove
    <2> QED
        BY <1>10, <2>1, <2>2
<1> QED
    BY <1>7, <1>8, <1>14, <1>15, <1>16, <1>17, <1>18, <1>19, <1>20, <1>21 DEF PointsInv

\* What the insertion of a key leaves.
InsertStep(t, i, key, r) ==
    /\ Inserts(arena, intern[i], key, call[t].index, r)
    /\ arena' = r.arena /\ records' = records /\ sequence' = sequence /\ leaked' = leaked
    /\ intern' = [j \in ShardIds |-> intern'[j]]
    /\ \A j \in ShardIds \ {i} : intern'[j] = intern[j]
    /\ intern'[i] = IF r.full THEN intern[i] ELSE r.map
    /\ Stepped(t) /\ answers' \in Seq(AnAnswer)
    /\ Answered(t, IF r.full THEN OVERFLOW ELSE PpId(i, call[t].index))
    /\ call'[t] = Idle

LEMMA InsertAnswers ==
    ASSUME PointsInv, NEW t \in Callers, InsertIndex(t)
    PROVE  /\ call[t].at = "insert" /\ call[t] # Idle /\ call[t].stack \in Stacks
           /\ ShardOfCall(t) \in ShardIds /\ hash[call[t].stack] \in Keys
           /\ call[t].index \in Nat \ {0}
           /\ \E r : InsertStep(t, ShardOfCall(t), hash[call[t].stack], r)
<1> DEFINE s == call[t].stack  shard == ShardOf(s)
<1>0. StateTypes /\ ShardsOk /\ ArenaOk(arena) /\ InsertsItsOwn
    BY DEF PointsInv
<1>1. /\ call[t].at = "insert" /\ hash' = hash /\ frames' = frames
      /\ records' = records /\ sequence' = sequence /\ leaked' = leaked
    BY DEF InsertIndex
<1>2. call[t] # Idle /\ s \in Stacks /\ call[t].index \in Nat \ {0}
    BY <1>0, <1>1, ThreadTypes
<1>3. shard \in ShardIds /\ hash[s] \in Keys /\ shard = ShardOfCall(t)
    BY <1>0, <1>2, ShardTypes DEF StateTypes, ShardOfCall
<1>4. PICK r \in InsertKey(arena, intern[shard], hash[s], call[t].index) :
           /\ arena' = r.arena
           /\ intern' = IF r.full THEN intern ELSE [intern EXCEPT ![shard] = r.map]
           /\ Answers(t, IF r.full THEN OVERFLOW ELSE PpId(shard, call[t].index))
    BY DEF InsertIndex
<1>5. MapOk(intern[shard]) /\ intern = [j \in ShardIds |-> intern[j]]
    BY <1>0, <1>3 DEF ShardsOk
<1>6. Inserts(arena, intern[shard], hash[s], call[t].index, r)
    BY <1>0, <1>3, <1>4, <1>5, InsertGrants
<1>7. /\ intern' = [j \in ShardIds |-> intern'[j]]
      /\ \A j \in ShardIds \ {shard} : intern'[j] = intern[j]
      /\ intern'[shard] = IF r.full THEN intern[shard] ELSE r.map
    <2>1. CASE r.full
        <3>1. intern' = intern
            BY <1>4, <2>1
        <3> QED
            BY <1>5, <2>1, <3>1
    <2>2. CASE ~r.full
        <3>1. intern' = [intern EXCEPT ![shard] = r.map]
            BY <1>4, <2>2
        <3> QED
            BY <1>3, <1>5, <2>2, <3>1
    <2> QED
        BY <2>1, <2>2
<1>8. HasId(shard, call[t].index)
    BY <1>0, <1>1, <1>3 DEF InsertsItsOwn
<1>9. PICK id \in 0..OVERFLOW : id = IF r.full THEN OVERFLOW ELSE PpId(shard, call[t].index)
    BY <1>2, <1>3, <1>8, PlaceOfId, InternConstants DEF HasId
<1>10. Answers(t, id)
    BY <1>4, <1>9
<1>11. Stepped(t) /\ Answered(t, id) /\ answers' \in Seq(AnAnswer)
    BY <1>0, <1>1, <1>2, <1>10, AnswersAppend
<1>12. call'[t] = Idle
    BY <1>11 DEF Answered
<1>13. InsertStep(t, shard, hash[s], r)
    BY <1>1, <1>4, <1>6, <1>7, <1>9, <1>11, <1>12, Zenon DEF InsertStep
<1> QED
    BY <1>1, <1>2, <1>3, <1>13

LEMMA InsertBooks ==
    ASSUME PointsInv, NEW t \in Callers, call[t].at = "insert", NEW i \in ShardIds, NEW key, NEW r,
           InsertStep(t, i, key, r)
    PROVE  ShardsOk' /\ ArenaOk(arena)' /\ BlocksApart' /\ BooksAgree'
<1> DEFINE x == arena'.bytes_used  y == arena.bytes_used
           cap == records[i].capacity  w == records[i].wasted
           sl == intern[i].slots  mw == intern[i].wasted
           sl2 == intern'[i].slots  mw2 == intern'[i].wasted
<1>0. StateTypes /\ ShardsOk /\ BooksAgree /\ BlocksApart /\ Extends /\ NoneIsNew
    BY SameRecords DEF PointsInv, InsertStep
<1>1. Stepped(t) /\ call'[t] = Idle /\ records' = records /\ leaked' = leaked
    BY DEF InsertStep
<1>2. ShardsOk'
    <2>1. \A j \in ShardIds : VecOk(records'[j]) /\ MapOk(intern'[j])
        BY <1>0 DEF InsertStep, ShardsOk, Inserts
    <2>2. ASSUME NEW j \in ShardIds, NEW n \in DOMAIN records'[j].elements
          PROVE  hash'[records'[j].elements[n].stack] % SHARDS = j
        BY <1>0, <1>1 DEF ShardsOk, Points, ShardOf, Stepped
    <2>3. intern' = [j \in ShardIds |-> intern'[j]]
        BY DEF InsertStep
    <2> QED
        BY <2>1, <2>2, <2>3, Zenon DEF ShardsOk, ShardOf, Points
<1>3. ArenaOk(arena') /\ \A b \in AWord : Placed(arena, b) => Placed(arena', b)
    BY DEF InsertStep, Inserts
<1>4. ArenaOk(arena)'
    BY <1>3, Zenon DEF ArenaOk, HandedOut, InLast, LastChunk
<1>5. call'[t].at = "idle" /\ FramesHeld(t) = 0
    BY <1>1 DEF Idle, FramesHeld
<1>6. FramesHeld(t)' = 0
    BY <1>5 DEF FramesHeld
<1>7. BlocksApart'
    <2>1. NewBlock(arena, arena', Nothing)
        BY NothingIsAWord DEF NewBlock
    <2>2. \A b \in Blocks' : b \in Blocks \/ b = Nothing
        <3>1. \A j \in ShardIds : records'[j].block \in {records[j].block, Nothing}
            BY <1>1
        <3>2. \A j \in ShardIds : \A m \in DOMAIN records'[j].elements :
                    \/ m \in DOMAIN Points(j)
                    \/ Unlinked(t) /\ records'[j].elements[m].block = call[t].block
            BY <1>0 DEF NoneIsNew
        <3> QED
            BY <1>0, <1>1, <1>5, <3>1, <3>2, BlocksComeFrom
    <2> QED
        BY <1>0, <1>3, <2>1, <2>2, NothingIsAWord, BlocksKept
<1>8. cap \in Nat /\ w \in Nat /\ sl \in Nat /\ mw \in Nat
    BY <1>0, ShardHas
<1>9. sl2 \in Nat /\ mw2 \in Nat
    BY <1>2, ShardHasNext
<1>10. x \in Nat /\ y \in Nat
    <2>1. arena \in ArenaState /\ arena' \in ArenaState
        BY <1>3 DEF PointsInv, ArenaOk
    <2> QED
        BY <2>1 DEF ArenaState
<1>11. x + 2 * sl + mw = y + 2 * sl2 + mw2
    <2>1. CASE r.full
        <3>1. x = y /\ sl2 = sl /\ mw2 = mw
            BY <2>1 DEF InsertStep, Inserts
        <3> QED
            BY <3>1
    <2>2. CASE ~r.full
        BY <2>2 DEF InsertStep, Inserts
    <2> QED
        BY <2>1, <2>2
<1>12. leaked \in Nat
    BY <1>0 DEF StateTypes
<1>13. ShardWords(i) = (2 * sl + 2 * cap) + (mw + w)
       /\ ShardWords(i)' = (2 * sl2 + 2 * cap) + (mw2 + w)
    BY <1>1 DEF ShardWords
<1> HIDE DEF x, y, cap, w, sl, mw, sl2, mw2
<1>14. x + ((2 * sl + 2 * cap) + (mw + w)) + 0 + leaked
         = y + ((2 * sl2 + 2 * cap) + (mw2 + w)) + 0 + leaked + 0
    <2> DEFINE a == 2 * sl  b == 2 * sl2  c == 2 * cap
    <2>1. a \in Nat /\ b \in Nat /\ c \in Nat
        BY <1>8, <1>9
    <2>2. x + a + mw = y + b + mw2
        BY <1>11
    <2> HIDE DEF a, b, c
    <2>3. x + ((a + c) + (mw + w)) + 0 + leaked = y + ((b + c) + (mw2 + w)) + 0 + leaked + 0
        BY <1>8, <1>9, <1>10, <1>12, <2>1, <2>2
    <2> QED
        BY <2>3 DEF a, b, c
<1>15. x + ShardWords(i) + FramesHeld(t) + leaked = y + ShardWords(i)' + FramesHeld(t)' + leaked' + 0
    BY <1>1, <1>5, <1>6, <1>13, <1>14, Zenon
<1>16. arena'.bytes_used + ShardWords(i) + FramesHeld(t) + leaked
             = arena.bytes_used + ShardWords(i)' + FramesHeld(t)' + leaked' + 0
    BY <1>15 DEF x, y
<1>17. arena.bytes_used \in Int /\ arena'.bytes_used \in Int
    BY <1>10 DEF x, y
<1>18. leaked' \in Int /\ FramesHeld(t) \in Int /\ FramesHeld(t)' \in Int
    BY <1>1, <1>5, <1>6, <1>12
<1>19. \A j \in ShardIds \ {i} : records'[j] = records[j] /\ intern'[j] = intern[j]
    BY DEF InsertStep
<1>20. BooksAgree'
    BY <1>0, <1>1, <1>2, <1>16, <1>17, <1>18, <1>19, BooksKept
<1> QED
    BY <1>2, <1>4, <1>7, <1>20

LEMMA PreservedByInsertIndex ==
    ASSUME PointsInv, NEW t \in Callers, InsertIndex(t)
    PROVE  PointsInv'
<1>0. /\ StateTypes /\ CallsBounded /\ NumbersApart /\ NumbersInOrder /\ AnswersHaveRecords
      /\ InsertsItsOwn /\ KeysLead /\ KeptOrExcused /\ OneInShard /\ ShardsOk
    BY DEF PointsInv
<1>1. /\ call[t].at = "insert" /\ call[t] # Idle /\ call[t].stack \in Stacks
      /\ call[t].index \in Nat \ {0}
    BY InsertAnswers
<1>2. PICK i \in ShardIds : i = ShardOfCall(t)
    BY InsertAnswers
<1>3. PICK key \in Keys : key = hash[call[t].stack]
    BY InsertAnswers
<1>4. PICK r : InsertStep(t, i, key, r)
    BY <1>2, <1>3, InsertAnswers
<1>5. /\ Stepped(t) /\ answers' \in Seq(AnAnswer) /\ records' = records /\ sequence' = sequence
      /\ leaked' = leaked /\ call'[t] = Idle /\ call'[t].at = "idle"
      /\ \A j \in ShardIds \ {i} : intern'[j] = intern[j]
    BY <1>4 DEF InsertStep, Idle
<1>6. ShardsOk' /\ ArenaOk(arena)' /\ BlocksApart' /\ BooksAgree'
    BY <1>1, <1>4, InsertBooks
<1>7. StateTypes'
    BY <1>0, <1>5 DEF StateTypes, Stepped
<1>8. Extends
    BY <1>5, SameRecords
<1>9. PICK id : /\ Answered(t, id)
                /\ id = IF r.full THEN OVERFLOW ELSE PpId(i, call[t].index)
    BY <1>4 DEF InsertStep
<1>10. AnswersStay
    BY <1>0, <1>9, AnswersAreKept
<1>11. OneInShard'
    <2>1. ~InTable(t)' /\ InTable(t)
        BY <1>1, <1>5 DEF InTable
    <2>2. \A j \in ShardIds : intern'[j] = intern[j] \/ (InTable(t) /\ j = ShardOfCall(t))
        BY <1>2, <1>5, <2>1
    <2> QED
        BY <1>0, <1>5, <1>8, <2>1, <2>2, LockKept
<1>12. InsertsItsOwn'
    BY <1>0, <1>5, <1>8, OwnKept
<1>13. NumbersApart'
    BY <1>0, <1>5, ApartKept
<1>14. CallsBounded'
    BY <1>0, <1>5, <1>9, BoundedAnswer
<1>15. /\ call[t].index \in DOMAIN Points(i) /\ HasId(i, call[t].index)
       /\ Points(i)[call[t].index].stack = call[t].stack
    BY <1>0, <1>1, <1>2 DEF InsertsItsOwn
<1>16. AnswersHaveRecords'
    <2>1. \/ id = OVERFLOW
          \/ \E j \in ShardIds, m \in Nat \ {0} :
                 /\ m \in DOMAIN Points(j) /\ HasId(j, m) /\ id = PpId(j, m)
                 /\ Points(j)[m].stack = call[t].stack
        BY <1>1, <1>9, <1>15
    <2> QED
        BY <1>0, <1>5, <1>8, <1>9, <2>1, AnswersKept
<1>17. NumbersInOrder'
    <2>1. OlderAnswers(call[t].before, Points(i)[call[t].index].sequence)
        BY <1>0, <1>1, <1>2 DEF NumbersInOrder
    <2>2. \/ id = OVERFLOW
          \/ \E j \in ShardIds : \E m \in DOMAIN Points(j) :
                 /\ id = PpId(j, m)
                 /\ OlderAnswers(call[t].before, Points(j)[m].sequence)
        BY <1>9, <1>15, <2>1
    <2>3. call'[t].at # "push" /\ call'[t].at # "insert"
        BY <1>5
    <2> QED
        BY <1>0, <1>5, <1>8, <1>9, <2>2, <2>3, OrderKept
<1>18. CASE r.full
    <2>1. intern' = intern
        <3>1. \A j \in ShardIds : intern'[j] = intern[j]
            BY <1>4, <1>18 DEF InsertStep
        <3>2. intern = [j \in ShardIds |-> intern[j]] /\ intern' = [j \in ShardIds |-> intern'[j]]
            BY <1>0, <1>4 DEF InsertStep, ShardsOk
        <3> QED
            BY <3>1, <3>2
    <2>2. KeysLead'
        BY <1>0, <1>5, <1>8, <1>10, <2>1, KeysLeadKept
    <2>3. KeptOrExcused'
        <3>1. Answered(t, OVERFLOW)
            BY <1>9, <1>18
        <3>2. \A j \in ShardIds : \A m \in DOMAIN records'[j].elements : m \in DOMAIN Points(j)
            BY <1>5 DEF Points
        <3> QED
            BY <1>0, <1>5, <1>8, <1>10, <2>1, <3>1, <3>2, ExcusesKept
    <2> QED
        BY <1>6, <1>7, <1>11, <1>12, <1>13, <1>14, <1>16, <1>17, <2>2, <2>3 DEF PointsInv
<1>19. CASE ~r.full
    <2>1. intern'[i].index = [k \in DOMAIN intern[i].index \cup {hash[call[t].stack]} |->
                                 IF k = hash[call[t].stack] THEN call[t].index
                                 ELSE intern[i].index[k]]
        BY <1>3, <1>4, <1>19 DEF InsertStep, Inserts
    <2>2. Answered(t, PpId(i, call[t].index))
        BY <1>9, <1>19
    <2>3. KeysLead'
        BY <1>0, <1>1, <1>2, <1>5, <2>1, <2>2, KeysLeadInsert
    <2>4. KeptOrExcused'
        BY <1>0, <1>1, <1>2, <1>5, <1>10, <2>1, ExcusesInsert
    <2> QED
        BY <1>6, <1>7, <1>11, <1>12, <1>13, <1>14, <1>16, <1>17, <2>3, <2>4 DEF PointsInv
<1>20. r.full \in BOOLEAN
    BY <1>4 DEF InsertStep, Inserts
<1> QED
    BY <1>18, <1>19

-----------------------------------------------------------------------------
(* The start, and what follows *)

LEMMA EmptyArenaOk ==
    ASSUME NEW limit \in Nat
    PROVE  ArenaOk(EmptyArena(limit))
<1> DEFINE a == EmptyArena(limit)
<1>1. /\ a.chunks = <<>> /\ a.cursor = 0 /\ a.end = 0 /\ a.bytes_reserved = 0 /\ a.bytes_used = 0
      /\ a.limit = limit /\ a.poisoned = FALSE
    BY DEF EmptyArena
<1>2. a \in ArenaState
    BY ArenaConstants DEF EmptyArena, ArenaState
<1> HIDE DEF a
<1>3. SumFunction([i \in DOMAIN a.chunks |-> a.chunks[i].size]) = 0
    <2> DEFINE f == [i \in DOMAIN a.chunks |-> a.chunks[i].size]
    <2>1. DOMAIN f = {}
        BY <1>1
    <2> HIDE DEF f
    <2>2. SumFunction(f) = 0
        BY <2>1, SumEmpty DEF SumFunction
    <2> QED
        BY <2>2 DEF f
<1>4. HandedOut(a)
    <2>1. Len(a.chunks) = 0 /\ HEADER * 0 = 0
        BY <1>1, ArenaConstants
    <2> QED
        BY <1>1, <2>1 DEF HandedOut
<1>5. InLast(a)
    BY <1>1 DEF InLast
<1> QED
    BY <1>1, <1>2, <1>3, <1>4, <1>5 DEF ArenaOk, a

LEMMA BeginsEmpty ==
    ASSUME InternInit
    PROVE  /\ \A i \in ShardIds : /\ records[i] = EmptyVec(MaxRecords) /\ intern[i] = NoMap
                                  /\ Points(i) = <<>> /\ DOMAIN Points(i) = {}
           /\ \A t \in Callers : call[t] = Idle /\ call[t].at = "idle"
           /\ answers = <<>> /\ DOMAIN answers = {} /\ Len(answers) = 0
           /\ sequence = 0 /\ leaked = 0
           /\ Pushed = {} /\ Blocks = {} /\ Busy = {} /\ Numbered = {}
<1>1. \A i \in ShardIds : /\ records[i] = EmptyVec(MaxRecords) /\ intern[i] = NoMap
                          /\ Points(i) = <<>> /\ DOMAIN Points(i) = {}
    BY DEF InternInit, Points, EmptyVec
<1>2. \A t \in Callers : call[t] = Idle /\ call[t].at = "idle"
    BY DEF InternInit, Idle
<1>3. answers = <<>> /\ DOMAIN answers = {} /\ Len(answers) = 0 /\ sequence = 0 /\ leaked = 0
    BY DEF InternInit
<1>4. Pushed = {}
    BY <1>1, PushedIs
<1>5. \A i \in ShardIds : records[i].block.size = 0
    BY <1>1 DEF EmptyVec, Nothing
<1>6. \A b : b \notin Blocks
    <2> TAKE b
    <2>1. ~ \E i \in ShardIds : b.size # 0 /\ b = records[i].block
        BY <1>5
    <2>2. ~ \E t \in Callers : Unlinked(t)
        BY <1>2 DEF Unlinked
    <2>3. ~ \E i \in ShardIds : \E n \in DOMAIN Points(i) : b = Points(i)[n].block
        BY <1>1
    <2> QED
        BY <2>1, <2>2, <2>3, BlocksAre
<1>7. Busy = {} /\ Numbered = {}
    BY <1>2 DEF Busy, Numbered
<1> QED
    BY <1>1, <1>2, <1>3, <1>4, <1>6, <1>7

LEMMA BeginsWithoutWords ==
    ASSUME InternInit
    PROVE  BooksAgree
<1>1. OfShards = 0 /\ Wasted = 0
    <2> DEFINE f == [i \in ShardIds |-> intern[i].slots * SlotLayout.size
                                          + VecBytes(records[i], RecordLayout)]
               g == [i \in ShardIds |-> intern[i].wasted + records[i].wasted]
               z == [i \in ShardIds |-> 0]
    <2>1. \A i \in ShardIds : /\ intern[i].slots = 0 /\ intern[i].wasted = 0
                              /\ records[i].capacity = 0 /\ records[i].wasted = 0
        BY BeginsEmpty DEF EmptyVec, NoMap
    <2>2. \A i \in ShardIds : intern[i].slots * SlotLayout.size
                                          + VecBytes(records[i], RecordLayout) = 0
        BY <2>1, SlotLayoutIs, RecordLayoutIs DEF VecBytes
    <2>3. f = z /\ g = z
        BY <2>1, <2>2
    <2>4. OfShards = SumFunction(f) /\ Wasted = SumFunction(g)
        BY DEF OfShards, Wasted
    <2> HIDE DEF f, g
    <2>5. SumFunction(z) = 0
        BY ShardIdsAre, SumOfZeros
    <2> QED
        BY <2>3, <2>4, <2>5
<1>2. OfFrames = 0
    <2> DEFINE f == [p \in Pushed |-> frames[RecordOf(p).stack]]
    <2>1. DOMAIN f = {}
        BY BeginsEmpty
    <2> HIDE DEF f
    <2>2. SumFunction(f) = 0
        BY <2>1, SumEmpty DEF SumFunction
    <2> QED
        BY <2>2 DEF f, OfFrames
<1>3. UnderWay = 0
    <2> DEFINE f == [t \in Callers |-> IF call[t].at \in {"number", "push"}
                                       THEN frames[call[t].stack] ELSE 0]
               z == [t \in Callers |-> 0]
    <2>1. f = z
        BY BeginsEmpty
    <2>2. UnderWay = SumFunction(f)
        BY DEF UnderWay
    <2> HIDE DEF f
    <2>3. SumFunction(z) = 0
        BY InternConstants, SumOfZeros
    <2> QED
        BY <2>1, <2>2, <2>3
<1>4. arena.bytes_used = 0 /\ leaked = 0
    BY DEF InternInit, EmptyArena
<1> QED
    BY <1>1, <1>2, <1>3, <1>4, BooksAre DEF BooksSum

LEMMA PointsBegin == InternInit => PointsInv
<1> SUFFICES ASSUME InternInit PROVE PointsInv
    OBVIOUS
<1>1. StateTypes
    <2>1. EmptyVec(MaxRecords) \in AVec
        BY CeilingTypes, NothingIsAWord DEF EmptyVec, AVec
    <2>2. Idle \in ACall
        BY DEF ACall
    <2>3. <<>> \in Seq(AnAnswer)
        OBVIOUS
    <2> QED
        BY <2>1, <2>2, <2>3 DEF InternInit, StateTypes
<1>2. CallsBounded
    <2>1. Cardinality(Busy) = 0 /\ Cardinality(Numbered) = 0
        BY BeginsEmpty, FS_EmptySet
    <2> QED
        BY <2>1, BeginsEmpty, InternConstants DEF CallsBounded, Unlinked
<1>3. ShardsOk
    <2>1. VecOk(EmptyVec(MaxRecords))
        BY CeilingTypes, NothingIsAWord DEF EmptyVec, AVec, VecOk
    <2>2. MapOk(NoMap)
        <3>1. Cardinality({}) = 0 /\ IsFiniteSet({})
            BY FS_EmptySet
        <3>2. DOMAIN NoMap.index = {} /\ NoMap.slots = 0 /\ NoMap.wasted = 0
            BY DEF NoMap
        <3>3. NoMap = [index |-> NoMap.index, slots |-> NoMap.slots, wasted |-> NoMap.wasted]
            BY DEF NoMap
        <3>4. 0 \in 0..MaxSlots /\ 0 % 2 = 0
            BY CeilingTypes
        <3> QED
            BY <3>1, <3>2, <3>3, <3>4 DEF MapOk
    <2>3. intern = [i \in ShardIds |-> intern[i]]
        BY DEF InternInit
    <2> QED
        BY <2>1, <2>2, <2>3, BeginsEmpty DEF ShardsOk
<1>4. KeysLead
    BY BeginsEmpty DEF KeysLead, NoMap
<1>5. OneInShard /\ InsertsItsOwn /\ AnswersHaveRecords /\ KeptOrExcused
    BY BeginsEmpty DEF OneInShard, InsertsItsOwn, AnswersHaveRecords, KeptOrExcused, InTable
<1>6. NumbersApart /\ NumbersInOrder
    BY BeginsEmpty DEF NumbersApart, NumbersInOrder
<1>7. ArenaOk(arena)
    <2>1. PICK limit \in Limits : arena = EmptyArena(limit)
        BY DEF InternInit
    <2>2. limit \in Nat
        BY InternConstants
    <2> QED
        BY <2>1, <2>2, EmptyArenaOk
<1>8. BlocksApart
    BY BeginsEmpty DEF BlocksApart
<1> QED
    BY <1>1, <1>2, <1>3, <1>4, <1>5, <1>6, <1>7, <1>8, BeginsWithoutWords DEF PointsInv

LEMMA PreservedByStutter ==
    ASSUME PointsInv, UNCHANGED internVars
    PROVE  PointsInv'
<1>0. /\ hash' = hash /\ frames' = frames /\ arena' = arena /\ records' = records
      /\ intern' = intern /\ sequence' = sequence /\ call' = call /\ answers' = answers
      /\ leaked' = leaked
    BY DEF internVars
<1>1. StateTypes'
    BY <1>0 DEF PointsInv, StateTypes
<1>p. /\ CallsBounded /\ ShardsOk /\ KeysLead /\ OneInShard /\ InsertsItsOwn
      /\ AnswersHaveRecords /\ KeptOrExcused /\ NumbersApart /\ NumbersInOrder
      /\ ArenaOk(arena) /\ BlocksApart /\ BooksAgree
    BY DEF PointsInv
<1>q. /\ Pushed' = Pushed /\ Busy' = Busy
      /\ \A i : Points(i)' = Points(i)
      /\ \A t : ShardOfCall(t)' = ShardOfCall(t)
    BY <1>0 DEF Pushed, Points, Busy, ShardOfCall, ShardOf
<1>r. \A p : RecordOf(p)' = RecordOf(p)
    BY <1>q DEF RecordOf
<1>2. CallsBounded'
    BY <1>0, <1>p DEF CallsBounded, Busy, Numbered, Unlinked
<1>3. ShardsOk'
    BY <1>0, <1>p DEF ShardsOk, Points, ShardOf
<1>4. KeysLead'
    BY <1>0, <1>p DEF KeysLead, Points
<1>5. OneInShard'
    BY <1>0, <1>p DEF OneInShard, InTable, ShardOfCall, ShardOf, Found
<1>6. InsertsItsOwn'
    BY <1>0, <1>p DEF InsertsItsOwn, Points, ShardOfCall, ShardOf
<1>7. AnswersHaveRecords'
    BY <1>0, <1>p DEF AnswersHaveRecords, Leads, Points
<1>8. KeptOrExcused'
    <2>1. \A i, m : HasKey(i, m)' <=> HasKey(i, m)
        BY <1>0, <1>q DEF HasKey
    <2>2. \A i, m : Inserting(i, m)' <=> Inserting(i, m)
        BY <1>0, <1>q DEF Inserting
    <2>3. \A s : (SharesHash(s)' <=> SharesHash(s)) /\ (WasRefused(s)' <=> WasRefused(s))
        BY <1>0 DEF SharesHash, WasRefused
    <2> QED
        BY <1>p, <1>q, <2>1, <2>2, <2>3 DEF KeptOrExcused
<1>9. NumbersApart'
    BY <1>0, <1>p, <1>q DEF NumbersApart
<1>10. NumbersInOrder'
    BY <1>0, <1>p DEF NumbersInOrder, OlderAnswers, RecordAt, Points, ShardOfCall, ShardOf
<1>11. ArenaOk(arena)'
    BY <1>0, <1>p
<1>12. BlocksApart'
    <2>1. FrameBlocks' = FrameBlocks /\ VecBlocks' = VecBlocks
        BY <1>0, <1>q, <1>r DEF FrameBlocks, VecBlocks
    <2>2. Blocks' = Blocks
        BY <2>1 DEF Blocks
    <2> QED
        BY <1>0, <1>p, <2>2 DEF BlocksApart
<1>13. BooksAgree'
    <2>1. TableBytes' = TableBytes
        BY <1>0, <1>q, <1>r DEF TableBytes
    <2>2. Wasted' = Wasted /\ UnderWay' = UnderWay
        BY <1>0 DEF Wasted, UnderWay
    <2> QED
        BY <1>0, <1>p, <2>1, <2>2 DEF BooksAgree
<1> QED
    BY <1>1, <1>2, <1>3, <1>4, <1>5, <1>6, <1>7, <1>8, <1>9, <1>10, <1>11, <1>12, <1>13
       DEF PointsInv

LEMMA PointsStep == PointsInv /\ [InternNext]_internVars => PointsInv'
<1> SUFFICES ASSUME PointsInv, [InternNext]_internVars PROVE PointsInv'
    OBVIOUS
<1>1. CASE \E t \in Callers : \E s \in Stacks : Begin(t, s)
    BY <1>1, PreservedByBegin
<1>2. CASE \E t \in Callers : Lookup(t)
    BY <1>2, PreservedByLookup
<1>3. CASE \E t \in Callers : StoreFrames(t)
    BY <1>3, PreservedByStoreFrames
<1>4. CASE \E t \in Callers : Number(t)
    BY <1>4, PreservedByNumber
<1>5. CASE \E t \in Callers : PushRecord(t)
    BY <1>5, PreservedByPushRecord
<1>6. CASE \E t \in Callers : InsertIndex(t)
    BY <1>6, PreservedByInsertIndex
<1>7. CASE UNCHANGED internVars
    BY <1>7, PreservedByStutter
<1> QED
    BY <1>1, <1>2, <1>3, <1>4, <1>5, <1>6, <1>7 DEF InternNext, Interned

LEMMA PointsAnswersLead == PointsInv => AnswersLead
<1> SUFFICES ASSUME PointsInv, NEW n \in DOMAIN answers, answers[n].id # OVERFLOW
             PROVE  RecordAt(answers[n].id).stack = answers[n].stack
    BY DEF AnswersLead
<1>1. PICK i \in ShardIds, m \in Nat \ {0} : Leads(n, i, m)
    BY DEF PointsInv, AnswersHaveRecords
<1>2. answers[n].id = PpId(i, m) /\ Points(i)[m].stack = answers[n].stack
    BY <1>1 DEF Leads
<1> QED
    BY <1>2, RecordOfId

LEMMA PointsTyped == PointsInv => PointsTypeOK
<1> SUFFICES ASSUME PointsInv PROVE PointsTypeOK
    OBVIOUS
<1>0. StateTypes /\ CallsBounded /\ ShardsOk /\ KeysLead /\ OneInShard
    BY DEF PointsInv
<1>1. sequence \in 0..MaxInterns
    <2>1. IsFiniteSet(Busy) /\ Cardinality(Busy) \in Nat /\ Cardinality(Numbered) \in Nat
        BY BusyCounts DEF Busy, Numbered
    <2>2. Numbered \in SUBSET Busy
        BY DEF Numbered, Busy, Idle
    <2>3. Cardinality(Numbered) <= Cardinality(Busy)
        BY <2>1, <2>2, FS_Subset
    <2>4. Len(answers) \in Nat /\ sequence \in Nat
        BY <1>0, AnswerTypes DEF StateTypes
    <2> QED
        BY <1>0, <2>1, <2>3, <2>4, InternConstants DEF CallsBounded
<1>2. ASSUME NEW i \in ShardIds
      PROVE  Cardinality({t \in Busy : call[t].at # "lookup" /\ ShardOf(call[t].stack) = i}) <= 1
    <2> DEFINE S == {t \in Busy : call[t].at # "lookup" /\ ShardOf(call[t].stack) = i}
    <2>1. \A t, u \in S : t = u
        <3> SUFFICES ASSUME NEW t \in S, NEW u \in S PROVE t = u
            OBVIOUS
        <3>1. t \in Callers /\ u \in Callers /\ call[t] # Idle /\ call[u] # Idle
              /\ ShardOfCall(t) = i /\ ShardOfCall(u) = i
            BY DEF Busy, ShardOfCall
        <3>2. InTable(t) /\ InTable(u)
            BY <1>0, <3>1, ThreadTypes DEF InTable
        <3> QED
            BY <1>0, <3>1, <3>2 DEF OneInShard
    <2> HIDE DEF S
    <2>2. S = {} => Cardinality(S) <= 1
        BY FS_EmptySet
    <2>3. ASSUME S # {} PROVE Cardinality(S) <= 1
        <3>1. PICK t \in S : S = {t}
            BY <2>1, <2>3
        <3>2. Cardinality({t}) = 1
            BY FS_Singleton
        <3> QED
            BY <3>1, <3>2
    <2>4. Cardinality(S) <= 1
        BY <2>2, <2>3
    <2> QED
        BY <2>4 DEF S
<1>3. \A i \in ShardIds :
        /\ Len(Points(i)) <= records[i].capacity
        /\ records[i].capacity <= MaxRecords
        /\ 2 * Cardinality(DOMAIN intern[i].index) <= intern[i].slots
        /\ intern[i].slots <= MaxSlots
        /\ \A k \in DOMAIN intern[i].index : intern[i].index[k] \in DOMAIN Points(i)
    BY <1>0, CeilingTypes DEF ShardsOk, VecOk, MapOk, KeysLead, Points
<1>4. \A n \in DOMAIN answers : answers[n].id \in 0..OVERFLOW
    BY <1>0, AnswerTypes
<1> QED
    BY <1>1, <1>2, <1>3, <1>4 DEF PointsTypeOK

LEMMA PointsOneRecordEach == PointsInv => OneRecordEach
<1> SUFFICES ASSUME PointsInv, NEW p \in Pushed, NEW q \in Pushed, p # q,
                    RecordOf(p).stack = RecordOf(q).stack
             PROVE  SharesHash(RecordOf(p).stack) \/ WasRefused(RecordOf(p).stack)
    BY DEF OneRecordEach, SharesHash, WasRefused
<1>0. StateTypes /\ ShardsOk /\ OneInShard /\ InsertsItsOwn /\ KeptOrExcused
    BY DEF PointsInv
<1>1. PICK i \in ShardIds : \E m \in DOMAIN Points(i) : p = <<i, m>>
    BY PushedIs
<1>2. PICK m \in DOMAIN Points(i) : p = <<i, m>>
    BY <1>1
<1>3. PICK j \in ShardIds : \E n \in DOMAIN Points(j) : q = <<j, n>>
    BY PushedIs
<1>4. PICK n \in DOMAIN Points(j) : q = <<j, n>>
    BY <1>3
<1>5. RecordOf(p) = Points(i)[m] /\ RecordOf(q) = Points(j)[n]
    BY <1>2, <1>4 DEF RecordOf
<1> DEFINE s == Points(i)[m].stack
<1>6. i = j
    BY <1>0, <1>5 DEF ShardsOk
<1>7. m # n /\ Points(i)[n].stack = s /\ ShardOf(s) = i
    BY <1>0, <1>2, <1>4, <1>5, <1>6 DEF ShardsOk
<1> SUFFICES ASSUME ~SharesHash(s), ~WasRefused(s) PROVE FALSE
    BY <1>5
<1>8. HasKey(i, m) \/ Inserting(i, m)
    BY <1>0 DEF KeptOrExcused
<1>9. HasKey(i, n) \/ Inserting(i, n)
    BY <1>0, <1>4, <1>6, <1>7 DEF KeptOrExcused
<1>10. ASSUME NEW x \in DOMAIN Points(i), Points(i)[x].stack = s, HasKey(i, x),
              NEW y, Inserting(i, y), y \in DOMAIN Points(i), Points(i)[y].stack = s
       PROVE  FALSE
    <2>1. PICK t \in Callers : call[t].at = "insert" /\ ShardOfCall(t) = i /\ call[t].index = y
        BY <1>10 DEF Inserting
    <2>2. call[t].stack = s /\ InTable(t)
        BY <1>0, <1>10, <2>1 DEF InsertsItsOwn, InTable
    <2>3. Found(s)
        BY <1>7, <1>10 DEF Found, HasKey, Points
    <2> QED
        BY <1>0, <2>2, <2>3 DEF OneInShard
<1>11. CASE HasKey(i, m) /\ HasKey(i, n)
    BY <1>7, <1>11 DEF HasKey
<1>12. CASE HasKey(i, m) /\ Inserting(i, n)
    BY <1>4, <1>6, <1>7, <1>10, <1>12
<1>13. CASE HasKey(i, n) /\ Inserting(i, m)
    BY <1>4, <1>6, <1>7, <1>10, <1>13
<1>14. CASE Inserting(i, m) /\ Inserting(i, n)
    <2>1. PICK t \in Callers : call[t].at = "insert" /\ ShardOfCall(t) = i /\ call[t].index = m
        BY <1>14 DEF Inserting
    <2>2. PICK u \in Callers : call[u].at = "insert" /\ ShardOfCall(u) = i /\ call[u].index = n
        BY <1>14 DEF Inserting
    <2>3. t = u
        BY <1>0, <2>1, <2>2 DEF OneInShard, InTable
    <2> QED
        BY <1>7, <2>1, <2>2, <2>3
<1> QED
    BY <1>8, <1>9, <1>11, <1>12, <1>13, <1>14

LEMMA PointsCreationOrder == PointsInv => CreationOrder
<1> SUFFICES ASSUME PointsInv PROVE CreationOrder
    OBVIOUS
<1>0. StateTypes /\ NumbersApart /\ NumbersInOrder
    BY DEF PointsInv
<1>1. ASSUME NEW n \in DOMAIN answers, NEW m \in 1..answers[n].before,
             answers[n].id # OVERFLOW, answers[m].id # OVERFLOW,
             \A i \in 1..n - 1 : answers[i].id # answers[n].id
      PROVE  RecordAt(answers[m].id).sequence < RecordAt(answers[n].id).sequence
    <2>1. OlderAnswers(answers[n].before, RecordAt(answers[n].id).sequence)
        BY <1>0, <1>1 DEF NumbersInOrder
    <2> QED
        BY <1>1, <2>1 DEF OlderAnswers
<1>2. \A i \in ShardIds : \A m, n \in DOMAIN Points(i) :
        m < n => Points(i)[m].sequence < Points(i)[n].sequence
    BY <1>0 DEF NumbersApart
<1>3. ASSUME NEW p \in Pushed, NEW q \in Pushed, RecordOf(p).sequence = RecordOf(q).sequence
      PROVE  p = q
    <2>1. PICK i \in ShardIds : \E m \in DOMAIN Points(i) : p = <<i, m>>
        BY PushedIs
    <2>2. PICK m \in DOMAIN Points(i) : p = <<i, m>>
        BY <2>1
    <2>3. PICK j \in ShardIds : \E n \in DOMAIN Points(j) : q = <<j, n>>
        BY PushedIs
    <2>4. PICK n \in DOMAIN Points(j) : q = <<j, n>>
        BY <2>3
    <2>5. Points(i)[m].sequence = Points(j)[n].sequence
        BY <1>3, <2>2, <2>4 DEF RecordOf
    <2>6. i = j /\ m = n
        BY <1>0, <2>5 DEF NumbersApart
    <2> QED
        BY <2>2, <2>4, <2>6
<1> QED
    BY <1>1, <1>2, <1>3 DEF CreationOrder

LEMMA PointsArenaExact == PointsInv => ArenaExact
<1> SUFFICES ASSUME PointsInv PROVE ArenaExact
    OBVIOUS
<1>0. ArenaOk(arena) /\ BlocksApart /\ BooksAgree
    BY DEF PointsInv
<1>1. Within(arena)
    <2> DEFINE h == HEADER * Len(arena.chunks)
    <2>1. arena \in ArenaState
        BY <1>0 DEF ArenaOk
    <2>2. Scalars(arena) /\ h \in Nat
        BY <2>1, ArenaTypes
    <2>3. /\ arena.bytes_used + (arena.end - arena.cursor) <= arena.bytes_reserved - h
          /\ arena.cursor <= arena.end
        BY <1>0 DEF ArenaOk, HandedOut, InLast
    <2> HIDE DEF h
    <2>4. arena.bytes_used <= arena.bytes_reserved - h
        BY <2>2, <2>3 DEF Scalars
    <2> QED
        BY <1>0, <2>4 DEF Within, ArenaOk, h
<1>2. \A b \in Blocks : Inside(arena, b) /\ \A c \in Blocks \ {b} : Apart(b, c)
    BY <1>0 DEF BlocksApart, Placed
<1>3. arena.bytes_used = TableBytes + Wasted + UnderWay + leaked
    BY <1>0 DEF BooksAgree
<1> QED
    BY <1>1, <1>2, <1>3 DEF ArenaExact

(***************************************************************************)
(* The inductive invariant of the interning of call stacks: what the shard *)
(* locks, the maps, the records, the numbers, the answers and the arena    *)
(* are to one another in every state PpTable::intern can reach, whatever   *)
(* the threads, the stacks, their hashes and the ceilings.                 *)
(***************************************************************************)
THEOREM PointsHold == InternSpec => []PointsInv
<1>1. InternInit => PointsInv
    BY PointsBegin
<1>2. PointsInv /\ [InternNext]_internVars => PointsInv'
    BY PointsStep
<1> QED
    BY <1>1, <1>2, PTL DEF InternSpec

(***************************************************************************)
(* PpTable::intern: an id leads to the stack it was answered for, for ever *)
(* and to every caller.                                                    *)
(***************************************************************************)
THEOREM AnswersAlwaysLead == InternSpec => []AnswersLead
BY PointsHold, PointsAnswersLead, PTL

(***************************************************************************)
(* A stack has one record unless its hash is another's or it was refused,  *)
(* numbers order the records by their creation, each shard has one thread  *)
(* at most under its lock, no two blocks of the arena share a word, and    *)
(* every word of it is accounted for.                                      *)
(***************************************************************************)
THEOREM TablesAlwaysAgree == InternSpec => []TablesAgree
<1>1. PointsInv => TablesAgree
    BY PointsTyped, PointsOneRecordEach, PointsCreationOrder, PointsArenaExact DEF TablesAgree
<1> QED
    BY <1>1, PointsHold, PTL
=============================================================================
