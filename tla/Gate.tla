-------------------------------- MODULE Gate --------------------------------
(***************************************************************************)
(* The peak gate of src/src/internals/gate.rs: a state word holding a      *)
(* reader count and a writer flag, and a RawLock that serialises writers   *)
(* and gives a blocked reader a kernel wait.  One action is one atomic     *)
(* operation on the word or on the lock.                                   *)
(*                                                                         *)
(* write, write_for and lock_for_fork share their steps; mode[t] tells     *)
(* them apart.  Only the last two can give up.  After lock_for_fork the    *)
(* process forks: the behaviour goes on as the parent, which releases what *)
(* it got, or as the child, where only the forking thread exists and       *)
(* reinit_after_fork overwrites the gate.                                  *)
(***************************************************************************)
EXTENDS Naturals, FiniteSets

CONSTANTS Threads, NoThread

ASSUME ThreadsAssumption == IsFiniteSet(Threads) /\ NoThread \notin Threads

VARIABLES place,  \* where each thread is
          mode,   \* which acquisition a writing thread runs
          seen,   \* the reader count a reader loaded before its exchange
          inside, \* the word's reader count
          flag,   \* the word's WRITER bit
          owner   \* who holds the RawLock `writer`

gateVars == <<place, mode, seen, inside, flag, owner>>

Modes == {"write", "write_for", "fork"}
CanGiveUp(t) == mode[t] \in {"write_for", "fork"}

PCs == {"idle", "r_load", "r_cas", "r_wait", "r_wake", "reading",
        "w_lock", "w_flag", "w_drain", "writing", "w_withdraw",
        "w_unlock", "in_fork", "gone"}

GateInit ==
    /\ place = [t \in Threads |-> "idle"]
    /\ mode = [t \in Threads |-> "write"]
    /\ seen = [t \in Threads |-> 0]
    /\ inside = 0
    /\ flag = FALSE
    /\ owner = NoThread

Go(t, to) == place' = [place EXCEPT ![t] = to]
At(t, from) == place[t] = from

-----------------------------------------------------------------------------
(* Gate::read *)

StartRead(t) ==
    /\ At(t, "idle")
    /\ Go(t, "r_load")
    /\ UNCHANGED <<mode, seen, inside, flag, owner>>

\* The load of the word: a set WRITER bit sends the reader to the RawLock.
ReadLoad(t) ==
    /\ At(t, "r_load")
    /\ Go(t, IF flag THEN "r_wait" ELSE "r_cas")
    /\ seen' = [seen EXCEPT ![t] = IF flag THEN 0 ELSE inside]
    /\ UNCHANGED <<mode, inside, flag, owner>>

\* Mutant: a store instead of a compare-exchange.
ReadEnterStore(t) ==
    /\ At(t, "r_cas")
    /\ ~flag
    /\ inside' = seen[t] + 1
    /\ seen' = [seen EXCEPT ![t] = 0]
    /\ Go(t, "reading")
    /\ UNCHANGED <<mode, flag, owner>>

\* Mutant: a fetch-add, which a set flag does not stop.
ReadEnterFetchAdd(t) ==
    /\ At(t, "r_cas")
    /\ inside' = inside + 1
    /\ seen' = [seen EXCEPT ![t] = 0]
    /\ Go(t, "reading")
    /\ UNCHANGED <<mode, flag, owner>>

\* The exchange succeeds only on the very word that was loaded, so never while
\* the flag is set.
ReadEnter(t) ==
    /\ At(t, "r_cas")
    /\ ~flag
    /\ inside = seen[t]
    /\ inside' = inside + 1
    /\ seen' = [seen EXCEPT ![t] = 0]
    /\ Go(t, "reading")
    /\ UNCHANGED <<mode, flag, owner>>

\* compare_exchange_weak may also fail on an unchanged word.
ReadRetry(t) ==
    /\ At(t, "r_cas")
    /\ seen' = [seen EXCEPT ![t] = 0]
    /\ Go(t, "r_load")
    /\ UNCHANGED <<mode, inside, flag, owner>>

\* drop(self.writer.lock()): sleep until the writer is gone, then look again.
ReadWait(t) ==
    /\ At(t, "r_wait")
    /\ owner = NoThread
    /\ owner' = t
    /\ Go(t, "r_wake")
    /\ UNCHANGED <<mode, seen, inside, flag>>

ReadWake(t) ==
    /\ At(t, "r_wake")
    /\ owner' = NoThread
    /\ Go(t, "r_load")
    /\ UNCHANGED <<mode, seen, inside, flag>>

\* ReadGuard::drop
ReadLeave(t) ==
    /\ At(t, "reading")
    /\ inside' = inside - 1
    /\ Go(t, "idle")
    /\ UNCHANGED <<mode, seen, flag, owner>>

-----------------------------------------------------------------------------
(* Gate::write, Gate::write_for, Gate::lock_for_fork *)

StartWrite(t) ==
    /\ At(t, "idle")
    /\ \E m \in Modes : mode' = [mode EXCEPT ![t] = m]
    /\ Go(t, "w_lock")
    /\ UNCHANGED <<seen, inside, flag, owner>>

\* Mutant: writers are not serialised.
WriteLockUnserialised(t) ==
    /\ At(t, "w_lock")
    /\ owner' = t
    /\ Go(t, "w_flag")
    /\ UNCHANGED <<mode, seen, inside, flag>>

WriteLock(t) ==
    /\ At(t, "w_lock")
    /\ owner = NoThread
    /\ owner' = t
    /\ Go(t, "w_flag")
    /\ UNCHANGED <<mode, seen, inside, flag>>

\* try_lock_for ran out of time; a prepare handler forks all the same.
WriteLockTimeout(t) ==
    /\ At(t, "w_lock")
    /\ CanGiveUp(t)
    /\ owner # NoThread
    /\ Go(t, IF mode[t] = "fork" THEN "in_fork" ELSE "idle")
    /\ UNCHANGED <<mode, seen, inside, flag, owner>>

\* Mutant: the intent is not announced.
WriteFlagSilent(t) ==
    /\ At(t, "w_flag")
    /\ Go(t, "w_drain")
    /\ UNCHANGED <<mode, seen, inside, flag, owner>>

WriteFlag(t) ==
    /\ At(t, "w_flag")
    /\ flag' = TRUE
    /\ Go(t, "w_drain")
    /\ UNCHANGED <<mode, seen, inside, owner>>

WriteEnter(t) ==
    /\ At(t, "w_drain")
    /\ inside = 0
    /\ Go(t, IF mode[t] = "fork" THEN "in_fork" ELSE "writing")
    /\ UNCHANGED <<mode, seen, inside, flag, owner>>

WriteDrainTimeout(t) ==
    /\ At(t, "w_drain")
    /\ CanGiveUp(t)
    /\ inside # 0
    /\ Go(t, "w_withdraw")
    /\ UNCHANGED <<mode, seen, inside, flag, owner>>

\* Giving up clears the flag before the RawLock is released.
WriteWithdraw(t) ==
    /\ At(t, "w_withdraw")
    /\ flag' = FALSE
    /\ Go(t, "w_unlock")
    /\ UNCHANGED <<mode, seen, inside, owner>>

\* WriteGuard::drop: the flag first, then the lock a reader sleeps on.
WriteLeave(t) ==
    /\ At(t, "writing")
    /\ flag' = FALSE
    /\ Go(t, "w_unlock")
    /\ UNCHANGED <<mode, seen, inside, owner>>

\* Also the end of a lock_for_fork that gave up while draining: it released
\* the lock and the fork goes on without the gate.
WriteUnlock(t) ==
    /\ At(t, "w_unlock")
    /\ owner' = NoThread
    /\ Go(t, IF mode[t] = "fork" THEN "in_fork" ELSE "idle")
    /\ mode' = [mode EXCEPT ![t] = "write"]
    /\ UNCHANGED <<seen, inside, flag>>

-----------------------------------------------------------------------------
(* fork: the forking thread is at in_fork, holding the gate or not. *)

\* Whether lock_for_fork succeeded (Engine::fork_locks_held).
GotGate(t) == At(t, "in_fork") /\ owner = t

\* unlock_for_fork in the parent, up to the release of the RawLock.
ForkParent(t) ==
    /\ GotGate(t)
    /\ flag' = FALSE
    /\ Go(t, "w_unlock")
    /\ mode' = [mode EXCEPT ![t] = "write"]
    /\ UNCHANGED <<seen, inside, owner>>

\* A parent that forked without the gate has nothing to release.
ForkParentWithout(t) ==
    /\ At(t, "in_fork")
    /\ owner # t
    /\ Go(t, "idle")
    /\ mode' = [mode EXCEPT ![t] = "write"]
    /\ UNCHANGED <<seen, inside, flag, owner>>

\* reinit_after_fork: every other thread is gone and the gate is overwritten.
ForkChild(t) ==
    /\ At(t, "in_fork")
    /\ place' = [u \in Threads |-> IF u = t THEN "idle" ELSE "gone"]
    /\ mode' = [u \in Threads |-> "write"]
    /\ seen' = [u \in Threads |-> 0]
    /\ inside' = 0
    /\ flag' = FALSE
    /\ owner' = NoThread

\* The child may start threads of its own.
Spawn(t) ==
    /\ At(t, "gone")
    /\ Go(t, "idle")
    /\ UNCHANGED <<mode, seen, inside, flag, owner>>

-----------------------------------------------------------------------------
ReadStep(t) == ReadLoad(t) \/ ReadEnter(t) \/ ReadRetry(t) \/ ReadWait(t)
                  \/ ReadWake(t) \/ ReadLeave(t)

WriteStep(t) == WriteLock(t) \/ WriteLockTimeout(t) \/ WriteFlag(t)
                   \/ WriteEnter(t) \/ WriteDrainTimeout(t)
                   \/ WriteWithdraw(t) \/ WriteLeave(t) \/ WriteUnlock(t)

ForkStep(t) == ForkParent(t) \/ ForkParentWithout(t) \/ ForkChild(t)

GateNext == \E t \in Threads :
           StartRead(t) \/ StartWrite(t) \/ Spawn(t)
              \/ ReadStep(t) \/ WriteStep(t) \/ ForkStep(t)

GateSpec == GateInit /\ [][GateNext]_gateVars

\* A thread inside read or write keeps running, and what it does while it
\* holds the gate is finite.  Nobody has to start an acquisition.
Fairness == \A t \in Threads :
               WF_gateVars(ReadStep(t)) /\ WF_gateVars(WriteStep(t)) /\ WF_gateVars(ForkStep(t))

FairSpec == GateSpec /\ Fairness

-----------------------------------------------------------------------------
(* Properties *)

Reading == {t \in Threads : At(t, "reading")}
HoldsExclusive(t) == At(t, "writing") \/ GotGate(t)
Exclusive == {t \in Threads : HoldsExclusive(t)}

GateTypeOK ==
    /\ place \in [Threads -> PCs]
    /\ mode \in [Threads -> Modes]
    /\ seen \in [Threads -> 0..Cardinality(Threads)]
    /\ inside \in 0..Cardinality(Threads)
    /\ flag \in BOOLEAN
    /\ owner \in Threads \cup {NoThread}

CountIsReaders == inside = Cardinality(Reading)

LockHeld(t) ==
    place[t] \in {"r_wake", "w_flag", "w_drain", "writing", "w_withdraw", "w_unlock"}
OwnerIsHolder == \A t \in Threads :
                    /\ LockHeld(t) => owner = t
                    /\ owner = t => LockHeld(t) \/ At(t, "in_fork")
Flagging(t) == place[t] \in {"w_drain", "writing", "w_withdraw"} \/ GotGate(t)
FlagIsWriter == flag <=> \E t \in Threads : Flagging(t)

\* The word counts exactly the threads inside the shared section: a lost or a
\* doubled count is invisible until a writer enters over a reader or waits for
\* one that left.  The lock and the flag, which a writer takes and gives back at
\* different moments and by three ways out, are held by the one that took them.
WordIsExact == CountIsReaders /\ OwnerIsHolder /\ FlagIsWriter

\* A writer, and a fork that got the gate, run alone.
Exclusion == \A t \in Threads :
                HoldsExclusive(t) => Reading = {} /\ Exclusive = {t}

\* When no thread is inside the gate, it is open: no withdrawn intent, no
\* reader of a dead thread and no inherited lock is left behind, whatever
\* timed out and whenever the process forked.
QuiescentOpen ==
    (\A t \in Threads : place[t] \in {"idle", "gone"})
        => inside = 0 /\ ~flag /\ owner = NoThread

\* "once a writer has flagged its intent the count only ever falls"
DrainOnlyFalls == [][flag /\ flag' => inside' <= inside]_gateVars

\* A writer that waits for the readers stops waiting: it enters or gives up,
\* however many readers keep arriving.
WriterDrains == \A t \in Threads : At(t, "w_drain") ~> ~At(t, "w_drain")

\* The one thread that holds the gate exclusively, if any.
Holder == IF Exclusive = {} THEN NoThread ELSE CHOOSE t \in Threads : t \in Exclusive

\* The word and the lock implement a reader-writer lock.
RW == INSTANCE RWGate WITH readers <- Reading, writer <- Holder
ImplementsRWGate == RW!GateSpec


\* What the word, the lock and the flag are at every moment, and that nobody
\* leaves a gate behind that is not open.
Sound == GateTypeOK /\ WordIsExact /\ QuiescentOpen
=============================================================================
