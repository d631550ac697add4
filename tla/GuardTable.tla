----------------------------- MODULE GuardTable -----------------------------
(***************************************************************************)
(* The reentrancy guard (src/src/internals/guard.rs): one slot per thread  *)
(* in a fixed open-addressed table keyed by the thread's handle, the depth *)
(* and the attribution cached in it, threads that start, exit, allocate    *)
(* after their thread-locals are gone and have their handle reused, the    *)
(* fork window that holds the guard across fork (fork.rs), and regions     *)
(* (region.rs), which outlive a trip through the guard.                    *)
(*                                                                         *)
(* A thread is a stack of calls to enter: a call above another is what a   *)
(* signal handler does, or an allocation made under the guard.  One action *)
(* is one atomic operation on the table; clear, which touches only a slot  *)
(* its caller owns, is part of the step before it.                         *)
(***************************************************************************)
EXTENDS Integers, Sequences, FiniteSets

CONSTANTS Threads,   \* thread handles, which the platform reuses
          SLOTS,     \* the size of the table
          MAX_PROBE, \* how far a probe goes
          Home,      \* slot_index: where each handle's probe starts
          None,      \* EMPTY, and an attribution word that is not set
          MaxEnters, MaxNesting, MaxReuses \* bounds

ASSUME SlotsAssumption == SLOTS \in Nat \ {0} /\ MAX_PROBE \in 1..SLOTS
ASSUME HomeAssumption == Home \in [Threads -> 0..SLOTS - 1]
ASSUME NoneAssumption == None \notin Threads \cup 0..SLOTS - 1 \cup Threads \X Nat
ASSUME BoundsAssumption == {MaxEnters, MaxNesting, MaxReuses} \subseteq Nat

VARIABLES table,    \* TABLE
          claimed, poisoned,
          phase,    \* "gone", "alive", or "torn": its thread-locals are destroyed
          life,     \* history: how many threads have had this handle
          release,  \* RELEASE, the slot a thread's exit gives back
          calls,    \* each thread's calls to enter, the innermost last
          open,     \* whether the thread has an open Region
          strayed,  \* history: some thread's slot was not where a probe finds it
          enters    \* how many calls there have been

vars == <<table, claimed, poisoned, phase, life, release, calls, open,
          strayed, enters>>

Slots == 0..SLOTS - 1
EmptySlot == [owner |-> None, depth |-> 0, thread |-> None, region |-> None]

\* The threads run, and none of them has allocated yet.
Init ==
    /\ table = [s \in Slots |-> EmptySlot]
    /\ claimed = 0
    /\ poisoned = FALSE
    /\ phase = [t \in Threads |-> "alive"]
    /\ life = [t \in Threads |-> 1]
    /\ release = [t \in Threads |-> None]
    /\ calls = [t \in Threads |-> <<>>]
    /\ open = [t \in Threads |-> FALSE]
    /\ strayed = FALSE
    /\ enters = 0

Probe(t, i) == (Home[t] + i) % SLOTS

\* existing_slot: the thread's slot, if no gap comes before it.
Finds(t, s) ==
    \E i \in 0..MAX_PROBE - 1 :
       /\ s = Probe(t, i)
       /\ table[s].owner = t
       /\ \A j \in 0..i - 1 : table[Probe(t, j)].owner \notin {t, None}

\* Mutant: the attribution words are left.
ClearedKeepsThread(slot) == [slot EXCEPT !.depth = 0, !.region = None]

\* clear: a slot's contents, without its ownership.
Cleared(slot) == [slot EXCEPT !.depth = 0, !.thread = None, !.region = None]

Released(slot) == [Cleared(slot) EXCEPT !.owner = None]

-----------------------------------------------------------------------------
(* The life of a thread *)

\* The platform hands out a handle nobody has.
Spawn(t) ==
    /\ phase[t] = "gone"
    /\ life[t] = 1 /\ Cardinality({u \in Threads : life[u] > 1}) < MaxReuses
    /\ enters < MaxEnters
    /\ phase' = [phase EXCEPT ![t] = "alive"]
    /\ life' = [life EXCEPT ![t] = @ + 1]
    /\ UNCHANGED <<table, claimed, poisoned, release, calls, open, enters>>

\* SlotRelease::drop, among the destructors of the exiting thread.
TlsDrop(t) ==
    /\ phase[t] = "alive"
    /\ calls[t] = <<>>
    /\ phase' = [phase EXCEPT ![t] = "torn"]
    /\ release' = [release EXCEPT ![t] = None]
    /\ IF release[t] = None
       THEN UNCHANGED <<table, claimed>>
       ELSE /\ table' = [table EXCEPT ![release[t]] = Released(@)]
            /\ claimed' = claimed - 1
    /\ UNCHANGED <<poisoned, life, calls, open, enters>>

Exit(t) ==
    /\ phase[t] = "torn"
    /\ calls[t] = <<>>
    /\ phase' = [phase EXCEPT ![t] = "gone"]
    /\ open' = [open EXCEPT ![t] = FALSE]
    /\ UNCHANGED <<table, claimed, poisoned, life, release, calls, enters>>

-----------------------------------------------------------------------------
(* enter *)

InCall(t) == calls[t] # <<>>
Top(t) == calls[t][Len(calls[t])]
SetTop(t, call) == calls' = [calls EXCEPT ![t][Len(calls[t])] = call]
Return(t) == calls' = [calls EXCEPT ![t] = SubSeq(@, 1, Len(@) - 1)]
Continue(t, pc) == SetTop(t, [Top(t) EXCEPT !.pc = pc, !.tries = 0])
Doing(t, pc) == InCall(t) /\ Top(t).pc = pc

Windows == {t \in Threads : \E i \in 1..Len(calls[t]) : calls[t][i].use = "fork"}

\* The shim is called anywhere, under the guard too; a region is opened and a
\* fork begun by the program's own code, and two forks at once are excluded by
\* the documentation of fork.rs.
Enter(t) ==
    \E use \in {"shim", "region", "fork"} :
       /\ phase[t] # "gone"
       /\ enters < MaxEnters
       /\ Len(calls[t]) < MaxNesting
       /\ use # "shim" => ~InCall(t)
       /\ use = "region" => ~open[t]
       /\ use = "fork" => Windows = {}
       /\ calls' = [calls EXCEPT ![t] =
                       Append(@, [pc |-> "find", use |-> use, at |-> Home[t], tries |-> 0])]
       /\ enters' = enters + 1
       /\ UNCHANGED <<table, claimed, poisoned, phase, life, release, open>>

\* The call got no guard.  A fork goes on without one.
Denied(t) == IF Top(t).use = "fork" THEN Continue(t, "unguarded")
             ELSE Return(t)

\* One more slot to look at, or the table is full for this thread.
Onward(t) ==
    IF Top(t).tries + 1 < MAX_PROBE
    THEN SetTop(t, [Top(t) EXCEPT !.at = (@ + 1) % SLOTS, !.tries = @ + 1])
    ELSE Denied(t)

\* find_slot reads one owner.
Find(t) ==
    /\ Doing(t, "find")
    /\ LET owner == table[Top(t).at].owner
       IN  CASE owner = t    -> Continue(t, "check")
             [] owner = None -> Continue(t, "claim")
             [] OTHER        -> Onward(t)
    /\ UNCHANGED <<table, claimed, poisoned, phase, life, release, open, enters>>

\* claim_slot's exchange, and the clear that follows when it succeeds.
Claim(t) ==
    /\ Doing(t, "claim")
    /\ LET s == Top(t).at
           owner == table[s].owner
       IN  CASE owner = None ->
                  /\ table' = [table EXCEPT ![s] = [Cleared(@) EXCEPT !.owner = t]]
                  /\ claimed' = claimed + 1
                  /\ Continue(t, "register")
             [] owner = t -> Continue(t, "check") /\ UNCHANGED <<table, claimed>>
             [] OTHER -> Onward(t) /\ UNCHANGED <<table, claimed>>
    /\ UNCHANGED <<poisoned, phase, life, release, open, enters>>

\* register_release.  What the thread had registered before is dropped, which
\* releases that slot; after teardown there is nothing to register with.
Register(t) ==
    /\ Doing(t, "register")
    /\ Continue(t, "check")
    /\ IF phase[t] = "torn"
       THEN UNCHANGED <<table, claimed, release>>
       ELSE /\ release' = [release EXCEPT ![t] = Top(t).at]
            /\ IF release[t] = None
               THEN UNCHANGED <<table, claimed>>
               ELSE /\ table' = [table EXCEPT ![release[t]] = Released(@)]
                    /\ claimed' = claimed - 1
    /\ UNCHANGED <<poisoned, phase, life, open, enters>>

\* The thread is inside already, or is now.
Check(t) ==
    /\ Doing(t, "check")
    /\ IF table[Top(t).at].depth # 0
       THEN Denied(t) /\ UNCHANGED table
       ELSE /\ table' = [table EXCEPT ![Top(t).at].depth = 1]
            /\ Continue(t, "held")
    /\ UNCHANGED <<claimed, poisoned, phase, life, release, open, enters>>

-----------------------------------------------------------------------------
(* Under the guard *)

\* Engine::site claims a row of the thread table once, and caches it.
SetThread(t) ==
    /\ Doing(t, "held")
    /\ Top(t).use = "shim"
    /\ table[Top(t).at].thread = None
    /\ table' = [table EXCEPT ![Top(t).at].thread = <<t, life[t]>>]
    /\ UNCHANGED <<claimed, poisoned, phase, life, release, calls, open, enters>>

\* enter_region
EnterRegion(t) ==
    /\ Doing(t, "held")
    /\ Top(t).use = "region"
    /\ ~open[t]
    /\ table' = [table EXCEPT ![Top(t).at].region = t]
    /\ open' = [open EXCEPT ![t] = TRUE]
    /\ UNCHANGED <<claimed, poisoned, phase, life, release, calls, enters>>

\* Guard::drop
Drop(t) ==
    /\ Doing(t, "held")
    /\ Top(t).use # "fork"
    /\ Top(t).use = "region" => open[t]
    /\ IF table[Top(t).at].depth = 0
       THEN poisoned' = TRUE /\ UNCHANGED table
       ELSE /\ table' = [table EXCEPT ![Top(t).at].depth = @ - 1]
            /\ UNCHANGED poisoned
    /\ Return(t)
    /\ UNCHANGED <<claimed, phase, life, release, open, enters>>

\* leave_region, from Region::drop, which claims no slot.
LeaveRegion(t) ==
    /\ open[t]
    /\ ~InCall(t)
    /\ open' = [open EXCEPT ![t] = FALSE]
    /\ table' = [s \in Slots |-> IF Finds(t, s) THEN [table[s] EXCEPT !.region = None]
                                 ELSE table[s]]
    /\ UNCHANGED <<claimed, poisoned, phase, life, release, calls, enters>>

-----------------------------------------------------------------------------
(* fork *)

\* Mutant: the contents of dead threads' slots are left.
ForkChildKeepsContents(t) ==
    /\ InCall(t)
    /\ Top(t).use = "fork" /\ Top(t).pc \in {"held", "unguarded"}
    /\ phase' = [u \in Threads |-> IF u = t THEN phase[u] ELSE "gone"]
    /\ calls' = [u \in Threads |-> IF u = t THEN calls[u] ELSE <<>>]
    /\ release' = [u \in Threads |-> IF u = t THEN release[u] ELSE None]
    /\ open' = [u \in Threads |-> u = t /\ open[u]]
    /\ UNCHANGED <<table, claimed, poisoned, life, enters>>

\* The process is the child from here on: reinit_after_fork clears what the
\* threads that were not copied left in their slots, and keeps the slots.
ForkChild(t) ==
    /\ InCall(t)
    /\ Top(t).use = "fork" /\ Top(t).pc \in {"held", "unguarded"}
    /\ phase' = [u \in Threads |-> IF u = t THEN phase[u] ELSE "gone"]
    /\ calls' = [u \in Threads |-> IF u = t THEN calls[u] ELSE <<>>]
    /\ release' = [u \in Threads |-> IF u = t THEN release[u] ELSE None]
    /\ open' = [u \in Threads |-> u = t /\ open[u]]
    /\ table' = [s \in Slots |-> IF table[s].owner \in {None, t} THEN table[s]
                                 ELSE Cleared(table[s])]
    /\ UNCHANGED <<claimed, poisoned, life, enters>>

\* leave_guard, in the parent or in the child: leave_unbalanced looks the slot
\* up again.
LeaveUnbalanced(t) ==
    /\ Doing(t, "held")
    /\ Top(t).use = "fork"
    /\ IF \E s \in Slots : Finds(t, s) /\ table[s].depth # 0
       THEN /\ table' = [s \in Slots |-> IF Finds(t, s) THEN [table[s] EXCEPT !.depth = @ - 1]
                                         ELSE table[s]]
            /\ UNCHANGED poisoned
       ELSE poisoned' = TRUE /\ UNCHANGED table
    /\ Return(t)
    /\ UNCHANGED <<claimed, phase, life, release, open, enters>>

\* GUARD_ENTERED was not set.
LeaveUnguarded(t) ==
    /\ Doing(t, "unguarded")
    /\ Return(t)
    /\ UNCHANGED <<table, claimed, poisoned, phase, life, release, open, enters>>

-----------------------------------------------------------------------------
Step(t) == \/ Spawn(t) \/ TlsDrop(t) \/ Exit(t)
           \/ Enter(t) \/ Find(t) \/ Claim(t) \/ Register(t) \/ Check(t)
           \/ SetThread(t) \/ EnterRegion(t) \/ Drop(t) \/ LeaveRegion(t)
           \/ ForkChild(t) \/ LeaveUnbalanced(t) \/ LeaveUnguarded(t)

\* Some thread owns a slot that its probe does not find.
Stray == \E t \in Threads, s \in Slots : table[s].owner = t /\ ~Finds(t, s)

Next == (\E t \in Threads : Step(t)) /\ strayed' = (strayed \/ Stray')

Spec == Init /\ [][Next]_vars

-----------------------------------------------------------------------------
(* Properties *)

Calls == [pc : {"find", "claim", "register", "check", "held", "unguarded"},
          use : {"shim", "region", "fork"}, at : Slots, tries : 0..MAX_PROBE - 1]

TypeOK ==
    /\ table \in [Slots -> [owner : Threads \cup {None}, depth : Nat,
                            thread : Threads \X Nat \cup {None},
                            region : Threads \cup {None}]]
    /\ claimed \in Nat /\ enters \in Nat
    /\ poisoned \in BOOLEAN /\ strayed \in BOOLEAN
    /\ phase \in [Threads -> {"gone", "alive", "torn"}]
    /\ life \in [Threads -> Nat]
    /\ release \in [Threads -> Slots \cup {None}]
    /\ calls \in [Threads -> Seq(Calls)]
    /\ open \in [Threads -> BOOLEAN]

\* The calls of a thread that hold the guard.
Held(t) == {i \in DOMAIN calls[t] : calls[t][i].pc = "held"}

\* enter "returns None if this thread is already inside", whoever the nested
\* call comes from.
NestedRefused == \A t \in Threads : Cardinality(Held(t)) <= 1

\* As long as every slot has stayed where its owner's probe finds it, a nested
\* call is refused, and the guard is never released more often than it was taken.
Exclusive == ~strayed => NestedRefused /\ ~poisoned

\* A slot's depth is what its owner holds, no more: in no thread, one that
\* starts in a fork child with the handle of a thread that died inside the shim
\* included, is the guard refused for good.
DepthIsHeld ==
    ~strayed => \A s \in Slots :
       table[s].depth = IF table[s].owner = None THEN 0
                        ELSE Cardinality({i \in Held(table[s].owner) :
                                             calls[table[s].owner][i].at = s})

\* What is cached in a slot that will be released is its own thread's, not an
\* earlier owner's: the row is one this thread claimed, and outside a call the
\* region is the one it has open.
ContentsAreOwn ==
    ~strayed => \A t \in Threads : release[t] # None =>
       /\ table[release[t]].thread \in {None, <<t, life[t]>>}
       /\ ~InCall(t) => table[release[t]].region = IF open[t] THEN t ELSE None


\* A thread is inside at most once, and its slot says so, across exits and forks.
Reentrancy == TypeOK /\ Exclusive /\ DepthIsHeld
=============================================================================
