-------------------------- MODULE SlotTablesProofs --------------------------
(***************************************************************************)
(* The two tables of the program that are probed slot by slot.             *)
(*                                                                         *)
(* First what GuardTable.tla promises, proved for any threads, any table   *)
(* and any probes: while every slot is where its owner's probe finds it, a *)
(* thread is inside at most once, a slot's depth is what its owner holds,  *)
(* the guard is never released more often than it was taken, and what is   *)
(* cached in a slot is its owner's.  The count of claimed slots is exact   *)
(* whether a slot has strayed or not.                                      *)
(*                                                                         *)
(* One part of the inductive invariant always holds: a slot that a thread  *)
(* will release is its own, and so is one it is about to register, which   *)
(* it does not release meanwhile.  The other part holds until a slot       *)
(* strays: then a thread has one slot at most, each of its calls that got  *)
(* that far is at that slot, and an open region has a slot to be in.       *)
(*                                                                         *)
(* Then what RawMap.tla promises, for any keys and values, any hash and    *)
(* any ceiling.  The slots are a ring, on which the distance from a key's  *)
(* home to its slot says which slots its probes pass.  A table is in order *)
(* when each slot a key's probes pass holds a key that came before it: then *)
(* probes find every key, a new key finds its slot, and one order has one  *)
(* layout only.  A removal keeps the table in order but for its gap, which *)
(* the keys beyond the slot it has reached may have been probed past; each *)
(* step of it moves the gap on or what is after the gap back, and where    *)
(* the cluster ends nobody is left who was probed past the gap.            *)
(***************************************************************************)
EXTENDS GuardTable, RawMap, Sums, SequenceTheorems

Owned == {s \in Slots : table[s].owner # None}
CountIsExact == claimed = Cardinality(Owned)

Present ==
    \A t \in Threads :
       /\ phase[t] = "gone" => calls[t] = <<>>
       /\ release[t] # None => phase[t] = "alive" /\ table[release[t]].owner = t

\* What a call between claim_slot and register_release has claimed.
Registering ==
    \A t \in Threads : \A i \in DOMAIN calls[t] : calls[t][i].pc = "register" =>
       /\ table[calls[t][i].at].owner = t
       /\ calls[t][i].at # release[t]
       /\ \A j \in DOMAIN calls[t] :
             j # i /\ calls[t][j].pc = "register" => calls[t][j].at # calls[t][i].at

Working ==
    \A t \in Threads : \A i \in DOMAIN calls[t] :
       calls[t][i].pc \in {"check", "held"} => table[calls[t][i].at].owner = t

OneHeld == \A t \in Threads : \A i, j \in Held(t) : i = j

HeldAt(t, s) == \E i \in Held(t) : calls[t][i].at = s
DepthIsOne ==
    \A s \in Slots :
       /\ table[s].owner = None => table[s].depth = 0
       /\ \A t \in Threads : table[s].owner = t =>
             table[s].depth = IF HeldAt(t, s) THEN 1 ELSE 0

RegionHasSlot ==
    \A t \in Threads : phase[t] = "alive" /\ open[t] => \E s \in Slots : table[s].owner = t

Own(t, s) ==
    /\ table[s].thread \in {None, <<t, life[t]>>}
    /\ table[s].region = IF open[t] THEN t ELSE None

\* The words in a slot that is registered, or is about to be.
Contents ==
    \A t \in Threads : phase[t] = "alive" =>
       /\ release[t] # None => Own(t, release[t])
       /\ \A i \in DOMAIN calls[t] : calls[t][i].pc = "register" => Own(t, calls[t][i].at)

\* A thread that is gone has left its regions.
Closed == \A t \in Threads : phase[t] = "gone" => ~open[t]

InPlace ==
    /\ ~Stray /\ ~poisoned
    /\ Working /\ OneHeld /\ DepthIsOne
    /\ RegionHasSlot /\ Contents

IInv ==
    /\ TypeOK /\ CountIsExact /\ Present /\ Registering /\ Closed
    /\ ~strayed => InPlace

-----------------------------------------------------------------------------
(* The table. *)

LEMMA SlotFacts ==
    /\ IsFiniteSet(Slots)
    /\ \A x \in Nat : x % SLOTS \in Slots
    /\ None \notin Slots
  <1>1. IsFiniteSet(Slots)
    BY SlotsAssumption, FS_Interval DEF Slots
  <1>2. \A x \in Nat : x % SLOTS \in Slots
    BY SlotsAssumption DEF Slots
  <1>3. QED
    BY <1>1, <1>2, NoneAssumption DEF Slots

\* A probe ends at the first slot that is the thread's.
LEMMA FoundOnce ==
    ASSUME NEW t, NEW s, NEW r, Finds(t, s), Finds(t, r)
    PROVE  s = r
  <1>1. PICK i \in 0..MAX_PROBE - 1 :
          s = Probe(t, i) /\ table[s].owner = t
            /\ \A j \in 0..i - 1 : table[Probe(t, j)].owner \notin {t, None}
    BY DEF Finds
  <1>2. PICK k \in 0..MAX_PROBE - 1 :
          r = Probe(t, k) /\ table[r].owner = t
            /\ \A j \in 0..k - 1 : table[Probe(t, j)].owner \notin {t, None}
    BY DEF Finds
  <1>3. i \in Int /\ k \in Int /\ 0 <= i /\ 0 <= k
    BY SlotsAssumption
  <1>4. ~(i < k) /\ ~(k < i)
    BY <1>1, <1>2, <1>3
  <1>5. QED
    BY <1>1, <1>2, <1>3, <1>4

OneEach ==
    \A t \in Threads : \A s, r \in Slots :
       table[s].owner = t /\ table[r].owner = t => s = r /\ Finds(t, s)

LEMMA OneSlot == ~Stray => OneEach
  BY FoundOnce DEF Stray, OneEach

LEMMA OneSlotNext == ~Stray' => OneEach'
  BY OneSlot, PTL

-----------------------------------------------------------------------------
(* A thread's calls. *)

\* Nothing but the call n of t has changed: it is gone, or is at pc, and at s.
Only(t, n, pc, s) ==
    /\ calls' \in [Threads -> Seq(Calls)]
    /\ \A u \in Threads \ {t} : calls'[u] = calls[u]
    /\ \A i : i # n => /\ i \in DOMAIN calls'[t] <=> i \in DOMAIN calls[t]
                       /\ i \in DOMAIN calls[t] => calls'[t][i] = calls[t][i]
    /\ n \in DOMAIN calls'[t] => calls'[t][n].pc = pc /\ calls'[t][n].at = s

LEMMA InnermostCall ==
    ASSUME TypeOK, NEW t \in Threads, InCall(t)
    PROVE  /\ Len(calls[t]) \in Nat \ {0}
           /\ DOMAIN calls[t] = 1..Len(calls[t])
           /\ Len(calls[t]) \in DOMAIN calls[t]
           /\ Top(t) \in Calls
           /\ Top(t) = calls[t][Len(calls[t])]
           /\ Top(t).at \in Slots
  <1>1. calls[t] \in Seq(Calls) /\ calls[t] # <<>>
    BY DEF TypeOK, InCall
  <1>2. Len(calls[t]) \in Nat \ {0} /\ DOMAIN calls[t] = 1..Len(calls[t])
    BY <1>1
  <1>3. Len(calls[t]) \in 1..Len(calls[t])
    BY <1>2
  <1>4. calls[t][Len(calls[t])] \in Calls
    BY <1>1, <1>3
  <1>5. \A c \in Calls : c.at \in Slots
    BY DEF Calls
  <1>6. QED
    BY <1>2, <1>3, <1>4, <1>5 DEF Top

LEMMA SetTopOnly ==
    ASSUME TypeOK, NEW t \in Threads, InCall(t), NEW c \in Calls, SetTop(t, c)
    PROVE  Only(t, Len(calls[t]), c.pc, c.at)
  <1> DEFINE n == Len(calls[t])
  <1>1. calls[t] \in Seq(Calls) /\ calls \in [Threads -> Seq(Calls)]
    BY DEF TypeOK
  <1>2. n \in 1..Len(calls[t]) /\ DOMAIN calls[t] = 1..n
    BY InnermostCall
  <1>3. calls' = [calls EXCEPT ![t] = [calls[t] EXCEPT ![n] = c]]
    BY DEF SetTop
  <1>4. [calls[t] EXCEPT ![n] = c] \in Seq(Calls)
    BY <1>1, <1>2
  <1>5. DOMAIN [calls[t] EXCEPT ![n] = c] = 1..n
    BY <1>1, <1>2
  <1>6. QED
    BY <1>1, <1>2, <1>3, <1>4, <1>5 DEF Only

LEMMA ReturnOnly ==
    ASSUME TypeOK, NEW t \in Threads, InCall(t), Return(t), NEW pc, NEW s
    PROVE  Only(t, Len(calls[t]), pc, s)
  <1> DEFINE n == Len(calls[t])
             rest == SubSeq(calls[t], 1, n - 1)
  <1>1. calls[t] \in Seq(Calls) /\ calls \in [Threads -> Seq(Calls)]
    BY DEF TypeOK
  <1>2. n \in Nat \ {0} /\ DOMAIN calls[t] = 1..n
    BY InnermostCall
  <1>3. calls' = [calls EXCEPT ![t] = rest]
    BY DEF Return
  <1>4. rest \in Seq(Calls) /\ Len(rest) = n - 1 /\ DOMAIN rest = 1..n - 1
    BY <1>1, <1>2
  <1>5. \A i \in 1..n - 1 : rest[i] = calls[t][i]
    BY <1>1, <1>2
  <1>6. QED
    BY <1>1, <1>2, <1>3, <1>4, <1>5 DEF Only

LEMMA ContinueOnly ==
    ASSUME TypeOK, NEW t \in Threads, InCall(t),
           NEW pc \in {"find", "claim", "register", "check", "held", "unguarded"},
           Continue(t, pc)
    PROVE  Only(t, Len(calls[t]), pc, Top(t).at)
  <1>1. Top(t) \in Calls
    BY InnermostCall
  <1>2. 0 \in 0..MAX_PROBE - 1
    BY SlotsAssumption
  <1>3. [Top(t) EXCEPT !.pc = pc, !.tries = 0] \in Calls
    BY <1>1, <1>2 DEF Calls
  <1>4. QED
    BY <1>1, <1>3, SetTopOnly DEF Continue, Calls

LEMMA DeniedOnly ==
    ASSUME TypeOK, NEW t \in Threads, InCall(t), Denied(t)
    PROVE  Only(t, Len(calls[t]), "unguarded", Top(t).at)
  BY ContinueOnly, ReturnOnly DEF Denied

LEMMA OnwardOnly ==
    ASSUME TypeOK, NEW t \in Threads, InCall(t), Onward(t),
           Top(t).pc \in {"find", "claim"}
    PROVE  \E pc \in {"find", "claim", "unguarded"}, s \in Slots :
              Only(t, Len(calls[t]), pc, s)
  <1>1. Top(t) \in Calls /\ Top(t).at \in Slots
    BY InnermostCall
  <1>2. CASE Top(t).tries + 1 < MAX_PROBE
    <2> DEFINE c == [Top(t) EXCEPT !.at = (@ + 1) % SLOTS, !.tries = @ + 1]
    <2>0. Top(t).at + 1 \in Nat /\ Top(t).tries + 1 \in 0..MAX_PROBE - 1
      <3>1. \A s \in Slots : s + 1 \in Nat
        BY SlotsAssumption DEF Slots
      <3>2. Top(t).tries \in 0..MAX_PROBE - 1
        BY <1>1 DEF Calls
      <3>3. QED
        BY <1>1, <1>2, <3>1, <3>2, SlotsAssumption
    <2>1. (Top(t).at + 1) % SLOTS \in Slots
      BY <2>0, SlotFacts
    <2>2. c \in Calls
      BY <1>1, <2>0, <2>1 DEF Calls
    <2>3. c.pc = Top(t).pc /\ c.at \in Slots
      BY <1>1, <2>1 DEF Calls
    <2>4. SetTop(t, c)
      BY <1>2 DEF Onward
    <2>5. QED
      BY <2>2, <2>3, <2>4, SetTopOnly
  <1>3. CASE ~(Top(t).tries + 1 < MAX_PROBE)
    BY <1>1, <1>3, DeniedOnly DEF Onward
  <1>4. QED
    BY <1>2, <1>3

-----------------------------------------------------------------------------
(* The steps. *)

Counts == strayed' = (strayed \/ Stray')
Rest == <<table, claimed, poisoned, phase, life, release, open>>

LEMMA CallType ==
    ASSUME TypeOK, NEW t \in Threads, NEW i \in DOMAIN calls[t]
    PROVE  calls[t][i] \in Calls /\ calls[t][i].at \in Slots
  <1>1. calls[t] \in Seq(Calls)
    BY DEF TypeOK
  <1>2. calls[t][i] \in Calls
    BY <1>1
  <1>3. QED
    BY <1>2 DEF Calls

\* A step that only moves a call to where it neither has claimed nor is inside.
LEMMA Aside ==
    ASSUME IInv, Counts, UNCHANGED Rest, enters' \in Nat,
           NEW t \in Threads, phase[t] # "gone", NEW n, NEW pc, NEW s, Only(t, n, pc, s),
           pc \notin {"register", "held"},
           pc = "check" => table[s].owner = t,
           n \in DOMAIN calls[t] => calls[t][n].pc # "held"
    PROVE  IInv'
  <1> USE DEF Only
  <1>1. TypeOK'
    <2>1. strayed' \in BOOLEAN
      BY DEF Counts, IInv, TypeOK
    <2>2. QED
      BY <2>1 DEF IInv, TypeOK, Rest
  <1>2. CountIsExact'
    BY DEF IInv, CountIsExact, Owned, Rest, Slots
  <1>3. Present'
    BY DEF IInv, Present, Rest
  <1>4. ASSUME NEW u \in Threads, NEW i \in DOMAIN calls'[u], calls'[u][i].pc \in {"register", "held"}
        PROVE  i \in DOMAIN calls[u] /\ calls'[u][i] = calls[u][i]
    BY <1>4
  <1>5. Registering'
    BY <1>4 DEF IInv, Registering, Rest
  <1>6. ASSUME ~strayed'
        PROVE  InPlace'
    <2>1. InPlace /\ ~Stray'
      BY <1>6 DEF Counts, IInv
    <2>2. ~poisoned'
      BY <2>1 DEF InPlace, Rest
    <2>3. Working'
      <3> SUFFICES ASSUME NEW u \in Threads, NEW i \in DOMAIN calls'[u],
                          calls'[u][i].pc \in {"check", "held"}
                   PROVE  table[calls'[u][i].at].owner = u
        BY DEF Working, Rest
      <3>1. CASE u = t /\ i = n
        BY <3>1
      <3>2. CASE ~(u = t /\ i = n)
        BY <2>1, <3>2 DEF InPlace, Working
      <3>3. QED
        BY <3>1, <3>2
    <2>4. \A u \in Threads : Held(u)' = Held(u)
      <3> TAKE u \in Threads
      <3>1. \A i \in Held(u) : i \in DOMAIN calls'[u] /\ calls'[u][i] = calls[u][i]
        BY DEF Held
      <3>2. QED
        BY <1>4, <3>1 DEF Held
    <2>5. OneHeld'
      BY <2>1, <2>4 DEF InPlace, OneHeld
    <2>6. \A u \in Threads : \A r : HeldAt(u, r)' <=> HeldAt(u, r)
      BY <1>4, <2>4 DEF HeldAt, Held
    <2>7. DepthIsOne'
      BY <2>1, <2>6 DEF InPlace, DepthIsOne, Rest, Slots
    <2>8. RegionHasSlot'
      BY <2>1 DEF InPlace, RegionHasSlot, Rest, Slots
    <2>9. Contents'
      BY <1>4, <2>1 DEF InPlace, Contents, Own, Rest
    <2>10. QED
      BY <2>1, <2>2, <2>3, <2>5, <2>7, <2>8, <2>9 DEF InPlace
  <1>7. Closed'
    BY DEF IInv, Closed, Rest
  <1>8. QED
    BY <1>1, <1>2, <1>3, <1>5, <1>6, <1>7 DEF IInv

LEMMA InCallRuns ==
    ASSUME IInv, NEW t \in Threads, InCall(t)
    PROVE  phase[t] # "gone"
  BY DEF IInv, Present, InCall

LEMMA EnterInv ==
    ASSUME IInv, Counts, NEW t \in Threads, Enter(t)
    PROVE  IInv'
  <1>1. PICK use \in {"shim", "region", "fork"} :
          calls' = [calls EXCEPT ![t] =
              Append(@, [pc |-> "find", use |-> use, at |-> Home[t], tries |-> 0])]
    BY DEF Enter
  <1> DEFINE c == [pc |-> "find", use |-> use, at |-> Home[t], tries |-> 0]
             n == Len(calls[t]) + 1
  <1>2. c \in Calls
    BY HomeAssumption, SlotsAssumption DEF Calls, Slots
  <1>3. calls[t] \in Seq(Calls) /\ calls \in [Threads -> Seq(Calls)]
    BY DEF IInv, TypeOK
  <1>4. /\ Append(calls[t], c) \in Seq(Calls)
        /\ DOMAIN calls[t] = 1..n - 1
        /\ DOMAIN Append(calls[t], c) = 1..n
        /\ n \in Nat \ {0}
        /\ Append(calls[t], c)[n] = c
        /\ \A i \in 1..n - 1 : Append(calls[t], c)[i] = calls[t][i]
    BY <1>2, <1>3
  <1>5. calls' = [calls EXCEPT ![t] = Append(calls[t], c)]
    BY <1>1
  <1> HIDE DEF n
  <1>6. Only(t, n, "find", Home[t])
    BY <1>3, <1>4, <1>5 DEF Only
  <1>7. phase[t] # "gone" /\ enters' \in Nat /\ UNCHANGED Rest
    BY DEF Enter, Rest, IInv, TypeOK
  <1>8. n \notin DOMAIN calls[t]
    BY <1>4
  <1>9. QED
    BY <1>6, <1>7, <1>8, Aside

\* The call of t that runs.
Inner(t) == Len(calls[t])

LEMMA InnerIs ==
    ASSUME IInv, NEW t \in Threads, NEW pc, Doing(t, pc)
    PROVE  /\ InCall(t) /\ Inner(t) \in DOMAIN calls[t]
           /\ calls[t][Inner(t)].pc = pc
           /\ calls[t][Inner(t)] = Top(t) /\ Top(t).at \in Slots
           /\ phase[t] # "gone"
  BY InnermostCall, InCallRuns DEF Doing, Inner, IInv

LEMMA FindInv ==
    ASSUME IInv, Counts, NEW t \in Threads, Find(t)
    PROVE  IInv'
  <1>1. /\ InCall(t) /\ Inner(t) \in DOMAIN calls[t]
        /\ calls[t][Inner(t)].pc = "find" /\ Top(t).pc = "find"
        /\ phase[t] # "gone"
    BY InnerIs DEF Find
  <1>2. TypeOK /\ UNCHANGED Rest /\ enters' \in Nat
    BY DEF Find, Rest, IInv, TypeOK
  <1>3. \E pc \in {"find", "claim", "unguarded", "check"} : \E s :
          Only(t, Inner(t), pc, s) /\ (pc = "check" => table[s].owner = t)
    <2>1. CASE table[Top(t).at].owner = t
      BY <1>1, <1>2, <2>1, ContinueOnly DEF Find, Inner
    <2>2. CASE table[Top(t).at].owner = None
      <3>1. t # None
        BY NoneAssumption
      <3>2. QED
        BY <1>1, <1>2, <2>2, <3>1, ContinueOnly DEF Find, Inner
    <2>3. CASE table[Top(t).at].owner \notin {t, None}
      BY <1>1, <1>2, <2>3, OnwardOnly DEF Find, Inner
    <2>4. QED
      BY <2>1, <2>2, <2>3
  <1>4. QED
    BY <1>1, <1>2, <1>3, Aside

LEMMA LeaveUnguardedInv ==
    ASSUME IInv, Counts, NEW t \in Threads, LeaveUnguarded(t)
    PROVE  IInv'
  <1>1. /\ InCall(t) /\ Inner(t) \in DOMAIN calls[t]
        /\ calls[t][Inner(t)].pc = "unguarded"
        /\ phase[t] # "gone"
    BY InnerIs DEF LeaveUnguarded
  <1>2. TypeOK /\ UNCHANGED Rest /\ enters' \in Nat
    BY DEF LeaveUnguarded, Rest, IInv, TypeOK
  <1>3. Only(t, Inner(t), "find", 0)
    BY <1>1, <1>2, ReturnOnly DEF LeaveUnguarded, Inner
  <1>4. QED
    BY <1>1, <1>2, <1>3, Aside

\* What the calls say of the table changes only with the table.
LEMMA HeldStays ==
    ASSUME UNCHANGED calls
    PROVE  \A u : Held(u)' = Held(u) /\ \A s : HeldAt(u, s)' <=> HeldAt(u, s)
  BY DEF Held, HeldAt

LEMMA SpawnInv ==
    ASSUME IInv, Counts, NEW t \in Threads, Spawn(t)
    PROVE  IInv'
  <1> USE DEF Spawn
  <1>1. TypeOK'
    <2>1. strayed' \in BOOLEAN
      BY DEF Counts, IInv, TypeOK
    <2>2. QED
      BY <2>1 DEF IInv, TypeOK
  <1>2. CountIsExact'
    BY DEF IInv, CountIsExact, Owned, Slots
  <1>3. Present' /\ release[t] = None /\ calls[t] = <<>>
    BY DEF IInv, Present, TypeOK
  <1>4. Registering'
    BY DEF IInv, Registering
  <1>5. ASSUME ~strayed'
        PROVE  InPlace'
    <2>1. InPlace /\ ~Stray'
      BY <1>5 DEF Counts, IInv
    <2>2. Working' /\ OneHeld' /\ DepthIsOne'
      BY <2>1, HeldStays DEF InPlace, Working, OneHeld, DepthIsOne, Slots
    <2>3. ~open[t]
      BY DEF IInv, Closed
    <2>4. RegionHasSlot'
      BY <2>1, <2>3 DEF InPlace, RegionHasSlot, Slots, IInv, TypeOK
    <2>5. Contents'
      <3> SUFFICES ASSUME NEW u \in Threads, phase'[u] = "alive"
                   PROVE  /\ release'[u] # None => Own(u, release[u])'
                          /\ \A i \in DOMAIN calls'[u] :
                                calls'[u][i].pc = "register" => Own(u, calls[u][i].at)'
        BY DEF Contents
      <3>1. CASE u = t
        BY <1>3, <3>1
      <3>2. CASE u # t
        BY <2>1, <3>2 DEF InPlace, Contents, Own, IInv, TypeOK
      <3>3. QED
        BY <3>1, <3>2
    <2>6. QED
      BY <2>1, <2>2, <2>4, <2>5 DEF InPlace
  <1>6. Closed'
    BY DEF IInv, Closed, TypeOK
  <1>7. QED
    BY <1>1, <1>2, <1>3, <1>4, <1>5, <1>6 DEF IInv

LEMMA ExitInv ==
    ASSUME IInv, Counts, NEW t \in Threads, Exit(t)
    PROVE  IInv'
  <1> USE DEF Exit
  <1>1. TypeOK'
    <2>1. strayed' \in BOOLEAN
      BY DEF Counts, IInv, TypeOK
    <2>2. QED
      BY <2>1 DEF IInv, TypeOK
  <1>2. CountIsExact'
    BY DEF IInv, CountIsExact, Owned, Slots
  <1>3. Present'
    BY DEF IInv, Present, TypeOK
  <1>4. Registering'
    BY DEF IInv, Registering
  <1>5. Closed'
    BY DEF IInv, Closed, TypeOK
  <1>6. ASSUME ~strayed'
        PROVE  InPlace'
    <2>1. InPlace /\ ~Stray'
      BY <1>6 DEF Counts, IInv
    <2>2. Working' /\ OneHeld' /\ DepthIsOne'
      BY <2>1, HeldStays DEF InPlace, Working, OneHeld, DepthIsOne, Slots
    <2>3. RegionHasSlot'
      BY <2>1 DEF InPlace, RegionHasSlot, Slots, IInv, TypeOK
    <2>4. Contents'
      BY <2>1 DEF InPlace, Contents, Own, IInv, TypeOK
    <2>5. QED
      BY <2>1, <2>2, <2>3, <2>4 DEF InPlace
  <1>7. QED
    BY <1>1, <1>2, <1>3, <1>4, <1>5, <1>6 DEF IInv

\* A released slot: no longer counted, and nobody's.
LEMMA OneOwnedLess ==
    ASSUME IInv, NEW s \in Slots, table[s].owner # None,
           table' = [table EXCEPT ![s] = Released(@)]
    PROVE  /\ claimed - 1 \in Nat
           /\ claimed - 1 = Cardinality(Owned')
           /\ table'[s].owner = None /\ table'[s].depth = 0
           /\ \A r \in Slots \ {s} : table'[r] = table[r]
           /\ table' \in [Slots -> [owner : Threads \cup {None}, depth : Nat,
                                    thread : Threads \X Nat \cup {None},
                                    region : Threads \cup {None}]]
  <1>1. /\ table \in [Slots -> [owner : Threads \cup {None}, depth : Nat,
                                thread : Threads \X Nat \cup {None},
                                region : Threads \cup {None}]]
        /\ claimed = Cardinality(Owned)
    BY DEF IInv, TypeOK, CountIsExact
  <1>2. Released(table[s]) \in [owner : {None}, depth : {0}, thread : {None}, region : {None}]
    BY <1>1 DEF Released, Cleared
  <1>3. Owned' = Owned \ {s} /\ s \in Owned
    BY <1>1, <1>2 DEF Owned, Slots
  <1>4. IsFiniteSet(Owned) /\ IsFiniteSet(Owned')
    BY <1>3, SlotFacts, FS_Subset DEF Owned
  <1>5. Cardinality(Owned') = Cardinality(Owned) - 1
    BY <1>3, <1>4, FS_RemoveElement
  <1>6. Cardinality(Owned') \in Nat /\ Cardinality(Owned) \in Nat
    BY <1>4, FS_CardinalityType
  <1>7. QED
    BY <1>1, <1>2, <1>5, <1>6

LEMMA TlsDropInv ==
    ASSUME IInv, Counts, NEW t \in Threads, TlsDrop(t)
    PROVE  IInv'
  <1> USE DEF TlsDrop
  <1> DEFINE s == release[t]
  <1>1. s = None \/ (s \in Slots /\ table[s].owner = t /\ s # None)
    BY DEF IInv, TypeOK, Present
  <1>2. t # None
    BY NoneAssumption
  <1>3. /\ s # None => /\ table'[s].owner = None /\ table'[s].depth = 0
                       /\ \A r \in Slots \ {s} : table'[r] = table[r]
        /\ s = None => table' = table
        /\ claimed' \in Nat /\ claimed' = Cardinality(Owned')
        /\ table' \in [Slots -> [owner : Threads \cup {None}, depth : Nat,
                                 thread : Threads \X Nat \cup {None},
                                 region : Threads \cup {None}]]
    <2>1. CASE s = None
      <3>1. table' = table /\ claimed' = claimed
        BY <2>1
      <3>2. Owned' = Owned
        BY <3>1 DEF Owned, Slots
      <3>3. QED
        BY <2>1, <3>1, <3>2 DEF IInv, TypeOK, CountIsExact
    <2>2. CASE s # None
      <3>1. table' = [table EXCEPT ![s] = Released(@)] /\ claimed' = claimed - 1
        BY <2>2
      <3> HIDE DEF s
      <3>2. QED
        BY <1>1, <1>2, <2>2, <3>1, OneOwnedLess
    <2>3. QED
      BY <2>1, <2>2
  <1>4. TypeOK'
    <2>1. strayed' \in BOOLEAN
      BY DEF Counts, IInv, TypeOK
    <2>2. QED
      BY <1>3, <2>1 DEF IInv, TypeOK
  <1>5. CountIsExact'
    BY <1>3 DEF CountIsExact
  <1>6. ASSUME NEW u \in Threads \ {t}, NEW r \in Slots, table[r].owner = u
        PROVE  table'[r] = table[r]
    BY <1>1, <1>3, <1>6
  <1>7. Present'
    <2> SUFFICES ASSUME NEW u \in Threads
                 PROVE  /\ phase'[u] = "gone" => calls'[u] = <<>>
                        /\ release'[u] # None =>
                              phase'[u] = "alive" /\ table'[release'[u]].owner = u
      BY DEF Present
    <2>1. CASE u = t
      BY <2>1 DEF IInv, TypeOK
    <2>2. CASE u # t
      <3>1. release'[u] = release[u] /\ phase'[u] = phase[u]
        BY <2>2 DEF IInv, TypeOK
      <3>2. release[u] # None => release[u] \in Slots /\ table[release[u]].owner = u
        BY DEF IInv, TypeOK, Present
      <3>3. QED
        BY <1>6, <2>2, <3>1, <3>2 DEF IInv, Present
    <2>3. QED
      BY <2>1, <2>2
  <1>8. ASSUME NEW u \in Threads, NEW i \in DOMAIN calls[u], table[calls[u][i].at].owner = u
        PROVE  u # t /\ table'[calls[u][i].at] = table[calls[u][i].at]
    <2>1. u # t
      OBVIOUS
    <2>2. calls[u][i].at \in Slots
      BY CallType DEF IInv
    <2>3. QED
      BY <1>6, <1>8, <2>1, <2>2
  <1>9. Registering'
    <2> SUFFICES ASSUME NEW u \in Threads, NEW i \in DOMAIN calls[u],
                        calls[u][i].pc = "register"
                 PROVE  /\ table'[calls[u][i].at].owner = u
                        /\ calls[u][i].at # release'[u]
                        /\ \A j \in DOMAIN calls[u] :
                              j # i /\ calls[u][j].pc = "register" =>
                                 calls[u][j].at # calls[u][i].at
      BY DEF Registering
    <2>1. table[calls[u][i].at].owner = u /\ calls[u][i].at # release[u]
      BY DEF IInv, Registering
    <2>2. u # t /\ table'[calls[u][i].at] = table[calls[u][i].at]
      BY <1>8, <2>1
    <2>3. QED
      BY <2>1, <2>2 DEF IInv, Registering, TypeOK
  <1>10. Closed'
    BY DEF IInv, Closed, TypeOK
  <1>11. ASSUME ~strayed'
         PROVE  InPlace'
    <2>1. InPlace /\ ~Stray'
      BY <1>11 DEF Counts, IInv
    <2>2. Working'
      BY <1>8, <2>1 DEF InPlace, Working
    <2>3. OneHeld'
      BY <2>1, HeldStays DEF InPlace, OneHeld
    <2>4. DepthIsOne'
      <3> SUFFICES ASSUME NEW r \in Slots
                   PROVE  /\ table'[r].owner = None => table'[r].depth = 0
                          /\ \A u \in Threads : table'[r].owner = u =>
                                table'[r].depth = IF HeldAt(u, r) THEN 1 ELSE 0
        BY HeldStays DEF DepthIsOne, Slots
      <3>1. CASE s # None /\ r = s
        BY <1>3, <3>1, NoneAssumption
      <3>2. CASE ~(s # None /\ r = s)
        <4>1. table'[r] = table[r]
          BY <1>3, <3>2
        <4>2. QED
          BY <2>1, <4>1 DEF InPlace, DepthIsOne
      <3>3. QED
        BY <3>1, <3>2
    <2>5. RegionHasSlot'
      <3> SUFFICES ASSUME NEW u \in Threads, phase'[u] = "alive", open[u]
                   PROVE  \E r \in Slots : table'[r].owner = u
        BY DEF RegionHasSlot, Slots
      <3>1. u # t /\ phase[u] = "alive"
        BY DEF IInv, TypeOK
      <3>2. PICK r \in Slots : table[r].owner = u
        BY <2>1, <3>1 DEF InPlace, RegionHasSlot
      <3>3. QED
        BY <1>6, <3>1, <3>2
    <2>6. Contents'
      <3> SUFFICES ASSUME NEW u \in Threads, phase'[u] = "alive"
                   PROVE  /\ release'[u] # None => Own(u, release[u])'
                          /\ \A i \in DOMAIN calls[u] :
                                calls[u][i].pc = "register" => Own(u, calls[u][i].at)'
        BY DEF Contents
      <3>1. u # t /\ phase[u] = "alive" /\ release'[u] = release[u]
        BY DEF IInv, TypeOK
      <3>2. release[u] # None => release[u] \in Slots /\ table[release[u]].owner = u
        BY DEF IInv, TypeOK, Present
      <3>3. release'[u] # None => Own(u, release[u])'
        BY <1>6, <2>1, <3>1, <3>2 DEF InPlace, Contents, Own
      <3>4. ASSUME NEW i \in DOMAIN calls[u], calls[u][i].pc = "register"
            PROVE  Own(u, calls[u][i].at)'
        <4>1. table[calls[u][i].at].owner = u
          BY <3>4 DEF IInv, Registering
        <4>2. QED
          BY <1>8, <2>1, <3>1, <3>4, <4>1 DEF InPlace, Contents, Own
      <3>5. QED
        BY <3>3, <3>4
    <2>7. ~poisoned'
      BY <2>1 DEF InPlace
    <2>8. QED
      BY <2>1, <2>2, <2>3, <2>4, <2>5, <2>6, <2>7 DEF InPlace
  <1>12. QED
    BY <1>4, <1>5, <1>7, <1>9, <1>10, <1>11 DEF IInv

Tables == [Slots -> [owner : Threads \cup {None}, depth : Nat,
                     thread : Threads \X Nat \cup {None},
                     region : Threads \cup {None}]]

\* A step of a thread that is not gone, which only writes the words of slots.
LEMMA WordsOnly ==
    ASSUME IInv, Counts, UNCHANGED <<claimed, poisoned, phase, life, release, calls, enters>>,
           NEW t \in Threads, phase[t] # "gone",
           table' \in Tables, open' \in [Threads -> BOOLEAN],
           \A s \in Slots : table'[s].owner = table[s].owner /\ table'[s].depth = table[s].depth,
           \A u \in Threads \ {t} : open'[u] = open[u],
           ~strayed' => RegionHasSlot' /\ Contents'
    PROVE  IInv'
  <1>1. TypeOK'
    <2>1. strayed' \in BOOLEAN
      BY DEF Counts, IInv, TypeOK
    <2>2. QED
      BY <2>1 DEF IInv, TypeOK, Tables
  <1>2. CountIsExact'
    <2>1. Owned' = Owned
      BY DEF Owned, Slots
    <2>2. QED
      BY <2>1 DEF IInv, CountIsExact
  <1>3. Present'
    BY DEF IInv, Present, TypeOK
  <1>4. Registering'
    BY CallType DEF IInv, Registering
  <1>5. Closed'
    BY DEF IInv, Closed
  <1>6. ASSUME ~strayed'
        PROVE  InPlace'
    <2>1. InPlace /\ ~Stray'
      BY <1>6 DEF Counts, IInv
    <2>2. Working'
      BY <2>1, CallType DEF IInv, InPlace, Working
    <2>3. OneHeld' /\ DepthIsOne'
      BY <2>1, HeldStays DEF InPlace, OneHeld, DepthIsOne, Slots
    <2>4. QED
      BY <1>6, <2>1, <2>2, <2>3 DEF InPlace
  <1>7. QED
    BY <1>1, <1>2, <1>3, <1>4, <1>5, <1>6 DEF IInv

LEMMA SetThreadInv ==
    ASSUME IInv, Counts, NEW t \in Threads, SetThread(t)
    PROVE  IInv'
  <1> DEFINE s == Top(t).at
  <1>1. /\ Inner(t) \in DOMAIN calls[t]
        /\ calls[t][Inner(t)].pc = "held" /\ calls[t][Inner(t)] = Top(t)
        /\ s \in Slots /\ phase[t] # "gone"
    BY InnerIs DEF SetThread
  <1>2. table \in Tables /\ life \in [Threads -> Nat] /\ open \in [Threads -> BOOLEAN]
    BY DEF IInv, TypeOK, Tables
  <1>3. table' = [table EXCEPT ![s] = [@ EXCEPT !.thread = <<t, life[t]>>]]
    BY DEF SetThread
  <1> HIDE DEF s
  <1>4. [table[s] EXCEPT !.thread = <<t, life[t]>>] \in
            [owner : Threads \cup {None}, depth : Nat, thread : Threads \X Nat \cup {None},
             region : Threads \cup {None}]
    BY <1>1, <1>2 DEF Tables
  <1>5. table' \in Tables
    BY <1>1, <1>2, <1>3, <1>4 DEF Tables
  <1>6. \A r \in Slots : /\ table'[r].owner = table[r].owner /\ table'[r].depth = table[r].depth
                         /\ table'[r].region = table[r].region
                         /\ table'[r].thread = IF r = s THEN <<t, life[t]>> ELSE table[r].thread
    BY <1>1, <1>2, <1>3 DEF Tables
  <1>7. ASSUME ~strayed'
        PROVE  RegionHasSlot' /\ Contents'
    <2>1. InPlace
      BY <1>7 DEF Counts, IInv
    <2>2. RegionHasSlot'
      BY <1>6, <2>1 DEF InPlace, RegionHasSlot, SetThread, Slots
    <2>3. table[s].owner = t
      BY <1>1, <2>1 DEF InPlace, Working, s
    <2>4. ASSUME NEW u \in Threads, NEW r \in Slots, table[r].owner = u, Own(u, r)
          PROVE  Own(u, r)'
      BY <1>6, <2>3, <2>4 DEF Own, SetThread
    <2>5. ASSUME NEW u \in Threads, phase[u] = "alive"
          PROVE  /\ release[u] # None => Own(u, release[u])'
                 /\ \A i \in DOMAIN calls[u] :
                       calls[u][i].pc = "register" => Own(u, calls[u][i].at)'
      <3>1. release[u] # None => Own(u, release[u])'
        <4>1. release[u] # None => release[u] \in Slots /\ table[release[u]].owner = u
          BY DEF IInv, TypeOK, Present
        <4>2. release[u] # None => Own(u, release[u])
          BY <2>1, <2>5 DEF InPlace, Contents
        <4>3. UNCHANGED release
          BY DEF SetThread
        <4>4. QED
          BY <2>4, <4>1, <4>2, <4>3
      <3>2. ASSUME NEW i \in DOMAIN calls[u], calls[u][i].pc = "register"
            PROVE  Own(u, calls[u][i].at)'
        <4>1. calls[u][i].at \in Slots /\ table[calls[u][i].at].owner = u
          BY <3>2, CallType DEF IInv, Registering
        <4>2. Own(u, calls[u][i].at)
          BY <2>1, <2>5, <3>2 DEF InPlace, Contents
        <4>3. UNCHANGED calls
          BY DEF SetThread
        <4>4. QED
          BY <2>4, <4>1, <4>2, <4>3
      <3>3. QED
        BY <3>1, <3>2
    <2>6. Contents'
      BY <2>5 DEF Contents, SetThread
    <2>7. QED
      BY <2>2, <2>6
  <1>8. QED
    BY <1>1, <1>2, <1>5, <1>6, <1>7, WordsOnly DEF SetThread

LEMMA EnterRegionInv ==
    ASSUME IInv, Counts, NEW t \in Threads, EnterRegion(t)
    PROVE  IInv'
  <1> DEFINE s == Top(t).at
  <1>1. /\ Inner(t) \in DOMAIN calls[t]
        /\ calls[t][Inner(t)].pc = "held" /\ calls[t][Inner(t)] = Top(t)
        /\ s \in Slots /\ phase[t] # "gone"
    BY InnerIs DEF EnterRegion
  <1>2. table \in Tables /\ open \in [Threads -> BOOLEAN]
    BY DEF IInv, TypeOK, Tables
  <1>3. table' = [table EXCEPT ![s] = [@ EXCEPT !.region = t]] /\ open' = [open EXCEPT ![t] = TRUE]
    BY DEF EnterRegion
  <1> HIDE DEF s
  <1>4. [table[s] EXCEPT !.region = t] \in
            [owner : Threads \cup {None}, depth : Nat, thread : Threads \X Nat \cup {None},
             region : Threads \cup {None}]
    BY <1>1, <1>2 DEF Tables
  <1>5. table' \in Tables
    BY <1>1, <1>2, <1>3, <1>4 DEF Tables
  <1>6. \A r \in Slots : /\ table'[r].owner = table[r].owner /\ table'[r].depth = table[r].depth
                         /\ table'[r].thread = table[r].thread
                         /\ table'[r].region = IF r = s THEN t ELSE table[r].region
    BY <1>1, <1>2, <1>3 DEF Tables
  <1>7. open' \in [Threads -> BOOLEAN] /\ open'[t] /\ \A u \in Threads \ {t} : open'[u] = open[u]
    BY <1>2, <1>3
  <1>8. ASSUME ~strayed'
        PROVE  RegionHasSlot' /\ Contents'
    <2>1. InPlace /\ OneEach
      BY <1>8, OneSlot DEF Counts, IInv, InPlace
    <2>2. table[s].owner = t
      BY <1>1, <2>1 DEF InPlace, Working, s
    <2>3. RegionHasSlot'
      BY <1>1, <1>6, <1>7, <2>1, <2>2 DEF InPlace, RegionHasSlot, EnterRegion, Slots
    <2>4. ASSUME NEW u \in Threads, NEW r \in Slots, table[r].owner = u, Own(u, r)
          PROVE  Own(u, r)'
      <3>1. r = s <=> u = t
        BY <1>1, <2>1, <2>2, <2>4 DEF OneEach
      <3>2. QED
        BY <1>6, <1>7, <2>4, <3>1 DEF Own, EnterRegion
    <2>5. Contents'
      BY <2>1, <2>4, CallType
         DEF IInv, InPlace, Contents, EnterRegion, Present, Registering, TypeOK
    <2>6. QED
      BY <2>3, <2>5
  <1>9. QED
    BY <1>1, <1>5, <1>6, <1>7, <1>8, WordsOnly DEF EnterRegion

LEMMA LeaveRegionInv ==
    ASSUME IInv, Counts, NEW t \in Threads, LeaveRegion(t)
    PROVE  IInv'
  <1>1. table \in Tables /\ open \in [Threads -> BOOLEAN]
    BY DEF IInv, TypeOK, Tables
  <1>2. /\ table' = [s \in Slots |-> IF Finds(t, s) THEN [table[s] EXCEPT !.region = None]
                                     ELSE table[s]]
        /\ open' = [open EXCEPT ![t] = FALSE]
        /\ phase[t] # "gone"
    BY DEF LeaveRegion, IInv, Closed
  <1>3. \A s \in Slots : [table[s] EXCEPT !.region = None] \in
            [owner : Threads \cup {None}, depth : Nat, thread : Threads \X Nat \cup {None},
             region : Threads \cup {None}]
    BY <1>1 DEF Tables
  <1>4. table' \in Tables
    BY <1>1, <1>2, <1>3 DEF Tables
  <1>5. \A r \in Slots : /\ table'[r].owner = table[r].owner /\ table'[r].depth = table[r].depth
                         /\ table'[r].thread = table[r].thread
                         /\ table'[r].region = IF Finds(t, r) THEN None ELSE table[r].region
    BY <1>1, <1>2 DEF Tables
  <1>6. open' \in [Threads -> BOOLEAN] /\ ~open'[t] /\ \A u \in Threads \ {t} : open'[u] = open[u]
    BY <1>1, <1>2
  <1>7. ASSUME ~strayed'
        PROVE  RegionHasSlot' /\ Contents'
    <2>1. InPlace /\ OneEach
      BY <1>7, OneSlot DEF Counts, IInv, InPlace
    <2>2. RegionHasSlot'
      BY <1>5, <1>6, <2>1 DEF InPlace, RegionHasSlot, LeaveRegion, Slots
    <2>3. ASSUME NEW u \in Threads, NEW r \in Slots, table[r].owner = u, Own(u, r)
          PROVE  Own(u, r)'
      <3>1. Finds(t, r) <=> u = t
        BY <2>1, <2>3 DEF OneEach, Finds
      <3>2. QED
        BY <1>5, <1>6, <2>3, <3>1 DEF Own, LeaveRegion
    <2>4. Contents'
      BY <2>1, <2>3, CallType
         DEF IInv, InPlace, Contents, LeaveRegion, Present, Registering, TypeOK
    <2>5. QED
      BY <2>2, <2>4
  <1>8. QED
    BY <1>2, <1>4, <1>5, <1>6, <1>7, WordsOnly DEF LeaveRegion

\* A step that moves one call, to where it has not just claimed, and depths.
LEMMA DepthsOnly ==
    ASSUME IInv, Counts, UNCHANGED <<claimed, phase, life, release, open, enters>>,
           poisoned' \in BOOLEAN, table' \in Tables,
           \A r \in Slots : table'[r] = [table[r] EXCEPT !.depth = table'[r].depth],
           NEW t \in Threads, phase[t] # "gone", NEW n, NEW pc, NEW s, Only(t, n, pc, s),
           pc # "register",
           ~strayed' => ~poisoned' /\ Working' /\ OneHeld' /\ DepthIsOne'
    PROVE  IInv'
  <1> USE DEF Only
  <1>1. TypeOK'
    <2>1. strayed' \in BOOLEAN
      BY DEF Counts, IInv, TypeOK
    <2>2. QED
      BY <2>1 DEF IInv, TypeOK, Tables
  <1>2. ASSUME NEW r \in Slots
        PROVE  /\ table'[r].owner = table[r].owner /\ table'[r].thread = table[r].thread
               /\ table'[r].region = table[r].region
    <2>1. table[r] \in [owner : Threads \cup {None}, depth : Nat,
                        thread : Threads \X Nat \cup {None}, region : Threads \cup {None}]
      BY DEF IInv, TypeOK
    <2>2. QED
      BY <2>1
  <1>3. CountIsExact'
    <2>1. Owned' = Owned
      BY <1>2 DEF Owned, Slots
    <2>2. QED
      BY <2>1 DEF IInv, CountIsExact
  <1>4. Present'
    BY <1>2 DEF IInv, Present, TypeOK
  <1>5. ASSUME NEW u \in Threads, NEW i \in DOMAIN calls'[u], calls'[u][i].pc = "register"
        PROVE  /\ i \in DOMAIN calls[u] /\ calls'[u][i] = calls[u][i]
               /\ table[calls[u][i].at].owner = u /\ calls[u][i].at \in Slots
    <2>1. i \in DOMAIN calls[u] /\ calls'[u][i] = calls[u][i]
      BY <1>5
    <2>2. QED
      BY <1>5, <2>1, CallType DEF IInv, Registering
  <1>6. Registering'
    <2> SUFFICES ASSUME NEW u \in Threads, NEW i \in DOMAIN calls'[u],
                        calls'[u][i].pc = "register"
                 PROVE  /\ table'[calls'[u][i].at].owner = u
                        /\ calls'[u][i].at # release'[u]
                        /\ \A j \in DOMAIN calls'[u] :
                              j # i /\ calls'[u][j].pc = "register" =>
                                 calls'[u][j].at # calls'[u][i].at
      BY DEF Registering
    <2>1. QED
      BY <1>2, <1>5 DEF IInv, Registering
  <1>7. Closed'
    BY DEF IInv, Closed
  <1>8. ASSUME ~strayed'
        PROVE  InPlace'
    <2>1. InPlace /\ ~Stray'
      BY <1>8 DEF Counts, IInv
    <2>2. RegionHasSlot'
      BY <1>2, <2>1 DEF InPlace, RegionHasSlot, Slots
    <2>3. ASSUME NEW u \in Threads, NEW r \in Slots, Own(u, r)
          PROVE  Own(u, r)'
      BY <1>2, <2>3 DEF Own
    <2>4. Contents'
      <3> SUFFICES ASSUME NEW u \in Threads, phase[u] = "alive"
                   PROVE  /\ release[u] # None => Own(u, release[u])'
                          /\ \A i \in DOMAIN calls'[u] :
                                calls'[u][i].pc = "register" => Own(u, calls[u][i].at)'
        BY DEF Contents
      <3>1. release[u] # None => Own(u, release[u])'
        BY <2>1, <2>3 DEF InPlace, Contents, IInv, TypeOK
      <3>2. ASSUME NEW i \in DOMAIN calls'[u], calls'[u][i].pc = "register"
            PROVE  Own(u, calls[u][i].at)'
        <4>1. i \in DOMAIN calls[u] /\ calls'[u][i] = calls[u][i] /\ calls[u][i].at \in Slots
          BY <1>5, <3>2
        <4>2. Own(u, calls[u][i].at)
          BY <2>1, <3>2, <4>1 DEF InPlace, Contents
        <4>3. QED
          BY <2>3, <4>1, <4>2 DEF Own
      <3>3. QED
        BY <3>1, <3>2
    <2>5. QED
      BY <1>8, <2>1, <2>2, <2>4 DEF InPlace
  <1>9. QED
    BY <1>1, <1>3, <1>4, <1>6, <1>7, <1>8 DEF IInv

LEMMA CheckInv ==
    ASSUME IInv, Counts, NEW t \in Threads, Check(t)
    PROVE  IInv'
  <1> DEFINE n == Inner(t)
             s == Top(t).at
  <1>1. /\ InCall(t) /\ n \in DOMAIN calls[t]
        /\ calls[t][n].pc = "check" /\ Top(t).pc = "check" /\ calls[t][n] = Top(t)
        /\ s \in Slots /\ phase[t] # "gone"
    BY InnerIs DEF Check
  <1>2. TypeOK /\ table \in Tables /\ enters' \in Nat
    BY DEF Check, IInv, TypeOK, Tables
  <1>3. CASE table[s].depth # 0
    <2>1. UNCHANGED Rest /\ Denied(t)
      BY <1>3 DEF Check, Rest
    <2>2. Only(t, n, "unguarded", s)
      BY <1>1, <1>2, <2>1, DeniedOnly DEF Inner
    <2>3. QED
      BY <1>1, <1>2, <2>1, <2>2, Aside
  <1>4. CASE table[s].depth = 0
    <2>1. /\ table' = [table EXCEPT ![s] = [@ EXCEPT !.depth = 1]]
          /\ Continue(t, "held")
          /\ UNCHANGED <<claimed, poisoned, phase, life, release, open, enters>>
      BY <1>4 DEF Check
    <2>2. Only(t, n, "held", s)
      BY <1>1, <1>2, <2>1, ContinueOnly DEF Inner
    <2>0. n \in DOMAIN calls'[t]
      <3>1. calls[t] \in Seq(Calls) /\ calls \in [Threads -> Seq(Calls)]
        BY DEF IInv, TypeOK
      <3>2. QED
        BY <1>1, <2>1, <3>1 DEF Continue, SetTop, Inner
    <2> HIDE DEF s, n
    <2>3. /\ table' \in Tables
          /\ \A r \in Slots : table'[r] = IF r = s THEN [table[r] EXCEPT !.depth = 1] ELSE table[r]
      BY <1>1, <1>2, <2>1 DEF Tables
    <2>4. \A r \in Slots : /\ table'[r] = [table[r] EXCEPT !.depth = table'[r].depth]
                           /\ table'[r].owner = table[r].owner
                           /\ table'[r].depth = IF r = s THEN 1 ELSE table[r].depth
      BY <1>2, <2>3 DEF Tables
    <2>5. ASSUME ~strayed'
          PROVE  ~poisoned' /\ Working' /\ OneHeld' /\ DepthIsOne'
      <3>1. InPlace /\ OneEach
        BY <2>5, OneSlot DEF Counts, IInv, InPlace
      <3>2. table[s].owner = t
        BY <1>1, <3>1 DEF InPlace, Working, s
      <3>3. ASSUME NEW i \in Held(t)
            PROVE  FALSE
        <4>1. /\ i \in DOMAIN calls[t] /\ calls[t][i].pc = "held"
              /\ table[calls[t][i].at].owner = t /\ calls[t][i].at \in Slots
          BY <3>1, CallType DEF Held, InPlace, Working, IInv
        <4>2. calls[t][i].at = s
          BY <1>1, <3>1, <3>2, <4>1 DEF OneEach
        <4>3. HeldAt(t, s)
          BY <4>2 DEF HeldAt
        <4>4. table[s].depth = 1
          BY <1>1, <3>1, <3>2, <4>3 DEF InPlace, DepthIsOne
        <4>5. QED
          BY <1>4, <4>4
      <3>4. Held(t)' = {n} /\ calls'[t][n].at = s
        BY <2>0, <2>2, <3>3 DEF Held, Only
      <3>5. \A u \in Threads \ {t} : Held(u)' = Held(u) /\ calls'[u] = calls[u]
        BY <2>2 DEF Held, Only
      <3>6. Working'
        <4> SUFFICES ASSUME NEW u \in Threads, NEW i \in DOMAIN calls'[u],
                            calls'[u][i].pc \in {"check", "held"}
                     PROVE  table'[calls'[u][i].at].owner = u
          BY DEF Working
        <4>1. CASE u = t /\ i = n
          BY <1>1, <2>4, <3>2, <3>4, <4>1
        <4>2. CASE ~(u = t /\ i = n)
          <5>1. i \in DOMAIN calls[u] /\ calls'[u][i] = calls[u][i]
            BY <2>2, <4>2 DEF Only
          <5>2. table[calls[u][i].at].owner = u /\ calls[u][i].at \in Slots
            BY <3>1, <5>1, CallType DEF InPlace, Working, IInv
          <5>3. QED
            BY <2>4, <5>1, <5>2
        <4>3. QED
          BY <4>1, <4>2
      <3>7. OneHeld'
        BY <3>1, <3>4, <3>5 DEF InPlace, OneHeld
      <3>8. DepthIsOne'
        <4> SUFFICES ASSUME NEW r \in Slots
                     PROVE  /\ table'[r].owner = None => table'[r].depth = 0
                            /\ \A u \in Threads : table'[r].owner = u =>
                                  table'[r].depth = IF HeldAt(u, r)' THEN 1 ELSE 0
          BY DEF DepthIsOne, Slots
        <4>1. CASE r = s
          <5>1. HeldAt(t, r)'
            BY <3>4, <4>1 DEF HeldAt
          <5>2. QED
            BY <2>4, <3>2, <4>1, <5>1, NoneAssumption
        <4>2. CASE r # s
          <5>1. ASSUME NEW u \in Threads, table[r].owner = u
                PROVE  u # t /\ (HeldAt(u, r)' <=> HeldAt(u, r))
            <6>1. u # t
              BY <1>1, <3>1, <3>2, <4>2, <5>1 DEF OneEach
            <6>2. QED
              BY <3>5, <6>1 DEF HeldAt
          <5>2. QED
            BY <2>4, <3>1, <4>2, <5>1 DEF InPlace, DepthIsOne
        <4>3. QED
          BY <4>1, <4>2
      <3>9. QED
        BY <2>1, <3>1, <3>6, <3>7, <3>8 DEF InPlace
    <2>6. poisoned' \in BOOLEAN
      BY <2>1 DEF IInv, TypeOK
    <2>7. QED
      BY <1>1, <2>1, <2>2, <2>3, <2>4, <2>5, <2>6, DepthsOnly
  <1>5. QED
    BY <1>3, <1>4

\* The guard is released: the innermost call is gone, and so is its depth.
LEMMA Lets ==
    ASSUME IInv, NEW t \in Threads, Doing(t, "held"), Return(t), ~strayed,
           \A r \in Slots : table'[r].owner = table[r].owner,
           \A r \in Slots : table'[r].depth = IF r = Top(t).at THEN 0 ELSE table[r].depth
    PROVE  Working' /\ OneHeld' /\ DepthIsOne'
  <1> DEFINE n == Inner(t)
             s == Top(t).at
  <1>1. /\ InCall(t) /\ n \in DOMAIN calls[t]
        /\ calls[t][n].pc = "held" /\ calls[t][n] = Top(t)
        /\ s \in Slots
    BY InnerIs
  <1>2. InPlace /\ OneEach /\ TypeOK
    BY OneSlot DEF IInv, InPlace
  <1>3. table[s].owner = t
    BY <1>1, <1>2 DEF InPlace, Working
  <1>4. Only(t, n, "find", 0) /\ n \notin DOMAIN calls'[t]
    <2>1. calls[t] \in Seq(Calls) /\ calls \in [Threads -> Seq(Calls)]
      BY <1>2 DEF TypeOK
    <2>2. n \in Nat \ {0} /\ n = Len(calls[t])
      BY <1>1, <1>2, InnermostCall DEF Inner
    <2>3. calls'[t] = SubSeq(calls[t], 1, n - 1)
      BY <2>1, <2>2 DEF Return
    <2>4. Only(t, n, "find", 0)
      BY <1>1, <1>2, <2>2, ReturnOnly
    <2>5. DOMAIN SubSeq(calls[t], 1, n - 1) = 1..n - 1
      BY <2>1, <2>2
    <2>6. QED
      BY <2>2, <2>3, <2>4, <2>5
  <1>5. \A r \in Slots : table'[r].depth = IF r = s THEN 0 ELSE table[r].depth
    OBVIOUS
  <1> HIDE DEF s, n
  <1>6. Held(t) = {n}
    BY <1>1, <1>2 DEF InPlace, OneHeld, Held
  <1>7. Held(t)' = {}
    <2>1. ASSUME NEW i \in DOMAIN calls'[t], calls'[t][i].pc = "held"
          PROVE  FALSE
      <3>1. i # n /\ i \in DOMAIN calls[t] /\ calls'[t][i] = calls[t][i]
        BY <1>4, <2>1 DEF Only
      <3>2. QED
        BY <1>6, <2>1, <3>1 DEF Held
    <2>2. QED
      BY <2>1 DEF Held
  <1>8. \A u \in Threads \ {t} : Held(u)' = Held(u) /\ calls'[u] = calls[u]
    BY <1>4 DEF Held, Only
  <1>9. Working'
    <2> SUFFICES ASSUME NEW u \in Threads, NEW i \in DOMAIN calls'[u],
                        calls'[u][i].pc \in {"check", "held"}
                 PROVE  table'[calls'[u][i].at].owner = u
      BY DEF Working
    <2>1. i \in DOMAIN calls[u] /\ calls'[u][i] = calls[u][i]
      BY <1>4 DEF Only
    <2>2. table[calls[u][i].at].owner = u /\ calls[u][i].at \in Slots
      BY <1>2, <2>1, CallType DEF InPlace, Working
    <2>3. QED
      BY <2>1, <2>2
  <1>10. OneHeld'
    BY <1>2, <1>7, <1>8 DEF InPlace, OneHeld
  <1>11. DepthIsOne'
    <2> SUFFICES ASSUME NEW r \in Slots
                 PROVE  /\ table'[r].owner = None => table'[r].depth = 0
                        /\ \A u \in Threads : table'[r].owner = u =>
                              table'[r].depth = IF HeldAt(u, r)' THEN 1 ELSE 0
      BY DEF DepthIsOne, Slots
    <2>1. CASE r = s
      <3>1. ~HeldAt(t, r)'
        BY <1>7 DEF HeldAt
      <3>2. QED
        BY <1>3, <1>5, <2>1, <3>1, NoneAssumption
    <2>2. CASE r # s
      <3>1. ASSUME NEW u \in Threads, table[r].owner = u
            PROVE  u # t /\ (HeldAt(u, r)' <=> HeldAt(u, r))
        <4>1. u # t
          BY <1>1, <1>2, <1>3, <2>2, <3>1 DEF OneEach
        <4>2. QED
          BY <1>8, <4>1 DEF HeldAt
      <3>2. QED
        BY <1>2, <1>5, <2>2, <3>1 DEF InPlace, DepthIsOne
    <2>3. QED
      BY <2>1, <2>2
  <1>12. QED
    BY <1>9, <1>10, <1>11

\* While slots are in place, the guard that is released is held.
LEMMA HeldIsDeep ==
    ASSUME IInv, NEW t \in Threads, Doing(t, "held"), ~strayed
    PROVE  /\ table[Top(t).at].depth = 1 /\ ~poisoned
           /\ \A r \in Slots : Finds(t, r) <=> r = Top(t).at
  <1>1. /\ InCall(t) /\ Inner(t) \in DOMAIN calls[t]
        /\ calls[t][Inner(t)].pc = "held" /\ calls[t][Inner(t)] = Top(t)
        /\ Top(t).at \in Slots
    BY InnerIs
  <1>2. InPlace /\ OneEach
    BY OneSlot DEF IInv, InPlace
  <1>3. table[Top(t).at].owner = t
    BY <1>1, <1>2 DEF InPlace, Working
  <1>4. HeldAt(t, Top(t).at)
    BY <1>1 DEF HeldAt, Held
  <1>5. table[Top(t).at].depth = 1
    BY <1>1, <1>2, <1>3, <1>4 DEF InPlace, DepthIsOne
  <1>6. \A r \in Slots : Finds(t, r) <=> r = Top(t).at
    BY <1>1, <1>2, <1>3 DEF OneEach, Finds
  <1>7. QED
    BY <1>2, <1>5, <1>6 DEF InPlace

LEMMA DropInv ==
    ASSUME IInv, Counts, NEW t \in Threads, Drop(t)
    PROVE  IInv'
  <1> DEFINE s == Top(t).at
  <1>1. /\ InCall(t) /\ Doing(t, "held") /\ Return(t)
        /\ s \in Slots /\ phase[t] # "gone"
        /\ UNCHANGED <<claimed, phase, life, release, open, enters>>
    BY InnerIs DEF Drop
  <1>2. TypeOK /\ table \in Tables
    BY DEF IInv, TypeOK, Tables
  <1>3. Only(t, Inner(t), "find", 0)
    BY <1>1, <1>2, ReturnOnly DEF Inner
  <1>4. /\ table[s].depth = 0 => table' = table /\ poisoned' = TRUE
        /\ table[s].depth # 0 =>
              /\ table' = [table EXCEPT ![s].depth = @ - 1]
              /\ poisoned' = poisoned
    BY DEF Drop
  <1> HIDE DEF s
  <1>5. table[s].depth \in Nat /\ (table[s].depth # 0 => table[s].depth - 1 \in Nat)
    BY <1>1, <1>2 DEF Tables
  <1>6. /\ table' \in Tables
        /\ \A r \in Slots : /\ table'[r] = [table[r] EXCEPT !.depth = table'[r].depth]
                            /\ table'[r].owner = table[r].owner
                            /\ table'[r].depth = IF r = s /\ table[s].depth # 0
                                                 THEN table[s].depth - 1 ELSE table[r].depth
    <2>1. CASE table[s].depth = 0
      BY <1>2, <1>4, <2>1 DEF Tables
    <2>2. CASE table[s].depth # 0
      <3> DEFINE d == table[s].depth - 1
      <3>1. d \in Nat /\ table' = [table EXCEPT ![s].depth = d]
        BY <1>4, <1>5, <2>2
      <3> HIDE DEF d
      <3>2. /\ table' \in Tables
            /\ \A r \in Slots : /\ table'[r] = [table[r] EXCEPT !.depth = table'[r].depth]
                                /\ table'[r].owner = table[r].owner
                                /\ table'[r].depth = IF r = s THEN d ELSE table[r].depth
        BY <1>1, <1>2, <3>1 DEF Tables
      <3>3. QED
        BY <2>2, <3>2 DEF d
    <2>3. QED
      BY <2>1, <2>2
  <1> poisoned' \in BOOLEAN
    BY <1>2, <1>4 DEF TypeOK
  <1>7. ASSUME ~strayed'
        PROVE  ~poisoned' /\ Working' /\ OneHeld' /\ DepthIsOne'
    <2>1. ~strayed
      BY <1>7 DEF Counts
    <2>2. table[s].depth = 1 /\ ~poisoned
      BY <1>1, <2>1, HeldIsDeep DEF s
    <2>0. table[s].depth - 1 = 0
      BY <2>2
    <2>3. \A r \in Slots : table'[r].depth = IF r = Top(t).at THEN 0 ELSE table[r].depth
      BY <1>6, <2>0, <2>2 DEF s
    <2>4. Working' /\ OneHeld' /\ DepthIsOne'
      BY <1>1, <1>6, <2>1, <2>3, Lets
    <2>5. QED
      BY <1>4, <2>2, <2>4
  <1>8. QED
    BY <1>1, <1>3, <1>4, <1>6, <1>7, DepthsOnly

LEMMA LeaveUnbalancedInv ==
    ASSUME IInv, Counts, NEW t \in Threads, LeaveUnbalanced(t)
    PROVE  IInv'
  <1> DEFINE found == \E s \in Slots : Finds(t, s) /\ table[s].depth # 0
  <1>1. /\ InCall(t) /\ Doing(t, "held") /\ Return(t)
        /\ Top(t).at \in Slots /\ phase[t] # "gone"
        /\ UNCHANGED <<claimed, phase, life, release, open, enters>>
    BY InnerIs DEF LeaveUnbalanced
  <1>2. TypeOK /\ table \in Tables
    BY DEF IInv, TypeOK, Tables
  <1>3. Only(t, Inner(t), "find", 0)
    BY <1>1, <1>2, ReturnOnly DEF Inner
  <1>4. /\ table' = IF found
                    THEN [s \in Slots |-> IF Finds(t, s) THEN [table[s] EXCEPT !.depth = @ - 1]
                                          ELSE table[s]]
                    ELSE table
        /\ found => poisoned' = poisoned
        /\ poisoned' = TRUE \/ poisoned' = poisoned
    BY DEF LeaveUnbalanced
  <1>5. \A s \in Slots : found /\ Finds(t, s) => table[s].depth - 1 \in Nat
    <2>1. \A s \in Slots : table[s].depth \in Nat
      BY <1>2 DEF Tables
    <2>2. \A s \in Slots : found /\ Finds(t, s) => table[s].depth # 0
      BY FoundOnce
    <2>3. QED
      BY <2>1, <2>2
  <1> HIDE DEF found
  <1>6. /\ table' \in Tables
        /\ \A r \in Slots : /\ table'[r] = [table[r] EXCEPT !.depth = table'[r].depth]
                            /\ table'[r].owner = table[r].owner
                            /\ table'[r].depth = IF found /\ Finds(t, r)
                                                 THEN table[r].depth - 1 ELSE table[r].depth
    BY <1>2, <1>4, <1>5 DEF Tables
  <1> poisoned' \in BOOLEAN
    BY <1>2, <1>4 DEF TypeOK
  <1>7. ASSUME ~strayed'
        PROVE  ~poisoned' /\ Working' /\ OneHeld' /\ DepthIsOne'
    <2>1. ~strayed
      BY <1>7 DEF Counts
    <2>2. /\ table[Top(t).at].depth = 1 /\ ~poisoned
          /\ \A r \in Slots : Finds(t, r) <=> r = Top(t).at
      BY <1>1, <2>1, HeldIsDeep
    <2>3. found
      BY <1>1, <2>2 DEF found
    <2>4. \A r \in Slots : table'[r].depth = IF r = Top(t).at THEN 0 ELSE table[r].depth
      <3>1. \A r \in Slots : r = Top(t).at => table[r].depth - 1 = 0
        BY <2>2
      <3>2. QED
        BY <1>6, <2>2, <2>3, <3>1
    <2>5. Working' /\ OneHeld' /\ DepthIsOne'
      BY <1>1, <1>6, <2>1, <2>4, Lets
    <2>6. QED
      BY <1>4, <2>2, <2>3, <2>5
  <1>8. QED
    BY <1>1, <1>3, <1>4, <1>6, <1>7, DepthsOnly

\* A claimed slot: counted, empty and the thread's.
LEMMA OneOwnedMore ==
    ASSUME IInv, NEW t \in Threads, NEW s \in Slots, table[s].owner = None,
           table' = [table EXCEPT ![s] = [Cleared(@) EXCEPT !.owner = t]]
    PROVE  /\ claimed + 1 \in Nat
           /\ claimed + 1 = Cardinality(Owned')
           /\ table'[s] = [owner |-> t, depth |-> 0, thread |-> None, region |-> None]
           /\ \A r \in Slots \ {s} : table'[r] = table[r]
           /\ table' \in Tables
  <1>1. table \in Tables /\ claimed = Cardinality(Owned) /\ claimed \in Nat
    BY DEF IInv, TypeOK, CountIsExact, Tables
  <1>2. [Cleared(table[s]) EXCEPT !.owner = t]
            = [owner |-> t, depth |-> 0, thread |-> None, region |-> None]
    <2>1. table[s] \in [owner : Threads \cup {None}, depth : Nat,
                        thread : Threads \X Nat \cup {None}, region : Threads \cup {None}]
      BY <1>1 DEF Tables
    <2>2. /\ Cleared(table[s]) \in [owner : Threads \cup {None}, depth : Nat,
                        thread : Threads \X Nat \cup {None}, region : Threads \cup {None}]
          /\ Cleared(table[s]).depth = 0
          /\ Cleared(table[s]).thread = None
          /\ Cleared(table[s]).region = None
      BY <2>1 DEF Cleared
    <2>3. PICK o, d, h, g :
            Cleared(table[s]) = [owner |-> o, depth |-> d, thread |-> h, region |-> g]
      BY <2>2
    <2>4. Cleared(table[s]) = [owner |-> o, depth |-> 0, thread |-> None, region |-> None]
      BY <2>2, <2>3
    <2>5. QED
      BY <2>4
  <1>3. /\ table'[s] = [owner |-> t, depth |-> 0, thread |-> None, region |-> None]
        /\ \A r \in Slots \ {s} : table'[r] = table[r]
        /\ table' \in Tables
    BY <1>1, <1>2 DEF Tables
  <1>4. Owned' = Owned \cup {s} /\ s \notin Owned
    BY <1>3, NoneAssumption DEF Owned, Slots
  <1>5. IsFiniteSet(Owned)
    BY SlotFacts, FS_Subset DEF Owned
  <1>6. Cardinality(Owned') = Cardinality(Owned) + 1
    BY <1>4, <1>5, FS_AddElement
  <1>7. QED
    BY <1>1, <1>3, <1>6

LEMMA ClaimInv ==
    ASSUME IInv, Counts, NEW t \in Threads, Claim(t)
    PROVE  IInv'
  <1> DEFINE n == Inner(t)
             s == Top(t).at
  <1>1. /\ InCall(t) /\ n \in DOMAIN calls[t]
        /\ calls[t][n].pc = "claim" /\ Top(t).pc = "claim" /\ calls[t][n] = Top(t)
        /\ s \in Slots /\ phase[t] # "gone"
    BY InnerIs DEF Claim
  <1>2. TypeOK /\ enters' \in Nat /\ t # None /\ None \notin Slots
    BY NoneAssumption, SlotFacts DEF Claim, IInv, TypeOK
  <1>3. CASE table[s].owner = t
    <2>1. UNCHANGED Rest /\ Continue(t, "check")
      BY <1>2, <1>3 DEF Claim, Rest
    <2>2. Only(t, n, "check", s)
      BY <1>1, <1>2, <2>1, ContinueOnly DEF Inner
    <2>3. QED
      BY <1>1, <1>2, <1>3, <2>1, <2>2, Aside
  <1>4. CASE table[s].owner \notin {t, None}
    <2>1. UNCHANGED Rest /\ Onward(t)
      BY <1>4 DEF Claim, Rest
    <2>2. \E pc \in {"find", "claim", "unguarded"}, r \in Slots : Only(t, n, pc, r)
      BY <1>1, <1>2, <2>1, OnwardOnly DEF Inner
    <2>3. QED
      BY <1>1, <1>2, <2>1, <2>2, Aside
  <1>5. CASE table[s].owner = None
    <2>1. /\ table' = [table EXCEPT ![s] = [Cleared(@) EXCEPT !.owner = t]]
          /\ claimed' = claimed + 1
          /\ Continue(t, "register")
          /\ UNCHANGED <<poisoned, phase, life, release, open, enters>>
      BY <1>2, <1>5 DEF Claim
    <2>2. Only(t, n, "register", s)
      BY <1>1, <1>2, <2>1, ContinueOnly DEF Inner
    <2>3. table[s].owner = None
      BY <1>5
    <2> HIDE DEF s, n
    <2>4. /\ claimed' \in Nat /\ claimed' = Cardinality(Owned')
          /\ table'[s] = [owner |-> t, depth |-> 0, thread |-> None, region |-> None]
          /\ \A r \in Slots \ {s} : table'[r] = table[r]
          /\ table' \in Tables
      BY <1>1, <2>1, <2>3, OneOwnedMore
    <2>5. TypeOK'
      <3>1. strayed' \in BOOLEAN
        BY DEF Counts, IInv, TypeOK
      <3>2. QED
        BY <1>2, <2>1, <2>2, <2>4, <3>1 DEF TypeOK, Only, Tables
    <2>6. CountIsExact'
      BY <2>4 DEF CountIsExact
    <2>7. ASSUME NEW u \in Threads, NEW r \in Slots, table[r].owner = u
          PROVE  r # s /\ table'[r] = table[r]
      BY <2>3, <2>4, <2>7, NoneAssumption
    <2>8. Present'
      <3> SUFFICES ASSUME NEW u \in Threads
                   PROVE  /\ phase'[u] = "gone" => calls'[u] = <<>>
                          /\ release'[u] # None =>
                                phase'[u] = "alive" /\ table'[release'[u]].owner = u
        BY DEF Present
      <3>1. release[u] # None => release[u] \in Slots /\ table[release[u]].owner = u
        BY DEF IInv, TypeOK, Present
      <3>2. phase[u] = "gone" => u # t /\ calls[u] = <<>>
        BY <1>1 DEF IInv, Present, InCall
      <3>3. phase'[u] = "gone" => calls'[u] = <<>>
        BY <2>1, <2>2, <3>2 DEF Only
      <3>4. release[u] # None => phase[u] = "alive" /\ table'[release[u]].owner = u
        BY <2>7, <3>1 DEF IInv, Present
      <3>5. QED
        BY <2>1, <3>3, <3>4
    <2>9. ASSUME NEW u \in Threads, NEW i \in DOMAIN calls'[u], ~(u = t /\ i = n)
          PROVE  /\ i \in DOMAIN calls[u] /\ calls'[u][i] = calls[u][i]
                 /\ calls[u][i].at \in Slots
      <3>1. i \in DOMAIN calls[u] /\ calls'[u][i] = calls[u][i]
        BY <2>2, <2>9 DEF Only
      <3>2. QED
        BY <1>2, <3>1, CallType
    <2>10. n \in DOMAIN calls'[t] => calls'[t][n].pc = "register" /\ calls'[t][n].at = s
      BY <2>2 DEF Only
    <2>11. ASSUME NEW u \in Threads, NEW i \in DOMAIN calls'[u], ~(u = t /\ i = n),
                  calls'[u][i].pc = "register"
           PROVE  /\ calls'[u][i].at # s /\ calls'[u][i].at # release[u]
                  /\ table'[calls'[u][i].at].owner = u
      <3>1. /\ i \in DOMAIN calls[u] /\ calls'[u][i] = calls[u][i]
            /\ calls[u][i].at \in Slots
        BY <2>9, <2>11
      <3>2. table[calls[u][i].at].owner = u /\ calls[u][i].at # release[u]
        BY <2>11, <3>1 DEF IInv, Registering
      <3>3. QED
        BY <2>7, <3>1, <3>2
    <2>12. s # release[t]
      <3>1. release[t] # None => release[t] \in Slots /\ table[release[t]].owner = t
        BY DEF IInv, TypeOK, Present
      <3>2. QED
        BY <1>1, <1>2, <2>7, <3>1
    <2>13. Registering'
      <3> SUFFICES ASSUME NEW u \in Threads, NEW i \in DOMAIN calls'[u],
                          calls'[u][i].pc = "register"
                   PROVE  /\ table'[calls'[u][i].at].owner = u
                          /\ calls'[u][i].at # release'[u]
                          /\ \A j \in DOMAIN calls'[u] :
                                j # i /\ calls'[u][j].pc = "register" =>
                                   calls'[u][j].at # calls'[u][i].at
        BY DEF Registering
      <3>1. release' = release
        BY <2>1
      <3>2. CASE u = t /\ i = n
        BY <2>4, <2>10, <2>11, <2>12, <3>1, <3>2
      <3>3. CASE ~(u = t /\ i = n)
        <4>1. ASSUME NEW j \in DOMAIN calls'[u], j # i, calls'[u][j].pc = "register"
              PROVE  calls'[u][j].at # calls'[u][i].at
          <5>1. CASE u = t /\ j = n
            BY <2>10, <2>11, <3>3, <5>1
          <5>2. CASE ~(u = t /\ j = n)
            BY <2>9, <3>3, <4>1, <5>2 DEF IInv, Registering
          <5>3. QED
            BY <5>1, <5>2
        <4>2. QED
          BY <2>11, <3>1, <3>3, <4>1
      <3>4. QED
        BY <3>2, <3>3
    <2>14. Closed'
      BY <2>1 DEF IInv, Closed
    <2>15. ASSUME ~strayed'
           PROVE  InPlace'
      <3>1. InPlace /\ ~Stray' /\ OneEach'
        BY <2>15, OneSlotNext DEF Counts, IInv
      <3>2. ASSUME NEW r \in Slots, table[r].owner = t
            PROVE  FALSE
        <4>1. r # s /\ table'[r].owner = t
          BY <2>7, <3>2
        <4>2. table'[s].owner = t
          BY <2>4
        <4>3. \A a, b \in Slots : table'[a].owner = t /\ table'[b].owner = t => a = b
          BY <3>1 DEF OneEach, Slots
        <4>4. QED
          BY <1>1, <4>1, <4>2, <4>3
      <3>3. ASSUME NEW u \in Threads, NEW i \in DOMAIN calls'[u],
                   calls'[u][i].pc \in {"check", "held"}
            PROVE  /\ u # t /\ i \in DOMAIN calls[u] /\ calls'[u][i] = calls[u][i]
                   /\ calls[u][i].at \in Slots /\ table[calls[u][i].at].owner = u
        <4>1. ~(u = t /\ i = n)
          BY <2>10, <3>3
        <4>2. /\ i \in DOMAIN calls[u] /\ calls'[u][i] = calls[u][i]
              /\ calls[u][i].at \in Slots
          BY <2>9, <4>1
        <4>3. table[calls[u][i].at].owner = u
          BY <3>1, <3>3, <4>2 DEF InPlace, Working
        <4>4. QED
          BY <3>2, <4>2, <4>3
      <3>4. Working'
        BY <2>7, <3>3 DEF Working
      <3>5. Held(t)' = {}
        BY <3>3 DEF Held
      <3>6. \A u \in Threads \ {t} : Held(u)' = Held(u) /\ calls'[u] = calls[u]
        BY <2>2 DEF Held, Only
      <3>7. OneHeld'
        BY <3>1, <3>5, <3>6 DEF InPlace, OneHeld
      <3>8. DepthIsOne'
        <4> SUFFICES ASSUME NEW r \in Slots
                     PROVE  /\ table'[r].owner = None => table'[r].depth = 0
                            /\ \A u \in Threads : table'[r].owner = u =>
                                  table'[r].depth = IF HeldAt(u, r)' THEN 1 ELSE 0
          BY DEF DepthIsOne, Slots
        <4>1. CASE r = s
          <5>1. ~HeldAt(t, r)'
            BY <3>5 DEF HeldAt
          <5>2. QED
            BY <2>4, <4>1, <5>1
        <4>2. CASE r # s
          <5>1. table'[r] = table[r]
            BY <2>4, <4>2
          <5>2. ASSUME NEW u \in Threads, table[r].owner = u
                PROVE  HeldAt(u, r)' <=> HeldAt(u, r)
            <6>1. u # t
              BY <3>2, <5>2
            <6>2. QED
              BY <3>6, <6>1 DEF HeldAt
          <5>3. QED
            BY <3>1, <5>1, <5>2 DEF InPlace, DepthIsOne
        <4>3. QED
          BY <4>1, <4>2
      <3>9. RegionHasSlot'
        <4> SUFFICES ASSUME NEW u \in Threads, phase[u] = "alive", open[u]
                     PROVE  \E r \in Slots : table'[r].owner = u
          BY <2>1 DEF RegionHasSlot, Slots
        <4>1. PICK r \in Slots : table[r].owner = u
          BY <3>1 DEF InPlace, RegionHasSlot
        <4>2. QED
          BY <2>7, <4>1
      <3>10. Contents'
        <4> SUFFICES ASSUME NEW u \in Threads, phase[u] = "alive"
                     PROVE  /\ release[u] # None => Own(u, release[u])'
                            /\ \A i \in DOMAIN calls'[u] :
                                  calls'[u][i].pc = "register" => Own(u, calls[u][i].at)'
          BY <2>1 DEF Contents
        <4>1. ASSUME NEW r \in Slots, table[r].owner = u, Own(u, r)
              PROVE  Own(u, r)'
          BY <2>1, <2>7, <4>1 DEF Own
        <4>2. release[u] # None => Own(u, release[u])'
          <5>1. release[u] # None => release[u] \in Slots /\ table[release[u]].owner = u
            BY DEF IInv, TypeOK, Present
          <5>2. QED
            BY <2>1, <3>1, <4>1, <5>1 DEF InPlace, Contents, Own
        <4>3. ASSUME NEW i \in DOMAIN calls'[u], calls'[u][i].pc = "register"
              PROVE  Own(u, calls[u][i].at)'
          <5>1. CASE u = t /\ i = n
            <6>1. ~open[t]
              BY <3>1, <3>2, <5>1 DEF InPlace, RegionHasSlot
            <6>2. table'[calls'[u][i].at].thread = None /\ table'[calls'[u][i].at].region = None
              BY <2>4, <2>10, <5>1
            <6>3. QED
              BY <2>1, <5>1, <6>1, <6>2 DEF Own
          <5>2. CASE ~(u = t /\ i = n)
            <6>1. /\ i \in DOMAIN calls[u] /\ calls'[u][i] = calls[u][i]
                  /\ calls[u][i].at \in Slots
              BY <2>9, <5>2
            <6>2. table[calls[u][i].at].owner = u /\ Own(u, calls[u][i].at)
              BY <3>1, <4>3, <6>1 DEF IInv, Registering, InPlace, Contents
            <6>3. QED
              BY <4>1, <6>1, <6>2 DEF Own
          <5>3. QED
            BY <5>1, <5>2
        <4>4. QED
          BY <4>2, <4>3
      <3>11. ~poisoned'
        BY <2>1, <3>1 DEF InPlace
      <3>12. QED
        BY <3>1, <3>4, <3>7, <3>8, <3>9, <3>10, <3>11 DEF InPlace
    <2>16. QED
      BY <2>5, <2>6, <2>8, <2>13, <2>14, <2>15 DEF IInv
  <1>6. QED
    BY <1>3, <1>4, <1>5

LEMMA RegisterInv ==
    ASSUME IInv, Counts, NEW t \in Threads, Register(t)
    PROVE  IInv'
  <1> DEFINE n == Inner(t)
             s == Top(t).at
             q == release[t]
  <1>1. /\ InCall(t) /\ n \in DOMAIN calls[t]
        /\ calls[t][n].pc = "register" /\ calls[t][n] = Top(t)
        /\ s \in Slots /\ phase[t] # "gone" /\ Continue(t, "check")
    BY InnerIs DEF Register
  <1>2. TypeOK /\ enters' \in Nat /\ t # None /\ None \notin Slots /\ table \in Tables
    BY NoneAssumption, SlotFacts DEF Register, IInv, TypeOK, Tables
  <1>3. Only(t, n, "check", s)
    BY <1>1, <1>2, ContinueOnly DEF Inner
  <1>4. table[s].owner = t /\ s # q
    BY <1>1 DEF IInv, Registering
  <1>5. CASE phase[t] = "torn"
    <2>1. UNCHANGED Rest
      BY <1>5 DEF Register, Rest
    <2>2. QED
      BY <1>1, <1>2, <1>3, <1>4, <2>1, Aside
  <1>6. CASE phase[t] # "torn"
    <2>1. /\ phase[t] = "alive"
          /\ release' = [release EXCEPT ![t] = s]
          /\ q = None => UNCHANGED <<table, claimed>>
          /\ q # None => /\ table' = [table EXCEPT ![q] = Released(@)]
                         /\ claimed' = claimed - 1
          /\ UNCHANGED <<poisoned, phase, life, open, enters>>
      BY <1>1, <1>2, <1>6 DEF Register, TypeOK
    <2>2. q # None => q \in Slots /\ table[q].owner = t
      BY DEF IInv, TypeOK, Present
    <2> HIDE DEF s, n, q
    <2>3. /\ \A r \in Slots \ {q} : table'[r] = table[r]
          /\ table' \in Tables
          /\ claimed' \in Nat /\ claimed' = Cardinality(Owned')
      <3>1. CASE q = None
        <4>1. Owned' = Owned
          BY <2>1, <3>1 DEF Owned, Slots
        <4>2. QED
          BY <1>2, <2>1, <3>1, <4>1 DEF IInv, TypeOK, CountIsExact, Tables
      <3>2. CASE q # None
        BY <1>2, <2>1, <2>2, <3>2, OneOwnedLess DEF Tables
      <3>3. QED
        BY <3>1, <3>2
    <2>4. TypeOK'
      <3>1. strayed' \in BOOLEAN
        BY DEF Counts, IInv, TypeOK
      <3>2. release' \in [Threads -> Slots \cup {None}]
        BY <1>1, <1>2, <2>1 DEF TypeOK
      <3>3. QED
        BY <1>2, <1>3, <2>1, <2>3, <3>1, <3>2 DEF TypeOK, Only, Tables
    <2>5. CountIsExact'
      BY <2>3 DEF CountIsExact
    <2>6. ASSUME NEW u \in Threads, NEW r \in Slots, table[r].owner = u, u # t \/ r # q
          PROVE  table'[r] = table[r]
      <3>1. r # q
        BY <1>2, <2>2, <2>6
      <3>2. QED
        BY <2>3, <3>1
    <2>7. release'[t] = s /\ \A u \in Threads \ {t} : release'[u] = release[u]
      BY <1>2, <2>1 DEF TypeOK
    <2>8. Present'
      <3> SUFFICES ASSUME NEW u \in Threads
                   PROVE  /\ phase'[u] = "gone" => calls'[u] = <<>>
                          /\ release'[u] # None =>
                                phase'[u] = "alive" /\ table'[release'[u]].owner = u
        BY DEF Present
      <3>1. CASE u = t
        BY <1>1, <1>4, <2>1, <2>6, <2>7, <3>1
      <3>2. CASE u # t
        <4>1. release[u] # None => release[u] \in Slots /\ table[release[u]].owner = u
          BY DEF IInv, TypeOK, Present
        <4>2. QED
          BY <1>3, <2>1, <2>6, <2>7, <3>2, <4>1 DEF IInv, Present, Only
      <3>3. QED
        BY <3>1, <3>2
    <2>9. ASSUME NEW u \in Threads, NEW i \in DOMAIN calls'[u], ~(u = t /\ i = n)
          PROVE  /\ i \in DOMAIN calls[u] /\ calls'[u][i] = calls[u][i]
                 /\ calls[u][i].at \in Slots
      <3>1. i \in DOMAIN calls[u] /\ calls'[u][i] = calls[u][i]
        BY <1>3, <2>9 DEF Only
      <3>2. QED
        BY <1>2, <3>1, CallType
    <2>10. n \in DOMAIN calls'[t] => calls'[t][n].pc = "check" /\ calls'[t][n].at = s
      BY <1>3 DEF Only
    <2>11. ASSUME NEW u \in Threads, NEW i \in DOMAIN calls'[u], calls'[u][i].pc = "register"
           PROVE  /\ ~(u = t /\ i = n)
                  /\ i \in DOMAIN calls[u] /\ calls'[u][i] = calls[u][i]
                  /\ calls[u][i].at \in Slots /\ table[calls[u][i].at].owner = u
                  /\ calls[u][i].at # release[u] /\ calls[u][i].at # release'[u]
                  /\ table'[calls[u][i].at] = table[calls[u][i].at]
      <3>1. ~(u = t /\ i = n)
        BY <2>10, <2>11
      <3>2. i \in DOMAIN calls[u] /\ calls'[u][i] = calls[u][i] /\ calls[u][i].at \in Slots
        BY <2>9, <3>1
      <3>3. /\ table[calls[u][i].at].owner = u /\ calls[u][i].at # release[u]
            /\ \A j \in DOMAIN calls[u] :
                  j # i /\ calls[u][j].pc = "register" => calls[u][j].at # calls[u][i].at
        BY <2>11, <3>2 DEF IInv, Registering
      <3>4. u = t => calls[u][i].at # s
        BY <1>1, <3>1, <3>3 DEF s
      <3>5. calls[u][i].at # release'[u]
        BY <2>7, <3>3, <3>4
      <3>6. u # t \/ calls[u][i].at # q
        BY <3>3 DEF q
      <3>7. QED
        BY <2>6, <3>1, <3>2, <3>3, <3>5, <3>6
    <2>12. Registering'
      BY <2>11 DEF IInv, Registering
    <2>13. Closed'
      BY <2>1 DEF IInv, Closed
    <2>14. ASSUME ~strayed'
           PROVE  InPlace'
      <3>1. InPlace /\ ~Stray' /\ OneEach
        BY <2>14, OneSlot DEF Counts, IInv, InPlace
      <3>2. q = None
        BY <1>1, <1>4, <2>2, <3>1 DEF OneEach
      <3>3. table' = table
        BY <2>1, <3>2
      <3>4. ASSUME NEW u \in Threads, NEW i \in DOMAIN calls'[u],
                   calls'[u][i].pc \in {"check", "held"}
            PROVE  table[calls'[u][i].at].owner = u
        <4>1. CASE u = t /\ i = n
          BY <1>4, <2>10, <4>1
        <4>2. CASE ~(u = t /\ i = n)
          BY <2>9, <3>1, <3>4, <4>2 DEF InPlace, Working
        <4>3. QED
          BY <4>1, <4>2
      <3>5. Working'
        BY <3>3, <3>4 DEF Working
      <3>6. \A u \in Threads : Held(u)' = Held(u)
        <4> TAKE u \in Threads
        <4>1. ASSUME NEW i \in Held(u)
              PROVE  i \in DOMAIN calls'[u] /\ calls'[u][i] = calls[u][i]
          <5>1. ~(u = t /\ i = n) /\ i \in DOMAIN calls[u]
            BY <1>1 DEF Held
          <5>2. QED
            BY <1>3, <5>1 DEF Only
        <4>2. ASSUME NEW i \in DOMAIN calls'[u], calls'[u][i].pc = "held"
              PROVE  i \in Held(u)
          <5>1. ~(u = t /\ i = n)
            BY <2>10, <4>2
          <5>2. QED
            BY <2>9, <4>2, <5>1 DEF Held
        <4>3. QED
          BY <4>1, <4>2 DEF Held
      <3>7. \A u \in Threads : \A i \in Held(u) : calls'[u][i].at = calls[u][i].at
        <4> TAKE u \in Threads
        <4> TAKE i \in Held(u)
        <4>1. ~(u = t /\ i = n) /\ i \in DOMAIN calls[u]
          BY <1>1 DEF Held
        <4>2. QED
          BY <1>3, <4>1 DEF Only
      <3>8. OneHeld'
        BY <3>1, <3>6 DEF InPlace, OneHeld
      <3>9. \A u \in Threads : \A r : HeldAt(u, r)' <=> HeldAt(u, r)
        BY <3>6, <3>7 DEF HeldAt
      <3>10. DepthIsOne'
        BY <3>1, <3>3, <3>9 DEF InPlace, DepthIsOne, Slots
      <3>11. RegionHasSlot'
        BY <2>1, <3>1, <3>3 DEF InPlace, RegionHasSlot, Slots
      <3>12. Contents'
        <4> SUFFICES ASSUME NEW u \in Threads, phase[u] = "alive"
                     PROVE  /\ release'[u] # None => Own(u, release[u])'
                            /\ \A i \in DOMAIN calls'[u] :
                                  calls'[u][i].pc = "register" => Own(u, calls[u][i].at)'
          BY <2>1 DEF Contents
        <4>1. \A v \in Threads, r \in Slots : Own(v, r)' <=> Own(v, r)
          BY <2>1, <3>3 DEF Own
        <4>2. CASE u = t
          <5>1. Own(t, s)
            BY <1>1, <2>1, <3>1 DEF InPlace, Contents, s
          <5>2. Own(u, release[u])'
            BY <2>1, <2>7, <3>3, <4>2, <5>1 DEF Own
          <5>3. QED
            BY <2>1, <2>11, <3>1, <3>3, <5>2 DEF InPlace, Contents, Own
        <4>3. CASE u # t
          BY <2>1, <2>7, <2>11, <3>1, <3>3, <4>3 DEF InPlace, Contents, Own
        <4>4. QED
          BY <4>2, <4>3
      <3>13. ~poisoned'
        BY <2>1, <3>1 DEF InPlace
      <3>14. QED
        BY <3>1, <3>5, <3>8, <3>10, <3>11, <3>12, <3>13 DEF InPlace
    <2>15. QED
      BY <2>4, <2>5, <2>8, <2>12, <2>13, <2>14 DEF IInv
  <1>7. QED
    BY <1>5, <1>6

LEMMA ForkChildInv ==
    ASSUME IInv, Counts, NEW t \in Threads, ForkChild(t)
    PROVE  IInv'
  <1>1. TypeOK /\ table \in Tables /\ phase[t] # "gone" /\ t # None
    BY InCallRuns, NoneAssumption DEF ForkChild, IInv, TypeOK, Tables
  <1>2. /\ \A u \in Threads \ {t} : /\ phase'[u] = "gone" /\ calls'[u] = <<>>
                                    /\ release'[u] = None /\ ~open'[u]
        /\ phase'[t] = phase[t] /\ calls'[t] = calls[t]
        /\ release'[t] = release[t] /\ (open'[t] <=> open[t])
        /\ UNCHANGED <<claimed, poisoned, life, enters>>
    BY DEF ForkChild
  <1>3. \A s \in Slots : table'[s] = IF table[s].owner \in {None, t} THEN table[s]
                                     ELSE Cleared(table[s])
    BY DEF ForkChild
  <1>4. \A s \in Slots : /\ Cleared(table[s]) \in [owner : Threads \cup {None}, depth : Nat,
                                                  thread : Threads \X Nat \cup {None},
                                                  region : Threads \cup {None}]
                         /\ Cleared(table[s]).owner = table[s].owner
                         /\ Cleared(table[s]).depth = 0
    <2> TAKE s \in Slots
    <2>1. table[s] \in [owner : Threads \cup {None}, depth : Nat,
                        thread : Threads \X Nat \cup {None}, region : Threads \cup {None}]
      BY <1>1 DEF Tables
    <2>2. QED
      BY <2>1 DEF Cleared
  <1>5. TypeOK'
    <2>1. strayed' \in BOOLEAN
      BY DEF Counts, IInv, TypeOK
    <2>2. table' \in Tables
      BY <1>1, <1>4 DEF ForkChild, Tables
    <2>3. /\ phase' \in [Threads -> {"gone", "alive", "torn"}]
          /\ release' \in [Threads -> Slots \cup {None}]
      BY <1>1 DEF ForkChild, TypeOK
    <2>4. open' \in [Threads -> BOOLEAN]
      <3>1. \A u \in Threads : (u = t /\ open[u]) \in BOOLEAN
        OBVIOUS
      <3>2. QED
        BY <3>1 DEF ForkChild
    <2>5. calls' \in [Threads -> Seq(Calls)]
      <3>1. \A u \in Threads : (IF u = t THEN calls[u] ELSE <<>>) \in Seq(Calls)
        <4>1. calls \in [Threads -> Seq(Calls)]
          BY <1>1 DEF TypeOK
        <4>2. <<>> \in Seq(Calls)
          OBVIOUS
        <4>3. QED
          BY <4>1, <4>2
      <3>2. QED
        BY <3>1 DEF ForkChild
    <2>6. QED
      BY <1>1, <1>2, <2>1, <2>2, <2>3, <2>4, <2>5 DEF TypeOK, Tables
  <1>6. \A s \in Slots : /\ table'[s].owner = table[s].owner
                         /\ table[s].owner = t => table'[s] = table[s]
    BY <1>3, <1>4
  <1>7. CountIsExact'
    <2>1. Owned' = Owned
      BY <1>6 DEF Owned, Slots
    <2>2. QED
      BY <1>2, <2>1 DEF IInv, CountIsExact
  <1>8. release[t] # None => release[t] \in Slots /\ table[release[t]].owner = t
    BY DEF IInv, TypeOK, Present
  <1>9. Present'
    BY <1>1, <1>2, <1>6, <1>8 DEF IInv, Present
  <1>10. \A u \in Threads : \A i \in DOMAIN calls'[u] :
            u = t /\ i \in DOMAIN calls[t] /\ calls[t][i].at \in Slots
    BY <1>1, <1>2, CallType
  <1>11. Registering'
    BY <1>2, <1>6, <1>10 DEF IInv, Registering
  <1>12. Closed'
    BY <1>1, <1>2 DEF Closed
  <1>13. ASSUME ~strayed'
         PROVE  InPlace'
    <2>1. InPlace /\ ~Stray'
      BY <1>13 DEF Counts, IInv
    <2>2. Working'
      BY <1>2, <1>6, <1>10, <2>1 DEF InPlace, Working
    <2>3. Held(t)' = Held(t) /\ \A u \in Threads \ {t} : Held(u)' = {}
      BY <1>2 DEF Held
    <2>4. OneHeld'
      BY <2>1, <2>3 DEF InPlace, OneHeld
    <2>5. DepthIsOne'
      <3> SUFFICES ASSUME NEW r \in Slots
                   PROVE  /\ table'[r].owner = None => table'[r].depth = 0
                          /\ \A u \in Threads : table'[r].owner = u =>
                                table'[r].depth = IF HeldAt(u, r)' THEN 1 ELSE 0
        BY DEF DepthIsOne, Slots
      <3>1. table'[r].owner = None => table'[r].depth = 0
        BY <1>3, <1>6, <2>1 DEF InPlace, DepthIsOne
      <3>2. ASSUME table[r].owner = t
            PROVE  table'[r].depth = IF HeldAt(t, r)' THEN 1 ELSE 0
        <4>1. HeldAt(t, r)' <=> HeldAt(t, r)
          BY <1>2, <2>3 DEF HeldAt
        <4>2. QED
          BY <1>6, <2>1, <3>2, <4>1 DEF InPlace, DepthIsOne
      <3>3. ASSUME NEW u \in Threads \ {t}, table[r].owner = u
            PROVE  table'[r].depth = 0 /\ ~HeldAt(u, r)'
        <4>1. ~HeldAt(u, r)'
          BY <2>3 DEF HeldAt
        <4>2. table[r].owner \notin {None, t}
          BY <3>3, NoneAssumption
        <4>3. QED
          BY <1>3, <1>4, <4>1, <4>2
      <3>4. QED
        BY <1>6, <3>1, <3>2, <3>3
    <2>6. RegionHasSlot'
      BY <1>2, <1>6, <2>1 DEF InPlace, RegionHasSlot, Slots
    <2>7. Contents'
      <3> SUFFICES ASSUME phase[t] = "alive"
                   PROVE  /\ release[t] # None => Own(t, release[t])'
                          /\ \A i \in DOMAIN calls[t] :
                                calls[t][i].pc = "register" => Own(t, calls[t][i].at)'
        BY <1>2 DEF Contents, Own
      <3>1. release[t] # None => Own(t, release[t])'
        BY <1>2, <1>6, <1>8, <2>1 DEF InPlace, Contents, Own
      <3>2. ASSUME NEW i \in DOMAIN calls[t], calls[t][i].pc = "register"
            PROVE  Own(t, calls[t][i].at)'
        <4>1. table[calls[t][i].at].owner = t /\ calls[t][i].at \in Slots
          BY <1>1, <3>2, CallType DEF IInv, Registering
        <4>2. QED
          BY <1>2, <1>6, <2>1, <3>2, <4>1 DEF InPlace, Contents, Own
      <3>3. QED
        BY <3>1, <3>2
    <2>8. ~poisoned'
      BY <1>2, <2>1 DEF InPlace
    <2>9. QED
      BY <2>1, <2>2, <2>4, <2>5, <2>6, <2>7, <2>8 DEF InPlace
  <1>14. QED
    BY <1>5, <1>7, <1>9, <1>11, <1>12, <1>13 DEF IInv

-----------------------------------------------------------------------------
LEMMA InitInv == Init => IInv
  <1> SUFFICES ASSUME Init
               PROVE  IInv
    OBVIOUS
  <1> USE DEF Init
  <1>1. EmptySlot \in [owner : Threads \cup {None}, depth : Nat,
                       thread : Threads \X Nat \cup {None}, region : Threads \cup {None}]
    BY DEF EmptySlot
  <1>2. TypeOK
    <2>1. <<>> \in Seq(Calls)
      OBVIOUS
    <2>2. QED
      BY <1>1, <2>1 DEF TypeOK
  <1>3. \A s \in Slots : table[s].owner = None /\ table[s].depth = 0
    BY DEF EmptySlot
  <1>4. CountIsExact
    <2>1. Owned = {}
      BY <1>3 DEF Owned
    <2>2. QED
      BY <2>1, FS_EmptySet DEF CountIsExact
  <1>5. \A t \in Threads : DOMAIN calls[t] = {}
    OBVIOUS
  <1>6. Present /\ Registering /\ Closed
    BY <1>5 DEF Present, Registering, Closed
  <1>7. ~Stray
    BY <1>3, NoneAssumption DEF Stray
  <1>8. Working /\ OneHeld /\ DepthIsOne /\ RegionHasSlot /\ Contents
    BY <1>3, <1>5, NoneAssumption
       DEF Working, OneHeld, DepthIsOne, Held, HeldAt, RegionHasSlot, Contents
  <1>9. QED
    BY <1>2, <1>4, <1>6, <1>7, <1>8 DEF IInv, InPlace

LEMMA StutterInv == IInv /\ UNCHANGED vars => IInv'
  <1> SUFFICES ASSUME IInv, UNCHANGED vars
               PROVE  IInv'
    OBVIOUS
  <1> USE DEF vars
  <1>1. TypeOK' /\ CountIsExact' /\ Present' /\ Registering' /\ Closed'
    BY DEF IInv, TypeOK, CountIsExact, Owned, Slots, Present, Registering, Closed
  <1>2. Stray' = Stray
    BY DEF Stray, Finds, Probe, Slots
  <1>3. ASSUME ~strayed
        PROVE  (Working /\ OneHeld /\ DepthIsOne /\ RegionHasSlot /\ Contents)'
    <2>1. InPlace
      BY <1>3 DEF IInv
    <2>2. \A t \in Threads : Held(t)' = Held(t)
      BY DEF Held
    <2>3. Working' /\ RegionHasSlot' /\ Contents'
      BY <2>1 DEF InPlace, Working, RegionHasSlot, Contents, Own, Slots
    <2>4. OneHeld'
      BY <2>1, <2>2 DEF InPlace, OneHeld
    <2>5. \A t \in Threads : \A s : HeldAt(t, s)' <=> HeldAt(t, s)
      BY <2>2 DEF HeldAt
    <2>6. DepthIsOne'
      BY <2>1, <2>5 DEF InPlace, DepthIsOne, Slots
    <2>7. QED
      BY <2>3, <2>4, <2>6
  <1>4. QED
    BY <1>1, <1>2, <1>3 DEF IInv, InPlace

LEMMA NextInv == IInv /\ [Next]_vars => IInv'
  <1> SUFFICES ASSUME IInv, [Next]_vars
               PROVE  IInv'
    OBVIOUS
  <1>1. ASSUME NEW t \in Threads, Step(t), Counts
        PROVE  IInv'
    BY <1>1, SpawnInv, TlsDropInv, ExitInv, EnterInv, FindInv, ClaimInv, RegisterInv, CheckInv,
       SetThreadInv, EnterRegionInv, DropInv, LeaveRegionInv, ForkChildInv,
       LeaveUnbalancedInv, LeaveUnguardedInv DEF Step
  <1>2. QED
    BY <1>1, StutterInv DEF Next, Counts

LEMMA Invariance == Spec => []IInv
  BY InitInv, NextInv, PTL DEF Spec

-----------------------------------------------------------------------------
(***************************************************************************)
(* guard.rs: the table, the threads and their calls have the types given,  *)
(* for any number of threads and any table; a slot's depth never wraps.    *)
(***************************************************************************)
THEOREM TypeCorrect == Spec => []TypeOK
  BY Invariance, PTL DEF IInv

(***************************************************************************)
(* CLAIMED counts the slots that have an owner, across exits, handles that *)
(* are reused and forks, and also when a slot has strayed.                 *)
(***************************************************************************)
THEOREM ClaimedIsExact == Spec => []CountIsExact
  BY Invariance, PTL DEF IInv

LEMMA ExclusiveHolds == IInv => Exclusive
  <1> SUFFICES ASSUME IInv, ~strayed
               PROVE  NestedRefused /\ ~poisoned
    BY DEF Exclusive
  <1>1. OneHeld /\ ~poisoned
    BY DEF IInv, InPlace
  <1>2. ASSUME NEW t \in Threads
        PROVE  Cardinality(Held(t)) <= 1
    <2>1. Held(t) = {} \/ \E i : Held(t) = {i}
      BY <1>1 DEF OneHeld
    <2>2. CASE Held(t) = {}
      BY <2>2, FS_EmptySet
    <2>3. CASE \E i : Held(t) = {i}
      <3>1. Cardinality(Held(t)) = 1
        BY <2>3, FS_Singleton
      <3>2. QED
        BY <3>1
    <2>4. QED
      BY <2>1, <2>2, <2>3
  <1>3. QED
    BY <1>1, <1>2 DEF NestedRefused

LEMMA DepthHolds == IInv => DepthIsHeld
  <1> SUFFICES ASSUME IInv, ~strayed, NEW s \in Slots
               PROVE  table[s].depth = IF table[s].owner = None THEN 0
                        ELSE Cardinality({i \in Held(table[s].owner) :
                                             calls[table[s].owner][i].at = s})
    BY DEF DepthIsHeld
  <1>1. OneHeld /\ DepthIsOne
    BY DEF IInv, InPlace
  <1>2. ASSUME NEW t \in Threads, table[s].owner = t
        PROVE  table[s].depth = Cardinality({i \in Held(t) : calls[t][i].at = s})
    <2> DEFINE here == {i \in Held(t) : calls[t][i].at = s}
    <2>1. CASE HeldAt(t, s)
      <3>1. \E i : here = {i}
        BY <1>1, <2>1 DEF HeldAt, OneHeld
      <3>2. Cardinality(here) = 1
        BY <3>1, FS_Singleton
      <3>3. QED
        BY <1>1, <1>2, <2>1, <3>2 DEF DepthIsOne
    <2>2. CASE ~HeldAt(t, s)
      <3>1. here = {}
        BY <2>2 DEF HeldAt
      <3>2. Cardinality(here) = 0
        BY <3>1, FS_EmptySet
      <3>3. QED
        BY <1>1, <1>2, <2>2, <3>2 DEF DepthIsOne
    <2>3. QED
      BY <2>1, <2>2
  <1>3. table[s].owner \in Threads \cup {None}
    BY DEF IInv, TypeOK
  <1>4. QED
    BY <1>1, <1>2, <1>3 DEF DepthIsOne

(***************************************************************************)
(* guard::enter "returns None if this thread is already inside": while     *)
(* slots are where probes find them, a thread is inside at most once, its  *)
(* slot's depth says whether it is, and no release is refused.             *)
(***************************************************************************)
THEOREM GuardIsExclusive == Spec => []Reentrancy
  <1>1. IInv => Reentrancy
    BY ExclusiveHolds, DepthHolds DEF IInv, Reentrancy
  <1>2. QED
    BY <1>1, Invariance, PTL

(***************************************************************************)
(* The row and the region cached in a slot that a thread will release are  *)
(* that thread's, not those of an earlier owner of the slot or the handle. *)
(***************************************************************************)
THEOREM CachedWordsAreOwn == Spec => []ContentsAreOwn
  <1>1. IInv => ContentsAreOwn
    BY DEF IInv, InPlace, Contents, Own, Present, ContentsAreOwn
  <1>2. QED
    BY <1>1, Invariance, PTL

-----------------------------------------------------------------------------
(* RawMap: the ring of slots *)

\* The slots of a table of n, the slot where a key's probes start, and how many
\* slots on from the slot a the slot b is.
Ring(n) == 0..(n - 1)
HomeOf(h, n, k) == h[k] % n
Dist(n, a, b) == IF a <= b THEN b - a ELSE b - a + n

\* The probes of k pass the slot r before they reach p.
Passes(h, n, k, r, p) == Dist(n, HomeOf(h, n, k), r) < Dist(n, HomeOf(h, n, k), p)

LEMMA HomeInRing ==
    ASSUME NEW n \in Nat \ {0}, NEW h, NEW k, h[k] \in Int
    PROVE  HomeOf(h, n, k) \in Ring(n)
BY SMT DEF HomeOf, Ring

LEMMA DistInRing ==
    ASSUME NEW n \in Nat \ {0}, NEW a \in Ring(n), NEW b \in Ring(n)
    PROVE  Dist(n, a, b) \in Ring(n) /\ (Dist(n, a, b) = 0 <=> a = b)
BY SMT DEF Dist, Ring

\* From one slot no two others are equally far.
LEMMA DistInjective ==
    ASSUME NEW n \in Nat \ {0}, NEW a \in Ring(n), NEW b \in Ring(n), NEW c \in Ring(n),
           Dist(n, a, b) = Dist(n, a, c)
    PROVE  b = c
BY SMT DEF Dist, Ring

\* A remainder is the one number under n at a multiple of n from what is divided.
LEMMA RemainderIs ==
    ASSUME NEW n \in Nat \ {0}, NEW x \in Int, NEW q \in Int, NEW a \in 0..(n - 1),
           x = (n * q) + a
    PROVE  x % n = a
<1> DEFINE p == x \div n
           b == x % n
<1>1. x = (n * p) + b /\ p \in Int /\ b \in 0..(n - 1)
    BY SMT
<1> HIDE DEF p, b
<1>2. n * (q - p) = b - a
    BY <1>1
<1>3. CASE q = p
    BY <1>1, <1>2, <1>3 DEF b
<1>4. CASE q > p
    <2>1. n * (q - p) >= n
        BY <1>1, <1>4
    <2> QED
        BY <2>1, <1>1, <1>2
<1>5. CASE q < p
    <2>1. n * (p - q) >= n
        BY <1>1, <1>5
    <2>2. n * (p - q) = a - b
        BY <1>1
    <2> QED
        BY <2>1, <2>2, <1>1
<1> QED
    BY <1>1, <1>3, <1>4, <1>5

LEMMA AddMod ==
    ASSUME NEW n \in Nat \ {0}, NEW x \in Int, NEW m \in 0..(n - 1)
    PROVE  (x + m) % n = IF (x % n) + m < n THEN (x % n) + m ELSE (x % n) + m - n
<1> DEFINE p == x \div n
           b == x % n
<1>1. x = (n * p) + b /\ p \in Int /\ b \in 0..(n - 1)
    BY SMT
<1> HIDE DEF p, b
<1>2. CASE b + m < n
    <2>1. x + m = (n * p) + (b + m) /\ b + m \in 0..(n - 1)
        BY <1>1, <1>2
    <2>2. (x + m) % n = b + m
        <3>1. (x + m) \in Int
            BY <1>1
        <3> QED
            BY <3>1, <2>1, <1>1, RemainderIs
    <2> QED
        BY <2>2, <1>2 DEF b
<1>3. CASE ~ (b + m < n)
    <2> DEFINE q == p + 1
    <2>1. x + m = (n * q) + (b + m - n) /\ b + m - n \in 0..(n - 1) /\ q \in Int
        BY <1>1, <1>3
    <2> HIDE DEF q
    <2>2. (x + m) % n = b + m - n
        <3>1. (x + m) \in Int
            BY <1>1
        <3> QED
            BY <3>1, <2>1, <1>1, RemainderIs
    <2> QED
        BY <2>2, <1>3 DEF b
<1> QED
    BY <1>2, <1>3

LEMMA SubtractMod ==
    ASSUME NEW n \in Nat \ {0}, NEW x \in Int, NEW a \in 0..(n - 1)
    PROVE  (a - x) % n = IF x % n <= a THEN a - (x % n) ELSE a - (x % n) + n
<1> DEFINE p == x \div n
           b == x % n
<1>1. x = (n * p) + b /\ p \in Int /\ b \in 0..(n - 1)
    BY SMT
<1> HIDE DEF p, b
<1>2. CASE b <= a
    <2> DEFINE q == 0 - p
    <2>1. a - x = (n * q) + (a - b) /\ a - b \in 0..(n - 1) /\ q \in Int
        BY <1>1, <1>2
    <2> HIDE DEF q
    <2>2. (a - x) % n = a - b
        <3>1. (a - x) \in Int
            BY <1>1
        <3> QED
            BY <3>1, <2>1, <1>1, RemainderIs
    <2> QED
        BY <2>2, <1>2 DEF b
<1>3. CASE ~ (b <= a)
    <2> DEFINE q == 0 - p - 1
    <2>1. a - x = (n * q) + (a - b + n) /\ a - b + n \in 0..(n - 1) /\ q \in Int
        BY <1>1, <1>3
    <2> HIDE DEF q
    <2>2. (a - x) % n = a - b + n
        <3>1. (a - x) \in Int
            BY <1>1
        <3> QED
            BY <3>1, <2>1, <1>1, RemainderIs
    <2> QED
        BY <2>2, <1>3 DEF b
<1> QED
    BY <1>2, <1>3

\* The slot m probes on is the one at that distance.
LEMMA ProbeDist ==
    ASSUME NEW n \in Nat \ {0}, NEW x \in Int, NEW m \in Ring(n)
    PROVE  (x + m) % n \in Ring(n) /\ Dist(n, x % n, (x + m) % n) = m
<1>1. (x + m) % n = IF (x % n) + m < n THEN (x % n) + m ELSE (x % n) + m - n
    BY AddMod DEF Ring
<1>2. x % n \in Ring(n)
    BY SMT DEF Ring
<1> QED
    BY <1>1, <1>2, SMT DEF Ring, Dist

LEMMA DistProbe ==
    ASSUME NEW n \in Nat \ {0}, NEW x \in Int, NEW p \in Ring(n)
    PROVE  (x + Dist(n, x % n, p)) % n = p
<1> DEFINE m == Dist(n, x % n, p)
<1>1. x % n \in Ring(n)
    BY SMT DEF Ring
<1>2. m \in Ring(n)
    BY <1>1, DistInRing
<1>3. (x + m) % n \in Ring(n) /\ Dist(n, x % n, (x + m) % n) = m
    BY <1>2, ProbeDist
<1> QED
    BY <1>1, <1>3, DistInjective

LEMMA BehindDist ==
    ASSUME NEW n \in Nat \ {0}, NEW x \in Int, NEW a \in Ring(n)
    PROVE  (a - x) % n = Dist(n, x % n, a)
BY SubtractMod DEF Dist, Ring

LEMMA BehindRing ==
    ASSUME NEW n \in Nat \ {0}, NEW x \in Ring(n), NEW a \in Ring(n)
    PROVE  (a - x) % n = Dist(n, x, a)
<1>1. x % n = x /\ x \in Int
    BY SMT DEF Ring
<1> QED
    BY <1>1, BehindDist

LEMMA NextSlot ==
    ASSUME NEW n \in Nat \ {0}, NEW i \in Ring(n)
    PROVE  /\ (i + 1) % n \in Ring(n)
           /\ \A g \in Ring(n) : g # (i + 1) % n => Dist(n, g, (i + 1) % n) = Dist(n, g, i) + 1
<1>1. (i + 1) % n = IF i + 1 = n THEN 0 ELSE i + 1
    BY SMT DEF Ring
<1> QED
    BY <1>1, SMT DEF Ring, Dist

\* Going round: what is between the slots a and c, seen from a slot b on the way.
LEMMA DistSplits ==
    ASSUME NEW n \in Nat \ {0}, NEW a \in Ring(n), NEW b \in Ring(n), NEW c \in Ring(n),
           Dist(n, a, b) <= Dist(n, a, c)
    PROVE  Dist(n, a, c) = Dist(n, a, b) + Dist(n, b, c)
BY SMT DEF Dist, Ring

-----------------------------------------------------------------------------
(* Probes, and where they stop *)

Slot == [key : Keys, value : Values] \cup {NoEntry}
KeyTables(n) == [Ring(n) -> Keys \cup {NoEntry}]

\* The slot p is the first of the probes of k that is empty or its own.
First(h, n, t, k, p) ==
    /\ p \in Ring(n)
    /\ t[p] = NoEntry \/ t[p] = k
    /\ \A r \in Ring(n) : Passes(h, n, k, r, p) => t[r] # NoEntry /\ t[r] # k

LEMMA FirstUnique ==
    ASSUME NEW n \in Nat \ {0}, NEW h \in [Keys -> Int], NEW t, NEW k \in Keys, NEW p, NEW q,
           First(h, n, t, k, p), First(h, n, t, k, q)
    PROVE  p = q
<1> DEFINE home == HomeOf(h, n, k)
<1>1. home \in Ring(n) /\ p \in Ring(n) /\ q \in Ring(n)
    BY HomeInRing DEF First
<1>2. ~ (Dist(n, home, p) < Dist(n, home, q)) /\ ~ (Dist(n, home, q) < Dist(n, home, p))
    BY <1>1 DEF First, Passes
<1>3. Dist(n, home, p) \in Int /\ Dist(n, home, q) \in Int
    BY <1>1, DistInRing DEF Ring
<1>4. Dist(n, home, p) = Dist(n, home, q)
    BY <1>2, <1>3
<1> QED
    BY <1>1, <1>4, DistInjective

\* With a slot empty, the probes stop.
LEMMA FirstExists ==
    ASSUME NEW n \in Nat \ {0}, NEW h \in [Keys -> Int], NEW t, NEW k \in Keys,
           NEW e \in Ring(n), t[e] = NoEntry \/ t[e] = k
    PROVE  \E p : First(h, n, t, k, p)
<1> DEFINE home == HomeOf(h, n, k)
           Free == {r \in Ring(n) : t[r] = NoEntry \/ t[r] = k}
           T == {Dist(n, home, r) : r \in Free}
<1>1. home \in Ring(n)
    BY HomeInRing
<1>2. T \in SUBSET Nat /\ T # {}
    <2>1. \A r \in Free : Dist(n, home, r) \in Nat
        <3>1. \A r \in Ring(n) : Dist(n, home, r) \in Nat
            <4> HIDE DEF home
            <4> QED
                BY <1>1, DistInRing DEF Ring
        <3> QED
            BY <3>1
    <2>2. e \in Free
        OBVIOUS
    <2> QED
        BY <2>1, <2>2
<1>3. PICK m \in T : \A d \in T : m <= d
    <2> HIDE DEF T
    <2> QED
        BY <1>2, LeastNumber
<1>4. PICK p \in Free : m = Dist(n, home, p)
    OBVIOUS
<1>5. \A r \in Ring(n) : Dist(n, home, r) < Dist(n, home, p) => r \notin Free
    <2> SUFFICES ASSUME NEW r \in Free, Dist(n, home, r) < Dist(n, home, p) PROVE FALSE
        OBVIOUS
    <2>1. Dist(n, home, p) <= Dist(n, home, r)
        BY <1>3, <1>4
    <2>2. ASSUME NEW s \in Ring(n) PROVE Dist(n, home, s) \in Int
        <3> HIDE DEF home, Free
        <3>1. Dist(n, home, s) \in Ring(n)
            BY <1>1, DistInRing
        <3> QED
            BY <3>1 DEF Ring
    <2>3. p \in Ring(n) /\ r \in Ring(n)
        OBVIOUS
    <2> HIDE DEF home, Free
    <2> QED
        BY <2>1, <2>2, <2>3
<1> QED
    BY <1>4, <1>5 DEF First, Passes

LEMMA RingCapacity ==
    ASSUME NEW n \in Nat, NEW cells, DOMAIN cells = Ring(n)
    PROVE  Capacity(cells) = n
BY FS_Interval DEF Capacity, Ring

\* What a probe reads is the key at that slot, or that there is none.
LEMMA ProbeReads ==
    ASSUME NEW n \in Nat \ {0}, NEW cells \in [Ring(n) -> Slot], hash \in [Keys -> Int],
           NEW k \in Keys, NEW m \in Ring(n), NEW p, p = ProbeAt(cells, k, m)
    PROVE  /\ p \in Ring(n) /\ Dist(n, HomeOf(hash, n, k), p) = m
           /\ p \in DOMAIN cells
           /\ cells[p] = NoEntry <=> KeysOf(cells)[p] = NoEntry
           /\ cells[p] # NoEntry => cells[p].key = KeysOf(cells)[p]
<1>1. Capacity(cells) = n
    BY RingCapacity
<1>2. p = (hash[k] + m) % n /\ hash[k] \in Int
    BY <1>1 DEF ProbeAt
<1>3. p \in Ring(n) /\ Dist(n, HomeOf(hash, n, k), p) = m
    BY <1>2, ProbeDist DEF HomeOf
<1>4. cells[p] # NoEntry => cells[p].key \in Keys
    BY <1>3 DEF Slot
<1> QED
    BY <1>3, <1>4, NoEntryAssumption DEF KeysOf

LEMMA StopsAtFirst ==
    ASSUME NEW n \in Nat \ {0}, NEW cells \in [Ring(n) -> Slot], hash \in [Keys -> Int],
           NEW k \in Keys, NEW m
    PROVE  m \in Stops(cells, k) <=>
               m \in Ring(n) /\ First(hash, n, KeysOf(cells), k, ProbeAt(cells, k, m))
<1> DEFINE home == HomeOf(hash, n, k)
           t == KeysOf(cells)
           Open(p) == t[p] = NoEntry \/ t[p] = k
<1>1. home \in Ring(n) /\ DOMAIN cells = Ring(n)
    BY HomeInRing
<1>2. ASSUME NEW i \in Ring(n)
      PROVE  LET e == cells[ProbeAt(cells, k, i)]
             IN  (e = NoEntry \/ e.key = k) <=> Open(ProbeAt(cells, k, i))
    <2>1. PICK p : p = ProbeAt(cells, k, i)
        OBVIOUS
    <2>2. /\ cells[p] = NoEntry <=> t[p] = NoEntry
          /\ cells[p] # NoEntry => cells[p].key = t[p]
        BY <2>1, ProbeReads
    <2>3. (cells[p] = NoEntry \/ cells[p].key = k) <=> Open(p)
        <3> HIDE DEF t
        <3>1. CASE cells[p] = NoEntry
            BY <3>1, <2>2
        <3>2. CASE cells[p] # NoEntry
            BY <3>2, <2>2
        <3> QED
            BY <3>1, <3>2
    <2> QED
        BY <2>1, <2>3
<1>3. ASSUME m \in Ring(n)
      PROVE  (\A i \in 0..(m - 1) : ~ Open(ProbeAt(cells, k, i)))
               <=> \A r \in Ring(n) : Passes(hash, n, k, r, ProbeAt(cells, k, m)) => ~ Open(r)
    <2>1. Dist(n, home, ProbeAt(cells, k, m)) = m
        BY <1>3, ProbeReads
    <2>2. ASSUME NEW r \in Ring(n)
          PROVE  ProbeAt(cells, k, Dist(n, home, r)) = r /\ Dist(n, home, r) \in Ring(n)
        BY <1>1, DistProbe, DistInRing, RingCapacity DEF ProbeAt, HomeOf
    <2>3. ASSUME NEW i \in 0..(m - 1)
          PROVE  /\ ProbeAt(cells, k, i) \in Ring(n)
                 /\ Dist(n, home, ProbeAt(cells, k, i)) = i
        <3>1. i \in Ring(n)
            BY <1>3 DEF Ring
        <3> QED
            BY <3>1, ProbeReads
    <2> HIDE DEF Open, home, t
    <2>4. ASSUME \A i \in 0..(m - 1) : ~ Open(ProbeAt(cells, k, i)), NEW r \in Ring(n),
                 Dist(n, home, r) < m
          PROVE  ~ Open(r)
        <3>1. Dist(n, home, r) \in 0..(m - 1)
            BY <2>2, <2>4, <1>3 DEF Ring
        <3> QED
            BY <3>1, <2>2, <2>4
    <2>5. ASSUME \A r \in Ring(n) : Dist(n, home, r) < m => ~ Open(r), NEW i \in 0..(m - 1)
          PROVE  ~ Open(ProbeAt(cells, k, i))
        BY <2>3, <2>5, <1>3 DEF Ring
    <2>6. \A r : Passes(hash, n, k, r, ProbeAt(cells, k, m)) <=> Dist(n, home, r) < m
        BY <2>1 DEF Passes, home
    <2> QED
        BY <2>4, <2>5, <2>6
<1>4. \A p : First(hash, n, t, k, p) <=>
              p \in Ring(n) /\ Open(p) /\ \A r \in Ring(n) : Passes(hash, n, k, r, p) => ~ Open(r)
    BY DEF First
<1>5. m \in Ring(n) => ProbeAt(cells, k, m) \in Ring(n) /\ \A i \in 0..(m - 1) : i \in Ring(n)
    <2>1. m \in Ring(n) => ProbeAt(cells, k, m) \in Ring(n)
        BY ProbeReads
    <2>2. m \in Ring(n) => \A i \in 0..(m - 1) : i \in Ring(n)
        BY SMT DEF Ring
    <2> QED
        BY <2>1, <2>2
<1>6. m \in Stops(cells, k) <=>
        /\ m \in Ring(n)
        /\ Open(ProbeAt(cells, k, m))
        /\ \A i \in 0..(m - 1) : ~ Open(ProbeAt(cells, k, i))
    <2> HIDE DEF Open
    <2> QED
        BY <1>1, <1>2, <1>5 DEF Stops
<1> HIDE DEF Open, t
<1> QED
    BY <1>3, <1>4, <1>5, <1>6 DEF t

LEMMA StopIsFirst ==
    ASSUME NEW n \in Nat \ {0}, NEW cells \in [Ring(n) -> Slot], hash \in [Keys -> Int],
           NEW k \in Keys, NEW p, First(hash, n, KeysOf(cells), k, p)
    PROVE  Stops(cells, k) # {} /\ Stop(cells, k) = p
<1> DEFINE m == Dist(n, HomeOf(hash, n, k), p)
<1>1. HomeOf(hash, n, k) \in Ring(n) /\ p \in Ring(n)
    BY HomeInRing DEF First
<1>2. m \in Ring(n) /\ ProbeAt(cells, k, m) = p
    BY <1>1, DistInRing, DistProbe, RingCapacity DEF ProbeAt, HomeOf
<1> HIDE DEF m
<1>3. m \in Stops(cells, k)
    BY <1>2, StopsAtFirst
<1>4. \A i \in Stops(cells, k) : ProbeAt(cells, k, i) = p
    BY StopsAtFirst, FirstUnique
<1> QED
    BY <1>3, <1>4 DEF Stop

LEMMA StopsSomewhere ==
    ASSUME NEW n \in Nat \ {0}, NEW cells \in [Ring(n) -> Slot], hash \in [Keys -> Int],
           NEW k \in Keys, Stops(cells, k) # {}
    PROVE  First(hash, n, KeysOf(cells), k, Stop(cells, k))
<1>1. PICK m \in Stops(cells, k) : TRUE
    OBVIOUS
<1>2. First(hash, n, KeysOf(cells), k, ProbeAt(cells, k, m))
    BY StopsAtFirst
<1> QED
    BY <1>2, StopIsFirst

-----------------------------------------------------------------------------
(* Layouts *)

Before(s, j, k) == \E a, b \in 1..Len(s) : a < b /\ s[a] = j /\ s[b] = k
Distinct(s) == \A a, b \in 1..Len(s) : s[a] = s[b] => a = b

Filled(n, t) == {p \in Ring(n) : t[p] # NoEntry}
OneSlotEach(n, t) == \A p, q \in Filled(n, t) : t[p] = t[q] => p = q

\* The keys in the table are those of the sequence.
Lists(n, t, s) ==
    /\ \A p \in Filled(n, t) : \E a \in 1..Len(s) : s[a] = t[p]
    /\ \A a \in 1..Len(s) : \E p \in Ring(n) : t[p] = s[a]

\* First come, first served: what a key's probes pass before they reach its slot
\* are slots of keys that were there before it.
Arranged(h, n, t, s) ==
    \A p \in Filled(n, t) : \A r \in Ring(n) :
        Passes(h, n, t[p], r, p) => t[r] # NoEntry /\ Before(s, t[r], t[p])

LEMMA NeverBeforeItself ==
    ASSUME NEW s \in Seq(Keys), Distinct(s), NEW k
    PROVE  ~ Before(s, k, k)
BY DEF Distinct, Before

LEMMA ArrangedFinds ==
    ASSUME NEW n \in Nat \ {0}, NEW h \in [Keys -> Int], NEW t \in KeyTables(n),
           NEW s \in Seq(Keys), Distinct(s), Arranged(h, n, t, s),
           NEW p \in Filled(n, t)
    PROVE  First(h, n, t, t[p], p)
BY NeverBeforeItself DEF First, Arranged, Filled

LEMMA ArrangedOneSlotEach ==
    ASSUME NEW n \in Nat \ {0}, NEW h \in [Keys -> Int], NEW t \in KeyTables(n),
           NEW s \in Seq(Keys), Distinct(s), Arranged(h, n, t, s)
    PROVE  OneSlotEach(n, t)
<1> SUFFICES ASSUME NEW p \in Filled(n, t), NEW q \in Filled(n, t), t[p] = t[q]
             PROVE  p = q
    BY DEF OneSlotEach
<1>1. t[p] \in Keys
    BY DEF KeyTables, Filled
<1>2. First(h, n, t, t[p], p) /\ First(h, n, t, t[p], q)
    BY ArrangedFinds
<1> QED
    BY <1>1, <1>2, FirstUnique

\* As many slots are filled as keys are listed.
LEMMA FilledCount ==
    ASSUME NEW n \in Nat, NEW t, NEW s \in Seq(Keys), Distinct(s), Lists(n, t, s),
           OneSlotEach(n, t), NoEntry \notin Keys
    PROVE  IsFiniteSet(Filled(n, t)) /\ Cardinality(Filled(n, t)) = Len(s)
<1> DEFINE L == 1..Len(s)
           F == Filled(n, t)
           f == [a \in L |-> CHOOSE p \in Ring(n) : t[p] = s[a]]
<1>1. Len(s) \in Nat /\ \A a \in L : s[a] \in Keys
    OBVIOUS
<1>2. \A a \in L : f[a] \in F /\ t[f[a]] = s[a]
    BY <1>1 DEF Lists, Filled
<1>3. \A a, b \in L : f[a] = f[b] => a = b
    <2> HIDE DEF f
    <2> QED
        BY <1>2 DEF Distinct
<1>4. \A p \in F : \E a \in L : f[a] = p
    <2> SUFFICES ASSUME NEW p \in F PROVE \E a \in L : f[a] = p
        OBVIOUS
    <2>1. PICK a \in L : s[a] = t[p]
        BY DEF Lists
    <2> HIDE DEF f
    <2> QED
        BY <2>1, <1>2 DEF OneSlotEach
<1>5. f \in [L -> F]
    BY <1>2
<1> HIDE DEF f, F, L
<1>6. f \in Bijection(L, F)
    BY <1>3, <1>4, <1>5 DEF Bijection, Injection, Surjection, IsInjective
<1>7. ExistsBijection(L, F)
    BY <1>6 DEF ExistsBijection
<1>8. IsFiniteSet(L) /\ Cardinality(L) = Len(s)
    <2> DEFINE m == Len(s)
    <2>1. m \in Nat
        BY <1>1
    <2> HIDE DEF m
    <2>2. IsFiniteSet(1..m) /\ Cardinality(1..m) = m
        BY <2>1, FS_Interval
    <2> QED
        BY <2>2 DEF L, m
<1> QED
    BY <1>7, <1>8, FS_Bijection DEF F

LEMMA SpaceLeft ==
    ASSUME NEW n \in Nat, NEW t, NEW s \in Seq(Keys), Distinct(s), Lists(n, t, s),
           OneSlotEach(n, t), NoEntry \notin Keys, Len(s) < n
    PROVE  \E e \in Ring(n) : t[e] = NoEntry
<1> SUFFICES ASSUME Filled(n, t) = Ring(n) PROVE FALSE
    BY DEF Filled
<1>1. Cardinality(Ring(n)) = n
    BY FS_Interval DEF Ring
<1>2. Len(s) \in Nat
    OBVIOUS
<1> QED
    BY <1>1, <1>2, FilledCount

LEMMA AppendBefore ==
    ASSUME NEW s \in Seq(Keys), NEW k \in Keys, NEW i, NEW j
    PROVE  /\ Append(s, k) \in Seq(Keys) /\ Len(Append(s, k)) = Len(s) + 1
           /\ Before(s, i, j) => Before(Append(s, k), i, j)
           /\ (\E a \in 1..Len(s) : s[a] = i) => Before(Append(s, k), i, k)
<1> DEFINE u == Append(s, k)
<1>1. /\ u \in Seq(Keys) /\ Len(u) = Len(s) + 1 /\ u[Len(s) + 1] = k
      /\ \A a \in 1..Len(s) : u[a] = s[a]
    BY AppendProperties
<1>2. Len(s) \in Nat
    OBVIOUS
<1> HIDE DEF u
<1>3. ASSUME Before(s, i, j) PROVE Before(u, i, j)
    <2>1. PICK a \in 1..Len(s), b \in 1..Len(s) : a < b /\ s[a] = i /\ s[b] = j
        BY <1>3 DEF Before
    <2>2. a \in 1..Len(u) /\ b \in 1..Len(u)
        BY <1>1, <1>2
    <2> QED
        BY <2>1, <2>2, <1>1 DEF Before
<1>4. ASSUME NEW a \in 1..Len(s), s[a] = i PROVE Before(u, i, k)
    <2>1. a \in 1..Len(u) /\ Len(s) + 1 \in 1..Len(u) /\ a < Len(s) + 1
        BY <1>1, <1>2
    <2> QED
        BY <2>1, <1>1, <1>4 DEF Before
<1> QED
    BY <1>1, <1>3, <1>4 DEF u

LEMMA AppendDistinct ==
    ASSUME NEW s \in Seq(Keys), NEW k \in Keys, Distinct(s),
           \A a \in 1..Len(s) : s[a] # k
    PROVE  Distinct(Append(s, k))
BY AppendProperties DEF Distinct

\* A new key, stored where its probes stop, comes last.
LEMMA StoreArranged ==
    ASSUME NEW n \in Nat \ {0}, NEW h \in [Keys -> Int], NEW t \in KeyTables(n),
           NEW s \in Seq(Keys), NEW k \in Keys, NEW q, NoEntry \notin Keys,
           Arranged(h, n, t, s), Lists(n, t, s),
           First(h, n, t, k, q), t[q] = NoEntry
    PROVE  /\ Arranged(h, n, [t EXCEPT ![q] = k], Append(s, k))
           /\ Lists(n, [t EXCEPT ![q] = k], Append(s, k))
           /\ [t EXCEPT ![q] = k] \in KeyTables(n)
<1> DEFINE w == [t EXCEPT ![q] = k]
           u == Append(s, k)
<1>1. /\ q \in Ring(n) /\ w \in KeyTables(n) /\ w[q] = k
      /\ \A p \in Ring(n) : p # q => w[p] = t[p]
    BY DEF First, KeyTables
<1>2. /\ u \in Seq(Keys) /\ Len(u) = Len(s) + 1 /\ u[Len(s) + 1] = k
      /\ \A a \in 1..Len(s) : u[a] = s[a]
    BY AppendProperties
<1>3. \A i, j : Before(s, i, j) => Before(u, i, j)
    BY AppendBefore
<1>4. \A i : (\E a \in 1..Len(s) : s[a] = i) => Before(u, i, k)
    BY AppendBefore
<1>5. Len(s) \in Nat
    OBVIOUS
<1> HIDE DEF w, u
<1>6. ASSUME NEW p \in Filled(n, w), NEW r \in Ring(n), Passes(h, n, w[p], r, p)
      PROVE  w[r] # NoEntry /\ Before(u, w[r], w[p])
    <2>1. CASE p = q
        <3>1. t[r] # NoEntry /\ t[r] # k
            BY <1>1, <1>6, <2>1 DEF First
        <3>2. r # q
            BY <3>1
        <3>3. \E a \in 1..Len(s) : s[a] = t[r]
            BY <3>1 DEF Lists, Filled
        <3> QED
            BY <2>1, <3>1, <3>2, <3>3, <1>1, <1>4
    <2>2. CASE p # q
        <3>1. p \in Filled(n, t) /\ w[p] = t[p]
            BY <2>2, <1>1 DEF Filled
        <3>2. t[r] # NoEntry /\ Before(s, t[r], t[p])
            BY <3>1, <1>6 DEF Arranged
        <3>3. r # q
            BY <3>2
        <3> QED
            BY <3>1, <3>2, <3>3, <1>1, <1>3
    <2> QED
        BY <2>1, <2>2
<1>7. ASSUME NEW p \in Filled(n, w) PROVE \E a \in 1..Len(u) : u[a] = w[p]
    <2>1. CASE p = q
        BY <2>1, <1>1, <1>2, <1>5
    <2>2. CASE p # q
        <3>1. PICK a \in 1..Len(s) : s[a] = t[p]
            BY <2>2, <1>1 DEF Filled, Lists
        <3>2. a \in 1..Len(u) /\ u[a] = w[p]
            BY <3>1, <2>2, <1>1, <1>2, <1>5 DEF Filled
        <3> QED
            BY <3>2
    <2> QED
        BY <2>1, <2>2
<1>8. ASSUME NEW a \in 1..Len(u) PROVE \E p \in Ring(n) : w[p] = u[a]
    <2>1. CASE a = Len(s) + 1
        BY <2>1, <1>1, <1>2
    <2>2. CASE a # Len(s) + 1
        <3>1. a \in 1..Len(s)
            BY <2>2, <1>2, <1>5
        <3>2. PICK p \in Ring(n) : t[p] = s[a]
            BY <3>1 DEF Lists
        <3>3. s[a] \in Keys
            BY <3>1
        <3>4. p # q
            BY <3>2, <3>3
        <3> QED
            BY <3>1, <3>2, <3>4, <1>1, <1>2
    <2> QED
        BY <2>1, <2>2
<1>9. Arranged(h, n, w, u)
    BY <1>6 DEF Arranged
<1>10. Lists(n, w, u)
    BY <1>7, <1>8 DEF Lists
<1> QED
    BY <1>1, <1>9, <1>10 DEF w, u

\* What served first come first served has one layout: the keys, in their order,
\* decide every slot.
LEMMA OneLayout ==
    ASSUME NEW n \in Nat \ {0}, NEW h \in [Keys -> Int], NEW s \in Seq(Keys), Distinct(s),
           NEW t \in KeyTables(n), NEW w \in KeyTables(n), NoEntry \notin Keys,
           Arranged(h, n, t, s), Lists(n, t, s), Arranged(h, n, w, s), Lists(n, w, s)
    PROVE  t = w
<1> DEFINE Apart == {a \in 1..Len(s) : \E p \in Ring(n) : t[p] = s[a] /\ w[p] # s[a]}
<1>1. OneSlotEach(n, t) /\ OneSlotEach(n, w)
    BY ArrangedOneSlotEach
<1>2. Apart = {}
    <2> SUFFICES ASSUME Apart # {} PROVE FALSE
        OBVIOUS
    <2>1. PICK a \in Apart : \A b \in Apart : a <= b
        <3>1. Apart \in SUBSET Nat
            OBVIOUS
        <3> HIDE DEF Apart
        <3> QED
            BY <3>1, LeastNumber
    <2>2. PICK p \in Ring(n) : t[p] = s[a] /\ w[p] # s[a]
        OBVIOUS
    <2>3. PICK q \in Ring(n) : w[q] = s[a]
        BY DEF Lists
    <2> DEFINE k == s[a]
    <2>4. a \in 1..Len(s) /\ k \in Keys /\ p \in Filled(n, t) /\ q \in Filled(n, w)
        BY <2>2, <2>3 DEF Filled
    <2>5. \A b \in 1..Len(s) : b < a => \A r \in Ring(n) : t[r] = s[b] => w[r] = s[b]
        <3> SUFFICES ASSUME NEW b \in 1..Len(s), b < a, NEW r \in Ring(n), t[r] = s[b], w[r] # s[b]
                     PROVE  FALSE
            OBVIOUS
        <3>1. b \in Apart
            OBVIOUS
        <3> QED
            BY <3>1, <2>1
    <2> HIDE DEF Apart
    <2>6. ASSUME Dist(n, HomeOf(h, n, k), p) < Dist(n, HomeOf(h, n, k), q) PROVE FALSE
        <3>1. w[p] # NoEntry /\ Before(s, w[p], k)
            BY <2>2, <2>3, <2>4, <2>6 DEF Arranged, Passes
        <3>2. PICK b \in 1..Len(s), c \in 1..Len(s) : b < c /\ s[b] = w[p] /\ s[c] = k
            BY <3>1 DEF Before
        <3>3. c = a
            BY <3>2, <2>4 DEF Distinct
        <3>4. PICK r \in Ring(n) : t[r] = s[b]
            BY DEF Lists
        <3>5. w[r] = s[b]
            BY <3>2, <3>3, <3>4, <2>5
        <3>6. r \in Filled(n, w) /\ p \in Filled(n, w)
            BY <3>1, <3>2, <3>5 DEF Filled
        <3>7. r = p
            BY <3>2, <3>5, <3>6, <1>1 DEF OneSlotEach
        <3>8. s[b] = s[a]
            BY <3>4, <3>7, <2>2
        <3> QED
            BY <3>2, <3>3, <3>8, <2>4 DEF Distinct
    <2>7. ASSUME Dist(n, HomeOf(h, n, k), q) < Dist(n, HomeOf(h, n, k), p) PROVE FALSE
        <3>1. t[q] # NoEntry /\ Before(s, t[q], k)
            BY <2>2, <2>3, <2>4, <2>7 DEF Arranged, Passes
        <3>2. PICK b \in 1..Len(s), c \in 1..Len(s) : b < c /\ s[b] = t[q] /\ s[c] = k
            BY <3>1 DEF Before
        <3>3. c = a
            BY <3>2, <2>4 DEF Distinct
        <3>4. w[q] = s[b]
            BY <3>2, <3>3, <2>5
        <3>5. s[b] = s[a]
            BY <3>4, <2>3
        <3> QED
            BY <3>2, <3>3, <3>5, <2>4 DEF Distinct
    <2>8. HomeOf(h, n, k) \in Ring(n)
        BY <2>4, HomeInRing
    <2>9. Dist(n, HomeOf(h, n, k), p) \in Int /\ Dist(n, HomeOf(h, n, k), q) \in Int
        <3>1. \A i, j \in Ring(n) : Dist(n, i, j) \in Int
            BY SMT DEF Dist, Ring
        <3> QED
            BY <3>1, <2>8
    <2>10. Dist(n, HomeOf(h, n, k), p) = Dist(n, HomeOf(h, n, k), q)
        BY <2>6, <2>7, <2>9
    <2>11. p = q
        BY <2>8, <2>10, DistInjective
    <2> QED
        BY <2>11, <2>2, <2>3
<1> HIDE DEF Apart
<1>3. ASSUME NEW p \in Ring(n) PROVE t[p] = w[p]
    <2>1. CASE t[p] # NoEntry
        <3>1. PICK a \in 1..Len(s) : s[a] = t[p]
            BY <2>1 DEF Lists, Filled
        <3> QED
            BY <3>1, <1>2 DEF Apart
    <2>2. CASE t[p] = NoEntry /\ w[p] # NoEntry
        <3>1. PICK a \in 1..Len(s) : s[a] = w[p]
            BY <2>2 DEF Lists, Filled
        <3>2. PICK r \in Ring(n) : t[r] = s[a]
            BY DEF Lists
        <3>3. w[r] = s[a]
            BY <3>2, <1>2 DEF Apart
        <3>4. r = p
            BY <3>1, <3>3, <2>2, <1>1 DEF OneSlotEach, Filled
        <3> QED
            BY <3>1, <3>2, <3>4, <2>2
    <2> QED
        BY <2>1, <2>2
<1> QED
    BY <1>3 DEF KeyTables

-----------------------------------------------------------------------------
(* Closing a gap *)

\* All is in order but for the slot gap, which is empty and which entries beyond
\* the slot index may have been probed past.
ArrangedBut(h, n, t, s, gap, index) ==
    \A p \in Filled(n, t) : \A r \in Ring(n) :
        Passes(h, n, t[p], r, p) =>
           \/ t[r] # NoEntry /\ Before(s, t[r], t[p])
           \/ r = gap /\ Dist(n, gap, index) < Dist(n, gap, p)

\* The cluster goes on from the gap to the slot index.
Run(n, t, gap, index) ==
    \A r \in Ring(n) : r # gap /\ Dist(n, gap, r) <= Dist(n, gap, index) => t[r] # NoEntry

\* The slots walked so far, of which left says how many there are.
Walked(n, t, gap, index, left) ==
    \A r \in Ring(n) : Dist(n, r, index) <= n - left => r = gap \/ t[r] # NoEntry

LEMMA OnTheWay ==
    ASSUME NEW n \in Nat \ {0}, NEW a \in Ring(n), NEW b \in Ring(n), NEW c \in Ring(n),
           NEW d \in Ring(n), Dist(n, a, b) < Dist(n, a, d), Dist(n, b, c) < Dist(n, b, d)
    PROVE  Dist(n, a, c) < Dist(n, a, d)
BY SMT DEF Dist, Ring

LEMMA GapOnTheWay ==
    ASSUME NEW n \in Nat \ {0}, NEW home \in Ring(n), NEW gap \in Ring(n), NEW e \in Ring(n),
           gap # e
    PROVE  Dist(n, gap, e) <= Dist(n, home, e) <=> Dist(n, home, gap) < Dist(n, home, e)
BY SMT DEF Dist, Ring

LEMMA DistNumbers ==
    ASSUME NEW n \in Nat \ {0}
    PROVE  \A a, b \in Ring(n) : Dist(n, a, b) \in Ring(n) /\ Dist(n, a, b) \in Int
BY SMT DEF Dist, Ring

LEMMA ArrangedButOneSlotEach ==
    ASSUME NEW n \in Nat \ {0}, NEW h \in [Keys -> Int], NEW t \in KeyTables(n),
           NEW s \in Seq(Keys), Distinct(s), NEW gap \in Ring(n), NEW index,
           t[gap] = NoEntry, ArrangedBut(h, n, t, s, gap, index)
    PROVE  OneSlotEach(n, t)
<1> SUFFICES ASSUME NEW p \in Filled(n, t), NEW q \in Filled(n, t), t[p] = t[q]
             PROVE  p = q
    BY DEF OneSlotEach
<1>1. t[p] \in Keys /\ p \in Ring(n) /\ q \in Ring(n) /\ p # gap /\ q # gap
    BY DEF KeyTables, Filled
<1>2. ~ Passes(h, n, t[p], p, q) /\ ~ Passes(h, n, t[p], q, p)
    BY <1>1, NeverBeforeItself DEF ArrangedBut
<1>3. HomeOf(h, n, t[p]) \in Ring(n)
    BY <1>1, HomeInRing
<1>4. Dist(n, HomeOf(h, n, t[p]), p) \in Int /\ Dist(n, HomeOf(h, n, t[p]), q) \in Int
    BY <1>1, <1>3, DistNumbers
<1>5. Dist(n, HomeOf(h, n, t[p]), p) = Dist(n, HomeOf(h, n, t[p]), q)
    BY <1>2, <1>4 DEF Passes
<1> QED
    BY <1>1, <1>3, <1>5, DistInjective

\* The cluster has ended: nobody was probed past the gap.
LEMMA GapCloses ==
    ASSUME NEW n \in Nat \ {0}, NEW h \in [Keys -> Int], NEW t \in KeyTables(n),
           NEW s \in Seq(Keys), NEW gap \in Ring(n), NEW index \in Ring(n),
           ArrangedBut(h, n, t, s, gap, index),
           t[(index + 1) % n] = NoEntry, (index + 1) % n # gap
    PROVE  Arranged(h, n, t, s)
<1> DEFINE e == (index + 1) % n
<1>1. e \in Ring(n) /\ Dist(n, gap, e) = Dist(n, gap, index) + 1 /\ t[e] = NoEntry /\ e # gap
    BY NextSlot
<1> HIDE DEF e
<1>2. ASSUME NEW p \in Filled(n, t), Passes(h, n, t[p], gap, p),
             Dist(n, gap, index) < Dist(n, gap, p)
      PROVE  FALSE
    <2> DEFINE home == HomeOf(h, n, t[p])
    <2>1. p \in Ring(n) /\ p # e /\ home \in Ring(n)
        BY <1>1, HomeInRing DEF Filled, KeyTables
    <2>2. Dist(n, gap, e) # Dist(n, gap, p)
        BY <1>1, <2>1, DistInjective
    <2> HIDE DEF home
    <2>3. Dist(n, gap, e) < Dist(n, gap, p)
        BY <1>1, <1>2, <2>1, <2>2, DistNumbers
    <2>4. Dist(n, home, e) < Dist(n, home, p)
        BY <1>1, <1>2, <2>1, <2>3, OnTheWay DEF Passes, home
    <2> QED
        BY <2>4, <1>1 DEF ArrangedBut, Passes, home
<1> QED
    BY <1>2 DEF ArrangedBut, Arranged

\* The next entry stays: its home is beyond the gap.
LEMMA GapPassed ==
    ASSUME NEW n \in Nat \ {0}, NEW h \in [Keys -> Int], NEW t \in KeyTables(n),
           NEW s \in Seq(Keys), NEW gap \in Ring(n), NEW index \in Ring(n),
           ArrangedBut(h, n, t, s, gap, index), Run(n, t, gap, index),
           NEW e, e = (index + 1) % n, t[e] # NoEntry, e # gap,
           Dist(n, HomeOf(h, n, t[e]), e) < Dist(n, gap, e)
    PROVE  ArrangedBut(h, n, t, s, gap, e) /\ Run(n, t, gap, e)
<1>1. e \in Ring(n) /\ Dist(n, gap, e) = Dist(n, gap, index) + 1
    BY NextSlot
<1>2. ASSUME NEW p \in Filled(n, t), Passes(h, n, t[p], gap, p),
             Dist(n, gap, index) < Dist(n, gap, p)
      PROVE  Dist(n, gap, e) < Dist(n, gap, p)
    <2>1. p \in Ring(n) /\ t[p] \in Keys /\ HomeOf(h, n, t[p]) \in Ring(n)
        BY HomeInRing DEF Filled, KeyTables
    <2>2. p # e
        <3> SUFFICES ASSUME p = e PROVE FALSE
            OBVIOUS
        <3>1. Dist(n, gap, e) <= Dist(n, HomeOf(h, n, t[e]), e)
            BY <1>1, <1>2, <2>1, GapOnTheWay DEF Passes
        <3>2. Dist(n, gap, e) \in Int /\ Dist(n, HomeOf(h, n, t[e]), e) \in Int
            BY <1>1, <2>1, DistNumbers
        <3> QED
            BY <3>1, <3>2
    <2>3. Dist(n, gap, e) # Dist(n, gap, p)
        BY <1>1, <2>1, <2>2, DistInjective
    <2>4. Dist(n, gap, index) \in Int /\ Dist(n, gap, p) \in Int
        BY <2>1, DistNumbers
    <2> QED
        BY <1>1, <1>2, <2>3, <2>4
<1>3. ArrangedBut(h, n, t, s, gap, e)
    BY <1>2 DEF ArrangedBut
<1>4. ASSUME NEW r \in Ring(n), r # gap, Dist(n, gap, r) <= Dist(n, gap, e)
      PROVE  t[r] # NoEntry
    <2>1. CASE r = e
        BY <2>1
    <2>2. CASE r # e
        <3>1. Dist(n, gap, r) # Dist(n, gap, e)
            BY <1>1, <2>2, DistInjective
        <3>2. Dist(n, gap, r) <= Dist(n, gap, index)
            <4>1. Dist(n, gap, index) \in Int /\ Dist(n, gap, r) \in Int
                BY DistNumbers
            <4> QED
                BY <1>1, <1>4, <3>1, <4>1
        <3> QED
            BY <3>2, <1>4 DEF Run
    <2> QED
        BY <2>1, <2>2
<1> QED
    BY <1>3, <1>4 DEF Run

\* The next entry moves into the gap, which its probes pass, and leaves one behind.
LEMMA GapMoves ==
    ASSUME NEW n \in Nat \ {0}, NEW h \in [Keys -> Int], NEW t \in KeyTables(n),
           NEW s \in Seq(Keys), NEW gap \in Ring(n), NEW index \in Ring(n),
           ArrangedBut(h, n, t, s, gap, index), t[gap] = NoEntry, NoEntry \notin Keys,
           Lists(n, t, s),
           NEW e, e = (index + 1) % n, t[e] # NoEntry, e # gap,
           Dist(n, gap, e) <= Dist(n, HomeOf(h, n, t[e]), e),
           NEW w \in KeyTables(n), w[e] = NoEntry, w[gap] = t[e],
           \A p \in Ring(n) : p # gap /\ p # e => w[p] = t[p]
    PROVE  /\ w \in KeyTables(n) /\ w[e] = NoEntry
           /\ ArrangedBut(h, n, w, s, e, e) /\ Run(n, w, e, e)
           /\ Lists(n, w, s)
<1> DEFINE x == t[e]
<1>1. e \in Ring(n) /\ Dist(n, gap, e) = Dist(n, gap, index) + 1
    BY NextSlot
<1>2. /\ w \in KeyTables(n) /\ w[e] = NoEntry /\ w[gap] = x /\ x \in Keys
      /\ \A r \in Ring(n) : r # gap /\ r # e => w[r] = t[r]
    BY <1>1 DEF KeyTables
<1>3. HomeOf(h, n, x) \in Ring(n) /\ e \in Filled(n, t)
    BY <1>1, <1>2, HomeInRing DEF Filled
<1>4. Dist(n, HomeOf(h, n, x), gap) < Dist(n, HomeOf(h, n, x), e)
    BY <1>1, <1>3, GapOnTheWay
<1> HIDE DEF x
<1>5. ASSUME NEW r \in Ring(n), Passes(h, n, x, r, gap)
      PROVE  w[r] # NoEntry /\ Before(s, w[r], x)
    <2> DEFINE home == HomeOf(h, n, x)
    <2>0. /\ Dist(n, home, r) \in Int /\ Dist(n, home, gap) \in Int /\ Dist(n, home, e) \in Int
          /\ Dist(n, home, r) < Dist(n, home, gap) /\ Dist(n, home, gap) < Dist(n, home, e)
        BY <1>1, <1>3, <1>4, <1>5, DistNumbers DEF Passes
    <2> HIDE DEF home
    <2>1. Passes(h, n, x, r, e)
        <3>1. Dist(n, home, r) < Dist(n, home, e)
            BY <2>0
        <3> QED
            BY <3>1 DEF Passes, home
    <2>2. r # gap /\ r # e
        BY <2>0
    <2>3. t[r] # NoEntry /\ Before(s, t[r], x)
        BY <2>1, <2>2, <1>3 DEF ArrangedBut, x
    <2> QED
        BY <2>2, <2>3, <1>2
<1>6. ASSUME NEW p \in Ring(n), p # gap, p # e, t[p] # NoEntry,
             Passes(h, n, t[p], gap, p)
      PROVE  Before(s, x, t[p])
    <2>1. p \in Filled(n, t) /\ HomeOf(h, n, t[p]) \in Ring(n)
        BY <1>6, HomeInRing DEF Filled, KeyTables
    <2>2. Dist(n, gap, index) < Dist(n, gap, p)
        BY <2>1, <1>6 DEF ArrangedBut
    <2>3. Dist(n, gap, e) # Dist(n, gap, p)
        BY <1>1, <1>6, DistInjective
    <2>4. Dist(n, gap, e) < Dist(n, gap, p)
        <3>1. Dist(n, gap, index) \in Int /\ Dist(n, gap, p) \in Int
            BY DistNumbers
        <3> QED
            BY <1>1, <2>2, <2>3, <3>1
    <2>5. Passes(h, n, t[p], e, p)
        BY <1>1, <1>6, <2>1, <2>4, OnTheWay DEF Passes
    <2> QED
        BY <2>1, <2>5, <1>1 DEF ArrangedBut, x
<1>7. ASSUME NEW p \in Filled(n, w), NEW r \in Ring(n), Passes(h, n, w[p], r, p)
      PROVE  \/ w[r] # NoEntry /\ Before(s, w[r], w[p])
             \/ r = e /\ Dist(n, e, e) < Dist(n, e, p)
    <2>1. p \in Ring(n) /\ p # e
        BY <1>2 DEF Filled
    <2>2. CASE p = gap
        BY <2>2, <1>2, <1>5, <1>7
    <2>3. CASE p # gap
        <3>1. w[p] = t[p] /\ t[p] # NoEntry /\ p \in Filled(n, t)
            BY <2>1, <2>3, <1>2 DEF Filled
        <3>2. CASE r = e
            <4>1. Dist(n, e, e) = 0 /\ Dist(n, e, p) # 0
                BY <1>1, <2>1, DistInRing
            <4>2. Dist(n, e, p) \in Ring(n)
                BY <1>1, <2>1, DistNumbers
            <4> QED
                BY <4>1, <4>2, <3>2 DEF Ring
        <3>3. CASE r = gap
            BY <3>1, <3>3, <2>1, <2>3, <1>2, <1>6, <1>7
        <3>4. CASE r # e /\ r # gap
            BY <3>1, <3>4, <1>2, <1>7 DEF ArrangedBut
        <3> QED
            BY <3>2, <3>3, <3>4
    <2> QED
        BY <2>2, <2>3
<1>8. ArrangedBut(h, n, w, s, e, e)
    BY <1>7 DEF ArrangedBut
<1>9. Run(n, w, e, e)
    <2>1. \A r \in Ring(n) : r # e => ~ (Dist(n, e, r) <= Dist(n, e, e))
        BY <1>1, SMT DEF Dist, Ring
    <2> QED
        BY <2>1 DEF Run
<1>10. Lists(n, w, s)
    <2>1. ASSUME NEW p \in Filled(n, w) PROVE \E a \in 1..Len(s) : s[a] = w[p]
        <3>1. p \in Ring(n) /\ p # e
            BY <1>2 DEF Filled
        <3>2. CASE p = gap
            BY <3>2, <1>2, <1>3 DEF Lists, x
        <3>3. CASE p # gap
            <4>1. w[p] = t[p] /\ p \in Filled(n, t)
                BY <3>1, <3>3, <1>2 DEF Filled
            <4> QED
                BY <4>1 DEF Lists
        <3> QED
            BY <3>2, <3>3
    <2>2. ASSUME NEW a \in 1..Len(s) PROVE \E p \in Ring(n) : w[p] = s[a]
        <3>1. PICK p \in Ring(n) : t[p] = s[a]
            BY DEF Lists
        <3>2. s[a] \in Keys
            OBVIOUS
        <3>3. CASE p = e
            BY <3>1, <3>3, <1>2 DEF x
        <3>4. CASE p # e
            BY <3>1, <3>2, <3>4, <1>2
        <3> QED
            BY <3>3, <3>4
    <2> QED
        BY <2>1, <2>2 DEF Lists
<1> QED
    BY <1>2, <1>8, <1>9, <1>10

LEMMA WalkedFurther ==
    ASSUME NEW n \in Nat \ {0}, NEW t, NEW w, NEW gap \in Ring(n), NEW to \in Ring(n),
           NEW index \in Ring(n), NEW left \in Nat \ {0}, NEW e, e = (index + 1) % n,
           Walked(n, t, gap, index, left), t[e] # NoEntry,
           \A r \in Ring(n) : (r = gap \/ t[r] # NoEntry) => (r = to \/ w[r] # NoEntry)
    PROVE  Walked(n, w, to, e, left - 1)
<1>1. e \in Ring(n) /\ \A r \in Ring(n) : r # e => Dist(n, r, e) = Dist(n, r, index) + 1
    BY NextSlot
<1> SUFFICES ASSUME NEW r \in Ring(n), Dist(n, r, e) <= n - (left - 1)
             PROVE  r = to \/ w[r] # NoEntry
    BY DEF Walked
<1>2. CASE r = e
    BY <1>2
<1>3. CASE r # e
    <2>1. Dist(n, r, index) <= n - left
        BY <1>1, <1>3, DistNumbers
    <2> QED
        BY <2>1 DEF Walked
<1> QED
    BY <1>2, <1>3

\* The walk ends at an empty slot before it has gone all the way round.
LEMMA WalkEnds ==
    ASSUME NEW n \in Nat \ {0}, NEW t, NEW gap \in Ring(n), NEW index \in Ring(n),
           NEW e \in Ring(n), e # gap, t[e] = NoEntry
    PROVE  ~ Walked(n, t, gap, index, 0)
<1>1. Dist(n, e, index) <= n - 0
    BY DistNumbers DEF Ring
<1> QED
    BY <1>1 DEF Walked

\* The slot after the walk is not the gap again.
LEMMA GapIsBehind ==
    ASSUME NEW n \in Nat \ {0}, NEW t, NEW gap \in Ring(n), NEW index \in Ring(n),
           NEW e \in Ring(n), e # gap, t[e] = NoEntry, Run(n, t, gap, index)
    PROVE  (index + 1) % n # gap
<1> SUFFICES ASSUME (index + 1) % n = gap PROVE FALSE
    OBVIOUS
<1>1. gap = IF index + 1 < n THEN index + 1 ELSE 0
    <2>1. index \in Int /\ index + 1 \in Int
        BY DEF Ring
    <2>2. (index + 1) % n = IF index + 1 = n THEN 0 ELSE index + 1
        BY SMT DEF Ring
    <2> QED
        BY <2>1, <2>2 DEF Ring
<1>2. Dist(n, gap, e) <= Dist(n, gap, index)
    BY <1>1, SMT DEF Ring, Dist
<1> QED
    BY <1>2 DEF Run

\* A shift under way: t is the table but for the hole at gap, w has a key in the hole
\* again, and k is another key of t, at p.
MidShift(h, n, t, s, gap, index, w, k, p) ==
    /\ n \in Nat \ {0} /\ h \in [Keys -> Int] /\ t \in KeyTables(n)
    /\ s \in Seq(Keys) /\ Distinct(s) /\ gap \in Ring(n) /\ t[gap] = NoEntry
    /\ NoEntry \notin Keys /\ ArrangedBut(h, n, t, s, gap, index)
    /\ k \in Keys /\ p \in Ring(n) /\ t[p] = k
    /\ w[gap] \in Keys /\ \A r \in Ring(n) : r # gap => w[r] = t[r]

\* Where a lookup finds a key while a removal is closing its gap.
LEMMA MidShiftFinds ==
    ASSUME NEW n, NEW h, NEW t, NEW s, NEW gap, NEW index, NEW w, NEW k, NEW p,
           MidShift(h, n, t, s, gap, index, w, k, p)
    PROVE  \E q : First(h, n, w, k, q) /\ w[q] = k
<1>0. /\ n \in Nat \ {0} /\ h \in [Keys -> Int] /\ t \in KeyTables(n)
      /\ s \in Seq(Keys) /\ Distinct(s) /\ gap \in Ring(n) /\ t[gap] = NoEntry
      /\ NoEntry \notin Keys /\ ArrangedBut(h, n, t, s, gap, index)
      /\ k \in Keys /\ p \in Ring(n) /\ t[p] = k
    BY DEF MidShift
<1>1. /\ w[gap] \in Keys /\ \A r \in Ring(n) : r # gap => w[r] = t[r]
      /\ p # gap /\ p \in Filled(n, t) /\ HomeOf(h, n, k) \in Ring(n)
    BY <1>0, HomeInRing DEF MidShift, KeyTables, Filled
<1>2. ASSUME NEW r \in Ring(n), Passes(h, n, k, r, p), r # gap
      PROVE  w[r] # NoEntry /\ w[r] # k
    <2>1. t[r] # NoEntry /\ Before(s, t[r], k)
        BY <1>0, <1>1, <1>2 DEF ArrangedBut
    <2> QED
        BY <2>1, <1>0, <1>1, <1>2, NeverBeforeItself
<1>3. CASE w[gap] = k /\ Passes(h, n, k, gap, p)
    <2>1. ASSUME NEW r \in Ring(n), Passes(h, n, k, r, gap)
          PROVE  Passes(h, n, k, r, p) /\ r # gap
        BY <1>0, <1>1, <1>3, <2>1, DistNumbers DEF Passes
    <2>2. First(h, n, w, k, gap)
        BY <1>0, <1>1, <1>2, <1>3, <2>1 DEF First
    <2> QED
        BY <2>2, <1>3
<1>4. CASE ~ (w[gap] = k /\ Passes(h, n, k, gap, p))
    <2>1. First(h, n, w, k, p)
        BY <1>0, <1>1, <1>2, <1>4 DEF First
    <2> QED
        BY <2>1, <1>0, <1>1
<1> QED
    BY <1>3, <1>4

-----------------------------------------------------------------------------
(* Leaving the order *)

LEMMA RemovedAt ==
    ASSUME NEW s \in Seq(Keys), NEW i \in 1..Len(s), NEW u, u = S!RemoveAt(s, i)
    PROVE  /\ u \in Seq(Keys) /\ Len(u) = Len(s) - 1
           /\ \A a \in 1..Len(u) : u[a] = IF a < i THEN s[a] ELSE s[a + 1]
<1> DEFINE m == Len(s)
           x == SubSeq(s, 1, i - 1)
           y == SubSeq(s, i + 1, m)
<1>1. m \in Nat /\ i \in 1..m /\ \A a \in 1..m : s[a] \in Keys
    OBVIOUS
<1> HIDE DEF m
<1>2. x \in Seq(Keys) /\ Len(x) = i - 1 /\ \A a \in 1..(i - 1) : x[a] = s[a]
    <2>1. \A a \in 1..(i - 1) : s[a] \in Keys
        BY <1>1
    <2>2. /\ x \in Seq(Keys) /\ Len(x) = IF 1 <= i - 1 THEN (i - 1) - 1 + 1 ELSE 0
          /\ \A a \in 1..((i - 1) - 1 + 1) : x[a] = s[1 + a - 1]
        BY <2>1, <1>1, SubSeqProperties
    <2> HIDE DEF x
    <2> QED
        BY <2>2, <1>1
<1>3. y \in Seq(Keys) /\ Len(y) = m - i /\ \A a \in 1..(m - i) : y[a] = s[a + i]
    <2>1. \A a \in (i + 1)..m : s[a] \in Keys
        BY <1>1
    <2>2. /\ y \in Seq(Keys) /\ Len(y) = IF i + 1 <= m THEN m - (i + 1) + 1 ELSE 0
          /\ \A a \in 1..(m - (i + 1) + 1) : y[a] = s[(i + 1) + a - 1]
        BY <2>1, <1>1, SubSeqProperties
    <2> HIDE DEF y
    <2>3. \A a \in 1..(m - i) : (i + 1) + a - 1 = a + i
        BY <1>1
    <2> QED
        BY <2>2, <2>3, <1>1
<1>4. u = x \o y
    BY DEF S!RemoveAt, m
<1> HIDE DEF x, y
<1>5. /\ u \in Seq(Keys) /\ Len(u) = (i - 1) + (m - i)
      /\ \A a \in 1..((i - 1) + (m - i)) : u[a] = IF a <= i - 1 THEN x[a] ELSE y[a - (i - 1)]
    BY <1>2, <1>3, <1>4, ConcatProperties
<1>6. Len(u) = m - 1
    BY <1>1, <1>5
<1>7. ASSUME NEW a \in 1..(m - 1) PROVE u[a] = IF a < i THEN s[a] ELSE s[a + 1]
    <2>1. u[a] = IF a <= i - 1 THEN x[a] ELSE y[a - (i - 1)]
        BY <1>1, <1>5
    <2>2. CASE a < i
        BY <2>1, <2>2, <1>1, <1>2
    <2>3. CASE ~ (a < i)
        <3>1. a - (i - 1) \in 1..(m - i) /\ (a - (i - 1)) + i = a + 1
            BY <2>3, <1>1
        <3>2. u[a] = s[(a - (i - 1)) + i]
            BY <2>1, <2>3, <3>1, <1>1, <1>3
        <3> QED
            BY <2>3, <3>1, <3>2
    <2> QED
        BY <2>2, <2>3
<1> QED
    BY <1>5, <1>6, <1>7 DEF m

\* The key that leaves is gone, the others keep their order.
LeavesOut(s, i, u) ==
    /\ u \in Seq(Keys) /\ Len(u) = Len(s) - 1 /\ Distinct(u)
    /\ \A a \in 1..Len(u) : u[a] # s[i] /\ \E b \in 1..Len(s) : s[b] = u[a]
    /\ \A b \in 1..Len(s) : s[b] # s[i] => \E a \in 1..Len(u) : u[a] = s[b]
    /\ \A j, k : j # s[i] /\ k # s[i] /\ Before(s, j, k) => Before(u, j, k)

LEMMA RemovedOrder ==
    ASSUME NEW s \in Seq(Keys), Distinct(s), NEW i \in 1..Len(s), NEW u, u = S!RemoveAt(s, i)
    PROVE  LeavesOut(s, i, u)
<1>1. /\ u \in Seq(Keys) /\ Len(u) = Len(s) - 1 /\ Len(s) \in Nat
      /\ \A a \in 1..Len(u) : u[a] = IF a < i THEN s[a] ELSE s[a + 1]
    BY RemovedAt
<1> DEFINE from(a) == IF a < i THEN a ELSE a + 1
           to(a) == IF a < i THEN a ELSE a - 1
<1>2. \A a \in 1..Len(u) : from(a) \in 1..Len(s) /\ u[a] = s[from(a)] /\ from(a) # i
    BY <1>1
<1>3. \A a \in 1..Len(s) : a # i => to(a) \in 1..Len(u) /\ u[to(a)] = s[a]
    <2> SUFFICES ASSUME NEW a \in 1..Len(s), a # i PROVE to(a) \in 1..Len(u) /\ u[to(a)] = s[a]
        OBVIOUS
    <2>1. to(a) \in 1..Len(u)
        BY <1>1
    <2>2. from(to(a)) = a
        BY <1>1
    <2> QED
        BY <2>1, <2>2, <1>2
<1>4. \A a, b \in 1..Len(u) : from(a) = from(b) => a = b
    BY <1>1
<1>5. \A a, b \in 1..Len(s) : a # i /\ b # i /\ a < b => to(a) < to(b)
    BY <1>1
<1> HIDE DEF from, to
<1>6. Distinct(u)
    BY <1>2, <1>4 DEF Distinct
<1>7. /\ \A a \in 1..Len(u) : u[a] # s[i] /\ \E b \in 1..Len(s) : s[b] = u[a]
      /\ \A b \in 1..Len(s) : s[b] # s[i] => \E a \in 1..Len(u) : u[a] = s[b]
    <2>1. ASSUME NEW a \in 1..Len(u) PROVE u[a] # s[i] /\ \E b \in 1..Len(s) : s[b] = u[a]
        BY <1>2 DEF Distinct
    <2>2. ASSUME NEW b \in 1..Len(s), s[b] # s[i] PROVE \E a \in 1..Len(u) : u[a] = s[b]
        BY <2>2, <1>3
    <2> QED
        BY <2>1, <2>2
<1>8. ASSUME NEW j, NEW k, j # s[i], k # s[i], Before(s, j, k)
      PROVE  Before(u, j, k)
    <2>1. PICK a \in 1..Len(s), b \in 1..Len(s) : a < b /\ s[a] = j /\ s[b] = k
        BY <1>8 DEF Before
    <2>2. a # i /\ b # i
        BY <2>1, <1>8
    <2>3. /\ to(a) \in 1..Len(u) /\ to(b) \in 1..Len(u) /\ to(a) < to(b)
          /\ u[to(a)] = j /\ u[to(b)] = k
        BY <2>1, <2>2, <1>3, <1>5
    <2> QED
        BY <2>3 DEF Before
<1> QED
    BY <1>1, <1>6, <1>7, <1>8 DEF LeavesOut

\* The removal begins: the slot of the key is the gap.
LEMMA GapOpens ==
    ASSUME NEW n \in Nat \ {0}, NEW h \in [Keys -> Int], NEW t \in KeyTables(n),
           NEW s \in Seq(Keys), Distinct(s), NoEntry \notin Keys,
           Arranged(h, n, t, s), Lists(n, t, s),
           NEW gap \in Filled(n, t), NEW i \in 1..Len(s), s[i] = t[gap],
           NEW u, u = S!RemoveAt(s, i), NEW w \in KeyTables(n), w[gap] = NoEntry,
           \A p \in Ring(n) : p # gap => w[p] = t[p]
    PROVE  /\ w \in KeyTables(n) /\ w[gap] = NoEntry
           /\ ArrangedBut(h, n, w, u, gap, gap) /\ Run(n, w, gap, gap)
           /\ Lists(n, w, u) /\ Walked(n, w, gap, gap, n)
<1>1. /\ w \in KeyTables(n) /\ w[gap] = NoEntry /\ gap \in Ring(n)
      /\ \A p \in Ring(n) : p # gap => w[p] = t[p]
    BY DEF KeyTables, Filled
<1>2. OneSlotEach(n, t)
    BY ArrangedOneSlotEach
<1>3. \A p \in Filled(n, w) : p # gap /\ p \in Filled(n, t) /\ w[p] = t[p] /\ t[p] # s[i]
    BY <1>1, <1>2 DEF Filled, OneSlotEach
<1>4. LeavesOut(s, i, u)
    BY RemovedOrder
<1>5. \A p \in Ring(n) : ~ (p # gap /\ Dist(n, gap, p) <= Dist(n, gap, gap))
    BY <1>1, SMT DEF Dist, Ring
<1>6. ASSUME NEW p \in Filled(n, w), NEW r \in Ring(n), Passes(h, n, w[p], r, p)
      PROVE  \/ w[r] # NoEntry /\ Before(u, w[r], w[p])
             \/ r = gap /\ Dist(n, gap, gap) < Dist(n, gap, p)
    <2>1. CASE r = gap
        BY <2>1, <1>1, <1>3, <1>5, DistNumbers DEF Filled
    <2>2. CASE r # gap
        <3>1. t[r] # NoEntry /\ Before(s, t[r], t[p])
            BY <1>3, <1>6 DEF Arranged
        <3>2. r \in Filled(n, w) /\ w[r] = t[r]
            BY <2>2, <3>1, <1>1 DEF Filled
        <3> QED
            BY <3>1, <3>2, <1>3, <1>4 DEF LeavesOut
    <2> QED
        BY <2>1, <2>2
<1>7. Lists(n, w, u)
    <2>1. ASSUME NEW p \in Filled(n, w) PROVE \E a \in 1..Len(u) : u[a] = w[p]
        <3>1. p \in Filled(n, t) /\ w[p] = t[p] /\ t[p] # s[i]
            BY <1>3
        <3>2. PICK b \in 1..Len(s) : s[b] = t[p]
            BY <3>1 DEF Lists
        <3>3. \E a \in 1..Len(u) : u[a] = s[b]
            BY <3>1, <3>2, <1>4 DEF LeavesOut
        <3> QED
            BY <3>1, <3>2, <3>3
    <2>2. ASSUME NEW a \in 1..Len(u) PROVE \E p \in Ring(n) : w[p] = u[a]
        <3>1. u[a] # s[i] /\ \E b \in 1..Len(s) : s[b] = u[a]
            BY <1>4 DEF LeavesOut
        <3>2. PICK p \in Ring(n) : t[p] = u[a]
            BY <3>1 DEF Lists
        <3> QED
            BY <3>1, <3>2, <1>1
    <2> QED
        BY <2>1, <2>2 DEF Lists
<1>8. Walked(n, w, gap, gap, n)
    <2>1. \A r \in Ring(n) : Dist(n, r, gap) <= n - n => r = gap
        BY <1>1, SMT DEF Dist, Ring
    <2> QED
        BY <2>1 DEF Walked
<1> QED
    BY <1>1, <1>5, <1>6, <1>7, <1>8 DEF ArrangedBut, Run

-----------------------------------------------------------------------------
(* Ceilings *)

LEMMA PowerIs ==
    /\ Power[0] = 1
    /\ \A i \in 1..MaxSlots : Power[i] = 2 * Power[i - 1]
    /\ \A i \in 0..MaxSlots : Power[i] \in Nat \ {0}
<1> DEFINE D == 0..MaxSlots
           Is(f, d) == f = [i \in 0..d |-> IF i = 0 THEN 1 ELSE 2 * f[i - 1]]
           T == {d \in D : ~ \E f : Is(f, d)}
<1>1. MaxSlots \in Nat
    BY CeilingsAssumption DEF Ceilings
<1>2. T = {}
    <2> SUFFICES ASSUME T # {} PROVE FALSE
        OBVIOUS
    <2>1. PICK d \in T : \A e \in T : d <= e
        <3>1. T \in SUBSET Nat
            BY <1>1
        <3> HIDE DEF T
        <3> QED
            BY <3>1, LeastNumber
    <2>2. CASE d = 0
        <3> DEFINE f == [i \in 0..0 |-> 1]
        <3>1. Is(f, 0)
            OBVIOUS
        <3> QED
            BY <2>2, <3>1
    <2>3. CASE d # 0
        <3>1. d - 1 \in D /\ d - 1 \notin T
            <4> HIDE DEF Is
            <4> QED
                BY <2>1, <2>3, <1>1
        <3>2. PICK f : Is(f, d - 1)
            BY <3>1
        <3> DEFINE g == [i \in 0..d |-> IF i = d THEN 2 * f[d - 1] ELSE f[i]]
        <3>3. \A i \in 0..(d - 1) : f[i] = IF i = 0 THEN 1 ELSE 2 * f[i - 1]
            BY <3>2
        <3>4. ASSUME NEW i \in 0..d PROVE g[i] = IF i = 0 THEN 1 ELSE 2 * g[i - 1]
            BY <3>3, <2>3, <1>1
        <3>5. Is(g, d)
            BY <3>4
        <3> QED
            BY <3>5
    <2> QED
        BY <2>2, <2>3
<1>3. \E f : Is(f, MaxSlots)
    <2> HIDE DEF Is
    <2> QED
        BY <1>1, <1>2
<1>4. Power = [i \in D |-> IF i = 0 THEN 1 ELSE 2 * Power[i - 1]]
    BY <1>3 DEF Power
<1>5. Power[0] = 1 /\ \A i \in 1..MaxSlots : Power[i] = 2 * Power[i - 1]
    BY <1>1, <1>4
<1>6. \A i \in D : Power[i] \in Nat \ {0}
    <2> DEFINE U == {i \in D : Power[i] \notin Nat \ {0}}
    <2> SUFFICES ASSUME U # {} PROVE FALSE
        OBVIOUS
    <2>1. PICK i \in U : \A j \in U : i <= j
        <3>1. U \in SUBSET Nat
            BY <1>1
        <3> HIDE DEF U
        <3> QED
            BY <3>1, LeastNumber
    <2>2. i # 0
        BY <1>5
    <2>3. i - 1 \in D /\ i - 1 \notin U /\ i \in 1..MaxSlots
        BY <2>1, <2>2, <1>1
    <2> QED
        BY <2>3, <1>5
<1> QED
    BY <1>5, <1>6

LEMMA PowerGrows ==
    \A i, j \in 0..MaxSlots : i <= j => Power[i] <= Power[j]
<1>1. MaxSlots \in Nat
    BY CeilingsAssumption DEF Ceilings
<1> SUFFICES ASSUME NEW i \in 0..MaxSlots
             PROVE  \A j \in 0..MaxSlots : i <= j => Power[i] <= Power[j]
    OBVIOUS
<1> DEFINE U == {j \in 0..MaxSlots : i <= j /\ ~ (Power[i] <= Power[j])}
<1> SUFFICES ASSUME U # {} PROVE FALSE
    OBVIOUS
<1>2. PICK j \in U : \A k \in U : j <= k
    <2>1. U \in SUBSET Nat
        BY <1>1
    <2> HIDE DEF U
    <2> QED
        BY <2>1, LeastNumber
<1>3. Power[i] \in Nat /\ Power[j] \in Nat
    BY PowerIs
<1>4. j # i
    BY <1>3
<1>5. j - 1 \in 0..MaxSlots /\ i <= j - 1 /\ j - 1 \notin U /\ j \in 1..MaxSlots
    BY <1>1, <1>2, <1>4
<1>6. Power[i] <= Power[j - 1] /\ Power[j - 1] \in Nat /\ Power[j] = 2 * Power[j - 1]
    BY <1>5, PowerIs
<1> QED
    BY <1>3, <1>6

\* Ceilings are powers of two.
LEMMA CeilingsDouble ==
    /\ Ceilings \subseteq Nat
    /\ \A c \in Ceilings : c >= 2 /\ c <= MaxSlots
    /\ \A c \in Ceilings : \E d \in Nat : c = 2 * d
    /\ \A c, m \in Ceilings : IF 2 * c <= m THEN 2 * c \in Ceilings ELSE c >= m
<1>1. MaxSlots \in Nat
    BY CeilingsAssumption DEF Ceilings
<1>2. ASSUME NEW c \in Ceilings
      PROVE  c \in Nat /\ c >= 2 /\ c <= MaxSlots /\ \E d \in Nat : c = 2 * d
    <2>1. PICK i \in 1..MaxSlots : c = Power[i]
        BY DEF Ceilings
    <2>2. i - 1 \in 0..MaxSlots /\ c = 2 * Power[i - 1] /\ Power[i - 1] \in Nat \ {0}
        BY <1>1, <2>1, PowerIs
    <2> QED
        BY <2>2, <1>1 DEF Ceilings
<1>3. ASSUME NEW c \in Ceilings, NEW m \in Ceilings
      PROVE  IF 2 * c <= m THEN 2 * c \in Ceilings ELSE c >= m
    <2>1. PICK i \in 1..MaxSlots : c = Power[i]
        BY DEF Ceilings
    <2>2. PICK j \in 1..MaxSlots : m = Power[j]
        BY DEF Ceilings
    <2>3. c \in Nat /\ m \in Nat /\ c >= 2 /\ m <= MaxSlots
        BY <1>2
    <2>4. CASE j <= i
        <3>1. m <= c
            BY <2>1, <2>2, <2>4, <1>1, PowerGrows
        <3> QED
            BY <3>1, <2>3
    <2>5. CASE i < j
        <3>1. i + 1 \in 1..MaxSlots /\ (i + 1) - 1 = i
            BY <2>5, <1>1
        <3>2. Power[i + 1] = 2 * c
            BY <3>1, <2>1, PowerIs
        <3>3. 2 * c <= m
            BY <3>1, <3>2, <2>2, <2>5, <1>1, PowerGrows
        <3>4. 2 * c \in 1..MaxSlots
            BY <3>3, <2>3, <1>1
        <3> QED
            BY <3>1, <3>2, <3>3, <3>4 DEF Ceilings
    <2> QED
        BY <2>4, <2>5
<1> QED
    BY <1>2, <1>3

-----------------------------------------------------------------------------
(* The table *)

\* A table of n slots that got its keys in the order of s.
Ordered(h, n, cells, s) ==
    /\ cells \in [Ring(n) -> Slot]
    /\ s \in Seq(Keys) /\ Distinct(s)
    /\ Arranged(h, n, KeysOf(cells), s) /\ Lists(n, KeysOf(cells), s)

LEMMA KeysAreKeys ==
    ASSUME NEW n \in Nat, NEW cells \in [Ring(n) -> Slot]
    PROVE  /\ KeysOf(cells) \in KeyTables(n)
           /\ \A p \in Ring(n) :
                 /\ cells[p] = NoEntry <=> KeysOf(cells)[p] = NoEntry
                 /\ cells[p] # NoEntry =>
                       /\ cells[p] \in [key : Keys, value : Values]
                       /\ KeysOf(cells)[p] = cells[p].key
BY NoEntryAssumption DEF KeysOf, KeyTables, Slot

LEMMA NoEntryIsNoKey == NoEntry \notin Keys
BY NoEntryAssumption

LEMMA OrderedHolds ==
    ASSUME NEW n \in Nat \ {0}, hash \in [Keys -> Int], NEW cells, NEW s,
           Ordered(hash, n, cells, s), NEW k \in Keys
    PROVE  /\ Holds(cells, k) <=> \E p \in Ring(n) : KeysOf(cells)[p] = k
           /\ \A p \in Ring(n) : KeysOf(cells)[p] = k => Stop(cells, k) = p
<1> DEFINE t == KeysOf(cells)
<1>1. cells \in [Ring(n) -> Slot] /\ t \in KeyTables(n) /\ s \in Seq(Keys) /\ Distinct(s)
      /\ Arranged(hash, n, t, s)
    BY KeysAreKeys DEF Ordered
<1>2. \A p \in Ring(n) : cells[p] = NoEntry <=> t[p] = NoEntry
    BY <1>1, KeysAreKeys
<1> HIDE DEF t
<1>3. ASSUME NEW p \in Ring(n), t[p] = k PROVE Stops(cells, k) # {} /\ Stop(cells, k) = p
    <2>1. p \in Filled(n, t)
        BY <1>3, NoEntryIsNoKey DEF Filled
    <2>2. First(hash, n, t, k, p)
        BY <2>1, <1>1, <1>3, ArrangedFinds
    <2> QED
        BY <2>2, <1>1, StopIsFirst DEF t
<1>4. ASSUME Holds(cells, k) PROVE \E p \in Ring(n) : t[p] = k
    <2>1. First(hash, n, t, k, Stop(cells, k)) /\ cells[Stop(cells, k)] # NoEntry
        BY <1>1, <1>4, StopsSomewhere DEF Holds, t
    <2> QED
        BY <2>1, <1>2 DEF First
<1>5. ASSUME NEW p \in Ring(n), t[p] = k PROVE Holds(cells, k)
    BY <1>2, <1>3, <1>5, NoEntryIsNoKey DEF Holds
<1> QED
    BY <1>3, <1>4, <1>5 DEF t

\* What a store writes, wherever the probes stop.
LEMMA StoreKeys ==
    ASSUME NEW n \in Nat, NEW cells \in [Ring(n) -> Slot], NEW k \in Keys, NEW v \in Values,
           NEW q \in Ring(n), Stop(cells, k) = q
    PROVE  /\ Store(cells, k, v) = [cells EXCEPT ![q] = [key |-> k, value |-> v]]
           /\ Store(cells, k, v) \in [Ring(n) -> Slot]
           /\ KeysOf(Store(cells, k, v)) = [KeysOf(cells) EXCEPT ![q] = k]
<1> DEFINE w == Store(cells, k, v)
           e == [key |-> k, value |-> v]
<1>1. w = [cells EXCEPT ![q] = e]
    BY DEF Store
<1>2. e \in Slot /\ e # NoEntry /\ e.key = k
    BY NoEntryAssumption DEF Slot
<1> HIDE DEF w, e
<1>3. w \in [Ring(n) -> Slot] /\ \A p \in Ring(n) : w[p] = IF p = q THEN e ELSE cells[p]
    BY <1>1, <1>2
<1>4. KeysOf(w) = [KeysOf(cells) EXCEPT ![q] = k]
    BY <1>2, <1>3 DEF KeysOf
<1> QED
    BY <1>1, <1>3, <1>4 DEF w, e

\* A key that is not there goes to an empty slot, if there is one.
LEMMA StoreNew ==
    ASSUME NEW n \in Nat \ {0}, hash \in [Keys -> Int], NEW cells, NEW s,
           Ordered(hash, n, cells, s), NEW k \in Keys, NEW v \in Values,
           \A p \in Ring(n) : KeysOf(cells)[p] # k, Len(s) < n
    PROVE  /\ ~ Holds(cells, k) /\ Stops(cells, k) # {}
           /\ Ordered(hash, n, Store(cells, k, v), Append(s, k))
           /\ \E q \in Ring(n) :
                 /\ cells[q] = NoEntry
                 /\ Store(cells, k, v) = [cells EXCEPT ![q] = [key |-> k, value |-> v]]
<1> DEFINE t == KeysOf(cells)
           w == Store(cells, k, v)
<1>1. /\ cells \in [Ring(n) -> Slot] /\ t \in KeyTables(n) /\ s \in Seq(Keys) /\ Distinct(s)
      /\ Arranged(hash, n, t, s) /\ Lists(n, t, s)
    BY KeysAreKeys DEF Ordered
<1>2. \A p \in Ring(n) : cells[p] = NoEntry <=> t[p] = NoEntry
    BY <1>1, KeysAreKeys
<1>3. ~ Holds(cells, k)
    BY OrderedHolds
<1>4. PICK e \in Ring(n) : t[e] = NoEntry
    <2>1. OneSlotEach(n, t)
        BY <1>1, ArrangedOneSlotEach
    <2> HIDE DEF t
    <2> QED
        BY <2>1, <1>1, SpaceLeft, NoEntryIsNoKey
<1>5. PICK q : First(hash, n, t, k, q)
    <2> HIDE DEF t
    <2> QED
        BY <1>4, FirstExists
<1>6. q \in Ring(n) /\ t[q] = NoEntry
    BY <1>5 DEF First
<1>7. Stops(cells, k) # {} /\ Stop(cells, k) = q
    BY <1>1, <1>5, StopIsFirst
<1>8. /\ w = [cells EXCEPT ![q] = [key |-> k, value |-> v]]
      /\ w \in [Ring(n) -> Slot] /\ KeysOf(w) = [t EXCEPT ![q] = k]
    BY <1>1, <1>6, <1>7, StoreKeys
<1> HIDE DEF t, w
<1>9. /\ Arranged(hash, n, [t EXCEPT ![q] = k], Append(s, k))
      /\ Lists(n, [t EXCEPT ![q] = k], Append(s, k))
    BY <1>1, <1>5, <1>6, StoreArranged, NoEntryIsNoKey
<1>10. \A a \in 1..Len(s) : s[a] # k
    BY <1>1 DEF Lists, t
<1>11. Append(s, k) \in Seq(Keys) /\ Distinct(Append(s, k))
    BY <1>1, <1>10, AppendDistinct, AppendProperties
<1>12. Ordered(hash, n, w, Append(s, k))
    BY <1>8, <1>9, <1>11 DEF Ordered
<1> QED
    BY <1>2, <1>3, <1>6, <1>7, <1>8, <1>12 DEF w

LEMMA OrderedSpace ==
    ASSUME NEW n \in Nat, NEW h \in [Keys -> Int], NEW cells, NEW s, Ordered(h, n, cells, s)
    PROVE  /\ OneSlotEach(n, KeysOf(cells))
           /\ IsFiniteSet(Filled(n, KeysOf(cells)))
           /\ Cardinality(Filled(n, KeysOf(cells))) = Len(s)
<1>1. KeysOf(cells) \in KeyTables(n) /\ s \in Seq(Keys) /\ Distinct(s)
      /\ Arranged(h, n, KeysOf(cells), s) /\ Lists(n, KeysOf(cells), s)
    BY KeysAreKeys DEF Ordered
<1>2. OneSlotEach(n, KeysOf(cells))
    <2>1. CASE n = 0
        BY <2>1 DEF OneSlotEach, Filled, Ring
    <2>2. CASE n # 0
        BY <2>2, <1>1, ArrangedOneSlotEach
    <2> QED
        BY <2>1, <2>2
<1> QED
    BY <1>1, <1>2, FilledCount, NoEntryIsNoKey

LEMMA EmptyOrdered ==
    ASSUME NEW n \in Nat, NEW h
    PROVE  Ordered(h, n, Empty(n), << >>)
<1> DEFINE t == KeysOf(Empty(n))
<1>1. Empty(n) \in [Ring(n) -> Slot] /\ t = [p \in Ring(n) |-> NoEntry]
    BY DEF Empty, Ring, Slot, KeysOf
<1>2. Filled(n, t) = {}
    BY <1>1 DEF Filled
<1>3. << >> \in Seq(Keys) /\ Len(<< >>) = 0
    OBVIOUS
<1> HIDE DEF t
<1>4. Distinct(<< >>) /\ Arranged(h, n, t, << >>) /\ Lists(n, t, << >>)
    BY <1>2, <1>3 DEF Distinct, Arranged, Lists
<1> QED
    BY <1>1, <1>3, <1>4 DEF Ordered, t

-----------------------------------------------------------------------------
(* The inductive invariant *)

Records(cells) == {cells[p] : p \in DOMAIN cells} \ {NoEntry}
SlotArrays == UNION {[Ring(n) -> Slot] : n \in {0} \cup Ceilings}
Shifts == [loop : {"shift"}, key : Keys, gap : Nat, index : Nat, left : Nat]
Rehashes == [loop : {"rehash"}, key : Keys, value : Values, old : SlotArrays, index : Nat]

RawTypes ==
    /\ hash \in [Keys -> 0..(MaxSlots - 1)]
    /\ max_capacity \in Ceilings
    /\ entries \in SlotArrays
    /\ order \in Seq(Keys) /\ Distinct(order) /\ len = Len(order)
    /\ op \in {Idle} \cup Shifts \cup Rehashes
    /\ answer.answer \in {"none", "some", "added", "replaced", "full", "no_memory"}

AtRest ==
    op.loop = "idle" => Ordered(hash, capacity, entries, order) /\ 2 * len <= capacity

\* What has been rehashed is what the old slots before the index held.
Rehashed(cells, old, index) ==
    /\ \A e \in Records(cells) : \E p \in DOMAIN old : p < index /\ old[p] = e
    /\ \A p \in DOMAIN old : p < index /\ old[p] # NoEntry => old[p] \in Records(cells)

Rehashing ==
    op.loop = "rehash" =>
       LET C == Capacity(op.old)
       IN  /\ Ordered(hash, capacity, entries, order)
           /\ capacity \in Ceilings /\ (C = 0 \/ capacity = 2 * C)
           /\ op.index <= C
           /\ OneSlotEach(C, KeysOf(op.old))
           /\ 2 * Cardinality(Filled(C, KeysOf(op.old))) <= C
           /\ Rehashed(entries, op.old, op.index)

\* The keys without what the gap still shows.
Vacated(cells, gap) == [KeysOf(cells) EXCEPT ![gap] = NoEntry]

Shifting ==
    op.loop = "shift" =>
       LET n == capacity
           t == Vacated(entries, op.gap)
       IN  /\ n \in Ceilings /\ 2 * (len + 1) <= n
           /\ op.gap \in Ring(n) /\ op.index \in Ring(n)
           /\ ArrangedBut(hash, n, t, order, op.gap, op.index)
           /\ Lists(n, t, order)
           /\ Run(n, t, op.gap, op.index) /\ Walked(n, t, op.gap, op.index, op.left)
           /\ \A a \in 1..Len(order) : order[a] # op.key
           /\ entries[op.gap] # NoEntry
           /\ entries[op.gap].key = op.key
                 \/ \E p \in Ring(n) : p # op.gap /\ entries[p] = entries[op.gap]
           /\ answer.answer # "full"

RefusedFull == op.loop = "idle" /\ answer.answer = "full" => 2 * len >= max_capacity

RawInv == RawTypes /\ AtRest /\ Rehashing /\ Shifting /\ RefusedFull

\* What the abstract map holds: a removal under way has happened, a growth under
\* way has lost nothing.
Content ==
    IF op.loop = "rehash" THEN Records(op.old)
    ELSE IF op.loop = "shift" THEN {e \in Records(entries) : e.key # op.key}
    ELSE Records(entries)

Updated(E, k, v) == {e \in E : e.key # k} \cup {[key |-> k, value |-> v]}

LEMMA TableIs ==
    ASSUME NEW cells \in SlotArrays
    PROVE  /\ Capacity(cells) \in {0} \cup Ceilings /\ Capacity(cells) \in Nat
           /\ cells \in [Ring(Capacity(cells)) -> Slot] /\ DOMAIN cells = Ring(Capacity(cells))
<1>1. PICK n \in {0} \cup Ceilings : cells \in [Ring(n) -> Slot]
    BY DEF SlotArrays
<1>2. n \in Nat
    BY CeilingsDouble
<1>3. Capacity(cells) = n
    BY <1>1, <1>2, RingCapacity
<1> QED
    BY <1>1, <1>2, <1>3

LEMMA TableWith ==
    ASSUME NEW n \in {0} \cup Ceilings, NEW cells \in [Ring(n) -> Slot]
    PROVE  cells \in SlotArrays /\ Capacity(cells) = n
<1>1. n \in Nat
    BY CeilingsDouble
<1> QED
    BY <1>1, RingCapacity DEF SlotArrays

LEMMA RecordsOf ==
    ASSUME NEW n \in Nat, NEW cells \in [Ring(n) -> Slot]
    PROVE  /\ Records(cells) \subseteq [key : Keys, value : Values]
           /\ \A e \in Records(cells) : \E p \in Ring(n) : cells[p] = e /\ KeysOf(cells)[p] = e.key
           /\ \A p \in Ring(n) : cells[p] # NoEntry => cells[p] \in Records(cells)
           /\ \A p \in Ring(n) : KeysOf(cells)[p] # NoEntry =>
                  cells[p] \in Records(cells) /\ cells[p].key = KeysOf(cells)[p]
BY KeysAreKeys DEF Records, Slot

\* What a key that is there gets is its new value.
LEMMA StoreOver ==
    ASSUME NEW n \in Nat \ {0}, hash \in [Keys -> Int], NEW cells, NEW s,
           Ordered(hash, n, cells, s), NEW k \in Keys, NEW v \in Values, Holds(cells, k)
    PROVE  /\ Stops(cells, k) # {}
           /\ Ordered(hash, n, Store(cells, k, v), s)
           /\ Records(Store(cells, k, v)) = Updated(Records(cells), k, v)
           /\ \E e \in Records(cells) : e.key = k
<1> DEFINE t == KeysOf(cells)
           w == Store(cells, k, v)
           e == [key |-> k, value |-> v]
<1>1. /\ cells \in [Ring(n) -> Slot] /\ t \in KeyTables(n) /\ OneSlotEach(n, t)
    BY KeysAreKeys, OrderedSpace DEF Ordered
<1>2. PICK q \in Ring(n) : t[q] = k
    BY OrderedHolds
<1>3. Stop(cells, k) = q
    BY <1>2, OrderedHolds
<1>4. /\ w = [cells EXCEPT ![q] = e]
      /\ w \in [Ring(n) -> Slot] /\ KeysOf(w) = [t EXCEPT ![q] = k]
    BY <1>1, <1>2, <1>3, StoreKeys
<1>5. e \in [key : Keys, value : Values] /\ e # NoEntry /\ e.key = k
    BY NoEntryAssumption
<1>6. /\ Records(cells) \subseteq [key : Keys, value : Values]
      /\ \A x \in Records(cells) : \E p \in Ring(n) : cells[p] = x /\ t[p] = x.key
      /\ \A p \in Ring(n) : cells[p] # NoEntry => cells[p] \in Records(cells)
      /\ \A p \in Ring(n) : t[p] # NoEntry => cells[p] \in Records(cells) /\ cells[p].key = t[p]
    BY <1>1, RecordsOf
<1>7. \A p \in Ring(n) : t[p] # NoEntry => p \in Filled(n, t)
    BY DEF Filled
<1>8. KeysOf(w) = t
    BY <1>1, <1>2, <1>4 DEF KeyTables
<1>9. \A p \in Ring(n) : w[p] = IF p = q THEN e ELSE cells[p]
    BY <1>1, <1>4
<1>10. DOMAIN w = Ring(n)
    BY <1>4
<1> HIDE DEF t, w, e
<1>11. \A p \in Ring(n) : p # q => t[p] # k
    BY <1>1, <1>2, <1>7, NoEntryIsNoKey DEF OneSlotEach
<1>12. Records(w) \subseteq Updated(Records(cells), k, v)
    <2> SUFFICES ASSUME NEW p \in Ring(n), w[p] # NoEntry PROVE w[p] \in Updated(Records(cells), k, v)
        BY <1>10 DEF Records
    <2>1. CASE p = q
        BY <2>1, <1>9 DEF Updated, e
    <2>2. CASE p # q
        <3>1. cells[p] \in Records(cells) /\ cells[p].key = t[p]
            BY <2>2, <1>1, <1>6, <1>9, KeysAreKeys DEF t
        <3> QED
            BY <3>1, <2>2, <1>9, <1>11 DEF Updated
    <2> QED
        BY <2>1, <2>2
<1>13. Updated(Records(cells), k, v) \subseteq Records(w)
    <2>1. e \in Records(w)
        BY <1>5, <1>9, <1>10 DEF Records
    <2>2. ASSUME NEW x \in Records(cells), x.key # k PROVE x \in Records(w)
        <3>1. PICK p \in Ring(n) : cells[p] = x /\ t[p] = x.key
            BY <1>6
        <3>2. w[p] = x /\ x # NoEntry
            BY <3>1, <2>2, <1>2, <1>9 DEF Records
        <3> QED
            BY <3>2, <1>10 DEF Records
    <2> QED
        BY <2>1, <2>2 DEF Updated, e
<1>14. Ordered(hash, n, w, s)
    BY <1>4, <1>8 DEF Ordered, t
<1>15. Stops(cells, k) # {}
    BY DEF Holds
<1>16. \E x \in Records(cells) : x.key = k
    BY <1>2, <1>6, NoEntryIsNoKey
<1> QED
    BY <1>12, <1>13, <1>14, <1>15, <1>16 DEF w

LEMMA NoRecordOf ==
    ASSUME NEW n \in Nat, NEW cells \in [Ring(n) -> Slot], NEW k \in Keys,
           \A p \in Ring(n) : KeysOf(cells)[p] # k, NEW x \in Records(cells)
    PROVE  x.key # k
<1>1. PICK p \in Ring(n) : cells[p] = x /\ KeysOf(cells)[p] = x.key
    BY RecordsOf
<1> QED
    BY <1>1

LEMMA StoreNewRecords ==
    ASSUME NEW n \in Nat, NEW cells \in [Ring(n) -> Slot], NEW k \in Keys, NEW v \in Values,
           NEW q \in Ring(n), cells[q] = NoEntry, \A p \in Ring(n) : KeysOf(cells)[p] # k,
           NEW w, DOMAIN w = Ring(n), w[q] = [key |-> k, value |-> v],
           \A p \in Ring(n) : p # q => w[p] = cells[p]
    PROVE  /\ Records(w) = Records(cells) \cup {[key |-> k, value |-> v]}
           /\ Records(w) = Updated(Records(cells), k, v)
<1> DEFINE e == [key |-> k, value |-> v]
<1>1. e # NoEntry
    BY NoEntryAssumption
<1>2. DOMAIN w = Ring(n) /\ \A p \in Ring(n) : w[p] = IF p = q THEN e ELSE cells[p]
    OBVIOUS
<1> HIDE DEF e
<1>3. ASSUME NEW x \in Records(cells) PROVE x.key # k
    BY NoRecordOf
<1>4. Records(w) = Records(cells) \cup {e}
    BY <1>1, <1>2 DEF Records
<1> QED
    BY <1>3, <1>4 DEF Updated, e

\* insert_no_grow with room: the key is there and gets the value, or it is new and
\* the last to come.
LEMMA AddWithRoom ==
    ASSUME NEW n \in Nat \ {0}, hash \in [Keys -> Int], capacity = n,
           Ordered(hash, n, entries, order), len = Len(order), 2 * (len + 1) <= n,
           NEW k \in Keys, NEW v \in Values, Add(k, v)
    PROVE  /\ Ordered(hash, n, entries', order') /\ len' = Len(order')
           /\ Records(entries') = Updated(Records(entries), k, v)
           /\ \/ /\ answer' = Answer(k, "replaced") /\ \E e \in Records(entries) : e.key = k
                 /\ len' = len
              \/ /\ answer' = Answer(k, "added") /\ \A e \in Records(entries) : e.key # k
                 /\ len' = len + 1
<1>1. entries \in [Ring(n) -> Slot] /\ order \in Seq(Keys) /\ len \in Nat
    BY DEF Ordered
<1>2. CASE Holds(entries, k)
    <2>1. /\ Stops(entries, k) # {}
          /\ Ordered(hash, n, Store(entries, k, v), order)
          /\ Records(Store(entries, k, v)) = Updated(Records(entries), k, v)
          /\ \E e \in Records(entries) : e.key = k
        BY <1>2, StoreOver
    <2>2. /\ entries' = Store(entries, k, v) /\ answer' = Answer(k, "replaced")
          /\ len' = len /\ order' = order
        BY <1>2, <2>1 DEF Add, Replace
    <2> QED
        BY <2>1, <2>2
<1>3. CASE ~ Holds(entries, k)
    <2>1. \A p \in Ring(n) : KeysOf(entries)[p] # k
        BY <1>3, OrderedHolds
    <2>2. Len(order) < n
        BY <1>1
    <2>3. /\ Stops(entries, k) # {}
          /\ Ordered(hash, n, Store(entries, k, v), Append(order, k))
        BY <2>1, <2>2, StoreNew
    <2>4. PICK q \in Ring(n) :
             /\ entries[q] = NoEntry
             /\ Store(entries, k, v) = [entries EXCEPT ![q] = [key |-> k, value |-> v]]
        BY <2>1, <2>2, StoreNew
    <2>5. /\ Records(Store(entries, k, v)) = Updated(Records(entries), k, v)
          /\ \A e \in Records(entries) : e.key # k
        <3>1. PICK w : w = Store(entries, k, v)
            OBVIOUS
        <3>2. /\ DOMAIN w = Ring(n) /\ w[q] = [key |-> k, value |-> v]
              /\ \A p \in Ring(n) : p # q => w[p] = entries[p]
            BY <3>1, <2>4, <1>1
        <3>3. /\ Records(w) = Updated(Records(entries), k, v)
              /\ \A e \in Records(entries) : e.key # k
            <4>1. n \in Nat /\ entries[q] = NoEntry
                BY <2>4
            <4>2. Records(w) = Updated(Records(entries), k, v)
                BY <4>1, <3>2, <1>1, <2>1, StoreNewRecords
            <4>3. \A e \in Records(entries) : e.key # k
                BY <1>1, <2>1, NoRecordOf
            <4> QED
                BY <4>2, <4>3
        <3> QED
            BY <3>1, <3>3
    <2>6. /\ entries' = Store(entries, k, v) /\ answer' = Answer(k, "added")
          /\ len' = len + 1 /\ order' = Append(order, k)
        BY <1>3, <2>3 DEF Add, Replace
    <2>7. len' = Len(order')
        BY <1>1, <2>6, AppendProperties
    <2> QED
        BY <2>3, <2>5, <2>6, <2>7
<1> QED
    BY <1>2, <1>3

-----------------------------------------------------------------------------
(* Each step keeps the invariant, and does to the content what it answers *)

LEMMA Ranges ==
    ASSUME RawTypes
    PROVE  /\ hash \in [Keys -> Int] /\ len \in Nat /\ order \in Seq(Keys)
           /\ capacity \in {0} \cup Ceilings /\ capacity \in Nat
           /\ entries \in [Ring(capacity) -> Slot] /\ DOMAIN entries = Ring(capacity)
           /\ max_capacity \in Nat
<1>1. /\ capacity \in {0} \cup Ceilings /\ capacity \in Nat
      /\ entries \in [Ring(capacity) -> Slot] /\ DOMAIN entries = Ring(capacity)
    BY TableIs DEF RawTypes, capacity
<1>2. MaxSlots \in Nat
    BY CeilingsAssumption, CeilingsDouble
<1>3. hash \in [Keys -> Int]
    BY <1>2 DEF RawTypes
<1>4. len \in Nat /\ order \in Seq(Keys) /\ max_capacity \in Nat
    BY CeilingsDouble DEF RawTypes
<1> QED
    BY <1>1, <1>3, <1>4

LEMMA TypesKept ==
    ASSUME RawTypes, hash' = hash, NEW n \in {0} \cup Ceilings,
           entries' \in [Ring(n) -> Slot], order' \in Seq(Keys), Distinct(order'),
           len' = Len(order'), max_capacity' \in Ceilings,
           op' \in {Idle} \cup Shifts \cup Rehashes,
           answer'.answer \in {"none", "some", "added", "replaced", "full", "no_memory"}
    PROVE  RawTypes' /\ capacity' = n
BY TableWith DEF RawTypes, capacity

LEMMA LoopsDiffer ==
    /\ Idle.loop = "idle"
    /\ \A o \in Shifts : o.loop = "shift"
    /\ \A o \in Rehashes : o.loop = "rehash"
BY DEF Idle, Shifts, Rehashes

\* At rest again, with this capacity and this order.
LEMMA RestKept ==
    ASSUME RawTypes, hash' = hash, NEW n \in {0} \cup Ceilings, op' = Idle,
           Ordered(hash, n, entries', order'), len' = Len(order'), 2 * len' <= n,
           max_capacity' \in Ceilings,
           answer'.answer \in {"none", "some", "added", "replaced", "full", "no_memory"},
           answer'.answer = "full" => 2 * len' >= max_capacity'
    PROVE  RawInv' /\ capacity' = n /\ Content' = Records(entries')
<1>1. RawTypes' /\ capacity' = n
    BY TypesKept DEF Ordered
<1>2. op'.loop = "idle"
    BY LoopsDiffer
<1>3. AtRest' /\ Rehashing' /\ Shifting' /\ RefusedFull'
    BY <1>1, <1>2 DEF AtRest, Rehashing, Shifting, RefusedFull
<1>4. Content' = Records(entries')
    BY <1>2 DEF Content
<1> QED
    BY <1>1, <1>3, <1>4 DEF RawInv

LEMMA IdleIs ==
    ASSUME RawInv, op = Idle
    PROVE  /\ RawTypes /\ Ordered(hash, capacity, entries, order) /\ 2 * len <= capacity
           /\ len = Len(order) /\ Content = Records(entries)
BY LoopsDiffer DEF RawInv, AtRest, RawTypes, Content

InsertAnswers(k, v) ==
    \/ /\ answer' = Answer(k, "replaced") /\ (\E e \in Content : e.key = k)
       /\ Content' = Updated(Content, k, v)
    \/ /\ answer' = Answer(k, "added") /\ (\A e \in Content : e.key # k)
       /\ Content' = Updated(Content, k, v)
    \/ /\ answer' \in {Answer(k, "full"), Answer(k, "no_memory")}
       /\ (\A e \in Content : e.key # k) /\ Content' = Content

LEMMA InsertInPlaceKeeps ==
    ASSUME RawInv, NEW k \in Keys, NEW v \in Values, InsertInPlace(k, v)
    PROVE  RawInv' /\ InsertAnswers(k, v)
<1>1. /\ RawTypes /\ Ordered(hash, capacity, entries, order) /\ 2 * len <= capacity
      /\ len = Len(order) /\ Content = Records(entries)
    BY IdleIs DEF InsertInPlace
<1>2. hash \in [Keys -> Int] /\ len \in Nat /\ capacity \in {0} \cup Ceilings /\ capacity \in Nat
    BY <1>1, Ranges
<1>3. 2 * (len + 1) <= capacity /\ capacity \in Nat \ {0}
    BY <1>2 DEF InsertInPlace, NeedsGrowth, MAX_LOAD_NUM, MAX_LOAD_DEN
<1>4. PICK n \in Nat \ {0} : n = capacity
    BY <1>3
<1>5. /\ Ordered(hash, n, entries', order') /\ len' = Len(order')
      /\ Records(entries') = Updated(Records(entries), k, v)
      /\ \/ /\ answer' = Answer(k, "replaced") /\ \E e \in Records(entries) : e.key = k
            /\ len' = len
         \/ /\ answer' = Answer(k, "added") /\ \A e \in Records(entries) : e.key # k
            /\ len' = len + 1
    BY <1>1, <1>2, <1>3, <1>4, AddWithRoom DEF InsertInPlace
<1>6. 2 * len' <= n
    BY <1>2, <1>3, <1>4, <1>5
<1>7. answer'.answer \in {"replaced", "added"}
    BY <1>5 DEF Answer
<1>8. hash' = hash /\ op' = Idle /\ max_capacity' \in Ceilings
    BY <1>1 DEF InsertInPlace, RawTypes
<1>9. RawInv' /\ Content' = Records(entries')
    BY <1>1, <1>2, <1>4, <1>5, <1>6, <1>7, <1>8, RestKept
<1> QED
    BY <1>1, <1>5, <1>9 DEF InsertAnswers

LEMMA HoldsSomewhere ==
    ASSUME NEW n \in Nat, NEW cells \in [Ring(n) -> Slot], NEW k, Holds(cells, k)
    PROVE  n # 0
BY DEF Holds, Stops, Ring

LEMMA InsertWithoutRoomKeeps ==
    ASSUME RawInv, NEW k \in Keys, NEW v \in Values, InsertWithoutRoom(k, v)
    PROVE  RawInv' /\ InsertAnswers(k, v)
<1>1. /\ RawTypes /\ Ordered(hash, capacity, entries, order) /\ 2 * len <= capacity
      /\ len = Len(order) /\ Content = Records(entries)
    BY IdleIs DEF InsertWithoutRoom
<1>2. /\ hash \in [Keys -> Int] /\ len \in Nat /\ capacity \in {0} \cup Ceilings /\ capacity \in Nat
      /\ entries \in [Ring(capacity) -> Slot]
    BY <1>1, Ranges
<1>3. PICK n \in {0} \cup Ceilings : n = capacity
    BY <1>2
<1>4. hash' = hash /\ op' = Idle /\ max_capacity' = max_capacity /\ max_capacity \in Ceilings
    BY <1>1 DEF InsertWithoutRoom, RawTypes
<1>5. CASE Replace(k, v)
    <2>1. Holds(entries, k) /\ n \in Nat \ {0}
        BY <1>2, <1>3, <1>5, HoldsSomewhere DEF Replace
    <2>2. /\ Ordered(hash, n, Store(entries, k, v), order)
          /\ Records(Store(entries, k, v)) = Updated(Records(entries), k, v)
          /\ \E e \in Records(entries) : e.key = k
        BY <2>1, <1>1, <1>2, <1>3, StoreOver
    <2>3. /\ entries' = Store(entries, k, v) /\ answer' = Answer(k, "replaced")
          /\ len' = len /\ order' = order
        BY <1>5 DEF Replace
    <2>4. answer'.answer = "replaced"
        BY <2>3 DEF Answer
    <2>5. RawInv' /\ Content' = Records(entries')
        BY <2>2, <2>3, <2>4, <1>1, <1>3, <1>4, RestKept
    <2> QED
        BY <2>2, <2>3, <2>5, <1>1 DEF InsertAnswers
<1>6. CASE ~ Replace(k, v)
    <2>1. /\ ~ Holds(entries, k) /\ entries' = entries /\ len' = len /\ order' = order
          /\ answer' = Answer(k, IF NewCapacity > max_capacity THEN "full" ELSE "no_memory")
        BY <1>6 DEF InsertWithoutRoom
    <2>2. \A e \in Records(entries) : e.key # k
        <3>1. CASE n = 0
            BY <3>1, <1>2, <1>3 DEF Records, Ring
        <3>2. CASE n # 0
            <4>1. n \in Nat \ {0}
                BY <3>2, <1>2, <1>3
            <4>2. \A p \in Ring(n) : KeysOf(entries)[p] # k
                BY <4>1, <2>1, <1>1, <1>2, <1>3, OrderedHolds
            <4> QED
                BY <4>1, <4>2, <1>2, <1>3, NoRecordOf
        <3> QED
            BY <3>1, <3>2
    <2>3. answer'.answer = (IF NewCapacity > max_capacity THEN "full" ELSE "no_memory")
        BY <2>1 DEF Answer
    <2>4. ASSUME NewCapacity > max_capacity PROVE 2 * len >= max_capacity
        <3>1. MIN_CAPACITY \in Nat /\ max_capacity \in Nat
            BY <1>4, CeilingsAssumption, CeilingsDouble
        <3>2. n # 0
            BY <2>4, <3>1, <1>3 DEF NewCapacity
        <3>3. n \in Ceilings /\ 2 * n > max_capacity
            BY <2>4, <3>2, <1>3 DEF NewCapacity
        <3>4. n >= max_capacity
            BY <3>1, <3>3, <1>2, <1>3, <1>4, CeilingsDouble
        <3>5. PICK d \in Nat : n = 2 * d
            BY <3>3, CeilingsDouble
        <3>6. 2 * (len + 1) > n
            BY <1>2, <1>3 DEF InsertWithoutRoom, NeedsGrowth, MAX_LOAD_NUM, MAX_LOAD_DEN
        <3> QED
            BY <3>1, <3>4, <3>5, <3>6, <1>2
    <2>5. RawInv' /\ Content' = Records(entries')
        BY <2>1, <2>3, <2>4, <1>1, <1>3, <1>4, RestKept
    <2> QED
        BY <2>1, <2>2, <2>5, <1>1 DEF InsertAnswers
<1> QED
    BY <1>5, <1>6

LEMMA NoRecords ==
    ASSUME NEW n \in Nat
    PROVE  Records(Empty(n)) = {}
BY DEF Records, Empty

LEMMA GrowKeeps ==
    ASSUME RawInv, NEW k \in Keys, NEW v \in Values, Grow(k, v)
    PROVE  RawInv' /\ Content' = Content /\ answer' = answer
<1>1. /\ RawTypes /\ Ordered(hash, capacity, entries, order) /\ 2 * len <= capacity
      /\ len = Len(order) /\ Content = Records(entries)
    BY IdleIs DEF Grow
<1>2. /\ hash \in [Keys -> Int] /\ len \in Nat /\ capacity \in {0} \cup Ceilings /\ capacity \in Nat
      /\ entries \in [Ring(capacity) -> Slot] /\ entries \in SlotArrays
    BY <1>1, Ranges DEF RawTypes
<1>3. PICK n : n = NewCapacity
    OBVIOUS
<1>4. n \in Ceilings /\ (capacity = 0 \/ n = 2 * capacity)
    <2>1. /\ max_capacity \in Ceilings /\ MIN_CAPACITY \in Ceilings
          /\ NewCapacity <= max_capacity
        BY <1>1, CeilingsAssumption DEF RawTypes, Grow
    <2>2. CASE capacity # 0
        <3>1. capacity \in Ceilings /\ n = 2 * capacity /\ n <= max_capacity
            BY <2>1, <2>2, <1>2, <1>3 DEF NewCapacity
        <3> QED
            BY <3>1, <2>1, CeilingsDouble
    <2>3. CASE capacity = 0
        BY <2>1, <2>3, <1>3 DEF NewCapacity
    <2> QED
        BY <2>2, <2>3
<1>5. n \in Nat
    BY <1>4, CeilingsDouble
<1>6. PICK o : o = [loop |-> "rehash", key |-> k, value |-> v, old |-> entries, index |-> 0]
    OBVIOUS
<1>7. /\ entries' = Empty(n) /\ len' = 0 /\ order' = << >> /\ op' = o
      /\ hash' = hash /\ max_capacity' = max_capacity /\ answer' = answer
    BY <1>3, <1>6 DEF Grow
<1>8. o \in Rehashes /\ o.loop = "rehash" /\ o.old = entries /\ o.index = 0
    BY <1>2, <1>6 DEF Rehashes
<1>9. Ordered(hash, n, entries', order')
    BY <1>5, <1>7, EmptyOrdered
<1>10. Len(order') = 0
    BY <1>7
<1>11. RawTypes' /\ capacity' = n
    BY <1>1, <1>4, <1>7, <1>8, <1>9, <1>10, TypesKept DEF Ordered, RawTypes
<1>12. Rehashed(entries', entries, 0)
    <2>1. Records(entries') = {}
        BY <1>5, <1>7, NoRecords
    <2>2. \A p \in DOMAIN entries : ~ (p < 0)
        BY <1>2 DEF Ring
    <2> QED
        BY <2>1, <2>2 DEF Rehashed
<1>13. /\ OneSlotEach(capacity, KeysOf(entries))
       /\ 2 * Cardinality(Filled(capacity, KeysOf(entries))) <= capacity
    BY <1>1, <1>2, OrderedSpace
<1>14. Rehashing'
    <2>1. op'.old = entries /\ op'.index = 0
        BY <1>7, <1>8
    <2>2. Ordered(hash', capacity', entries', order') /\ capacity' \in Ceilings
        BY <1>4, <1>7, <1>9, <1>11
    <2>3. Capacity(entries) = 0 \/ capacity' = 2 * Capacity(entries)
        BY <1>4, <1>11 DEF capacity
    <2>4. 0 <= Capacity(entries)
        BY <1>2 DEF capacity
    <2>5. /\ OneSlotEach(Capacity(entries), KeysOf(entries))
          /\ 2 * Cardinality(Filled(Capacity(entries), KeysOf(entries))) <= Capacity(entries)
        BY <1>13 DEF capacity
    <2> QED
        BY <2>1, <2>2, <2>3, <2>4, <2>5, <1>12 DEF Rehashing
<1>15. AtRest' /\ Shifting' /\ RefusedFull'
    BY <1>7, <1>8 DEF AtRest, Shifting, RefusedFull
<1>16. Content' = Records(entries)
    BY <1>7, <1>8 DEF Content
<1> QED
    BY <1>1, <1>7, <1>11, <1>14, <1>15, <1>16 DEF RawInv

\* What holds while old slots are rehashed.
LEMMA RehashIs ==
    ASSUME RawInv, op.loop = "rehash", NEW old, old = op.old, NEW C, C = Capacity(old)
    PROVE  /\ RawTypes /\ op \in Rehashes
           /\ Ordered(hash, capacity, entries, order) /\ capacity \in Ceilings /\ capacity \in Nat \ {0}
           /\ C \in Nat /\ old \in [Ring(C) -> Slot] /\ DOMAIN old = Ring(C)
           /\ C = 0 \/ capacity = 2 * C
           /\ op.index \in Nat /\ op.index <= C /\ OneSlotEach(C, KeysOf(old))
           /\ Rehashed(entries, old, op.index)
           /\ Content = Records(old)
           /\ 2 * len <= C /\ 2 * (len + 1) <= capacity
<1>1. RawTypes /\ op \in Rehashes
    BY LoopsDiffer DEF RawInv, RawTypes
<1>2. old \in SlotArrays /\ op.index \in Nat
    BY <1>1 DEF Rehashes
<1>3. C \in Nat /\ old \in [Ring(C) -> Slot] /\ DOMAIN old = Ring(C)
    BY <1>2, TableIs
<1>4. /\ Ordered(hash, capacity, entries, order)
      /\ capacity \in Ceilings /\ (C = 0 \/ capacity = 2 * C)
      /\ op.index <= C
      /\ OneSlotEach(C, KeysOf(old))
      /\ 2 * Cardinality(Filled(C, KeysOf(old))) <= C
      /\ Rehashed(entries, old, op.index)
    BY DEF RawInv, Rehashing
<1>5. /\ hash \in [Keys -> Int] /\ len \in Nat /\ len = Len(order) /\ capacity \in Nat \ {0}
      /\ entries \in [Ring(capacity) -> Slot]
    BY <1>1, <1>4, Ranges, CeilingsDouble DEF RawTypes
<1>6. Content = Records(old)
    BY DEF Content
<1>7. 2 * len <= C
    <2> DEFINE F == Filled(capacity, KeysOf(entries))
               G == Filled(C, KeysOf(old))
               f == [p \in F |-> CHOOSE q \in G : old[q] = entries[p]]
    <2>1. IsFiniteSet(F) /\ Cardinality(F) = len /\ OneSlotEach(capacity, KeysOf(entries))
        BY <1>4, <1>5, OrderedSpace
    <2>2. IsFiniteSet(G)
        <3>1. IsFiniteSet(Ring(C)) /\ G \in SUBSET Ring(C)
            BY <1>3, FS_Interval DEF Ring, Filled
        <3> QED
            BY <3>1, FS_Subset
    <2>3. ASSUME NEW p \in F
          PROVE  /\ \E q \in G : old[q] = entries[p]
                 /\ entries[p].key = KeysOf(entries)[p]
        <3>1. entries[p] \in Records(entries) /\ entries[p].key = KeysOf(entries)[p]
            BY <1>5, RecordsOf DEF Filled
        <3>2. PICK q \in Ring(C) : old[q] = entries[p]
            BY <3>1, <1>3, <1>4 DEF Rehashed
        <3>3. old[q] # NoEntry
            BY <3>1, <3>2 DEF Records
        <3>4. q \in G
            BY <3>3, <1>3, KeysAreKeys DEF Filled
        <3> QED
            BY <3>1, <3>2, <3>4
    <2>4. \A p \in F : f[p] \in G /\ old[f[p]] = entries[p]
        BY <2>3
    <2>5. f \in [F -> G]
        BY <2>3
    <2> HIDE DEF f
    <2>6. \A p, q \in F : f[p] = f[q] => p = q
        BY <2>1, <2>3, <2>4 DEF OneSlotEach
    <2>7. f \in Injection(F, G)
        BY <2>5, <2>6 DEF Injection, IsInjective
    <2>8. Cardinality(F) <= Cardinality(G)
        BY <2>2, <2>7, FS_Injection
    <2>9. Cardinality(G) \in Nat
        BY <2>2, FS_CardinalityType
    <2> QED
        BY <2>1, <2>8, <2>9, <1>3, <1>4, <1>5
<1>8. capacity >= 2
    BY <1>4, CeilingsDouble
<1>9. 2 * (len + 1) <= capacity
    <2>1. CASE C = 0
        BY <2>1, <1>5, <1>7, <1>8
    <2>2. CASE capacity = 2 * C
        BY <2>2, <1>3, <1>5, <1>7, <1>8
    <2> QED
        BY <2>1, <2>2, <1>4
<1> QED
    BY <1>1, <1>2, <1>3, <1>4, <1>5, <1>6, <1>7, <1>9

LEMMA GrownKeeps ==
    ASSUME RawInv, Grown
    PROVE  RawInv' /\ \E k \in Keys, v \in Values : InsertAnswers(k, v)
<1>1. PICK old : old = op.old
    OBVIOUS
<1>2. PICK C : C = Capacity(old)
    OBVIOUS
<1>3. op.loop = "rehash"
    BY DEF Grown
<1>4. /\ RawTypes /\ op \in Rehashes
      /\ Ordered(hash, capacity, entries, order) /\ capacity \in Ceilings /\ capacity \in Nat \ {0}
      /\ C \in Nat /\ old \in [Ring(C) -> Slot] /\ DOMAIN old = Ring(C)
      /\ op.index \in Nat /\ op.index <= C
      /\ Rehashed(entries, old, op.index)
      /\ Content = Records(old)
      /\ 2 * (len + 1) <= capacity
    BY <1>1, <1>2, <1>3, RehashIs
<1>5. Records(entries) = Content
    <2>1. op.index \notin Ring(C)
        BY <1>1, <1>4 DEF Grown
    <2>2. \A p \in Ring(C) : p < op.index
        BY <2>1, <1>4 DEF Ring
    <2> QED
        BY <2>2, <1>4 DEF Rehashed, Records
<1>6. PICK n \in Nat \ {0} : n = capacity /\ n \in Ceilings
    BY <1>4
<1>7. PICK k \in Keys, v \in Values : k = op.key /\ v = op.value
    BY <1>4 DEF Rehashes
<1>8. /\ hash \in [Keys -> Int] /\ len \in Nat /\ len = Len(order)
    BY <1>4, Ranges DEF RawTypes
<1>9. Add(k, v) /\ hash' = hash /\ op' = Idle /\ max_capacity' \in Ceilings
    BY <1>4, <1>7 DEF Grown, RawTypes
<1>10. /\ Ordered(hash, n, entries', order') /\ len' = Len(order')
       /\ Records(entries') = Updated(Records(entries), k, v)
       /\ \/ /\ answer' = Answer(k, "replaced") /\ \E e \in Records(entries) : e.key = k
             /\ len' = len
          \/ /\ answer' = Answer(k, "added") /\ \A e \in Records(entries) : e.key # k
             /\ len' = len + 1
    BY <1>4, <1>6, <1>8, <1>9, AddWithRoom
<1>11. 2 * len' <= n
    BY <1>4, <1>6, <1>8, <1>10
<1>12. answer'.answer \in {"replaced", "added"}
    BY <1>10 DEF Answer
<1>13. RawInv' /\ Content' = Records(entries')
    BY <1>4, <1>6, <1>9, <1>10, <1>11, <1>12, RestKept
<1>14. InsertAnswers(k, v)
    BY <1>5, <1>10, <1>13 DEF InsertAnswers
<1> QED
    BY <1>13, <1>14

LEMMA RehashKeeps ==
    ASSUME RawInv, Rehash
    PROVE  RawInv' /\ Content' = Content /\ answer' = answer
<1>1. PICK old : old = op.old
    OBVIOUS
<1>2. PICK C : C = Capacity(old)
    OBVIOUS
<1>3. op.loop = "rehash"
    BY DEF Rehash
<1>4. /\ RawTypes /\ op \in Rehashes
      /\ Ordered(hash, capacity, entries, order) /\ capacity \in Ceilings /\ capacity \in Nat \ {0}
      /\ C \in Nat /\ old \in [Ring(C) -> Slot] /\ DOMAIN old = Ring(C)
      /\ C = 0 \/ capacity = 2 * C
      /\ op.index \in Nat /\ OneSlotEach(C, KeysOf(old))
      /\ Rehashed(entries, old, op.index)
      /\ Content = Records(old)
      /\ 2 * (len + 1) <= capacity
    BY <1>1, <1>2, <1>3, RehashIs
<1>5. PICK i \in Ring(C) : i = op.index
    BY <1>1, <1>4 DEF Rehash
<1>6. PICK n \in Nat \ {0} : n = capacity /\ n \in Ceilings
    BY <1>4
<1>7. /\ hash \in [Keys -> Int] /\ len \in Nat /\ len = Len(order) /\ order \in Seq(Keys)
      /\ entries \in [Ring(n) -> Slot]
    BY <1>4, <1>6, Ranges DEF RawTypes
<1>8. PICK o : o = op'
    OBVIOUS
<1>9. /\ o \in Rehashes /\ o.loop = "rehash" /\ o.old = old /\ o.index = i + 1
      /\ hash' = hash /\ max_capacity' = max_capacity /\ answer' = answer
    BY <1>1, <1>4, <1>5, <1>8 DEF Rehash, Rehashes
<1>10. /\ Ordered(hash, n, entries', order') /\ len' = Len(order')
       /\ Rehashed(entries', old, i + 1)
    <2>1. CASE old[i] = NoEntry
        <3>1. entries' = entries /\ len' = len /\ order' = order
            BY <1>1, <1>5, <2>1 DEF Rehash
        <3>2. Rehashed(entries, old, i + 1)
            <4>1. ASSUME NEW e \in Records(entries) PROVE \E p \in DOMAIN old : p < i + 1 /\ old[p] = e
                <5>1. PICK p \in DOMAIN old : p < i /\ old[p] = e
                    BY <1>4, <1>5 DEF Rehashed
                <5>2. p < i + 1
                    BY <5>1, <1>4 DEF Ring
                <5> QED
                    BY <5>1, <5>2
            <4>2. ASSUME NEW p \in DOMAIN old, p < i + 1, old[p] # NoEntry
                  PROVE  old[p] \in Records(entries)
                <5>1. p # i
                    BY <2>1, <4>2
                <5>2. p < i
                    BY <5>1, <4>2, <1>4 DEF Ring
                <5> QED
                    BY <5>2, <4>2, <1>4, <1>5 DEF Rehashed
            <4> QED
                BY <4>1, <4>2 DEF Rehashed
        <3> QED
            BY <3>1, <3>2, <1>4, <1>6, <1>7
    <2>2. CASE old[i] # NoEntry
        <3>1. PICK e : e = old[i]
            OBVIOUS
        <3>2. e \in [key : Keys, value : Values] /\ KeysOf(old)[i] = e.key /\ e \in Records(old)
            BY <2>2, <3>1, <1>4, KeysAreKeys, RecordsOf
        <3>3. PICK k \in Keys, v \in Values : k = e.key /\ v = e.value /\ e = [key |-> k, value |-> v]
            BY <3>2
        <3>4. /\ entries' = Store(entries, k, v) /\ len' = len + 1 /\ order' = Append(order, k)
            BY <2>2, <3>1, <3>3, <1>1, <1>5 DEF Rehash
        <3>5. \A p \in Ring(n) : KeysOf(entries)[p] # k
            <4> SUFFICES ASSUME NEW p \in Ring(n), KeysOf(entries)[p] = k PROVE FALSE
                OBVIOUS
            <4>1. entries[p] \in Records(entries) /\ entries[p].key = k
                BY <1>7, NoEntryIsNoKey, RecordsOf
            <4>2. PICK q \in Ring(C) : q < i /\ old[q] = entries[p]
                BY <4>1, <1>4, <1>5 DEF Rehashed
            <4>3. old[q] # NoEntry
                BY <4>1, <4>2 DEF Records
            <4>4. KeysOf(old)[q] = k /\ q \in Filled(C, KeysOf(old)) /\ i \in Filled(C, KeysOf(old))
                BY <4>1, <4>2, <4>3, <2>2, <1>4, KeysAreKeys DEF Filled
            <4>5. q = i
                BY <4>4, <3>2, <3>3, <1>4 DEF OneSlotEach
            <4> QED
                BY <4>2, <4>5 DEF Ring
        <3>6. Len(order) < n
            BY <1>4, <1>6, <1>7
        <3>7. Ordered(hash, n, Store(entries, k, v), Append(order, k))
            BY <3>5, <3>6, <1>4, <1>6, <1>7, StoreNew
        <3>8. PICK q \in Ring(n) :
                 /\ entries[q] = NoEntry
                 /\ Store(entries, k, v) = [entries EXCEPT ![q] = [key |-> k, value |-> v]]
            BY <3>5, <3>6, <1>4, <1>6, <1>7, StoreNew
        <3>9. PICK w : w = entries'
            OBVIOUS
        <3>10. /\ DOMAIN w = Ring(n) /\ w[q] = [key |-> k, value |-> v]
               /\ \A p \in Ring(n) : p # q => w[p] = entries[p]
            BY <3>4, <3>8, <3>9, <1>7
        <3>11. Records(w) = Records(entries) \cup {e}
            <4>1. n \in Nat /\ entries[q] = NoEntry /\ entries \in [Ring(n) -> Slot]
                BY <3>8, <1>7
            <4>2. Records(w) = Records(entries) \cup {[key |-> k, value |-> v]}
                BY <4>1, <3>5, <3>10, StoreNewRecords
            <4> QED
                BY <4>2, <3>3
        <3>12. Rehashed(w, old, i + 1)
            <4>1. ASSUME NEW x \in Records(w) PROVE \E p \in DOMAIN old : p < i + 1 /\ old[p] = x
                <5>1. CASE x = e
                    <6>1. i \in DOMAIN old /\ i < i + 1
                        BY <1>4 DEF Ring
                    <6> QED
                        BY <6>1, <5>1, <3>1
                <5>2. CASE x # e
                    <6>1. PICK p \in DOMAIN old : p < i /\ old[p] = x
                        BY <5>2, <3>11, <1>4, <1>5 DEF Rehashed
                    <6>2. p < i + 1
                        BY <6>1, <1>4 DEF Ring
                    <6> QED
                        BY <6>1, <6>2
                <5> QED
                    BY <5>1, <5>2
            <4>2. ASSUME NEW p \in DOMAIN old, p < i + 1, old[p] # NoEntry
                  PROVE  old[p] \in Records(w)
                <5>1. CASE p = i
                    BY <5>1, <3>1, <3>11
                <5>2. CASE p # i
                    <6>1. p < i
                        BY <5>2, <4>2, <1>4 DEF Ring
                    <6> QED
                        BY <6>1, <4>2, <3>11, <1>4, <1>5 DEF Rehashed
                <5> QED
                    BY <5>1, <5>2
            <4> QED
                BY <4>1, <4>2 DEF Rehashed
        <3>13. len' = Len(order')
            BY <3>4, <1>7, AppendProperties
        <3> QED
            BY <3>4, <3>7, <3>9, <3>12, <3>13
    <2> QED
        BY <2>1, <2>2
<1>11. RawTypes' /\ capacity' = n
    <2>1. op' \in {Idle} \cup Shifts \cup Rehashes
        BY <1>8, <1>9
    <2>2. entries' \in [Ring(n) -> Slot] /\ order' \in Seq(Keys) /\ Distinct(order')
        BY <1>10 DEF Ordered
    <2>3. /\ max_capacity' \in Ceilings
          /\ answer'.answer \in {"none", "some", "added", "replaced", "full", "no_memory"}
        BY <1>4, <1>9 DEF RawTypes
    <2> QED
        BY <2>1, <2>2, <2>3, <1>4, <1>6, <1>9, <1>10, TypesKept
<1>12. Rehashing'
    <2>1. op'.old = old /\ op'.index = i + 1
        BY <1>8, <1>9
    <2>2. Ordered(hash', capacity', entries', order') /\ capacity' \in Ceilings
        BY <1>6, <1>9, <1>10, <1>11
    <2>3. Capacity(old) = 0 \/ capacity' = 2 * Capacity(old)
        BY <1>2, <1>4, <1>6, <1>11
    <2>4. i + 1 <= Capacity(old)
        BY <1>2, <1>4 DEF Ring
    <2>5. /\ OneSlotEach(Capacity(old), KeysOf(old))
          /\ 2 * Cardinality(Filled(Capacity(old), KeysOf(old))) <= Capacity(old)
        BY <1>1, <1>2, <1>3, <1>4 DEF RawInv, Rehashing
    <2> QED
        BY <2>1, <2>2, <2>3, <2>4, <2>5, <1>10 DEF Rehashing
<1>13. AtRest' /\ Shifting' /\ RefusedFull'
    BY <1>8, <1>9 DEF AtRest, Shifting, RefusedFull
<1>14. Content' = Content
    BY <1>4, <1>8, <1>9 DEF Content
<1> QED
    BY <1>9, <1>11, <1>12, <1>13, <1>14 DEF RawInv

RemoveAnswers(k) ==
    \/ /\ answer' = Answer(k, "none") /\ (\A e \in Content : e.key # k)
       /\ Content' = Content
    \/ \E e \in Content :
          /\ e.key = k /\ answer' = Gives(k, e.value)
          /\ Content' = {x \in Content : x.key # k}

LEMMA VacatedKeys ==
    ASSUME NEW n \in Nat, NEW cells \in [Ring(n) -> Slot], NEW gap \in Ring(n)
    PROVE  /\ Vacated(cells, gap) \in KeyTables(n) /\ Vacated(cells, gap)[gap] = NoEntry
           /\ \A p \in Ring(n) : p # gap => Vacated(cells, gap)[p] = KeysOf(cells)[p]
BY KeysAreKeys DEF Vacated, KeyTables

LEMMA RemoveKeeps ==
    ASSUME RawInv, NEW k \in Keys, Remove(k)
    PROVE  RawInv' /\ RemoveAnswers(k)
<1>1. /\ RawTypes /\ Ordered(hash, capacity, entries, order) /\ 2 * len <= capacity
      /\ len = Len(order) /\ Content = Records(entries)
    BY IdleIs DEF Remove
<1>2. /\ hash \in [Keys -> Int] /\ len \in Nat /\ capacity \in {0} \cup Ceilings /\ capacity \in Nat
      /\ entries \in [Ring(capacity) -> Slot] /\ order \in Seq(Keys) /\ Distinct(order)
      /\ max_capacity \in Ceilings
    BY <1>1, Ranges DEF RawTypes
<1>3. PICK n \in {0} \cup Ceilings : n = capacity
    BY <1>2
<1>4. hash' = hash /\ entries' = entries /\ max_capacity' = max_capacity
    BY DEF Remove
<1>5. CASE ~ Holds(entries, k)
    <2>1. /\ op' = Idle /\ len' = len /\ order' = order /\ answer' = Answer(k, "none")
        BY <1>5 DEF Remove
    <2>2. answer'.answer = "none"
        BY <2>1 DEF Answer
    <2>3. RawInv' /\ Content' = Records(entries')
        BY <2>1, <2>2, <1>1, <1>2, <1>3, <1>4, RestKept
    <2>4. \A e \in Records(entries) : e.key # k
        <3>1. CASE n = 0
            BY <3>1, <1>2, <1>3 DEF Records, Ring
        <3>2. CASE n # 0
            <4>1. n \in Nat \ {0}
                BY <3>2, <1>2, <1>3
            <4>2. \A p \in Ring(n) : KeysOf(entries)[p] # k
                BY <4>1, <1>5, <1>1, <1>2, <1>3, OrderedHolds
            <4> QED
                BY <4>1, <4>2, <1>2, <1>3, NoRecordOf
        <3> QED
            BY <3>1, <3>2
    <2> QED
        BY <2>1, <2>3, <2>4, <1>1, <1>4 DEF RemoveAnswers
<1>6. CASE Holds(entries, k)
    <2>1. n \in Nat \ {0} /\ n \in Ceilings
        BY <1>2, <1>3, <1>6, HoldsSomewhere
    <2>2. PICK gap \in Ring(n) : KeysOf(entries)[gap] = k
        BY <2>1, <1>1, <1>2, <1>3, <1>6, OrderedHolds
    <2>3. Stop(entries, k) = gap
        BY <2>1, <2>2, <1>1, <1>2, <1>3, OrderedHolds
    <2>4. PICK t : t = KeysOf(entries)
        OBVIOUS
    <2>5. /\ t \in KeyTables(n) /\ Arranged(hash, n, t, order) /\ Lists(n, t, order)
          /\ gap \in Filled(n, t) /\ t[gap] = k
        BY <2>2, <2>4, <1>1, <1>2, <1>3, KeysAreKeys, NoEntryIsNoKey DEF Ordered, Filled
    <2>6. PICK i : i = CHOOSE j \in DOMAIN order : order[j] = k
        OBVIOUS
    <2>7. i \in 1..Len(order) /\ order[i] = k
        <3>1. \E j \in 1..Len(order) : order[j] = k
            BY <2>5 DEF Lists
        <3>2. DOMAIN order = 1..Len(order)
            BY <1>2
        <3> QED
            BY <3>1, <3>2, <2>6
    <2>8. PICK u : u = S!RemoveAt(order, i)
        OBVIOUS
    <2>9. PICK w : w = Vacated(entries, gap)
        OBVIOUS
    <2>10. w \in KeyTables(n) /\ w[gap] = NoEntry /\ \A p \in Ring(n) : p # gap => w[p] = t[p]
        BY <2>1, <2>4, <2>9, <1>2, <1>3, VacatedKeys
    <2>11. /\ w \in KeyTables(n) /\ w[gap] = NoEntry
           /\ ArrangedBut(hash, n, w, u, gap, gap) /\ Run(n, w, gap, gap)
           /\ Lists(n, w, u) /\ Walked(n, w, gap, gap, n)
        BY <2>1, <2>5, <2>7, <2>8, <2>10, <1>2, GapOpens, NoEntryIsNoKey
    <2>12. LeavesOut(order, i, u)
        BY <2>7, <2>8, <1>2, RemovedOrder
    <2>13. /\ answer' = Gives(k, entries[gap].value) /\ len' = len - 1 /\ order' = u
        BY <2>3, <2>6, <2>8, <1>6 DEF Remove, Without
    <2>14. PICK o : o = op'
        OBVIOUS
    <2>15. /\ o \in Shifts /\ o.loop = "shift" /\ o.key = k /\ o.gap = gap /\ o.index = gap /\ o.left = n
        <3>1. o = [loop |-> "shift", key |-> k, gap |-> gap, index |-> gap, left |-> n]
            BY <2>3, <2>14, <1>3, <1>6 DEF Remove
        <3>2. gap \in Nat
            BY <2>1, <2>2 DEF Ring
        <3> QED
            BY <3>1, <3>2, <2>1 DEF Shifts
    <2>16. answer'.answer = "some"
        BY <2>13 DEF Gives
    <2>17. /\ order' \in Seq(Keys) /\ Distinct(order') /\ len' = Len(order')
        BY <2>12, <2>13, <1>1 DEF LeavesOut
    <2>18. RawTypes' /\ capacity' = n
        <3>1. op' \in {Idle} \cup Shifts \cup Rehashes
            BY <2>14, <2>15
        <3>2. entries' \in [Ring(n) -> Slot]
            BY <1>2, <1>3, <1>4
        <3> QED
            BY <3>1, <3>2, <2>16, <2>17, <1>1, <1>2, <1>4, TypesKept
    <2>19. entries[gap] \in Records(entries) /\ entries[gap].key = k /\ entries[gap] # NoEntry
        BY <2>2, <1>2, <1>3, RecordsOf, NoEntryIsNoKey DEF Records
    <2>20. Shifting'
        <3>1. op'.gap = gap /\ op'.index = gap /\ op'.key = k /\ op'.left = n
            BY <2>14, <2>15
        <3>2. Vacated(entries', gap) = w
            BY <2>9, <1>4
        <3>3. 2 * (len' + 1) <= n
            BY <2>13, <1>1, <1>2, <1>3
        <3>4. \A a \in 1..Len(u) : u[a] # k
            BY <2>7, <2>12 DEF LeavesOut
        <3>5. answer'.answer # "full"
            BY <2>16
        <3> QED
            BY <3>1, <3>2, <3>3, <3>4, <3>5, <2>1, <2>2, <2>11, <2>13, <2>18, <2>19, <1>4 DEF Shifting
    <2>21. AtRest' /\ Rehashing' /\ RefusedFull'
        BY <2>14, <2>15 DEF AtRest, Rehashing, RefusedFull
    <2>22. Content' = {x \in Records(entries) : x.key # k}
        BY <2>14, <2>15, <1>4 DEF Content
    <2>23. RawInv'
        BY <2>18, <2>20, <2>21 DEF RawInv
    <2>24. RemoveAnswers(k)
        <3>1. PICK e \in Records(entries) : e = entries[gap]
            BY <2>19
        <3>2. e.key = k /\ answer' = Gives(k, e.value)
            BY <3>1, <2>13, <2>19
        <3> QED
            BY <3>2, <2>22, <1>1 DEF RemoveAnswers
    <2> QED
        BY <2>23, <2>24
<1> QED
    BY <1>5, <1>6

\* What holds while a removal closes its gap.
LEMMA ShiftIs ==
    ASSUME RawInv, op.loop = "shift", NEW n, n = capacity, NEW gap, gap = op.gap,
           NEW t, t = Vacated(entries, gap)
    PROVE  /\ RawTypes /\ op \in Shifts /\ op.left \in Nat
           /\ n \in Nat \ {0} /\ n \in Ceilings /\ 2 * (len + 1) <= n
           /\ gap \in Ring(n) /\ op.index \in Ring(n)
           /\ entries \in [Ring(n) -> Slot] /\ t \in KeyTables(n) /\ t[gap] = NoEntry
           /\ \A p \in Ring(n) : p # gap => t[p] = KeysOf(entries)[p]
           /\ ArrangedBut(hash, n, t, order, gap, op.index) /\ Lists(n, t, order)
           /\ Run(n, t, gap, op.index) /\ Walked(n, t, gap, op.index, op.left)
           /\ \E e \in Ring(n) : e # gap /\ t[e] = NoEntry
           /\ OneSlotEach(n, t)
<1>1. RawTypes /\ op \in Shifts
    BY LoopsDiffer DEF RawInv, RawTypes
<1>2. op.left \in Nat
    BY <1>1 DEF Shifts
<1>3. /\ n \in Ceilings /\ 2 * (len + 1) <= n
      /\ gap \in Ring(n) /\ op.index \in Ring(n)
      /\ ArrangedBut(hash, n, t, order, gap, op.index) /\ Lists(n, t, order)
      /\ Run(n, t, gap, op.index) /\ Walked(n, t, gap, op.index, op.left)
    BY DEF RawInv, Shifting
<1>4. n \in Nat \ {0} /\ n >= 2
    BY <1>3, CeilingsDouble
<1>5. entries \in [Ring(n) -> Slot] /\ hash \in [Keys -> Int] /\ len \in Nat
    BY <1>1, Ranges
<1>6. /\ t \in KeyTables(n) /\ t[gap] = NoEntry
      /\ \A p \in Ring(n) : p # gap => t[p] = KeysOf(entries)[p]
    BY <1>3, <1>4, <1>5, VacatedKeys
<1>7. order \in Seq(Keys) /\ Distinct(order) /\ len = Len(order)
    BY <1>1 DEF RawTypes
<1>8. OneSlotEach(n, t)
    BY <1>3, <1>4, <1>5, <1>6, <1>7, ArrangedButOneSlotEach
<1>9. \E e \in Ring(n) : e # gap /\ t[e] = NoEntry
    <2> SUFFICES ASSUME \A e \in Ring(n) : e # gap => t[e] # NoEntry PROVE FALSE
        OBVIOUS
    <2>1. Filled(n, t) = Ring(n) \ {gap}
        BY <1>6 DEF Filled
    <2>2. Cardinality(Filled(n, t)) = len
        BY <1>3, <1>4, <1>7, <1>8, FilledCount, NoEntryIsNoKey
    <2>3. IsFiniteSet(Ring(n)) /\ Cardinality(Ring(n)) = n
        BY <1>4, FS_Interval DEF Ring
    <2>4. Cardinality(Ring(n) \ {gap}) = n - 1
        BY <2>3, <1>3, FS_RemoveElement
    <2> QED
        BY <2>1, <2>2, <2>4, <1>3, <1>4, <1>5
<1> QED
    BY <1>1, <1>2, <1>3, <1>4, <1>5, <1>6, <1>8, <1>9

\* The records beside the one in the gap are the content.
LEMMA ShiftContent ==
    ASSUME RawInv, op.loop = "shift", NEW n, n = capacity, NEW gap, gap = op.gap
    PROVE  Content = {entries[p] : p \in Ring(n) \ {gap}} \ {NoEntry}
<1>1. PICK t : t = Vacated(entries, gap)
    OBVIOUS
<1>2. /\ n \in Nat \ {0} /\ gap \in Ring(n) /\ entries \in [Ring(n) -> Slot] /\ Lists(n, t, order)
      /\ \A p \in Ring(n) : p # gap => t[p] = KeysOf(entries)[p]
    BY <1>1, ShiftIs
<1>3. /\ \A a \in 1..Len(order) : order[a] # op.key
      /\ \/ entries[gap].key = op.key
         \/ \E p \in Ring(n) : p # gap /\ entries[p] = entries[gap]
    BY DEF RawInv, Shifting
<1>4. Content = {e \in Records(entries) : e.key # op.key}
    BY DEF Content
<1>5. DOMAIN entries = Ring(n)
    BY <1>2
<1>6. ASSUME NEW p \in Ring(n), p # gap, entries[p] # NoEntry
      PROVE  entries[p] \in Content
    <2>1. entries[p] \in Records(entries) /\ t[p] = entries[p].key /\ t[p] # NoEntry
        BY <1>2, <1>6, RecordsOf, KeysAreKeys
    <2>2. PICK a \in 1..Len(order) : order[a] = t[p]
        BY <2>1, <1>2 DEF Lists, Filled
    <2> QED
        BY <2>1, <2>2, <1>3, <1>4
<1>7. ASSUME NEW e \in Content
      PROVE  e # NoEntry /\ \E p \in Ring(n) \ {gap} : entries[p] = e
    <2>1. e # NoEntry /\ e.key # op.key
        BY <1>4 DEF Records
    <2>2. PICK p \in Ring(n) : entries[p] = e
        BY <1>4, <1>5 DEF Records
    <2> QED
        BY <2>1, <2>2, <1>3
<1> QED
    BY <1>6, <1>7

LEMMA ShiftContents ==
    RawInv /\ op.loop = "shift" =>
        Content = {entries[p] : p \in Ring(capacity) \ {op.gap}} \ {NoEntry}
BY ShiftContent

LEMMA ShiftContentsNext ==
    (RawInv /\ op.loop = "shift" =>
        Content = {entries[p] : p \in Ring(capacity) \ {op.gap}} \ {NoEntry})'
BY ShiftContents, PTL

LEMMA ShiftKeeps ==
    ASSUME RawInv, Shift
    PROVE  RawInv' /\ Content' = Content /\ answer' = answer
<1>1. PICK n : n = capacity
    OBVIOUS
<1>2. PICK gap : gap = op.gap
    OBVIOUS
<1>3. PICK t : t = Vacated(entries, gap)
    OBVIOUS
<1>4. op.loop = "shift"
    BY DEF Shift
<1>5. /\ RawTypes /\ op \in Shifts /\ op.left \in Nat
      /\ n \in Nat \ {0} /\ n \in Ceilings /\ 2 * (len + 1) <= n
      /\ gap \in Ring(n) /\ op.index \in Ring(n)
      /\ entries \in [Ring(n) -> Slot] /\ t \in KeyTables(n) /\ t[gap] = NoEntry
      /\ \A p \in Ring(n) : p # gap => t[p] = KeysOf(entries)[p]
      /\ ArrangedBut(hash, n, t, order, gap, op.index) /\ Lists(n, t, order)
      /\ Run(n, t, gap, op.index) /\ Walked(n, t, gap, op.index, op.left)
      /\ \E e \in Ring(n) : e # gap /\ t[e] = NoEntry
    BY <1>1, <1>2, <1>3, <1>4, ShiftIs
<1>6. PICK e : e = (op.index + 1) % n
    OBVIOUS
<1>7. e \in Ring(n) /\ e # gap
    <2>1. e \in Ring(n)
        BY <1>5, <1>6, NextSlot
    <2>2. e # gap
        BY <1>5, <1>6, GapIsBehind
    <2> QED
        BY <2>1, <2>2
<1>8. PICK x : x = entries[e]
    OBVIOUS
<1>9. /\ x \in [key : Keys, value : Values] /\ x # NoEntry /\ t[e] = x.key /\ t[e] # NoEntry
      /\ x.key \in Keys
    <2>1. x # NoEntry
        BY <1>1, <1>6, <1>8 DEF Shift
    <2> QED
        BY <2>1, <1>5, <1>7, <1>8, KeysAreKeys
<1>10. hash \in [Keys -> Int] /\ order \in Seq(Keys) /\ Distinct(order) /\ len = Len(order)
       /\ max_capacity \in Ceilings
    BY <1>5, Ranges DEF RawTypes
<1> DEFINE far == Dist(n, HomeOf(hash, n, x.key), e)
           back == Dist(n, gap, e)
<1>11. Behind(e, hash[x.key]) = far /\ Behind(e, gap) = back
    <2>1. hash[x.key] \in Int
        BY <1>9, <1>10
    <2>2. (e - hash[x.key]) % n = far
        BY <2>1, <1>5, <1>7, BehindDist DEF HomeOf
    <2>3. (e - gap) % n = back
        BY <1>5, <1>7, BehindRing
    <2> QED
        BY <2>2, <2>3, <1>1 DEF Behind
<1>12. PICK o : o = op'
    OBVIOUS
<1>13. op.left \in Nat \ {0}
    BY <1>5 DEF Shift
<1> HIDE DEF far, back
<1>14. /\ IF back <= far THEN entries' = [entries EXCEPT ![gap] = x] ELSE entries' = entries
       /\ o = [op EXCEPT !.index = e, !.left = @ - 1, !.gap = IF back <= far THEN e ELSE gap]
       /\ hash' = hash /\ len' = len /\ max_capacity' = max_capacity /\ answer' = answer /\ order' = order
    <2>1. far >= back <=> back <= far
        OBVIOUS
    <2>2. (Behind(e, hash[entries[e].key]) >= Behind(e, op.gap)) <=> back <= far
        BY <2>1, <1>2, <1>8, <1>11
    <2> QED
        BY <2>2, <1>1, <1>2, <1>6, <1>8, <1>12 DEF Shift
<1>15. PICK to : to = IF back <= far THEN e ELSE gap
    OBVIOUS
<1>16. /\ o \in Shifts /\ o.loop = "shift" /\ o.key = op.key
       /\ o.gap = to /\ o.index = e /\ o.left = op.left - 1 /\ to \in Ring(n)
    <2>1. to \in Ring(n) /\ e \in Nat /\ to \in Nat
        BY <1>5, <1>7, <1>15 DEF Ring
    <2>2. op.left - 1 \in Nat
        BY <1>13
    <2> QED
        BY <2>1, <2>2, <1>5, <1>14, <1>15 DEF Shifts
<1>17. PICK w : w = Vacated(entries', to)
    OBVIOUS
<1>18. entries' \in [Ring(n) -> Slot]
    BY <1>5, <1>9, <1>14 DEF Slot
<1>19. /\ RawTypes' /\ capacity' = n
    <2>1. op' \in {Idle} \cup Shifts \cup Rehashes
        BY <1>12, <1>16
    <2> QED
        BY <2>1, <1>5, <1>10, <1>14, <1>18, TypesKept DEF RawTypes
<1>20. /\ w \in KeyTables(n) /\ w[to] = NoEntry
       /\ \A p \in Ring(n) : p # to => w[p] = KeysOf(entries')[p]
    BY <1>5, <1>16, <1>17, <1>18, VacatedKeys
<1>21. /\ \A a \in 1..Len(order) : order[a] # op.key
       /\ entries[gap] # NoEntry
       /\ \/ entries[gap].key = op.key
          \/ \E p \in Ring(n) : p # gap /\ entries[p] = entries[gap]
       /\ answer.answer # "full"
    BY <1>1, <1>2, <1>4 DEF RawInv, Shifting
<1>22. ASSUME back <= far
       PROVE  /\ Shifting'
              /\ {entries'[p] : p \in Ring(n) \ {to}} = {entries[p] : p \in Ring(n) \ {gap}}
    <2>1. /\ to = e /\ entries'[gap] = x /\ entries'[e] = x
          /\ \A p \in Ring(n) : p # gap => entries'[p] = entries[p]
        BY <1>5, <1>7, <1>8, <1>14, <1>15, <1>22
    <2>2. w[e] = NoEntry /\ w[gap] = t[e]
        <3>1. KeysOf(entries')[gap] = x.key
            BY <2>1, <1>5, <1>9, <1>18, KeysAreKeys
        <3> QED
            BY <3>1, <2>1, <1>7, <1>9, <1>20, <1>5
    <2>3. \A p \in Ring(n) : p # gap /\ p # e => w[p] = t[p]
        <3> SUFFICES ASSUME NEW p \in Ring(n), p # gap, p # e PROVE w[p] = t[p]
            OBVIOUS
        <3>1. KeysOf(entries')[p] = KeysOf(entries)[p]
            BY <2>1, <1>5, <1>18 DEF KeysOf
        <3> QED
            BY <3>1, <2>1, <1>5, <1>20
    <2>4. Dist(n, gap, e) <= Dist(n, HomeOf(hash, n, t[e]), e)
        BY <1>9, <1>22 DEF back, far
    <2>5. /\ ArrangedBut(hash, n, w, order, e, e) /\ Run(n, w, e, e) /\ Lists(n, w, order)
        <3>1. w \in KeyTables(n) /\ t \in KeyTables(n) /\ NoEntry \notin Keys
            BY <1>5, <1>20, NoEntryIsNoKey
        <3>2. /\ n \in Nat \ {0} /\ hash \in [Keys -> Int] /\ order \in Seq(Keys)
              /\ gap \in Ring(n) /\ op.index \in Ring(n) /\ t[gap] = NoEntry
              /\ ArrangedBut(hash, n, t, order, gap, op.index) /\ Lists(n, t, order)
            BY <1>5, <1>10
        <3>3. e = (op.index + 1) % n /\ t[e] # NoEntry /\ e # gap
            BY <1>6, <1>7, <1>9
        <3> QED
            BY <3>1, <3>2, <3>3, <2>2, <2>3, <2>4, GapMoves
    <2>6. Walked(n, w, e, e, op.left - 1)
        <3>1. \A r \in Ring(n) : (r = gap \/ t[r] # NoEntry) => (r = e \/ w[r] # NoEntry)
            BY <2>2, <2>3, <1>9
        <3>2. /\ n \in Nat \ {0} /\ gap \in Ring(n) /\ op.index \in Ring(n) /\ e \in Ring(n)
              /\ Walked(n, t, gap, op.index, op.left)
            BY <1>5, <1>7
        <3>3. e = (op.index + 1) % n /\ t[e] # NoEntry
            BY <1>6, <1>9
        <3> QED
            BY <3>1, <3>2, <3>3, <1>13, WalkedFurther
    <2>7. Shifting'
        <3>1. op'.gap = e /\ op'.index = e /\ op'.key = op.key /\ op'.left = op.left - 1
            BY <2>1, <1>12, <1>16
        <3>2. Vacated(entries', e) = w
            BY <2>1, <1>17
        <3>3. entries'[e] # NoEntry /\ \E p \in Ring(n) : p # e /\ entries'[p] = entries'[e]
            BY <2>1, <1>5, <1>7, <1>9
        <3> QED
            BY <3>1, <3>2, <3>3, <2>5, <2>6, <1>5, <1>7, <1>14, <1>19, <1>21 DEF Shifting
    <2>8. {entries'[p] : p \in Ring(n) \ {e}} = {entries[p] : p \in Ring(n) \ {gap}}
        <3>1. \A p \in Ring(n) \ {e} : \E q \in Ring(n) \ {gap} : entries[q] = entries'[p]
            BY <2>1, <1>7, <1>8
        <3>2. \A q \in Ring(n) \ {gap} : \E p \in Ring(n) \ {e} : entries[q] = entries'[p]
            BY <2>1, <1>5, <1>7, <1>8
        <3> QED
            BY <3>1, <3>2
    <2> QED
        BY <2>1, <2>7, <2>8
<1>23. ASSUME ~ (back <= far)
       PROVE  /\ Shifting'
              /\ {entries'[p] : p \in Ring(n) \ {to}} = {entries[p] : p \in Ring(n) \ {gap}}
    <2>1. to = gap /\ entries' = entries /\ w = t
        BY <1>3, <1>14, <1>15, <1>17, <1>23
    <2>2. Dist(n, HomeOf(hash, n, t[e]), e) < Dist(n, gap, e)
        <3>1. HomeOf(hash, n, x.key) \in Ring(n)
            BY <1>5, <1>9, <1>10, HomeInRing
        <3>2. far \in Int /\ back \in Int
            BY <3>1, <1>5, <1>7, DistNumbers DEF far, back
        <3>3. far < back
            BY <3>2, <1>23
        <3> QED
            BY <3>3, <1>9 DEF far, back
    <2>3. ArrangedBut(hash, n, t, order, gap, e) /\ Run(n, t, gap, e)
        BY <2>2, <1>5, <1>6, <1>7, <1>9, <1>10, GapPassed
    <2>4. Walked(n, t, gap, e, op.left - 1)
        <3>1. /\ n \in Nat \ {0} /\ gap \in Ring(n) /\ op.index \in Ring(n) /\ e \in Ring(n)
              /\ Walked(n, t, gap, op.index, op.left)
            BY <1>5, <1>7
        <3>2. e = (op.index + 1) % n /\ t[e] # NoEntry
            BY <1>6, <1>9
        <3> QED
            BY <3>1, <3>2, <1>13, WalkedFurther
    <2>5. Shifting'
        <3>1. op'.gap = gap /\ op'.index = e /\ op'.key = op.key /\ op'.left = op.left - 1
            BY <2>1, <1>12, <1>16
        <3>2. Vacated(entries', gap) = t
            BY <2>1, <1>3
        <3> QED
            BY <3>1, <3>2, <2>1, <2>3, <2>4, <1>5, <1>7, <1>14, <1>19, <1>21 DEF Shifting
    <2> QED
        BY <2>1, <2>5
<1>24. Shifting' /\ {entries'[p] : p \in Ring(n) \ {to}} = {entries[p] : p \in Ring(n) \ {gap}}
    BY <1>22, <1>23
<1>25. AtRest' /\ Rehashing' /\ RefusedFull'
    BY <1>12, <1>16 DEF AtRest, Rehashing, RefusedFull
<1>26. RawInv'
    BY <1>19, <1>24, <1>25 DEF RawInv
<1>27. Content' = {entries'[p] : p \in Ring(n) \ {to}} \ {NoEntry}
    BY <1>12, <1>16, <1>19, <1>26, ShiftContentsNext
<1>28. Content = {entries[p] : p \in Ring(n) \ {gap}} \ {NoEntry}
    BY <1>1, <1>2, <1>4, ShiftContents
<1> QED
    BY <1>14, <1>24, <1>26, <1>27, <1>28

LEMMA CloseKeeps ==
    ASSUME RawInv, Close
    PROVE  RawInv' /\ Content' = Content /\ answer' = answer
<1>1. PICK n : n = capacity
    OBVIOUS
<1>2. PICK gap : gap = op.gap
    OBVIOUS
<1>3. PICK t : t = Vacated(entries, gap)
    OBVIOUS
<1>4. op.loop = "shift"
    BY DEF Close
<1>5. /\ RawTypes /\ op \in Shifts /\ op.left \in Nat
      /\ n \in Nat \ {0} /\ n \in Ceilings /\ 2 * (len + 1) <= n
      /\ gap \in Ring(n) /\ op.index \in Ring(n)
      /\ entries \in [Ring(n) -> Slot] /\ t \in KeyTables(n) /\ t[gap] = NoEntry
      /\ \A p \in Ring(n) : p # gap => t[p] = KeysOf(entries)[p]
      /\ ArrangedBut(hash, n, t, order, gap, op.index) /\ Lists(n, t, order)
      /\ Run(n, t, gap, op.index) /\ Walked(n, t, gap, op.index, op.left)
      /\ \E e \in Ring(n) : e # gap /\ t[e] = NoEntry
    BY <1>1, <1>2, <1>3, <1>4, ShiftIs
<1>6. /\ hash \in [Keys -> Int] /\ order \in Seq(Keys) /\ Distinct(order) /\ len = Len(order)
      /\ max_capacity \in Ceilings /\ len \in Nat
      /\ answer.answer \in {"none", "some", "added", "replaced", "full", "no_memory"}
    BY <1>5, Ranges DEF RawTypes
<1>7. answer.answer # "full"
    BY <1>4 DEF RawInv, Shifting
<1>8. PICK e : e = (op.index + 1) % n
    OBVIOUS
<1>9. e \in Ring(n) /\ e # gap
    <2>1. e \in Ring(n)
        BY <1>5, <1>8, NextSlot
    <2>2. e # gap
        BY <1>5, <1>8, GapIsBehind
    <2> QED
        BY <2>1, <2>2
<1>10. op.left # 0
    BY <1>5, WalkEnds
<1>11. t[e] = NoEntry
    <2>1. entries[e] = NoEntry
        BY <1>1, <1>8, <1>10 DEF Close
    <2> QED
        BY <2>1, <1>5, <1>9, KeysAreKeys
<1>12. Arranged(hash, n, t, order)
    BY <1>5, <1>6, <1>8, <1>9, <1>11, GapCloses
<1>13. /\ entries' = [entries EXCEPT ![gap] = NoEntry] /\ op' = Idle
       /\ hash' = hash /\ len' = len /\ max_capacity' = max_capacity /\ answer' = answer /\ order' = order
    BY <1>2 DEF Close
<1>14. /\ entries' \in [Ring(n) -> Slot]
       /\ \A p \in Ring(n) : entries'[p] = IF p = gap THEN NoEntry ELSE entries[p]
    BY <1>5, <1>13 DEF Slot
<1>15. KeysOf(entries') = t
    BY <1>3, <1>5, <1>14 DEF KeysOf, Vacated
<1>16. Ordered(hash, n, entries', order')
    BY <1>5, <1>6, <1>12, <1>13, <1>14, <1>15 DEF Ordered
<1>17. RawInv' /\ Content' = Records(entries')
    <2>1. 2 * len' <= n
        BY <1>5, <1>6, <1>13
    <2> QED
        BY <2>1, <1>5, <1>6, <1>7, <1>13, <1>16, RestKept
<1>18. Content = {entries[p] : p \in Ring(n) \ {gap}} \ {NoEntry}
    BY <1>1, <1>2, <1>4, ShiftContents
<1>19. Records(entries') = {entries[p] : p \in Ring(n) \ {gap}} \ {NoEntry}
    <2>1. DOMAIN entries' = Ring(n)
        BY <1>14
    <2> QED
        BY <2>1, <1>14 DEF Records
<1> QED
    BY <1>13, <1>17, <1>18, <1>19

RewriteAnswers ==
    /\ answer' = NoAnswer
    /\ \E v \in Values : Content' = {[key |-> e.key, value |-> v] : e \in Content}

LEMMA ForEachMutKeeps ==
    ASSUME RawInv, ForEachMut
    PROVE  RawInv' /\ RewriteAnswers
<1>1. /\ RawTypes /\ Ordered(hash, capacity, entries, order) /\ 2 * len <= capacity
      /\ len = Len(order) /\ Content = Records(entries)
    BY IdleIs DEF ForEachMut
<1>2. /\ hash \in [Keys -> Int] /\ len \in Nat /\ capacity \in {0} \cup Ceilings /\ capacity \in Nat
      /\ entries \in [Ring(capacity) -> Slot] /\ max_capacity \in Ceilings
    BY <1>1, Ranges DEF RawTypes
<1>3. PICK n \in {0} \cup Ceilings : n = capacity
    BY <1>2
<1>4. PICK v \in Values :
        entries' = [i \in DOMAIN entries |->
                      IF entries[i] = NoEntry THEN NoEntry ELSE [entries[i] EXCEPT !.value = v]]
    BY DEF ForEachMut
<1>5. \A p \in Ring(n) :
        entries'[p] = IF entries[p] = NoEntry THEN NoEntry ELSE [key |-> entries[p].key, value |-> v]
    BY <1>2, <1>3, <1>4 DEF Slot
<1>6. entries' \in [Ring(n) -> Slot] /\ DOMAIN entries' = Ring(n)
    BY <1>2, <1>3, <1>4 DEF Slot
<1>7. \A p \in Ring(n) : entries[p] # NoEntry =>
          entries'[p] # NoEntry /\ entries'[p].key = entries[p].key
    <2> SUFFICES ASSUME NEW p \in Ring(n), entries[p] # NoEntry
                 PROVE  entries'[p] # NoEntry /\ entries'[p].key = entries[p].key
        OBVIOUS
    <2>1. entries[p].key \in Keys
        BY <1>2, <1>3, KeysAreKeys
    <2>2. entries'[p] = [key |-> entries[p].key, value |-> v]
        BY <1>5
    <2>3. entries'[p] \in [key : Keys, value : Values]
        BY <2>1, <2>2
    <2> QED
        BY <2>2, <2>3, NoEntryAssumption
<1>8. KeysOf(entries') = KeysOf(entries)
    BY <1>2, <1>3, <1>5, <1>6, <1>7 DEF KeysOf
<1>9. /\ answer' = NoAnswer /\ op' = Idle /\ hash' = hash /\ len' = len
      /\ max_capacity' = max_capacity /\ order' = order
    BY DEF ForEachMut
<1>10. Ordered(hash, n, entries', order')
    BY <1>1, <1>3, <1>6, <1>8, <1>9 DEF Ordered
<1>11. answer'.answer = "none"
    BY <1>9 DEF NoAnswer
<1>12. RawInv' /\ Content' = Records(entries')
    BY <1>1, <1>2, <1>3, <1>9, <1>10, <1>11, RestKept
<1>13. Records(entries') = {[key |-> e.key, value |-> v] : e \in Records(entries)}
    BY <1>2, <1>3, <1>5, <1>6, <1>7 DEF Records
<1> QED
    BY <1>1, <1>9, <1>12, <1>13 DEF RewriteAnswers

LEMMA ClearKeeps ==
    ASSUME RawInv, Clear
    PROVE  RawInv' /\ answer' = NoAnswer /\ Content' = {}
<1>1. RawTypes
    BY DEF RawInv
<1>2. capacity \in {0} \cup Ceilings /\ capacity \in Nat /\ max_capacity \in Ceilings
    BY <1>1, Ranges DEF RawTypes
<1>3. /\ answer' = NoAnswer /\ op' = Idle /\ hash' = hash /\ len' = 0
      /\ max_capacity' = max_capacity /\ order' = << >> /\ entries' = Empty(capacity)
    BY DEF Clear
<1>4. Ordered(hash, capacity, entries', order') /\ Len(order') = 0 /\ 2 * len' <= capacity
    BY <1>2, <1>3, EmptyOrdered
<1>5. answer'.answer = "none"
    BY <1>3 DEF NoAnswer
<1>6. RawInv' /\ Content' = Records(entries')
    BY <1>1, <1>2, <1>3, <1>4, <1>5, RestKept
<1> QED
    BY <1>2, <1>3, <1>6, NoRecords

LEMMA SetMaxCapacityKeeps ==
    ASSUME RawInv, SetMaxCapacity
    PROVE  RawInv' /\ answer' = NoAnswer /\ Content' = Content
<1>1. /\ RawTypes /\ Ordered(hash, capacity, entries, order) /\ 2 * len <= capacity
      /\ len = Len(order) /\ Content = Records(entries)
    BY IdleIs DEF SetMaxCapacity
<1>2. capacity \in {0} \cup Ceilings
    BY <1>1, Ranges
<1>3. /\ answer' = NoAnswer /\ op' = Idle /\ hash' = hash /\ len' = len
      /\ max_capacity' \in Ceilings /\ order' = order /\ entries' = entries
    BY DEF SetMaxCapacity
<1>4. answer'.answer = "none"
    BY <1>3 DEF NoAnswer
<1>5. RawInv' /\ Content' = Records(entries')
    BY <1>1, <1>2, <1>3, <1>4, RestKept
<1> QED
    BY <1>1, <1>3, <1>5

LEMMA InitKeeps ==
    ASSUME TableInit
    PROVE  RawInv /\ Content = {}
<1>1. NoTable = Empty(0)
    BY DEF NoTable, Empty
<1>2. Ordered(hash, 0, entries, order)
    BY <1>1, EmptyOrdered DEF TableInit
<1>3. op.loop = "idle" /\ answer.answer = "none"
    BY LoopsDiffer DEF TableInit, NoAnswer
<1>4. entries \in SlotArrays /\ capacity = 0
    BY <1>2, TableWith DEF Ordered, capacity
<1>5. /\ hash \in [Keys -> 0..(MaxSlots - 1)] /\ max_capacity \in Ceilings
      /\ order \in Seq(Keys) /\ Distinct(order) /\ len = Len(order) /\ len = 0
      /\ op \in {Idle} \cup Shifts \cup Rehashes
    BY <1>2 DEF TableInit, Ordered
<1>6. RawTypes
    BY <1>3, <1>4, <1>5 DEF RawTypes
<1>7. AtRest /\ Rehashing /\ Shifting /\ RefusedFull
    BY <1>2, <1>3, <1>4, <1>5 DEF AtRest, Rehashing, Shifting, RefusedFull
<1>8. Content = {}
    <2>1. Content = Records(entries) /\ entries = Empty(0)
        BY <1>1, <1>3 DEF Content, TableInit
    <2> QED
        BY <2>1, NoRecords
<1> QED
    BY <1>6, <1>7, <1>8 DEF RawInv

LEMMA StutterKeeps ==
    ASSUME RawInv, UNCHANGED rawVars
    PROVE  RawInv' /\ Content' = Content /\ answer' = answer
<1>1. /\ hash' = hash /\ entries' = entries /\ len' = len /\ max_capacity' = max_capacity
      /\ op' = op /\ answer' = answer /\ order' = order
    BY DEF rawVars, tableVars
<1> QED
    BY <1>1 DEF RawInv, RawTypes, AtRest, Rehashing, Shifting, RefusedFull, Content, capacity

\* What a step does to the content, and what it answers.
StepAnswers ==
    \/ \E k \in Keys : (\E v \in Values : InsertAnswers(k, v)) \/ RemoveAnswers(k)
    \/ RewriteAnswers
    \/ answer' = NoAnswer /\ Content' = {}
    \/ answer' = NoAnswer /\ Content' = Content
    \/ answer' = answer /\ Content' = Content

LEMMA StepKeeps ==
    ASSUME RawInv, [TableNext]_rawVars
    PROVE  RawInv' /\ StepAnswers
<1>1. ASSUME NEW k \in Keys, NEW v \in Values, Insert(k, v) PROVE RawInv' /\ StepAnswers
    BY <1>1, InsertInPlaceKeeps, InsertWithoutRoomKeeps, GrowKeeps DEF Insert, StepAnswers
<1>2. ASSUME NEW k \in Keys, Remove(k) PROVE RawInv' /\ StepAnswers
    BY <1>2, RemoveKeeps DEF StepAnswers
<1>3. CASE Rehash
    BY <1>3, RehashKeeps DEF StepAnswers
<1>4. CASE Grown
    BY <1>4, GrownKeeps DEF StepAnswers
<1>5. CASE Shift
    BY <1>5, ShiftKeeps DEF StepAnswers
<1>6. CASE Close
    BY <1>6, CloseKeeps DEF StepAnswers
<1>7. CASE ForEachMut
    BY <1>7, ForEachMutKeeps DEF StepAnswers
<1>8. CASE Clear
    BY <1>8, ClearKeeps DEF StepAnswers
<1>9. CASE SetMaxCapacity
    BY <1>9, SetMaxCapacityKeeps DEF StepAnswers
<1>10. CASE UNCHANGED rawVars
    BY <1>10, StutterKeeps DEF StepAnswers
<1> QED
    BY <1>1, <1>2, <1>3, <1>4, <1>5, <1>6, <1>7, <1>8, <1>9, <1>10 DEF TableNext

\* At every step the slots hold each key where its probes from home find it, the
\* loops that move entries leave nothing behind, and no table is over half full.
THEOREM TableHolds == TableSpec => []RawInv
<1>1. TableInit => RawInv
    BY InitKeeps
<1>2. RawInv /\ [TableNext]_rawVars => RawInv'
    BY StepKeeps
<1> QED
    BY <1>1, <1>2, PTL DEF TableSpec

-----------------------------------------------------------------------------
(* The layout *)

Inserted(f, n, s, v, d) ==
    f = [m \in 0..d |-> IF m = 0 THEN Empty(n) ELSE Store(f[m - 1], s[m], v)]

LEMMA InsertedSomehow ==
    ASSUME NEW n, NEW s, NEW v, NEW c \in Nat
    PROVE  \E f : Inserted(f, n, s, v, c)
<1> DEFINE T == {d \in 0..c : ~ \E f : Inserted(f, n, s, v, d)}
<1> SUFFICES ASSUME T # {} PROVE FALSE
    OBVIOUS
<1>1. PICK d \in T : \A e \in T : d <= e
    <2>1. T \in SUBSET Nat
        OBVIOUS
    <2> HIDE DEF T
    <2> QED
        BY <2>1, LeastNumber
<1>2. CASE d = 0
    <2> DEFINE f == [m \in 0..0 |-> Empty(n)]
    <2>1. Inserted(f, n, s, v, 0)
        BY DEF Inserted
    <2> QED
        BY <1>2, <2>1
<1>3. CASE d # 0
    <2>1. d - 1 \in 0..c /\ d - 1 \notin T
        BY <1>1, <1>3
    <2>2. PICK f : Inserted(f, n, s, v, d - 1)
        BY <2>1
    <2> DEFINE g == [m \in 0..d |-> IF m = d THEN Store(f[d - 1], s[d], v) ELSE f[m]]
    <2>3. \A m \in 0..(d - 1) : f[m] = IF m = 0 THEN Empty(n) ELSE Store(f[m - 1], s[m], v)
        BY <2>2 DEF Inserted
    <2>4. ASSUME NEW m \in 0..d
          PROVE  g[m] = IF m = 0 THEN Empty(n) ELSE Store(g[m - 1], s[m], v)
        <3>1. CASE m = d
            <4>1. d - 1 \in 0..d /\ d - 1 # d
                BY <1>3
            <4>2. g[d - 1] = f[d - 1]
                BY <4>1
            <4> QED
                BY <4>2, <3>1, <1>3
        <3>2. CASE m = 0 /\ m # d
            BY <3>2, <2>3
        <3>3. CASE m # 0 /\ m # d
            <4>1. m \in 0..(d - 1) /\ m - 1 \in 0..d /\ m - 1 # d
                BY <3>3
            <4>2. g[m - 1] = f[m - 1] /\ g[m] = f[m]
                BY <4>1, <3>3
            <4> QED
                BY <4>1, <4>2, <3>3, <2>3
        <3> QED
            BY <3>1, <3>2, <3>3
    <2>5. Inserted(g, n, s, v, d)
        <3>1. g = [m \in 0..d |-> g[m]]
            OBVIOUS
        <3> HIDE DEF g
        <3> QED
            BY <2>4, <3>1 DEF Inserted
    <2> QED
        BY <2>5, <1>1
<1> QED
    BY <1>2, <1>3

\* Inserting the keys one by one, in their order, makes an ordered table of them.
LEMMA InsertedOrdered ==
    ASSUME NEW n \in Nat, hash \in [Keys -> Int], NEW s \in Seq(Keys), Distinct(s), Len(s) <= n,
           NEW v \in Values, NEW f, Inserted(f, n, s, v, Len(s))
    PROVE  Ordered(hash, n, f[Len(s)], s)
<1> DEFINE L == Len(s)
           Prefix(m) == [a \in 1..m |-> s[a]]
           T == {m \in 0..L : ~ Ordered(hash, n, f[m], Prefix(m))}
<1>1. L \in Nat /\ \A a \in 1..L : s[a] \in Keys
    OBVIOUS
<1>2. f[0] = Empty(n) /\ \A m \in 1..L : f[m] = Store(f[m - 1], s[m], v)
    BY <1>1 DEF Inserted
<1> HIDE DEF L
<1>3. \A m \in 0..L : Prefix(m) \in Seq(Keys) /\ Len(Prefix(m)) = m
    <2> SUFFICES ASSUME NEW m \in 0..L PROVE Prefix(m) \in Seq(Keys) /\ Len(Prefix(m)) = m
        OBVIOUS
    <2>1. m \in Nat /\ \A a \in 1..m : s[a] \in Keys
        BY <1>1
    <2> QED
        BY <2>1
<1>4. T = {}
    <2> SUFFICES ASSUME T # {} PROVE FALSE
        OBVIOUS
    <2>1. PICK m \in T : \A e \in T : m <= e
        <3>1. T \in SUBSET Nat
            BY <1>1
        <3> HIDE DEF T
        <3> QED
            BY <3>1, LeastNumber
    <2>2. CASE m = 0
        <3>1. Prefix(0) = << >>
            OBVIOUS
        <3>2. Ordered(hash, n, f[0], Prefix(0))
            BY <3>1, <1>2, EmptyOrdered
        <3> QED
            BY <3>2, <2>1, <2>2
    <2>3. CASE m # 0
        <3>1. m - 1 \in 0..L /\ m \in 1..L /\ m - 1 \notin T
            BY <2>1, <2>3, <1>1
        <3>2. Ordered(hash, n, f[m - 1], Prefix(m - 1)) /\ s[m] \in Keys
            BY <3>1, <1>1
        <3>3. Len(Prefix(m - 1)) = m - 1 /\ Prefix(m - 1) \in Seq(Keys)
            BY <3>1, <1>3
        <3>4. m - 1 < n /\ n \in Nat \ {0}
            BY <3>1, <1>1 DEF L
        <3>5. \A p \in Ring(n) : KeysOf(f[m - 1])[p] # s[m]
            <4> SUFFICES ASSUME NEW p \in Ring(n), KeysOf(f[m - 1])[p] = s[m] PROVE FALSE
                OBVIOUS
            <4>1. p \in Filled(n, KeysOf(f[m - 1]))
                BY <3>2, NoEntryIsNoKey DEF Filled
            <4>2. PICK a \in 1..(m - 1) : Prefix(m - 1)[a] = s[m]
                <5> HIDE DEF Prefix
                <5>1. Lists(n, KeysOf(f[m - 1]), Prefix(m - 1))
                    BY <3>2 DEF Ordered
                <5>2. \E a \in 1..Len(Prefix(m - 1)) : Prefix(m - 1)[a] = KeysOf(f[m - 1])[p]
                    BY <4>1, <5>1 DEF Lists
                <5> QED
                    BY <5>2, <3>3
            <4>3. s[a] = s[m] /\ a # m /\ a \in 1..L
                BY <4>2, <3>1, <1>1
            <4> QED
                BY <4>3, <3>1 DEF Distinct, L
        <3>6. Append(Prefix(m - 1), s[m]) = Prefix(m)
            <4>1. /\ Append(Prefix(m - 1), s[m]) \in Seq(Keys) /\ Prefix(m) \in Seq(Keys)
                  /\ Len(Append(Prefix(m - 1), s[m])) = m /\ Len(Prefix(m)) = m
                BY <3>1, <3>2, <3>3, <1>3, AppendProperties
            <4>2. ASSUME NEW a \in 1..m PROVE Append(Prefix(m - 1), s[m])[a] = Prefix(m)[a]
                <5>1. Prefix(m)[a] = s[a]
                    OBVIOUS
                <5>2. CASE a = m
                    BY <5>1, <5>2, <3>2, <3>3, <3>1, AppendProperties
                <5>3. CASE a # m
                    <6>1. a \in 1..(m - 1)
                        BY <5>3, <3>1
                    <6>2. Prefix(m - 1)[a] = s[a]
                        BY <6>1
                    <6>3. Append(Prefix(m - 1), s[m])[a] = Prefix(m - 1)[a]
                        <7> HIDE DEF Prefix
                        <7> QED
                            BY <6>1, <3>2, <3>3, AppendProperties
                    <6> QED
                        BY <5>1, <6>2, <6>3
                <5> QED
                    BY <5>2, <5>3
            <4>3. PICK a, b : a = Append(Prefix(m - 1), s[m]) /\ b = Prefix(m)
                OBVIOUS
            <4> HIDE DEF Prefix
            <4>4. a \in Seq(Keys) /\ b \in Seq(Keys) /\ Len(a) = m /\ Len(b) = m
                BY <4>1, <4>3, Zenon
            <4>5. \A c \in 1..m : a[c] = b[c]
                BY <4>2, <4>3, Zenon
            <4>6. a = b
                BY <4>4, <4>5, SeqEqual
            <4> QED
                BY <4>3, <4>6, Zenon
        <3>7. Ordered(hash, n, f[m], Prefix(m))
            <4> HIDE DEF Prefix
            <4>1. Ordered(hash, n, Store(f[m - 1], s[m], v), Append(Prefix(m - 1), s[m]))
                <5>1. PICK cells, q, k : cells = f[m - 1] /\ q = Prefix(m - 1) /\ k = s[m]
                    OBVIOUS
                <5>2. /\ Ordered(hash, n, cells, q) /\ k \in Keys /\ n \in Nat \ {0}
                      /\ \A p \in Ring(n) : KeysOf(cells)[p] # k
                    BY <5>1, <3>2, <3>4, <3>5, Zenon
                <5>3. Len(q) < n
                    BY <5>1, <3>3, <3>4, Zenon
                <5>4. Ordered(hash, n, Store(cells, k, v), Append(q, k))
                    BY <5>2, <5>3, StoreNew
                <5> QED
                    BY <5>1, <5>4, Zenon
            <4> QED
                BY <4>1, <3>1, <3>6, <1>2
        <3> QED
            BY <3>7, <2>1
    <2> QED
        BY <2>2, <2>3
<1>5. Prefix(L) = s
    <2>1. Prefix(L) \in Seq(Keys) /\ Len(Prefix(L)) = L /\ \A a \in 1..L : Prefix(L)[a] = s[a]
        BY <1>1, <1>3
    <2>2. PICK b : b = Prefix(L)
        OBVIOUS
    <2> HIDE DEF Prefix
    <2>3. b \in Seq(Keys) /\ Len(b) = Len(s) /\ \A a \in 1..Len(s) : b[a] = s[a]
        BY <2>1, <2>2, Zenon DEF L
    <2>4. b = s
        BY <2>3, SeqEqual
    <2> QED
        BY <2>2, <2>4, Zenon
<1>6. Ordered(hash, n, f[L], Prefix(L))
    <2>1. L \in 0..L
        BY <1>1
    <2> HIDE DEF Prefix
    <2> QED
        BY <2>1, <1>4
<1> QED
    BY <1>5, <1>6 DEF L

\* The empty table of no slots has no keys.
LEMMA NoSlots ==
    ASSUME NEW h, NEW cells, NEW s, Ordered(h, 0, cells, s)
    PROVE  KeysOf(cells) = [i \in {} |-> NoEntry]
BY DEF Ordered, KeysOf, Ring

LEMMA OneTable ==
    ASSUME NEW n \in Nat, NEW h \in [Keys -> Int], NEW s, NEW cells, NEW other,
           Ordered(h, n, cells, s), Ordered(h, n, other, s)
    PROVE  KeysOf(cells) = KeysOf(other)
<1>1. CASE n = 0
    BY <1>1, NoSlots
<1>2. CASE n # 0
    <2>1. /\ KeysOf(cells) \in KeyTables(n) /\ KeysOf(other) \in KeyTables(n)
          /\ s \in Seq(Keys) /\ Distinct(s)
          /\ Arranged(h, n, KeysOf(cells), s) /\ Lists(n, KeysOf(cells), s)
          /\ Arranged(h, n, KeysOf(other), s) /\ Lists(n, KeysOf(other), s)
        BY KeysAreKeys DEF Ordered
    <2>2. n \in Nat \ {0}
        BY <1>2
    <2> QED
        BY <2>1, <2>2, OneLayout, NoEntryIsNoKey
<1> QED
    BY <1>1, <1>2

LEMMA NotShifting ==
    ASSUME RawInv, op.loop # "shift"
    PROVE  Ordered(hash, capacity, entries, order) /\ Len(order) <= capacity
<1>1. RawTypes
    BY DEF RawInv
<1>2. len \in Nat /\ capacity \in Nat /\ len = Len(order)
    BY <1>1, Ranges DEF RawTypes
<1>3. op = Idle \/ op \in Rehashes
    BY <1>1, LoopsDiffer DEF RawTypes
<1>4. CASE op = Idle
    BY <1>2, <1>4, IdleIs
<1>5. CASE op \in Rehashes
    <2>1. op.loop = "rehash"
        BY <1>5, LoopsDiffer
    <2>2. Ordered(hash, capacity, entries, order) /\ 2 * (len + 1) <= capacity
        BY <2>1, RehashIs
    <2> QED
        BY <2>2, <1>2
<1> QED
    BY <1>3, <1>4, <1>5

LEMMA InvNeverInserted == RawInv => AsIfNeverInserted
<1> SUFFICES ASSUME RawInv, op.loop # "shift" PROVE KeysOf(entries) = KeysOf(Rebuilt)
    BY DEF AsIfNeverInserted
<1>1. Ordered(hash, capacity, entries, order) /\ Len(order) <= capacity
    BY NotShifting
<1>2. hash \in [Keys -> Int] /\ capacity \in Nat /\ order \in Seq(Keys) /\ Distinct(order)
    BY <1>1, Ranges DEF RawInv, Ordered
<1>3. PICK v \in Values : v = CHOOSE u \in Values : TRUE
    BY KeysAssumption
<1> DEFINE f == CHOOSE g : Inserted(g, capacity, order, v, Len(order))
<1>4. Inserted(f, capacity, order, v, Len(order))
    <2>1. Len(order) \in Nat
        BY <1>2
    <2>2. \E g : Inserted(g, capacity, order, v, Len(order))
        BY <2>1, InsertedSomehow
    <2> QED
        BY <2>2
<1>5. Rebuilt = f[Len(order)]
    BY <1>3 DEF Rebuilt, Inserted
<1> HIDE DEF f
<1>6. Ordered(hash, capacity, Rebuilt, order)
    BY <1>1, <1>2, <1>4, <1>5, InsertedOrdered
<1> QED
    BY <1>1, <1>2, <1>6, OneTable

LEMMA SlotsAreTables ==
    ASSUME NEW cells \in SlotArrays
    PROVE  IsTable(cells)
BY DEF SlotArrays, Ring, Slot, IsTable

LEMMA InvTypes == RawInv => SlotsTypeOK
<1> SUFFICES ASSUME RawInv PROVE SlotsTypeOK
    OBVIOUS
<1>1. RawTypes
    BY DEF RawInv
<1>2. IsTable(entries)
    BY <1>1, SlotsAreTables DEF RawTypes
<1>3. len \in 0..Cardinality(Keys)
    <2> DEFINE n == Len(order)
    <2>1. order \in [1..n -> Keys] /\ n \in Nat /\ len = n
        BY <1>1, LenProperties DEF RawTypes
    <2>2. order \in Injection(1..n, Keys)
        BY <1>1, <2>1 DEF Injection, IsInjective, RawTypes, Distinct
    <2> HIDE DEF n
    <2>3. IsFiniteSet(1..n) /\ Cardinality(1..n) = n
        BY <2>1, FS_Interval
    <2>4. Cardinality(1..n) <= Cardinality(Keys)
        BY <2>2, KeysAssumption, FS_Injection
    <2>5. Cardinality(Keys) \in Nat
        BY KeysAssumption, FS_CardinalityType
    <2> QED
        BY <2>1, <2>3, <2>4, <2>5
<1>4. op.loop \in {"idle", "shift", "rehash"}
    BY <1>1, LoopsDiffer DEF RawTypes
<1>5. op.loop = "shift" => {op.gap, op.index} \subseteq DOMAIN entries
    BY <1>1, Ranges DEF RawInv, Shifting
<1>6. ASSUME op.loop = "rehash" PROVE IsTable(op.old)
    <2>1. op \in Rehashes
        BY <1>6, RehashIs
    <2> QED
        BY <2>1, SlotsAreTables DEF Rehashes
<1> QED
    BY <1>1, <1>2, <1>3, <1>4, <1>5, <1>6 DEF SlotsTypeOK, RawTypes

LEMMA InvMidShift == RawInv => MidShiftIsOneTwice
<1> SUFFICES ASSUME RawInv, op.loop = "shift"
             PROVE  /\ Cardinality(Live) = len + 1
                    /\ \A k \in Keys \ {op.key} : Holding(k) # {} => Holds(entries, k)
                    /\ Cardinality({entries[i].key : i \in Live} \ {op.key}) = len
    BY DEF MidShiftIsOneTwice
<1>1. PICK n : n = capacity
    OBVIOUS
<1>2. PICK gap : gap = op.gap
    OBVIOUS
<1>3. PICK t : t = Vacated(entries, gap)
    OBVIOUS
<1>4. /\ RawTypes /\ op \in Shifts
      /\ n \in Nat \ {0} /\ gap \in Ring(n) /\ op.index \in Ring(n)
      /\ entries \in [Ring(n) -> Slot] /\ t \in KeyTables(n) /\ t[gap] = NoEntry
      /\ \A p \in Ring(n) : p # gap => t[p] = KeysOf(entries)[p]
      /\ ArrangedBut(hash, n, t, order, gap, op.index) /\ Lists(n, t, order)
      /\ OneSlotEach(n, t)
    BY <1>1, <1>2, <1>3, ShiftIs
<1>5. /\ \A a \in 1..Len(order) : order[a] # op.key
      /\ entries[gap] # NoEntry
      /\ \/ entries[gap].key = op.key
         \/ \E p \in Ring(n) : p # gap /\ entries[p] = entries[gap]
    BY <1>1, <1>2 DEF RawInv, Shifting
<1>6. hash \in [Keys -> Int] /\ order \in Seq(Keys) /\ Distinct(order) /\ len = Len(order)
    BY <1>4, Ranges DEF RawTypes
<1>7. DOMAIN entries = Ring(n) /\ n \in Nat
    BY <1>4
<1>8. \A p \in Ring(n) :
         /\ entries[p] = NoEntry <=> KeysOf(entries)[p] = NoEntry
         /\ entries[p] # NoEntry => entries[p].key \in Keys /\ KeysOf(entries)[p] = entries[p].key
    BY <1>4, <1>7, KeysAreKeys
<1>9. Live = Filled(n, t) \cup {gap} /\ gap \notin Filled(n, t)
    BY <1>4, <1>5, <1>7, <1>8 DEF Live, Filled
<1>10. IsFiniteSet(Filled(n, t)) /\ Cardinality(Filled(n, t)) = len
    BY <1>4, <1>6, <1>7, FilledCount, NoEntryIsNoKey
<1>11. Cardinality(Live) = len + 1
    BY <1>9, <1>10, FS_AddElement
<1>12. ASSUME NEW k \in Keys \ {op.key}, NEW i \in Live, entries[i].key = k
       PROVE  \E p \in Ring(n) : p # gap /\ t[p] = k
    <2>1. CASE i # gap
        BY <2>1, <1>4, <1>7, <1>8, <1>12 DEF Live
    <2>2. CASE i = gap
        <3>1. PICK p \in Ring(n) : p # gap /\ entries[p] = entries[gap]
            BY <2>2, <1>5, <1>12
        <3> QED
            BY <3>1, <2>2, <1>4, <1>5, <1>8, <1>12
    <2> QED
        BY <2>1, <2>2
<1>13. ASSUME NEW k \in Keys \ {op.key}, Holding(k) # {} PROVE Holds(entries, k)
    <2>1. PICK p \in Ring(n) : p # gap /\ t[p] = k
        BY <1>12, <1>13 DEF Holding
    <2>2. PICK y \in Keys : y = entries[gap].key
        BY <1>4, <1>5, <1>8
    <2>3. KeysOf(entries) = [t EXCEPT ![gap] = y]
        <3>1. KeysOf(entries) \in KeyTables(n) /\ KeysOf(entries)[gap] = y
            BY <2>2, <1>4, <1>5, <1>7, <1>8, KeysAreKeys
        <3> QED
            BY <3>1, <1>4 DEF KeyTables
    <2>4. PICK u : u = [t EXCEPT ![gap] = y]
        OBVIOUS
    <2>5. PICK q : First(hash, n, u, k, q) /\ u[q] = k
        <3>1. /\ n \in Nat \ {0} /\ hash \in [Keys -> Int] /\ t \in KeyTables(n)
              /\ order \in Seq(Keys) /\ Distinct(order) /\ gap \in Ring(n) /\ t[gap] = NoEntry
              /\ ArrangedBut(hash, n, t, order, gap, op.index)
            BY <1>4, <1>6
        <3>2. k \in Keys /\ p \in Ring(n) /\ t[p] = k /\ NoEntry \notin Keys
            BY <2>1, NoEntryIsNoKey
        <3>3. PICK o, h, index : o = order /\ h = hash /\ index = op.index
            OBVIOUS
        <3>4. /\ o \in Seq(Keys) /\ Distinct(o) /\ h \in [Keys -> Int]
              /\ ArrangedBut(h, n, t, o, gap, index)
            BY <3>1, <3>3, Zenon
        <3>5. u[gap] = y /\ \A r \in Ring(n) : r # gap => u[r] = t[r]
            BY <3>1, <2>4 DEF KeyTables
        <3>6. MidShift(h, n, t, o, gap, index, u, k, p)
            BY <3>1, <3>2, <3>4, <3>5 DEF MidShift
        <3>7. \E q : First(h, n, u, k, q) /\ u[q] = k
            BY <3>6, MidShiftFinds
        <3> QED
            BY <3>3, <3>7, Zenon
    <2>6. First(hash, n, KeysOf(entries), k, q) /\ KeysOf(entries)[q] = k
        BY <2>3, <2>4, <2>5
    <2>7. Stops(entries, k) # {} /\ Stop(entries, k) = q
        BY <2>6, <1>4, <1>6, StopIsFirst
    <2>8. entries[q] # NoEntry
        BY <2>6, <1>8, NoEntryIsNoKey DEF First
    <2> QED
        BY <2>7, <2>8 DEF Holds
<1>14. {entries[i].key : i \in Live} \ {op.key} = {order[a] : a \in 1..Len(order)}
    <2>1. ASSUME NEW i \in Live, entries[i].key # op.key
          PROVE  \E a \in 1..Len(order) : order[a] = entries[i].key
        <3>1. entries[i].key \in Keys \ {op.key}
            BY <2>1, <1>7, <1>8 DEF Live
        <3>2. PICK p \in Ring(n) : p # gap /\ t[p] = entries[i].key
            BY <3>1, <1>12
        <3> QED
            BY <3>1, <3>2, <1>4, NoEntryIsNoKey DEF Lists, Filled
    <2>2. ASSUME NEW a \in 1..Len(order)
          PROVE  \E i \in Live : entries[i].key = order[a]
        <3>1. order[a] \in Keys
            BY <1>6
        <3>2. PICK p \in Ring(n) : t[p] = order[a]
            BY <1>4 DEF Lists
        <3>3. p # gap
            BY <3>1, <3>2, <1>4, NoEntryIsNoKey
        <3> QED
            BY <3>1, <3>2, <3>3, <1>4, <1>7, <1>8, NoEntryIsNoKey DEF Live
    <2> QED
        BY <2>1, <2>2, <1>5
<1>15. Cardinality({order[a] : a \in 1..Len(order)}) = len
    <2> DEFINE m == Len(order)
               R == {order[a] : a \in 1..m}
    <2>1. m \in Nat /\ order \in [1..m -> R]
        BY <1>6, LenProperties
    <2>2. order \in Bijection(1..m, R)
        BY <2>1, <1>6 DEF Bijection, Injection, Surjection, IsInjective, Distinct
    <2> HIDE DEF m, R
    <2>3. IsFiniteSet(1..m) /\ Cardinality(1..m) = m
        BY <2>1, FS_Interval
    <2>4. ExistsBijection(1..m, R)
        BY <2>2 DEF ExistsBijection
    <2>5. Cardinality(R) = m
        BY <2>3, <2>4, FS_Bijection
    <2> QED
        BY <2>5, <1>6 DEF m, R
<1> QED
    BY <1>11, <1>13, <1>14, <1>15

LEMMA InvFull == RawInv => FullOnlyAtTheCeiling
<1> SUFFICES ASSUME RawInv, op = Idle, answer.answer = "full"
             PROVE  2 * Cardinality(Live) >= max_capacity
    BY DEF FullOnlyAtTheCeiling
<1>1. Ordered(hash, capacity, entries, order) /\ len = Len(order) /\ RawTypes
    BY IdleIs
<1>2. /\ hash \in [Keys -> Int] /\ capacity \in Nat
      /\ entries \in [Ring(capacity) -> Slot] /\ DOMAIN entries = Ring(capacity)
    BY <1>1, Ranges
<1>3. Live = Filled(capacity, KeysOf(entries))
    BY <1>2, KeysAreKeys DEF Live, Filled
<1>4. Cardinality(Live) = len
    BY <1>1, <1>2, <1>3, OrderedSpace
<1>5. 2 * len >= max_capacity
    BY LoopsDiffer DEF RawInv, RefusedFull
<1> QED
    BY <1>4, <1>5

\* After any calls, and at any copy a fork takes of them, the table is laid out as
\* if the removed keys had never been there, a closing gap shows one entry twice
\* and hides none, and a key is refused for room only at the ceiling.
THEOREM LayoutHolds == TableSpec => []Layout
<1>1. RawInv => Layout
    BY InvTypes, InvNeverInserted, InvMidShift, InvFull DEF Layout
<1> QED
    BY <1>1, TableHolds, PTL

-----------------------------------------------------------------------------
(* The map the table implements *)

Functional(E) ==
    /\ E \subseteq [key : Keys, value : Values]
    /\ \A e, f \in E : e.key = f.key => e = f

FunOf(E) == [k \in {j \in Keys : \E e \in E : e.key = j} |-> (CHOOSE e \in E : e.key = k).value]

LEMMA FunDomain ==
    ASSUME NEW E
    PROVE  DOMAIN FunOf(E) = {j \in Keys : \E e \in E : e.key = j}
BY DEF FunOf

LEMMA FunDomainIs ==
    ASSUME NEW E, NEW D, D \subseteq Keys, \A j \in Keys : j \in D <=> \E e \in E : e.key = j
    PROVE  DOMAIN FunOf(E) = D
BY DEF FunOf

LEMMA FunAt ==
    ASSUME NEW E, Functional(E), NEW e \in E, NEW k, k = e.key
    PROVE  k \in DOMAIN FunOf(E) /\ FunOf(E)[k] = e.value /\ e.value \in Values
<1>1. e.key \in Keys /\ e.value \in Values
    BY DEF Functional
<1>2. (CHOOSE f \in E : f.key = e.key) = e
    BY DEF Functional
<1> QED
    BY <1>1, <1>2 DEF FunOf

LEMMA FunRange ==
    ASSUME NEW E, Functional(E)
    PROVE  FunOf(E) \in [DOMAIN FunOf(E) -> Values]
<1>1. FunOf(E) = [k \in DOMAIN FunOf(E) |-> FunOf(E)[k]]
    BY DEF FunOf
<1>2. ASSUME NEW k \in DOMAIN FunOf(E) PROVE FunOf(E)[k] \in Values
    <2>1. PICK e \in E : e.key = k
        BY FunDomain
    <2> QED
        BY <2>1, FunAt
<1> QED
    BY <1>1, <1>2

LEMMA EntryIs ==
    ASSUME NEW cells, NEW k
    PROVE  /\ HasEntry(cells, k) <=> \E e \in Records(cells) : e.key = k
           /\ HasEntry(cells, k) => EntryOf(cells, k) \in Records(cells) /\ EntryOf(cells, k).key = k
<1>1. HasEntry(cells, k) <=> \E e \in Records(cells) : e.key = k
    BY DEF HasEntry, Records
<1>2. ASSUME HasEntry(cells, k)
      PROVE  EntryOf(cells, k) \in Records(cells) /\ EntryOf(cells, k).key = k
    <2> DEFINE i == CHOOSE i \in DOMAIN cells : cells[i] # NoEntry /\ cells[i].key = k
    <2>1. i \in DOMAIN cells /\ cells[i] # NoEntry /\ cells[i].key = k
        BY <1>2 DEF HasEntry
    <2>2. EntryOf(cells, k) = cells[i]
        BY DEF EntryOf
    <2> HIDE DEF i
    <2> QED
        BY <2>1, <2>2 DEF Records
<1> QED
    BY <1>1, <1>2

LEMMA MapIs ==
    ASSUME NEW cells, NEW old, NEW gone, NEW E, Functional(E),
           E = {e \in Records(cells) \cup Records(old) : e.key \notin gone}
    PROVE  MapOf(cells, old, gone) = FunOf(E)
<1> DEFINE D == {j \in Keys \ gone : HasEntry(cells, j) \/ HasEntry(old, j)}
<1>1. D = DOMAIN FunOf(E)
    <2>1. ASSUME NEW j \in Keys PROVE j \in D <=> \E e \in E : e.key = j
        <3>1. j \in D <=> j \notin gone /\ (HasEntry(cells, j) \/ HasEntry(old, j))
            OBVIOUS
        <3>2. HasEntry(cells, j) <=> \E e \in Records(cells) : e.key = j
            BY EntryIs
        <3>3. HasEntry(old, j) <=> \E e \in Records(old) : e.key = j
            BY EntryIs
        <3> QED
            BY <3>1, <3>2, <3>3
    <2> HIDE DEF D
    <2>2. D \subseteq Keys
        BY DEF D
    <2> QED
        BY <2>1, <2>2, FunDomainIs
<1>2. ASSUME NEW k \in D
      PROVE  (IF HasEntry(cells, k) THEN EntryOf(cells, k).value ELSE EntryOf(old, k).value)
                = FunOf(E)[k]
    <2>1. CASE HasEntry(cells, k)
        <3>1. EntryOf(cells, k) \in E /\ EntryOf(cells, k).key = k
            BY <2>1, EntryIs
        <3> QED
            BY <2>1, <3>1, FunAt
    <2>2. CASE ~ HasEntry(cells, k)
        <3>1. EntryOf(old, k) \in E /\ EntryOf(old, k).key = k
            BY <2>2, EntryIs
        <3> QED
            BY <2>2, <3>1, FunAt
    <2> QED
        BY <2>1, <2>2
<1>3. FunOf(E) = [k \in DOMAIN FunOf(E) |-> FunOf(E)[k]]
    BY DEF FunOf
<1> QED
    BY <1>1, <1>2, <1>3 DEF MapOf

\* A table with its keys each in one slot holds one record of each.
LEMMA OneRecordEach ==
    ASSUME NEW n \in Nat, NEW cells \in [Ring(n) -> Slot], OneSlotEach(n, KeysOf(cells))
    PROVE  Functional(Records(cells))
<1>1. Records(cells) \subseteq [key : Keys, value : Values]
    BY RecordsOf
<1>2. ASSUME NEW e \in Records(cells), NEW f \in Records(cells), e.key = f.key
      PROVE  e = f
    <2>1. PICK p \in Ring(n) : cells[p] = e /\ KeysOf(cells)[p] = e.key
        BY RecordsOf
    <2>2. PICK q \in Ring(n) : cells[q] = f /\ KeysOf(cells)[q] = f.key
        BY RecordsOf
    <2>3. e.key \in Keys
        BY <1>1
    <2>4. p = q
        BY <2>1, <2>2, <2>3, <1>2, NoEntryIsNoKey DEF OneSlotEach, Filled
    <2> QED
        BY <2>1, <2>2, <2>4
<1> QED
    BY <1>1, <1>2 DEF Functional

LEMMA ContentFunctional ==
    ASSUME RawInv
    PROVE  Functional(Content)
<1>1. RawTypes
    BY DEF RawInv
<1>2. /\ hash \in [Keys -> Int] /\ capacity \in Nat /\ entries \in [Ring(capacity) -> Slot]
    BY <1>1, Ranges
<1>3. CASE op = Idle
    <2>1. Ordered(hash, capacity, entries, order) /\ Content = Records(entries)
        BY <1>3, IdleIs
    <2> QED
        BY <2>1, <1>2, OrderedSpace, OneRecordEach
<1>4. CASE op \in Rehashes
    <2>1. op.loop = "rehash"
        BY <1>4, LoopsDiffer
    <2>2. PICK old : old = op.old
        OBVIOUS
    <2>3. PICK C : C = Capacity(old)
        OBVIOUS
    <2>4. /\ C \in Nat /\ old \in [Ring(C) -> Slot] /\ OneSlotEach(C, KeysOf(old))
          /\ Content = Records(old)
        BY <2>1, <2>2, <2>3, RehashIs
    <2> QED
        BY <2>4, OneRecordEach
<1>5. CASE op \in Shifts
    <2>1. op.loop = "shift"
        BY <1>5, LoopsDiffer
    <2>2. PICK n : n = capacity
        OBVIOUS
    <2>3. PICK gap : gap = op.gap
        OBVIOUS
    <2>4. PICK t : t = Vacated(entries, gap)
        OBVIOUS
    <2>5. /\ n \in Nat \ {0} /\ gap \in Ring(n)
          /\ \A p \in Ring(n) : p # gap => t[p] = KeysOf(entries)[p]
          /\ OneSlotEach(n, t)
        BY <2>1, <2>2, <2>3, <2>4, ShiftIs
    <2>6. Content = {entries[p] : p \in Ring(n) \ {gap}} \ {NoEntry}
        BY <2>1, <2>2, <2>3, ShiftContents
    <2>7. \A p \in Ring(n) : entries[p] # NoEntry =>
              /\ entries[p] \in [key : Keys, value : Values] /\ entries[p].key \in Keys
              /\ KeysOf(entries)[p] = entries[p].key
        BY <1>2, <2>2, KeysAreKeys
    <2>8. ASSUME NEW e \in Content, NEW f \in Content, e.key = f.key
          PROVE  e = f
        <3>1. PICK p \in Ring(n) \ {gap} : entries[p] = e /\ e # NoEntry
            BY <2>6
        <3>2. PICK q \in Ring(n) \ {gap} : entries[q] = f /\ f # NoEntry
            BY <2>6
        <3>3. t[p] = e.key /\ t[q] = f.key /\ e.key \in Keys
            BY <3>1, <3>2, <2>5, <2>7
        <3>4. p = q
            BY <3>3, <2>5, <2>8, NoEntryIsNoKey DEF OneSlotEach, Filled
        <3> QED
            BY <3>1, <3>2, <3>4
    <2> QED
        BY <2>6, <2>7, <2>8 DEF Functional
<1> QED
    BY <1>1, <1>3, <1>4, <1>5 DEF RawTypes

\* The refinement mapping is the content.
LEMMA MappingIs == RawInv => Mapping = FunOf(Content) /\ Functional(Content)
<1> SUFFICES ASSUME RawInv PROVE Mapping = FunOf(Content)
    BY ContentFunctional
<1>1. Functional(Content) /\ RawTypes
    BY ContentFunctional DEF RawInv
<1>2. Records(NoTable) = {}
    BY DEF Records, NoTable
<1>3. CASE op = Idle
    <2>1. Mapping = MapOf(entries, NoTable, {})
        BY <1>3, LoopsDiffer DEF Mapping
    <2>2. Content = Records(entries)
        BY <1>3, IdleIs
    <2>3. Content = {e \in Records(entries) \cup Records(NoTable) : e.key \notin {}}
        BY <2>2, <1>2
    <2> QED
        BY <2>1, <2>3, <1>1, MapIs
<1>4. CASE op \in Rehashes
    <2>1. op.loop = "rehash"
        BY <1>4, LoopsDiffer
    <2>2. PICK old : old = op.old
        OBVIOUS
    <2>3. PICK C : C = Capacity(old)
        OBVIOUS
    <2>4. Rehashed(entries, old, op.index) /\ Content = Records(old)
        BY <2>1, <2>2, <2>3, RehashIs
    <2>5. Records(entries) \subseteq Records(old)
        <3>1. \A e \in Records(entries) : e # NoEntry
            BY DEF Records
        <3> QED
            BY <3>1, <2>4 DEF Rehashed, Records
    <2>6. Mapping = MapOf(entries, old, {})
        BY <2>1, <2>2 DEF Mapping
    <2>7. Content = {e \in Records(entries) \cup Records(old) : e.key \notin {}}
        BY <2>4, <2>5
    <2> QED
        BY <2>6, <2>7, <1>1, MapIs
<1>5. CASE op \in Shifts
    <2>1. op.loop = "shift"
        BY <1>5, LoopsDiffer
    <2>2. Mapping = MapOf(entries, NoTable, {op.key})
        BY <2>1 DEF Mapping
    <2>3. Content = {e \in Records(entries) \cup Records(NoTable) : e.key \notin {op.key}}
        BY <2>1, <1>2 DEF Content
    <2> QED
        BY <2>2, <2>3, <1>1, MapIs
<1> QED
    BY <1>1, <1>3, <1>4, <1>5 DEF RawTypes

LEMMA MappingIsNext == (RawInv => Mapping = FunOf(Content) /\ Functional(Content))'
BY MappingIs, PTL

LEMMA FunUpdated ==
    ASSUME NEW E, Functional(E), NEW k \in Keys, NEW v \in Values, NEW m, m = FunOf(E)
    PROVE  FunOf(Updated(E, k, v)) = [j \in DOMAIN m \cup {k} |-> IF j = k THEN v ELSE m[j]]
<1>1. PICK r : r = [key |-> k, value |-> v]
    OBVIOUS
<1>2. PICK U : U = Updated(E, k, v)
    OBVIOUS
<1>3. /\ r \in [key : Keys, value : Values] /\ r.key = k /\ r.value = v
      /\ U = {e \in E : e.key # k} \cup {r}
    BY <1>1, <1>2 DEF Updated
<1>4. Functional(U)
    BY <1>3 DEF Functional
<1>5. DOMAIN FunOf(U) = DOMAIN FunOf(E) \cup {k}
    BY <1>3, <1>4, FunDomain
<1>6. ASSUME NEW j \in DOMAIN FunOf(U)
      PROVE  FunOf(U)[j] = IF j = k THEN v ELSE FunOf(E)[j]
    <2>1. PICK e \in U : e.key = j
        BY <1>4, FunDomain
    <2>2. FunOf(U)[j] = e.value
        BY <2>1, <1>4, FunAt
    <2>3. CASE j = k
        BY <2>1, <2>2, <2>3, <1>3
    <2>4. CASE j # k
        <3>1. e \in E
            BY <2>1, <2>4, <1>3
        <3>2. FunOf(E)[j] = e.value
            BY <3>1, <2>1, FunAt
        <3> QED
            BY <2>2, <2>4, <3>2
    <2> QED
        BY <2>3, <2>4
<1>7. FunOf(U) = [j \in DOMAIN FunOf(U) |-> FunOf(U)[j]]
    BY DEF FunOf
<1> QED
    BY <1>2, <1>5, <1>6, <1>7

LEMMA FunRemoved ==
    ASSUME NEW E, Functional(E), NEW k, NEW m, m = FunOf(E)
    PROVE  FunOf({e \in E : e.key # k}) = [j \in DOMAIN m \ {k} |-> m[j]]
<1>1. PICK U : U = {e \in E : e.key # k}
    OBVIOUS
<1>2. Functional(U)
    BY <1>1 DEF Functional
<1>3. DOMAIN FunOf(U) = DOMAIN FunOf(E) \ {k}
    <2>1. \A j \in Keys : j \in DOMAIN FunOf(E) <=> \E e \in E : e.key = j
        BY FunDomain
    <2>2. DOMAIN FunOf(E) \subseteq Keys
        BY FunDomain
    <2>3. \A j \in Keys : j \in DOMAIN FunOf(E) \ {k} <=> \E e \in U : e.key = j
        BY <2>1, <1>1
    <2> QED
        BY <2>2, <2>3, FunDomainIs
<1>4. ASSUME NEW j \in DOMAIN FunOf(U) PROVE FunOf(U)[j] = FunOf(E)[j]
    <2>1. PICK e \in U : e.key = j
        BY <1>2, FunDomain
    <2> QED
        BY <2>1, <1>1, <1>2, FunAt
<1>5. FunOf(U) = [j \in DOMAIN FunOf(U) |-> FunOf(U)[j]]
    BY DEF FunOf
<1> QED
    BY <1>1, <1>3, <1>4, <1>5

LEMMA AbstractInsert ==
    ASSUME NEW E, NEW F, Functional(E), Mapping = FunOf(E), Mapping' = FunOf(F),
           E = Content, F = Content', NEW k \in Keys, NEW v \in Values, InsertAnswers(k, v)
    PROVE  Abstract!InsertKey(k, v)
<1>1. k \in DOMAIN Mapping <=> \E e \in E : e.key = k
    BY FunDomain
<1>2. CASE F = Updated(E, k, v)
    <2>1. Mapping' = [j \in DOMAIN Mapping \cup {k} |-> IF j = k THEN v ELSE Mapping[j]]
        BY <1>2, FunUpdated
    <2>2. \/ answer' = Answer(k, "replaced") /\ k \in DOMAIN Mapping
          \/ answer' = Answer(k, "added") /\ k \notin DOMAIN Mapping
          \/ /\ answer' \in {Answer(k, "full"), Answer(k, "no_memory")}
             /\ k \notin DOMAIN Mapping /\ F = E
        BY <1>1 DEF InsertAnswers
    <2> QED
        BY <2>1, <2>2 DEF Abstract!InsertKey, Abstract!Put, Abstract!Answers, Answer
<1>3. CASE F # Updated(E, k, v)
    <2>1. /\ answer' \in {Answer(k, "full"), Answer(k, "no_memory")}
          /\ k \notin DOMAIN Mapping /\ Mapping' = Mapping
        BY <1>1, <1>3 DEF InsertAnswers
    <2> QED
        BY <2>1 DEF Abstract!InsertKey, Abstract!Answers, Answer
<1> QED
    BY <1>2, <1>3

LEMMA AbstractRemove ==
    ASSUME NEW E, NEW F, Functional(E), Mapping = FunOf(E), Mapping' = FunOf(F),
           E = Content, F = Content', NEW k \in Keys, RemoveAnswers(k)
    PROVE  Abstract!RemoveKey(k)
<1>1. k \in DOMAIN Mapping <=> \E e \in E : e.key = k
    BY FunDomain
<1>2. F = {x \in E : x.key # k}
    BY DEF RemoveAnswers
<1>3. Mapping' = [j \in DOMAIN Mapping \ {k} |-> Mapping[j]]
    BY <1>2, FunRemoved
<1>4. answer' = IF k \in DOMAIN Mapping THEN Gives(k, Mapping[k]) ELSE Answer(k, "none")
    <2>1. CASE k \notin DOMAIN Mapping
        BY <2>1, <1>1 DEF RemoveAnswers
    <2>2. CASE k \in DOMAIN Mapping
        <3>1. PICK e \in E : e.key = k /\ answer' = Gives(k, e.value)
            BY <2>2, <1>1 DEF RemoveAnswers
        <3>2. Mapping[k] = e.value
            BY <3>1, FunAt
        <3> QED
            BY <2>2, <3>1, <3>2
    <2> QED
        BY <2>1, <2>2
<1> QED
    BY <1>3, <1>4 DEF Abstract!RemoveKey, Abstract!Restrict, Abstract!Found, Abstract!Answers,
                      Gives, Answer

\* The initial states of the table are those of the map.
LEMMA MapStarts == TableInit => Abstract!MapInit
<1> SUFFICES ASSUME TableInit PROVE Abstract!MapInit
    OBVIOUS
<1>1. RawInv /\ Content = {}
    BY InitKeeps
<1>2. Mapping = FunOf({})
    BY <1>1, MappingIs
<1>3. FunOf({}) = << >>
    BY DEF FunOf
<1>4. answer = [answer |-> "none"]
    BY DEF TableInit, NoAnswer
<1> QED
    BY <1>2, <1>3, <1>4 DEF Abstract!MapInit, Abstract!Nothing

\* Every step of the table is a step of the map, or leaves it as it is.
LEMMA MapSteps == RawInv /\ [TableNext]_rawVars => [Abstract!MapNext]_(Abstract!mapVars)
<1> SUFFICES ASSUME RawInv, [TableNext]_rawVars
             PROVE  [Abstract!MapNext]_(Abstract!mapVars)
    OBVIOUS
<1>1. RawInv' /\ StepAnswers
    BY StepKeeps
<1>2. PICK E : E = Content
    OBVIOUS
<1>3. PICK F : F = Content'
    OBVIOUS
<1>4. Functional(E) /\ Mapping = FunOf(E) /\ Functional(F) /\ Mapping' = FunOf(F)
    BY <1>1, <1>2, <1>3, MappingIs, MappingIsNext
<1>5. Mapping \in [DOMAIN Mapping -> Values] /\ Mapping' \in [DOMAIN Mapping' -> Values]
    BY <1>4, FunRange
<1>6. ASSUME NEW k \in Keys, NEW v \in Values, InsertAnswers(k, v) PROVE Abstract!MapNext
    BY <1>2, <1>3, <1>4, <1>6, AbstractInsert DEF Abstract!MapNext
<1>7. ASSUME NEW k \in Keys, RemoveAnswers(k) PROVE Abstract!MapNext
    BY <1>2, <1>3, <1>4, <1>7, AbstractRemove DEF Abstract!MapNext
<1>8. CASE RewriteAnswers
    <2>1. PICK v \in Values : F = {[key |-> e.key, value |-> v] : e \in E}
        BY <1>2, <1>3, <1>8 DEF RewriteAnswers
    <2>2. DOMAIN FunOf(F) = DOMAIN FunOf(E)
        <3>1. \A e \in E : [key |-> e.key, value |-> v] \in F
            BY <2>1
        <3>2. \A f \in F : \E e \in E : e.key = f.key
            BY <2>1
        <3>3. \A e \in E : \E f \in F : f.key = e.key
            BY <3>1
        <3> QED
            BY <3>2, <3>3, <1>4, FunDomain
    <2>3. Mapping' \in [DOMAIN Mapping -> Values] /\ answer' = NoAnswer
        BY <2>2, <1>4, <1>5, <1>8 DEF RewriteAnswers
    <2> QED
        BY <2>3 DEF Abstract!MapNext, Abstract!Rewrite, Abstract!Nothing, NoAnswer
<1>9. CASE answer' = NoAnswer /\ F = {}
    <2>1. FunOf({}) = << >>
        BY DEF FunOf
    <2> QED
        BY <2>1, <1>4, <1>9 DEF Abstract!MapNext, Abstract!ClearMap, Abstract!Nothing, NoAnswer
<1>10. CASE answer' = NoAnswer /\ F = E
    BY <1>4, <1>5, <1>10 DEF Abstract!MapNext, Abstract!Rewrite, Abstract!Nothing, NoAnswer
<1>11. CASE answer' = answer /\ F = E
    BY <1>4, <1>11 DEF Abstract!mapVars
<1> QED
    BY <1>1, <1>2, <1>3, <1>6, <1>7, <1>8, <1>9, <1>10, <1>11 DEF StepAnswers

\* The table is a map: every call answers, and leaves behind, what a map would,
\* and the loops that move its entries change nothing a caller can see.
THEOREM TableIsAMap == TableSpec => ImplementsBoundedMap
<1>1. TableInit => Abstract!MapInit
    BY MapStarts
<1>2. RawInv /\ [TableNext]_rawVars => [Abstract!MapNext]_(Abstract!mapVars)
    BY MapSteps
<1> QED
    BY <1>1, <1>2, TableHolds, PTL DEF TableSpec, ImplementsBoundedMap, Abstract!MapSpec
=============================================================================
