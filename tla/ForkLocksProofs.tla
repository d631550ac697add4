--------------------------- MODULE ForkLocksProofs --------------------------
(***************************************************************************)
(* What ForkLocks.tla promises, proved for any threads, any number of      *)
(* shards and any number of operations: a thread waits only for a lock     *)
(* that comes after all it holds, a fork that reports the locks held is    *)
(* made in quiet, and every way out of an operation gives back what it     *)
(* took.                                                                   *)
(*                                                                         *)
(* A standing is what an operation has of the locks, the gate and the      *)
(* guard between two of its steps.  Every operation leads from the         *)
(* standing of a thread at rest back to it, through standings that allow   *)
(* each step; so does whatever it does when it gives up.  That is proved   *)
(* of each operation once, from its parts.  The inductive invariant says   *)
(* that every thread has a standing which agrees with the state and from   *)
(* which what it has still to do leads to rest.                            *)
(***************************************************************************)
EXTENDS ForkLocks, FiniteSetTheorems, TLAPS

\* `fork` says how far a fork is: not one, before the guard, inside it, in the
\* window with all locks or none, and in the child before it starts anew.
Stages == {"no", "begun", "guarded", "all held", "none held", "child"}
Gates == {"open", "announced", "drained"}
Standings == [locks : SUBSET Locks, reads : BOOLEAN, gate : Gates,
              fork : Stages]
Standing(locks, reads, gate, fork) ==
    [locks |-> locks, reads |-> reads, gate |-> gate, fork |-> fork]
At(locks, reads) == Standing(locks, reads, "open", "no")
AtRest == At({}, FALSE)
IsAt(A, locks, reads, gate, fork) ==
    A.locks = locks /\ A.reads = reads /\ A.gate = gate /\ A.fork = fork

\* Everything held comes before the lock.
MayLock(A, l) == (\A k \in A.locks : Before(k, l)) /\ (A.reads => Before(GateLock, l))

\* Where fork returns, and what is held there.
InWindow(A) == \/ IsAt(A, Locks, FALSE, "drained", "all held")
               \/ IsAt(A, {}, FALSE, "open", "none held")

\* What a step makes of a standing that allows it.
Effect(step, A, B) ==
    LET do == step.do
    IN  \/ /\ do = "lock" /\ MayLock(A, step.at)
           /\ IsAt(B, A.locks \cup {step.at}, A.reads, A.gate, A.fork)
        \/ /\ do = "unlock" /\ step.at \in A.locks
           /\ step.at = GateLock => A.gate = "open"
           /\ IsAt(B, A.locks \ {step.at}, A.reads, A.gate, A.fork)
        \/ /\ do = "read" /\ ~A.reads /\ \A k \in A.locks : Before(k, GateLock)
           /\ step.at = GateLock
           /\ IsAt(B, A.locks, TRUE, A.gate, A.fork)
        \/ /\ do = "unread" /\ A.reads
           /\ IsAt(B, A.locks, FALSE, A.gate, A.fork)
        \/ /\ do = "announce" /\ GateLock \in A.locks /\ A.gate = "open"
           /\ IsAt(B, A.locks, A.reads, "announced", A.fork)
        \/ /\ do = "drain" /\ A.gate = "announced"
           /\ IsAt(B, A.locks, A.reads, "drained", A.fork)
        \/ /\ do = "reopen" /\ A.gate # "open"
           /\ IsAt(B, A.locks, A.reads, "open", A.fork)
        \/ /\ do = "enter" /\ A.fork = "begun"
           /\ IsAt(B, A.locks, A.reads, A.gate, "guarded")
        \/ /\ do = "all held" /\ IsAt(A, Locks, FALSE, "drained", "guarded")
           /\ IsAt(B, Locks, FALSE, "drained", "all held")
        \/ /\ do = "none held" /\ IsAt(A, {}, FALSE, "open", "guarded")
           /\ IsAt(B, {}, FALSE, "open", "none held")
        \/ do = "fork" /\ InWindow(A) /\ B = A
        \/ do = "parent" /\ InWindow(A) /\ B = AtRest
        \/ /\ do = "reinit" /\ A.fork = "child"
           /\ IsAt(B, {}, FALSE, "open", "guarded")
        \/ do = "leave" /\ IsAt(A, {}, FALSE, "open", "guarded") /\ B = AtRest

\* A step that is never given up, and one that may be.
Doings == {"lock", "unlock", "read", "unread", "announce", "drain", "reopen", "enter",
           "all held", "none held", "fork", "parent", "reinit", "leave"}
PlainSteps == [do : Doings, at : Locks, timed : {FALSE}, otherwise : {<<>>}]
TimedSteps == [do : {"lock", "drain"}, at : Locks, timed : {TRUE}, otherwise : Seq(PlainSteps)]
Steps == PlainSteps \cup TimedSteps

\* The standings between the steps.
Traces(q) == [0..Len(q) -> Standings]
Follows(q, h) == \A i \in 1..Len(q) : Effect(q[i], h[i - 1], h[i])
Plainly(q, A, B) == \E h \in Traces(q) : h[0] = A /\ h[Len(q)] = B /\ Follows(q, h)

\* A fork's steps end in the parent's or the child's handler.
EndsFork(q) == q # <<>> /\ q[Len(q)].do \in {"parent", "leave"}

\* Giving up at A leads to rest.
Excused(step, A) ==
    step.timed => /\ Plainly(step.otherwise, A, AtRest)
                  /\ A.fork # "no" => EndsFork(step.otherwise)

Leads(q, A, B) ==
    \E h \in Traces(q) : /\ h[0] = A /\ h[Len(q)] = B
                         /\ Follows(q, h)
                         /\ \A i \in 1..Len(q) : Excused(q[i], h[i - 1])

-----------------------------------------------------------------------------
(* The order of the locks. *)

LEMMA Order ==
    /\ \A s \in 1..Shards :
          /\ \A r \in 1..Shards : s < r => Before(Live(s), Live(r)) /\ Before(Point(s), Point(r))
          /\ \A r \in 1..Shards : Before(Live(s), Point(r))
          /\ Before(Live(s), GateLock) /\ Before(Live(s), Overflow)
          /\ Before(Live(s), RegionLock) /\ Before(Live(s), ArenaLock)
          /\ Before(GateLock, Point(s)) /\ Before(Point(s), Overflow)
          /\ Before(Point(s), RegionLock) /\ Before(Point(s), ArenaLock)
    /\ Before(GateLock, Overflow) /\ Before(GateLock, RegionLock) /\ Before(GateLock, ArenaLock)
    /\ Before(Overflow, RegionLock) /\ Before(Overflow, ArenaLock)
    /\ Before(RegionLock, ArenaLock)
    /\ \A l \in Locks : ~Before(l, l)
  BY ForkLocksAssumption
     DEF Before, Locks, Live, Point, GateLock, Overflow, RegionLock, ArenaLock, LiveBlockShard,
         PeakGate, ProgramPointShard, RegionTable, ArenaLevel

LEMMA AreLocks ==
    /\ \A s \in 1..Shards : Live(s) \in Locks /\ Point(s) \in Locks
    /\ {GateLock, Overflow, RegionLock, ArenaLock} \subseteq Locks
    /\ Locks = {Live(s) : s \in 1..Shards} \cup {Point(s) : s \in 1..Shards}
                 \cup {GateLock, Overflow, RegionLock, ArenaLock}
    /\ 1 \in 1..Shards
  BY ForkLocksAssumption DEF Locks

Joins(r, p, q) ==
    /\ Len(r) = Len(p) + Len(q)
    /\ \A i \in 1..Len(p) : r[i] = p[i]
    /\ \A i \in 1..Len(q) : r[Len(p) + i] = q[i]

LEMMA Joined ==
    ASSUME NEW S, NEW p \in Seq(S), NEW q \in Seq(S)
    PROVE  p \o q \in Seq(S) /\ Joins(p \o q, p, q)
  BY DEF Joins

Rising(ls) == ls \in Seq(Locks) /\ \A i, j \in 1..Len(ls) : i < j => Before(ls[i], ls[j])

LEMMA RisingOnce ==
    ASSUME NEW ls, Rising(ls)
    PROVE  \A i, j \in 1..Len(ls) : ls[i] = ls[j] => i = j
  <1>1. \A i \in 1..Len(ls) : ls[i] \in Locks
    BY DEF Rising
  <1>2. QED
    BY <1>1, Order DEF Rising

LEMMA LiveRise ==
    /\ Rising(LiveLocks) /\ Len(LiveLocks) = Shards
    /\ \A i \in 1..Shards : LiveLocks[i] = Live(i)
  <1>1. /\ Len(LiveLocks) = Shards
        /\ \A i \in 1..Shards : LiveLocks[i] = Live(i)
        /\ LiveLocks \in Seq(Locks)
    BY ForkLocksAssumption, AreLocks DEF LiveLocks
  <1>2. QED
    BY <1>1, Order, ForkLocksAssumption DEF Rising

LEMMA PointsRise ==
    /\ Rising(PointLocks) /\ Len(PointLocks) = Shards + 1
    /\ \A i \in 1..Shards : PointLocks[i] = Point(i)
    /\ PointLocks[Shards + 1] = Overflow
  <1> DEFINE ps == [s \in 1..Shards |-> Point(s)]
  <1>1. Shards \in Nat
    BY ForkLocksAssumption
  <1>2. ps \in Seq(Locks) /\ Len(ps) = Shards /\ \A i \in 1..Shards : ps[i] = Point(i)
    BY <1>1, AreLocks
  <1>3. PointLocks = ps \o <<Overflow>>
    BY DEF PointLocks
  <1> HIDE DEF ps
  <1>4. <<Overflow>> \in Seq(Locks) /\ Len(<<Overflow>>) = 1 /\ <<Overflow>>[1] = Overflow
    BY AreLocks
  <1>5. /\ PointLocks \in Seq(Locks) /\ Len(PointLocks) = Shards + 1
        /\ \A i \in 1..Shards : PointLocks[i] = Point(i)
        /\ PointLocks[Shards + 1] = Overflow
    BY <1>1, <1>2, <1>3, <1>4
  <1>6. \A i, j \in 1..Shards + 1 : i < j => Before(PointLocks[i], PointLocks[j])
    <2> TAKE i, j \in 1..Shards + 1
    <2> HAVE i < j
    <2>1. i \in 1..Shards /\ (j \in 1..Shards \/ j = Shards + 1)
      BY <1>1
    <2>2. QED
      BY <2>1, <1>5, Order
  <1>7. QED
    BY <1>5, <1>6 DEF Rising

LEMMA DeeperRise ==
    /\ Rising(Deeper) /\ Len(Deeper) = Shards + 3
    /\ \A i \in 1..Shards : Deeper[i] = Point(i)
    /\ Deeper[Shards + 1] = Overflow /\ Deeper[Shards + 2] = RegionLock
    /\ Deeper[Shards + 3] = ArenaLock
  <1> DEFINE rest == <<RegionLock, ArenaLock>>
  <1>1. Shards \in Nat
    BY ForkLocksAssumption
  <1>2. PointLocks \in Seq(Locks) /\ Len(PointLocks) = Shards + 1
    BY PointsRise DEF Rising
  <1>3. rest \in Seq(Locks) /\ Len(rest) = 2 /\ rest[1] = RegionLock /\ rest[2] = ArenaLock
    BY AreLocks
  <1>4. Deeper = PointLocks \o rest
    BY DEF Deeper
  <1> HIDE DEF rest
  <1>5. /\ Deeper \in Seq(Locks) /\ Len(Deeper) = Shards + 3
        /\ \A i \in 1..Shards + 1 : Deeper[i] = PointLocks[i]
        /\ Deeper[Shards + 2] = RegionLock /\ Deeper[Shards + 3] = ArenaLock
    <2>1. PointLocks \in Seq(Locks) /\ rest \in Seq(Locks)
      BY <1>2, <1>3
    <2>2. Len(PointLocks) = Shards + 1 /\ Len(rest) = 2
      BY <1>2, <1>3
    <2>3. /\ Deeper \in Seq(Locks) /\ Len(Deeper) = Shards + 1 + 2
          /\ \A i \in 1..Shards + 1 : Deeper[i] = PointLocks[i]
          /\ \A i \in 1..2 : Deeper[Shards + 1 + i] = rest[i]
      <3>1. PointLocks \o rest \in Seq(Locks) /\ Joins(PointLocks \o rest, PointLocks, rest)
        BY <2>1, Joined
      <3>2. Deeper \in Seq(Locks) /\ Joins(Deeper, PointLocks, rest)
        BY <1>4, <3>1
      <3>3. QED
        BY <2>2, <3>2 DEF Joins
    <2>4. Shards + 1 + 1 = Shards + 2 /\ Shards + 1 + 2 = Shards + 3 /\ {1, 2} \subseteq 1..2
      BY <1>1
    <2>5. QED
      BY <1>1, <1>3, <2>3, <2>4
  <1>6. \A i \in 1..Shards : Deeper[i] = Point(i)
    BY <1>1, <1>5, PointsRise
  <1>7. Deeper[Shards + 1] = Overflow
    BY <1>1, <1>5, PointsRise
  <1>8. \A i, j \in 1..Shards + 3 : i < j => Before(Deeper[i], Deeper[j])
    <2> TAKE i, j \in 1..Shards + 3
    <2> HAVE i < j
    <2>1. \/ i \in 1..Shards \/ i = Shards + 1 \/ i = Shards + 2
      BY <1>1
    <2>2. \/ j \in 1..Shards \/ j = Shards + 1 \/ j = Shards + 2 \/ j = Shards + 3
      BY <1>1
    <2>3. QED
      BY <1>1, <2>1, <2>2, <1>5, <1>6, <1>7, Order
  <1>9. QED
    BY <1>5, <1>6, <1>7, <1>8 DEF Rising

-----------------------------------------------------------------------------
(* Sequences of steps. *)

Goes(S, q, A, B) == q \in Seq(S) /\ Leads(q, A, B)

LEMMA StandingFields ==
    ASSUME NEW locks \in SUBSET Locks, NEW reads \in BOOLEAN,
           NEW gate \in Gates,
           NEW fork \in Stages
    PROVE  /\ Standing(locks, reads, gate, fork) \in Standings
           /\ IsAt(Standing(locks, reads, gate, fork), locks, reads, gate, fork)
  BY DEF Standing, Standings, IsAt

LEMMA Named ==
    /\ {"open", "announced", "drained"} \subseteq Gates
    /\ {"no", "begun", "guarded", "all held", "none held", "child"} \subseteq Stages
  BY DEF Gates, Stages

LEMMA SameStanding ==
    ASSUME NEW A \in Standings, NEW B \in Standings, NEW locks, NEW reads, NEW gate, NEW fork,
           IsAt(A, locks, reads, gate, fork), IsAt(B, locks, reads, gate, fork)
    PROVE  A = B
  BY DEF IsAt, Standings

LEMMA RestIs == AtRest \in Standings /\ IsAt(AtRest, {}, FALSE, "open", "no")
  BY StandingFields, Named DEF AtRest, At

\* One thing after another.
LEMMA Goes2 ==
    ASSUME NEW S, NEW p, NEW q, NEW A, NEW B, NEW C, Goes(S, p, A, B), Goes(S, q, B, C)
    PROVE  Goes(S, p \o q, A, C)
  <1>1. p \in Seq(S) /\ q \in Seq(S)
    BY DEF Goes
  <1>2. PICK f \in Traces(p) : /\ f[0] = A /\ f[Len(p)] = B /\ Follows(p, f)
                               /\ \A i \in 1..Len(p) : Excused(p[i], f[i - 1])
    BY DEF Goes, Leads
  <1>3. PICK g \in Traces(q) : /\ g[0] = B /\ g[Len(q)] = C /\ Follows(q, g)
                               /\ \A i \in 1..Len(q) : Excused(q[i], g[i - 1])
    BY DEF Goes, Leads
  <1> DEFINE m == Len(p)
             n == Len(q)
             h == [i \in 0..m + n |-> IF i <= m THEN f[i] ELSE g[i - m]]
  <1>4. m \in Nat /\ n \in Nat /\ p \o q \in Seq(S) /\ Len(p \o q) = m + n
    BY <1>1
  <1>5. /\ \A i \in 1..m : (p \o q)[i] = p[i]
        /\ \A i \in 1..n : (p \o q)[m + i] = q[i]
    BY <1>1
  <1>6. f \in [0..m -> Standings] /\ g \in [0..n -> Standings]
    BY DEF Traces
  <1> HIDE DEF m, n
  <1>7. h \in Traces(p \o q)
    BY <1>4, <1>6 DEF Traces
  <1>8. /\ \A i \in 0..m : h[i] = f[i]
        /\ \A i \in 0..n : h[m + i] = g[i]
    <2>1. \A i \in 1..n : h[m + i] = g[i]
      BY <1>4
    <2>2. \A i \in 0..m : h[i] = f[i]
      BY <1>4
    <2>3. h[m + 0] = g[0]
      BY <1>2, <1>3, <1>4, <2>2 DEF m
    <2>4. \A i \in 0..n : i = 0 \/ i \in 1..n
      BY <1>4
    <2> HIDE DEF h
    <2>5. QED
      BY <2>1, <2>2, <2>3, <2>4
  <1> HIDE DEF h
  <1>9. ASSUME NEW i \in 1..m + n
        PROVE  Effect((p \o q)[i], h[i - 1], h[i]) /\ Excused((p \o q)[i], h[i - 1])
    <2>1. CASE i <= m
      <3>1. i \in 1..m /\ i - 1 \in 0..m /\ i \in 0..m
        BY <1>4, <2>1
      <3>2. QED
        BY <1>2, <1>5, <1>8, <3>1 DEF Follows, m
    <2>2. CASE i > m
      <3>1. PICK j \in 1..n : i = m + j
        <4>1. i - m \in 1..n /\ i = m + (i - m)
          BY <1>4, <2>2
        <4>2. QED
          BY <4>1
      <3>2. j - 1 \in 0..n /\ j \in 0..n /\ i - 1 = m + (j - 1)
        BY <1>4, <3>1
      <3>3. h[i - 1] = g[j - 1] /\ h[i] = g[j] /\ (p \o q)[i] = q[j]
        BY <1>5, <1>8, <3>1, <3>2
      <3>4. QED
        BY <1>3, <3>1, <3>3 DEF Follows, n
    <2>3. QED
      BY <1>4, <2>1, <2>2
  <1>10. h[0] = A /\ h[Len(p \o q)] = C
    BY <1>2, <1>3, <1>4, <1>8 DEF n
  <1>11. QED
    BY <1>4, <1>7, <1>9, <1>10 DEF Goes, Leads, Follows

LEMMA Goes1 ==
    ASSUME NEW S, NEW step \in S, NEW A \in Standings, NEW B \in Standings,
           Effect(step, A, B), Excused(step, A)
    PROVE  Goes(S, <<step>>, A, B)
  <1> DEFINE h == [i \in 0..1 |-> IF i = 0 THEN A ELSE B]
  <1>1. <<step>> \in Seq(S) /\ Len(<<step>>) = 1 /\ <<step>>[1] = step
    OBVIOUS
  <1>2. h \in Traces(<<step>>) /\ h[0] = A /\ h[1] = B
    BY <1>1 DEF Traces
  <1> HIDE DEF h
  <1>3. \A i \in 1..1 : i = 1 /\ i - 1 = 0
    OBVIOUS
  <1>4. \A i \in 1..Len(<<step>>) : /\ Effect(<<step>>[i], h[i - 1], h[i])
                                    /\ Excused(<<step>>[i], h[i - 1])
    BY <1>1, <1>2, <1>3
  <1>5. QED
    BY <1>1, <1>2, <1>4 DEF Goes, Leads, Follows

\* Doing nothing.
LEMMA Goes0 ==
    ASSUME NEW S, NEW A \in Standings
    PROVE  Goes(S, <<>>, A, A)
  <1> DEFINE h == [i \in 0..0 |-> A]
  <1>1. <<>> \in Seq(S) /\ Len(<<>>) = 0
    OBVIOUS
  <1>2. h \in Traces(<<>>) /\ h[0] = A
    BY <1>1 DEF Traces
  <1>3. QED
    BY <1>1, <1>2 DEF Goes, Leads, Follows

LEMMA PlainToo ==
    ASSUME NEW q, NEW A, NEW B, Goes(PlainSteps, q, A, B)
    PROVE  Goes(Steps, q, A, B) /\ Plainly(q, A, B)
  <1>1. q \in Seq(Steps)
    BY DEF Goes, Steps
  <1>2. QED
    BY <1>1 DEF Goes, Leads, Plainly

LEMMA EndsAfter ==
    ASSUME NEW S, NEW p \in Seq(S), NEW q \in Seq(S), EndsFork(q)
    PROVE  EndsFork(p \o q)
  <1>1. Len(q) \in Nat \ {0} /\ Len(p) \in Nat
    BY DEF EndsFork
  <1>2. (p \o q)[Len(p) + Len(q)] = q[Len(q)] /\ Len(p \o q) = Len(p) + Len(q)
    BY <1>1
  <1>3. p \o q # <<>>
    BY <1>1
  <1>4. QED
    BY <1>2, <1>3 DEF EndsFork

\* A step that is never given up.
LEMMA StepIs ==
    ASSUME NEW do \in Doings, NEW l \in Locks
    PROVE  /\ Step(do, l) \in PlainSteps /\ Step(do, l) \in Steps
           /\ Step(do, l).do = do /\ Step(do, l).at = l
           /\ \A A : Excused(Step(do, l), A)
  BY DEF Step, PlainSteps, Steps, Excused

-----------------------------------------------------------------------------
(* The parts of the operations. *)

LEMMA LockAllGoes ==
    ASSUME NEW ls, Rising(ls), NEW A \in Standings, \A i \in 1..Len(ls) : MayLock(A, ls[i]),
           NEW B \in Standings, IsAt(B, A.locks \cup Range(ls), A.reads, A.gate, A.fork)
    PROVE  Goes(PlainSteps, LockAll(ls), A, B)
  <1> DEFINE n == Len(ls)
             q == LockAll(ls)
             h == [i \in 0..n |-> Standing(A.locks \cup {ls[k] : k \in 1..i},
                                           A.reads, A.gate, A.fork)]
  <1>1. /\ ls \in Seq(Locks) /\ n \in Nat /\ DOMAIN ls = 1..n
        /\ \A i \in 1..n : ls[i] \in Locks
    BY DEF Rising
  <1>2. q \in Seq(PlainSteps) /\ Len(q) = n /\ \A i \in 1..n : q[i] = Lock(ls[i])
    <2>1. \A l \in Locks : Lock(l) \in PlainSteps
      BY StepIs DEF Lock, Doings
    <2>2. QED
      BY <1>1, <2>1 DEF LockAll
  <1> HIDE DEF n, q
  <1>3. A.locks \in SUBSET Locks /\ A.reads \in BOOLEAN
        /\ A.gate \in Gates
        /\ A.fork \in Stages
    BY DEF Standings
  <1>4. ASSUME NEW i \in 0..n
        PROVE  /\ h[i] \in Standings
               /\ IsAt(h[i], A.locks \cup {ls[k] : k \in 1..i}, A.reads, A.gate, A.fork)
    <2>1. PICK locks : locks = A.locks \cup {ls[k] : k \in 1..i}
      OBVIOUS
    <2>2. locks \in SUBSET Locks
      BY <1>1, <1>3, <2>1
    <2>3. h[i] = Standing(locks, A.reads, A.gate, A.fork)
      BY <2>1
    <2>4. h[i] \in Standings /\ IsAt(h[i], locks, A.reads, A.gate, A.fork)
      BY <1>3, <2>2, <2>3, StandingFields
    <2>5. QED
      BY <2>1, <2>4
  <1>5. h \in Traces(q)
    BY <1>2, <1>4 DEF Traces
  <1> HIDE DEF h
  <1>6. h[0] = A
    <2>1. IsAt(h[0], A.locks, A.reads, A.gate, A.fork) /\ h[0] \in Standings
      <3>1. {ls[k] : k \in 1..0} = {} /\ 0 \in 0..n
        BY <1>1
      <3>2. QED
        BY <1>4, <3>1
    <2>2. QED
      BY <2>1, SameStanding DEF IsAt
  <1>7. h[Len(q)] = B
    <2>1. Range(ls) = {ls[k] : k \in 1..n} /\ n \in 0..n
      BY <1>1 DEF Range
    <2>2. IsAt(h[n], A.locks \cup Range(ls), A.reads, A.gate, A.fork) /\ h[n] \in Standings
      BY <1>4, <2>1
    <2>3. h[n] = B
      BY <2>2, SameStanding
    <2>4. QED
      BY <1>2, <2>3
  <1>8. ASSUME NEW i \in 1..n
        PROVE  Effect(q[i], h[i - 1], h[i]) /\ Excused(q[i], h[i - 1])
    <2>1. i - 1 \in 0..n /\ i \in 0..n
      BY <1>1
    <2>2. MayLock(h[i - 1], ls[i])
      <3>1. \A k \in 1..i - 1 : Before(ls[k], ls[i])
        BY <1>1 DEF Rising, n
      <3>2. MayLock(A, ls[i])
        BY DEF n
      <3>3. QED
        BY <1>4, <2>1, <3>1, <3>2 DEF MayLock, IsAt
    <2>3. {ls[k] : k \in 1..i} = {ls[k] : k \in 1..i - 1} \cup {ls[i]}
      BY <1>1
    <2>4. IsAt(h[i], h[i - 1].locks \cup {ls[i]}, h[i - 1].reads, h[i - 1].gate, h[i - 1].fork)
      <3>1. IsAt(h[i], A.locks \cup {ls[k] : k \in 1..i}, A.reads, A.gate, A.fork)
        BY <1>4, <2>1
      <3>2. IsAt(h[i - 1], A.locks \cup {ls[k] : k \in 1..i - 1}, A.reads, A.gate, A.fork)
        BY <1>4, <2>1
      <3>3. QED
        BY <2>3, <3>1, <3>2 DEF IsAt
    <2>5. q[i].do = "lock" /\ q[i].at = ls[i] /\ ~q[i].timed
      BY <1>2 DEF Lock, Step
    <2>6. QED
      BY <2>2, <2>4, <2>5 DEF Effect, Excused
  <1>9. Follows(q, h) /\ \A i \in 1..Len(q) : Excused(q[i], h[i - 1])
    BY <1>2, <1>8 DEF Follows
  <1>10. QED
    BY <1>2, <1>5, <1>6, <1>7, <1>9 DEF Goes, Leads, q

\* Each of these once, and not the gate's.
Once(ls) == /\ ls \in Seq(Locks)
            /\ \A i, j \in 1..Len(ls) : ls[i] = ls[j] => i = j
            /\ \A i \in 1..Len(ls) : ls[i] # GateLock

LEMMA UnlockAllGoes ==
    ASSUME NEW ls, Once(ls), NEW A \in Standings, Range(ls) \subseteq A.locks,
           NEW B \in Standings, IsAt(B, A.locks \ Range(ls), A.reads, A.gate, A.fork)
    PROVE  Goes(PlainSteps, UnlockAll(ls), A, B)
  <1> DEFINE n == Len(ls)
             q == UnlockAll(ls)
             h == [i \in 0..n |-> Standing(A.locks \ {ls[k] : k \in 1..i},
                                           A.reads, A.gate, A.fork)]
  <1>1. /\ ls \in Seq(Locks) /\ n \in Nat /\ DOMAIN ls = 1..n
        /\ \A i \in 1..n : ls[i] \in Locks
    BY DEF Once
  <1>2. q \in Seq(PlainSteps) /\ Len(q) = n /\ \A i \in 1..n : q[i] = Unlock(ls[i])
    <2>1. \A l \in Locks : Unlock(l) \in PlainSteps
      BY StepIs DEF Unlock, Doings
    <2>2. QED
      BY <1>1, <2>1 DEF UnlockAll
  <1> HIDE DEF n, q
  <1>3. A.locks \in SUBSET Locks /\ A.reads \in BOOLEAN
        /\ A.gate \in Gates
        /\ A.fork \in Stages
    BY DEF Standings
  <1>4. ASSUME NEW i \in 0..n
        PROVE  /\ h[i] \in Standings
               /\ IsAt(h[i], A.locks \ {ls[k] : k \in 1..i}, A.reads, A.gate, A.fork)
    <2>1. PICK locks : locks = A.locks \ {ls[k] : k \in 1..i}
      OBVIOUS
    <2>2. locks \in SUBSET Locks
      BY <1>1, <1>3, <2>1
    <2>3. h[i] = Standing(locks, A.reads, A.gate, A.fork)
      BY <2>1
    <2>4. h[i] \in Standings /\ IsAt(h[i], locks, A.reads, A.gate, A.fork)
      BY <1>3, <2>2, <2>3, StandingFields
    <2>5. QED
      BY <2>1, <2>4
  <1>5. h \in Traces(q)
    BY <1>2, <1>4 DEF Traces
  <1> HIDE DEF h
  <1>6. h[0] = A
    <2>1. IsAt(h[0], A.locks, A.reads, A.gate, A.fork) /\ h[0] \in Standings
      <3>1. {ls[k] : k \in 1..0} = {} /\ 0 \in 0..n
        BY <1>1
      <3>2. QED
        BY <1>4, <3>1
    <2>2. QED
      BY <2>1, SameStanding DEF IsAt
  <1>7. h[Len(q)] = B
    <2>1. Range(ls) = {ls[k] : k \in 1..n} /\ n \in 0..n
      BY <1>1 DEF Range
    <2>2. IsAt(h[n], A.locks \ Range(ls), A.reads, A.gate, A.fork) /\ h[n] \in Standings
      BY <1>4, <2>1
    <2>3. h[n] = B
      BY <2>2, SameStanding
    <2>4. QED
      BY <1>2, <2>3
  <1>8. ASSUME NEW i \in 1..n
        PROVE  Effect(q[i], h[i - 1], h[i]) /\ Excused(q[i], h[i - 1])
    <2>1. i - 1 \in 0..n /\ i \in 0..n
      BY <1>1
    <2>2. ls[i] \in h[i - 1].locks
      <3>1. \A k \in 1..i - 1 : ls[k] # ls[i]
        BY <1>1 DEF Once, n
      <3>2. ls[i] \in A.locks
        BY <1>1 DEF Range
      <3>3. QED
        BY <1>4, <2>1, <3>1, <3>2 DEF IsAt
    <2>3. {ls[k] : k \in 1..i} = {ls[k] : k \in 1..i - 1} \cup {ls[i]}
      BY <1>1
    <2>4. IsAt(h[i], h[i - 1].locks \ {ls[i]}, h[i - 1].reads, h[i - 1].gate, h[i - 1].fork)
      <3>1. IsAt(h[i], A.locks \ {ls[k] : k \in 1..i}, A.reads, A.gate, A.fork)
        BY <1>4, <2>1
      <3>2. IsAt(h[i - 1], A.locks \ {ls[k] : k \in 1..i - 1}, A.reads, A.gate, A.fork)
        BY <1>4, <2>1
      <3>3. QED
        BY <2>3, <3>1, <3>2 DEF IsAt
    <2>5. q[i].do = "unlock" /\ q[i].at = ls[i] /\ ~q[i].timed
      BY <1>2 DEF Unlock, Step
    <2>6. ls[i] # GateLock
      BY DEF Once, n
    <2>7. QED
      BY <2>2, <2>4, <2>5, <2>6 DEF Effect, Excused
  <1>9. Follows(q, h) /\ \A i \in 1..Len(q) : Excused(q[i], h[i - 1])
    BY <1>2, <1>8 DEF Follows
  <1>10. QED
    BY <1>2, <1>5, <1>6, <1>7, <1>9 DEF Goes, Leads, q

LEMMA InTurnGoes ==
    ASSUME NEW ls \in Seq(Locks), NEW A \in Standings,
           \A i \in 1..Len(ls) : MayLock(A, ls[i]) /\ ls[i] # GateLock
    PROVE  Goes(PlainSteps, InTurn(ls), A, A)
  <1> DEFINE n == Len(ls)
             q == InTurn(ls)
             h == [i \in 0..2 * n |->
                      IF i % 2 = 1 THEN Standing(A.locks \cup {ls[(i + 1) \div 2]},
                                                 A.reads, A.gate, A.fork)
                      ELSE A]
  <1>1. /\ n \in Nat /\ \A i \in 1..n : ls[i] \in Locks
    OBVIOUS
  <1>2. \A i \in 1..2 * n : IF i % 2 = 1 THEN (i + 1) \div 2 \in 1..n ELSE i \div 2 \in 1..n
    BY <1>1
  <1>3. /\ q \in Seq(PlainSteps) /\ Len(q) = 2 * n
        /\ \A i \in 1..2 * n : q[i] = IF i % 2 = 1 THEN Lock(ls[(i + 1) \div 2])
                                      ELSE Unlock(ls[i \div 2])
    <2>1. \A l \in Locks : Lock(l) \in PlainSteps /\ Unlock(l) \in PlainSteps
      BY StepIs DEF Lock, Unlock, Doings
    <2>2. QED
      BY <1>1, <1>2, <2>1 DEF InTurn
  <1> HIDE DEF n, q
  <1>4. A.locks \in SUBSET Locks /\ A.reads \in BOOLEAN
        /\ A.gate \in Gates
        /\ A.fork \in Stages
    BY DEF Standings
  <1>5. ASSUME NEW i \in 1..2 * n, i % 2 = 1
        PROVE  /\ h[i] \in Standings
               /\ IsAt(h[i], A.locks \cup {ls[(i + 1) \div 2]}, A.reads, A.gate, A.fork)
    <2>1. PICK locks : locks = A.locks \cup {ls[(i + 1) \div 2]}
      OBVIOUS
    <2>2. locks \in SUBSET Locks
      BY <1>1, <1>2, <1>4, <1>5, <2>1
    <2>3. h[i] = Standing(locks, A.reads, A.gate, A.fork)
      BY <1>1, <1>5, <2>1
    <2>4. h[i] \in Standings /\ IsAt(h[i], locks, A.reads, A.gate, A.fork)
      BY <1>4, <2>2, <2>3, StandingFields
    <2>5. QED
      BY <2>1, <2>4
  <1>6. \A i \in 0..2 * n : i % 2 # 1 => h[i] = A
    BY <1>1
  <1>7. h \in Traces(q)
    <2>1. \A i \in 0..2 * n : h[i] \in Standings
      <3>1. \A i \in 0..2 * n : i % 2 = 1 => i \in 1..2 * n
        BY <1>1
      <3>2. QED
        BY <1>5, <1>6, <3>1
    <2>2. QED
      BY <1>3, <2>1 DEF Traces
  <1> HIDE DEF h
  <1>8. h[0] = A /\ h[Len(q)] = A
    <2>1. 0 \in 0..2 * n /\ 2 * n \in 0..2 * n /\ 0 % 2 # 1 /\ (2 * n) % 2 # 1
      BY <1>1
    <2>2. QED
      BY <1>3, <1>6, <2>1
  <1>9. ASSUME NEW i \in 1..2 * n
        PROVE  Effect(q[i], h[i - 1], h[i]) /\ Excused(q[i], h[i - 1])
    <2>1. CASE i % 2 = 1
      <3> DEFINE l == ls[(i + 1) \div 2]
      <3>1. i - 1 \in 0..2 * n /\ (i - 1) % 2 # 1
        BY <1>1, <2>1
      <3>2. h[i - 1] = A /\ IsAt(h[i], A.locks \cup {l}, A.reads, A.gate, A.fork)
        BY <1>5, <1>6, <2>1, <3>1
      <3>3. MayLock(A, l)
        BY <1>2, <2>1 DEF n
      <3>4. q[i].do = "lock" /\ q[i].at = l /\ ~q[i].timed
        BY <1>3, <2>1 DEF Lock, Step
      <3>5. QED
        BY <3>2, <3>3, <3>4 DEF Effect, Excused
    <2>2. CASE i % 2 # 1
      <3> DEFINE l == ls[i \div 2]
      <3>1. i - 1 \in 1..2 * n /\ (i - 1) % 2 = 1 /\ i - 1 + 1 = i /\ i \in 0..2 * n
        BY <1>1, <2>2
      <3>2. h[i] = A /\ IsAt(h[i - 1], A.locks \cup {l}, A.reads, A.gate, A.fork)
        BY <1>5, <1>6, <2>2, <3>1
      <3>3. l \notin A.locks /\ l # GateLock /\ l \in Locks
        BY <1>1, <1>2, <2>2, Order DEF n, MayLock
      <3>4. q[i].do = "unlock" /\ q[i].at = l /\ ~q[i].timed
        BY <1>3, <2>2 DEF Unlock, Step
      <3>5. h[i - 1].locks \ {l} = A.locks /\ l \in h[i - 1].locks
        BY <3>2, <3>3 DEF IsAt
      <3>6. IsAt(h[i], h[i - 1].locks \ {l}, h[i - 1].reads, h[i - 1].gate, h[i - 1].fork)
        BY <3>2, <3>5 DEF IsAt
      <3>7. QED
        BY <3>3, <3>4, <3>5, <3>6 DEF Effect, Excused
    <2>3. QED
      BY <2>1, <2>2
  <1>10. Follows(q, h) /\ \A i \in 1..Len(q) : Excused(q[i], h[i - 1])
    BY <1>3, <1>9 DEF Follows
  <1>11. QED
    BY <1>3, <1>7, <1>8, <1>10 DEF Goes, Leads, q

-----------------------------------------------------------------------------
(* The operations. *)

LEMMA Appended ==
    ASSUME NEW S, NEW s \in Seq(S), NEW b \in S
    PROVE  Append(s, b) = s \o <<b>>
  OBVIOUS

LEMMA Tuple2 ==
    ASSUME NEW a, NEW b
    PROVE  <<a, b>> = <<a>> \o <<b>>
  <1>1. <<a>> \in Seq({a, b}) /\ b \in {a, b}
    OBVIOUS
  <1>2. <<a, b>> = Append(<<a>>, b)
    OBVIOUS
  <1>3. QED
    BY <1>1, <1>2, Appended

LEMMA Tuple3 ==
    ASSUME NEW a, NEW b, NEW c
    PROVE  <<a, b, c>> = <<a>> \o <<b, c>>
  OBVIOUS

LEMMA Tuple4 ==
    ASSUME NEW a, NEW b, NEW c, NEW d
    PROVE  <<a, b, c, d>> = <<a>> \o <<b, c, d>>
  OBVIOUS

LEMMA StepFields == \A do, l : Step(do, l).do = do /\ Step(do, l).at = l
  BY DEF Step

LEMMA StepGoes ==
    ASSUME NEW do \in Doings, NEW l \in Locks, NEW A \in Standings, NEW B \in Standings,
           Effect(Step(do, l), A, B)
    PROVE  Goes(PlainSteps, <<Step(do, l)>>, A, B)
  BY StepIs, Goes1

\* Two steps, and three.
LEMMA GoesPair ==
    ASSUME NEW S, NEW a, NEW b, NEW A, NEW B, NEW C,
           Goes(S, <<a>>, A, B), Goes(S, <<b>>, B, C)
    PROVE  Goes(S, <<a, b>>, A, C)
  <1>1. Goes(S, <<a>> \o <<b>>, A, C)
    BY Goes2
  <1>2. QED
    BY <1>1, Tuple2

LEMMA GoesTriple ==
    ASSUME NEW S, NEW a, NEW b, NEW c, NEW A, NEW B, NEW C, NEW D,
           Goes(S, <<a>>, A, B), Goes(S, <<b>>, B, C), Goes(S, <<c>>, C, D)
    PROVE  Goes(S, <<a, b, c>>, A, D)
  <1>1. Goes(S, <<b, c>>, B, D)
    BY GoesPair
  <1>2. Goes(S, <<a>> \o <<b, c>>, A, D)
    BY <1>1, Goes2
  <1>3. QED
    BY <1>2, Tuple3

\* A lock taken, and one given back.
LEMMA LockGoes ==
    ASSUME NEW l \in Locks, NEW A \in Standings, NEW B \in Standings, MayLock(A, l),
           IsAt(B, A.locks \cup {l}, A.reads, A.gate, A.fork)
    PROVE  Goes(PlainSteps, <<Lock(l)>>, A, B)
  <1>1. Effect(Step("lock", l), A, B)
    BY StepFields DEF Effect
  <1>2. QED
    BY <1>1, StepGoes DEF Lock, Doings

LEMMA UnlockGoes ==
    ASSUME NEW l \in Locks, NEW A \in Standings, NEW B \in Standings, l \in A.locks,
           l = GateLock => A.gate = "open", IsAt(B, A.locks \ {l}, A.reads, A.gate, A.fork)
    PROVE  Goes(PlainSteps, <<Unlock(l)>>, A, B)
  <1>1. Effect(Step("unlock", l), A, B)
    BY StepFields DEF Effect
  <1>2. QED
    BY <1>1, StepGoes DEF Unlock, Doings

\* A critical section that allocates.
LEMMA AllocatingGoes ==
    ASSUME NEW l \in Locks, Before(l, ArenaLock)
    PROVE  Goes(PlainSteps, Allocating(l), AtRest, AtRest)
  <1>1. l # ArenaLock /\ ArenaLock \in Locks /\ ArenaLock # GateLock
    BY AreLocks, Order
  <1>2. PICK A : A = At({l}, FALSE)
    OBVIOUS
  <1>3. PICK B : B = At({l, ArenaLock}, FALSE)
    OBVIOUS
  <1>4. A \in Standings /\ IsAt(A, {l}, FALSE, "open", "no")
    BY <1>2, StandingFields, Named DEF At
  <1>5. B \in Standings /\ IsAt(B, {l, ArenaLock}, FALSE, "open", "no")
    BY <1>1, <1>3, StandingFields, Named DEF At
  <1>6. Goes(PlainSteps, <<Lock(l)>>, AtRest, A)
    BY <1>4, RestIs, LockGoes DEF IsAt, MayLock
  <1>7. Goes(PlainSteps, <<Lock(ArenaLock)>>, A, B)
    <2>1. A.locks \cup {ArenaLock} = {l, ArenaLock}
      BY <1>4 DEF IsAt
    <2>2. QED
      BY <1>1, <1>4, <1>5, <2>1, LockGoes DEF IsAt, MayLock
  <1>8. Goes(PlainSteps, <<Unlock(ArenaLock)>>, B, A)
    <2>1. B.locks \ {ArenaLock} = {l}
      BY <1>1, <1>5 DEF IsAt
    <2>2. QED
      BY <1>1, <1>4, <1>5, <2>1, UnlockGoes DEF IsAt
  <1>9. Goes(PlainSteps, <<Unlock(l)>>, A, AtRest)
    <2>1. A.locks \ {l} = {}
      BY <1>4 DEF IsAt
    <2>2. QED
      BY <1>4, <2>1, RestIs, UnlockGoes DEF IsAt
  <1>10. Goes(PlainSteps, <<Lock(ArenaLock), Unlock(ArenaLock), Unlock(l)>>, A, AtRest)
    BY <1>7, <1>8, <1>9, GoesTriple
  <1>11. Goes(PlainSteps, <<Lock(l)>> \o <<Lock(ArenaLock), Unlock(ArenaLock), Unlock(l)>>,
              AtRest, AtRest)
    BY <1>6, <1>10, Goes2
  <1>12. QED
    BY <1>11, Tuple4 DEF Allocating

\* A reader's steps.
LEMMA SharedGoes ==
    ASSUME NEW steps, Goes(PlainSteps, steps, At({}, TRUE), At({}, TRUE))
    PROVE  Goes(PlainSteps, Shared(steps), AtRest, AtRest)
  <1>1. PICK A : A = At({}, TRUE)
    OBVIOUS
  <1>2. A \in Standings /\ IsAt(A, {}, TRUE, "open", "no")
    BY <1>1, StandingFields, Named DEF At
  <1>3. Goes(PlainSteps, <<Step("read", GateLock)>>, AtRest, A)
    <2>1. Effect(Step("read", GateLock), AtRest, A)
      BY <1>2, RestIs, StepFields DEF Effect, IsAt
    <2>2. QED
      BY <1>2, <2>1, RestIs, AreLocks, StepGoes DEF Doings
  <1>4. Goes(PlainSteps, <<Step("unread", GateLock)>>, A, AtRest)
    <2>1. Effect(Step("unread", GateLock), A, AtRest)
      BY <1>2, RestIs, StepFields DEF Effect, IsAt
    <2>2. QED
      BY <1>2, <2>1, RestIs, AreLocks, StepGoes DEF Doings
  <1>5. Goes(PlainSteps, <<Step("read", GateLock)>> \o steps, AtRest, A)
    BY <1>1, <1>3, Goes2
  <1>6. Goes(PlainSteps, (<<Step("read", GateLock)>> \o steps) \o <<Step("unread", GateLock)>>,
             AtRest, AtRest)
    BY <1>4, <1>5, Goes2
  <1>7. QED
    BY <1>6 DEF Shared

\* The gate with `locks` held, locked, announced and drained.
Gated(A, gate) == Standing(A.locks \cup {GateLock}, A.reads, gate, A.fork)

LEMMA GatedIs ==
    ASSUME NEW A \in Standings, NEW gate \in Gates
    PROVE  /\ Gated(A, gate) \in Standings
           /\ IsAt(Gated(A, gate), A.locks \cup {GateLock}, A.reads, gate, A.fork)
  <1>1. A.locks \cup {GateLock} \in SUBSET Locks /\ A.reads \in BOOLEAN
        /\ A.fork \in Stages
    BY AreLocks DEF Standings
  <1>2. QED
    BY <1>1, StandingFields, Named DEF Gated

LEMMA AnnounceGoes ==
    ASSUME NEW A \in Standings
    PROVE  Goes(PlainSteps, <<Step("announce", GateLock)>>, Gated(A, "open"), Gated(A, "announced"))
  <1>1. Effect(Step("announce", GateLock), Gated(A, "open"), Gated(A, "announced"))
    <2>1. GateLock \in Locks /\ "announce" \in Doings
      BY AreLocks DEF Doings
    <2>2. /\ IsAt(Gated(A, "open"), A.locks \cup {GateLock}, A.reads, "open", A.fork)
          /\ IsAt(Gated(A, "announced"), A.locks \cup {GateLock}, A.reads, "announced", A.fork)
      BY GatedIs, Named
    <2>3. QED
      BY <2>1, <2>2, StepFields DEF Effect, IsAt
  <1>2. QED
    BY <1>1, GatedIs, Named, AreLocks, StepGoes DEF Doings

LEMMA DrainEffect ==
    ASSUME NEW A \in Standings, NEW step, step.do = "drain"
    PROVE  Effect(step, Gated(A, "announced"), Gated(A, "drained"))
  <1>1. /\ IsAt(Gated(A, "announced"), A.locks \cup {GateLock}, A.reads, "announced", A.fork)
        /\ IsAt(Gated(A, "drained"), A.locks \cup {GateLock}, A.reads, "drained", A.fork)
    BY GatedIs, Named
  <1>2. QED
    BY <1>1 DEF Effect, IsAt

LEMMA ReopenGoes ==
    ASSUME NEW A \in Standings, A.gate = "open", GateLock \notin A.locks,
           NEW gate \in {"announced", "drained"}
    PROVE  Goes(PlainSteps, Reopen, Gated(A, gate), A)
  <1>1. Gated(A, gate) \in Standings /\ Gated(A, "open") \in Standings
    BY GatedIs, Named
  <1>2. Effect(Step("reopen", GateLock), Gated(A, gate), Gated(A, "open"))
    <2>1. GateLock \in Locks /\ "reopen" \in Doings
      BY AreLocks DEF Doings
    <2>2. /\ IsAt(Gated(A, gate), A.locks \cup {GateLock}, A.reads, gate, A.fork)
          /\ IsAt(Gated(A, "open"), A.locks \cup {GateLock}, A.reads, "open", A.fork)
      BY GatedIs, Named
    <2>3. QED
      BY <2>1, <2>2, StepFields DEF Effect, IsAt
  <1>3. Goes(PlainSteps, <<Step("reopen", GateLock)>>, Gated(A, gate), Gated(A, "open"))
    BY <1>1, <1>2, AreLocks, StepGoes DEF Doings
  <1>4. Goes(PlainSteps, <<Unlock(GateLock)>>, Gated(A, "open"), A)
    <2>1. (A.locks \cup {GateLock}) \ {GateLock} = A.locks
      OBVIOUS
    <2>2. IsAt(Gated(A, "open"), A.locks \cup {GateLock}, A.reads, "open", A.fork)
      BY GatedIs, Named
    <2>3. /\ GateLock \in Gated(A, "open").locks /\ Gated(A, "open").gate = "open"
          /\ IsAt(A, Gated(A, "open").locks \ {GateLock}, Gated(A, "open").reads,
                  Gated(A, "open").gate, Gated(A, "open").fork)
      BY <2>1, <2>2 DEF IsAt
    <2>4. QED
      BY <1>1, <2>3, AreLocks, UnlockGoes
  <1>5. QED
    BY <1>3, <1>4, GoesPair DEF Reopen

LEMMA LocksGate ==
    ASSUME NEW A \in Standings, MayLock(A, GateLock), A.gate = "open", NEW step,
           step.do = "lock", step.at = GateLock
    PROVE  Effect(step, A, Gated(A, "open"))
  <1>1. IsAt(Gated(A, "open"), A.locks \cup {step.at}, A.reads, A.gate, A.fork)
    BY GatedIs, Named
  <1>2. QED
    BY <1>1 DEF Effect

LEMMA ExclusiveGoes ==
    ASSUME NEW steps, Goes(PlainSteps, steps, Gated(AtRest, "drained"), Gated(AtRest, "drained"))
    PROVE  Goes(PlainSteps, Exclusive(steps), AtRest, AtRest)
  <1>1. /\ GateLock \in Locks /\ AtRest \in Standings /\ MayLock(AtRest, GateLock)
        /\ AtRest.gate = "open" /\ GateLock \notin AtRest.locks
    BY AreLocks, RestIs DEF IsAt, MayLock
  <1>2. Goes(PlainSteps, <<Lock(GateLock)>>, AtRest, Gated(AtRest, "open"))
    <2>1. Effect(Step("lock", GateLock), AtRest, Gated(AtRest, "open"))
      BY <1>1, LocksGate, StepFields
    <2>2. QED
      BY <1>1, <2>1, GatedIs, Named, StepGoes DEF Lock, Doings
  <1>3. Goes(PlainSteps, <<Step("drain", GateLock)>>, Gated(AtRest, "announced"),
             Gated(AtRest, "drained"))
    BY <1>1, DrainEffect, GatedIs, Named, StepFields, StepGoes DEF Doings
  <1>4. Goes(PlainSteps, <<Lock(GateLock), Step("announce", GateLock), Step("drain", GateLock)>>,
             AtRest, Gated(AtRest, "drained"))
    BY <1>1, <1>2, <1>3, AnnounceGoes, GoesTriple
  <1>5. Goes(PlainSteps, Reopen, Gated(AtRest, "drained"), AtRest)
    BY <1>1, ReopenGoes
  <1>6. Goes(PlainSteps,
             <<Lock(GateLock), Step("announce", GateLock), Step("drain", GateLock)>> \o steps,
             AtRest, Gated(AtRest, "drained"))
    BY <1>4, Goes2
  <1>7. QED
    BY <1>5, <1>6, Goes2 DEF Exclusive

\* A step that may be given up.
LEMMA TryIs ==
    ASSUME NEW do \in {"lock", "drain"}, NEW l \in Locks, NEW A,
           NEW giveUp, Goes(PlainSteps, giveUp, A, AtRest), A.fork # "no" => EndsFork(giveUp)
    PROVE  /\ Try(do, l, giveUp) \in Steps
           /\ Try(do, l, giveUp).do = do /\ Try(do, l, giveUp).at = l
           /\ Excused(Try(do, l, giveUp), A)
  <1>1. giveUp \in Seq(PlainSteps) /\ Plainly(giveUp, A, AtRest)
    BY PlainToo DEF Goes
  <1>2. QED
    BY <1>1 DEF Try, Steps, TimedSteps, Excused

LEMMA ExclusiveForGoes ==
    ASSUME NEW A \in Standings, MayLock(A, GateLock), A.gate = "open", GateLock \notin A.locks,
           NEW giveUp, Goes(PlainSteps, giveUp, A, AtRest), A.fork # "no" => EndsFork(giveUp),
           NEW C, NEW steps, Goes(Steps, steps, Gated(A, "drained"), C)
    PROVE  Goes(Steps, ExclusiveFor(steps, giveUp), A, C)
  <1>1. GateLock \in Locks
    BY AreLocks
  <1>2. Goes(Steps, <<Try("lock", GateLock, giveUp)>>, A, Gated(A, "open"))
    <2>1. PICK step : step = Try("lock", GateLock, giveUp)
      OBVIOUS
    <2>2. step \in Steps /\ step.do = "lock" /\ step.at = GateLock /\ Excused(step, A)
      BY <1>1, <2>1, TryIs
    <2>3. Effect(step, A, Gated(A, "open")) /\ Gated(A, "open") \in Standings
      BY <2>2, LocksGate, GatedIs, Named
    <2>4. QED
      BY <2>1, <2>2, <2>3, Goes1
  <1>3. Goes(Steps, <<Step("announce", GateLock)>>, Gated(A, "open"), Gated(A, "announced"))
    BY AnnounceGoes, PlainToo
  <1>4. Goes(PlainSteps, Reopen \o giveUp, Gated(A, "announced"), AtRest)
    <2>1. Goes(PlainSteps, Reopen, Gated(A, "announced"), A)
      BY ReopenGoes
    <2>2. QED
      BY <2>1, Goes2
  <1>5. Gated(A, "announced").fork # "no" => EndsFork(Reopen \o giveUp)
    <2>1. Gated(A, "announced").fork = A.fork
      BY GatedIs, Named DEF IsAt
    <2>2. ASSUME EndsFork(giveUp)
          PROVE  EndsFork(Reopen \o giveUp)
      <3>1. Reopen \in Seq(PlainSteps) /\ giveUp \in Seq(PlainSteps)
        BY <1>1, ReopenGoes DEF Goes
      <3>2. QED
        BY <2>2, <3>1, EndsAfter
    <2>3. QED
      BY <2>1, <2>2
  <1>6. Goes(Steps, <<Try("drain", GateLock, Reopen \o giveUp)>>, Gated(A, "announced"),
             Gated(A, "drained"))
    <2>1. PICK step : step = Try("drain", GateLock, Reopen \o giveUp)
      OBVIOUS
    <2>2. step \in Steps /\ step.do = "drain" /\ Excused(step, Gated(A, "announced"))
      BY <1>1, <1>4, <1>5, <2>1, TryIs
    <2>3. /\ Effect(step, Gated(A, "announced"), Gated(A, "drained"))
          /\ Gated(A, "announced") \in Standings /\ Gated(A, "drained") \in Standings
      BY <2>2, DrainEffect, GatedIs, Named
    <2>4. QED
      BY <2>1, <2>2, <2>3, Goes1
  <1>7. Goes(Steps, <<Try("lock", GateLock, giveUp), Step("announce", GateLock),
                      Try("drain", GateLock, Reopen \o giveUp)>>, A, Gated(A, "drained"))
    BY <1>2, <1>3, <1>6, GoesTriple
  <1>8. QED
    BY <1>7, Goes2 DEF ExclusiveFor

-----------------------------------------------------------------------------
LEMMA TurnOf ==
    ASSUME NEW p \in Locks, p # GateLock, NEW A \in Standings, MayLock(A, p)
    PROVE  Goes(PlainSteps, InTurn(<<p>>), A, A)
  <1>1. <<p>> \in Seq(Locks) /\ Len(<<p>>) = 1 /\ \A i \in 1..1 : <<p>>[i] = p
    OBVIOUS
  <1>2. QED
    BY <1>1, InTurnGoes

IsPoint(p) == p = Overflow \/ \E s \in 1..Shards : p = Point(s)

LEMMA PointIs ==
    ASSUME NEW p, IsPoint(p)
    PROVE  /\ p \in Locks /\ p # GateLock /\ Before(GateLock, p) /\ Before(p, ArenaLock)
           /\ \A s \in 1..Shards : Before(Live(s), p)
  BY AreLocks, Order DEF IsPoint

LEMMA AppliesGo ==
    ASSUME NEW p, IsPoint(p), NEW a \in Applies(p)
    PROVE  Goes(PlainSteps, a, AtRest, AtRest)
  <1>1. p \in Locks /\ p # GateLock /\ Before(GateLock, p)
    BY PointIs
  <1>2. Goes(PlainSteps, Shared(InTurn(<<p>>)), AtRest, AtRest)
    <2>1. At({}, TRUE) \in Standings /\ IsAt(At({}, TRUE), {}, TRUE, "open", "no")
      BY StandingFields, Named DEF At
    <2>2. Goes(PlainSteps, InTurn(<<p>>), At({}, TRUE), At({}, TRUE))
      BY <1>1, <2>1, TurnOf DEF IsAt, MayLock
    <2>3. QED
      BY <2>2, SharedGoes
  <1>3. Goes(PlainSteps, Shared(<<>>), AtRest, AtRest)
    <2>1. Goes(PlainSteps, <<>>, At({}, TRUE), At({}, TRUE))
      BY StandingFields, Named, Goes0 DEF At
    <2>2. QED
      BY <2>1, SharedGoes
  <1>4. Goes(PlainSteps, Exclusive(InTurn(<<p>>)), AtRest, AtRest)
    <2>1. /\ Gated(AtRest, "drained") \in Standings
          /\ IsAt(Gated(AtRest, "drained"), AtRest.locks \cup {GateLock}, AtRest.reads,
                  "drained", AtRest.fork)
      BY RestIs, GatedIs, Named
    <2>2. MayLock(Gated(AtRest, "drained"), p)
      BY <1>1, <2>1, RestIs DEF IsAt, MayLock
    <2>3. QED
      BY <1>1, <2>1, <2>2, TurnOf, ExclusiveGoes
  <1>5. Goes(PlainSteps, Shared(<<>>) \o Exclusive(InTurn(<<p>>)), AtRest, AtRest)
    BY <1>3, <1>4, Goes2
  <1>6. QED
    BY <1>2, <1>4, <1>5 DEF Applies

LEMMA RecordAllocGoes ==
    ASSUME NEW p, IsPoint(p), NEW s \in 1..Shards, NEW op \in RecordAlloc(p, s)
    PROVE  Goes(PlainSteps, op, AtRest, AtRest)
  <1>1. PICK a \in Applies(p) : op = Allocating(InternsIn(p)) \o Allocating(Live(s)) \o a
    BY DEF RecordAlloc
  <1>2. InternsIn(p) \in Locks /\ Before(InternsIn(p), ArenaLock)
    BY PointIs, AreLocks, Order DEF InternsIn, IsPoint
  <1>3. Live(s) \in Locks /\ Before(Live(s), ArenaLock)
    BY AreLocks, Order
  <1>4. /\ Goes(PlainSteps, Allocating(InternsIn(p)), AtRest, AtRest)
        /\ Goes(PlainSteps, Allocating(Live(s)), AtRest, AtRest)
        /\ Goes(PlainSteps, a, AtRest, AtRest)
    BY <1>2, <1>3, AllocatingGoes, AppliesGo
  <1>5. Goes(PlainSteps, Allocating(InternsIn(p)) \o Allocating(Live(s)), AtRest, AtRest)
    BY <1>4, Goes2
  <1>6. QED
    BY <1>1, <1>4, <1>5, Goes2

LEMMA RecordFreeGoes ==
    ASSUME NEW p, IsPoint(p), NEW s \in 1..Shards, NEW op \in RecordFree(p, s)
    PROVE  Goes(PlainSteps, op, AtRest, AtRest)
  <1>1. PICK a \in Applies(p) : op = InTurn(<<Live(s)>>) \o a
    BY DEF RecordFree
  <1>2. Live(s) \in Locks /\ Live(s) # GateLock
    BY AreLocks, Order
  <1>3. Goes(PlainSteps, InTurn(<<Live(s)>>), AtRest, AtRest)
    BY <1>2, RestIs, TurnOf DEF IsAt, MayLock
  <1>4. QED
    BY <1>1, <1>3, AppliesGo, Goes2

-----------------------------------------------------------------------------
LivesOf(n) == {Live(k) : k \in 1..n}
Lives == LivesOf(Shards)

LEMMA LivesAre ==
    /\ Range(LiveLocks) = Lives /\ Lives \subseteq Locks
    /\ \A l \in Lives : /\ Before(l, GateLock) /\ Before(l, Overflow) /\ Before(l, RegionLock)
                        /\ Before(l, ArenaLock) /\ l # GateLock
                        /\ \A s \in 1..Shards : Before(l, Point(s))
  <1>1. DOMAIN LiveLocks = 1..Shards
    BY DEF LiveLocks
  <1>2. Range(LiveLocks) = Lives
    BY <1>1, LiveRise DEF Range, Lives, LivesOf
  <1>3. QED
    BY <1>2, AreLocks, Order DEF Lives, LivesOf

LEMMA PointsGo ==
    ASSUME NEW A \in Standings, A.locks \subseteq Lives \cup {GateLock}
    PROVE  Goes(PlainSteps, InTurn(PointLocks), A, A)
  <1>1. PointLocks \in Seq(Locks) /\ Len(PointLocks) = Shards + 1
    BY PointsRise DEF Rising
  <1>2. ASSUME NEW i \in 1..Shards + 1
        PROVE  IsPoint(PointLocks[i])
    <2>1. i \in 1..Shards \/ i = Shards + 1
      BY ForkLocksAssumption
    <2>2. QED
      BY <2>1, PointsRise DEF IsPoint
  <1>3. \A i \in 1..Len(PointLocks) : MayLock(A, PointLocks[i]) /\ PointLocks[i] # GateLock
    BY <1>1, <1>2, PointIs DEF MayLock, Lives, LivesOf
  <1>4. QED
    BY <1>1, <1>3, InTurnGoes

LEMMA SweepGoes == Goes(PlainSteps, Sweep, AtRest, AtRest)
  <1>1. Goes(PlainSteps, InTurn(LiveLocks), AtRest, AtRest)
    <2>1. LiveLocks \in Seq(Locks) /\ Len(LiveLocks) = Shards
      BY LiveRise DEF Rising
    <2>2. \A i \in 1..Len(LiveLocks) : MayLock(AtRest, LiveLocks[i]) /\ LiveLocks[i] # GateLock
      BY <2>1, LiveRise, Order, AreLocks, RestIs DEF IsAt, MayLock
    <2>3. QED
      BY <2>1, <2>2, RestIs, InTurnGoes
  <1>2. Goes(PlainSteps, InTurn(PointLocks), AtRest, AtRest)
    BY RestIs, PointsGo DEF IsAt
  <1>3. QED
    BY <1>1, <1>2, Goes2 DEF Sweep

LEMMA RestGates ==
    /\ AtRest \in Standings /\ MayLock(AtRest, GateLock) /\ AtRest.gate = "open"
    /\ GateLock \notin AtRest.locks /\ AtRest.fork = "no"
  BY RestIs DEF IsAt, MayLock

LEMMA FlushAndVisitGoes == Goes(Steps, FlushAndVisit, AtRest, AtRest)
  <1>1. Goes(PlainSteps, InTurn(PointLocks) \o Sweep, AtRest, AtRest)
    <2>1. Goes(PlainSteps, InTurn(PointLocks), AtRest, AtRest)
      BY RestIs, PointsGo DEF IsAt
    <2>2. QED
      BY <2>1, SweepGoes, Goes2
  <1>2. Goes(Steps, InTurn(PointLocks), Gated(AtRest, "drained"), Gated(AtRest, "drained"))
    <2>1. /\ Gated(AtRest, "drained") \in Standings
          /\ IsAt(Gated(AtRest, "drained"), AtRest.locks \cup {GateLock}, AtRest.reads,
                  "drained", AtRest.fork)
      BY RestIs, GatedIs, Named
    <2>2. Gated(AtRest, "drained").locks \subseteq Lives \cup {GateLock}
      BY <2>1, RestIs DEF IsAt
    <2>3. QED
      BY <2>1, <2>2, PointsGo, PlainToo
  <1>3. Goes(Steps, ExclusiveFor(InTurn(PointLocks), InTurn(PointLocks) \o Sweep), AtRest,
             Gated(AtRest, "drained"))
    BY <1>1, <1>2, RestGates, ExclusiveForGoes
  <1>4. Goes(Steps, Reopen, Gated(AtRest, "drained"), AtRest)
    BY RestGates, ReopenGoes, PlainToo
  <1>5. Goes(Steps, ExclusiveFor(InTurn(PointLocks), InTurn(PointLocks) \o Sweep) \o Reopen,
             AtRest, AtRest)
    BY <1>3, <1>4, Goes2
  <1>6. QED
    BY <1>5, SweepGoes, PlainToo, Goes2 DEF FlushAndVisit

LEMMA StopGoes == Goes(Steps, Stop, AtRest, AtRest)
  <1>1. Goes(PlainSteps, <<>>, AtRest, AtRest)
    BY RestGates, Goes0
  <1>2. Goes(Steps, <<>>, Gated(AtRest, "drained"), Gated(AtRest, "drained"))
    BY RestGates, GatedIs, Named, Goes0
  <1>3. Goes(Steps, ExclusiveFor(<<>>, <<>>), AtRest, Gated(AtRest, "drained"))
    BY <1>1, <1>2, RestGates, ExclusiveForGoes
  <1>4. Goes(Steps, Reopen, Gated(AtRest, "drained"), AtRest)
    BY RestGates, ReopenGoes, PlainToo
  <1>5. QED
    BY <1>3, <1>4, Goes2 DEF Stop

\* The first shards of the block table, given back.
LEMMA FirstBack ==
    ASSUME NEW n \in 0..Shards
    PROVE  Goes(PlainSteps, UnlockAll(SubSeq(LiveLocks, 1, n)), At(LivesOf(n), FALSE), AtRest)
  <1> DEFINE ls == SubSeq(LiveLocks, 1, n)
             A == At(LivesOf(n), FALSE)
  <1>1. LiveLocks \in Seq(Locks) /\ Len(LiveLocks) = Shards /\ n \in Nat /\ Shards \in Nat
    BY LiveRise, ForkLocksAssumption DEF Rising
  <1>2. /\ ls \in Seq(Locks) /\ Len(ls) = n /\ DOMAIN ls = 1..n
        /\ \A i \in 1..n : ls[i] = LiveLocks[i]
    BY <1>1
  <1> HIDE DEF ls
  <1>3. \A i \in 1..n : i \in 1..Shards /\ ls[i] = Live(i)
    BY <1>1, <1>2, LiveRise
  <1>4. Once(ls)
    <2>1. \A i, j \in 1..n : i # j => ls[i] # ls[j]
      BY <1>3 DEF Live
    <2>2. \A i \in 1..n : ls[i] # GateLock
      BY <1>3, Order, AreLocks
    <2>3. QED
      BY <1>2, <2>1, <2>2 DEF Once
  <1>5. Range(ls) = LivesOf(n)
    BY <1>2, <1>3 DEF Range, LivesOf
  <1>6. LivesOf(n) \in SUBSET Locks
    BY <1>3, AreLocks DEF LivesOf
  <1>7. A \in Standings /\ IsAt(A, LivesOf(n), FALSE, "open", "no")
    BY <1>6, StandingFields, Named DEF At
  <1> HIDE DEF A
  <1>8. IsAt(AtRest, A.locks \ Range(ls), A.reads, A.gate, A.fork) /\ Range(ls) \subseteq A.locks
    BY <1>5, <1>7, RestIs DEF IsAt
  <1>9. Goes(PlainSteps, UnlockAll(ls), A, AtRest)
    BY <1>4, <1>7, <1>8, RestIs, UnlockAllGoes
  <1>10. QED
    BY <1>9 DEF ls, A

LEMMA TakeShardsGoes == Goes(Steps, TakeShards, AtRest, At(Lives, FALSE))
  <1> DEFINE h == [i \in 0..Shards |-> At(LivesOf(i), FALSE)]
             q == TakeShards
             first(i) == Try("lock", Live(i), UnlockAll(SubSeq(LiveLocks, 1, i - 1)))
  <1>1. Shards \in Nat
    BY ForkLocksAssumption
  <1>2. ASSUME NEW i \in 0..Shards
        PROVE  h[i] \in Standings /\ IsAt(h[i], LivesOf(i), FALSE, "open", "no")
    <2>1. LivesOf(i) \in SUBSET Locks
      BY <1>1, AreLocks DEF LivesOf
    <2>2. h[i] = Standing(LivesOf(i), FALSE, "open", "no")
      BY DEF At
    <2>3. QED
      BY <2>1, <2>2, StandingFields, Named
  <1>3. ASSUME NEW i \in 1..Shards
        PROVE  /\ first(i) \in Steps /\ first(i).do = "lock" /\ first(i).at = Live(i)
               /\ Excused(first(i), h[i - 1])
    <2>1. i - 1 \in 0..Shards
      BY <1>1
    <2>2. Goes(PlainSteps, UnlockAll(SubSeq(LiveLocks, 1, i - 1)), h[i - 1], AtRest)
      BY <2>1, FirstBack
    <2>3. h[i - 1].fork = "no"
      BY <1>2, <2>1 DEF IsAt
    <2> HIDE DEF h
    <2>4. QED
      BY <2>2, <2>3, AreLocks, TryIs
  <1>4. /\ q \in Seq(Steps) /\ Len(q) = Shards
        /\ \A i \in 1..Shards : q[i] = first(i)
    <2>1. q = [i \in 1..Shards |-> first(i)]
      BY DEF TakeShards
    <2>2. \A i \in 1..Shards : first(i) \in Steps
      BY <1>3
    <2> HIDE DEF first, q
    <2>3. QED
      BY <1>1, <2>1, <2>2
  <1>5. h \in Traces(q)
    BY <1>2, <1>4 DEF Traces
  <1>6. h[0] = AtRest /\ h[Len(q)] = At(Lives, FALSE)
    <2>1. LivesOf(0) = {}
      BY DEF LivesOf
    <2>2. 0 \in 0..Shards /\ Shards \in 0..Shards
      BY <1>1
    <2>3. QED
      BY <1>4, <2>1, <2>2 DEF AtRest, Lives
  <1> HIDE DEF h, q
  <1>7. ASSUME NEW i \in 1..Shards
        PROVE  Effect(q[i], h[i - 1], h[i]) /\ Excused(q[i], h[i - 1])
    <2>1. i - 1 \in 0..Shards /\ i \in 0..Shards
      BY <1>1
    <2>2. /\ IsAt(h[i - 1], LivesOf(i - 1), FALSE, "open", "no")
          /\ IsAt(h[i], LivesOf(i), FALSE, "open", "no")
      BY <1>2, <2>1
    <2>3. LivesOf(i) = LivesOf(i - 1) \cup {Live(i)}
      BY <1>1 DEF LivesOf
    <2>4. \A l \in LivesOf(i - 1) : Before(l, Live(i))
      <3>1. \A k \in 1..i - 1 : k \in 1..Shards /\ k < i
        BY <1>1
      <3>2. QED
        BY <3>1, Order DEF LivesOf
    <2>5. q[i].do = "lock" /\ q[i].at = Live(i) /\ Excused(q[i], h[i - 1])
      BY <1>3, <1>4
    <2>6. MayLock(h[i - 1], q[i].at)
      BY <2>2, <2>4, <2>5 DEF MayLock, IsAt
    <2>7. IsAt(h[i], h[i - 1].locks \cup {q[i].at}, h[i - 1].reads, h[i - 1].gate, h[i - 1].fork)
      BY <2>2, <2>3, <2>5 DEF IsAt
    <2>8. QED
      BY <2>5, <2>6, <2>7 DEF Effect
  <1>8. Follows(q, h) /\ \A i \in 1..Len(q) : Excused(q[i], h[i - 1])
    BY <1>4, <1>7 DEF Follows
  <1>9. QED
    BY <1>4, <1>5, <1>6, <1>8 DEF Goes, Leads, q

LEMMA OnceLive == Once(LiveLocks)
  BY LiveRise, RisingOnce, Order, AreLocks DEF Rising, Once

LEMMA BackGoes ==
    ASSUME NEW ls, Once(ls), Range(ls) = Lives,
           NEW A \in Standings, NEW B \in Standings, NEW fork,
           IsAt(A, Lives, FALSE, "open", fork), IsAt(B, {}, FALSE, "open", fork)
    PROVE  Goes(PlainSteps, UnlockAll(ls), A, B)
  <1>1. Lives \ Lives = {}
    OBVIOUS
  <1>2. Range(ls) \subseteq A.locks /\ IsAt(B, A.locks \ Range(ls), A.reads, A.gate, A.fork)
    BY <1>1 DEF IsAt
  <1>3. QED
    BY <1>2, UnlockAllGoes

\* The gate with the block shards held.
LEMMA LivesGate ==
    ASSUME NEW A \in Standings, NEW fork, IsAt(A, Lives, FALSE, "open", fork)
    PROVE  MayLock(A, GateLock) /\ A.gate = "open" /\ GateLock \notin A.locks /\ A.fork = fork
  BY LivesAre DEF IsAt, MayLock

LEMMA ResetGoes == Goes(Steps, Reset, AtRest, AtRest)
  <1>1. PICK A : A = At(Lives, FALSE)
    OBVIOUS
  <1>2. A \in Standings /\ IsAt(A, Lives, FALSE, "open", "no")
    BY <1>1, LivesAre, StandingFields, Named DEF At
  <1>3. Goes(PlainSteps, UnlockAll(LiveLocks), A, AtRest)
    BY <1>2, RestIs, OnceLive, LivesAre, BackGoes
  <1>4. Goes(Steps, InTurn(PointLocks), Gated(A, "drained"), Gated(A, "drained"))
    <2>1. /\ Gated(A, "drained") \in Standings
          /\ IsAt(Gated(A, "drained"), A.locks \cup {GateLock}, A.reads, "drained", A.fork)
      BY <1>2, GatedIs, Named
    <2>2. Gated(A, "drained").locks \subseteq Lives \cup {GateLock}
      BY <1>2, <2>1 DEF IsAt
    <2>3. QED
      BY <2>1, <2>2, PointsGo, PlainToo
  <1>5. Goes(Steps, ExclusiveFor(InTurn(PointLocks), UnlockAll(LiveLocks)), A, Gated(A, "drained"))
    BY <1>2, <1>3, <1>4, LivesGate, ExclusiveForGoes
  <1>6. Goes(Steps, Reopen, Gated(A, "drained"), A)
    BY <1>2, LivesGate, ReopenGoes, PlainToo
  <1>7. Goes(Steps, TakeShards \o ExclusiveFor(InTurn(PointLocks), UnlockAll(LiveLocks)),
             AtRest, Gated(A, "drained"))
    BY <1>1, <1>5, TakeShardsGoes, Goes2
  <1>8. Goes(Steps, TakeShards \o ExclusiveFor(InTurn(PointLocks), UnlockAll(LiveLocks)) \o Reopen,
             AtRest, A)
    BY <1>6, <1>7, Goes2
  <1>9. QED
    BY <1>3, <1>8, PlainToo, Goes2 DEF Reset

LEMMA OperationsGo ==
    ASSUME NEW op \in Operations, op # ForkPrepare
    PROVE  Goes(Steps, op, AtRest, AtRest)
  <1>1. ASSUME NEW p, IsPoint(p), NEW s \in 1..Shards,
               op \in RecordAlloc(p, s) \cup RecordFree(p, s)
        PROVE  Goes(Steps, op, AtRest, AtRest)
    BY <1>1, RecordAllocGoes, RecordFreeGoes, PlainToo
  <1>2. CASE op = InternRegion
    BY <1>2, AreLocks, Order, AllocatingGoes, PlainToo DEF InternRegion
  <1>3. CASE op \in {FlushAndVisit, Stop, Reset}
    BY <1>3, FlushAndVisitGoes, StopGoes, ResetGoes
  <1>4. ASSUME op \notin {FlushAndVisit, Stop, Reset, InternRegion}
        PROVE  \E p, s : /\ IsPoint(p) /\ s \in 1..Shards
                         /\ op \in RecordAlloc(p, s) \cup RecordFree(p, s)
    <2>1. PICK p \in Points, s \in 1..Shards : op \in Records(p, s)
      <3>1. op \in Recordings
        BY <1>4 DEF Operations
      <3>2. QED
        BY <3>1 DEF Recordings
    <2>2. IsPoint(p)
      BY DEF Points, IsPoint
    <2>3. QED
      BY <2>1, <2>2 DEF Records
  <1>5. QED
    BY <1>1, <1>2, <1>3, <1>4

-----------------------------------------------------------------------------
(* A fork. *)

Begun   == Standing({}, FALSE, "open", "begun")
Guarded == Standing({}, FALSE, "open", "guarded")
Lived   == Standing(Lives, FALSE, "open", "guarded")
All     == Standing(Locks, FALSE, "drained", "guarded")

LEMMA ForkStandings ==
    /\ Begun \in Standings /\ IsAt(Begun, {}, FALSE, "open", "begun")
    /\ Guarded \in Standings /\ IsAt(Guarded, {}, FALSE, "open", "guarded")
    /\ Lived \in Standings /\ IsAt(Lived, Lives, FALSE, "open", "guarded")
    /\ All \in Standings /\ IsAt(All, Locks, FALSE, "drained", "guarded")
  BY LivesAre, StandingFields, Named DEF Begun, Guarded, Lived, All

LEMMA Reversed ==
    ASSUME NEW ls, Once(ls)
    PROVE  Once(Reverse(ls)) /\ Range(Reverse(ls)) = Range(ls)
  <1> DEFINE n == Len(ls)
             rs == Reverse(ls)
  <1>1. ls \in Seq(Locks) /\ n \in Nat /\ DOMAIN ls = 1..n
    BY DEF Once
  <1>2. /\ rs \in Seq(Locks) /\ Len(rs) = n /\ DOMAIN rs = 1..n
        /\ \A i \in 1..n : n - i + 1 \in 1..n /\ rs[i] = ls[n - i + 1]
    BY <1>1 DEF Reverse
  <1>3. \A i \in 1..n : ls[i] = rs[n - i + 1]
    <2> TAKE i \in 1..n
    <2>1. n - i + 1 \in 1..n /\ n - (n - i + 1) + 1 = i
      BY <1>1
    <2>2. QED
      BY <1>2, <2>1
  <1> HIDE DEF rs, n
  <1>4. Once(rs)
    <2>1. \A i, j \in 1..n : rs[i] = rs[j] => i = j
      <3> TAKE i, j \in 1..n
      <3> HAVE rs[i] = rs[j]
      <3>1. n - i + 1 = n - j + 1
        BY <1>2 DEF Once, n
      <3>2. QED
        BY <1>1, <3>1
    <2>2. \A i \in 1..n : rs[i] # GateLock
      BY <1>2 DEF Once, n
    <2>3. QED
      BY <1>2, <2>1, <2>2 DEF Once
  <1>5. Range(rs) = Range(ls)
    BY <1>1, <1>2, <1>3 DEF Range
  <1>6. QED
    BY <1>4, <1>5 DEF rs

LEMMA DeeperAre ==
    /\ Once(Deeper)
    /\ Range(Deeper) = Locks \ (Lives \cup {GateLock})
    /\ \A i \in 1..Len(Deeper) : /\ \A l \in Lives : Before(l, Deeper[i])
                                 /\ Before(GateLock, Deeper[i])
  <1>1. Shards \in Nat /\ Deeper \in Seq(Locks) /\ Len(Deeper) = Shards + 3
    BY ForkLocksAssumption, DeeperRise DEF Rising
  <1>2. \A i \in 1..Shards + 3 : \/ i \in 1..Shards \/ i = Shards + 1 \/ i = Shards + 2
                                 \/ i = Shards + 3
    BY <1>1
  <1>3. ASSUME NEW i \in 1..Shards + 3
        PROVE  /\ Deeper[i] \in {Point(s) : s \in 1..Shards} \cup {Overflow, RegionLock, ArenaLock}
               /\ \A l \in Lives : Before(l, Deeper[i])
               /\ Before(GateLock, Deeper[i])
    <2>1. Deeper[i] \in {Point(s) : s \in 1..Shards} \cup {Overflow, RegionLock, ArenaLock}
      BY <1>2, DeeperRise
    <2>2. QED
      BY <2>1, LivesAre, Order
  <1>4. ASSUME NEW l \in {Point(s) : s \in 1..Shards} \cup {Overflow, RegionLock, ArenaLock}
        PROVE  \E i \in 1..Shards + 3 : Deeper[i] = l
    <2>1. {Shards + 1, Shards + 2, Shards + 3} \subseteq 1..Shards + 3
          /\ 1..Shards \subseteq 1..Shards + 3
      BY <1>1
    <2>2. QED
      BY <2>1, DeeperRise
  <1>5. Range(Deeper) = {Point(s) : s \in 1..Shards} \cup {Overflow, RegionLock, ArenaLock}
    <2>1. DOMAIN Deeper = 1..Shards + 3
      BY <1>1
    <2>2. QED
      BY <1>3, <1>4, <2>1 DEF Range
  <1>6. \A l \in Range(Deeper) : l \notin Lives /\ l # GateLock
    BY <1>5, LivesAre, AreLocks, Order
  <1>7. Locks = Lives \cup {GateLock} \cup Range(Deeper)
    BY <1>5, AreLocks DEF Lives, LivesOf
  <1>8. Once(Deeper)
    <2>1. \A i, j \in 1..Len(Deeper) : Deeper[i] = Deeper[j] => i = j
      BY DeeperRise, RisingOnce
    <2>2. \A i \in 1..Len(Deeper) : Deeper[i] # GateLock
      BY <1>1, <1>3, AreLocks, Order
    <2>3. QED
      BY <1>1, <2>1, <2>2 DEF Once
  <1>9. QED
    BY <1>1, <1>3, <1>6, <1>7, <1>8

LEMMA WindowGoes ==
    ASSUME NEW outcome \in {"all held", "none held"}, NEW A \in Standings, A.fork = "guarded",
           outcome = "all held" => IsAt(A, Locks, FALSE, "drained", "guarded"),
           outcome = "none held" => IsAt(A, {}, FALSE, "open", "guarded")
    PROVE  Goes(PlainSteps, Window(outcome), A, AtRest) /\ EndsFork(Window(outcome))
  <1>1. PICK B : B = Standing(A.locks, A.reads, A.gate, outcome)
    OBVIOUS
  <1>2. B \in Standings /\ IsAt(B, A.locks, A.reads, A.gate, outcome)
    <2>1. /\ A.locks \in SUBSET Locks /\ A.reads \in BOOLEAN
          /\ A.gate \in Gates
      BY DEF Standings
    <2>2. QED
      BY <1>1, <2>1, StandingFields, Named
  <1>W. InWindow(B)
    BY <1>2 DEF InWindow, IsAt
  <1>3. GateLock \in Locks /\ {outcome, "fork", "parent"} \subseteq Doings
    BY AreLocks DEF Doings
  <1>4. Goes(PlainSteps, <<Step(outcome, GateLock)>>, A, B)
    <2>1. Effect(Step(outcome, GateLock), A, B)
      BY <1>2, StepFields DEF Effect, IsAt
    <2>2. QED
      BY <1>2, <1>3, <2>1, StepGoes
  <1>5. Goes(PlainSteps, <<Step("fork", GateLock)>>, B, B)
    <2>1. Effect(Step("fork", GateLock), B, B)
      BY <1>W, StepFields DEF Effect, IsAt
    <2>2. QED
      BY <1>2, <1>3, <2>1, StepGoes
  <1>6. Goes(PlainSteps, <<Step("parent", GateLock)>>, B, AtRest)
    <2>1. Effect(Step("parent", GateLock), B, AtRest)
      BY <1>W, StepFields DEF Effect, IsAt
    <2>2. QED
      BY <1>2, <1>3, <2>1, RestIs, StepGoes
  <1>7. Goes(PlainSteps, Window(outcome), A, AtRest)
    BY <1>4, <1>5, <1>6, GoesTriple DEF Window
  <1>8. EndsFork(Window(outcome))
    BY DEF EndsFork, Window, Step
  <1>9. QED
    BY <1>7, <1>8

LEMMA UnlockLiveGoes == Goes(PlainSteps, UnlockLive, Lived, Guarded)
  BY OnceLive, Reversed, LivesAre, ForkStandings, BackGoes DEF UnlockLive

LEMMA ForkPrepareGoes == Goes(Steps, ForkPrepare, Begun, AtRest) /\ EndsFork(ForkPrepare)
  <1> DEFINE giveUp == UnlockLive \o Window("none held")
             enter == <<Step("enter", GateLock)>>
             try == ExclusiveFor(LockAll(Deeper), giveUp)
  <1>1. Goes(Steps, enter, Begun, Guarded)
    <2>1. GateLock \in Locks /\ "enter" \in Doings
      BY AreLocks DEF Doings
    <2>2. Effect(Step("enter", GateLock), Begun, Guarded)
      BY ForkStandings, StepFields DEF Effect, IsAt
    <2>3. QED
      BY <2>1, <2>2, ForkStandings, StepGoes, PlainToo
  <1>2. Goes(Steps, LockAll(LiveLocks), Guarded, Lived)
    <2>1. \A i \in 1..Len(LiveLocks) : MayLock(Guarded, LiveLocks[i])
      BY ForkStandings DEF IsAt, MayLock
    <2>2. IsAt(Lived, Guarded.locks \cup Range(LiveLocks), Guarded.reads, Guarded.gate,
               Guarded.fork)
      BY ForkStandings, LivesAre DEF IsAt
    <2>3. QED
      BY <2>1, <2>2, ForkStandings, LiveRise, LockAllGoes, PlainToo
  <1>3. /\ Gated(Lived, "drained") \in Standings
        /\ IsAt(Gated(Lived, "drained"), Lives \cup {GateLock}, FALSE, "drained", "guarded")
    BY ForkStandings, GatedIs, Named DEF IsAt
  <1>4. Goes(Steps, LockAll(Deeper), Gated(Lived, "drained"), All)
    <2>1. \A i \in 1..Len(Deeper) : MayLock(Gated(Lived, "drained"), Deeper[i])
      BY <1>3, DeeperAre DEF IsAt, MayLock
    <2>2. Locks = Gated(Lived, "drained").locks \cup Range(Deeper)
      BY <1>3, DeeperAre, LivesAre, AreLocks DEF IsAt
    <2>3. IsAt(All, Gated(Lived, "drained").locks \cup Range(Deeper),
               Gated(Lived, "drained").reads, Gated(Lived, "drained").gate,
               Gated(Lived, "drained").fork)
      BY <1>3, <2>2, ForkStandings DEF IsAt
    <2>4. QED
      BY <1>3, <2>1, <2>3, ForkStandings, DeeperRise, LockAllGoes, PlainToo
  <1>5. /\ Goes(PlainSteps, Window("none held"), Guarded, AtRest) /\ EndsFork(Window("none held"))
        /\ Goes(PlainSteps, Window("all held"), All, AtRest) /\ EndsFork(Window("all held"))
    BY ForkStandings, WindowGoes DEF IsAt
  <1>6. Goes(PlainSteps, giveUp, Lived, AtRest)
    BY <1>5, UnlockLiveGoes, Goes2
  <1>7. EndsFork(giveUp)
    BY <1>5, UnlockLiveGoes, EndsAfter DEF Goes
  <1> HIDE DEF giveUp
  <1>8. Goes(Steps, try, Lived, All)
    BY <1>4, <1>6, <1>7, ForkStandings, LivesGate, ExclusiveForGoes
  <1>9. ForkPrepare = enter \o LockAll(LiveLocks) \o try \o Window("all held")
    BY DEF ForkPrepare, giveUp
  <1> HIDE DEF enter, try
  <1>10. Goes(Steps, enter \o LockAll(LiveLocks), Begun, Lived)
    BY <1>1, <1>2, Goes2
  <1>11. Goes(Steps, enter \o LockAll(LiveLocks) \o try, Begun, All)
    BY <1>8, <1>10, Goes2
  <1>12. Goes(Steps, Window("all held"), All, AtRest)
    BY <1>5, PlainToo
  <1>13. Goes(Steps, enter \o LockAll(LiveLocks) \o try \o Window("all held"), Begun, AtRest)
    BY <1>11, <1>12, Goes2
  <1>14. EndsFork(enter \o LockAll(LiveLocks) \o try \o Window("all held"))
    <2>1. enter \o LockAll(LiveLocks) \o try \in Seq(Steps) /\ Window("all held") \in Seq(Steps)
      BY <1>11, <1>12 DEF Goes
    <2>2. QED
      BY <2>1, <1>5, EndsAfter
  <1>15. QED
    BY <1>9, <1>13, <1>14

Leave == <<Step("leave", GateLock)>>

LEMMA LeaveGoes == Goes(Steps, Leave, Guarded, AtRest) /\ EndsFork(Leave)
  <1>1. GateLock \in Locks /\ "leave" \in Doings
    BY AreLocks DEF Doings
  <1>2. Effect(Step("leave", GateLock), Guarded, AtRest)
    BY ForkStandings, StepFields DEF Effect
  <1>3. EndsFork(Leave)
    BY DEF EndsFork, Leave, Step
  <1>4. QED
    BY <1>1, <1>2, <1>3, ForkStandings, RestIs, StepGoes, PlainToo DEF Leave

LEMMA ForkParentGoes ==
    Goes(Steps, ForkParent \o Leave, All, AtRest) /\ EndsFork(ForkParent \o Leave)
  <1>1. /\ Gated(Lived, "drained") \in Standings
        /\ IsAt(Gated(Lived, "drained"), Lives \cup {GateLock}, FALSE, "drained", "guarded")
    BY ForkStandings, GatedIs, Named DEF IsAt
  <1>2. Goes(PlainSteps, UnlockAll(Reverse(Deeper)), All, Gated(Lived, "drained"))
    <2>1. Once(Reverse(Deeper)) /\ Range(Reverse(Deeper)) = Locks \ (Lives \cup {GateLock})
      BY DeeperAre, Reversed
    <2>2. Locks \ (Locks \ (Lives \cup {GateLock})) = Lives \cup {GateLock}
      BY LivesAre, AreLocks
    <2>3. /\ Range(Reverse(Deeper)) \subseteq All.locks
          /\ IsAt(Gated(Lived, "drained"), All.locks \ Range(Reverse(Deeper)), All.reads, All.gate,
                  All.fork)
      BY <1>1, <2>1, <2>2, ForkStandings DEF IsAt
    <2>4. QED
      BY <1>1, <2>1, <2>3, ForkStandings, UnlockAllGoes
  <1>3. Goes(PlainSteps, Reopen, Gated(Lived, "drained"), Lived)
    BY ForkStandings, LivesGate, ReopenGoes
  <1>4. Goes(PlainSteps, UnlockAll(Reverse(Deeper)) \o Reopen, All, Lived)
    BY <1>2, <1>3, Goes2
  <1>5. Goes(PlainSteps, ForkParent, All, Guarded)
    BY <1>4, UnlockLiveGoes, Goes2 DEF ForkParent
  <1>6. Goes(Steps, ForkParent \o Leave, All, AtRest)
    BY <1>5, LeaveGoes, PlainToo, Goes2
  <1>7. EndsFork(ForkParent \o Leave)
    <2>1. ForkParent \in Seq(Steps) /\ Leave \in Seq(Steps)
      BY <1>5, LeaveGoes, PlainToo DEF Goes
    <2>2. QED
      BY <2>1, LeaveGoes, EndsAfter
  <1>8. QED
    BY <1>6, <1>7

LEMMA ForkChildGoes ==
    ASSUME NEW A \in Standings, A.fork = "child"
    PROVE  Goes(Steps, ForkChild, A, AtRest) /\ EndsFork(ForkChild)
  <1>1. GateLock \in Locks /\ "reinit" \in Doings
    BY AreLocks DEF Doings
  <1>2. Effect(Step("reinit", GateLock), A, Guarded)
    BY ForkStandings, StepFields DEF Effect
  <1>3. Goes(Steps, <<Step("reinit", GateLock)>>, A, Guarded)
    BY <1>1, <1>2, ForkStandings, StepGoes, PlainToo
  <1>4. Goes(Steps, <<Step("leave", GateLock)>>, Guarded, AtRest)
    BY LeaveGoes DEF Leave
  <1>5. Goes(Steps, ForkChild, A, AtRest)
    BY <1>3, <1>4, GoesPair DEF ForkChild
  <1>6. EndsFork(ForkChild)
    BY DEF EndsFork, ForkChild, Step
  <1>7. QED
    BY <1>5, <1>6


-----------------------------------------------------------------------------
(* One step of an operation. *)

LEMMA RestOnly ==
    ASSUME NEW A \in Standings, NEW B, Leads(<<>>, A, B)
    PROVE  A = B
  BY DEF Leads

\* A thread that has steps to do can do the first, and what is left leads on.
LEMMA Advance ==
    ASSUME NEW q \in Seq(Steps), q # <<>>, NEW A \in Standings, NEW C, Leads(q, A, C)
    PROVE  \E B \in Standings : /\ Effect(Head(q), A, B) /\ Excused(Head(q), A)
                                /\ Leads(Tail(q), B, C)
  <1> DEFINE n == Len(q)
             r == Tail(q)
  <1>1. n \in Nat \ {0} /\ Head(q) = q[1] /\ r \in Seq(Steps) /\ Len(r) = n - 1
        /\ \A i \in 1..n - 1 : r[i] = q[i + 1]
    OBVIOUS
  <1>2. PICK h \in Traces(q) : /\ h[0] = A /\ h[n] = C /\ Follows(q, h)
                               /\ \A i \in 1..n : Excused(q[i], h[i - 1])
    BY DEF Leads
  <1> DEFINE k == [i \in 0..n - 1 |-> h[i + 1]]
  <1>3. h \in [0..n -> Standings] /\ \A i \in 1..n : Effect(q[i], h[i - 1], h[i])
    BY <1>2 DEF Traces, Follows
  <1> HIDE DEF n, r
  <1>4. \A i \in 0..n - 1 : k[i] = h[i + 1] /\ i + 1 \in 0..n
    BY <1>1
  <1>5. k \in Traces(r)
    BY <1>1, <1>3, <1>4 DEF Traces
  <1> HIDE DEF k
  <1>6. ASSUME NEW i \in 1..n - 1
        PROVE  Effect(r[i], k[i - 1], k[i]) /\ Excused(r[i], k[i - 1])
    <2>1. i + 1 \in 1..n /\ i - 1 \in 0..n - 1 /\ i \in 0..n - 1 /\ (i + 1) - 1 = i
          /\ (i - 1) + 1 = i
      BY <1>1
    <2>2. r[i] = q[i + 1] /\ k[i - 1] = h[i] /\ k[i] = h[i + 1]
      BY <1>1, <1>4, <2>1
    <2>3. QED
      BY <1>2, <1>3, <2>1, <2>2
  <1>7. 0 \in 0..n - 1 /\ n - 1 \in 0..n - 1 /\ 0 + 1 = 1 /\ (n - 1) + 1 = n /\ 1 \in 1..n
        /\ 1 - 1 = 0 /\ 1 \in 0..n
    BY <1>1
  <1>8. k[0] = h[1] /\ k[n - 1] = C /\ h[1] \in Standings
    BY <1>2, <1>3, <1>4, <1>7
  <1>9. Effect(Head(q), A, h[1]) /\ Excused(Head(q), A)
    BY <1>1, <1>2, <1>3, <1>7
  <1>10. Leads(r, h[1], C)
    BY <1>1, <1>5, <1>6, <1>8 DEF Leads, Follows
  <1>11. QED
    BY <1>8, <1>9, <1>10 DEF r

\* The end of a fork stays its end.
LEMMA StillEnds ==
    ASSUME NEW q \in Seq(Steps), q # <<>>, NEW A \in Standings, NEW B \in Standings,
           Effect(Head(q), A, B), Leads(Tail(q), B, AtRest),
           A.fork # "no" => EndsFork(q), B.fork # "no"
    PROVE  EndsFork(Tail(q))
  <1>1. A.fork # "no"
    BY RestIs DEF Effect, IsAt
  <1>2. Tail(q) # <<>>
    BY RestOnly, RestIs DEF IsAt
  <1>3. Len(Tail(q)) = Len(q) - 1 /\ Len(q) - 1 \in Nat \ {0} /\ Tail(q)[Len(q) - 1] = q[Len(q)]
    <2>1. Tail(q) \in Seq(Steps) /\ Len(q) \in Nat \ {0} /\ Len(Tail(q)) = Len(q) - 1
          /\ \A i \in 1..Len(q) - 1 : Tail(q)[i] = q[i + 1]
      OBVIOUS
    <2>2. Len(Tail(q)) # 0
      BY <1>2, <2>1
    <2>3. Len(q) - 1 \in 1..Len(q) - 1 /\ (Len(q) - 1) + 1 = Len(q)
      BY <2>1, <2>2
    <2>4. QED
      BY <2>1, <2>2, <2>3
  <1>4. QED
    BY <1>1, <1>2, <1>3 DEF EndsFork

\* Giving up changes nothing but what is left to do.
LEMMA GivesUp ==
    ASSUME NEW step \in Steps, step.timed, NEW A \in Standings, Excused(step, A)
    PROVE  /\ step.otherwise \in Seq(Steps)
           /\ Leads(step.otherwise, A, AtRest)
           /\ A.fork # "no" => EndsFork(step.otherwise)
  <1> DEFINE q == step.otherwise
  <1>1. q \in Seq(PlainSteps) /\ Plainly(q, A, AtRest) /\ (A.fork # "no" => EndsFork(q))
    BY DEF Steps, PlainSteps, TimedSteps, Excused
  <1> HIDE DEF q
  <1>2. q \in Seq(Steps) /\ \A i \in 1..Len(q) : ~q[i].timed
    <2>1. q \in Seq(Steps)
      BY <1>1 DEF Steps
    <2>2. \A i \in 1..Len(q) : q[i] \in PlainSteps
      BY <1>1
    <2>3. QED
      BY <2>1, <2>2 DEF PlainSteps
  <1>3. PICK h \in Traces(q) : h[0] = A /\ h[Len(q)] = AtRest /\ Follows(q, h)
    BY <1>1 DEF Plainly
  <1>4. \A i \in 1..Len(q) : Excused(q[i], h[i - 1])
    BY <1>2 DEF Excused
  <1>5. Leads(q, A, AtRest)
    BY <1>3, <1>4 DEF Leads
  <1>6. QED
    BY <1>1, <1>2, <1>5 DEF q

-----------------------------------------------------------------------------
(* The invariant: every thread has a standing. *)

Typed ==
    /\ todo \in [Threads -> Seq(Steps)]
    /\ holder \in [Locks -> SUBSET Threads]
    /\ \A l \in Locks : holder[l] = {} \/ \E u \in Threads : holder[l] = {u}
    /\ reading \subseteq Threads /\ guarded \subseteq Threads
    /\ alive \subseteq Threads /\ alive # {}
    /\ announced \in BOOLEAN /\ entered \in BOOLEAN /\ held \in BOOLEAN

\* The threads a child has lost do nothing.
Dead == \A t \in Threads \ alive : todo[t] = <<>>

\* What a thread has still to do leads to rest, and a fork to its handler.
Leading(g) ==
    \A t \in alive : /\ Leads(todo[t], g[t], AtRest)
                     /\ g[t].fork # "no" => EndsFork(todo[t])

\* A standing says what its thread holds.
Agrees(g) ==
    \A t \in alive : /\ \A l \in Locks : holder[l] = {t} <=> l \in g[t].locks
                     /\ t \in reading <=> g[t].reads

\* A writer keeps its lock while the gate is closed, and readers out once it
\* has seen none.
GateIs(g) ==
    \A t \in alive : /\ g[t].gate # "open" => GateLock \in g[t].locks /\ announced
                     /\ g[t].gate = "drained" => reading = {}

\* A closed gate has its writer, who may be among those a child has lost.
Announcer(g) ==
    announced => \E u \in Threads : holder[GateLock] = {u} /\ (u \in alive => g[u].gate # "open")

\* One fork at a time, inside the guard, with `held` saying what it holds.
Forks(g) ==
    /\ \A t, u \in alive : g[t].fork # "no" /\ g[u].fork # "no" => t = u
    /\ \A t \in alive :
          /\ g[t].fork \in {"guarded", "all held", "none held", "child"} => t \in guarded
          /\ g[t].fork = "all held" => held
          /\ g[t].fork = "none held" => ~held
          /\ g[t].fork = "child" => alive = {t}

\* Only a child that has not started anew finds what the dead held.
Orphans(g) ==
    \/ reading \subseteq alive /\ \A l \in Locks : holder[l] \subseteq alive
    \/ \E t \in alive : g[t].fork = "child"

GInv(g) ==
    /\ Typed /\ Dead /\ Leading(g) /\ Agrees(g) /\ GateIs(g) /\ Announcer(g) /\ Forks(g)
    /\ Orphans(g)

IInv == \E g \in [Threads -> Standings] : GInv(g)

\* One thread's standing changes.
Moves(g, k, t, B) ==
    /\ k \in [Threads -> Standings] /\ k[t] = B
    /\ \A u \in Threads : u # t => k[u] = g[u]

LEMMA CanMove ==
    ASSUME NEW g \in [Threads -> Standings], NEW t \in Threads, NEW B \in Standings
    PROVE  \E k : Moves(g, k, t, B)
  <1>1. Moves(g, [g EXCEPT ![t] = B], t, B)
    BY DEF Moves
  <1>2. QED
    BY <1>1

\* A thread with steps to do, and where the first takes it.
LEMMA Mover ==
    ASSUME NEW g \in [Threads -> Standings], GInv(g), NEW t \in Threads, todo[t] # <<>>
    PROVE  /\ t \in alive /\ Now(t) \in Steps /\ Now(t).at \in Locks
           /\ Tail(todo[t]) \in Seq(Steps) /\ Excused(Now(t), g[t])
           /\ \E B \in Standings :
                 /\ Effect(Now(t), g[t], B)
                 /\ Leads(Tail(todo[t]), B, AtRest)
                 /\ B.fork # "no" => EndsFork(Tail(todo[t]))
  <1>1. t \in alive /\ todo[t] \in Seq(Steps) /\ g[t] \in Standings
    BY DEF GInv, Dead, Typed
  <1>2. Leads(todo[t], g[t], AtRest) /\ (g[t].fork # "no" => EndsFork(todo[t]))
    BY <1>1 DEF GInv, Leading
  <1>3. Head(todo[t]) \in Steps /\ Tail(todo[t]) \in Seq(Steps)
    BY <1>1
  <1>4. PICK B \in Standings : /\ Effect(Head(todo[t]), g[t], B) /\ Excused(Head(todo[t]), g[t])
                               /\ Leads(Tail(todo[t]), B, AtRest)
    BY <1>1, <1>2, Advance
  <1>5. B.fork # "no" => EndsFork(Tail(todo[t]))
    BY <1>1, <1>2, <1>4, StillEnds
  <1>6. Head(todo[t]).at \in Locks
    BY <1>3 DEF Steps, PlainSteps, TimedSteps
  <1>7. QED
    BY <1>1, <1>3, <1>4, <1>5, <1>6 DEF Now

\* One thread goes on with `q` from B.
LEMMA GoesOn ==
    ASSUME NEW g \in [Threads -> Standings], GInv(g), NEW t \in alive,
           NEW q \in Seq(Steps), todo' = [todo EXCEPT ![t] = q], UNCHANGED alive,
           NEW B \in Standings, Leads(q, B, AtRest), B.fork # "no" => EndsFork(q),
           NEW k, Moves(g, k, t, B)
    PROVE  todo' \in [Threads -> Seq(Steps)] /\ Dead' /\ Leading(k)'
  <1>1. todo \in [Threads -> Seq(Steps)] /\ alive \subseteq Threads
    BY DEF GInv, Typed
  <1>2. todo' \in [Threads -> Seq(Steps)] /\ todo'[t] = q
        /\ \A u \in Threads : u # t => todo'[u] = todo[u]
    BY <1>1
  <1>3. Dead'
    BY <1>1, <1>2 DEF GInv, Dead
  <1>4. Leading(k)'
    <2>1. \A u \in alive : /\ Leads(todo'[u], k[u], AtRest)
                           /\ k[u].fork # "no" => EndsFork(todo'[u])
      BY <1>1, <1>2 DEF GInv, Leading, Moves
    <2>2. QED
      BY <2>1 DEF Leading
  <1>5. QED
    BY <1>2, <1>3, <1>4

LEMMA Finishes ==
    ASSUME NEW g \in [Threads -> Standings], GInv(g), NEW t \in Threads, todo[t] # <<>>,
           Done(t), UNCHANGED alive
    PROVE  t \in alive /\ Now(t).at \in Locks
           /\ \E B \in Standings, k \in [Threads -> Standings] :
                 /\ Moves(g, k, t, B) /\ Effect(Now(t), g[t], B)
                 /\ todo' \in [Threads -> Seq(Steps)] /\ Dead' /\ Leading(k)'
  <1>1. PICK B \in Standings : /\ Effect(Now(t), g[t], B)
                               /\ Leads(Tail(todo[t]), B, AtRest)
                               /\ B.fork # "no" => EndsFork(Tail(todo[t]))
    BY Mover
  <1>2. t \in alive /\ Now(t).at \in Locks /\ Tail(todo[t]) \in Seq(Steps)
    BY Mover
  <1>3. PICK k : Moves(g, k, t, B)
    BY CanMove
  <1>4. todo' = [todo EXCEPT ![t] = Tail(todo[t])]
    BY DEF Done
  <1>5. todo' \in [Threads -> Seq(Steps)] /\ Dead' /\ Leading(k)'
    BY <1>1, <1>2, <1>3, <1>4, GoesOn
  <1>6. k \in [Threads -> Standings]
    BY <1>3 DEF Moves
  <1>7. QED
    BY <1>1, <1>2, <1>3, <1>5, <1>6

LEMMA ForksSame ==
    ASSUME NEW g \in [Threads -> Standings], GInv(g), NEW t \in alive, NEW B, NEW k,
           Moves(g, k, t, B), B.fork = g[t].fork, UNCHANGED <<guarded, alive, held>>
    PROVE  Forks(k)'
  <1>1. alive \subseteq Threads
    BY DEF GInv, Typed
  <1>2. \A u \in alive : k[u].fork = g[u].fork
    BY <1>1 DEF Moves
  <1>3. QED
    BY <1>2 DEF GInv, Forks

LEMMA OrphansSame ==
    ASSUME NEW g \in [Threads -> Standings], GInv(g), NEW t \in alive, NEW B, NEW k,
           Moves(g, k, t, B), B.fork = g[t].fork, UNCHANGED alive,
           reading' \subseteq reading \cup {t},
           \A l \in Locks : holder'[l] \subseteq holder[l] \cup {t}
    PROVE  Orphans(k)'
  <1>1. alive \subseteq Threads
    BY DEF GInv, Typed
  <1>2. \A u \in alive : k[u].fork = g[u].fork
    BY <1>1 DEF Moves
  <1>3. QED
    BY <1>2 DEF GInv, Orphans

LEMMA TakeKeeps ==
    ASSUME NEW g \in [Threads -> Standings], GInv(g), NEW t \in Threads, Take(t)
    PROVE  \E k \in [Threads -> Standings] : GInv(k)'
  <1>1. /\ todo[t] # <<>> /\ Now(t).do = "lock" /\ Done(t)
        /\ UNCHANGED <<reading, announced, guarded, entered, alive, held>>
    BY DEF Take, Doing
  <1>2. PICK B \in Standings, k \in [Threads -> Standings] :
            /\ Moves(g, k, t, B) /\ Effect(Now(t), g[t], B)
            /\ todo' \in [Threads -> Seq(Steps)] /\ Dead' /\ Leading(k)'
    BY <1>1, Finishes
  <1>3. t \in alive /\ Now(t).at \in Locks
    BY <1>1, Finishes
  <1> DEFINE l == Now(t).at
  <1>4. holder[l] = {} /\ holder' = [holder EXCEPT ![l] = {t}]
    BY DEF Take
  <1>5. IsAt(B, g[t].locks \cup {l}, g[t].reads, g[t].gate, g[t].fork)
    BY <1>1, <1>2 DEF Effect
  <1> HIDE DEF l
  <1>6. /\ holder' \in [Locks -> SUBSET Threads] /\ holder'[l] = {t}
        /\ \A m \in Locks : m # l => holder'[m] = holder[m]
    BY <1>3, <1>4 DEF GInv, Typed, l
  <1>7. alive \subseteq Threads /\ k[t] = B /\ \A u \in alive : u # t => k[u] = g[u]
    BY <1>2 DEF Moves, GInv, Typed
  <1>8. Typed'
    <2>1. \A m \in Locks : holder'[m] = {} \/ \E u \in Threads : holder'[m] = {u}
      BY <1>6 DEF GInv, Typed
    <2>2. QED
      BY <1>1, <1>2, <1>6, <2>1 DEF GInv, Typed
  <1>9. Agrees(k)'
    <2>1. l \in Locks
      BY <1>3 DEF l
    <2>2. ASSUME NEW u \in alive
          PROVE  /\ \A m \in Locks : holder'[m] = {u} <=> m \in k[u].locks
                 /\ u \in reading <=> k[u].reads
      <3>1. /\ \A m \in Locks : holder[m] = {u} <=> m \in g[u].locks
            /\ u \in reading <=> g[u].reads
        BY DEF GInv, Agrees
      <3>2. CASE u = t
        BY <1>4, <1>5, <1>6, <1>7, <3>1, <3>2 DEF IsAt
      <3>3. CASE u # t
        <4>1. k[u] = g[u] /\ holder[l] # {u} /\ holder'[l] # {u}
          BY <1>4, <1>6, <1>7, <3>3
        <4>2. QED
          BY <1>6, <2>1, <3>1, <4>1
      <3>4. QED
        BY <3>2, <3>3
    <2>3. QED
      BY <1>1, <2>2 DEF Agrees
  <1>10. GateIs(k)'
    <2>1. \A u \in alive : /\ k[u].gate = g[u].gate
                           /\ GateLock \in g[u].locks => GateLock \in k[u].locks
      BY <1>5, <1>7 DEF IsAt
    <2>2. QED
      BY <1>1, <2>1 DEF GInv, GateIs
  <1>11. Announcer(k)'
    <2>1. \A u \in alive : k[u].gate = g[u].gate
      BY <1>5, <1>7 DEF IsAt
    <2>2. ASSUME announced
          PROVE  GateLock # l
      BY <1>4, <2>2 DEF GInv, Announcer
    <2>3. QED
      BY <1>1, <1>6, <2>1, <2>2, AreLocks DEF GInv, Announcer
  <1>12. B.fork = g[t].fork
    BY <1>5 DEF IsAt
  <1>13. Forks(k)'
    BY <1>1, <1>2, <1>3, <1>12, ForksSame
  <1>14. Orphans(k)'
    <2>1. \A m \in Locks : holder'[m] \subseteq holder[m] \cup {t}
      BY <1>6
    <2>2. QED
      BY <1>1, <1>2, <1>3, <1>12, <2>1, OrphansSame
  <1>15. QED
    BY <1>2, <1>8, <1>9, <1>10, <1>11, <1>13, <1>14 DEF GInv, Moves

LEMMA GiveUpKeeps ==
    ASSUME NEW g \in [Threads -> Standings], GInv(g), NEW t \in Threads, GiveUp(t)
    PROVE  \E k \in [Threads -> Standings] : GInv(k)'
  <1>1. /\ todo[t] # <<>> /\ Now(t).timed /\ todo' = [todo EXCEPT ![t] = Now(t).otherwise]
        /\ UNCHANGED <<holder, reading, announced, guarded, entered, alive, held>>
    BY DEF GiveUp, Doing
  <1>2. t \in alive /\ Now(t) \in Steps /\ Excused(Now(t), g[t])
    BY <1>1, Mover
  <1>3. /\ Now(t).otherwise \in Seq(Steps)
        /\ Leads(Now(t).otherwise, g[t], AtRest)
        /\ g[t].fork # "no" => EndsFork(Now(t).otherwise)
    BY <1>1, <1>2, GivesUp
  <1>4. Moves(g, g, t, g[t])
    BY DEF Moves
  <1>5. todo' \in [Threads -> Seq(Steps)] /\ Dead' /\ Leading(g)'
    BY <1>1, <1>2, <1>3, <1>4, GoesOn
  <1>6. Typed'
    BY <1>1, <1>5 DEF GInv, Typed
  <1>7. Agrees(g)' /\ GateIs(g)' /\ Announcer(g)' /\ Forks(g)' /\ Orphans(g)'
    BY <1>1 DEF GInv, Agrees, GateIs, Announcer, Forks, Orphans
  <1>8. QED
    BY <1>5, <1>6, <1>7 DEF GInv

LEMMA ReleaseKeeps ==
    ASSUME NEW g \in [Threads -> Standings], GInv(g), NEW t \in Threads, Release(t)
    PROVE  \E k \in [Threads -> Standings] : GInv(k)'
  <1>1. /\ todo[t] # <<>> /\ Now(t).do = "unlock" /\ Done(t)
        /\ UNCHANGED <<reading, announced, guarded, entered, alive, held>>
    BY DEF Release, Doing
  <1>2. PICK B \in Standings, k \in [Threads -> Standings] :
            /\ Moves(g, k, t, B) /\ Effect(Now(t), g[t], B)
            /\ todo' \in [Threads -> Seq(Steps)] /\ Dead' /\ Leading(k)'
    BY <1>1, Finishes
  <1>3. t \in alive /\ Now(t).at \in Locks
    BY <1>1, Finishes
  <1> DEFINE l == Now(t).at
  <1>4. holder' = [holder EXCEPT ![l] = {}]
    BY DEF Release
  <1>5. /\ l \in g[t].locks /\ (l = GateLock => g[t].gate = "open")
        /\ IsAt(B, g[t].locks \ {l}, g[t].reads, g[t].gate, g[t].fork)
    BY <1>1, <1>2 DEF Effect
  <1> HIDE DEF l
  <1>6. /\ holder' \in [Locks -> SUBSET Threads] /\ holder'[l] = {}
        /\ \A m \in Locks : m # l => holder'[m] = holder[m]
    BY <1>3, <1>4 DEF GInv, Typed, l
  <1>7. alive \subseteq Threads /\ k[t] = B /\ \A u \in alive : u # t => k[u] = g[u]
    BY <1>2 DEF Moves, GInv, Typed
  <1>8. l \in Locks /\ holder[l] = {t}
    BY <1>3, <1>5 DEF GInv, Agrees, l
  <1>9. Typed'
    <2>1. \A m \in Locks : holder'[m] = {} \/ \E u \in Threads : holder'[m] = {u}
      BY <1>6 DEF GInv, Typed
    <2>2. QED
      BY <1>1, <1>2, <1>6, <2>1 DEF GInv, Typed
  <1>10. Agrees(k)'
    <2>1. ASSUME NEW u \in alive
          PROVE  /\ \A m \in Locks : holder'[m] = {u} <=> m \in k[u].locks
                 /\ u \in reading <=> k[u].reads
      <3>1. /\ \A m \in Locks : holder[m] = {u} <=> m \in g[u].locks
            /\ u \in reading <=> g[u].reads
        BY DEF GInv, Agrees
      <3>2. CASE u = t
        BY <1>5, <1>6, <1>7, <3>1, <3>2 DEF IsAt
      <3>3. CASE u # t
        <4>1. k[u] = g[u] /\ holder[l] # {u} /\ holder'[l] # {u}
          BY <1>6, <1>7, <1>8, <3>3
        <4>2. QED
          BY <1>6, <1>8, <3>1, <4>1
      <3>4. QED
        BY <3>2, <3>3
    <2>2. QED
      BY <1>1, <2>1 DEF Agrees
  <1>11. GateIs(k)'
    <2>1. \A u \in alive : k[u].gate = g[u].gate
      BY <1>5, <1>7 DEF IsAt
    <2>2. \A u \in alive : GateLock \in g[u].locks /\ g[u].gate # "open" => GateLock \in k[u].locks
      BY <1>5, <1>7 DEF IsAt
    <2>3. QED
      BY <1>1, <2>1, <2>2 DEF GInv, GateIs
  <1>12. Announcer(k)'
    <2>1. \A u \in alive : k[u].gate = g[u].gate
      BY <1>5, <1>7 DEF IsAt
    <2>2. ASSUME announced
          PROVE  GateLock # l
      <3>1. PICK u \in Threads : holder[GateLock] = {u} /\ (u \in alive => g[u].gate # "open")
        BY <2>2 DEF GInv, Announcer
      <3>2. QED
        BY <1>3, <1>5, <1>8, <3>1
    <2>3. QED
      BY <1>1, <1>6, <2>1, <2>2, AreLocks DEF GInv, Announcer
  <1>13. B.fork = g[t].fork
    BY <1>5 DEF IsAt
  <1>14. Forks(k)'
    BY <1>1, <1>2, <1>3, <1>13, ForksSame
  <1>15. Orphans(k)'
    <2>1. \A m \in Locks : holder'[m] \subseteq holder[m] \cup {t}
      BY <1>6
    <2>2. QED
      BY <1>1, <1>2, <1>3, <1>13, <2>1, OrphansSame
  <1>16. QED
    BY <1>2, <1>9, <1>10, <1>11, <1>12, <1>14, <1>15 DEF GInv, Moves

LEMMA ReadKeeps ==
    ASSUME NEW g \in [Threads -> Standings], GInv(g), NEW t \in Threads, Read(t)
    PROVE  \E k \in [Threads -> Standings] : GInv(k)'
  <1>1. /\ todo[t] # <<>> /\ Done(t)
        /\ UNCHANGED <<holder, announced, guarded, entered, alive, held>>
    BY DEF Read, Doing
  <1>2. PICK B \in Standings, k \in [Threads -> Standings] :
            /\ Moves(g, k, t, B) /\ Effect(Now(t), g[t], B)
            /\ todo' \in [Threads -> Seq(Steps)] /\ Dead' /\ Leading(k)'
    BY <1>1, Finishes
  <1>3. t \in alive
    BY <1>1, Finishes
  <1>4. \/ /\ Now(t).do = "read" /\ ~announced /\ reading' = reading \cup {t}
           /\ IsAt(B, g[t].locks, TRUE, g[t].gate, g[t].fork)
        \/ /\ Now(t).do = "unread" /\ reading' = reading \ {t}
           /\ IsAt(B, g[t].locks, FALSE, g[t].gate, g[t].fork)
    BY <1>2 DEF Read, Doing, Effect
  <1>5. B.locks = g[t].locks /\ B.gate = g[t].gate /\ B.fork = g[t].fork
        /\ (t \in reading' <=> B.reads)
    BY <1>4 DEF IsAt
  <1>6. alive \subseteq Threads /\ k[t] = B /\ \A u \in alive : u # t => k[u] = g[u]
    BY <1>2 DEF Moves, GInv, Typed
  <1>7. Typed'
    BY <1>1, <1>2, <1>4 DEF GInv, Typed
  <1>8. Agrees(k)'
    <2>1. ASSUME NEW u \in alive
          PROVE  k[u].locks = g[u].locks /\ (u \in reading' <=> k[u].reads)
      <3>1. CASE u = t
        BY <1>5, <1>6, <3>1
      <3>2. CASE u # t
        <4>1. u \in reading' <=> u \in reading
          BY <1>4, <3>2
        <4>2. k[u] = g[u] /\ (u \in reading <=> g[u].reads)
          BY <1>6, <3>2 DEF GInv, Agrees
        <4>3. QED
          BY <4>1, <4>2
      <3>3. QED
        BY <3>1, <3>2
    <2>2. QED
      BY <1>1, <2>1 DEF GInv, Agrees
  <1>9. \A u \in alive : k[u].gate = g[u].gate /\ k[u].locks = g[u].locks
    BY <1>5, <1>6
  <1>10. GateIs(k)'
    <2>1. ASSUME NEW u \in alive, g[u].gate = "drained"
          PROVE  reading' = {}
      BY <1>4, <2>1 DEF GInv, GateIs
    <2>2. QED
      BY <1>1, <1>9, <2>1 DEF GInv, GateIs
  <1>11. Announcer(k)'
    BY <1>1, <1>9 DEF GInv, Announcer
  <1>12. Forks(k)'
    BY <1>1, <1>2, <1>3, <1>5, ForksSame
  <1>13. Orphans(k)'
    BY <1>1, <1>2, <1>3, <1>4, <1>5, OrphansSame
  <1>14. QED
    BY <1>2, <1>7, <1>8, <1>10, <1>11, <1>12, <1>13 DEF GInv, Moves

LEMMA WriteKeeps ==
    ASSUME NEW g \in [Threads -> Standings], GInv(g), NEW t \in Threads, Write(t)
    PROVE  \E k \in [Threads -> Standings] : GInv(k)'
  <1>1. /\ todo[t] # <<>> /\ Done(t)
        /\ UNCHANGED <<holder, reading, guarded, entered, alive, held>>
    BY DEF Write, Doing
  <1>2. PICK B \in Standings, k \in [Threads -> Standings] :
            /\ Moves(g, k, t, B) /\ Effect(Now(t), g[t], B)
            /\ todo' \in [Threads -> Seq(Steps)] /\ Dead' /\ Leading(k)'
    BY <1>1, Finishes
  <1>3. t \in alive
    BY <1>1, Finishes
  <1>4. \/ /\ announced' = TRUE /\ GateLock \in g[t].locks
           /\ IsAt(B, g[t].locks, g[t].reads, "announced", g[t].fork)
        \/ /\ UNCHANGED announced /\ reading = {} /\ g[t].gate = "announced"
           /\ IsAt(B, g[t].locks, g[t].reads, "drained", g[t].fork)
        \/ /\ announced' = FALSE /\ g[t].gate # "open"
           /\ IsAt(B, g[t].locks, g[t].reads, "open", g[t].fork)
    BY <1>2 DEF Write, Doing, Effect
  <1>5. B.locks = g[t].locks /\ B.reads = g[t].reads /\ B.fork = g[t].fork
    BY <1>4 DEF IsAt
  <1>6. alive \subseteq Threads /\ k[t] = B /\ \A u \in alive : u # t => k[u] = g[u]
    BY <1>2 DEF Moves, GInv, Typed
  <1>7. Typed'
    BY <1>1, <1>2, <1>4 DEF GInv, Typed
  <1>8. Agrees(k)'
    <2>1. \A u \in alive : k[u].locks = g[u].locks /\ k[u].reads = g[u].reads
      BY <1>5, <1>6
    <2>2. QED
      BY <1>1, <2>1 DEF GInv, Agrees
  <1>9. GateLock \in g[t].locks /\ holder[GateLock] = {t}
    BY <1>3, <1>4, AreLocks DEF GInv, GateIs, Agrees
  <1>10. \A u \in alive : u # t => g[u].gate = "open"
    <2> TAKE u \in alive
    <2> HAVE u # t
    <2>1. GateLock \notin g[u].locks
      <3>1. holder[GateLock] # {u} /\ GateLock \in Locks
        BY <1>9, AreLocks
      <3>2. holder[GateLock] = {u} <=> GateLock \in g[u].locks
        BY <3>1 DEF GInv, Agrees
      <3>3. QED
        BY <3>1, <3>2
    <2>2. QED
      BY <2>1 DEF GInv, GateIs
  <1>11. GateIs(k)'
    <2>1. ASSUME NEW u \in alive
          PROVE  /\ k[u].gate # "open" => GateLock \in k[u].locks /\ announced'
                 /\ k[u].gate = "drained" => reading = {}
      <3>1. CASE u = t
        BY <1>3, <1>4, <1>5, <1>6, <1>9, <3>1 DEF IsAt, GInv, GateIs
      <3>2. CASE u # t
        BY <1>6, <1>10, <3>2
      <3>3. QED
        BY <3>1, <3>2
    <2>2. QED
      BY <1>1, <2>1 DEF GateIs
  <1>12. Announcer(k)'
    <2>1. announced' => k[t].gate # "open"
      BY <1>4, <1>6 DEF IsAt
    <2>2. QED
      BY <1>1, <1>9, <2>1 DEF Announcer
  <1>13. Forks(k)'
    BY <1>1, <1>2, <1>3, <1>5, ForksSame
  <1>14. Orphans(k)'
    BY <1>1, <1>2, <1>3, <1>5, OrphansSame
  <1>15. QED
    BY <1>2, <1>7, <1>8, <1>11, <1>12, <1>13, <1>14 DEF GInv, Moves

LEMMA AloneForks ==
    ASSUME NEW g \in [Threads -> Standings], GInv(g), NEW t \in alive, g[t].fork # "no"
    PROVE  \A u \in alive : u # t => g[u].fork = "no"
  BY DEF GInv, Forks

\* A step of a fork changes no lock: only how far the fork is.
LEMMA ForkSteps ==
    ASSUME NEW g \in [Threads -> Standings], GInv(g), NEW t \in alive, NEW B, NEW k,
           Moves(g, k, t, B), B.locks = g[t].locks, B.reads = g[t].reads, B.gate = g[t].gate,
           UNCHANGED <<holder, reading, announced, alive>>,
           \A u \in alive : u # t => g[u].fork = "no", g[t].fork # "child", B.fork # "child",
           guarded' \subseteq Threads, held' \in BOOLEAN, entered' \in BOOLEAN,
           B.fork \in {"guarded", "all held", "none held"} => t \in guarded',
           B.fork = "all held" => held', B.fork = "none held" => ~held',
           todo' \in [Threads -> Seq(Steps)], Dead', Leading(k)'
    PROVE  \E f \in [Threads -> Standings] : GInv(f)'
  <1>1. alive \subseteq Threads /\ k[t] = B /\ \A u \in alive : u # t => k[u] = g[u]
    BY DEF Moves, GInv, Typed
  <1>2. \A u \in alive : /\ k[u].locks = g[u].locks /\ k[u].reads = g[u].reads
                         /\ k[u].gate = g[u].gate
    BY <1>1
  <1>3. Typed'
    BY DEF GInv, Typed
  <1>4. Agrees(k)'
    BY <1>2 DEF GInv, Agrees
  <1>5. GateIs(k)'
    BY <1>2 DEF GInv, GateIs
  <1>6. Announcer(k)'
    BY <1>2 DEF GInv, Announcer
  <1>7. Forks(k)'
    <2>1. \A u \in alive : u # t => k[u].fork = "no"
      BY <1>1
    <2>2. QED
      BY <1>1, <2>1 DEF Forks
  <1>8. Orphans(k)'
    <2>1. \A u \in alive : g[u].fork # "child"
      OBVIOUS
    <2>2. QED
      BY <2>1 DEF GInv, Orphans
  <1>9. QED
    BY <1>3, <1>4, <1>5, <1>6, <1>7, <1>8 DEF GInv, Moves

LEMMA GuardKeeps ==
    ASSUME NEW g \in [Threads -> Standings], GInv(g), NEW t \in Threads, Guard(t)
    PROVE  \E f \in [Threads -> Standings] : GInv(f)'
  <1>1. todo[t] # <<>> /\ Done(t) /\ UNCHANGED <<holder, reading, announced, alive, held>>
    BY DEF Guard, Doing
  <1>2. PICK B \in Standings, k \in [Threads -> Standings] :
            /\ Moves(g, k, t, B) /\ Effect(Now(t), g[t], B)
            /\ todo' \in [Threads -> Seq(Steps)] /\ Dead' /\ Leading(k)'
    BY <1>1, Finishes
  <1>3. t \in alive
    BY <1>1, Finishes
  <1>4. \/ /\ guarded' = guarded \cup {t} /\ entered' = (t \notin guarded) /\ g[t].fork = "begun"
           /\ IsAt(B, g[t].locks, g[t].reads, g[t].gate, "guarded")
        \/ /\ guarded' = (IF entered THEN guarded \ {t} ELSE guarded) /\ entered' = FALSE
           /\ IsAt(g[t], {}, FALSE, "open", "guarded") /\ B = AtRest
    BY <1>2 DEF Guard, Doing, Effect
  <1>5. B.locks = g[t].locks /\ B.reads = g[t].reads /\ B.gate = g[t].gate
        /\ g[t].fork \in {"begun", "guarded"} /\ B.fork \in {"no", "guarded"}
        /\ (B.fork = "guarded" => t \in guarded')
    BY <1>4, RestIs DEF IsAt
  <1>6. guarded' \subseteq Threads /\ entered' \in BOOLEAN /\ held' \in BOOLEAN
    BY <1>1, <1>4 DEF GInv, Typed
  <1>7. \A u \in alive : u # t => g[u].fork = "no"
    BY <1>3, <1>5, AloneForks
  <1>8. QED
    BY <1>1, <1>2, <1>3, <1>5, <1>6, <1>7, ForkSteps

LEMMA PreparedKeeps ==
    ASSUME NEW g \in [Threads -> Standings], GInv(g), NEW t \in Threads, Prepared(t)
    PROVE  \E f \in [Threads -> Standings] : GInv(f)'
  <1>1. /\ todo[t] # <<>> /\ Done(t)
        /\ UNCHANGED <<holder, reading, announced, guarded, entered, alive>>
    BY DEF Prepared, Doing
  <1>2. PICK B \in Standings, k \in [Threads -> Standings] :
            /\ Moves(g, k, t, B) /\ Effect(Now(t), g[t], B)
            /\ todo' \in [Threads -> Seq(Steps)] /\ Dead' /\ Leading(k)'
    BY <1>1, Finishes
  <1>3. t \in alive
    BY <1>1, Finishes
  <1>4. \/ /\ held' = TRUE /\ IsAt(g[t], Locks, FALSE, "drained", "guarded")
           /\ IsAt(B, Locks, FALSE, "drained", "all held")
        \/ /\ held' = FALSE /\ IsAt(g[t], {}, FALSE, "open", "guarded")
           /\ IsAt(B, {}, FALSE, "open", "none held")
    <2>1. CASE Now(t).do = "all held"
      BY <1>1, <1>2, <2>1 DEF Prepared, Doing, Effect
    <2>2. CASE Now(t).do = "none held"
      BY <1>1, <1>2, <2>2 DEF Prepared, Doing, Effect
    <2>3. QED
      BY <2>1, <2>2 DEF Prepared, Doing
  <1>5. B.locks = g[t].locks /\ B.reads = g[t].reads /\ B.gate = g[t].gate
        /\ g[t].fork = "guarded" /\ B.fork \in {"all held", "none held"}
        /\ (B.fork = "all held" => held') /\ (B.fork = "none held" => ~held')
    BY <1>4 DEF IsAt
  <1>6. guarded' \subseteq Threads /\ entered' \in BOOLEAN /\ held' \in BOOLEAN
    BY <1>1, <1>4 DEF GInv, Typed
  <1>7. \A u \in alive : u # t => g[u].fork = "no"
    BY <1>3, <1>5, AloneForks
  <1>8. t \in guarded'
    BY <1>1, <1>3, <1>5 DEF GInv, Forks
  <1>9. QED
    BY <1>1, <1>2, <1>3, <1>5, <1>6, <1>7, <1>8, ForkSteps

LEMMA ForkReturnsKeeps ==
    ASSUME NEW g \in [Threads -> Standings], GInv(g), NEW t \in Threads, ForkReturns(t)
    PROVE  \E f \in [Threads -> Standings] : GInv(f)'
  <1>1. /\ todo[t] # <<>> /\ Done(t)
        /\ UNCHANGED <<holder, reading, announced, guarded, entered, alive, held>>
    BY DEF ForkReturns, Doing
  <1>2. PICK B \in Standings, k \in [Threads -> Standings] :
            /\ Moves(g, k, t, B) /\ Effect(Now(t), g[t], B)
            /\ todo' \in [Threads -> Seq(Steps)] /\ Dead' /\ Leading(k)'
    BY <1>1, Finishes
  <1>3. t \in alive
    BY <1>1, Finishes
  <1>4. B = g[t]
    BY <1>2 DEF ForkReturns, Doing, Effect
  <1>5. alive \subseteq Threads /\ \A u \in alive : k[u] = g[u]
    BY <1>2, <1>4 DEF Moves, GInv, Typed
  <1>6. Typed'
    BY <1>1, <1>2 DEF GInv, Typed
  <1>7. Agrees(k)'
    BY <1>1, <1>5 DEF GInv, Agrees
  <1>8. GateIs(k)' /\ Announcer(k)'
    BY <1>1, <1>5 DEF GInv, GateIs, Announcer
  <1>9. Forks(k)'
    BY <1>1, <1>2, <1>3, <1>4, ForksSame
  <1>10. Orphans(k)'
    BY <1>1, <1>5 DEF GInv, Orphans
  <1>11. QED
    BY <1>2, <1>6, <1>7, <1>8, <1>9, <1>10 DEF GInv, Moves

\* In the window, and in the child, the forking thread is inside the guard.
LEMMA WindowGuarded ==
    ASSUME NEW g \in [Threads -> Standings], GInv(g), NEW t \in Threads,
           Doing(t, "fork") \/ Doing(t, "parent") \/ Doing(t, "reinit")
    PROVE  /\ t \in alive /\ t \in guarded
           /\ ~Doing(t, "reinit") => InWindow(g[t])
           /\ Doing(t, "reinit") => g[t].fork = "child"
  <1>1. todo[t] # <<>>
    BY DEF Doing
  <1>2. t \in alive
    BY <1>1, Mover
  <1>3. PICK B \in Standings : Effect(Now(t), g[t], B)
    BY <1>1, Mover
  <1>4. Doing(t, "fork") \/ Doing(t, "parent") => InWindow(g[t])
    BY <1>3 DEF Doing, Effect
  <1>5. Doing(t, "reinit") => g[t].fork = "child"
    BY <1>3 DEF Doing, Effect
  <1>6. g[t].fork \in {"all held", "none held", "child"}
    BY <1>4, <1>5 DEF InWindow, IsAt
  <1>7. t \in guarded
    BY <1>2, <1>6 DEF GInv, Forks
  <1>8. QED
    BY <1>2, <1>4, <1>5, <1>7

LEMMA StutterKeeps ==
    ASSUME NEW g \in [Threads -> Standings], GInv(g), UNCHANGED vars
    PROVE  GInv(g)'
  <1>1. /\ UNCHANGED <<todo, holder, reading, announced>>
        /\ UNCHANGED <<guarded, entered, alive, held>>
    BY DEF vars
  <1>2. Typed' /\ Dead'
    BY <1>1 DEF GInv, Typed, Dead
  <1>3. Leading(g)' /\ Agrees(g)'
    BY <1>1 DEF GInv, Leading, Agrees
  <1>4. GateIs(g)' /\ Announcer(g)'
    BY <1>1 DEF GInv, GateIs, Announcer
  <1>5. Forks(g)' /\ Orphans(g)'
    BY <1>1 DEF GInv, Forks, Orphans
  <1>6. QED
    BY <1>2, <1>3, <1>4, <1>5 DEF GInv

LEMMA AllocateKeeps ==
    ASSUME NEW g \in [Threads -> Standings], GInv(g), NEW t \in Threads, AllocateInWindow(t)
    PROVE  \E k \in [Threads -> Standings] : GInv(k)'
  <1>1. t \in guarded
    BY WindowGuarded DEF AllocateInWindow
  <1>2. UNCHANGED vars
    BY <1>1 DEF AllocateInWindow, vars
  <1>3. QED
    BY <1>2, StutterKeeps

LEMMA ParentKeeps ==
    ASSUME NEW g \in [Threads -> Standings], GInv(g), NEW t \in Threads, Parent(t)
    PROVE  \E k \in [Threads -> Standings] : GInv(k)'
  <1> DEFINE q == (IF held THEN ForkParent ELSE <<>>) \o Leave
             B == IF held THEN All ELSE Guarded
  <1>1. /\ todo' = [todo EXCEPT ![t] = q] /\ held' = FALSE
        /\ UNCHANGED <<holder, reading, announced, guarded, entered, alive>>
    BY DEF Parent, Leave
  <1>2. t \in alive /\ t \in guarded /\ InWindow(g[t])
    <2>1. Doing(t, "parent") /\ ~Doing(t, "reinit")
      BY DEF Parent, Doing
    <2>2. QED
      BY <2>1, WindowGuarded
  <1>3. IF held THEN IsAt(g[t], Locks, FALSE, "drained", "all held")
        ELSE IsAt(g[t], {}, FALSE, "open", "none held")
    <2>1. (g[t].fork = "all held" => held) /\ (g[t].fork = "none held" => ~held)
      BY <1>2 DEF GInv, Forks
    <2>2. QED
      BY <1>2, <2>1 DEF InWindow, IsAt
  <1>4. Goes(Steps, q, B, AtRest) /\ EndsFork(q)
    <2>1. CASE held
      BY <2>1, ForkParentGoes
    <2>2. CASE ~held
      <3>1. q = Leave /\ B = Guarded
        BY <2>2, LeaveGoes DEF Goes
      <3> HIDE DEF q, B
      <3>2. QED
        BY <3>1, LeaveGoes
    <2>3. QED
      BY <2>1, <2>2
  <1>5. /\ B \in Standings /\ B.locks = g[t].locks /\ B.reads = g[t].reads
        /\ B.gate = g[t].gate /\ B.fork = "guarded"
    BY <1>3, ForkStandings DEF IsAt
  <1> HIDE DEF q, B
  <1>6. PICK k : Moves(g, k, t, B)
    BY <1>5, CanMove
  <1>7. q \in Seq(Steps) /\ Leads(q, B, AtRest)
    BY <1>4 DEF Goes
  <1>8. todo' \in [Threads -> Seq(Steps)] /\ Dead' /\ Leading(k)'
    BY <1>1, <1>2, <1>4, <1>5, <1>6, <1>7, GoesOn
  <1>9. g[t].fork \in {"all held", "none held"}
    BY <1>2 DEF InWindow, IsAt
  <1>10. \A u \in alive : u # t => g[u].fork = "no"
    BY <1>2, <1>9, AloneForks
  <1>11. guarded' \subseteq Threads /\ entered' \in BOOLEAN /\ held' \in BOOLEAN /\ t \in guarded'
    BY <1>1, <1>2 DEF GInv, Typed
  <1>12. QED
    BY <1>1, <1>2, <1>5, <1>6, <1>8, <1>9, <1>10, <1>11, ForkSteps

LEMMA BecomeChildKeeps ==
    ASSUME NEW g \in [Threads -> Standings], GInv(g), NEW t \in Threads, BecomeChild(t)
    PROVE  \E k \in [Threads -> Standings] : GInv(k)'
  <1>1. /\ alive' = {t} /\ todo' = [u \in Threads |-> IF u = t THEN ForkChild ELSE <<>>]
        /\ UNCHANGED <<holder, reading, announced, guarded, entered, held>>
    BY DEF BecomeChild
  <1>2. t \in alive /\ t \in guarded
    BY WindowGuarded DEF BecomeChild
  <1>3. PICK B : B = Standing(g[t].locks, g[t].reads, g[t].gate, "child")
    OBVIOUS
  <1>4. B \in Standings /\ IsAt(B, g[t].locks, g[t].reads, g[t].gate, "child")
    <2>1. g[t].locks \in SUBSET Locks /\ g[t].reads \in BOOLEAN /\ g[t].gate \in Gates
      BY DEF Standings
    <2>2. QED
      BY <1>3, <2>1, StandingFields, Named
  <1>5. PICK k : Moves(g, k, t, B)
    BY <1>4, CanMove
  <1>6. k[t] = B /\ k \in [Threads -> Standings]
    BY <1>5 DEF Moves
  <1>7. Goes(Steps, ForkChild, B, AtRest) /\ EndsFork(ForkChild)
    BY <1>4, ForkChildGoes DEF IsAt
  <1>8. ForkChild \in Seq(Steps) /\ Leads(ForkChild, B, AtRest) /\ <<>> \in Seq(Steps)
    BY <1>7 DEF Goes
  <1>9. todo' \in [Threads -> Seq(Steps)] /\ todo'[t] = ForkChild
        /\ \A u \in Threads : u # t => todo'[u] = <<>>
    BY <1>1, <1>8
  <1>10. Typed'
    BY <1>1, <1>9 DEF GInv, Typed
  <1>11. Dead' /\ Leading(k)'
    BY <1>1, <1>6, <1>7, <1>8, <1>9 DEF Dead, Leading
  <1>12. Agrees(k)'
    BY <1>1, <1>2, <1>4, <1>6 DEF IsAt, GInv, Agrees
  <1>13. GateIs(k)'
    BY <1>1, <1>2, <1>4, <1>6 DEF IsAt, GInv, GateIs
  <1>14. Announcer(k)'
    <2>1. ASSUME announced
          PROVE  \E u \in Threads : holder[GateLock] = {u} /\ (u = t => k[t].gate # "open")
      <3>1. PICK u \in Threads : holder[GateLock] = {u} /\ (u \in alive => g[u].gate # "open")
        BY <2>1 DEF GInv, Announcer
      <3>2. u = t => k[t].gate # "open"
        BY <1>2, <1>4, <1>6, <3>1 DEF IsAt
      <3>3. QED
        BY <3>1, <3>2
    <2>2. QED
      BY <1>1, <2>1 DEF Announcer
  <1>15. Forks(k)' /\ Orphans(k)'
    BY <1>1, <1>2, <1>4, <1>6 DEF IsAt, Forks, Orphans
  <1>16. QED
    BY <1>6, <1>10, <1>11, <1>12, <1>13, <1>14, <1>15 DEF GInv

LEMMA ChildKeeps ==
    ASSUME NEW g \in [Threads -> Standings], GInv(g), NEW t \in Threads, Child(t)
    PROVE  \E k \in [Threads -> Standings] : GInv(k)'
  <1>1. /\ todo[t] # <<>> /\ Done(t) /\ holder' = [l \in Locks |-> {}] /\ reading' = {}
        /\ announced' = FALSE /\ guarded' = guarded \cap {t} /\ UNCHANGED <<entered, alive, held>>
    BY DEF Child, Doing
  <1>2. PICK B \in Standings, k \in [Threads -> Standings] :
            /\ Moves(g, k, t, B) /\ Effect(Now(t), g[t], B)
            /\ todo' \in [Threads -> Seq(Steps)] /\ Dead' /\ Leading(k)'
    BY <1>1, Finishes
  <1>3. t \in alive /\ t \in guarded /\ g[t].fork = "child"
    BY WindowGuarded DEF Child
  <1>4. IsAt(B, {}, FALSE, "open", "guarded")
    BY <1>2 DEF Child, Doing, Effect
  <1>5. alive = {t} /\ k[t] = B
    BY <1>2, <1>3 DEF GInv, Forks, Moves
  <1>6. Typed'
    BY <1>1, <1>2 DEF GInv, Typed
  <1>7. Agrees(k)' /\ GateIs(k)' /\ Announcer(k)'
    BY <1>1, <1>4, <1>5 DEF IsAt, Agrees, GateIs, Announcer
  <1>8. Forks(k)' /\ Orphans(k)'
    BY <1>1, <1>3, <1>4, <1>5 DEF IsAt, Forks, Orphans
  <1>9. QED
    BY <1>2, <1>6, <1>7, <1>8 DEF GInv, Moves

LEMMA BeginKeeps ==
    ASSUME NEW g \in [Threads -> Standings], GInv(g), NEW t \in Threads, Begin(t)
    PROVE  \E k \in [Threads -> Standings] : GInv(k)'
  <1>1. /\ t \in alive /\ todo[t] = <<>>
        /\ UNCHANGED <<holder, reading, announced, guarded, entered, alive, held>>
    BY DEF Begin
  <1>2. PICK op \in Operations : /\ op = ForkPrepare => ~\E u \in alive : Forking(u)
                                 /\ todo' = [todo EXCEPT ![t] = op]
    BY DEF Begin
  <1>3. g[t] = AtRest
    BY <1>1, RestOnly DEF GInv, Leading
  <1>4. guarded' \subseteq Threads /\ entered' \in BOOLEAN /\ held' \in BOOLEAN
    BY <1>1 DEF GInv, Typed
  <1>5. CASE op # ForkPrepare
    <2>1. op \in Seq(Steps) /\ Leads(op, AtRest, AtRest)
      BY <1>5, OperationsGo DEF Goes
    <2>2. Moves(g, g, t, AtRest)
      BY <1>3 DEF Moves
    <2>3. AtRest \in Standings /\ AtRest.fork = "no"
      BY RestIs DEF IsAt
    <2>4. todo' \in [Threads -> Seq(Steps)] /\ Dead' /\ Leading(g)'
      BY <1>1, <1>2, <2>1, <2>2, <2>3, GoesOn
    <2>5. Typed'
      BY <1>1, <2>4 DEF GInv, Typed
    <2>6. Agrees(g)' /\ GateIs(g)' /\ Announcer(g)'
      BY <1>1 DEF GInv, Agrees, GateIs, Announcer
    <2>7. Forks(g)' /\ Orphans(g)'
      BY <1>1 DEF GInv, Forks, Orphans
    <2>8. QED
      BY <2>4, <2>5, <2>6, <2>7 DEF GInv
  <1>6. CASE op = ForkPrepare
    <2>1. op \in Seq(Steps) /\ Leads(op, Begun, AtRest) /\ EndsFork(op)
      BY <1>6, ForkPrepareGoes DEF Goes
    <2>2. PICK k : Moves(g, k, t, Begun)
      BY ForkStandings, CanMove
    <2>3. todo' \in [Threads -> Seq(Steps)] /\ Dead' /\ Leading(k)'
      BY <1>1, <1>2, <2>1, <2>2, ForkStandings, GoesOn
    <2>4. \A u \in alive : g[u].fork = "no"
      <3> TAKE u \in alive
      <3>1. ASSUME EndsFork(todo[u])
            PROVE  Forking(u)
        <4>1. todo[u] \in Seq(Steps)
          BY DEF GInv, Typed
        <4>2. Len(todo[u]) \in DOMAIN todo[u]
          BY <3>1, <4>1 DEF EndsFork
        <4>3. QED
          BY <3>1, <4>2 DEF EndsFork, Forking
      <3>2. ~Forking(u)
        BY <1>2, <1>6
      <3>3. QED
        BY <3>1, <3>2 DEF GInv, Leading
    <2>5. /\ Begun.locks = g[t].locks /\ Begun.reads = g[t].reads /\ Begun.gate = g[t].gate
          /\ Begun.fork = "begun"
      BY <1>3, ForkStandings, RestIs DEF IsAt
    <2>6. QED
      BY <1>1, <1>4, <2>2, <2>3, <2>4, <2>5, ForkSteps
  <1>7. QED
    BY <1>5, <1>6

LEMMA InitInv == Init => IInv
  <1> SUFFICES ASSUME Init PROVE IInv
    OBVIOUS
  <1> DEFINE g == [t \in Threads |-> AtRest]
  <1>1. g \in [Threads -> Standings] /\ \A t \in Threads : g[t] = AtRest
    BY RestIs
  <1> HIDE DEF g
  <1>2. Typed
    <2>1. todo \in [Threads -> Seq(Steps)] /\ holder \in [Locks -> SUBSET Threads]
      BY DEF Init
    <2>2. alive # {}
      BY ForkLocksAssumption DEF Init
    <2>3. QED
      BY <2>1, <2>2 DEF Init, Typed
  <1>3. Dead /\ Leading(g)
    <2>1. Leads(<<>>, AtRest, AtRest)
      BY RestIs, Goes0 DEF Goes
    <2>2. QED
      BY <1>1, <2>1, RestIs DEF Init, Dead, Leading, IsAt
  <1>4. Agrees(g) /\ GateIs(g) /\ Announcer(g) /\ Forks(g) /\ Orphans(g)
    BY <1>1, RestIs DEF Init, IsAt, Agrees, GateIs, Announcer, Forks, Orphans
  <1>5. QED
    BY <1>1, <1>2, <1>3, <1>4 DEF IInv, GInv

LEMMA NextInv == IInv /\ [Next]_vars => IInv'
  <1> SUFFICES ASSUME IInv, [Next]_vars PROVE IInv'
    OBVIOUS
  <1>1. PICK g \in [Threads -> Standings] : GInv(g)
    BY DEF IInv
  <1>2. ASSUME NEW t \in Threads, Begin(t) \/ AllocateInWindow(t) \/ ThreadStep(t)
        PROVE  \E k \in [Threads -> Standings] : GInv(k)'
    <2>1. CASE Begin(t)
      BY <1>1, <2>1, BeginKeeps
    <2>2. CASE AllocateInWindow(t)
      BY <1>1, <2>2, AllocateKeeps
    <2>3. CASE ThreadStep(t)
      <3>1. CASE Take(t)
        BY <1>1, <3>1, TakeKeeps
      <3>2. CASE GiveUp(t)
        BY <1>1, <3>2, GiveUpKeeps
      <3>3. CASE Release(t)
        BY <1>1, <3>3, ReleaseKeeps
      <3>4. CASE Read(t)
        BY <1>1, <3>4, ReadKeeps
      <3>5. CASE Write(t)
        BY <1>1, <3>5, WriteKeeps
      <3>6. CASE Guard(t)
        BY <1>1, <3>6, GuardKeeps
      <3>7. CASE Prepared(t)
        BY <1>1, <3>7, PreparedKeeps
      <3>8. CASE ForkReturns(t)
        BY <1>1, <3>8, ForkReturnsKeeps
      <3>9. CASE Parent(t)
        BY <1>1, <3>9, ParentKeeps
      <3>10. CASE BecomeChild(t)
        BY <1>1, <3>10, BecomeChildKeeps
      <3>11. CASE Child(t)
        BY <1>1, <3>11, ChildKeeps
      <3>12. QED
        BY <2>3, <3>1, <3>2, <3>3, <3>4, <3>5, <3>6, <3>7, <3>8, <3>9, <3>10, <3>11
           DEF ThreadStep
    <2>4. QED
      BY <1>2, <2>1, <2>2, <2>3
  <1>3. ASSUME UNCHANGED vars
        PROVE  \E k \in [Threads -> Standings] : GInv(k)'
    BY <1>1, <1>3, StutterKeeps
  <1>4. \E k \in [Threads -> Standings] : GInv(k)'
    BY <1>2, <1>3 DEF Next
  <1>5. QED
    BY <1>4 DEF IInv

\* Every thread has, in every reachable state, a standing that agrees with the
\* state and from which what it has still to do leads to rest: order.rs's
\* levels and the engine's operations, fork handlers included.
THEOREM Invariance == Spec => []IInv
  BY InitInv, NextInv, PTL DEF Spec

-----------------------------------------------------------------------------
(* What the invariant says. *)

LEMMA Ordering == IInv => Ordered
  <1> SUFFICES ASSUME IInv PROVE Ordered
    OBVIOUS
  <1>1. PICK g \in [Threads -> Standings] : GInv(g)
    BY DEF IInv
  <1> SUFFICES ASSUME NEW t \in alive, Doing(t, "lock") \/ Doing(t, "read"),
                      NEW l \in Holds(t)
               PROVE  Before(l, Now(t).at)
    BY DEF Ordered
  <1>2. t \in Threads /\ todo[t] # <<>>
    BY <1>1 DEF GInv, Typed, Doing
  <1>3. PICK B \in Standings : Effect(Now(t), g[t], B)
    BY <1>1, <1>2, Mover
  <1>4. /\ \A m \in Locks : holder[m] = {t} => m \in g[t].locks
        /\ t \in reading => g[t].reads
    BY <1>1 DEF GInv, Agrees
  <1>5. l \in g[t].locks \/ (l = GateLock /\ g[t].reads)
    BY <1>4 DEF Holds
  <1>6. CASE Doing(t, "lock")
    <2>1. MayLock(g[t], Now(t).at)
      BY <1>3, <1>6 DEF Doing, Effect
    <2>2. QED
      BY <1>5, <2>1 DEF MayLock
  <1>7. CASE Doing(t, "read")
    <2>1. ~g[t].reads /\ (\A k \in g[t].locks : Before(k, GateLock)) /\ Now(t).at = GateLock
      BY <1>3, <1>7 DEF Doing, Effect
    <2>2. QED
      BY <1>5, <2>1
  <1>8. QED
    BY <1>6, <1>7

LEMMA Typing == IInv => TypeOK
  <1> SUFFICES ASSUME IInv PROVE TypeOK
    OBVIOUS
  <1>1. PICK g \in [Threads -> Standings] : GInv(g)
    BY DEF IInv
  <1>2. Typed
    BY <1>1 DEF GInv
  <1>3. ASSUME NEW l \in Locks
        PROVE  holder[l] \subseteq Threads /\ Cardinality(holder[l]) <= 1
    <2>1. holder[l] \subseteq Threads /\ (holder[l] = {} \/ \E u \in Threads : holder[l] = {u})
      BY <1>2 DEF Typed
    <2>2. Cardinality(holder[l]) \in {0, 1}
      BY <2>1, FS_EmptySet, FS_Singleton
    <2>3. QED
      BY <2>1, <2>2
  <1>4. announced => holder[GateLock] # {}
    BY <1>1 DEF GInv, Announcer
  <1>5. QED
    BY <1>2, <1>3, <1>4 DEF Typed, TypeOK

LEMMA Quiescence == IInv => Quiesced
  <1> SUFFICES ASSUME IInv, NEW t \in alive, Doing(t, "fork")
               PROVE  IF held THEN (\A l \in Locks : holder[l] = {t}) /\ reading = {}
                      ELSE Holds(t) = {}
    BY DEF Quiesced
  <1>1. PICK g \in [Threads -> Standings] : GInv(g)
    BY DEF IInv
  <1>2. t \in Threads /\ ~Doing(t, "reinit")
    BY <1>1 DEF GInv, Typed, Doing
  <1>3. InWindow(g[t])
    BY <1>1, <1>2, WindowGuarded
  <1>4. (g[t].fork = "all held" => held) /\ (g[t].fork = "none held" => ~held)
    BY <1>1 DEF GInv, Forks
  <1>5. /\ \A l \in Locks : holder[l] = {t} <=> l \in g[t].locks
        /\ t \in reading <=> g[t].reads
    BY <1>1 DEF GInv, Agrees
  <1>6. CASE held
    <2>1. g[t].locks = Locks /\ g[t].gate = "drained"
      BY <1>3, <1>4, <1>6 DEF InWindow, IsAt
    <2>2. QED
      BY <1>1, <1>5, <1>6, <2>1 DEF GInv, GateIs
  <1>7. CASE ~held
    <2>1. g[t].locks = {} /\ ~g[t].reads
      BY <1>3, <1>4, <1>7 DEF InWindow, IsAt
    <2>2. QED
      BY <1>5, <1>7, <2>1 DEF Holds
  <1>8. QED
    BY <1>6, <1>7

LEMMA NothingLeft == IInv => NothingLeftLocked
  <1> SUFFICES ASSUME IInv PROVE NothingLeftLocked
    OBVIOUS
  <1>1. PICK g \in [Threads -> Standings] : GInv(g)
    BY DEF IInv
  <1>2. ASSUME NEW t \in alive, todo[t] = <<>>
        PROVE  g[t] = AtRest
    BY <1>1, <1>2, RestOnly DEF GInv, Typed, Leading
  <1>3. ASSUME NEW t \in alive, todo[t] = <<>>
        PROVE  t \notin reading /\ \A l \in Locks : holder[l] # {t}
    BY <1>1, <1>2, <1>3, RestIs DEF IsAt, GInv, Agrees
  <1>4. ASSUME Resting
        PROVE  reading = {} /\ ~announced /\ \A l \in Locks : holder[l] = {}
    <2>1. \A t \in alive : g[t].fork = "no" /\ t \notin reading
                           /\ \A l \in Locks : holder[l] # {t}
      BY <1>2, <1>3, <1>4, RestIs DEF Resting, IsAt
    <2>2. reading \subseteq alive /\ \A l \in Locks : holder[l] \subseteq alive
      BY <1>1, <2>1 DEF GInv, Orphans
    <2>3. reading = {}
      BY <2>1, <2>2
    <2>4. ASSUME NEW l \in Locks
          PROVE  holder[l] = {}
      <3>1. holder[l] = {} \/ \E u \in Threads : holder[l] = {u}
        BY <1>1 DEF GInv, Typed
      <3>2. QED
        BY <2>1, <2>2, <3>1
    <2>5. ~announced
      BY <1>1, <2>4, AreLocks DEF GInv, Announcer
    <2>6. QED
      BY <2>3, <2>4, <2>5
  <1>5. QED
    BY <1>3, <1>4 DEF NothingLeftLocked, Holds

\* order.rs: no thread ever waits, for a lock or at the gate, while it holds
\* something that comes later in the order, so no threads wait for each other
\* in a circle: in any operation, giving up, forking or allocating in the window.
THEOREM LocksAreOrdered == Spec => []Ordered
  BY Invariance, Ordering, PTL

\* fork_prepare, fork_parent, fork_child and every other operation: a fork that
\* reports the locks held is made in quiet, one that gave up holds nothing, and
\* whichever way an operation ends, it has given back what it took, also in a
\* child whose parent had threads in the middle of everything.
THEOREM OperationsGiveBack == Spec => []GivenBack
  <1>1. IInv => GivenBack
    BY Typing, Quiescence, NothingLeft DEF GivenBack
  <1>2. QED
    BY <1>1, Invariance, PTL
=============================================================================
