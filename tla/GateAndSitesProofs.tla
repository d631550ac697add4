------------------------- MODULE GateAndSitesProofs -------------------------
(***************************************************************************)
(* What Gate.tla and Sites.tla promise, proved for any number of threads,  *)
(* rows and regions.                                                       *)
(*                                                                         *)
(* The gate.  GateInv says who may be inside, who holds the RawLock and    *)
(* for whom the flag stands; the exclusion of readers and writers and the  *)
(* refinement of the abstract reader-writer gate follow from it.           *)
(*                                                                         *)
(* The rows of threads and regions, whose recorders pass such a gate.      *)
(* IInv is made of what a recorder still has to do: an event underway has  *)
(* the rows of one site before it (Underway), which have records (Placed), *)
(* and rows without a record hold nothing (Empty).  A row holds at least   *)
(* the live blocks of its site and what is still to be taken from it or    *)
(* is given next (Holdings), so no counter goes below zero.  The rows of a *)
(* kind add up to the totals, less what is due (Books).  A maximum short   *)
(* of what its row held is about to be raised (Peaks).  The guards of a    *)
(* region are as many as it is open (GuardsKept).  A visit with the gate   *)
(* to itself has summed the rows behind it (ReaderSums), and a name it     *)
(* reads is settled (ReaderNames, from Owned and NamesKept).               *)
(***************************************************************************)
EXTENDS Gate, Sites, Sums, SequenceTheorems

-----------------------------------------------------------------------------
(* The peak gate *)

GateInv == GateTypeOK /\ CountIsReaders /\ OwnerIsHolder /\ FlagIsWriter /\ Exclusion

\* The readers are finitely many, and counting them stays within the threads.
LEMMA ReadingIsFinite ==
    /\ IsFiniteSet(Reading)
    /\ Cardinality(Reading) \in 0..Cardinality(Threads)
    /\ Cardinality(Reading) = 0 <=> Reading = {}
<1>1. Reading \subseteq Threads
    BY DEF Reading
<1>2. IsFiniteSet(Reading) /\ Cardinality(Reading) <= Cardinality(Threads)
    BY <1>1, ThreadsAssumption, FS_Subset
<1>3. Cardinality(Reading) \in Nat /\ Cardinality(Threads) \in Nat
    BY <1>2, ThreadsAssumption, FS_CardinalityType
<1>4. Cardinality(Reading) = 0 <=> Reading = {}
    BY <1>2, FS_EmptySet
<1> QED
    BY <1>2, <1>3, <1>4

\* A thread enters the shared section, or leaves it: the count moves by one.
LEMMA OneMoreReader ==
    ASSUME NEW t \in Threads, t \notin Reading
    PROVE  Cardinality(Reading \cup {t}) = Cardinality(Reading) + 1
BY ReadingIsFinite, FS_AddElement

LEMMA OneReaderLess ==
    ASSUME NEW t \in Reading
    PROVE  Cardinality(Reading \ {t}) = Cardinality(Reading) - 1
BY ReadingIsFinite, FS_RemoveElement

\* Initially nobody is inside.
LEMMA GateInvInit == GateInit => GateInv
<1> SUFFICES ASSUME GateInit PROVE GateInv
    OBVIOUS
<1>1. Reading = {} /\ Exclusive = {}
    BY ThreadsAssumption DEF GateInit, Reading, Exclusive, HoldsExclusive, GotGate, At
<1>2. Cardinality(Reading) = 0 /\ 0 \in 0..Cardinality(Threads)
    BY <1>1, ReadingIsFinite, ThreadsAssumption, FS_CardinalityType
<1>3. GateTypeOK
    BY <1>2 DEF GateInit, GateTypeOK, PCs, Modes
<1>4. CountIsReaders
    BY <1>2 DEF GateInit, CountIsReaders
<1>5. OwnerIsHolder /\ FlagIsWriter /\ Exclusion
    BY ThreadsAssumption
    DEF GateInit, OwnerIsHolder, LockHeld, FlagIsWriter, Flagging, Exclusion, HoldsExclusive, GotGate, At
<1> QED
    BY <1>3, <1>4, <1>5 DEF GateInv

\* Every step keeps the invariant.  The exclusion is disturbed at two places:
\* a reader enters, and finds the flag down, so nobody holds the gate
\* exclusively; a writer enters, and finds the count at 0, so nobody reads.
LEMMA GateInvNext == GateInv /\ [GateNext]_gateVars => GateInv'
<1> SUFFICES ASSUME GateInv, [GateNext]_gateVars PROVE GateInv'
    OBVIOUS
<1> USE DEF GateInv, Go, At
<1>0. Cardinality(Threads) \in Nat
    BY ThreadsAssumption, FS_CardinalityType
<1>1. ASSUME NEW t \in Threads, StartRead(t) PROVE GateInv'
    <2>1. Reading' = Reading
        BY <1>1 DEF StartRead, Reading, GateTypeOK
    <2>2. GateTypeOK' /\ CountIsReaders'
        BY <1>1, <2>1, ThreadsAssumption DEF StartRead, GateTypeOK, PCs, Modes, CountIsReaders
    <2>3. OwnerIsHolder' /\ FlagIsWriter'
        BY <1>1, ThreadsAssumption
        DEF StartRead, GateTypeOK, OwnerIsHolder, LockHeld, FlagIsWriter, Flagging, GotGate
    <2>4. Exclusion'
        BY <1>1, <2>1, ThreadsAssumption, ReadingIsFinite
        DEF StartRead, GateTypeOK, CountIsReaders, OwnerIsHolder, LockHeld, FlagIsWriter, Flagging,
            Exclusion, Exclusive, HoldsExclusive, GotGate
    <2> QED
        BY <2>2, <2>3, <2>4
<1>2. ASSUME NEW t \in Threads, ReadLoad(t) PROVE GateInv'
    <2>1. Reading' = Reading
        BY <1>2 DEF ReadLoad, Reading, GateTypeOK
    <2>2. GateTypeOK' /\ CountIsReaders'
        BY <1>2, <2>1, <1>0, ThreadsAssumption DEF ReadLoad, GateTypeOK, PCs, Modes, CountIsReaders
    <2>3. OwnerIsHolder' /\ FlagIsWriter'
        BY <1>2, ThreadsAssumption
        DEF ReadLoad, GateTypeOK, OwnerIsHolder, LockHeld, FlagIsWriter, Flagging, GotGate
    <2>4. Exclusion'
        BY <1>2, <2>1, ThreadsAssumption, ReadingIsFinite
        DEF ReadLoad, GateTypeOK, CountIsReaders, OwnerIsHolder, LockHeld, FlagIsWriter, Flagging,
            Exclusion, Exclusive, HoldsExclusive, GotGate
    <2> QED
        BY <2>2, <2>3, <2>4
<1>3. ASSUME NEW t \in Threads, ReadRetry(t) PROVE GateInv'
    <2>1. Reading' = Reading
        BY <1>3 DEF ReadRetry, Reading, GateTypeOK
    <2>2. GateTypeOK' /\ CountIsReaders'
        BY <1>3, <2>1, <1>0, ThreadsAssumption DEF ReadRetry, GateTypeOK, PCs, Modes, CountIsReaders
    <2>3. OwnerIsHolder' /\ FlagIsWriter'
        BY <1>3, ThreadsAssumption
        DEF ReadRetry, GateTypeOK, OwnerIsHolder, LockHeld, FlagIsWriter, Flagging, GotGate
    <2>4. Exclusion'
        BY <1>3, <2>1, ThreadsAssumption, ReadingIsFinite
        DEF ReadRetry, GateTypeOK, CountIsReaders, OwnerIsHolder, LockHeld, FlagIsWriter, Flagging,
            Exclusion, Exclusive, HoldsExclusive, GotGate
    <2> QED
        BY <2>2, <2>3, <2>4
<1>4. ASSUME NEW t \in Threads, ReadWait(t) PROVE GateInv'
    <2>1. Reading' = Reading
        BY <1>4 DEF ReadWait, Reading, GateTypeOK
    <2>2. GateTypeOK' /\ CountIsReaders'
        BY <1>4, <2>1, ThreadsAssumption DEF ReadWait, GateTypeOK, PCs, Modes, CountIsReaders
    <2>3. OwnerIsHolder' /\ FlagIsWriter'
        BY <1>4, ThreadsAssumption
        DEF ReadWait, GateTypeOK, OwnerIsHolder, LockHeld, FlagIsWriter, Flagging, GotGate
    <2>4. Exclusion'
        BY <1>4, <2>1, ThreadsAssumption, ReadingIsFinite
        DEF ReadWait, GateTypeOK, CountIsReaders, OwnerIsHolder, LockHeld, FlagIsWriter, Flagging,
            Exclusion, Exclusive, HoldsExclusive, GotGate
    <2> QED
        BY <2>2, <2>3, <2>4
<1>5. ASSUME NEW t \in Threads, ReadWake(t) PROVE GateInv'
    <2>1. Reading' = Reading
        BY <1>5 DEF ReadWake, Reading, GateTypeOK
    <2>2. GateTypeOK' /\ CountIsReaders'
        BY <1>5, <2>1, ThreadsAssumption DEF ReadWake, GateTypeOK, PCs, Modes, CountIsReaders
    <2>3. OwnerIsHolder' /\ FlagIsWriter'
        BY <1>5, ThreadsAssumption
        DEF ReadWake, GateTypeOK, OwnerIsHolder, LockHeld, FlagIsWriter, Flagging, GotGate
    <2>4. Exclusion'
        BY <1>5, <2>1, ThreadsAssumption, ReadingIsFinite
        DEF ReadWake, GateTypeOK, CountIsReaders, OwnerIsHolder, LockHeld, FlagIsWriter, Flagging,
            Exclusion, Exclusive, HoldsExclusive, GotGate
    <2> QED
        BY <2>2, <2>3, <2>4
<1>6. ASSUME NEW t \in Threads, StartWrite(t) PROVE GateInv'
    <2>1. Reading' = Reading
        BY <1>6 DEF StartWrite, Reading, GateTypeOK
    <2>2. GateTypeOK' /\ CountIsReaders'
        BY <1>6, <2>1, ThreadsAssumption DEF StartWrite, GateTypeOK, PCs, Modes, CountIsReaders
    <2>3. OwnerIsHolder' /\ FlagIsWriter'
        BY <1>6, ThreadsAssumption
        DEF StartWrite, GateTypeOK, OwnerIsHolder, LockHeld, FlagIsWriter, Flagging, GotGate
    <2>4. Exclusion'
        BY <1>6, <2>1, ThreadsAssumption, ReadingIsFinite
        DEF StartWrite, GateTypeOK, CountIsReaders, OwnerIsHolder, LockHeld, FlagIsWriter, Flagging,
            Exclusion, Exclusive, HoldsExclusive, GotGate
    <2> QED
        BY <2>2, <2>3, <2>4
<1>7. ASSUME NEW t \in Threads, WriteLock(t) PROVE GateInv'
    <2>1. Reading' = Reading
        BY <1>7 DEF WriteLock, Reading, GateTypeOK
    <2>2. GateTypeOK' /\ CountIsReaders'
        BY <1>7, <2>1, ThreadsAssumption DEF WriteLock, GateTypeOK, PCs, Modes, CountIsReaders
    <2>3. OwnerIsHolder' /\ FlagIsWriter'
        BY <1>7, ThreadsAssumption
        DEF WriteLock, GateTypeOK, OwnerIsHolder, LockHeld, FlagIsWriter, Flagging, GotGate
    <2>4. Exclusion'
        BY <1>7, <2>1, ThreadsAssumption, ReadingIsFinite
        DEF WriteLock, GateTypeOK, CountIsReaders, OwnerIsHolder, LockHeld, FlagIsWriter, Flagging,
            Exclusion, Exclusive, HoldsExclusive, GotGate
    <2> QED
        BY <2>2, <2>3, <2>4
<1>8. ASSUME NEW t \in Threads, WriteLockTimeout(t) PROVE GateInv'
    <2>1. Reading' = Reading
        BY <1>8 DEF WriteLockTimeout, Reading, GateTypeOK
    <2>2. GateTypeOK' /\ CountIsReaders'
        BY <1>8, <2>1, ThreadsAssumption DEF WriteLockTimeout, GateTypeOK, PCs, Modes, CountIsReaders
    <2>3. OwnerIsHolder' /\ FlagIsWriter'
        BY <1>8, ThreadsAssumption
        DEF WriteLockTimeout, GateTypeOK, OwnerIsHolder, LockHeld, FlagIsWriter, Flagging, GotGate
    <2>4. Exclusion'
        BY <1>8, <2>1, ThreadsAssumption, ReadingIsFinite
        DEF WriteLockTimeout, GateTypeOK, CountIsReaders, OwnerIsHolder, LockHeld, FlagIsWriter, Flagging,
            Exclusion, Exclusive, HoldsExclusive, GotGate
    <2> QED
        BY <2>2, <2>3, <2>4
<1>9. ASSUME NEW t \in Threads, WriteFlag(t) PROVE GateInv'
    <2>1. Reading' = Reading
        BY <1>9 DEF WriteFlag, Reading, GateTypeOK
    <2>2. GateTypeOK' /\ CountIsReaders'
        BY <1>9, <2>1, ThreadsAssumption DEF WriteFlag, GateTypeOK, PCs, Modes, CountIsReaders
    <2>3. OwnerIsHolder' /\ FlagIsWriter'
        BY <1>9, ThreadsAssumption
        DEF WriteFlag, GateTypeOK, OwnerIsHolder, LockHeld, FlagIsWriter, Flagging, GotGate
    <2>4. Exclusion'
        BY <1>9, <2>1, ThreadsAssumption, ReadingIsFinite
        DEF WriteFlag, GateTypeOK, CountIsReaders, OwnerIsHolder, LockHeld, FlagIsWriter, Flagging,
            Exclusion, Exclusive, HoldsExclusive, GotGate
    <2> QED
        BY <2>2, <2>3, <2>4
<1>10. ASSUME NEW t \in Threads, WriteEnter(t) PROVE GateInv'
    <2>1. Reading' = Reading
        BY <1>10 DEF WriteEnter, Reading, GateTypeOK
    <2>2. GateTypeOK' /\ CountIsReaders'
        BY <1>10, <2>1, ThreadsAssumption DEF WriteEnter, GateTypeOK, PCs, Modes, CountIsReaders
    <2>3. OwnerIsHolder' /\ FlagIsWriter'
        BY <1>10, ThreadsAssumption
        DEF WriteEnter, GateTypeOK, OwnerIsHolder, LockHeld, FlagIsWriter, Flagging, GotGate
    <2>4. Exclusion'
        BY <1>10, <2>1, ThreadsAssumption, ReadingIsFinite
        DEF WriteEnter, GateTypeOK, CountIsReaders, OwnerIsHolder, LockHeld, FlagIsWriter, Flagging,
            Exclusion, Exclusive, HoldsExclusive, GotGate
    <2> QED
        BY <2>2, <2>3, <2>4
<1>11. ASSUME NEW t \in Threads, WriteDrainTimeout(t) PROVE GateInv'
    <2>1. Reading' = Reading
        BY <1>11 DEF WriteDrainTimeout, Reading, GateTypeOK
    <2>2. GateTypeOK' /\ CountIsReaders'
        BY <1>11, <2>1, ThreadsAssumption DEF WriteDrainTimeout, GateTypeOK, PCs, Modes, CountIsReaders
    <2>3. OwnerIsHolder' /\ FlagIsWriter'
        BY <1>11, ThreadsAssumption
        DEF WriteDrainTimeout, GateTypeOK, OwnerIsHolder, LockHeld, FlagIsWriter, Flagging, GotGate
    <2>4. Exclusion'
        BY <1>11, <2>1, ThreadsAssumption, ReadingIsFinite
        DEF WriteDrainTimeout, GateTypeOK, CountIsReaders, OwnerIsHolder, LockHeld, FlagIsWriter, Flagging,
            Exclusion, Exclusive, HoldsExclusive, GotGate
    <2> QED
        BY <2>2, <2>3, <2>4
<1>12. ASSUME NEW t \in Threads, WriteWithdraw(t) PROVE GateInv'
    <2>1. Reading' = Reading
        BY <1>12 DEF WriteWithdraw, Reading, GateTypeOK
    <2>2. GateTypeOK' /\ CountIsReaders'
        BY <1>12, <2>1, ThreadsAssumption DEF WriteWithdraw, GateTypeOK, PCs, Modes, CountIsReaders
    <2>3. OwnerIsHolder' /\ FlagIsWriter'
        BY <1>12, ThreadsAssumption
        DEF WriteWithdraw, GateTypeOK, OwnerIsHolder, LockHeld, FlagIsWriter, Flagging, GotGate
    <2>4. Exclusion'
        BY <1>12, <2>1, ThreadsAssumption, ReadingIsFinite
        DEF WriteWithdraw, GateTypeOK, CountIsReaders, OwnerIsHolder, LockHeld, FlagIsWriter, Flagging,
            Exclusion, Exclusive, HoldsExclusive, GotGate
    <2> QED
        BY <2>2, <2>3, <2>4
<1>13. ASSUME NEW t \in Threads, WriteLeave(t) PROVE GateInv'
    <2>1. Reading' = Reading
        BY <1>13 DEF WriteLeave, Reading, GateTypeOK
    <2>2. GateTypeOK' /\ CountIsReaders'
        BY <1>13, <2>1, ThreadsAssumption DEF WriteLeave, GateTypeOK, PCs, Modes, CountIsReaders
    <2>3. OwnerIsHolder' /\ FlagIsWriter'
        BY <1>13, ThreadsAssumption
        DEF WriteLeave, GateTypeOK, OwnerIsHolder, LockHeld, FlagIsWriter, Flagging, GotGate
    <2>4. Exclusion'
        BY <1>13, <2>1, ThreadsAssumption, ReadingIsFinite
        DEF WriteLeave, GateTypeOK, CountIsReaders, OwnerIsHolder, LockHeld, FlagIsWriter, Flagging,
            Exclusion, Exclusive, HoldsExclusive, GotGate
    <2> QED
        BY <2>2, <2>3, <2>4
<1>14. ASSUME NEW t \in Threads, WriteUnlock(t) PROVE GateInv'
    <2>1. Reading' = Reading
        BY <1>14 DEF WriteUnlock, Reading, GateTypeOK
    <2>2. GateTypeOK' /\ CountIsReaders'
        BY <1>14, <2>1, ThreadsAssumption DEF WriteUnlock, GateTypeOK, PCs, Modes, CountIsReaders
    <2>3. OwnerIsHolder' /\ FlagIsWriter'
        BY <1>14, ThreadsAssumption
        DEF WriteUnlock, GateTypeOK, OwnerIsHolder, LockHeld, FlagIsWriter, Flagging, GotGate
    <2>4. Exclusion'
        BY <1>14, <2>1, ThreadsAssumption, ReadingIsFinite
        DEF WriteUnlock, GateTypeOK, CountIsReaders, OwnerIsHolder, LockHeld, FlagIsWriter, Flagging,
            Exclusion, Exclusive, HoldsExclusive, GotGate
    <2> QED
        BY <2>2, <2>3, <2>4
<1>15. ASSUME NEW t \in Threads, ForkParent(t) PROVE GateInv'
    <2>1. Reading' = Reading
        BY <1>15 DEF ForkParent, Reading, GateTypeOK, GotGate
    <2>2. GateTypeOK' /\ CountIsReaders'
        BY <1>15, <2>1, ThreadsAssumption DEF ForkParent, GateTypeOK, PCs, Modes, CountIsReaders
    <2>3. OwnerIsHolder' /\ FlagIsWriter'
        BY <1>15, ThreadsAssumption
        DEF ForkParent, GateTypeOK, OwnerIsHolder, LockHeld, FlagIsWriter, Flagging, GotGate
    <2>4. Exclusion'
        BY <1>15, <2>1, ThreadsAssumption, ReadingIsFinite
        DEF ForkParent, GateTypeOK, CountIsReaders, OwnerIsHolder, LockHeld, FlagIsWriter, Flagging,
            Exclusion, Exclusive, HoldsExclusive, GotGate
    <2> QED
        BY <2>2, <2>3, <2>4
<1>16. ASSUME NEW t \in Threads, ForkParentWithout(t) PROVE GateInv'
    <2>1. Reading' = Reading
        BY <1>16 DEF ForkParentWithout, Reading, GateTypeOK
    <2>2. GateTypeOK' /\ CountIsReaders'
        BY <1>16, <2>1, ThreadsAssumption DEF ForkParentWithout, GateTypeOK, PCs, Modes, CountIsReaders
    <2>3. OwnerIsHolder' /\ FlagIsWriter'
        BY <1>16, ThreadsAssumption
        DEF ForkParentWithout, GateTypeOK, OwnerIsHolder, LockHeld, FlagIsWriter, Flagging, GotGate
    <2>4. Exclusion'
        BY <1>16, <2>1, ThreadsAssumption, ReadingIsFinite
        DEF ForkParentWithout, GateTypeOK, CountIsReaders, OwnerIsHolder, LockHeld, FlagIsWriter, Flagging,
            Exclusion, Exclusive, HoldsExclusive, GotGate
    <2> QED
        BY <2>2, <2>3, <2>4
<1>17. ASSUME NEW t \in Threads, Spawn(t) PROVE GateInv'
    <2>1. Reading' = Reading
        BY <1>17 DEF Spawn, Reading, GateTypeOK
    <2>2. GateTypeOK' /\ CountIsReaders'
        BY <1>17, <2>1, ThreadsAssumption DEF Spawn, GateTypeOK, PCs, Modes, CountIsReaders
    <2>3. OwnerIsHolder' /\ FlagIsWriter'
        BY <1>17, ThreadsAssumption
        DEF Spawn, GateTypeOK, OwnerIsHolder, LockHeld, FlagIsWriter, Flagging, GotGate
    <2>4. Exclusion'
        BY <1>17, <2>1, ThreadsAssumption, ReadingIsFinite
        DEF Spawn, GateTypeOK, CountIsReaders, OwnerIsHolder, LockHeld, FlagIsWriter, Flagging,
            Exclusion, Exclusive, HoldsExclusive, GotGate
    <2> QED
        BY <2>2, <2>3, <2>4
<1>18. ASSUME NEW t \in Threads, ReadEnter(t) PROVE GateInv'
    <2>1. Reading' = Reading \cup {t}
        BY <1>18 DEF ReadEnter, Reading, GateTypeOK
    <2>2. inside' = Cardinality(Reading')
        BY <1>18, <2>1, OneMoreReader DEF ReadEnter, Reading, GateTypeOK, CountIsReaders
    <2>3. inside' \in 0..Cardinality(Threads)
        <3>1. IsFiniteSet(Threads) /\ Reading' \subseteq Threads
            BY ThreadsAssumption DEF Reading
        <3> QED
            BY <3>1, <2>2, <1>0, FS_Subset, FS_CardinalityType
    <2>4. GateTypeOK' /\ CountIsReaders'
        BY <1>18, <2>2, <2>3, <1>0 DEF ReadEnter, GateTypeOK, PCs, Modes, CountIsReaders
    <2>5. OwnerIsHolder' /\ FlagIsWriter'
        BY <1>18, ThreadsAssumption
        DEF ReadEnter, GateTypeOK, OwnerIsHolder, LockHeld, FlagIsWriter, Flagging, GotGate
    <2>6. Exclusion'
        BY <1>18, <2>1, ThreadsAssumption
        DEF ReadEnter, GateTypeOK, CountIsReaders, OwnerIsHolder, LockHeld, FlagIsWriter, Flagging,
            Exclusion, Exclusive, HoldsExclusive, GotGate
    <2> QED
        BY <2>4, <2>5, <2>6
<1>19. ASSUME NEW t \in Threads, ReadLeave(t) PROVE GateInv'
    <2>1. Reading' = Reading \ {t}
        BY <1>19 DEF ReadLeave, Reading, GateTypeOK
    <2>2. inside' = Cardinality(Reading')
        BY <1>19, <2>1, OneReaderLess DEF ReadLeave, Reading, GateTypeOK, CountIsReaders
    <2>3. inside' \in 0..Cardinality(Threads)
        <3>1. IsFiniteSet(Threads) /\ Reading' \subseteq Threads
            BY ThreadsAssumption DEF Reading
        <3> QED
            BY <3>1, <2>2, <1>0, FS_Subset, FS_CardinalityType
    <2>4. GateTypeOK' /\ CountIsReaders'
        BY <1>19, <2>2, <2>3, <1>0 DEF ReadLeave, GateTypeOK, PCs, Modes, CountIsReaders
    <2>5. OwnerIsHolder' /\ FlagIsWriter'
        BY <1>19, ThreadsAssumption
        DEF ReadLeave, GateTypeOK, OwnerIsHolder, LockHeld, FlagIsWriter, Flagging, GotGate
    <2>6. Exclusion'
        BY <1>19, <2>1, ThreadsAssumption
        DEF ReadLeave, GateTypeOK, CountIsReaders, OwnerIsHolder, LockHeld, FlagIsWriter, Flagging,
            Exclusion, Exclusive, HoldsExclusive, GotGate
    <2> QED
        BY <2>4, <2>5, <2>6
<1>20. ASSUME NEW t \in Threads, ForkChild(t) PROVE GateInv'
    <2>1. Reading' = {}
        BY <1>20 DEF ForkChild, Reading, GateTypeOK
    <2>2. inside' = Cardinality(Reading')
        BY <1>20, <2>1, FS_EmptySet DEF ForkChild, Reading, GateTypeOK, CountIsReaders
    <2>3. inside' \in 0..Cardinality(Threads)
        <3>1. IsFiniteSet(Threads) /\ Reading' \subseteq Threads
            BY ThreadsAssumption DEF Reading
        <3> QED
            BY <3>1, <2>2, <1>0, FS_Subset, FS_CardinalityType
    <2>4. GateTypeOK' /\ CountIsReaders'
        BY <1>20, <2>2, <2>3, <1>0 DEF ForkChild, GateTypeOK, PCs, Modes, CountIsReaders
    <2>5. OwnerIsHolder' /\ FlagIsWriter'
        BY <1>20, ThreadsAssumption
        DEF ForkChild, GateTypeOK, OwnerIsHolder, LockHeld, FlagIsWriter, Flagging, GotGate
    <2>6. Exclusion'
        BY <1>20, <2>1, ThreadsAssumption
        DEF ForkChild, GateTypeOK, CountIsReaders, OwnerIsHolder, LockHeld, FlagIsWriter, Flagging,
            Exclusion, Exclusive, HoldsExclusive, GotGate
    <2> QED
        BY <2>4, <2>5, <2>6
<1>21. CASE UNCHANGED gateVars
    BY <1>21 DEF gateVars, GateTypeOK, CountIsReaders, Reading, OwnerIsHolder, LockHeld,
        FlagIsWriter, Flagging, Exclusion, Exclusive, HoldsExclusive, GotGate
<1> QED
    BY <1>1, <1>2, <1>3, <1>4, <1>5, <1>6, <1>7, <1>8, <1>9, <1>10, <1>11, <1>12, <1>13, <1>14, <1>15, <1>16, <1>17, <1>18, <1>19, <1>20, <1>21
    DEF GateNext, ReadStep, WriteStep, ForkStep

\* The variables keep their types, for any finite set of threads.
THEOREM GateTypes == GateSpec => []GateTypeOK
<1>1. GateInv => GateTypeOK
    BY DEF GateInv
<1> QED
    BY GateInvInit, GateInvNext, <1>1, PTL DEF GateSpec

\* The word counts the threads inside, the RawLock is held by a thread that
\* has taken it and not given it back, and the flag stands for such a thread.
THEOREM GateWordIsExact == GateSpec => []WordIsExact
<1>1. GateInv => WordIsExact
    BY DEF GateInv, WordIsExact
<1> QED
    BY GateInvInit, GateInvNext, <1>1, PTL DEF GateSpec

\* A thread that holds the gate exclusively, a forking one included, is alone.
THEOREM GateExcludes == GateSpec => []Exclusion
<1>1. GateInv => Exclusion
    BY DEF GateInv
<1> QED
    BY GateInvInit, GateInvNext, <1>1, PTL DEF GateSpec

\* With no thread inside, the gate is open.
THEOREM QuiescentGateIsOpen == GateSpec => []QuiescentOpen
<1>1. GateInv => QuiescentOpen
    <2> SUFFICES ASSUME GateInv, \A t \in Threads : place[t] \in {"idle", "gone"}
                 PROVE  inside = 0 /\ ~flag /\ owner = NoThread
        BY DEF QuiescentOpen
    <2>1. Reading = {}
        BY DEF Reading, At
    <2>2. inside = 0
        BY <2>1, ReadingIsFinite DEF GateInv, CountIsReaders
    <2>3. ~flag
        BY DEF GateInv, FlagIsWriter, Flagging, GotGate, At
    <2>4. owner = NoThread
        BY DEF GateInv, GateTypeOK, OwnerIsHolder, LockHeld, At
    <2> QED
        BY <2>2, <2>3, <2>4
<1> QED
    BY GateInvInit, GateInvNext, <1>1, PTL DEF GateSpec

\* The three together: the word is exact and a gate nobody is in is open.
THEOREM GateIsSound == GateSpec => []Sound
<1>1. GateTypeOK /\ WordIsExact /\ QuiescentOpen => Sound
    BY DEF Sound
<1> QED
    BY <1>1, GateTypes, GateWordIsExact, QuiescentGateIsOpen, PTL

\* Once the intent is up and stays up, no reader gets in: the drain of
\* Gate::write only ever sees the count fall.
THEOREM DrainFalls == GateSpec => DrainOnlyFalls
<1>1. GateInv /\ [GateNext]_gateVars => [flag /\ flag' => inside' <= inside]_gateVars
    <2> SUFFICES ASSUME GateInv, GateNext, flag, flag' PROVE inside' <= inside
        BY DEF gateVars
    <2>1. inside \in Int
        BY DEF GateInv, GateTypeOK
    <2> QED
        BY <2>1 DEF GateNext, ReadStep, WriteStep, ForkStep, StartRead, StartWrite, Spawn,
            ReadLoad, ReadEnter, ReadRetry, ReadWait, ReadWake, ReadLeave,
            WriteLock, WriteLockTimeout, WriteFlag, WriteEnter, WriteDrainTimeout,
            WriteWithdraw, WriteLeave, WriteUnlock, ForkParent, ForkParentWithout, ForkChild
<1> QED
    BY GateInvInit, GateInvNext, <1>1, PTL DEF GateSpec, DrainOnlyFalls

\* The exclusive holder of the abstract gate is the thread found inside.
LEMMA HolderIs ==
    /\ Exclusive = {} => Holder = NoThread
    /\ \A t \in Threads : Exclusive = {t} => Holder = t
<1>1. Exclusive \subseteq Threads
    BY DEF Exclusive
<1> QED
    BY <1>1 DEF Holder

\* Equal sets of holders give the same abstract writer.
LEMMA SameHolder == Exclusive' = Exclusive => Holder' = Holder
BY DEF Holder

\* The algorithm implements the reader-writer lock: the exchange acquires
\* shared, the end of the drain acquires exclusively, the clearing of the flag
\* releases, and everything else is invisible.
THEOREM GateImplementsRWGate == GateSpec => ImplementsRWGate
<1> USE DEF Go, At
<1>1. GateInit => RW!GateInit
    <2> SUFFICES ASSUME GateInit PROVE Reading = {} /\ Holder = NoThread
        BY DEF RW!GateInit
    <2>1. Reading = {} /\ Exclusive = {}
        BY ThreadsAssumption DEF GateInit, Reading, Exclusive, HoldsExclusive, GotGate
    <2> QED
        BY <2>1, HolderIs
<1>2. GateInv /\ [GateNext]_gateVars => [RW!GateNext]_(RW!gateVars)
    <2> SUFFICES ASSUME GateInv, [GateNext]_gateVars
                 PROVE  RW!GateNext \/ (Reading' = Reading /\ Holder' = Holder)
        BY DEF RW!gateVars
    <2> USE DEF GateInv
    <2>1. ASSUME NEW t \in Threads, StartRead(t)
          PROVE  Reading' = Reading /\ Holder' = Holder
        <3>1. Reading' = Reading /\ Exclusive' = Exclusive
            BY <2>1, ThreadsAssumption
            DEF StartRead, Reading, Exclusive, HoldsExclusive, GotGate, GateTypeOK, OwnerIsHolder, LockHeld
        <3> QED
            BY <3>1, SameHolder
    <2>2. ASSUME NEW t \in Threads, ReadLoad(t)
          PROVE  Reading' = Reading /\ Holder' = Holder
        <3>1. Reading' = Reading /\ Exclusive' = Exclusive
            BY <2>2, ThreadsAssumption
            DEF ReadLoad, Reading, Exclusive, HoldsExclusive, GotGate, GateTypeOK, OwnerIsHolder, LockHeld
        <3> QED
            BY <3>1, SameHolder
    <2>3. ASSUME NEW t \in Threads, ReadRetry(t)
          PROVE  Reading' = Reading /\ Holder' = Holder
        <3>1. Reading' = Reading /\ Exclusive' = Exclusive
            BY <2>3, ThreadsAssumption
            DEF ReadRetry, Reading, Exclusive, HoldsExclusive, GotGate, GateTypeOK, OwnerIsHolder, LockHeld
        <3> QED
            BY <3>1, SameHolder
    <2>4. ASSUME NEW t \in Threads, ReadWait(t)
          PROVE  Reading' = Reading /\ Holder' = Holder
        <3>1. Reading' = Reading /\ Exclusive' = Exclusive
            BY <2>4, ThreadsAssumption
            DEF ReadWait, Reading, Exclusive, HoldsExclusive, GotGate, GateTypeOK, OwnerIsHolder, LockHeld
        <3> QED
            BY <3>1, SameHolder
    <2>5. ASSUME NEW t \in Threads, ReadWake(t)
          PROVE  Reading' = Reading /\ Holder' = Holder
        <3>1. Reading' = Reading /\ Exclusive' = Exclusive
            BY <2>5, ThreadsAssumption
            DEF ReadWake, Reading, Exclusive, HoldsExclusive, GotGate, GateTypeOK, OwnerIsHolder, LockHeld
        <3> QED
            BY <3>1, SameHolder
    <2>6. ASSUME NEW t \in Threads, StartWrite(t)
          PROVE  Reading' = Reading /\ Holder' = Holder
        <3>1. Reading' = Reading /\ Exclusive' = Exclusive
            BY <2>6, ThreadsAssumption
            DEF StartWrite, Reading, Exclusive, HoldsExclusive, GotGate, GateTypeOK, OwnerIsHolder, LockHeld
        <3> QED
            BY <3>1, SameHolder
    <2>7. ASSUME NEW t \in Threads, WriteLock(t)
          PROVE  Reading' = Reading /\ Holder' = Holder
        <3>1. Reading' = Reading /\ Exclusive' = Exclusive
            BY <2>7, ThreadsAssumption
            DEF WriteLock, Reading, Exclusive, HoldsExclusive, GotGate, GateTypeOK, OwnerIsHolder, LockHeld
        <3> QED
            BY <3>1, SameHolder
    <2>8. ASSUME NEW t \in Threads, WriteLockTimeout(t)
          PROVE  Reading' = Reading /\ Holder' = Holder
        <3>1. Reading' = Reading /\ Exclusive' = Exclusive
            BY <2>8, ThreadsAssumption
            DEF WriteLockTimeout, Reading, Exclusive, HoldsExclusive, GotGate, GateTypeOK, OwnerIsHolder, LockHeld
        <3> QED
            BY <3>1, SameHolder
    <2>9. ASSUME NEW t \in Threads, WriteFlag(t)
          PROVE  Reading' = Reading /\ Holder' = Holder
        <3>1. Reading' = Reading /\ Exclusive' = Exclusive
            BY <2>9, ThreadsAssumption
            DEF WriteFlag, Reading, Exclusive, HoldsExclusive, GotGate, GateTypeOK, OwnerIsHolder, LockHeld
        <3> QED
            BY <3>1, SameHolder
    <2>10. ASSUME NEW t \in Threads, WriteDrainTimeout(t)
          PROVE  Reading' = Reading /\ Holder' = Holder
        <3>1. Reading' = Reading /\ Exclusive' = Exclusive
            BY <2>10, ThreadsAssumption
            DEF WriteDrainTimeout, Reading, Exclusive, HoldsExclusive, GotGate, GateTypeOK, OwnerIsHolder, LockHeld
        <3> QED
            BY <3>1, SameHolder
    <2>11. ASSUME NEW t \in Threads, WriteWithdraw(t)
          PROVE  Reading' = Reading /\ Holder' = Holder
        <3>1. Reading' = Reading /\ Exclusive' = Exclusive
            BY <2>11, ThreadsAssumption
            DEF WriteWithdraw, Reading, Exclusive, HoldsExclusive, GotGate, GateTypeOK, OwnerIsHolder, LockHeld
        <3> QED
            BY <3>1, SameHolder
    <2>12. ASSUME NEW t \in Threads, WriteUnlock(t)
          PROVE  Reading' = Reading /\ Holder' = Holder
        <3>1. Reading' = Reading /\ Exclusive' = Exclusive
            BY <2>12, ThreadsAssumption
            DEF WriteUnlock, Reading, Exclusive, HoldsExclusive, GotGate, GateTypeOK, OwnerIsHolder, LockHeld
        <3> QED
            BY <3>1, SameHolder
    <2>13. ASSUME NEW t \in Threads, ForkParentWithout(t)
          PROVE  Reading' = Reading /\ Holder' = Holder
        <3>1. Reading' = Reading /\ Exclusive' = Exclusive
            BY <2>13, ThreadsAssumption
            DEF ForkParentWithout, Reading, Exclusive, HoldsExclusive, GotGate, GateTypeOK, OwnerIsHolder, LockHeld
        <3> QED
            BY <3>1, SameHolder
    <2>14. ASSUME NEW t \in Threads, Spawn(t)
          PROVE  Reading' = Reading /\ Holder' = Holder
        <3>1. Reading' = Reading /\ Exclusive' = Exclusive
            BY <2>14, ThreadsAssumption
            DEF Spawn, Reading, Exclusive, HoldsExclusive, GotGate, GateTypeOK, OwnerIsHolder, LockHeld
        <3> QED
            BY <3>1, SameHolder
    <2>15. ASSUME NEW t \in Threads, ReadEnter(t) PROVE RW!GateNext
        <3>1. Reading' = Reading \cup {t} /\ t \notin Reading
            BY <2>15 DEF ReadEnter, Reading, GateTypeOK
        <3>2. Exclusive = {} /\ Exclusive' = {}
            BY <2>15 DEF ReadEnter, Exclusive, HoldsExclusive, GotGate, FlagIsWriter, Flagging, GateTypeOK
        <3> QED
            BY <3>1, <3>2, HolderIs, SameHolder DEF RW!GateNext, RW!AcquireShared
    <2>16. ASSUME NEW t \in Threads, ReadLeave(t) PROVE RW!GateNext
        <3>1. t \in Reading /\ Reading' = Reading \ {t}
            BY <2>16 DEF ReadLeave, Reading, GateTypeOK
        <3>2. Exclusive' = Exclusive
            BY <2>16 DEF ReadLeave, Exclusive, HoldsExclusive, GotGate, GateTypeOK
        <3> QED
            BY <3>1, <3>2, SameHolder DEF RW!GateNext, RW!ReleaseShared
    <2>17. ASSUME NEW t \in Threads, WriteEnter(t) PROVE RW!GateNext
        <3>1. Reading = {} /\ Reading' = {}
            BY <2>17, ReadingIsFinite DEF WriteEnter, Reading, GateTypeOK, CountIsReaders
        <3>2. Exclusive = {} /\ Exclusive' = {t}
            BY <2>17 DEF WriteEnter, Exclusive, HoldsExclusive, GotGate, OwnerIsHolder, LockHeld, GateTypeOK
        <3>3. Holder = NoThread /\ Holder' = t
            BY <3>2, HolderIs DEF Holder
        <3> QED
            BY <3>1, <3>3 DEF RW!GateNext, RW!AcquireExclusive
    <2>18. ASSUME NEW t \in Threads, WriteLeave(t) PROVE RW!GateNext
        <3>1. Reading' = Reading
            BY <2>18 DEF WriteLeave, Reading, GateTypeOK, GotGate
        <3>2. Exclusive = {t} /\ Exclusive' = {}
            BY <2>18 DEF WriteLeave, Exclusive, HoldsExclusive, GotGate, OwnerIsHolder, LockHeld, GateTypeOK
        <3>3. Holder = t /\ Holder' = NoThread
            BY <3>2, HolderIs DEF Holder
        <3> QED
            BY <3>1, <3>3 DEF RW!GateNext, RW!ReleaseExclusive
    <2>19. ASSUME NEW t \in Threads, ForkParent(t) PROVE RW!GateNext
        <3>1. Reading' = Reading
            BY <2>19 DEF ForkParent, Reading, GateTypeOK, GotGate
        <3>2. Exclusive = {t} /\ Exclusive' = {}
            BY <2>19 DEF ForkParent, Exclusive, HoldsExclusive, GotGate, OwnerIsHolder, LockHeld, GateTypeOK
        <3>3. Holder = t /\ Holder' = NoThread
            BY <3>2, HolderIs DEF Holder
        <3> QED
            BY <3>1, <3>3 DEF RW!GateNext, RW!ReleaseExclusive
    <2>20. ASSUME NEW t \in Threads, ForkChild(t) PROVE RW!GateNext
        <3>1. Reading' = {} /\ Exclusive' = {}
            BY <2>20, ThreadsAssumption DEF ForkChild, Reading, Exclusive, HoldsExclusive, GotGate
        <3>2. Holder' = NoThread
            BY <3>1 DEF Holder
        <3> QED
            BY <3>1, <3>2 DEF RW!GateNext, RW!ResetGate
    <2>21. CASE UNCHANGED gateVars
        BY <2>21 DEF gateVars, Reading, Holder, Exclusive, HoldsExclusive, GotGate
    <2> QED
        BY <2>1, <2>2, <2>3, <2>4, <2>5, <2>6, <2>7, <2>8, <2>9, <2>10, <2>11, <2>12, <2>13, <2>14, <2>15, <2>16, <2>17, <2>18, <2>19, <2>20, <2>21
        DEF GateNext, ReadStep, WriteStep, ForkStep
<1> QED
    BY <1>1, <1>2, GateInvInit, GateInvNext, PTL DEF GateSpec, ImplementsRWGate, RW!GateSpec

-----------------------------------------------------------------------------
(* Types: what a recorder knows depends on where it is *)

SiteIds == [thread : ThreadIds, region : RegionIds \cup {UNSET}]
Blocks  == [site : SiteIds, size : Sizes, born : Nat]
Gifts   == {{}} \cup {{b} : b \in Blocks}
Cells   == [bytes : Seq(Recorders), state : Nat]
Guards  == [id : RegionIds, previous : RegionIds \cup {UNSET}, nth : Nat]

Claiming   == [at : {"claim"}, count : 0..MAX_THREADS - 1]
Publishing == [at : {"publish"}, index : 0..MAX_THREADS - 1]
Naming     == [at : {"name"}]
Entering   == [at : {"enter", "activate"}, id : RegionIds]
Moving     == [at : {"curr", "max"}, rows : Seq(Rows) \ {<<>>}, total : Nat, delta : Int,
               gives : Gifts, now : Int]
Steps == {Idle} \cup Claiming \cup Publishing \cup Naming \cup Entering \cup Moving

Holds ==
    /\ tally \in [Rows -> [total : Nat, curr : Nat, max : Nat]]
    /\ totals \in [total : Int, curr : Int] /\ outside \in [total : Int, curr : Int]
    /\ top \in [Rows -> Nat]
    /\ live \subseteq Blocks /\ IsFiniteSet(live)
    /\ spent \in Nat

Known ==
    /\ count \in 0..MAX_THREADS /\ published \subseteq 0..count - 1
    /\ names \in [0..MAX_THREADS - 1 -> Cells]
    /\ thread \in [Recorders -> ThreadIds \cup {UNSET}]

Phases ==
    /\ regions \in Seq(Names) /\ Len(regions) <= MAX_REGIONS
    /\ entries \in [RegionIds -> Nat] /\ active \in [RegionIds -> Nat]
    /\ region \in [Recorders -> RegionIds \cup {UNSET}]
    /\ guards \in [Recorders -> SUBSET Guards]

Types == pc \in [Recorders -> Steps] /\ Holds /\ Known /\ Phases

-----------------------------------------------------------------------------
(* The constants, and places *)

LEMMA Constants ==
    /\ MAX_THREADS \in Nat /\ MAX_THREADS < OVERFLOW
    /\ MAX_REGIONS \in Nat /\ MAX_REGIONS < OVERFLOW
    /\ OVERFLOW \in Nat /\ UNSET \in Nat /\ OVERFLOW < UNSET
    /\ OVERFLOW \in RegionIds /\ OVERFLOW \in ThreadIds
    /\ UNSET \notin RegionIds /\ UNSET \notin ThreadIds
    /\ SETTLED \in Nat /\ NAME_ATTEMPTS \in Nat /\ 0 < NAME_ATTEMPTS /\ NAME_ATTEMPTS < SETTLED
    /\ Sizes \subseteq Nat /\ IsFiniteSet(Recorders)
<1>1. OVERFLOW \in Nat /\ UNSET \in Nat /\ OVERFLOW < UNSET /\ SETTLED \in Nat
    BY DEF OVERFLOW, UNSET, SETTLED
<1>2. MAX_THREADS \in Nat /\ MAX_THREADS < OVERFLOW
    BY <1>1, SitesAssumption
<1>3. MAX_REGIONS \in Nat /\ MAX_REGIONS < OVERFLOW
    BY <1>1, SitesAssumption
<1>4. NAME_ATTEMPTS \in Nat /\ 0 < NAME_ATTEMPTS /\ NAME_ATTEMPTS < SETTLED
    BY <1>1, SitesAssumption
<1>5. OVERFLOW \in RegionIds /\ UNSET \notin RegionIds
    BY <1>1, <1>3 DEF RegionIds
<1>6. OVERFLOW \in ThreadIds /\ UNSET \notin ThreadIds
    BY <1>1, <1>2 DEF ThreadIds
<1> QED
    BY <1>1, <1>2, <1>3, <1>4, <1>5, <1>6, SitesAssumption

\* What the place of a recorder says of its locals.
LEMMA Shapes ==
    ASSUME NEW s \in Steps
    PROVE  /\ s.at = "claim" => s \in Claiming
           /\ s.at = "publish" => s \in Publishing
           /\ s.at \in {"enter", "activate"} => s \in Entering
           /\ s.at \in {"curr", "max"} => s \in Moving
           /\ s.at = "idle" => s = Idle
BY DEF Steps, Idle, Claiming, Publishing, Naming, Entering, Moving

LEMMA TypesInit == Init => Types
<1> SUFFICES ASSUME Init PROVE Types
    OBVIOUS
<1>1. pc \in [Recorders -> Steps]
    BY DEF Init, Steps
<1>2. Holds
    <2>1. IsFiniteSet(live)
        BY FS_EmptySet DEF Init
    <2> QED
        BY <2>1 DEF Init, Holds, Zero
<1>3. Known
    BY Constants DEF Init, Known, Cells
<1>4. Phases
    BY Constants DEF Init, Phases
<1> QED
    BY <1>1, <1>2, <1>3, <1>4 DEF Types

\* Sequences of one or two.
LEMMA Pair ==
    ASSUME NEW a, NEW b
    PROVE  /\ Len(<<a>>) = 1 /\ Head(<<a>>) = a /\ <<a>> \o <<>> = <<a>>
           /\ Len(<<a, b>>) = 2 /\ Head(<<a, b>>) = a /\ Tail(<<a, b>>) = <<b>>
           /\ <<a>> \o <<b>> = <<a, b>>
<1> DEFINE both == <<a>> \o <<b>>
<1>1. <<a, b>> \in Seq({a, b}) /\ <<b>> \in Seq({a, b}) /\ <<a>> \in Seq({a, b})
    OBVIOUS
<1>2. both \in Seq({a, b}) /\ Len(both) = 2 /\ both[1] = a /\ both[2] = b
    BY <1>1, ConcatProperties
<1> HIDE DEF both
<1>3. \A i \in 1..2 : both[i] = <<a, b>>[i]
    BY <1>2
<1>4. both = <<a, b>>
    BY <1>1, <1>2, <1>3, SeqEqual
<1> QED
    BY <1>4 DEF both

LEMMA Appended ==
    ASSUME NEW a
    PROVE  Append(<<>>, a) = <<a>> /\ Append(<<a>>, a) = <<a, a>>
<1> DEFINE S == {a}
<1>1. <<>> \in Seq(S) /\ <<a>> \in Seq(S) /\ <<a, a>> \in Seq(S)
    OBVIOUS
<1>2. /\ Append(<<>>, a) \in Seq(S) /\ Len(Append(<<>>, a)) = 1 /\ Append(<<>>, a)[1] = a
      /\ Append(<<a>>, a) \in Seq(S) /\ Len(Append(<<a>>, a)) = 2
      /\ Append(<<a>>, a)[1] = a /\ Append(<<a>>, a)[2] = a
    BY <1>1, AppendProperties
<1> DEFINE one == Append(<<>>, a)  two == Append(<<a>>, a)
<1>3. one \in Seq(S) /\ two \in Seq(S) /\ Len(one) = 1 /\ Len(two) = 2
    BY <1>2
<1>4. (\A i \in 1..1 : one[i] = <<a>>[i]) /\ (\A i \in 1..2 : two[i] = <<a, a>>[i])
    BY <1>2
<1> HIDE DEF one, two
<1>5. one = <<a>> /\ two = <<a, a>>
    BY <1>1, <1>3, <1>4, SeqEqual
<1> QED
    BY <1>5 DEF one, two

LEMMA TwoRows ==
    ASSUME NEW site \in SiteIds
    PROVE  /\ site.region = UNSET => RowsOf(site) = <<ThreadRow(site.thread)>>
           /\ site.region # UNSET =>
                 RowsOf(site) = <<ThreadRow(site.thread), RegionRow(site.region)>>
           /\ ThreadRow(site.thread) \in Rows
           /\ site.region # UNSET => RegionRow(site.region) \in Rows
           /\ RowsOf(site) \in Seq(Rows) \ {<<>>}
<1>1. ThreadRow(site.thread) \in Rows
    BY DEF SiteIds, Rows
<1>2. ASSUME site.region # UNSET PROVE RegionRow(site.region) \in Rows
    BY <1>2 DEF SiteIds, Rows, RegionRows
<1>3. site.region = UNSET => RowsOf(site) = <<ThreadRow(site.thread)>>
    BY DEF RowsOf
<1>4. site.region # UNSET => RowsOf(site) = <<ThreadRow(site.thread), RegionRow(site.region)>>
    BY Pair DEF RowsOf
<1>5. RowsOf(site) \in Seq(Rows) \ {<<>>}
    <2> DEFINE a == ThreadRow(site.thread)  b == RegionRow(site.region)
    <2>1. a \in Rows /\ (site.region # UNSET => b \in Rows)
        BY <1>1, <1>2
    <2> HIDE DEF a, b
    <2>2. <<a>> \in Seq(Rows) /\ (site.region # UNSET => <<a, b>> \in Seq(Rows))
        BY <2>1
    <2>3. <<a>> # <<>> /\ <<a, b>> # <<>>
        OBVIOUS
    <2> QED
        BY <2>2, <2>3, <1>3, <1>4 DEF a, b
<1> QED
    BY <1>1, <1>2, <1>3, <1>4, <1>5

\* What a row of a moving recorder is, and what is left after it.
LEMMA HeadAndTail ==
    ASSUME NEW r \in Seq(Rows) \ {<<>>}
    PROVE  /\ Head(r) \in Rows /\ Len(r) \in Nat \ {0}
           /\ Len(r) # 1 => Tail(r) \in Seq(Rows) \ {<<>>}
<1>1. Len(r) \in Nat \ {0}
    BY EmptySeq
<1>2. Head(r) \in Rows /\ Tail(r) \in Seq(Rows) /\ Len(Tail(r)) = Len(r) - 1
    BY HeadTailProperties
<1>3. Tail(r) = <<>> => Len(Tail(r)) = 0
    BY EmptySeq
<1> QED
    BY <1>1, <1>2, <1>3

LEMMA BlockOf ==
    ASSUME NEW b \in Blocks
    PROVE  /\ b.site \in SiteIds /\ b.size \in Sizes /\ b.size \in Nat /\ b.born \in Nat
           /\ b.site.thread \in ThreadIds /\ b.site.region \in RegionIds \cup {UNSET}
           /\ \A size \in Sizes : [b EXCEPT !.size = size] \in Blocks
                                   /\ [b EXCEPT !.size = size].size = size
                                   /\ [b EXCEPT !.size = size].site = b.site
BY Constants DEF Blocks, SiteIds

-----------------------------------------------------------------------------
(* Types are kept *)

LEMMA PlusIs ==
    ASSUME NEW c \in [total : Int, curr : Int], NEW total \in Int, NEW delta \in Int
    PROVE  /\ Plus(c, total, delta) \in [total : Int, curr : Int]
           /\ Plus(c, total, delta).total = c.total + total
           /\ Plus(c, total, delta).curr = c.curr + delta
<1>1. c.total + total \in Int /\ c.curr + delta \in Int
    OBVIOUS
<1> QED
    BY <1>1 DEF Plus

LEMMA CommitTypes ==
    ASSUME Types, NEW t \in Recorders, NEW site \in SiteIds, NEW total \in Nat, NEW delta \in Int,
           NEW gives \in Gifts, Commit(t, site, total, delta, gives),
           live' \subseteq Blocks, IsFiniteSet(live')
    PROVE  Types'
<1>1. pc' \in [Recorders -> Steps]
    <2>1. [at |-> "curr", rows |-> RowsOf(site), total |-> total, delta |-> delta,
           gives |-> gives, now |-> 0] \in Steps
        BY TwoRows DEF Steps, Moving
    <2> QED
        BY <2>1 DEF Types, Commit, Goto
<1>2. Holds'
    <2> totals \in [total : Int, curr : Int] /\ outside \in [total : Int, curr : Int] /\ total \in Int
        BY DEF Types, Holds
    <2>1. totals' \in [total : Int, curr : Int]
        BY PlusIs DEF Commit
    <2>2. outside' \in [total : Int, curr : Int]
        BY PlusIs DEF Commit
    <2> QED
        BY <2>1, <2>2 DEF Types, Holds, Commit, Spend
<1>3. Known' /\ Phases'
    BY DEF Types, Known, Phases, Commit, threads, phases
<1> QED
    BY <1>1, <1>2, <1>3 DEF Types

LEMMA AllocTypes ==
    ASSUME Types, NEW t \in Recorders, NEW size \in Sizes, RecordAlloc(t, size)
    PROVE  Types'
<1> DEFINE site == [thread |-> thread[t], region |-> region[t]]
           b == [site |-> site, size |-> size, born |-> spent]
<1>1. site \in SiteIds
    BY DEF RecordAlloc, Types, Known, Phases, SiteIds
<1>2. b \in Blocks
    BY <1>1 DEF Blocks, Types, Holds
<1>3. Commit(t, site, size, size, {b}) /\ live' = live
    BY DEF RecordAlloc
<1>4. size \in Nat /\ size \in Int /\ {b} \in Gifts
    BY <1>2, Constants DEF Gifts
<1> HIDE DEF site, b
<1> QED
    BY <1>1, <1>3, <1>4, CommitTypes DEF Types, Holds

LEMMA ReallocTypes ==
    ASSUME Types, NEW t \in Recorders, NEW b \in live, NEW size \in Sizes, RecordRealloc(t, b, size)
    PROVE  Types'
<1>1. b \in Blocks /\ live' \subseteq Blocks /\ IsFiniteSet(live')
    BY FS_Subset DEF Types, Holds, RecordRealloc
<1>2. size \in Nat /\ size - b.size \in Int /\ {[b EXCEPT !.size = size]} \in Gifts
    BY <1>1, BlockOf, Constants DEF Gifts
<1> QED
    BY <1>1, <1>2, BlockOf, CommitTypes DEF RecordRealloc

LEMMA FreeTypes ==
    ASSUME Types, NEW t \in Recorders, NEW b \in live, RecordFree(t, b)
    PROVE  Types'
<1>1. b \in Blocks /\ live' \subseteq Blocks /\ IsFiniteSet(live')
    BY FS_Subset DEF Types, Holds, RecordFree
<1>2. 0 \in Nat /\ -b.size \in Int /\ {} \in Gifts
    BY <1>1, BlockOf, Constants DEF Gifts
<1> QED
    BY <1>1, <1>2, BlockOf, CommitTypes DEF RecordFree

LEMMA MovingTypes ==
    ASSUME Types, NEW t \in Recorders, pc[t].at \in {"curr", "max"}
    PROVE  /\ pc[t] \in Moving /\ Row(t) \in Rows
           /\ pc[t].total \in Nat /\ pc[t].delta \in Int /\ pc[t].now \in Int
           /\ pc[t].gives \in Gifts /\ pc[t].gives \subseteq Blocks /\ IsFiniteSet(pc[t].gives)
<1>1. pc[t] \in Moving
    BY Shapes DEF Types
<1>2. pc[t].gives \in Gifts /\ pc[t].rows \in Seq(Rows) \ {<<>>}
    BY <1>1 DEF Moving
<1>3. IsFiniteSet(pc[t].gives)
    <2>1. \A b \in Blocks : IsFiniteSet({b})
        BY FS_Singleton
    <2>2. IsFiniteSet({})
        BY FS_EmptySet
    <2> QED
        BY <1>2, <2>1, <2>2 DEF Gifts
<1> QED
    BY <1>1, <1>2, <1>3, HeadAndTail DEF Moving, Row, Gifts

LEMMA NextRowTypes ==
    ASSUME Types, NEW t \in Recorders, pc[t].at \in {"curr", "max"}, NextRow(t)
    PROVE  pc' \in [Recorders -> Steps] /\ live' \subseteq Blocks /\ IsFiniteSet(live')
<1>1. pc[t] \in Moving
    BY MovingTypes
<1>2. CASE Len(pc[t].rows) = 1
    <2>1. live' = live \cup pc[t].gives /\ pc' = [pc EXCEPT ![t] = Idle]
        BY <1>2 DEF NextRow, Goto
    <2>2. IsFiniteSet(live) /\ live \subseteq Blocks
        BY DEF Types, Holds
    <2>3. IsFiniteSet(live')
        BY <2>1, <2>2, MovingTypes, FS_Union
    <2> QED
        BY <2>1, <2>2, <2>3, MovingTypes DEF Types, Steps
<1>3. CASE Len(pc[t].rows) # 1
    <2>1. [pc[t] EXCEPT !.at = "curr", !.rows = Tail(@)] \in Moving
        BY <1>1, <1>3, HeadAndTail DEF Moving
    <2> QED
        BY <1>3, <2>1 DEF NextRow, Types, Holds, Steps, Goto
<1> QED
    BY <1>2, <1>3

LEMMA MoveCurrTypes ==
    ASSUME Types, NEW t \in Recorders, MoveCurr(t)
    PROVE  Types'
<1> DEFINE r == Row(t)  next == tally[r].curr + pc[t].delta
<1>1. pc[t].at = "curr"
    BY DEF MoveCurr
<1>2. r \in Rows /\ next \in Int /\ pc[t].delta \in Int /\ pc[t].total \in Nat /\ pc[t] \in Moving
    BY <1>1, MovingTypes DEF Types, Holds
<1>3. Greater(next, 0) \in Nat /\ Greater(top[r], next) \in Nat
    BY <1>2 DEF Greater, Types, Holds
<1>4. tally' \in [Rows -> [total : Nat, curr : Nat, max : Nat]]
    <2>1. tally' = [tally EXCEPT ![r].total = @ + pc[t].total, ![r].curr = Greater(next, 0)]
        BY DEF MoveCurr
    <2> HIDE DEF next, r
    <2>2. tally \in [Rows -> [total : Nat, curr : Nat, max : Nat]]
        BY DEF Types, Holds
    <2>3. tally[r].total + pc[t].total \in Nat
        BY <1>2, <2>2
    <2> QED
        BY <2>1, <2>2, <2>3, <1>2, <1>3
<1>5. top' \in [Rows -> Nat]
    <2>1. top' = [top EXCEPT ![r] = Greater(@, next)]
        BY DEF MoveCurr
    <2> HIDE DEF next, r
    <2> QED
        BY <2>1, <1>2, <1>3 DEF Types, Holds
<1>6. pc' \in [Recorders -> Steps] /\ live' \subseteq Blocks /\ IsFiniteSet(live')
    <2>1. CASE pc[t].delta > 0
        <3>1. [pc[t] EXCEPT !.at = "max", !.now = next] \in Moving
            BY <1>2 DEF Moving
        <3> HIDE DEF next, r
        <3>2. pc' = [pc EXCEPT ![t] = [pc[t] EXCEPT !.at = "max", !.now = next]] /\ live' = live
            BY <2>1 DEF MoveCurr, Goto, next, r
        <3> QED
            BY <3>1, <3>2 DEF Types, Holds, Steps
    <2>2. CASE ~(pc[t].delta > 0)
        BY <1>1, <2>2, NextRowTypes DEF MoveCurr
    <2> QED
        BY <2>1, <2>2
<1> HIDE DEF next, r
<1>7. Holds'
    BY <1>4, <1>5, <1>6 DEF Types, Holds, MoveCurr
<1>8. Known' /\ Phases'
    BY DEF Types, Known, Phases, MoveCurr, threads, phases
<1> QED
    BY <1>6, <1>7, <1>8 DEF Types

LEMMA FetchMaxTypes ==
    ASSUME Types, NEW t \in Recorders, FetchMax(t)
    PROVE  Types'
<1> DEFINE r == Row(t)
<1>1. pc[t].at = "max"
    BY DEF FetchMax
<1>2. r \in Rows /\ pc[t].now \in Int
    BY <1>1, MovingTypes
<1>3. Greater(tally[r].max, pc[t].now) \in Nat
    BY <1>2 DEF Greater, Types, Holds
<1>4. tally' \in [Rows -> [total : Nat, curr : Nat, max : Nat]]
    <2>1. tally' = [tally EXCEPT ![r].max = Greater(@, pc[t].now)]
        BY DEF FetchMax
    <2> HIDE DEF r
    <2> QED
        BY <2>1, <1>2, <1>3 DEF Types, Holds
<1>5. pc' \in [Recorders -> Steps] /\ live' \subseteq Blocks /\ IsFiniteSet(live')
    BY <1>1, NextRowTypes DEF FetchMax
<1> HIDE DEF r
<1>6. Holds'
    BY <1>4, <1>5 DEF Types, Holds, FetchMax
<1>7. Known' /\ Phases'
    BY DEF Types, Known, Phases, FetchMax, threads, phases
<1> QED
    BY <1>5, <1>6, <1>7 DEF Types

-----------------------------------------------------------------------------
(* Steps beside the gate: what a recorder does before it enters it, its name *)
(* and its regions.                                                          *)

InGate(s) == s.at \in {"curr", "max"}

Beside(t) ==
    /\ UNCHANGED <<tally, totals, top, outside, live, reader>>
    /\ \A u \in Recorders \ {t} : pc'[u] = pc[u]
    /\ ~InGate(pc[t]) /\ ~InGate(pc'[t])
    /\ published \subseteq published' /\ \A i \in RegionIds : entries[i] <= entries'[i]

LEMMA Goes ==
    ASSUME Types, NEW t \in Recorders, NEW s \in Steps, Goto(t, s)
    PROVE  /\ pc' \in [Recorders -> Steps] /\ pc'[t] = s
           /\ \A u \in Recorders \ {t} : pc'[u] = pc[u]
BY DEF Types, Goto

LEMMA ClaimLoadIsBeside ==
    ASSUME Types, NEW t \in Recorders, ClaimLoad(t)
    PROVE  Types' /\ Beside(t)
<1>1. CASE count >= MAX_THREADS
    <2>1. thread' = [thread EXCEPT ![t] = OVERFLOW] /\ pc' = pc
        BY <1>1 DEF ClaimLoad
    <2>2. Types'
        BY <2>1, Constants DEF ClaimLoad, Types, Holds, Known, Phases, counts, phases
    <2> QED
        BY <2>1, <2>2, Constants DEF ClaimLoad, Beside, InGate, Idle, counts, phases, Types, Phases
<1>2. CASE ~(count >= MAX_THREADS)
    <2>1. Goto(t, [at |-> "claim", count |-> count]) /\ thread' = thread
        BY <1>2 DEF ClaimLoad
    <2>2. [at |-> "claim", count |-> count] \in Steps
        BY <1>2, Constants DEF Steps, Claiming, Types, Known
    <2>3. pc' \in [Recorders -> Steps] /\ pc'[t].at = "claim" /\ \A u \in Recorders \ {t} : pc'[u] = pc[u]
        BY <2>1, <2>2, Goes
    <2> QED
        BY <2>1, <2>3 DEF ClaimLoad, Types, Holds, Known, Phases, counts, phases, Beside, InGate, Idle
<1> QED
    BY <1>1, <1>2

LEMMA ClaimIndexIsBeside ==
    ASSUME Types, NEW t \in Recorders, ClaimIndex(t)
    PROVE  Types' /\ Beside(t)
<1>0. pc[t].at = "claim" /\ pc[t] \in Claiming
    BY Shapes DEF ClaimIndex, Types
<1>1. CASE count = pc[t].count
    <2>1. count' = count + 1 /\ Goto(t, [at |-> "publish", index |-> count])
        BY <1>1 DEF ClaimIndex
    <2>2. count \in 0..MAX_THREADS - 1
        BY <1>0, <1>1 DEF Claiming
    <2>3. [at |-> "publish", index |-> count] \in Steps
        BY <2>2 DEF Steps, Publishing
    <2>4. pc' \in [Recorders -> Steps] /\ pc'[t].at = "publish" /\ \A u \in Recorders \ {t} : pc'[u] = pc[u]
        BY <2>1, <2>3, Goes
    <2>5. count' \in 0..MAX_THREADS /\ 0..count - 1 \subseteq 0..count' - 1
        BY <2>1, <2>2, Constants
    <2>6. Known'
        BY <2>5 DEF ClaimIndex, Types, Known
    <2> QED
        BY <1>0, <2>4, <2>6 DEF ClaimIndex, Types, Holds, Phases, counts, phases, Beside, InGate
<1>2. CASE count # pc[t].count
    <2>1. Goto(t, Idle) /\ count' = count
        BY <1>2 DEF ClaimIndex
    <2>2. pc' \in [Recorders -> Steps] /\ pc'[t].at = "idle" /\ \A u \in Recorders \ {t} : pc'[u] = pc[u]
        BY <2>1, Goes DEF Steps, Idle
    <2> QED
        BY <1>0, <2>1, <2>2 DEF ClaimIndex, Types, Holds, Known, Phases, counts, phases, Beside, InGate
<1> QED
    BY <1>1, <1>2

\* What the cell of a name becomes is a cell.
LEMMA CellIs ==
    ASSUME NEW cell \in Cells, NEW t \in Recorders
    PROVE  /\ Asked(cell) \in Cells /\ Asked(cell).bytes = cell.bytes
           /\ Named(cell, t) = [bytes |-> NameOf(t), state |-> SETTLED] /\ Named(cell, t) \in Cells
           /\ Append(cell.bytes, t) \in Seq(Recorders)
<1>1. cell.state + 1 \in Nat /\ SETTLED \in Nat
    BY Constants DEF Cells
<1>2. Asked(cell) \in Cells /\ Asked(cell).bytes = cell.bytes
    BY <1>1 DEF Asked, Cells
<1>3. <<t, t>> \in Seq(Recorders)
    OBVIOUS
<1>4. Named(cell, t) = [bytes |-> NameOf(t), state |-> SETTLED] /\ Named(cell, t) \in Cells
    BY <1>1, <1>3 DEF Named, NameOf, Cells
<1>5. Append(cell.bytes, t) \in Seq(Recorders)
    BY DEF Cells
<1> QED
    BY <1>2, <1>4, <1>5

LEMMA PublishIsBeside ==
    ASSUME Types, NEW t \in Recorders, Publish(t), pc[t].index \in 0..count - 1
    PROVE  Types' /\ Beside(t)
<1>0. pc[t].at = "publish" /\ pc[t] \in Publishing /\ pc[t].index \in 0..MAX_THREADS - 1
    BY Shapes DEF Publish, Types, Publishing
<1>1. pc' \in [Recorders -> Steps] /\ pc'[t].at = "idle" /\ \A u \in Recorders \ {t} : pc'[u] = pc[u]
    BY Goes DEF Publish, Steps, Idle
<1>2. Known' /\ published \subseteq published'
    <2>1. CASE thread' = [thread EXCEPT ![t] = OVERFLOW] /\ UNCHANGED <<published, names>>
        BY <2>1, Constants DEF Publish, Types, Known
    <2>2. CASE /\ thread' = [thread EXCEPT ![t] = pc[t].index]
               /\ published' = published \cup {pc[t].index}
               /\ \E cell \in {Asked(names[pc[t].index]), Named(names[pc[t].index], t)} :
                     names' = [names EXCEPT ![pc[t].index] = cell]
        <3>1. pc[t].index \in ThreadIds
            BY <1>0 DEF ThreadIds
        <3>2. names[pc[t].index] \in Cells
            BY <1>0 DEF Types, Known
        <3>3. Asked(names[pc[t].index]) \in Cells /\ Named(names[pc[t].index], t) \in Cells
            BY <3>2, CellIs
        <3>4. names' \in [0..MAX_THREADS - 1 -> Cells]
            BY <2>2, <3>3 DEF Types, Known
        <3> QED
            BY <2>2, <3>1, <3>4 DEF Publish, Types, Known
    <2> QED
        BY <2>1, <2>2 DEF Publish
<1> QED
    BY <1>0, <1>1, <1>2 DEF Publish, Types, Holds, Phases, counts, phases, Beside, InGate

LEMMA AskAgainIsBeside ==
    ASSUME Types, NEW t \in Recorders, AskAgain(t)
    PROVE  Types' /\ Beside(t)
<1>0. pc[t].at = "idle" /\ thread[t] \in 0..MAX_THREADS - 1
    <2>1. thread[t] \in 0..count - 1 /\ count \in 0..MAX_THREADS
        BY DEF AskAgain, Types, Known
    <2> QED
        BY <2>1, Constants DEF AskAgain, Idle
<1>1. CASE names' = [names EXCEPT ![thread[t]] = Asked(@)] /\ UNCHANGED pc
    <2>1. names[thread[t]] \in Cells
        BY <1>0 DEF Types, Known
    <2>2. names' \in [0..MAX_THREADS - 1 -> Cells]
        BY <1>1, <2>1, CellIs DEF Types, Known
    <2>3. /\ UNCHANGED <<tally, totals, top, outside, live, spent, reader, count, published, thread, pc>>
          /\ UNCHANGED <<regions, entries, active, region, guards>>
        BY <1>1 DEF AskAgain, counts, phases
    <2>4. Holds' /\ Known' /\ Phases'
        BY <2>2, <2>3 DEF Types, Holds, Known, Phases
    <2>5. Types'
        BY <2>3, <2>4 DEF Types
    <2>6. \A i \in RegionIds : entries[i] <= entries'[i]
        BY <2>3 DEF Types, Phases
    <2> QED
        BY <1>0, <2>3, <2>5, <2>6 DEF Beside, InGate
<1>2. CASE Goto(t, [at |-> "name"]) /\ UNCHANGED names
    <2>1. [at |-> "name"] \in Steps
        BY DEF Steps, Naming
    <2>2. pc' \in [Recorders -> Steps] /\ pc'[t].at = "name" /\ \A u \in Recorders \ {t} : pc'[u] = pc[u]
        BY <1>2, <2>1, Goes
    <2> QED
        BY <1>0, <1>2, <2>2 DEF AskAgain, Types, Holds, Known, Phases, counts, phases, Beside, InGate
<1> QED
    BY <1>1, <1>2 DEF AskAgain

LEMMA NameStoreIsBeside ==
    ASSUME Types, NEW t \in Recorders, NameStore(t), thread[t] \in published
    PROVE  Types' /\ Beside(t)
<1>0. pc[t].at = "name" /\ thread[t] \in 0..MAX_THREADS - 1 /\ names[thread[t]] \in Cells
    BY Constants DEF NameStore, Types, Known
<1>1. CASE names[thread[t]].bytes # NameOf(t)
    <2>1. names' = [names EXCEPT ![thread[t]].bytes = Append(@, t)] /\ pc' = pc
        BY <1>1 DEF NameStore
    <2>2. Append(names[thread[t]].bytes, t) \in Seq(Recorders)
        BY <1>0, CellIs
    <2>3. names' \in [0..MAX_THREADS - 1 -> Cells]
        BY <1>0, <2>1, <2>2 DEF Types, Known, Cells
    <2> QED
        BY <1>0, <2>1, <2>3 DEF NameStore, Types, Holds, Known, Phases, counts, phases, Beside, InGate
<1>2. CASE names[thread[t]].bytes = NameOf(t)
    <2>1. names' = [names EXCEPT ![thread[t]].state = SETTLED] /\ Goto(t, Idle)
        BY <1>2 DEF NameStore
    <2>2. pc' \in [Recorders -> Steps] /\ pc'[t].at = "idle" /\ \A u \in Recorders \ {t} : pc'[u] = pc[u]
        BY <2>1, Goes DEF Steps, Idle
    <2>3. names' \in [0..MAX_THREADS - 1 -> Cells]
        BY <1>0, <2>1, Constants DEF Types, Known, Cells
    <2> QED
        BY <1>0, <2>2, <2>3 DEF NameStore, Types, Holds, Known, Phases, counts, phases, Beside, InGate
<1> QED
    BY <1>1, <1>2

LEMMA InternIsBeside ==
    ASSUME Types, NEW t \in Recorders, NEW n \in Names, Intern(t, n)
    PROVE  Types' /\ Beside(t)
<1> DEFINE Goal == /\ pc' \in [Recorders -> Steps] /\ pc'[t].at = "enter"
                   /\ \A u \in Recorders \ {t} : pc'[u] = pc[u]
                   /\ regions' \in Seq(Names) /\ Len(regions') <= MAX_REGIONS
<1>0. pc[t].at = "idle" /\ Kept[n] \in Names
    BY SitesAssumption DEF Intern, Idle
<1>a. \A id \in RegionIds : [at |-> "enter", id |-> id] \in Steps
    BY DEF Steps, Entering
<1>b. regions \in Seq(Names) /\ Len(regions) <= MAX_REGIONS /\ Len(regions) \in Nat
    BY DEF Types, Phases
<1>1. CASE \E i \in RowOfName(Kept[n]) : Goto(t, [at |-> "enter", id |-> i - 1]) /\ UNCHANGED regions
    <2>1. PICK i \in DOMAIN regions : Goto(t, [at |-> "enter", id |-> i - 1])
        BY <1>1 DEF RowOfName
    <2>2. i \in 1..Len(regions)
        BY <1>b, LenProperties
    <2>3. i - 1 \in RegionIds
        BY <2>2, <1>b, Constants DEF RegionIds
    <2>4. Goal
        BY <2>1, <2>3, <1>1, <1>a, <1>b, Goes
    <2> QED
        BY <1>0, <2>4 DEF Intern, Types, Holds, Known, Phases, counts, threads, Beside, InGate, Spend
<1>2. CASE /\ Len(regions) < MAX_REGIONS
           /\ regions' = Append(regions, Kept[n])
           /\ Goto(t, [at |-> "enter", id |-> Len(regions)])
    <2>1. Len(regions) \in RegionIds
        BY <1>2, <1>b, Constants DEF RegionIds
    <2>2. regions' \in Seq(Names) /\ Len(regions') = Len(regions) + 1
        BY <1>0, <1>2, <1>b
    <2>3. Goal
        BY <2>1, <2>2, <1>2, <1>a, <1>b, Goes, Constants
    <2> QED
        BY <1>0, <2>3 DEF Intern, Types, Holds, Known, Phases, counts, threads, Beside, InGate, Spend
<1>3. CASE Goto(t, [at |-> "enter", id |-> OVERFLOW]) /\ UNCHANGED regions
    <2>1. Goal
        BY <1>3, <1>a, <1>b, Goes, Constants
    <2> QED
        BY <1>0, <2>1 DEF Intern, Types, Holds, Known, Phases, counts, threads, Beside, InGate, Spend
<1> QED
    BY <1>1, <1>2, <1>3 DEF Intern

LEMMA EnterRegionIsBeside ==
    ASSUME Types, NEW t \in Recorders, EnterRegion(t)
    PROVE  /\ Types' /\ Beside(t)
           /\ pc[t].id \in RegionIds
           /\ pc'[t] = [at |-> "activate", id |-> pc[t].id]
<1> DEFINE id == pc[t].id
           g == [id |-> id, previous |-> region[t], nth |-> entries[id]]
<1>0. pc[t].at = "enter" /\ id \in RegionIds
    BY Shapes DEF EnterRegion, Types, Entering
<1>1. [at |-> "activate", id |-> id] \in Steps
    BY <1>0 DEF Steps, Entering
<1>2. Goto(t, [at |-> "activate", id |-> id])
    BY DEF EnterRegion
<1>3. /\ pc' \in [Recorders -> Steps] /\ pc'[t] = [at |-> "activate", id |-> id]
      /\ \A u \in Recorders \ {t} : pc'[u] = pc[u]
    BY <1>1, <1>2, Goes
<1>4. g \in Guards
    BY <1>0 DEF Guards, Types, Phases
<1>5. Phases'
    <2>1. region' = [region EXCEPT ![t] = id] /\ guards' = [guards EXCEPT ![t] = @ \cup {g}]
          /\ entries' = [entries EXCEPT ![id] = @ + 1]
        BY DEF EnterRegion
    <2> HIDE DEF id, g
    <2> QED
        BY <2>1, <1>0, <1>4 DEF EnterRegion, Types, Phases
<1>6. \A i \in RegionIds : entries[i] <= entries'[i]
    BY <1>0 DEF EnterRegion, Types, Phases
<1> HIDE DEF id, g
<1>7. Types'
    BY <1>3, <1>5 DEF EnterRegion, Types, Holds, Known, counts, threads
<1> QED
    BY <1>0, <1>3, <1>6, <1>7 DEF EnterRegion, counts, threads, Beside, InGate, id

LEMMA ActivateIsBeside ==
    ASSUME Types, NEW t \in Recorders, Activate(t)
    PROVE  Types' /\ Beside(t) /\ pc[t].id \in RegionIds /\ pc'[t] = Idle
<1>0. pc[t].at = "activate" /\ pc[t].id \in RegionIds
    BY Shapes DEF Activate, Types, Entering
<1>1. pc' \in [Recorders -> Steps] /\ pc'[t] = Idle /\ \A u \in Recorders \ {t} : pc'[u] = pc[u]
    BY Goes DEF Activate, Steps
<1>2. active' \in [RegionIds -> Nat]
    BY <1>0 DEF Activate, Types, Phases
<1>3. Types'
    BY <1>1, <1>2 DEF Activate, Types, Holds, Known, Phases, counts, threads
<1> QED
    BY <1>0, <1>1, <1>3 DEF Activate, counts, threads, Beside, InGate, Idle, Types, Phases

LEMMA LeaveRegionIsBeside ==
    ASSUME Types, NEW t \in Recorders, NEW g \in guards[t], LeaveRegion(t, g)
    PROVE  Types' /\ Beside(t) /\ g \in Guards /\ g.id \in RegionIds
<1>0. pc[t].at = "idle"
    BY DEF LeaveRegion, Idle
<1>1. g \in Guards /\ g.id \in RegionIds /\ g.previous \in RegionIds \cup {UNSET}
    BY DEF Types, Phases, Guards
<1>2. Greater(active[g.id] - 1, 0) \in Nat
    BY <1>1 DEF Greater, Types, Phases
<1>3. Phases'
    BY <1>1, <1>2 DEF LeaveRegion, Types, Phases
<1>4. Types'
    BY <1>3 DEF LeaveRegion, Types, Holds, Known, threads
<1> QED
    BY <1>0, <1>1, <1>4 DEF LeaveRegion, threads, Beside, InGate, Types, Phases

LEMMA RestartTypes == Types /\ Restart => Types'
<1> SUFFICES ASSUME Types, Restart PROVE Types'
    OBVIOUS
<1>1. tally' \in [Rows -> [total : Nat, curr : Nat, max : Nat]] /\ top' \in [Rows -> Nat]
    BY DEF Restart, Types, Holds
<1>2. totals' \in [total : Int, curr : Int] /\ outside' \in [total : Int, curr : Int]
    BY DEF Restart, Types, Holds
<1>3. /\ UNCHANGED <<live, pc, count, published, names, thread>>
      /\ UNCHANGED <<regions, entries, active, region, guards>>
    BY DEF Restart, threads, phases
<1>4. spent' \in Nat
    BY DEF Restart, Spend, Types, Holds
<1>5. Holds' /\ Known' /\ Phases'
    BY <1>1, <1>2, <1>3, <1>4 DEF Types, Holds, Known, Phases
<1> QED
    BY <1>3, <1>5 DEF Types

LEMMA VisitTypes ==
    ASSUME Types, Visit \/ UNCHANGED vars
    PROVE  /\ Types'
           /\ UNCHANGED <<tally, totals, top, outside, live, threads, phases, pc, spent>>
<1>1. UNCHANGED <<tally, totals, top, outside, live, threads, phases, pc, spent>>
    BY DEF Visit, BeginVisit, BeginBreakdown, VisitRow, VisitByte, VisitCounts, VisitRegions,
        Breakdown, ReadRegions, EndVisit, vars, counts
<1> QED
    BY <1>1 DEF Types, Holds, Known, Phases, threads, phases

-----------------------------------------------------------------------------
(* Rows and their owners *)

\* An index is claimed by one thread, which publishes its record there; a
\* published row is the row of one thread.
Owned ==
    /\ \A t, u \in Recorders : t # u /\ thread[t] \in published => thread[t] # thread[u]
    /\ \A t \in Recorders : thread[t] \in published \cup {OVERFLOW, UNSET}
    /\ \A i \in published : \E t \in Recorders : thread[t] = i
    /\ \A t \in Recorders :
          /\ pc[t].at \in {"claim", "publish"} => thread[t] = UNSET
          /\ pc[t].at = "publish" => pc[t].index \in (0..count - 1) \ published
          /\ pc[t].at = "name" => thread[t] \in published
    /\ \A t, u \in Recorders :
          t # u /\ pc[t].at = "publish" /\ pc[u].at = "publish" => pc[t].index # pc[u].index

\* A settled name is whole, or there is none; before that only its owner is at it.
OwnName(t, step, cell) ==
    /\ step.at = "name" => cell.state # SETTLED /\ cell.bytes \in {<<>>, <<t>>, <<t, t>>}
    /\ step.at # "name" => cell.bytes \in {<<>>, NameOf(t)}
    /\ step.at # "name" /\ cell.state # SETTLED => cell.bytes = <<>>
NamesKept ==
    /\ \A t \in Recorders : thread[t] \in published => OwnName(t, pc[t], names[thread[t]])
    /\ \A i \in (0..MAX_THREADS - 1) \ published : names[i].bytes = <<>>

LEMMA RowsInit == Init => Owned /\ NamesKept
<1> SUFFICES ASSUME Init PROVE Owned /\ NamesKept
    OBVIOUS
<1> QED
    BY DEF Init, Idle, Owned, NamesKept

\* A thread that is not about its row leaves the rows to their owners.
LEMMA RowsStay ==
    ASSUME Owned, NamesKept, UNCHANGED threads,
           \A u \in Recorders : \/ pc'[u] = pc[u]
                                \/ /\ pc[u].at # "name"
                                   /\ pc'[u].at \notin {"claim", "publish", "name"}
    PROVE  Owned' /\ NamesKept'
<1>1. Owned'
    BY DEF Owned, threads
<1>2. NamesKept'
    <2>1. ASSUME NEW t \in Recorders, NEW cell, OwnName(t, pc[t], cell)
          PROVE  OwnName(t, pc'[t], cell)
        <3>1. CASE pc'[t] = pc[t]
            BY <2>1, <3>1
        <3>2. CASE pc[t].at # "name" /\ pc'[t].at # "name"
            BY <2>1, <3>2 DEF OwnName
        <3> QED
            BY <3>1, <3>2
    <2> QED
        BY <2>1 DEF NamesKept, threads
<1> QED
    BY <1>1, <1>2

LEMMA PublishedRows ==
    ASSUME Types
    PROVE  \A i \in published : i \in 0..count - 1 /\ i \in 0..MAX_THREADS - 1 /\ i \in ThreadIds
<1>1. published \subseteq 0..count - 1 /\ count \in 0..MAX_THREADS /\ MAX_THREADS \in Nat
    BY Constants DEF Types, Known
<1>2. \A i \in 0..count - 1 : i \in 0..MAX_THREADS - 1
    BY <1>1
<1> QED
    BY <1>1, <1>2 DEF ThreadIds

LEMMA ClaimLoadKeepsRows ==
    ASSUME Types, Owned, NamesKept, NEW t \in Recorders, ClaimLoad(t)
    PROVE  Owned' /\ NamesKept'
<1>0. thread[t] = UNSET /\ pc[t].at = "idle" /\ UNCHANGED <<count, published, names>>
      /\ t \in DOMAIN pc /\ thread \in [Recorders -> ThreadIds \cup {UNSET}]
    BY DEF ClaimLoad, Idle, Types, Known
<1>1. OVERFLOW \notin published /\ UNSET \notin published
    BY Constants DEF Types, Known
<1>2. CASE thread' = [thread EXCEPT ![t] = OVERFLOW] /\ UNCHANGED pc
    <2>1. Owned'
        BY <1>0, <1>1, <1>2 DEF Owned
    <2>2. NamesKept'
        BY <1>0, <1>1, <1>2 DEF NamesKept, OwnName
    <2> QED
        BY <2>1, <2>2
<1>3. CASE Goto(t, [at |-> "claim", count |-> count]) /\ UNCHANGED thread
    <2>1. pc'[t].at = "claim" /\ \A u \in Recorders \ {t} : pc'[u] = pc[u]
        BY <1>0, <1>3 DEF Goto, Types
    <2>2. Owned'
        BY <1>0, <1>1, <1>3, <2>1 DEF Owned
    <2>3. NamesKept'
        BY <1>0, <1>1, <1>3, <2>1 DEF NamesKept, OwnName
    <2> QED
        BY <2>2, <2>3
<1> QED
    BY <1>2, <1>3 DEF ClaimLoad

LEMMA ClaimIndexKeepsRows ==
    ASSUME Types, Owned, NamesKept, NEW t \in Recorders, ClaimIndex(t)
    PROVE  Owned' /\ NamesKept'
<1>0. thread[t] = UNSET /\ pc[t].at = "claim" /\ UNCHANGED <<thread, published, names>>
    BY DEF ClaimIndex, Owned
<1>1. UNSET \notin published /\ count \in Nat /\ published \subseteq 0..count - 1
    BY Constants DEF Types, Known
<1>2. CASE count' = count + 1 /\ Goto(t, [at |-> "publish", index |-> count])
    <2>1. pc'[t] = [at |-> "publish", index |-> count] /\ \A u \in Recorders \ {t} : pc'[u] = pc[u]
        BY <1>2 DEF Goto, Types
    <2>2. \A i \in 0..count - 1 : i \in 0..count' - 1 /\ i # count
        BY <1>1, <1>2
    <2>3. count \in (0..count' - 1) \ published
        BY <1>1, <1>2
    <2>4. Owned'
        BY <1>0, <1>1, <2>1, <2>2, <2>3 DEF Owned
    <2>5. NamesKept'
        BY <1>0, <1>1, <2>1 DEF NamesKept, OwnName
    <2> QED
        BY <2>4, <2>5
<1>3. CASE Goto(t, Idle) /\ UNCHANGED count
    <2>1. pc'[t] = Idle /\ \A u \in Recorders \ {t} : pc'[u] = pc[u]
        BY <1>3 DEF Goto, Types
    <2> QED
        BY <1>0, <1>3, <2>1, RowsStay DEF Idle, threads
<1> QED
    BY <1>2, <1>3 DEF ClaimIndex

LEMMA PublishKeepsRows ==
    ASSUME Types, Owned, NamesKept, NEW t \in Recorders, Publish(t)
    PROVE  Owned' /\ NamesKept'
<1> DEFINE i == pc[t].index
<1>0. thread[t] = UNSET /\ pc[t].at = "publish" /\ count' = count
      /\ i \in (0..count - 1) \ published /\ i \in 0..MAX_THREADS - 1
    <2>1. thread[t] = UNSET /\ pc[t].at = "publish" /\ count' = count /\ i \in (0..count - 1) \ published
        BY DEF Publish, Owned
    <2> QED
        BY <2>1, Constants DEF Types, Known
<1>1. OVERFLOW \notin published \cup {i} /\ UNSET \notin published \cup {i} /\ OVERFLOW # UNSET
    BY <1>0, Constants DEF Types, Known
<1>2. pc'[t].at = "idle" /\ \A u \in Recorders \ {t} : pc'[u] = pc[u]
    BY DEF Publish, Goto, Types, Idle
<1>3. \A u \in Recorders \ {t} : pc[u].at = "publish" => pc[u].index # i
    BY <1>0 DEF Owned
<1>4. CASE thread' = [thread EXCEPT ![t] = OVERFLOW] /\ UNCHANGED <<published, names>>
    <2>1. thread'[t] = OVERFLOW /\ \A u \in Recorders \ {t} : thread'[u] = thread[u]
        BY <1>4 DEF Types, Known
    <2>2. Owned'
        BY <1>0, <1>1, <1>2, <1>4, <2>1 DEF Owned
    <2>3. NamesKept'
        BY <1>0, <1>1, <1>2, <1>4, <2>1 DEF NamesKept, OwnName
    <2> QED
        BY <2>2, <2>3
<1>5. ASSUME NEW cell \in {Asked(names[i]), Named(names[i], t)},
             thread' = [thread EXCEPT ![t] = i], published' = published \cup {i},
             names' = [names EXCEPT ![i] = cell]
      PROVE  Owned' /\ NamesKept'
    <2>1. thread'[t] = i /\ \A u \in Recorders \ {t} : thread'[u] = thread[u]
        BY <1>5 DEF Types, Known
    <2>2. \A u \in Recorders : thread[u] # i
        BY <1>0, <1>1, Constants DEF Owned
    <2> HIDE DEF i
    <2>3. Owned'
        BY <1>0, <1>1, <1>2, <1>3, <1>5, <2>1, <2>2 DEF Owned
    <2>4. cell.bytes = <<>> \/ (cell.bytes = NameOf(t) /\ cell.state = SETTLED)
        <3>1. names[i] \in Cells
            BY <1>0 DEF Types, Known
        <3>2. names[i].bytes = <<>>
            BY <1>0 DEF NamesKept
        <3> QED
            BY <3>1, <3>2, <1>5, CellIs
    <2>5. names'[i] = cell /\ \A j \in 0..MAX_THREADS - 1 : j # i => names'[j] = names[j]
        BY <1>0, <1>5 DEF Types, Known
    <2>6. \A u \in Recorders : thread'[u] \in published' => OwnName(u, pc'[u], names'[thread'[u]])
        <3> SUFFICES ASSUME NEW u \in Recorders, thread'[u] \in published'
                     PROVE  OwnName(u, pc'[u], names'[thread'[u]])
            OBVIOUS
        <3>1. CASE u = t
            BY <3>1, <2>1, <2>4, <2>5, <1>2 DEF OwnName
        <3>2. CASE u # t
            <4>1. thread[u] \in published /\ thread[u] \in 0..MAX_THREADS - 1 /\ thread[u] # i
                BY <3>2, <2>1, <2>2, <1>5, PublishedRows
            <4>2. names'[thread'[u]] = names[thread[u]]
                BY <4>1, <3>2, <2>1, <2>5
            <4> QED
                BY <4>1, <4>2, <3>2, <1>2 DEF NamesKept, OwnName
        <3> QED
            BY <3>1, <3>2
    <2>7. \A j \in (0..MAX_THREADS - 1) \ published' : names'[j].bytes = <<>>
        BY <1>5, <2>5 DEF NamesKept
    <2> QED
        BY <2>3, <2>6, <2>7 DEF NamesKept
<1> HIDE DEF i
<1>6. \/ thread' = [thread EXCEPT ![t] = OVERFLOW] /\ UNCHANGED <<published, names>>
      \/ /\ thread' = [thread EXCEPT ![t] = i] /\ published' = published \cup {i}
         /\ \E cell \in {Asked(names[i]), Named(names[i], t)} : names' = [names EXCEPT ![i] = cell]
    BY DEF Publish, i
<1> QED
    BY <1>4, <1>5, <1>6

\* Only the owner of a row changes its name.
LEMMA OneNameChanges ==
    ASSUME Types, Owned, NamesKept, NEW t \in Recorders, thread[t] \in published,
           UNCHANGED <<count, published, thread>>, NEW cell,
           names' = [names EXCEPT ![thread[t]] = cell], OwnName(t, pc'[t], cell),
           pc'[t].at \in {"idle", "name"}, \A u \in Recorders \ {t} : pc'[u] = pc[u]
    PROVE  Owned' /\ NamesKept'
<1> DEFINE i == thread[t]
<1>0. i \in 0..MAX_THREADS - 1
    BY PublishedRows
<1>1. names'[i] = cell /\ \A j \in 0..MAX_THREADS - 1 : j # i => names'[j] = names[j]
    BY <1>0 DEF Types, Known
<1>2. Owned'
    BY DEF Owned
<1> HIDE DEF i
<1>3. \A u \in Recorders : thread'[u] \in published' => OwnName(u, pc'[u], names'[thread'[u]])
    <2> SUFFICES ASSUME NEW u \in Recorders, thread'[u] \in published'
                 PROVE  OwnName(u, pc'[u], names'[thread'[u]])
        OBVIOUS
    <2>1. CASE u = t
        BY <2>1, <1>1 DEF i
    <2>2. CASE u # t
        <3>1. thread[u] \in published /\ thread[u] \in 0..MAX_THREADS - 1 /\ thread[u] # i
            BY <2>2, PublishedRows DEF Owned, i
        <3>2. names'[thread'[u]] = names[thread[u]]
            BY <3>1, <1>1
        <3> QED
            BY <3>1, <3>2, <2>2 DEF NamesKept, OwnName
    <2> QED
        BY <2>1, <2>2
<1>4. \A j \in (0..MAX_THREADS - 1) \ published' : names'[j].bytes = <<>>
    BY <1>1 DEF NamesKept, i
<1> QED
    BY <1>2, <1>3, <1>4 DEF NamesKept

LEMMA AskAgainKeepsRows ==
    ASSUME Types, Owned, NamesKept, NEW t \in Recorders, AskAgain(t)
    PROVE  Owned' /\ NamesKept'
<1>0. /\ thread[t] \in published /\ pc[t].at = "idle" /\ UNCHANGED <<count, published, thread>>
      /\ names[thread[t]].state # SETTLED
    BY DEF AskAgain, Idle
<1>1. names[thread[t]] \in Cells
    BY <1>0, PublishedRows DEF Types, Known
<1>2. names[thread[t]].bytes = <<>>
    BY <1>0 DEF NamesKept, OwnName
<1>3. CASE names' = [names EXCEPT ![thread[t]] = Asked(@)] /\ UNCHANGED pc
    <2>1. Asked(names[thread[t]]).bytes = <<>>
        BY <1>1, <1>2, CellIs
    <2>2. OwnName(t, pc'[t], Asked(names[thread[t]]))
        <3> DEFINE cell == Asked(names[thread[t]])
        <3> HIDE DEF cell
        <3> QED
            BY <1>0, <1>3, <2>1 DEF OwnName, cell
    <2> QED
        BY <1>0, <1>3, <2>2, OneNameChanges
<1>4. CASE Goto(t, [at |-> "name"]) /\ UNCHANGED names
    <2>1. pc'[t].at = "name" /\ \A u \in Recorders \ {t} : pc'[u] = pc[u]
        BY <1>4 DEF Goto, Types
    <2>2. Owned'
        BY <1>0, <2>1 DEF Owned
    <2>3. NamesKept'
        BY <1>0, <1>2, <1>4, <2>1 DEF NamesKept, OwnName, Owned
    <2> QED
        BY <2>2, <2>3
<1> QED
    BY <1>3, <1>4 DEF AskAgain

LEMMA NameStoreKeepsRows ==
    ASSUME Types, Owned, NamesKept, NEW t \in Recorders, NameStore(t)
    PROVE  Owned' /\ NamesKept'
<1> DEFINE cell == names[thread[t]]
<1>0. /\ pc[t].at = "name" /\ thread[t] \in published /\ UNCHANGED <<count, published, thread>>
      /\ cell.state # SETTLED /\ cell.bytes \in {<<>>, <<t>>, <<t, t>>}
    BY DEF NameStore, Owned, NamesKept, OwnName
<1>1. cell \in Cells /\ thread[t] \in DOMAIN names
    BY <1>0, PublishedRows DEF Types, Known
<1>2. CASE cell.bytes # NameOf(t)
    <2> DEFINE new == [cell EXCEPT !.bytes = Append(@, t)]
    <2>1. names' = [names EXCEPT ![thread[t]].bytes = Append(@, t)] /\ pc' = pc
        BY <1>2 DEF NameStore
    <2>2. names' = [names EXCEPT ![thread[t]] = new]
        BY <2>1, <1>1
    <2>3. new.state = cell.state /\ new.bytes = Append(cell.bytes, t)
        BY <1>1 DEF Cells
    <2>4. Append(<<>>, t) = <<t>> /\ Append(<<t>>, t) = <<t, t>>
        BY Appended
    <2>5. new.state # SETTLED /\ new.bytes \in {<<>>, <<t>>, <<t, t>>}
        BY <1>0, <1>2, <2>3, <2>4 DEF NameOf
    <2> HIDE DEF cell, new
    <2>6. OwnName(t, pc'[t], new)
        BY <1>0, <2>1, <2>5 DEF OwnName
    <2> QED
        BY <1>0, <2>1, <2>2, <2>6, OneNameChanges
<1>3. CASE cell.bytes = NameOf(t)
    <2> DEFINE new == [cell EXCEPT !.state = SETTLED]
    <2>1. names' = [names EXCEPT ![thread[t]].state = SETTLED] /\ Goto(t, Idle)
        BY <1>3 DEF NameStore
    <2>2. names' = [names EXCEPT ![thread[t]] = new]
        BY <2>1, <1>1
    <2>3. new.state = SETTLED /\ new.bytes = NameOf(t)
        BY <1>1, <1>3 DEF Cells
    <2>4. pc'[t].at = "idle" /\ \A u \in Recorders \ {t} : pc'[u] = pc[u]
        BY <2>1 DEF Goto, Types, Idle
    <2> HIDE DEF cell, new
    <2>5. OwnName(t, pc'[t], new)
        BY <2>3, <2>4 DEF OwnName
    <2> QED
        BY <1>0, <2>2, <2>4, <2>5, OneNameChanges
<1> QED
    BY <1>2, <1>3

-----------------------------------------------------------------------------
(* What a recorder inside the gate has still to do *)

\* Whoever is recorded has its rows.
Sited(site) ==
    /\ site.thread \in published \cup {OVERFLOW}
    /\ site.region # UNSET => entries[site.region] # 0

\* The rows an event has not moved yet, and the block it is about to give.
Left(s) ==
    IF s.at = "curr" THEN {s.rows[i] : i \in 1..Len(s.rows)}
    ELSE IF s.at = "max" THEN {s.rows[i] : i \in 2..Len(s.rows)} ELSE {}
Given(s) == IF InGate(s) THEN s.gives ELSE {}

RowSet(site) ==
    {ThreadRow(site.thread)} \cup
       (IF site.region = UNSET THEN {} ELSE {RegionRow(site.region)})

\* An event of a block is in the block's rows, or in its region's only; it
\* moves what the block has, less what an older one had.
ItsRows(s, site) ==
    \/ s.rows = <<ThreadRow(site.thread)>> /\ site.region = UNSET
    \/ s.rows = <<ThreadRow(site.thread), RegionRow(site.region)>> /\ site.region # UNSET
    \/ s.rows = <<RegionRow(site.region)>> /\ site.region # UNSET
ItsBlock(s, site) ==
    \/ s.gives = {} /\ s.total = 0 /\ s.delta <= 0
    \/ \E b \in Blocks : s.gives = {b} /\ b.site = site /\ s.total = b.size /\ s.delta <= b.size
OnItsWay(s, site) == ItsRows(s, site) /\ ItsBlock(s, site) /\ (s.at = "max" => s.delta > 0)

Underway ==
    \A t \in Recorders : InGate(pc[t]) =>
       \E site \in SiteIds : Sited(site) /\ OnItsWay(pc[t], site)

\* A block, a guard slot and a guard are of rows that are there.
Placed ==
    /\ \A b \in live : Sited(b.site)
    /\ \A t \in Recorders :
          /\ region[t] # UNSET => entries[region[t]] # 0
          /\ \A g \in guards[t] : g.previous # UNSET => entries[g.previous] # 0

\* A row that is not there holds nothing.
Empty ==
    /\ \A i \in (0..MAX_THREADS - 1) \ published :
          tally[ThreadRow(i)] = [total |-> 0, curr |-> 0, max |-> 0]
    /\ \A i \in RegionIds : entries[i] = 0 =>
          tally[RegionRow(i)].total = 0 /\ tally[RegionRow(i)].curr = 0

\* Rows of different ids, and of different kinds, are different.
LEMMA RowNames ==
    /\ \A i, j : ThreadRow(i) = ThreadRow(j) => i = j
    /\ \A i, j : RegionRow(i) = RegionRow(j) => i = j
    /\ \A i, j : ThreadRow(i) # RegionRow(j)
BY DEF ThreadRow, RegionRow

LEMMA LeftIs ==
    ASSUME NEW s, NEW a, NEW b
    PROVE  /\ s.rows = <<a>> /\ s.at = "curr" => Left(s) = {a}
           /\ s.rows = <<a>> /\ s.at = "max" => Left(s) = {}
           /\ s.rows = <<a, b>> /\ s.at = "curr" => Left(s) = {a, b}
           /\ s.rows = <<a, b>> /\ s.at = "max" => Left(s) = {b}
           /\ ~InGate(s) => Left(s) = {} /\ Given(s) = {}
<1>1. /\ 1..Len(<<a>>) = {1} /\ 2..Len(<<a>>) = {}
      /\ 1..Len(<<a, b>>) = {1, 2} /\ 2..Len(<<a, b>>) = {2}
    OBVIOUS
<1>2. <<a>>[1] = a /\ <<a, b>>[1] = a /\ <<a, b>>[2] = b
    OBVIOUS
<1>3. ASSUME s.rows = <<a>> PROVE s.at = "curr" => Left(s) = {a}
    BY <1>1, <1>2, <1>3 DEF Left
<1>4. ASSUME s.rows = <<a>> PROVE s.at = "max" => Left(s) = {}
    BY <1>1, <1>4 DEF Left
<1>5. ASSUME s.rows = <<a, b>> PROVE s.at = "curr" => Left(s) = {a, b}
    BY <1>1, <1>2, <1>5 DEF Left
<1>6. ASSUME s.rows = <<a, b>> PROVE s.at = "max" => Left(s) = {b}
    BY <1>1, <1>2, <1>6 DEF Left
<1>7. ~InGate(s) => Left(s) = {} /\ Given(s) = {}
    BY DEF Left, Given, InGate
<1> QED
    BY <1>3, <1>4, <1>5, <1>6, <1>7

\* The rest of an event, row by row.
LEMMA AfterRow ==
    ASSUME NEW s \in Moving, NEW site \in SiteIds, OnItsWay(s, site)
    PROVE  LET next == [s EXCEPT !.at = "curr", !.rows = Tail(@)]
               rest == IF s.at = "curr" THEN Left(s) \ {Head(s.rows)} ELSE Left(s)
           IN  /\ Head(s.rows) \in RowSet(site) /\ Left(s) \subseteq RowSet(site)
               /\ s.at = "curr" => Head(s.rows) \in Left(s)
               /\ Len(s.rows) = 1 => rest = {}
               /\ Len(s.rows) # 1 => /\ Left(next) = rest /\ OnItsWay(next, site)
                                     /\ next.at = "curr" /\ next.gives = s.gives
                                     /\ next.total = s.total /\ next.delta = s.delta
<1> DEFINE a == ThreadRow(site.thread)  b == RegionRow(site.region)
           next == [s EXCEPT !.at = "curr", !.rows = Tail(@)]
<1>0. a # b
    BY RowNames
<1>1. /\ next.at = "curr" /\ next.gives = s.gives /\ next.rows = Tail(s.rows)
      /\ next.total = s.total /\ next.delta = s.delta
    BY DEF Moving
<1>2. s.at \in {"curr", "max"}
    BY DEF Moving
<1>3. RowSet(site) = IF site.region = UNSET THEN {a} ELSE {a, b}
    BY DEF RowSet
<1> HIDE DEF next
<1>4. CASE s.rows = <<a>> /\ site.region = UNSET
    <2> HIDE DEF a, b
    <2>1. Head(s.rows) = a /\ Len(s.rows) = 1
        BY <1>4, Pair
    <2>2. Left(s) = IF s.at = "curr" THEN {a} ELSE {}
        BY <1>2, <1>4, LeftIs
    <2> QED
        BY <2>1, <2>2, <1>3, <1>4
<1>5. CASE s.rows = <<a, b>> /\ site.region # UNSET
    <2>1. Head(s.rows) = a /\ Len(s.rows) = 2 /\ Tail(s.rows) = <<b>>
        BY <1>5, Pair
    <2>2. Left(s) = IF s.at = "curr" THEN {a, b} ELSE {b}
        <3> HIDE DEF a, b
        <3> QED
            BY <1>2, <1>5, LeftIs
    <2>3. Left(next) = {b}
        <3> HIDE DEF a, b
        <3> QED
            BY <1>1, <2>1, LeftIs
    <2>4. OnItsWay(next, site)
        BY <1>1, <1>5, <2>1 DEF OnItsWay, ItsRows, ItsBlock
    <2> HIDE DEF a, b
    <2> QED
        BY <1>0, <1>1, <1>3, <1>5, <2>1, <2>2, <2>3, <2>4 DEF next
<1>6. CASE s.rows = <<b>> /\ site.region # UNSET
    <2> HIDE DEF a, b
    <2>1. Head(s.rows) = b /\ Len(s.rows) = 1
        BY <1>6, Pair
    <2>2. Left(s) = IF s.at = "curr" THEN {b} ELSE {}
        BY <1>2, <1>6, LeftIs
    <2> QED
        BY <2>1, <2>2, <1>3, <1>6
<1> QED
    BY <1>4, <1>5, <1>6 DEF OnItsWay, ItsRows

\* Once a row is moved, its maximum is left, or the next row, or nothing.
Raising(s, n) == [s EXCEPT !.at = "max", !.now = n]
LEMMA AfterCurr ==
    ASSUME NEW s \in Moving, NEW site \in SiteIds, OnItsWay(s, site), s.at = "curr", s.delta > 0,
           NEW n \in Int
    PROVE  LET next == Raising(s, n)
           IN  /\ Left(next) = Left(s) \ {Head(s.rows)} /\ OnItsWay(next, site)
               /\ next.at = "max" /\ next.gives = s.gives /\ next.now = n /\ next.rows = s.rows
               /\ next.total = s.total /\ next.delta = s.delta
<1> DEFINE a == ThreadRow(site.thread)  b == RegionRow(site.region)
           next == Raising(s, n)
<1>0. a # b
    BY RowNames
<1>1. /\ next.at = "max" /\ next.gives = s.gives /\ next.rows = s.rows /\ next.now = n
      /\ next.total = s.total /\ next.delta = s.delta
    BY DEF Moving, Raising
<1> HIDE DEF next
<1>2. OnItsWay(next, site)
    BY <1>1 DEF OnItsWay, ItsRows, ItsBlock
<1>3. Left(next) = Left(s) \ {Head(s.rows)}
    <2> HIDE DEF a, b
    <2>1. CASE s.rows = <<a>>
        <3>1. Left(next) = {} /\ Left(s) = {a} /\ Head(s.rows) = a
            BY <1>1, <2>1, LeftIs, Pair
        <3> QED
            BY <3>1
    <2>2. CASE s.rows = <<a, b>>
        <3>1. Left(next) = {b} /\ Left(s) = {a, b} /\ Head(s.rows) = a
            BY <1>1, <2>2, LeftIs, Pair
        <3> QED
            BY <3>1, <1>0
    <2>3. CASE s.rows = <<b>>
        <3>1. Left(next) = {} /\ Left(s) = {b} /\ Head(s.rows) = b
            BY <1>1, <2>3, LeftIs, Pair
        <3> QED
            BY <3>1
    <2> QED
        BY <2>1, <2>2, <2>3 DEF OnItsWay, ItsRows, a, b
<1> QED
    BY <1>1, <1>2, <1>3 DEF next

\* A step inside the gate: the rows left become fewer by `moved`, and at the end
\* the program gets its block.
Advances(t, site, moved) ==
    /\ InGate(pc[t]) /\ OnItsWay(pc[t], site)
    /\ \A u \in Recorders \ {t} : pc'[u] = pc[u]
    /\ Left(pc'[t]) = Left(pc[t]) \ moved
    /\ \/ /\ InGate(pc'[t]) /\ OnItsWay(pc'[t], site) /\ live' = live
          /\ pc'[t].gives = pc[t].gives /\ pc'[t].total = pc[t].total /\ pc'[t].delta = pc[t].delta
       \/ pc'[t] = Idle /\ Left(pc'[t]) = {} /\ live' = live \cup pc[t].gives

LEMMA NextRowAdvances ==
    ASSUME Types, NEW t \in Recorders, NextRow(t), InGate(pc[t]), NEW site \in SiteIds,
           OnItsWay(pc[t], site)
    PROVE  Advances(t, site, IF pc[t].at = "curr" THEN {Row(t)} ELSE {})
<1> DEFINE s == pc[t]  next == [s EXCEPT !.at = "curr", !.rows = Tail(@)]
<1>0. s \in Moving /\ Row(t) = Head(s.rows)
    BY MovingTypes DEF InGate, Row
<1>1. CASE Len(s.rows) = 1
    <2>1. pc'[t] = Idle /\ (\A u \in Recorders \ {t} : pc'[u] = pc[u]) /\ live' = live \cup s.gives
        BY <1>1 DEF NextRow, Goto, Types
    <2>2. Left(pc'[t]) = {}
        BY <2>1, LeftIs DEF Idle, InGate
    <2>3. IF s.at = "curr" THEN Left(s) \ {Row(t)} = {} ELSE Left(s) = {}
        BY <1>0, <1>1, AfterRow
    <2> QED
        BY <2>1, <2>2, <2>3 DEF Advances
<1>2. CASE Len(s.rows) # 1
    <2>1. pc'[t] = next /\ (\A u \in Recorders \ {t} : pc'[u] = pc[u]) /\ live' = live
        BY <1>2 DEF NextRow, Goto, Types
    <2>2. /\ Left(next) = IF s.at = "curr" THEN Left(s) \ {Row(t)} ELSE Left(s)
          /\ OnItsWay(next, site) /\ next.at = "curr" /\ next.gives = s.gives
          /\ next.total = s.total /\ next.delta = s.delta
        BY <1>0, <1>2, AfterRow
    <2> HIDE DEF next
    <2> QED
        BY <2>1, <2>2 DEF Advances, InGate
<1> QED
    BY <1>1, <1>2

LEMMA MoveCurrAdvances ==
    ASSUME Types, NEW t \in Recorders, MoveCurr(t), NEW site \in SiteIds, OnItsWay(pc[t], site)
    PROVE  Advances(t, site, {Row(t)}) /\ Row(t) \in Left(pc[t]) /\ Row(t) \in RowSet(site)
<1> DEFINE s == pc[t]  n == tally[Row(t)].curr + s.delta
           next == Raising(s, n)
<1>0. s.at = "curr" /\ s \in Moving /\ Row(t) = Head(s.rows) /\ Row(t) \in Rows /\ n \in Int
    <2>1. s.at = "curr" /\ Row(t) = Head(s.rows)
        BY DEF MoveCurr, Row
    <2>2. s \in Moving /\ Row(t) \in Rows /\ s.delta \in Int
        BY <2>1, MovingTypes
    <2>3. tally[Row(t)].curr \in Int
        BY <2>2 DEF Types, Holds
    <2> QED
        BY <2>1, <2>2, <2>3
<1>1. Row(t) \in Left(s) /\ Row(t) \in RowSet(site)
    <2> HIDE DEF s
    <2>1. Head(s.rows) \in RowSet(site) /\ (s.at = "curr" => Head(s.rows) \in Left(s))
        BY <1>0, AfterRow DEF s
    <2> QED
        BY <1>0, <2>1
<1>2. CASE s.delta > 0
    <2>1. pc'[t] = next /\ (\A u \in Recorders \ {t} : pc'[u] = pc[u]) /\ live' = live
        BY <1>2 DEF MoveCurr, Goto, Types, Raising
    <2>2. /\ Left(next) = Left(s) \ {Row(t)} /\ OnItsWay(next, site)
          /\ next.at = "max" /\ next.gives = s.gives
          /\ next.total = s.total /\ next.delta = s.delta
        <3> HIDE DEF s, n
        <3>1. OnItsWay(s, site)
            BY DEF s
        <3> QED
            BY <1>0, <1>2, <3>1, AfterCurr
    <2> HIDE DEF next
    <2> QED
        BY <1>0, <1>1, <2>1, <2>2 DEF Advances, InGate
<1>3. CASE ~(s.delta > 0)
    <2>1. NextRow(t)
        BY <1>3 DEF MoveCurr
    <2> QED
        BY <2>1, <1>0, <1>1, NextRowAdvances DEF InGate
<1> QED
    BY <1>2, <1>3

LEMMA FetchMaxAdvances ==
    ASSUME Types, NEW t \in Recorders, FetchMax(t), NEW site \in SiteIds, OnItsWay(pc[t], site)
    PROVE  Advances(t, site, {})
BY NextRowAdvances DEF FetchMax, InGate

-----------------------------------------------------------------------------
(* An event begins: what it moves in the totals is what it has to move in    *)
(* its rows, and what the block it frees had is lost.                        *)

Lost(site, freed, lost) ==
    \/ freed = {} /\ lost = 0
    \/ \E c \in live : freed = {c} /\ c.site = site /\ c.size = lost

Records(t, site, freed, lost) ==
    /\ pc[t] = Idle /\ ~Shut /\ Sited(site)
    /\ pc'[t].at = "curr" /\ pc'[t] \in Moving /\ OnItsWay(pc'[t], site)
    /\ Left(pc'[t]) = RowSet(site)
    /\ pc'[t].delta = pc'[t].total - lost
    /\ \A u \in Recorders \ {t} : pc'[u] = pc[u]
    /\ totals' = Plus(totals, pc'[t].total, pc'[t].delta)
    /\ outside' = IF site.region = UNSET THEN Plus(outside, pc'[t].total, pc'[t].delta) ELSE outside
    /\ live' = live \ freed /\ Lost(site, freed, lost)
    /\ UNCHANGED <<tally, poisoned, top, threads, phases, reader>>

LEMMA CommitRecords ==
    ASSUME Types, NEW t \in Recorders, NEW site \in SiteIds, Sited(site),
           NEW total \in Nat, NEW delta \in Int, NEW gives \in Gifts,
           Commit(t, site, total, delta, gives),
           NEW freed, NEW lost \in Nat, Lost(site, freed, lost), live' = live \ freed,
           delta = total - lost,
           \/ gives = {} /\ total = 0
           \/ \E b \in Blocks : gives = {b} /\ b.site = site /\ b.size = total
    PROVE  Records(t, site, freed, lost)
<1> DEFINE a == ThreadRow(site.thread)  b == RegionRow(site.region)
           s == [at |-> "curr", rows |-> RowsOf(site), total |-> total, delta |-> delta,
                 gives |-> gives, now |-> 0]
<1>1. pc'[t] = s /\ \A u \in Recorders \ {t} : pc'[u] = pc[u]
    BY DEF Commit, Goto, Types
<1>2. s.at = "curr" /\ s.rows = RowsOf(site) /\ s.total = total /\ s.delta = delta /\ s.gives = gives
    OBVIOUS
<1>3. s \in Moving
    BY TwoRows DEF Moving
<1> HIDE DEF s
<1>4. ItsRows(s, site)
    BY <1>2, TwoRows DEF ItsRows
<1>5. ItsBlock(s, site)
    BY <1>2 DEF ItsBlock
<1>6. Left(s) = RowSet(site)
    <2>1. CASE site.region = UNSET
        <3>1. s.rows = <<a>> /\ RowSet(site) = {a}
            BY <1>2, <2>1, TwoRows DEF RowSet
        <3> HIDE DEF a
        <3> QED
            BY <3>1, <1>2, LeftIs
    <2>2. CASE site.region # UNSET
        <3>1. s.rows = <<a, b>> /\ RowSet(site) = {a, b}
            BY <1>2, <2>2, TwoRows DEF RowSet
        <3> HIDE DEF a, b
        <3> QED
            BY <3>1, <1>2, LeftIs
    <2> QED
        BY <2>1, <2>2
<1> HIDE DEF a, b
<1> QED
    BY <1>1, <1>2, <1>3, <1>4, <1>5, <1>6 DEF Records, Commit, OnItsWay

LEMMA AllocRecords ==
    ASSUME Types, Owned, Placed, NEW t \in Recorders, NEW size \in Sizes, RecordAlloc(t, size)
    PROVE  \E site \in SiteIds, lost \in Nat : \E freed : Records(t, site, freed, lost)
<1> DEFINE site == [thread |-> thread[t], region |-> region[t]]
           b == [site |-> site, size |-> size, born |-> spent]
<1>1. site \in SiteIds /\ Sited(site)
    BY DEF RecordAlloc, Types, Known, Phases, SiteIds, Owned, Placed, Sited
<1>2. b \in Blocks /\ b.site = site /\ b.size = size
    BY <1>1 DEF Blocks, Types, Holds
<1>3. Commit(t, site, size, size, {b}) /\ live' = live \ {}
    BY DEF RecordAlloc
<1>4. size \in Nat /\ size \in Int /\ {b} \in Gifts /\ size = size - 0 /\ Lost(site, {}, 0)
    BY <1>2, Constants DEF Gifts, Lost
<1> HIDE DEF site, b
<1>5. Records(t, site, {}, 0)
    BY <1>1, <1>2, <1>3, <1>4, CommitRecords
<1> QED
    BY <1>1, <1>5

LEMMA ReallocRecords ==
    ASSUME Types, Placed, NEW t \in Recorders, NEW b \in live, NEW size \in Sizes,
           RecordRealloc(t, b, size)
    PROVE  \E site \in SiteIds, lost \in Nat : \E freed : Records(t, site, freed, lost)
<1> DEFINE c == [b EXCEPT !.size = size]
<1>1. b \in Blocks /\ b.site \in SiteIds /\ Sited(b.site) /\ b.size \in Nat
    BY BlockOf DEF Types, Holds, Placed
<1>2. c \in Blocks /\ c.site = b.site /\ c.size = size
    BY <1>1, BlockOf
<1>3. Commit(t, b.site, size, size - b.size, {c}) /\ live' = live \ {b}
    BY DEF RecordRealloc
<1>4. size \in Nat /\ size - b.size \in Int /\ {c} \in Gifts /\ Lost(b.site, {b}, b.size)
    BY <1>1, <1>2, Constants DEF Gifts, Lost
<1> HIDE DEF c
<1>5. Records(t, b.site, {b}, b.size)
    BY <1>1, <1>2, <1>3, <1>4, CommitRecords
<1> QED
    BY <1>1, <1>5

LEMMA FreeRecords ==
    ASSUME Types, Placed, NEW t \in Recorders, NEW b \in live, RecordFree(t, b)
    PROVE  \E site \in SiteIds, lost \in Nat : \E freed : Records(t, site, freed, lost)
<1>1. b \in Blocks /\ b.site \in SiteIds /\ Sited(b.site) /\ b.size \in Nat
    BY BlockOf DEF Types, Holds, Placed
<1>2. Commit(t, b.site, 0, -b.size, {}) /\ live' = live \ {b}
    BY DEF RecordFree
<1>3. 0 \in Nat /\ -b.size \in Int /\ -b.size = 0 - b.size /\ {} \in Gifts /\ Lost(b.site, {b}, b.size)
    BY <1>1 DEF Gifts, Lost
<1>4. Records(t, b.site, {b}, b.size)
    BY <1>1, <1>2, <1>3, CommitRecords
<1> QED
    BY <1>1, <1>4

-----------------------------------------------------------------------------
(* The rows of blocks, guards and events stay there *)

LEMMA SitedStays ==
    ASSUME Types, Types', published \subseteq published',
           \A i \in RegionIds : entries[i] <= entries'[i]
    PROVE  /\ \A site \in SiteIds : Sited(site) => Sited(site)'
           /\ \A i \in RegionIds : entries[i] # 0 => entries'[i] # 0
<1>1. \A i \in RegionIds : entries[i] # 0 => entries'[i] # 0
    BY DEF Types, Phases
<1>2. ASSUME NEW site \in SiteIds, Sited(site) PROVE Sited(site)'
    BY <1>1, <1>2 DEF Sited, SiteIds
<1> QED
    BY <1>1, <1>2

LEMMA StandInit == Init => Underway /\ Placed /\ Empty
<1> SUFFICES ASSUME Init PROVE Underway /\ Placed /\ Empty
    OBVIOUS
<1>1. Underway
    BY DEF Init, Underway, InGate, Idle
<1>2. Placed
    BY DEF Init, Placed
<1>3. Empty
    BY DEF Init, Empty, Rows, ThreadIds, RegionRows
<1> QED
    BY <1>1, <1>2, <1>3

\* Steps beside the gate.
LEMMA BesideKeepsEvents ==
    ASSUME Types, Types', NEW t \in Recorders, Beside(t), Underway, Empty
    PROVE  Underway' /\ Empty'
<1>1. published \subseteq published' /\ \A i \in RegionIds : entries[i] <= entries'[i]
    BY DEF Beside
<1>2. /\ \A site \in SiteIds : Sited(site) => Sited(site)'
      /\ \A i \in RegionIds : entries[i] # 0 => entries'[i] # 0
    BY <1>1, SitedStays
<1>3. Underway'
    <2> SUFFICES ASSUME NEW u \in Recorders, InGate(pc'[u])
                 PROVE  \E site \in SiteIds : Sited(site)' /\ OnItsWay(pc'[u], site)
        BY DEF Underway
    <2>1. u # t /\ pc'[u] = pc[u]
        BY DEF Beside
    <2> QED
        BY <2>1, <1>2 DEF Underway
<1>4. Empty'
    BY <1>1, <1>2 DEF Empty, Beside
<1> QED
    BY <1>3, <1>4

LEMMA BesideKeepsPlaces ==
    ASSUME Types, Types', NEW t \in Recorders, Beside(t), Placed, UNCHANGED <<region, guards>>
    PROVE  Placed'
<1>1. published \subseteq published' /\ \A i \in RegionIds : entries[i] <= entries'[i]
    BY DEF Beside
<1>2. /\ \A site \in SiteIds : Sited(site) => Sited(site)'
      /\ \A i \in RegionIds : entries[i] # 0 => entries'[i] # 0
    BY <1>1, SitedStays
<1>3. \A b \in live' : Sited(b.site)'
    <2>1. live' = live
        BY DEF Beside
    <2>2. \A b \in live : b.site \in SiteIds
        BY BlockOf DEF Types, Holds
    <2> QED
        BY <2>1, <2>2, <1>2 DEF Placed
<1>4. \A u \in Recorders :
          /\ region[u] # UNSET => entries'[region[u]] # 0
          /\ \A g \in guards[u] : g.previous # UNSET => entries'[g.previous] # 0
    BY <1>2 DEF Placed, Types, Phases, Guards
<1> QED
    BY <1>3, <1>4 DEF Placed

LEMMA EnterKeepsPlaces ==
    ASSUME Types, Types', NEW t \in Recorders, EnterRegion(t), Placed
    PROVE  Placed'
<1> DEFINE id == pc[t].id
           g == [id |-> id, previous |-> region[t], nth |-> entries[id]]
<1>0. Beside(t) /\ id \in RegionIds
    BY EnterRegionIsBeside
<1>1. /\ \A site \in SiteIds : Sited(site) => Sited(site)'
      /\ \A i \in RegionIds : entries[i] # 0 => entries'[i] # 0
    BY <1>0, SitedStays DEF Beside
<1>2. /\ region'[t] = id /\ \A u \in Recorders \ {t} : region'[u] = region[u]
      /\ guards'[t] = guards[t] \cup {g} /\ \A u \in Recorders \ {t} : guards'[u] = guards[u]
      /\ entries'[id] # 0
    <2>1. region'[t] = id /\ \A u \in Recorders \ {t} : region'[u] = region[u]
        BY DEF EnterRegion, Types, Phases
    <2>2. guards'[t] = guards[t] \cup {g} /\ \A u \in Recorders \ {t} : guards'[u] = guards[u]
        BY DEF EnterRegion, Types, Phases
    <2>3. entries'[id] = entries[id] + 1 /\ entries[id] \in Nat
        BY <1>0 DEF EnterRegion, Types, Phases
    <2> QED
        BY <2>1, <2>2, <2>3
<1>3. g.previous = region[t]
    OBVIOUS
<1> HIDE DEF id, g
<1>4. \A b \in live' : Sited(b.site)'
    <2>1. live' = live
        BY <1>0 DEF Beside
    <2>2. \A b \in live : b.site \in SiteIds
        BY BlockOf DEF Types, Holds
    <2> QED
        BY <2>1, <2>2, <1>1 DEF Placed
<1>5. ASSUME NEW u \in Recorders, region'[u] # UNSET PROVE entries'[region'[u]] # 0
    <2>1. region[u] \in RegionIds \cup {UNSET}
        BY DEF Types, Phases
    <2>2. CASE u # t
        BY <1>1, <1>2, <1>5, <2>1, <2>2 DEF Placed
    <2>3. CASE u = t
        BY <1>1, <1>2, <2>3
    <2> QED
        BY <2>2, <2>3
<1>6. ASSUME NEW u \in Recorders, NEW h \in guards'[u], h.previous # UNSET
      PROVE  entries'[h.previous] # 0
    <2>1. CASE h \in guards[u]
        <3>1. h.previous \in RegionIds
            BY <2>1, <1>6 DEF Types, Phases, Guards
        <3> QED
            BY <2>1, <3>1, <1>1, <1>6 DEF Placed
    <2>2. CASE h \notin guards[u]
        <3>1. u = t /\ h = g
            BY <2>2, <1>2, <1>6
        <3>2. region[t] \in RegionIds
            BY <3>1, <1>3, <1>6 DEF Types, Phases
        <3> QED
            BY <3>1, <3>2, <1>1, <1>3, <1>6 DEF Placed
    <2> QED
        BY <2>1, <2>2
<1> QED
    BY <1>4, <1>5, <1>6 DEF Placed

LEMMA LeaveKeepsPlaces ==
    ASSUME Types, NEW t \in Recorders, NEW g \in guards[t], LeaveRegion(t, g), Placed
    PROVE  Placed'
<1>1. /\ region'[t] = g.previous /\ \A u \in Recorders \ {t} : region'[u] = region[u]
      /\ \A u \in Recorders : guards'[u] \subseteq guards[u]
      /\ UNCHANGED <<live, entries, published>>
    BY DEF LeaveRegion, Types, Phases, threads
<1>2. \A b \in live' : Sited(b.site)'
    BY <1>1 DEF Placed, Sited
<1> QED
    BY <1>1, <1>2 DEF Placed

\* An event begins.
LEMMA RecordsKeepsEvents ==
    ASSUME Types, NEW t \in Recorders, NEW site \in SiteIds, NEW freed, NEW lost \in Nat,
           Records(t, site, freed, lost), Underway, Placed, Empty
    PROVE  Underway' /\ Placed' /\ Empty'
<1>1. UNCHANGED <<tally, published, entries, region, guards>> /\ live' \subseteq live
    BY DEF Records, threads, phases
<1>2. \A s \in SiteIds : Sited(s) => Sited(s)'
    BY <1>1 DEF Sited
<1>3. Underway'
    <2> SUFFICES ASSUME NEW u \in Recorders, InGate(pc'[u])
                 PROVE  \E s \in SiteIds : Sited(s)' /\ OnItsWay(pc'[u], s)
        BY DEF Underway
    <2>1. CASE u = t
        BY <2>1, <1>2 DEF Records
    <2>2. CASE u # t
        BY <2>2, <1>2 DEF Underway, Records
    <2> QED
        BY <2>1, <2>2
<1>4. Placed'
    BY <1>1 DEF Placed, Sited
<1>5. Empty'
    BY <1>1 DEF Empty
<1> QED
    BY <1>3, <1>4, <1>5

\* An event goes on.
LEMMA AdvanceKeepsEvents ==
    ASSUME Types, NEW t \in Recorders, NEW site \in SiteIds, Sited(site), NEW moved,
           Advances(t, site, moved), Underway, Placed,
           UNCHANGED <<threads, phases>>
    PROVE  Underway' /\ Placed'
<1>1. UNCHANGED <<published, entries, region, guards>>
    BY DEF threads, phases
<1>2. \A s : Sited(s) => Sited(s)'
    BY <1>1 DEF Sited
<1>3. Underway'
    <2> SUFFICES ASSUME NEW u \in Recorders, InGate(pc'[u])
                 PROVE  \E s \in SiteIds : Sited(s)' /\ OnItsWay(pc'[u], s)
        BY DEF Underway
    <2>1. CASE u = t
        <3>1. ~InGate(Idle)
            BY DEF InGate, Idle
        <3> QED
            BY <2>1, <3>1, <1>2 DEF Advances
    <2>2. CASE u # t
        BY <2>2, <1>2 DEF Underway, Advances
    <2> QED
        BY <2>1, <2>2
<1>4. \A b \in live' : Sited(b.site)'
    <2> SUFFICES ASSUME NEW b \in live', b \notin live PROVE Sited(b.site)'
        BY <1>2 DEF Placed
    <2>1. b \in pc[t].gives
        BY DEF Advances
    <2>2. b.site = site
        BY <2>1 DEF Advances, OnItsWay, ItsBlock
    <2> QED
        BY <2>2, <1>2
<1> QED
    BY <1>1, <1>3, <1>4 DEF Placed

LEMMA RowChangesKeepEmpty ==
    ASSUME Types, NEW site \in SiteIds, Sited(site), NEW r \in RowSet(site),
           \A q \in Rows \ {r} : tally'[q] = tally[q], UNCHANGED <<published, entries>>, Empty
    PROVE  Empty'
<1>1. ASSUME NEW i \in (0..MAX_THREADS - 1) \ published
      PROVE  tally'[ThreadRow(i)] = [total |-> 0, curr |-> 0, max |-> 0]
    <2>1. i # OVERFLOW
        BY Constants
    <2>2. ThreadRow(i) \in Rows
        BY DEF Rows, ThreadIds
    <2>3. ThreadRow(i) # r
        BY <2>1, RowNames DEF RowSet, Sited
    <2> QED
        BY <2>2, <2>3 DEF Empty
<1>2. ASSUME NEW i \in RegionIds, entries[i] = 0
      PROVE  tally'[RegionRow(i)].total = 0 /\ tally'[RegionRow(i)].curr = 0
    <2>1. RegionRow(i) \in Rows
        BY DEF Rows, RegionRows
    <2>2. RegionRow(i) # r
        BY <1>2, RowNames DEF RowSet, Sited
    <2> QED
        BY <1>2, <2>1, <2>2 DEF Empty
<1> QED
    BY <1>1, <1>2 DEF Empty

LEMMA RestartKeepsEvents ==
    ASSUME Types, Restart, Underway, Placed, Empty
    PROVE  Underway' /\ Placed' /\ Empty'
<1>1. UNCHANGED <<pc, live, published, entries, region, guards>>
    BY DEF Restart, threads, phases
<1>2. Underway' /\ Placed'
    BY <1>1 DEF Underway, Placed, Sited
<1>3. \A r \in Rows : tally'[r] = [total |-> 0, curr |-> tally[r].curr, max |-> tally[r].curr]
    BY DEF Restart
<1>4. \A i \in 0..MAX_THREADS - 1 : ThreadRow(i) \in Rows
    BY DEF Rows, ThreadIds
<1>5. \A i \in RegionIds : RegionRow(i) \in Rows
    BY DEF Rows, RegionRows
<1>6. ASSUME NEW i \in (0..MAX_THREADS - 1) \ published
      PROVE  tally'[ThreadRow(i)] = [total |-> 0, curr |-> 0, max |-> 0]
    BY <1>3, <1>4, <1>6 DEF Empty
<1>7. ASSUME NEW i \in RegionIds, entries[i] = 0
      PROVE  tally'[RegionRow(i)].total = 0 /\ tally'[RegionRow(i)].curr = 0
    BY <1>3, <1>5, <1>7 DEF Empty
<1> QED
    BY <1>1, <1>2, <1>6, <1>7 DEF Empty

-----------------------------------------------------------------------------
(* What rows hold: at least the live blocks and what is on its way *)

\* Both rows of a site.  A block of no region is in a row that is not there,
\* of what was recorded outside every region.
NoRegion == RegionRow(UNSET)
Both(site) == {ThreadRow(site.thread), RegionRow(site.region)}
Balance(a) == IF a = NoRegion THEN outside.curr ELSE tally[a].curr
SizeIn(a) == [b \in Blocks |-> IF a \in Both(b.site) THEN b.size ELSE 0]
InLive(a) == SumFunctionOnSet(SizeIn(a), live)

\* The block an event is about to give, less what it has not yet moved.
Owes(s, a) ==
    (IF \E b \in Given(s) : a \in Both(b.site) THEN s.total ELSE 0)
      - (IF a \in Left(s) THEN s.delta ELSE 0)
Pending(a) == [u \in Recorders |-> Owes(pc[u], a)]

Holdings ==
    /\ \A a \in Rows \cup {NoRegion} : Balance(a) >= InLive(a) + SumFunction(Pending(a))
    /\ outside.total >= 0

LEMMA NoRegionIs ==
    /\ NoRegion \notin Rows
    /\ \A site \in SiteIds : /\ RowSet(site) \subseteq Rows /\ RowSet(site) \subseteq Both(site)
                             /\ \A a \in Rows : a \in RowSet(site) <=> a \in Both(site)
                             /\ NoRegion \in Both(site) <=> site.region = UNSET
<1>1. NoRegion \notin Rows
    BY RowNames, Constants DEF NoRegion, Rows, RegionRows
<1>2. ASSUME NEW site \in SiteIds
      PROVE  /\ RowSet(site) \subseteq Rows /\ RowSet(site) \subseteq Both(site)
             /\ \A a \in Rows : a \in RowSet(site) <=> a \in Both(site)
             /\ NoRegion \in Both(site) <=> site.region = UNSET
    <2>1. RowSet(site) \subseteq Rows /\ RowSet(site) \subseteq Both(site)
        BY TwoRows DEF RowSet, Both
    <2>2. NoRegion \in Both(site) <=> site.region = UNSET
        BY RowNames DEF NoRegion, Both
    <2>3. ASSUME NEW a \in Rows, a \in Both(site) PROVE a \in RowSet(site)
        BY <1>1, <2>3 DEF RowSet, Both, NoRegion
    <2> QED
        BY <2>1, <2>2, <2>3
<1> QED
    BY <1>1, <1>2

LEMMA OwesIs ==
    ASSUME NEW s \in Moving, NEW site \in SiteIds, OnItsWay(s, site), NEW a
    PROVE  /\ Owes(s, a) = (IF a \in Both(site) THEN s.total ELSE 0)
                             - (IF a \in Left(s) THEN s.delta ELSE 0)
           /\ Owes(s, a) \in Nat
           /\ s.total \in Nat /\ s.delta \in Int /\ s.delta <= s.total
<1>1. InGate(s) /\ s.total \in Nat /\ s.delta \in Int
    BY DEF Moving, InGate
<1>2. Given(s) = s.gives
    BY <1>1 DEF Given
<1>3. s.delta <= s.total
    BY <1>1 DEF OnItsWay, ItsBlock
<1>4. (IF \E b \in Given(s) : a \in Both(b.site) THEN s.total ELSE 0) =
         (IF a \in Both(site) THEN s.total ELSE 0)
    BY <1>2 DEF OnItsWay, ItsBlock
<1>5. a \in Left(s) => a \in Both(site)
    BY AfterRow, NoRegionIs
<1>6. Owes(s, a) = (IF a \in Both(site) THEN s.total ELSE 0)
                     - (IF a \in Left(s) THEN s.delta ELSE 0)
    BY <1>4 DEF Owes
<1> QED
    BY <1>1, <1>3, <1>5, <1>6

LEMMA OwesNothing ==
    ASSUME NEW s, ~InGate(s), NEW a
    PROVE  Owes(s, a) = 0
BY LeftIs DEF Owes

LEMMA OwesNumber ==
    ASSUME NEW s \in Steps, NEW a, InGate(s) => \E site \in SiteIds : OnItsWay(s, site)
    PROVE  Owes(s, a) \in Nat
<1>1. CASE InGate(s)
    <2>1. s \in Moving
        BY <1>1, Shapes DEF InGate
    <2>2. PICK site \in SiteIds : OnItsWay(s, site)
        BY <1>1
    <2> QED
        BY <2>1, <2>2, OwesIs
<1>2. CASE ~InGate(s)
    BY <1>2, OwesNothing
<1> QED
    BY <1>1, <1>2

LEMMA OwesNoLess ==
    ASSUME Types, Underway, NEW a
    PROVE  /\ \A u \in Recorders : Owes(pc[u], a) \in Nat
           /\ Pending(a) \in [Recorders -> Nat] /\ SumFunction(Pending(a)) \in Nat
           /\ \A u \in Recorders : Owes(pc[u], a) <= SumFunction(Pending(a))
<1>1. ASSUME NEW u \in Recorders PROVE Owes(pc[u], a) \in Nat
    BY OwesNumber DEF Types, Underway
<1>2. Pending(a) \in [Recorders -> Nat] /\ \A u \in Recorders : Pending(a)[u] = Owes(pc[u], a)
    BY <1>1 DEF Pending
<1>3. SumFunction(Pending(a)) \in Nat /\ \A u \in Recorders : Pending(a)[u] <= SumFunction(Pending(a))
    BY <1>2, SumOfNaturals, Constants
<1> QED
    BY <1>1, <1>2, <1>3

\* One recorder's step.
LEMMA PendingMoves ==
    ASSUME Types, Types', Underway, Underway', NEW a, NEW t \in Recorders,
           \A u \in Recorders \ {t} : pc'[u] = pc[u]
    PROVE  /\ SumFunction(Pending(a)) \in Nat /\ SumFunction(Pending(a)') \in Nat
           /\ Owes(pc[t], a) \in Nat /\ Owes(pc'[t], a) \in Nat
           /\ SumFunction(Pending(a)') =
                 SumFunction(Pending(a)) + (Owes(pc'[t], a) - Owes(pc[t], a))
<1> DEFINE f == [u \in Recorders |-> Owes(pc[u], a)]
           h == [u \in Recorders |-> Owes(pc'[u], a)]
<1>1. ASSUME NEW u \in Recorders PROVE Owes(pc[u], a) \in Nat /\ Owes(pc'[u], a) \in Nat
    BY OwesNumber DEF Types, Underway
<1>2. f \in [Recorders -> Nat] /\ h \in [Recorders -> Nat] /\ f \in [Recorders -> Int] /\ h \in [Recorders -> Int]
    BY <1>1
<1>3. \A u \in Recorders : u # t => h[u] = f[u]
    OBVIOUS
<1>4. f[t] = Owes(pc[t], a) /\ h[t] = Owes(pc'[t], a)
    OBVIOUS
<1>5. Pending(a) = f /\ Pending(a)' = h
    BY DEF Pending
<1> HIDE DEF f, h
<1>6. SumFunction(h) = SumFunction(f) + (h[t] - f[t])
    BY <1>2, <1>3, SumUpdate, Constants
<1>7. SumFunction(f) \in Nat /\ SumFunction(h) \in Nat
    BY <1>2, SumOfNaturals, Constants
<1> QED
    BY <1>1, <1>4, <1>5, <1>6, <1>7

\* Live blocks.
LEMMA InLiveIs ==
    ASSUME Types, NEW a
    PROVE  /\ \A b \in Blocks : SizeIn(a)[b] \in Nat
           /\ IsFiniteSet(live) /\ live \subseteq Blocks
           /\ InLive(a) \in Nat
<1>1. \A b \in Blocks : SizeIn(a)[b] \in Nat
    BY BlockOf DEF SizeIn
<1>2. IsFiniteSet(live) /\ live \subseteq Blocks
    BY DEF Types, Holds
<1>3. InLive(a) \in Nat
    <2> DEFINE f == SizeIn(a)
    <2> HIDE DEF f
    <2>1. \A b \in live : f[b] \in Nat
        BY <1>1, <1>2 DEF f
    <2>2. SumFunctionOnSet(f, live) \in Nat
        BY <2>1, <1>2, SumOnNaturals
    <2> QED
        BY <2>2 DEF InLive, f
<1> QED
    BY <1>1, <1>2, <1>3

LEMMA InLiveWithout ==
    ASSUME Types, NEW site \in SiteIds, NEW freed, NEW lost \in Nat, Lost(site, freed, lost),
           live' = live \ freed, NEW a
    PROVE  InLive(a)' = InLive(a) - (IF a \in Both(site) THEN lost ELSE 0)
<1> DEFINE f == SizeIn(a)
<1>0. InLive(a) = SumFunctionOnSet(f, live) /\ InLive(a)' = SumFunctionOnSet(f, live')
    BY DEF InLive, SizeIn
<1>1. InLive(a) \in Nat /\ (\A b \in live : f[b] \in Nat) /\ IsFiniteSet(live)
    BY InLiveIs
<1>2. CASE freed = {} /\ lost = 0
    <2>1. live' = live
        BY <1>2
    <2> QED
        BY <2>1, <1>0, <1>1, <1>2
<1>3. ASSUME NEW c \in live, freed = {c}, c.site = site, c.size = lost
      PROVE  InLive(a)' = InLive(a) - (IF a \in Both(site) THEN lost ELSE 0)
    <2>1. f[c] = IF a \in Both(site) THEN lost ELSE 0
        BY <1>3, InLiveIs DEF SizeIn
    <2> HIDE DEF f
    <2>2. /\ SumFunctionOnSet(f, live \ {c}) \in Int
          /\ SumFunctionOnSet(f, live) = f[c] + SumFunctionOnSet(f, live \ {c})
        BY <1>1, SumTakes
    <2>3. live' = live \ {c}
        BY <1>3
    <2>4. InLive(a)' = SumFunctionOnSet(f, live \ {c})
        BY <1>0, <2>3, Zenon
    <2>5. f[c] \in Int
        BY <1>1, <1>3
    <2> QED
        BY <1>0, <2>1, <2>2, <2>4, <2>5
<1> HIDE DEF f
<1> QED
    BY <1>2, <1>3 DEF Lost

LEMMA InLiveWith ==
    ASSUME Types, Types', NEW s \in Moving, NEW site \in SiteIds, OnItsWay(s, site),
           live' = live \cup s.gives, NEW a
    PROVE  InLive(a)' <= InLive(a) + (IF a \in Both(site) THEN s.total ELSE 0)
<1> DEFINE f == SizeIn(a)
<1>0. InLive(a) = SumFunctionOnSet(f, live) /\ InLive(a)' = SumFunctionOnSet(f, live')
    BY DEF InLive, SizeIn
<1>1. InLive(a) \in Nat /\ (\A b \in Blocks : f[b] \in Nat) /\ IsFiniteSet(live) /\ live \subseteq Blocks
      /\ s.total \in Nat
    BY InLiveIs DEF Moving
<1>2. CASE s.gives = {}
    <2>1. live' = live
        BY <1>2
    <2> QED
        BY <2>1, <1>0, <1>1
<1>3. ASSUME NEW b \in Blocks, s.gives = {b}, b.site = site, s.total = b.size
      PROVE  InLive(a)' <= InLive(a) + (IF a \in Both(site) THEN s.total ELSE 0)
    <2>1. f[b] = IF a \in Both(site) THEN s.total ELSE 0
        BY <1>3 DEF SizeIn
    <2> HIDE DEF f
    <2>2. \A x \in live \cup {b} : f[x] \in Nat
        BY <1>1
    <2>3. /\ SumFunctionOnSet(f, live \cup {b}) \in Nat
          /\ SumFunctionOnSet(f, live \cup {b}) <= SumFunctionOnSet(f, live) + f[b]
        BY <1>1, <2>2, SumWith
    <2>4. live' = live \cup {b}
        BY <1>3
    <2>5. InLive(a)' = SumFunctionOnSet(f, live \cup {b})
        BY <1>0, <2>4, Zenon
    <2> QED
        BY <1>0, <2>1, <2>3, <2>5
<1> HIDE DEF f
<1> QED
    BY <1>2, <1>3 DEF OnItsWay, ItsBlock

LEMMA HoldingsInit == Init => Holdings
<1> SUFFICES ASSUME Init PROVE Holdings
    OBVIOUS
<1>1. ASSUME NEW a \in Rows \cup {NoRegion}
      PROVE  Balance(a) >= InLive(a) + SumFunction(Pending(a))
    <2>1. InLive(a) = 0
        BY SumEmpty DEF Init, InLive
    <2>2. Pending(a) = [u \in Recorders |-> 0]
        BY OwesNothing DEF Init, Pending, Idle, InGate
    <2>3. SumFunction(Pending(a)) = 0
        BY <2>2, SumOfZeros, Constants
    <2>4. Balance(a) = 0
        BY DEF Init, Balance, Zero
    <2> QED
        BY <2>1, <2>3, <2>4
<1> QED
    BY <1>1 DEF Holdings, Init, Zero

\* What rows hold does not matter to a step beside them.
LEMMA HoldingsStay ==
    ASSUME Types, Types', Underway, Underway', NEW t \in Recorders, Holdings,
           \A u \in Recorders \ {t} : pc'[u] = pc[u],
           pc'[t] = pc[t] \/ (~InGate(pc[t]) /\ ~InGate(pc'[t])), live' = live,
           \A r \in Rows : tally'[r].curr = tally[r].curr,
           outside'.curr = outside.curr, outside'.total >= 0
    PROVE  Holdings'
<1>1. ASSUME NEW a \in Rows \cup {NoRegion}
      PROVE  (Balance(a) >= InLive(a) + SumFunction(Pending(a)))'
    <2>1. Balance(a)' = Balance(a)
        BY DEF Balance
    <2>2. InLive(a)' = InLive(a) /\ InLive(a) \in Nat
        BY InLiveIs DEF InLive, SizeIn
    <2>3. Owes(pc'[t], a) = Owes(pc[t], a)
        BY OwesNothing
    <2>4. SumFunction(Pending(a)') = SumFunction(Pending(a))
        BY <2>3, PendingMoves
    <2>5. Balance(a) >= InLive(a) + SumFunction(Pending(a))
        BY DEF Holdings
    <2> QED
        BY <2>1, <2>2, <2>4, <2>5
<1> QED
    BY <1>1 DEF Holdings

LEMMA BesideKeepsHoldings ==
    ASSUME Types, Types', Underway, Underway', NEW t \in Recorders, Beside(t), Holdings
    PROVE  Holdings'
BY HoldingsStay DEF Beside, Holdings

LEMMA StillKeepsHoldings ==
    ASSUME Types, Underway, Holdings, live' = live, pc' = pc,
           \A r \in Rows : tally'[r].curr = tally[r].curr,
           outside'.curr = outside.curr, outside'.total >= 0
    PROVE  Holdings'
<1>1. ASSUME NEW a \in Rows \cup {NoRegion}
      PROVE  (Balance(a) >= InLive(a) + SumFunction(Pending(a)))'
    <2>1. Balance(a)' = Balance(a)
        BY DEF Balance
    <2>2. InLive(a)' = InLive(a) /\ Pending(a)' = Pending(a)
        BY DEF InLive, SizeIn, Pending
    <2> QED
        BY <2>1, <2>2 DEF Holdings
<1> QED
    BY <1>1 DEF Holdings

LEMMA RestartKeepsHoldings ==
    ASSUME Types, Underway, Restart, Holdings
    PROVE  Holdings'
<1>1. /\ \A r \in Rows : tally'[r].curr = tally[r].curr
      /\ outside'.curr = outside.curr /\ outside'.total = 0
      /\ live' = live /\ pc' = pc
    BY DEF Restart, Types, Holds
<1> QED
    BY <1>1, StillKeepsHoldings

\* An event begins: the totals move at once, and the rows owe it.
LEMMA RecordsKeepsHoldings ==
    ASSUME Types, Types', Underway, Underway', NEW t \in Recorders, NEW site \in SiteIds,
           NEW freed, NEW lost \in Nat, Records(t, site, freed, lost), Holdings
    PROVE  Holdings'
<1> DEFINE s == pc'[t]
<1>0. s \in Moving /\ OnItsWay(s, site) /\ Left(s) = RowSet(site) /\ s.delta = s.total - lost
      /\ s.total \in Nat /\ s.delta \in Int
    BY OwesIs DEF Records
<1>1. ASSUME NEW a \in Rows \cup {NoRegion}
      PROVE  (Balance(a) >= InLive(a) + SumFunction(Pending(a)))'
    <2> DEFINE has == a \in Both(site)
    <2>1. InLive(a)' = InLive(a) - (IF has THEN lost ELSE 0) /\ InLive(a) \in Nat
        BY InLiveWithout, InLiveIs DEF Records
    <2>2. Owes(pc[t], a) = 0
        BY OwesNothing DEF Records, Idle, InGate
    <2>3. Owes(s, a) = (IF has THEN s.total ELSE 0) - (IF a \in RowSet(site) THEN s.delta ELSE 0)
        BY <1>0, OwesIs
    <2>4. /\ SumFunction(Pending(a)) \in Nat
          /\ SumFunction(Pending(a)') = SumFunction(Pending(a)) + (Owes(s, a) - Owes(pc[t], a))
        BY PendingMoves DEF Records
    <2>5. Balance(a) >= InLive(a) + SumFunction(Pending(a))
        BY DEF Holdings
    <2>6. Balance(a) \in Int
        BY DEF Balance, Types, Holds
    <2>7. CASE a = NoRegion
        <3>1. a \notin RowSet(site) /\ (has <=> site.region = UNSET)
            BY <2>7, NoRegionIs
        <3>2. Balance(a)' = Balance(a) + (IF has THEN s.delta ELSE 0)
            <4>1. outside \in [total : Int, curr : Int]
                BY DEF Types, Holds
            <4>2. outside'.curr = outside.curr + (IF site.region = UNSET THEN s.delta ELSE 0)
                BY <1>0, <4>1, PlusIs DEF Records
            <4> QED
                BY <2>7, <3>1, <4>2 DEF Balance
        <3> HIDE DEF has, s
        <3> QED
            BY <1>0, <2>1, <2>2, <2>3, <2>4, <2>5, <2>6, <3>1, <3>2
    <2>8. CASE a \in Rows
        <3>1. a \in RowSet(site) <=> has
            BY <2>8, NoRegionIs
        <3>2. Balance(a)' = Balance(a)
            BY <2>8, NoRegionIs DEF Balance, Records
        <3> HIDE DEF has, s
        <3> QED
            BY <1>0, <2>1, <2>2, <2>3, <2>4, <2>5, <2>6, <3>1, <3>2
    <2> QED
        BY <2>7, <2>8
<1>2. outside'.total >= 0
    <2>1. outside \in [total : Int, curr : Int] /\ outside.total >= 0
        BY DEF Types, Holds, Holdings
    <2> QED
        BY <1>0, <2>1, PlusIs DEF Records
<1> QED
    BY <1>1, <1>2 DEF Holdings

\* An event goes on: a row that is moved is owed as much less.
LEMMA AdvanceOwes ==
    ASSUME Types, Types', Underway, Underway', NEW t \in Recorders, NEW site \in SiteIds,
           NEW moved, moved \subseteq Left(pc[t]), Advances(t, site, moved), NEW a
    PROVE  /\ InLive(a) \in Nat /\ SumFunction(Pending(a)) \in Nat
           /\ InLive(a)' \in Nat /\ SumFunction(Pending(a)') \in Nat
           /\ InLive(a)' + SumFunction(Pending(a)') <=
                 InLive(a) + SumFunction(Pending(a)) + (IF a \in moved THEN pc[t].delta ELSE 0)
<1> DEFINE s == pc[t]  has == a \in Both(site)
<1>0. s \in Moving /\ OnItsWay(s, site) /\ s.total \in Nat /\ s.delta \in Int
      /\ \A u \in Recorders \ {t} : pc'[u] = pc[u]
    BY Shapes, OwesIs DEF Advances, InGate, Types
<1>1. InLive(a) \in Nat /\ InLive(a)' \in Nat
    <2>1. InLive(a) \in Nat
        BY InLiveIs
    <2>2. InLive(a)' \in Nat
        <3> DEFINE f == SizeIn(a)
        <3>1. IsFiniteSet(live') /\ live' \subseteq Blocks
            BY DEF Types, Holds
        <3>2. \A b \in live' : f[b] \in Nat
            BY <3>1, InLiveIs
        <3> HIDE DEF f
        <3>3. SumFunctionOnSet(f, live') \in Nat
            BY <3>1, <3>2, SumOnNaturals
        <3> QED
            BY <3>3 DEF InLive, SizeIn, f
    <2> QED
        BY <2>1, <2>2
<1>2. /\ SumFunction(Pending(a)) \in Nat /\ SumFunction(Pending(a)') \in Nat
      /\ Owes(pc[t], a) \in Nat /\ Owes(pc'[t], a) \in Nat
      /\ SumFunction(Pending(a)') =
            SumFunction(Pending(a)) + (Owes(pc'[t], a) - Owes(pc[t], a))
    BY <1>0, PendingMoves
<1>3. Owes(s, a) = (IF has THEN s.total ELSE 0) - (IF a \in Left(s) THEN s.delta ELSE 0)
    BY <1>0, OwesIs
<1>4. Left(pc'[t]) = Left(s) \ moved
    BY DEF Advances
<1>5. CASE /\ InGate(pc'[t]) /\ OnItsWay(pc'[t], site) /\ live' = live
           /\ pc'[t].gives = s.gives /\ pc'[t].total = s.total /\ pc'[t].delta = s.delta
    <2>1. pc'[t] \in Moving
        BY <1>5, Shapes DEF InGate, Types
    <2>2. Owes(pc'[t], a) = (IF has THEN s.total ELSE 0) - (IF a \in Left(s) \ moved THEN s.delta ELSE 0)
        BY <1>4, <1>5, <2>1, OwesIs
    <2>3. InLive(a)' = InLive(a)
        BY <1>5 DEF InLive, SizeIn
    <2> HIDE DEF s, has
    <2> QED
        BY <1>0, <1>1, <1>2, <1>3, <2>2, <2>3 DEF s
<1>6. CASE pc'[t] = Idle /\ Left(pc'[t]) = {} /\ live' = live \cup s.gives
    <2>1. Owes(pc'[t], a) = 0
        BY <1>6, OwesNothing DEF Idle, InGate
    <2>2. a \in Left(s) <=> a \in moved
        BY <1>4, <1>6
    <2>3. InLive(a)' <= InLive(a) + (IF has THEN s.total ELSE 0)
        BY <1>0, <1>6, InLiveWith
    <2> HIDE DEF s, has
    <2> QED
        BY <1>0, <1>1, <1>2, <1>3, <2>1, <2>2, <2>3 DEF s
<1> QED
    BY <1>5, <1>6 DEF Advances

\* What an add does to its row.
LEMMA RowMoves ==
    ASSUME Types, NEW t \in Recorders, MoveCurr(t)
    PROVE  LET r == Row(t)  next == tally[r].curr + pc[t].delta
           IN  /\ r \in Rows /\ next \in Int /\ pc[t] \in Moving
               /\ tally'[r].total = tally[r].total + pc[t].total
               /\ tally'[r].curr = Greater(next, 0) /\ tally'[r].max = tally[r].max
               /\ top'[r] = Greater(top[r], next)
               /\ \A q \in Rows \ {r} : tally'[q] = tally[q] /\ top'[q] = top[q]
<1> DEFINE r == Row(t)  next == tally[r].curr + pc[t].delta
<1>1. r \in Rows /\ next \in Int /\ pc[t] \in Moving
    BY MovingTypes DEF MoveCurr, Types, Holds
<1>2. tally' = [tally EXCEPT ![r].total = @ + pc[t].total, ![r].curr = Greater(next, 0)]
      /\ top' = [top EXCEPT ![r] = Greater(@, next)]
    BY DEF MoveCurr
<1>3. tally \in [Rows -> [total : Nat, curr : Nat, max : Nat]] /\ top \in [Rows -> Nat]
    BY DEF Types, Holds
<1> HIDE DEF r, next
<1>4. /\ tally'[r].total = tally[r].total + pc[t].total
      /\ tally'[r].curr = Greater(next, 0) /\ tally'[r].max = tally[r].max
      /\ top'[r] = Greater(top[r], next)
      /\ \A q \in Rows \ {r} : tally'[q] = tally[q] /\ top'[q] = top[q]
    BY <1>1, <1>2, <1>3
<1> QED
    BY <1>1, <1>4 DEF r, next

\* A row always holds what is taken from it.
LEMMA MoveCurrKeepsHoldings ==
    ASSUME Types, Types', Underway, Underway', NEW t \in Recorders, MoveCurr(t), Holdings,
           NEW site \in SiteIds, OnItsWay(pc[t], site)
    PROVE  /\ Holdings' /\ 0 <= tally[Row(t)].curr + pc[t].delta
           /\ tally'[Row(t)].curr = tally[Row(t)].curr + pc[t].delta
           /\ poisoned' = (poisoned \/ FALSE)
<1> DEFINE r == Row(t)  next == tally[r].curr + pc[t].delta
<1>0. /\ Advances(t, site, {r}) /\ r \in Left(pc[t])
      /\ pc[t].delta \in Int /\ r \in Rows /\ r # NoRegion
    BY MoveCurrAdvances, RowMoves, NoRegionIs DEF Moving
<1>a. {r} \subseteq Left(pc[t]) /\ outside' = outside
    BY <1>0 DEF MoveCurr
<1>b. /\ tally'[r].curr = Greater(next, 0) /\ next \in Int
      /\ \A q \in Rows \ {r} : tally'[q] = tally[q]
    BY RowMoves
<1> HIDE DEF r
<1>1. ASSUME NEW a
      PROVE  /\ InLive(a) \in Nat /\ SumFunction(Pending(a)) \in Nat
             /\ InLive(a)' \in Nat /\ SumFunction(Pending(a)') \in Nat
             /\ InLive(a)' + SumFunction(Pending(a)') <=
                   InLive(a) + SumFunction(Pending(a)) + (IF a \in {r} THEN pc[t].delta ELSE 0)
    BY <1>0, <1>a, AdvanceOwes
<1>3. 0 <= next
    <2>1. PICK q \in Rows : q = r
        BY <1>0
    <2>2. /\ InLive(q)' \in Nat /\ SumFunction(Pending(q)') \in Nat
          /\ InLive(q)' + SumFunction(Pending(q)') <=
                InLive(q) + SumFunction(Pending(q)) + (IF q \in {r} THEN pc[t].delta ELSE 0)
        BY <1>1
    <2>3. /\ Balance(q) >= InLive(q) + SumFunction(Pending(q)) /\ Balance(q) = tally[q].curr
          /\ tally[q].curr \in Nat /\ InLive(q) \in Nat /\ SumFunction(Pending(q)) \in Nat
        BY <1>1, NoRegionIs DEF Holdings, Balance, Types, Holds
    <2>4. 0 <= tally[q].curr + pc[t].delta
        BY <1>0, <2>1, <2>2, <2>3
    <2> QED
        BY <2>1, <2>4
<1>4. tally'[r].curr = next /\ poisoned' = (poisoned \/ FALSE)
    <2>1. poisoned' = (poisoned \/ next < 0)
        BY DEF MoveCurr, r
    <2>2. (next < 0) = FALSE
        BY <1>b, <1>3
    <2> QED
        BY <1>3, <1>b, <2>1, <2>2 DEF Greater
<1>5. ASSUME NEW a \in Rows \cup {NoRegion}
      PROVE  (Balance(a) >= InLive(a) + SumFunction(Pending(a)))'
    <2>1. Balance(a)' = Balance(a) + (IF a \in {r} THEN pc[t].delta ELSE 0)
        <3>1. CASE a = r
            BY <3>1, <1>0, <1>4 DEF Balance
        <3>2. CASE a # r
            BY <3>2, <1>a, <1>b, <1>0 DEF Balance, Types, Holds
        <3> QED
            BY <3>1, <3>2
    <2>2. Balance(a) >= InLive(a) + SumFunction(Pending(a)) /\ Balance(a) \in Int
        BY DEF Holdings, Balance, Types, Holds
    <2> QED
        BY <1>0, <1>1, <2>1, <2>2
<1>6. outside'.total >= 0
    BY DEF Holdings, MoveCurr
<1> QED
    BY <1>3, <1>4, <1>5, <1>6 DEF Holdings, r

LEMMA FetchMaxRow ==
    ASSUME Types, NEW t \in Recorders, FetchMax(t)
    PROVE  LET r == Row(t)
           IN  /\ r \in Rows /\ pc[t] \in Moving
               /\ tally'[r].total = tally[r].total /\ tally'[r].curr = tally[r].curr
               /\ tally'[r].max = Greater(tally[r].max, pc[t].now)
               /\ \A q \in Rows \ {r} : tally'[q] = tally[q]
               /\ UNCHANGED <<top, totals, outside, poisoned>>
<1> DEFINE r == Row(t)
<1>1. r \in Rows /\ pc[t] \in Moving
    BY MovingTypes DEF FetchMax
<1>2. tally' = [tally EXCEPT ![r].max = Greater(@, pc[t].now)]
      /\ UNCHANGED <<top, totals, outside, poisoned>>
    BY DEF FetchMax
<1>3. tally \in [Rows -> [total : Nat, curr : Nat, max : Nat]]
    BY DEF Types, Holds
<1> HIDE DEF r
<1>4. /\ tally'[r].total = tally[r].total /\ tally'[r].curr = tally[r].curr
      /\ tally'[r].max = Greater(tally[r].max, pc[t].now)
      /\ \A q \in Rows \ {r} : tally'[q] = tally[q]
    BY <1>1, <1>2, <1>3
<1> QED
    BY <1>1, <1>2, <1>4 DEF r

LEMMA FetchMaxKeepsHoldings ==
    ASSUME Types, Types', Underway, Underway', NEW t \in Recorders, FetchMax(t), Holdings,
           NEW site \in SiteIds, OnItsWay(pc[t], site)
    PROVE  Holdings'
<1>1. Advances(t, site, {}) /\ \A r \in Rows : tally'[r].curr = tally[r].curr
    BY FetchMaxAdvances, FetchMaxRow
<1>2. ASSUME NEW a \in Rows \cup {NoRegion}
      PROVE  (Balance(a) >= InLive(a) + SumFunction(Pending(a)))'
    <2>1. Balance(a)' = Balance(a)
        BY <1>1, FetchMaxRow DEF Balance
    <2>2. Balance(a) >= InLive(a) + SumFunction(Pending(a)) /\ Balance(a) \in Int
        BY DEF Holdings, Balance, Types, Holds
    <2>3. /\ InLive(a) \in Nat /\ SumFunction(Pending(a)) \in Nat
          /\ InLive(a)' \in Nat /\ SumFunction(Pending(a)') \in Nat
          /\ InLive(a)' + SumFunction(Pending(a)') <=
                InLive(a) + SumFunction(Pending(a)) + (IF a \in {} THEN pc[t].delta ELSE 0)
        BY <1>1, AdvanceOwes
    <2> QED
        BY <2>1, <2>2, <2>3
<1>3. outside'.total >= 0
    BY FetchMaxRow DEF Holdings
<1> QED
    BY <1>2, <1>3 DEF Holdings

-----------------------------------------------------------------------------
(* The books: the rows of a kind add up to the totals, less what events have *)
(* still to move, and for regions what was recorded outside all of them      *)

Kinds == {"thread", "region"}
Fields == {"total", "curr"}
Ids(kind) == IF kind = "thread" THEN ThreadIds ELSE RegionIds
Field(c, field) == IF field = "total" THEN c.total ELSE c.curr
Amount(s, field) == IF field = "total" THEN s.total ELSE s.delta
Owing(s, kind) == \E i \in Ids(kind) : <<kind, i>> \in Left(s)
DueOf(s, kind, field) == IF Owing(s, kind) THEN Amount(s, field) ELSE 0

KindTally(kind, field) == [i \in Ids(kind) |-> Field(tally[<<kind, i>>], field)]
Due(kind, field) == [u \in Recorders |-> DueOf(pc[u], kind, field)]
Beyond(kind, field) == IF kind = "region" THEN Field(outside, field) ELSE 0

Books ==
    \A kind \in Kinds, field \in Fields :
       Field(totals, field) = SumFunction(KindTally(kind, field)) + SumFunction(Due(kind, field))
                                 + Beyond(kind, field)

LEMMA KindsOfRows ==
    /\ \A kind \in Kinds : IsFiniteSet(Ids(kind))
    /\ \A kind \in Kinds : \A i \in Ids(kind) : <<kind, i>> \in Rows
    /\ \A r \in Rows : \E kind \in Kinds : \E i \in Ids(kind) : r = <<kind, i>>
    /\ \A kind, k, i, j : <<kind, i>> = <<k, j>> => kind = k /\ i = j
<1>1. IsFiniteSet(ThreadIds) /\ IsFiniteSet(RegionIds)
    <2>1. IsFiniteSet(0..MAX_THREADS - 1) /\ IsFiniteSet(0..MAX_REGIONS - 1)
        <3>1. \A n \in Nat : n - 1 \in Int /\ 0 \in Int
            OBVIOUS
        <3> QED
            BY <3>1, FS_Interval, Constants
    <2> QED
        BY <2>1, FS_AddElement DEF ThreadIds, RegionIds
<1>2. \A kind \in Kinds : IsFiniteSet(Ids(kind))
    BY <1>1 DEF Ids
<1>3. \A kind \in Kinds : \A i \in Ids(kind) : <<kind, i>> \in Rows
    BY DEF Kinds, Ids, Rows, RegionRows, ThreadRow, RegionRow
<1>4. \A r \in Rows : \E kind \in Kinds : \E i \in Ids(kind) : r = <<kind, i>>
    BY DEF Kinds, Ids, Rows, RegionRows, ThreadRow, RegionRow
<1> QED
    BY <1>2, <1>3, <1>4

\* An event has one row of each kind, or none of a region.
LEMMA OneOfAKind ==
    ASSUME NEW site \in SiteIds, NEW kind \in Kinds
    PROVE  /\ \A i, j \in Ids(kind) : <<kind, i>> \in RowSet(site) /\ <<kind, j>> \in RowSet(site) => i = j
           /\ (\E i \in Ids(kind) : <<kind, i>> \in RowSet(site)) <=>
                 (kind = "thread" \/ site.region # UNSET)
<1>1. CASE kind = "thread"
    <2>1. \A i : <<kind, i>> \in RowSet(site) <=> i = site.thread
        BY <1>1 DEF RowSet, ThreadRow, RegionRow
    <2>2. site.thread \in Ids(kind)
        BY <1>1 DEF Ids, SiteIds
    <2> QED
        BY <1>1, <2>1, <2>2
<1>2. CASE kind = "region"
    <2>1. \A i : <<kind, i>> \in RowSet(site) <=> site.region # UNSET /\ i = site.region
        BY <1>2 DEF RowSet, ThreadRow, RegionRow
    <2>2. site.region # UNSET => site.region \in Ids(kind)
        BY <1>2 DEF Ids, SiteIds
    <2>3. ~(kind = "thread")
        BY <1>2
    <2>4. (\E i \in Ids(kind) : <<kind, i>> \in RowSet(site)) <=> site.region # UNSET
        BY <2>1, <2>2
    <2>5. \A i, j \in Ids(kind) : <<kind, i>> \in RowSet(site) /\ <<kind, j>> \in RowSet(site) => i = j
        BY <2>1
    <2> QED
        BY <2>3, <2>4, <2>5
<1> QED
    BY <1>1, <1>2 DEF Kinds

LEMMA DueNumber ==
    ASSUME NEW s \in Steps, NEW kind, NEW field
    PROVE  /\ DueOf(s, kind, field) \in Int
           /\ ~InGate(s) => DueOf(s, kind, field) = 0
<1>1. CASE InGate(s)
    <2>1. s \in Moving
        BY <1>1, Shapes DEF InGate
    <2> QED
        BY <1>1, <2>1 DEF DueOf, Amount, Moving
<1>2. CASE ~InGate(s)
    <2>1. Left(s) = {}
        BY <1>2 DEF Left, InGate
    <2> QED
        BY <1>2, <2>1 DEF DueOf, Owing
<1> QED
    BY <1>1, <1>2

LEMMA TallyNumbers ==
    ASSUME Types, NEW kind \in Kinds, NEW field \in Fields
    PROVE  /\ KindTally(kind, field) \in [Ids(kind) -> Nat]
           /\ SumFunction(KindTally(kind, field)) \in Nat
           /\ SumFunction(Due(kind, field)) \in Int
           /\ Field(totals, field) \in Int /\ Beyond(kind, field) \in Int
<1>1. KindTally(kind, field) \in [Ids(kind) -> Nat]
    BY KindsOfRows DEF KindTally, Field, Types, Holds
<1>2. SumFunction(KindTally(kind, field)) \in Nat
    BY <1>1, SumOfNaturals, KindsOfRows
<1>3. Due(kind, field) \in [Recorders -> Int]
    BY DueNumber DEF Due, Types
<1>4. SumFunction(Due(kind, field)) \in Int
    BY <1>3, SumIsInt, Constants
<1>5. Field(totals, field) \in Int /\ Beyond(kind, field) \in Int
    BY DEF Field, Beyond, Types, Holds
<1> QED
    BY <1>1, <1>2, <1>4, <1>5

LEMMA DueMoves ==
    ASSUME Types, Types', NEW t \in Recorders, \A u \in Recorders \ {t} : pc'[u] = pc[u],
           NEW kind, NEW field
    PROVE  /\ SumFunction(Due(kind, field)) \in Int
           /\ DueOf(pc[t], kind, field) \in Int /\ DueOf(pc'[t], kind, field) \in Int
           /\ SumFunction(Due(kind, field)') = SumFunction(Due(kind, field))
                 + (DueOf(pc'[t], kind, field) - DueOf(pc[t], kind, field))
<1> DEFINE f == [u \in Recorders |-> DueOf(pc[u], kind, field)]
           h == [u \in Recorders |-> DueOf(pc'[u], kind, field)]
<1>1. ASSUME NEW u \in Recorders
      PROVE  DueOf(pc[u], kind, field) \in Int /\ DueOf(pc'[u], kind, field) \in Int
    BY DueNumber DEF Types
<1>2. f \in [Recorders -> Int] /\ h \in [Recorders -> Int]
    BY <1>1
<1>3. \A u \in Recorders : u # t => h[u] = f[u]
    OBVIOUS
<1>4. f[t] = DueOf(pc[t], kind, field) /\ h[t] = DueOf(pc'[t], kind, field)
    OBVIOUS
<1>5. Due(kind, field) = f /\ Due(kind, field)' = h
    BY DEF Due
<1> HIDE DEF f, h
<1>6. SumFunction(f) \in Int /\ SumFunction(h) = SumFunction(f) + (h[t] - f[t])
    BY <1>2, <1>3, SumUpdate, Constants
<1> QED
    BY <1>1, <1>4, <1>5, <1>6

LEMMA TallyMoves ==
    ASSUME Types, Types', NEW kind \in Kinds, NEW field \in Fields, NEW i \in Ids(kind),
           \A j \in Ids(kind) \ {i} : Field(tally'[<<kind, j>>], field) = Field(tally[<<kind, j>>], field)
    PROVE  SumFunction(KindTally(kind, field)') = SumFunction(KindTally(kind, field))
              + (Field(tally'[<<kind, i>>], field) - Field(tally[<<kind, i>>], field))
<1> DEFINE f == [j \in Ids(kind) |-> Field(tally[<<kind, j>>], field)]
           h == [j \in Ids(kind) |-> Field(tally'[<<kind, j>>], field)]
<1>1. ASSUME NEW j \in Ids(kind)
      PROVE  Field(tally[<<kind, j>>], field) \in Int /\ Field(tally'[<<kind, j>>], field) \in Int
    BY KindsOfRows DEF Field, Types, Holds
<1>2. f \in [Ids(kind) -> Int] /\ h \in [Ids(kind) -> Int]
    BY <1>1
<1>3. \A j \in Ids(kind) : j # i => h[j] = f[j]
    OBVIOUS
<1>4. f[i] = Field(tally[<<kind, i>>], field) /\ h[i] = Field(tally'[<<kind, i>>], field)
    OBVIOUS
<1>5. KindTally(kind, field) = f /\ KindTally(kind, field)' = h
    BY DEF KindTally
<1> HIDE DEF f, h
<1>6. SumFunction(h) = SumFunction(f) + (h[i] - f[i])
    BY <1>2, <1>3, SumUpdate, KindsOfRows
<1> QED
    BY <1>4, <1>5, <1>6

LEMMA BooksInit == Init => Books
<1> SUFFICES ASSUME Init, NEW kind \in Kinds, NEW field \in Fields
             PROVE  Field(totals, field) = SumFunction(KindTally(kind, field))
                       + SumFunction(Due(kind, field)) + Beyond(kind, field)
    BY DEF Books
<1>1. KindTally(kind, field) = [i \in Ids(kind) |-> 0]
    BY KindsOfRows DEF Init, KindTally, Field
<1>2. Due(kind, field) = [u \in Recorders |-> 0]
    BY DueNumber DEF Init, Due, InGate, Idle, Steps
<1>3. SumFunction(KindTally(kind, field)) = 0 /\ SumFunction(Due(kind, field)) = 0
    BY <1>1, <1>2, SumOfZeros, KindsOfRows, Constants
<1>4. Field(totals, field) = 0 /\ Beyond(kind, field) = 0
    BY DEF Init, Zero, Field, Beyond
<1> QED
    BY <1>3, <1>4

\* What does not move rows does not matter.
LEMMA BesideKeepsBooks ==
    ASSUME Types, Types', NEW t \in Recorders, Beside(t), Books
    PROVE  Books'
<1> SUFFICES ASSUME NEW kind \in Kinds, NEW field \in Fields
             PROVE  (Field(totals, field) = SumFunction(KindTally(kind, field))
                       + SumFunction(Due(kind, field)) + Beyond(kind, field))'
    BY DEF Books
<1>1. KindTally(kind, field)' = KindTally(kind, field) /\ Beyond(kind, field)' = Beyond(kind, field)
      /\ totals' = totals
    BY DEF KindTally, Beyond, Beside
<1>2. DueOf(pc[t], kind, field) = 0 /\ DueOf(pc'[t], kind, field) = 0
    BY DueNumber DEF Types, Beside
<1>3. SumFunction(Due(kind, field)') = SumFunction(Due(kind, field))
    BY <1>2, DueMoves DEF Beside
<1> QED
    BY <1>1, <1>3 DEF Books

LEMMA StillKeepsBooks ==
    ASSUME UNCHANGED <<tally, totals, outside, pc>>, Books
    PROVE  Books'
BY DEF Books, KindTally, Due, Beyond

LEMMA RestartKeepsBooks ==
    ASSUME Types, Types', Restart, Books
    PROVE  Books'
<1> SUFFICES ASSUME NEW kind \in Kinds, NEW field \in Fields
             PROVE  (Field(totals, field) = SumFunction(KindTally(kind, field))
                       + SumFunction(Due(kind, field)) + Beyond(kind, field))'
    BY DEF Books
<1>0. /\ \A r \in Rows : tally'[r].total = 0 /\ tally'[r].curr = tally[r].curr
      /\ totals'.total = 0 /\ totals'.curr = totals.curr
      /\ outside'.total = 0 /\ outside'.curr = outside.curr /\ pc' = pc
    BY DEF Restart, Types, Holds
<1>1. \A u \in Recorders : ~InGate(pc'[u])
    BY <1>0 DEF Restart, Inside, InGate
<1>2. Due(kind, field)' = [u \in Recorders |-> 0]
    BY <1>1, DueNumber DEF Due, Types
<1>3. SumFunction(Due(kind, field)') = 0
    BY <1>2, SumOfZeros, Constants
<1>4. CASE field = "total"
    <2>1. KindTally(kind, field)' = [i \in Ids(kind) |-> 0]
        BY <1>0, <1>4, KindsOfRows DEF KindTally, Field
    <2>2. SumFunction(KindTally(kind, field)') = 0
        BY <2>1, SumOfZeros, KindsOfRows
    <2> QED
        BY <1>0, <1>3, <1>4, <2>2 DEF Field, Beyond
<1>5. CASE field # "total"
    <2>1. KindTally(kind, field)' = KindTally(kind, field)
        BY <1>0, <1>5, KindsOfRows DEF KindTally, Field
    <2>2. Field(totals, field)' = Field(totals, field) /\ Beyond(kind, field)' = Beyond(kind, field)
        BY <1>0, <1>5 DEF Field, Beyond
    <2>3. Due(kind, field)' = Due(kind, field)
        BY <1>0 DEF Due
    <2> QED
        BY <2>1, <2>2, <2>3 DEF Books
<1> QED
    BY <1>4, <1>5

LEMMA RecordsKeepsBooks ==
    ASSUME Types, Types', NEW t \in Recorders, NEW site \in SiteIds, NEW freed, NEW lost \in Nat,
           Records(t, site, freed, lost), Books
    PROVE  Books'
<1> SUFFICES ASSUME NEW kind \in Kinds, NEW field \in Fields
             PROVE  (Field(totals, field) = SumFunction(KindTally(kind, field))
                       + SumFunction(Due(kind, field)) + Beyond(kind, field))'
    BY DEF Books
<1> DEFINE s == pc'[t]  moves == Amount(s, field)
<1>0. s \in Moving /\ s.total \in Int /\ s.delta \in Int /\ moves \in Int /\ Left(s) = RowSet(site)
      /\ \A u \in Recorders \ {t} : pc'[u] = pc[u]
    BY DEF Records, Moving, Amount
<1>1. KindTally(kind, field)' = KindTally(kind, field)
    BY DEF KindTally, Records
<1>2. DueOf(pc[t], kind, field) = 0
    BY DueNumber DEF Types, Records, Idle, InGate
<1>3. SumFunction(Due(kind, field)') = SumFunction(Due(kind, field)) + DueOf(s, kind, field)
    BY <1>0, <1>2, DueMoves
<1>4. DueOf(s, kind, field) = IF kind = "thread" \/ site.region # UNSET THEN moves ELSE 0
    BY <1>0, OneOfAKind DEF DueOf, Owing
<1>5. Field(totals, field)' = Field(totals, field) + moves
    <2>1. totals \in [total : Int, curr : Int] /\ totals' = Plus(totals, s.total, s.delta)
        BY DEF Types, Holds, Records
    <2>2. totals'.total = totals.total + s.total /\ totals'.curr = totals.curr + s.delta
        BY <1>0, <2>1, PlusIs
    <2> HIDE DEF s
    <2> QED
        BY <2>2 DEF Field, Amount
<1>6. Beyond(kind, field)' =
         Beyond(kind, field) + (IF kind = "region" /\ site.region = UNSET THEN moves ELSE 0)
    <2>1. outside \in [total : Int, curr : Int]
          /\ outside' = IF site.region = UNSET THEN Plus(outside, s.total, s.delta) ELSE outside
        BY DEF Types, Holds, Records
    <2>2. site.region = UNSET =>
             outside'.total = outside.total + s.total /\ outside'.curr = outside.curr + s.delta
        BY <1>0, <2>1, PlusIs
    <2> HIDE DEF s
    <2>3. site.region # UNSET => outside' = outside
        BY <2>1
    <2>4. Beyond(kind, field) \in Int
        BY TallyNumbers
    <2> QED
        BY <2>1, <2>2, <2>3, <2>4 DEF Field, Beyond, Amount
<1>7. /\ Field(totals, field) = SumFunction(KindTally(kind, field)) + SumFunction(Due(kind, field))
            + Beyond(kind, field)
      /\ SumFunction(KindTally(kind, field)) \in Int /\ SumFunction(Due(kind, field)) \in Int
      /\ Beyond(kind, field) \in Int
    BY TallyNumbers DEF Books
<1>8. kind = "thread" \/ kind = "region"
    BY DEF Kinds
<1>9. SumFunction(KindTally(kind, field)') = SumFunction(KindTally(kind, field))
    BY <1>1, Zenon
<1> HIDE DEF s, moves
<1>10. CASE kind = "thread"
    <2>1. DueOf(s, kind, field) = moves /\ Beyond(kind, field)' = Beyond(kind, field) + 0
        BY <1>10, <1>4, <1>6
    <2> QED
        BY <2>1, <1>0, <1>3, <1>5, <1>7, <1>9
<1>11. CASE kind = "region"
    <2>1. /\ DueOf(s, kind, field) = IF site.region # UNSET THEN moves ELSE 0
          /\ Beyond(kind, field)' = Beyond(kind, field) + (IF site.region = UNSET THEN moves ELSE 0)
        BY <1>11, <1>4, <1>6
    <2> QED
        BY <2>1, <1>0, <1>3, <1>5, <1>7, <1>9
<1> QED
    BY <1>8, <1>10, <1>11

\* The row that is moved is the only one of its kind the event owed.
LEMMA AdvanceDue ==
    ASSUME Types, Types', NEW t \in Recorders, NEW site \in SiteIds, NEW r \in Left(pc[t]),
           Advances(t, site, {r}), NEW kind \in Kinds, NEW field
    PROVE  LET kept == (\A i \in Ids(kind) : r # <<kind, i>>)
           IN  DueOf(pc'[t], kind, field) - DueOf(pc[t], kind, field) =
                  IF kept THEN 0 ELSE - Amount(pc[t], field)
<1> DEFINE s == pc[t]  q == pc'[t]  kept == \A i \in Ids(kind) : r # <<kind, i>>
<1>0. s \in Moving /\ OnItsWay(s, site) /\ Left(s) \subseteq RowSet(site) /\ Left(q) = Left(s) \ {r}
      /\ r \in Left(s)
    <2>1. s \in Moving /\ OnItsWay(s, site)
        BY Shapes DEF Advances, InGate, Types
    <2> QED
        BY <2>1, AfterRow DEF Advances
<1>1. DueOf(s, kind, field) \in Int /\ DueOf(q, kind, field) \in Int /\ Amount(s, field) \in Int
    BY <1>0, DueNumber DEF Types, Amount, Moving
<1>2. Owing(q, kind) => Amount(q, field) = Amount(s, field)
    <2>1. InGate(q) => q.total = s.total /\ q.delta = s.delta
        BY DEF Advances, InGate, Idle
    <2>2. ~InGate(q) => Left(q) = {}
        BY DEF Left, InGate
    <2> HIDE DEF s, q
    <2> QED
        BY <2>1, <2>2 DEF Owing, Amount
<1> HIDE DEF s, q
<1>3. CASE kept
    <2>1. Owing(q, kind) <=> Owing(s, kind)
        BY <1>0, <1>3 DEF Owing
    <2> QED
        BY <2>1, <1>1, <1>2, <1>3 DEF DueOf, s, q
<1>4. ASSUME NEW i \in Ids(kind), r = <<kind, i>>
      PROVE  DueOf(q, kind, field) - DueOf(s, kind, field) = - Amount(s, field)
    <2>1. Owing(s, kind)
        BY <1>0, <1>4 DEF Owing
    <2>2. ~Owing(q, kind)
        BY <1>0, <1>4, OneOfAKind DEF Owing
    <2> QED
        BY <2>1, <2>2, <1>1 DEF DueOf
<1> QED
    BY <1>3, <1>4 DEF s, q

LEMMA MoveCurrKeepsBooks ==
    ASSUME Types, Types', NEW t \in Recorders, MoveCurr(t), NEW site \in SiteIds,
           OnItsWay(pc[t], site), Books,
           tally'[Row(t)].curr = tally[Row(t)].curr + pc[t].delta
    PROVE  Books'
<1> SUFFICES ASSUME NEW kind \in Kinds, NEW field \in Fields
             PROVE  (Field(totals, field) = SumFunction(KindTally(kind, field))
                       + SumFunction(Due(kind, field)) + Beyond(kind, field))'
    BY DEF Books
<1> DEFINE moves == Amount(pc[t], field)
<1>1. PICK r \in Rows : r = Row(t)
    BY RowMoves
<1>2. /\ Advances(t, site, {r}) /\ r \in Left(pc[t])
      /\ \A q \in Rows \ {r} : tally'[q] = tally[q]
      /\ tally'[r].total = tally[r].total + pc[t].total
      /\ tally'[r].curr = tally[r].curr + pc[t].delta
      /\ pc[t] \in Moving /\ moves \in Int
      /\ UNCHANGED <<totals, outside>>
    <2>1. Advances(t, site, {r}) /\ r \in Left(pc[t])
        BY <1>1, MoveCurrAdvances
    <2>2. pc[t] \in Moving
        BY RowMoves
    <2>3. /\ \A q \in Rows \ {r} : tally'[q] = tally[q]
          /\ tally'[r].total = tally[r].total + pc[t].total
        BY <1>1, RowMoves
    <2>4. tally'[r].curr = tally[r].curr + pc[t].delta
        BY <1>1
    <2>5. moves \in Int
        BY <2>2 DEF Moving, Amount
    <2>6. UNCHANGED <<totals, outside>>
        BY DEF MoveCurr
    <2> QED
        BY <2>1, <2>2, <2>3, <2>4, <2>5, <2>6
<1>3. /\ SumFunction(Due(kind, field)) \in Int
      /\ DueOf(pc[t], kind, field) \in Int /\ DueOf(pc'[t], kind, field) \in Int
      /\ SumFunction(Due(kind, field)') = SumFunction(Due(kind, field))
            + (DueOf(pc'[t], kind, field) - DueOf(pc[t], kind, field))
    BY <1>2, DueMoves DEF Advances
<1>4. Field(totals, field)' = Field(totals, field) /\ Beyond(kind, field)' = Beyond(kind, field)
    BY <1>2 DEF Field, Beyond
<1>5. /\ Field(totals, field) = SumFunction(KindTally(kind, field)) + SumFunction(Due(kind, field))
            + Beyond(kind, field)
      /\ SumFunction(KindTally(kind, field)) \in Int /\ SumFunction(Due(kind, field)) \in Int
      /\ Beyond(kind, field) \in Int
    BY TallyNumbers DEF Books
<1>6. Field(tally'[r], field) - Field(tally[r], field) = moves
    <2>1. tally[r].total \in Int /\ tally[r].curr \in Int
        BY DEF Types, Holds
    <2>2. pc[t].total \in Int /\ pc[t].delta \in Int
        BY <1>2 DEF Moving
    <2> QED
        BY <1>2, <2>1, <2>2 DEF Field, Amount
<1>7. CASE \A i \in Ids(kind) : r # <<kind, i>>
    <2>1. KindTally(kind, field)' = KindTally(kind, field)
        BY <1>2, <1>7, KindsOfRows DEF KindTally
    <2>2. SumFunction(KindTally(kind, field)') = SumFunction(KindTally(kind, field))
        BY <2>1, Zenon
    <2>3. DueOf(pc'[t], kind, field) - DueOf(pc[t], kind, field) = 0
        BY <1>2, <1>7, AdvanceDue
    <2> QED
        BY <1>3, <1>4, <1>5, <2>2, <2>3
<1>8. ASSUME NEW i \in Ids(kind), r = <<kind, i>>
      PROVE  (Field(totals, field) = SumFunction(KindTally(kind, field))
                       + SumFunction(Due(kind, field)) + Beyond(kind, field))'
    <2>1. \A j \in Ids(kind) \ {i} : tally'[<<kind, j>>] = tally[<<kind, j>>]
        BY <1>2, <1>8, KindsOfRows
    <2>2. SumFunction(KindTally(kind, field)') = SumFunction(KindTally(kind, field)) + moves
        BY <1>6, <1>8, <2>1, TallyMoves
    <2>3. DueOf(pc'[t], kind, field) - DueOf(pc[t], kind, field) = - moves
        BY <1>2, <1>8, AdvanceDue
    <2> HIDE DEF moves
    <2> QED
        BY <1>2, <1>3, <1>4, <1>5, <2>2, <2>3
<1> QED
    BY <1>7, <1>8

LEMMA FetchMaxKeepsBooks ==
    ASSUME Types, Types', NEW t \in Recorders, FetchMax(t), NEW site \in SiteIds,
           OnItsWay(pc[t], site), Books
    PROVE  Books'
<1> SUFFICES ASSUME NEW kind \in Kinds, NEW field \in Fields
             PROVE  (Field(totals, field) = SumFunction(KindTally(kind, field))
                       + SumFunction(Due(kind, field)) + Beyond(kind, field))'
    BY DEF Books
<1>1. Advances(t, site, {})
    BY FetchMaxAdvances
<1>2. \A r \in Rows : tally'[r].total = tally[r].total /\ tally'[r].curr = tally[r].curr
    BY FetchMaxRow
<1>3. KindTally(kind, field)' = KindTally(kind, field)
    BY <1>2, KindsOfRows DEF KindTally, Field
<1>4. UNCHANGED <<totals, outside>>
    BY FetchMaxRow
<1>5. Field(totals, field)' = Field(totals, field) /\ Beyond(kind, field)' = Beyond(kind, field)
    BY <1>4 DEF Field, Beyond
<1>6. DueOf(pc'[t], kind, field) = DueOf(pc[t], kind, field)
    <2> DEFINE s == pc[t]  q == pc'[t]
    <2>1. Left(q) = Left(s)
        BY <1>1 DEF Advances
    <2>2. InGate(q) => q.total = s.total /\ q.delta = s.delta
        BY <1>1 DEF Advances, InGate, Idle
    <2>3. ~InGate(q) => Left(q) = {}
        BY DEF Left, InGate
    <2> HIDE DEF s, q
    <2>4. DueOf(q, kind, field) = DueOf(s, kind, field)
        BY <2>1, <2>2, <2>3 DEF DueOf, Owing, Amount
    <2> QED
        BY <2>4 DEF s, q
<1>7. DueOf(pc[t], kind, field) \in Int
    BY DueNumber DEF Types
<1>8. SumFunction(Due(kind, field)') = SumFunction(Due(kind, field))
    BY <1>1, <1>6, <1>7, DueMoves DEF Advances
<1> QED
    BY <1>3, <1>5, <1>8 DEF Books

-----------------------------------------------------------------------------
(* The maximum of a row, and what is on its way to it *)

AtMax(s, r, n) == s.at = "max" /\ Head(s.rows) = r /\ s.now = n
Peaks ==
    /\ \A r \in Rows : tally[r].curr <= top[r] /\ tally[r].max <= top[r]
    /\ \A u \in Recorders : pc[u].at = "max" => pc[u].now <= top[Row(u)]
    /\ \A r \in Rows : tally[r].max = top[r] \/ \E u \in Recorders : AtMax(pc[u], r, top[r])

LEMMA PeaksInit == Init => Peaks
BY DEF Init, Peaks, Idle

\* A recorder that raises nothing.
LEMMA PeaksStay ==
    ASSUME Types, Peaks, UNCHANGED <<tally, top>>,
           \A u \in Recorders : pc'[u] = pc[u] \/ (pc[u].at # "max" /\ pc'[u].at # "max")
    PROVE  Peaks'
<1>1. \A u \in Recorders : pc[u].at = "max" <=> pc'[u].at = "max"
    OBVIOUS
<1>2. \A u \in Recorders : pc'[u].at = "max" => pc'[u] = pc[u]
    OBVIOUS
<1>3. \A u \in Recorders : pc'[u].at = "max" => pc'[u].now <= top'[Row(u)']
    BY <1>1, <1>2 DEF Peaks, Row
<1>4. ASSUME NEW r \in Rows
      PROVE  tally'[r].max = top'[r] \/ \E u \in Recorders : AtMax(pc'[u], r, top'[r])
    <2>1. ASSUME NEW u \in Recorders, AtMax(pc[u], r, top[r]) PROVE AtMax(pc'[u], r, top[r])
        BY <2>1 DEF AtMax
    <2> QED
        BY <2>1 DEF Peaks
<1> QED
    BY <1>3, <1>4 DEF Peaks

LEMMA BesideKeepsPeaks ==
    ASSUME Types, NEW t \in Recorders, Beside(t), Peaks
    PROVE  Peaks'
BY PeaksStay DEF Beside, InGate

LEMMA RecordsKeepsPeaks ==
    ASSUME Types, NEW t \in Recorders, NEW site, NEW freed, NEW lost,
           Records(t, site, freed, lost), Peaks
    PROVE  Peaks'
BY PeaksStay DEF Records, Idle

LEMMA RestartKeepsPeaks ==
    ASSUME Types, Restart
    PROVE  Peaks'
<1>1. \A r \in Rows : tally'[r].curr = tally[r].curr /\ tally'[r].max = tally[r].curr
                      /\ top'[r] = tally[r].curr /\ tally[r].curr \in Nat
    BY DEF Restart, Types, Holds
<1>2. \A u \in Recorders : pc'[u].at # "max"
    BY DEF Restart, Inside
<1> QED
    BY <1>1, <1>2 DEF Peaks

LEMMA NextRowRaisesNothing ==
    ASSUME Types, NEW t \in Recorders, pc[t] \in Moving, NextRow(t)
    PROVE  pc'[t].at # "max" /\ \A u \in Recorders \ {t} : pc'[u] = pc[u]
<1> DEFINE next == [pc[t] EXCEPT !.at = "curr", !.rows = Tail(@)]
<1>1. next.at = "curr"
    BY DEF Moving
<1> HIDE DEF next
<1>2. CASE Len(pc[t].rows) = 1
    BY <1>2 DEF NextRow, Goto, Types, Idle
<1>3. CASE Len(pc[t].rows) # 1
    <2>1. Goto(t, next)
        BY <1>3 DEF NextRow, next
    <2> QED
        BY <1>1, <2>1 DEF Goto, Types
<1> QED
    BY <1>2, <1>3

LEMMA FetchMaxKeepsPeaks ==
    ASSUME Types, NEW t \in Recorders, FetchMax(t), NEW site \in SiteIds, OnItsWay(pc[t], site),
           Peaks
    PROVE  Peaks'
<1> DEFINE n == pc[t].now
<1>1. PICK r \in Rows : r = Row(t)
    BY FetchMaxRow
<1>2. /\ tally'[r].curr = tally[r].curr /\ tally'[r].max = Greater(tally[r].max, n)
      /\ \A q \in Rows \ {r} : tally'[q] = tally[q]
      /\ top' = top
    BY <1>1, FetchMaxRow
<1>3. pc'[t].at # "max" /\ \A u \in Recorders \ {t} : pc'[u] = pc[u]
    <2>1. NextRow(t) /\ pc[t] \in Moving
        BY FetchMaxRow DEF FetchMax
    <2> QED
        BY <2>1, NextRowRaisesNothing
<1>4. n <= top[r] /\ n \in Int /\ tally[r].max <= top[r] /\ tally[r].max \in Nat /\ top[r] \in Nat
      /\ tally[r].curr <= top[r]
    <2>1. pc[t] \in Moving /\ pc[t].at = "max"
        BY FetchMaxRow DEF FetchMax
    <2> QED
        BY <1>1, <2>1 DEF Peaks, Moving, Types, Holds
<1>5. \A q \in Rows : tally'[q].curr <= top'[q] /\ tally'[q].max <= top'[q]
    <2>1. tally'[r].curr <= top'[r] /\ tally'[r].max <= top'[r]
        BY <1>2, <1>4 DEF Greater
    <2> QED
        BY <2>1, <1>2 DEF Peaks
<1>6. \A u \in Recorders : pc'[u].at = "max" => pc'[u].now <= top'[Row(u)']
    BY <1>2, <1>3 DEF Peaks, Row
<1>7. ASSUME NEW q \in Rows
      PROVE  tally'[q].max = top'[q] \/ \E u \in Recorders : AtMax(pc'[u], q, top'[q])
    <2>1. CASE tally[q].max = top[q]
        <3>1. tally'[q].max = tally[q].max
            BY <1>2, <1>4, <2>1 DEF Greater
        <3> QED
            BY <1>2, <2>1, <3>1
    <2>2. ASSUME NEW u \in Recorders, AtMax(pc[u], q, top[q])
          PROVE  tally'[q].max = top'[q] \/ AtMax(pc'[u], q, top'[q])
        <3>1. CASE u = t
            <4>1. q = r /\ n = top[r]
                BY <1>1, <2>2, <3>1 DEF AtMax, Row
            <4> QED
                BY <4>1, <1>2, <1>4 DEF Greater
        <3>2. CASE u # t
            BY <1>2, <1>3, <2>2, <3>2
        <3> QED
            BY <3>1, <3>2
    <2> QED
        BY <2>1, <2>2 DEF Peaks
<1> QED
    BY <1>5, <1>6, <1>7 DEF Peaks

LEMMA MoveCurrKeepsPeaks ==
    ASSUME Types, NEW t \in Recorders, MoveCurr(t), Peaks,
           0 <= tally[Row(t)].curr + pc[t].delta
    PROVE  Peaks'
<1> DEFINE d == pc[t].delta  next == tally[Row(t)].curr + d
<1>1. PICK r \in Rows : r = Row(t)
    BY RowMoves
<1>2. /\ pc[t] \in Moving /\ d \in Int /\ next \in Nat /\ next = tally[r].curr + d
      /\ tally[r].curr \in Nat /\ tally[r].max \in Nat /\ top[r] \in Nat
    <2>1. pc[t] \in Moving
        BY RowMoves
    <2>2. d \in Int
        BY <2>1 DEF Moving
    <2>3. tally[r].curr \in Nat /\ tally[r].max \in Nat /\ top[r] \in Nat
        BY DEF Types, Holds
    <2> QED
        BY <1>1, <2>1, <2>2, <2>3
<1>3. /\ tally'[r].curr = Greater(next, 0) /\ tally'[r].max = tally[r].max
      /\ top'[r] = Greater(top[r], next)
      /\ \A q \in Rows \ {r} : tally'[q] = tally[q] /\ top'[q] = top[q]
    BY <1>1, RowMoves
<1>4. /\ pc[t].at = "curr" /\ \A u \in Recorders \ {t} : pc'[u] = pc[u]
      /\ IF d > 0 THEN AtMax(pc'[t], r, next) ELSE pc'[t].at # "max"
    <2>1. CASE d > 0
        <3>1. pc'[t] = Raising(pc[t], next) /\ \A u \in Recorders \ {t} : pc'[u] = pc[u]
            BY <2>1 DEF MoveCurr, Goto, Types, Raising
        <3>2. /\ Raising(pc[t], next).at = "max" /\ Raising(pc[t], next).now = next
              /\ Raising(pc[t], next).rows = pc[t].rows
            BY <1>2 DEF Raising, Moving
        <3> HIDE DEF next
        <3>3. AtMax(Raising(pc[t], next), r, next)
            BY <1>1, <3>2 DEF AtMax, Row
        <3> QED
            BY <2>1, <3>1, <3>3 DEF MoveCurr
    <2>2. CASE ~(d > 0)
        <3>1. NextRow(t)
            BY <2>2 DEF MoveCurr
        <3>2. pc[t].at = "curr"
            BY DEF MoveCurr
        <3> QED
            BY <2>2, <3>1, <3>2, <1>2, NextRowRaisesNothing
    <2> QED
        BY <2>1, <2>2
<1> HIDE DEF next, d
<1>5. tally[r].curr <= top[r] /\ tally[r].max <= top[r]
    BY DEF Peaks
<1>6. /\ tally'[r].curr = next /\ top[r] <= top'[r] /\ next <= top'[r] /\ top'[r] \in Nat
      /\ top'[r] = top[r] \/ (d > 0 /\ top'[r] = next)
    BY <1>2, <1>3, <1>5 DEF Greater
<1>7. \A q \in Rows : tally'[q].curr <= top'[q] /\ tally'[q].max <= top'[q]
    <2>1. tally'[r].curr <= top'[r] /\ tally'[r].max <= top'[r]
        BY <1>2, <1>3, <1>5, <1>6
    <2> QED
        BY <2>1, <1>3 DEF Peaks
<1>8. ASSUME NEW u \in Recorders, pc'[u].at = "max" PROVE pc'[u].now <= top'[Head(pc'[u].rows)]
    <2>1. CASE u = t
        <3>1. AtMax(pc'[t], r, next)
            BY <1>4, <1>8, <2>1
        <3> QED
            BY <2>1, <3>1, <1>6 DEF AtMax
    <2>2. CASE u # t
        <3>1. pc'[u] = pc[u] /\ pc[u].now <= top[Row(u)] /\ pc[u] \in Moving /\ Row(u) \in Rows
              /\ Row(u) = Head(pc[u].rows)
            BY <1>4, <1>8, <2>2, MovingTypes DEF Peaks, Row
        <3>2. top[Row(u)] <= top'[Row(u)] /\ top[Row(u)] \in Nat /\ top'[Row(u)] \in Nat
            BY <1>2, <1>3, <1>6, <3>1 DEF Types, Holds
        <3>3. pc[u].now \in Int
            BY <3>1 DEF Moving
        <3>4. pc[u].now <= top'[Row(u)]
            BY <3>1, <3>2, <3>3
        <3> QED
            BY <3>1, <3>4
    <2> QED
        BY <2>1, <2>2
<1>9. ASSUME NEW q \in Rows
      PROVE  tally'[q].max = top'[q] \/ \E u \in Recorders : AtMax(pc'[u], q, top'[q])
    <2>1. CASE q = r /\ top'[r] # top[r]
        <3>1. AtMax(pc'[t], q, top'[q])
            BY <2>1, <1>4, <1>6
        <3> QED
            BY <3>1
    <2>2. CASE ~(q = r /\ top'[r] # top[r])
        <3>1. tally'[q].max = tally[q].max /\ top'[q] = top[q]
            BY <2>2, <1>3
        <3>2. ASSUME NEW u \in Recorders, AtMax(pc[u], q, top[q]) PROVE AtMax(pc'[u], q, top'[q])
            <4>1. u # t
                BY <3>2, <1>4 DEF AtMax
            <4> QED
                BY <4>1, <3>1, <3>2, <1>4
        <3> QED
            BY <3>1, <3>2 DEF Peaks
    <2> QED
        BY <2>1, <2>2
<1> QED
    BY <1>7, <1>8, <1>9 DEF Peaks, Row

-----------------------------------------------------------------------------
(* Regions, and the guards of them *)

Guarding(i) ==
    UNION {{<<t, g>> : g \in {h \in guards[t] : h.id = i}} : t \in Recorders}

\* The guard is there before the region is counted open, and its number tells
\* it from every guard that is there already.
GuardsKept ==
    /\ IsInjective(regions)
    /\ \A u \in Recorders : \A g \in guards[u] : g.nth < entries[g.id]
    /\ \A u \in Recorders : pc[u].at = "activate" => \E g \in guards[u] : g.id = pc[u].id
    /\ \A i \in RegionIds :
          /\ IsFiniteSet(Guarding(i))
          /\ active[i] + Cardinality(Opening(i)) = Cardinality(Guarding(i))
          /\ Cardinality(Guarding(i)) <= entries[i]

LEMMA GuardingIs ==
    ASSUME NEW i, NEW x
    PROVE  x \in Guarding(i) <=> \E t \in Recorders : \E g \in guards[t] : g.id = i /\ x = <<t, g>>
BY DEF Guarding

LEMMA OpeningIs ==
    ASSUME Types, NEW i \in RegionIds
    PROVE  /\ Opening(i) = {u \in Recorders : pc[u].at = "activate" /\ pc[u].id = i}
           /\ IsFiniteSet(Opening(i)) /\ Cardinality(Opening(i)) \in Nat
<1>1. ASSUME NEW u \in Recorders
      PROVE  pc[u] = [at |-> "activate", id |-> i] <=> pc[u].at = "activate" /\ pc[u].id = i
    <2>1. pc[u].at = "activate" => pc[u] \in Entering
        BY Shapes DEF Types
    <2> QED
        BY <2>1 DEF Entering
<1>2. Opening(i) \subseteq Recorders
    BY DEF Opening
<1>3. IsFiniteSet(Opening(i))
    BY <1>2, FS_Subset, Constants
<1>4. Cardinality(Opening(i)) \in Nat
    BY <1>3, FS_CardinalityType
<1> QED
    BY <1>1, <1>3, <1>4 DEF Opening

LEMMA GuardsInit == Init => GuardsKept
<1> SUFFICES ASSUME Init PROVE GuardsKept
    OBVIOUS
<1>1. IsInjective(regions)
    BY DEF Init, IsInjective
<1>2. ASSUME NEW i \in RegionIds
      PROVE  /\ IsFiniteSet(Guarding(i))
             /\ active[i] + Cardinality(Opening(i)) = Cardinality(Guarding(i))
             /\ Cardinality(Guarding(i)) <= entries[i]
    <2>1. Guarding(i) = {}
        BY GuardingIs DEF Init
    <2>2. Opening(i) = {}
        BY DEF Init, Opening, Idle
    <2>3. IsFiniteSet({}) /\ Cardinality({}) = 0
        BY FS_EmptySet
    <2>4. active[i] = 0 /\ entries[i] = 0
        BY DEF Init
    <2> QED
        BY <2>1, <2>2, <2>3, <2>4
<1> QED
    BY <1>1, <1>2 DEF GuardsKept, Init, Idle

\* Steps that leave the regions alone.
LEMMA GuardsStay ==
    ASSUME Types, Types', GuardsKept, UNCHANGED <<entries, active, guards>>, IsInjective(regions'),
           \A u \in Recorders : pc'[u] = pc[u] \/ (pc[u].at # "activate" /\ pc'[u].at # "activate")
    PROVE  GuardsKept'
<1>1. \A u \in Recorders : pc'[u].at = "activate" => pc'[u] = pc[u]
    OBVIOUS
<1>2. \A u \in Recorders : pc[u].at = "activate" => pc'[u] = pc[u]
    OBVIOUS
<1>3. ASSUME NEW i \in RegionIds
      PROVE  /\ IsFiniteSet(Guarding(i)')
             /\ active'[i] + Cardinality(Opening(i)') = Cardinality(Guarding(i)')
             /\ Cardinality(Guarding(i)') <= entries'[i]
    <2>1. Opening(i)' = Opening(i)
        BY <1>1, <1>2 DEF Opening
    <2>2. Guarding(i)' = Guarding(i)
        BY DEF Guarding
    <2> QED
        BY <2>1, <2>2 DEF GuardsKept
<1>4. /\ \A u \in Recorders : \A g \in guards'[u] : g.nth < entries'[g.id]
      /\ \A u \in Recorders : pc'[u].at = "activate" => \E g \in guards'[u] : g.id = pc'[u].id
    BY <1>1 DEF GuardsKept
<1> QED
    BY <1>3, <1>4 DEF GuardsKept

LEMMA InternKeepsGuards ==
    ASSUME Types, Types', NEW t \in Recorders, NEW n \in Names, Intern(t, n), GuardsKept
    PROVE  GuardsKept'
<1>1. /\ pc[t].at = "idle" /\ pc'[t].at = "enter" /\ \A u \in Recorders \ {t} : pc'[u] = pc[u]
      /\ UNCHANGED <<entries, active, guards>>
    BY DEF Intern, Goto, Types, Idle
<1>2. IsInjective(regions')
    <2>1. CASE UNCHANGED regions
        BY <2>1 DEF GuardsKept
    <2>2. CASE RowOfName(Kept[n]) = {} /\ regions' = Append(regions, Kept[n])
        <3> DEFINE k == Kept[n]
        <3>1. regions \in Seq(Names) /\ k \in Names
            BY SitesAssumption DEF Types, Phases
        <3>2. /\ DOMAIN regions = 1..Len(regions) /\ Len(regions) \in Nat
              /\ DOMAIN Append(regions, k) = 1..Len(regions) + 1
              /\ \A i \in 1..Len(regions) : Append(regions, k)[i] = regions[i]
              /\ Append(regions, k)[Len(regions) + 1] = k
            BY <3>1
        <3>3. \A i \in 1..Len(regions) : regions[i] # k
            BY <2>2, <3>2 DEF RowOfName
        <3>4. \A i, j \in 1..Len(regions) : regions[i] = regions[j] => i = j
            BY <3>2 DEF GuardsKept, IsInjective
        <3> HIDE DEF k
        <3> DEFINE r == Append(regions, k)
        <3>5. ASSUME NEW i \in 1..Len(regions) + 1, NEW j \in 1..Len(regions) + 1, r[i] = r[j]
              PROVE  i = j
            <4>1. CASE i = Len(regions) + 1 /\ j # Len(regions) + 1
                BY <3>2, <3>3, <3>5, <4>1
            <4>2. CASE j = Len(regions) + 1 /\ i # Len(regions) + 1
                BY <3>2, <3>3, <3>5, <4>2
            <4>3. CASE i # Len(regions) + 1 /\ j # Len(regions) + 1
                BY <3>2, <3>4, <3>5, <4>3
            <4> QED
                BY <4>1, <4>2, <4>3
        <3>6. IsInjective(r)
            BY <3>2, <3>5 DEF IsInjective
        <3> QED
            BY <2>2, <3>6 DEF k
    <2> QED
        BY <2>1, <2>2 DEF Intern
<1> QED
    BY <1>1, <1>2, GuardsStay

LEMMA EnterKeepsGuards ==
    ASSUME Types, Types', NEW t \in Recorders, EnterRegion(t), GuardsKept
    PROVE  GuardsKept'
<1> DEFINE id == pc[t].id
           g == [id |-> id, previous |-> region[t], nth |-> entries[id]]
<1>0. id \in RegionIds /\ pc'[t].at = "activate" /\ pc'[t].id = id /\ pc[t].at = "enter"
      /\ pc'[t] = [at |-> "activate", id |-> id]
      /\ \A u \in Recorders \ {t} : pc'[u] = pc[u]
    <2>1. id \in RegionIds /\ pc'[t] = [at |-> "activate", id |-> id] /\ Beside(t)
        BY EnterRegionIsBeside
    <2>2. pc[t].at = "enter"
        BY DEF EnterRegion
    <2> HIDE DEF id
    <2> QED
        BY <2>1, <2>2 DEF Beside
<1>1. /\ guards'[t] = guards[t] \cup {g} /\ \A u \in Recorders \ {t} : guards'[u] = guards[u]
      /\ entries'[id] = entries[id] + 1 /\ \A i \in RegionIds \ {id} : entries'[i] = entries[i]
      /\ entries \in [RegionIds -> Nat] /\ active' = active /\ regions' = regions
    BY <1>0 DEF EnterRegion, Types, Phases
<1>2. g.id = id /\ g.nth = entries[id]
    OBVIOUS
<1>q. PICK k \in RegionIds : k = id
    BY <1>0
<1>p. PICK h : h = g
    OBVIOUS
<1> HIDE DEF id, g
<1>3. \A u \in Recorders : \A c \in guards[u] : c.id \in RegionIds /\ c.nth \in Nat /\ c.nth < entries[c.id]
    BY DEF GuardsKept, Types, Phases, Guards
<1>4. ASSUME NEW u \in Recorders, NEW c \in guards'[u] PROVE c.nth < entries'[c.id]
    <2>1. CASE c \in guards[u]
        BY <2>1, <1>0, <1>1, <1>3
    <2>2. CASE c \notin guards[u]
        <3>1. c = g
            BY <2>2, <1>1, <1>4
        <3> QED
            BY <3>1, <1>0, <1>1, <1>2
    <2> QED
        BY <2>1, <2>2
<1>5. ASSUME NEW u \in Recorders, pc'[u].at = "activate"
      PROVE  \E c \in guards'[u] : c.id = pc'[u].id
    <2>1. CASE u = t
        BY <2>1, <1>0, <1>1, <1>2
    <2>2. CASE u # t
        BY <2>2, <1>0, <1>1, <1>5 DEF GuardsKept
    <2> QED
        BY <2>1, <2>2
<1>6. ASSUME NEW i \in RegionIds
      PROVE  /\ IsFiniteSet(Guarding(i)')
             /\ active'[i] + Cardinality(Opening(i)') = Cardinality(Guarding(i)')
             /\ Cardinality(Guarding(i)') <= entries'[i]
    <2>0. /\ IsFiniteSet(Guarding(i)) /\ Cardinality(Guarding(i)) \in Nat
          /\ active[i] + Cardinality(Opening(i)) = Cardinality(Guarding(i))
          /\ Cardinality(Guarding(i)) <= entries[i] /\ active[i] \in Nat
          /\ IsFiniteSet(Opening(i)) /\ Cardinality(Opening(i)) \in Nat
        BY FS_CardinalityType, OpeningIs DEF GuardsKept, Types, Phases
    <2>1. CASE i = k
        <3>1. Opening(i)' = Opening(i) \cup {t} /\ t \notin Opening(i)
            <4>1. pc'[t] = [at |-> "activate", id |-> i]
                BY <1>0, <1>q, <2>1
            <4>2. pc[t] # [at |-> "activate", id |-> i]
                BY <1>0
            <4> QED
                BY <4>1, <4>2, <1>0 DEF Opening
        <3>2. Guarding(i)' = Guarding(i) \cup {<<t, h>>}
            <4>1. ASSUME NEW x
                  PROVE  x \in Guarding(i)' <=> x \in Guarding(i) \/ x = <<t, h>>
                <5>1. x \in Guarding(i)' <=> \E u \in Recorders : \E c \in guards'[u] : c.id = i /\ x = <<u, c>>
                    BY DEF Guarding
                <5>2. x \in Guarding(i) <=> \E u \in Recorders : \E c \in guards[u] : c.id = i /\ x = <<u, c>>
                    BY GuardingIs
                <5>3. h \in guards'[t] /\ h.id = i
                    BY <1>1, <1>2, <1>q, <1>p, <2>1
                <5>4. \A u \in Recorders : \A c \in guards'[u] : c \in guards[u] \/ (u = t /\ c = h)
                    BY <1>1, <1>p
                <5>5. \A u \in Recorders : guards[u] \subseteq guards'[u]
                    BY <1>1
                <5> QED
                    BY <5>1, <5>2, <5>3, <5>4, <5>5
            <4> QED
                BY <4>1
        <3>3. <<t, h>> \notin Guarding(i)
            <4>1. h.nth = entries[h.id]
                BY <1>2, <1>p
            <4>2. h \notin guards[t]
                BY <4>1, <1>3
            <4> QED
                BY <4>2, GuardingIs
        <3>4. Cardinality(Opening(i)') = Cardinality(Opening(i)) + 1
            BY <2>0, <3>1, FS_AddElement
        <3>5. IsFiniteSet(Guarding(i)') /\ Cardinality(Guarding(i)') = Cardinality(Guarding(i)) + 1
            BY <2>0, <3>2, <3>3, FS_AddElement
        <3>6. entries'[i] = entries[i] + 1 /\ entries[i] \in Nat /\ active'[i] = active[i]
            BY <1>1, <1>q, <2>1
        <3> QED
            BY <2>0, <3>4, <3>5, <3>6
    <2>2. CASE i # k
        <3>1. Opening(i)' = Opening(i)
            <4>1. pc'[t] # [at |-> "activate", id |-> i]
                BY <1>0, <1>q, <2>2
            <4>2. pc[t] # [at |-> "activate", id |-> i]
                BY <1>0
            <4> QED
                BY <4>1, <4>2, <1>0 DEF Opening
        <3>2. Guarding(i)' = Guarding(i)
            <4>1. \A u \in Recorders : \A c : c.id = i => (c \in guards'[u] <=> c \in guards[u])
                BY <1>1, <1>2, <1>q, <2>2
            <4> QED
                BY <4>1 DEF Guarding
        <3>3. entries'[i] = entries[i] /\ active'[i] = active[i]
            BY <1>1, <1>q, <2>2
        <3> QED
            BY <2>0, <3>1, <3>2, <3>3
    <2> QED
        BY <2>1, <2>2
<1>7. IsInjective(regions')
    BY <1>1 DEF GuardsKept
<1> QED
    BY <1>4, <1>5, <1>6, <1>7 DEF GuardsKept

LEMMA ActivateKeepsGuards ==
    ASSUME Types, Types', NEW t \in Recorders, Activate(t), GuardsKept
    PROVE  GuardsKept'
<1>1. PICK k \in RegionIds : k = pc[t].id
    BY ActivateIsBeside
<1>2. pc'[t] = Idle /\ \A u \in Recorders \ {t} : pc'[u] = pc[u]
    BY ActivateIsBeside DEF Beside
<1>3. pc[t] = [at |-> "activate", id |-> k]
    <2>1. pc[t] \in Entering /\ pc[t].at = "activate"
        BY Shapes DEF Activate, Types
    <2> QED
        BY <1>1, <2>1 DEF Entering
<1>4. /\ active'[k] = active[k] + 1 /\ \A i \in RegionIds \ {k} : active'[i] = active[i]
      /\ UNCHANGED <<entries, guards, regions>>
    BY <1>1 DEF Activate, Types, Phases
<1>5. ASSUME NEW i \in RegionIds
      PROVE  /\ IsFiniteSet(Guarding(i)')
             /\ active'[i] + Cardinality(Opening(i)') = Cardinality(Guarding(i)')
             /\ Cardinality(Guarding(i)') <= entries'[i]
    <2>1. /\ IsFiniteSet(Guarding(i))
          /\ active[i] + Cardinality(Opening(i)) = Cardinality(Guarding(i))
          /\ Cardinality(Guarding(i)) <= entries[i] /\ active[i] \in Nat
          /\ IsFiniteSet(Opening(i)) /\ Cardinality(Opening(i)) \in Nat
        BY OpeningIs DEF GuardsKept, Types, Phases
    <2>2. Guarding(i)' = Guarding(i)
        BY <1>4 DEF Guarding
    <2>3. CASE i = k
        <3>1. Opening(i)' = Opening(i) \ {t} /\ t \in Opening(i)
            BY <1>2, <1>3, <2>3 DEF Opening, Idle
        <3>2. Cardinality(Opening(i)') = Cardinality(Opening(i)) - 1
            BY <2>1, <3>1, FS_RemoveElement
        <3> QED
            BY <2>1, <2>2, <2>3, <3>2, <1>4
    <2>4. CASE i # k
        <3>1. Opening(i)' = Opening(i)
            BY <1>2, <1>3, <2>4 DEF Opening, Idle
        <3> QED
            BY <2>1, <2>2, <2>4, <3>1, <1>4
    <2> QED
        BY <2>3, <2>4
<1>6. \A u \in Recorders : pc'[u].at = "activate" => \E g \in guards'[u] : g.id = pc'[u].id
    BY <1>2, <1>4 DEF GuardsKept, Idle
<1> QED
    BY <1>4, <1>5, <1>6 DEF GuardsKept

\* Whoever is about to count a region open has a guard of it, so one more guard
\* of it means it has been counted.
LEMMA GuardedIsOpen ==
    ASSUME Types, GuardsKept, NEW t \in Recorders, pc[t].at # "activate",
           NEW g \in guards[t], g.id \in RegionIds
    PROVE  active[g.id] > 0
<1> DEFINE k == g.id
           S == Opening(k) \cup {t}
           G == [u \in S |-> IF u = t THEN g ELSE CHOOSE c \in guards[u] : c.id = k]
           f == [u \in S |-> <<u, G[u]>>]
<1>1. /\ IsFiniteSet(Guarding(k)) /\ IsFiniteSet(Opening(k)) /\ Cardinality(Opening(k)) \in Nat
      /\ active[k] + Cardinality(Opening(k)) = Cardinality(Guarding(k)) /\ active[k] \in Nat
    BY OpeningIs DEF GuardsKept, Types, Phases
<1>2. t \notin Opening(k)
    BY DEF Opening
<1>3. Cardinality(S) = Cardinality(Opening(k)) + 1
    BY <1>1, <1>2, FS_AddElement
<1>4. ASSUME NEW u \in S PROVE u \in Recorders /\ G[u] \in guards[u] /\ G[u].id = k
    <2>1. CASE u = t
        BY <2>1
    <2>2. CASE u # t
        <3>1. u \in Recorders /\ pc[u].at = "activate" /\ pc[u].id = k
            BY <2>2 DEF Opening
        <3>2. \E c \in guards[u] : c.id = k
            BY <3>1 DEF GuardsKept
        <3> QED
            BY <2>2, <3>1, <3>2
    <2> QED
        BY <2>1, <2>2
<1> HIDE DEF G
<1>5. \A u \in S : f[u] \in Guarding(k)
    BY <1>4, GuardingIs
<1>6. f \in Injection(S, Guarding(k))
    <2>1. f \in [S -> Guarding(k)]
        BY <1>5
    <2>2. \A u, v \in S : f[u] = f[v] => u = v
        OBVIOUS
    <2>3. DOMAIN f = S
        OBVIOUS
    <2> HIDE DEF f, S, k
    <2> QED
        BY <2>1, <2>2, <2>3 DEF Injection, IsInjective
<1> HIDE DEF f, S
<1>7. Cardinality(S) <= Cardinality(Guarding(k))
    BY <1>1, <1>6, FS_Injection
<1> QED
    BY <1>1, <1>3, <1>7

LEMMA LeaveKeepsGuards ==
    ASSUME Types, Types', NEW t \in Recorders, NEW g \in guards[t], LeaveRegion(t, g), GuardsKept
    PROVE  GuardsKept' /\ poisoned' = (poisoned \/ FALSE)
<1>0. pc[t].at = "idle" /\ g.id \in RegionIds
    <2>1. pc[t].at = "idle"
        BY DEF LeaveRegion, Idle
    <2>2. g.id \in RegionIds
        BY LeaveRegionIsBeside
    <2> QED
        BY <2>1, <2>2
<1>1. active[g.id] > 0 /\ active[g.id] \in Nat
    BY <1>0, GuardedIsOpen DEF Types, Phases
<1>2. poisoned' = (poisoned \/ FALSE)
    <2>1. (active[g.id] = 0) = FALSE
        BY <1>1
    <2> QED
        BY <2>1 DEF LeaveRegion
<1>3. Greater(active[g.id] - 1, 0) = active[g.id] - 1
    BY <1>1 DEF Greater
<1>4. /\ active'[g.id] = active[g.id] - 1 /\ \A i \in RegionIds \ {g.id} : active'[i] = active[i]
      /\ guards'[t] = guards[t] \ {g} /\ \A u \in Recorders \ {t} : guards'[u] = guards[u]
      /\ UNCHANGED <<entries, regions, pc>>
    BY <1>0, <1>3 DEF LeaveRegion, Types, Phases
<1>5. ASSUME NEW i \in RegionIds
      PROVE  /\ IsFiniteSet(Guarding(i)')
             /\ active'[i] + Cardinality(Opening(i)') = Cardinality(Guarding(i)')
             /\ Cardinality(Guarding(i)') <= entries'[i]
    <2>1. /\ IsFiniteSet(Guarding(i)) /\ Cardinality(Guarding(i)) \in Nat
          /\ active[i] + Cardinality(Opening(i)) = Cardinality(Guarding(i))
          /\ Cardinality(Guarding(i)) <= entries[i] /\ active[i] \in Nat /\ entries[i] \in Nat
          /\ Cardinality(Opening(i)) \in Nat
        BY OpeningIs, FS_CardinalityType DEF GuardsKept, Types, Phases
    <2>2. Opening(i)' = Opening(i)
        BY <1>4 DEF Opening
    <2>3. CASE i = g.id
        <3>1. Guarding(i)' = Guarding(i) \ {<<t, g>>}
            <4>1. ASSUME NEW x
                  PROVE  x \in Guarding(i)' <=> x \in Guarding(i) /\ x # <<t, g>>
                <5>1. x \in Guarding(i)' <=> \E u \in Recorders : \E c \in guards'[u] : c.id = i /\ x = <<u, c>>
                    BY DEF Guarding
                <5>2. x \in Guarding(i) <=> \E u \in Recorders : \E c \in guards[u] : c.id = i /\ x = <<u, c>>
                    BY GuardingIs
                <5>3. \A u \in Recorders : \A c : c \in guards'[u] <=> c \in guards[u] /\ <<u, c>> # <<t, g>>
                    BY <1>4
                <5> QED
                    BY <5>1, <5>2, <5>3
            <4> QED
                BY <4>1
        <3>2. <<t, g>> \in Guarding(i)
            BY <2>3, GuardingIs
        <3>3. IsFiniteSet(Guarding(i)') /\ Cardinality(Guarding(i)') = Cardinality(Guarding(i)) - 1
            BY <2>1, <3>1, <3>2, FS_RemoveElement
        <3> QED
            BY <2>1, <2>2, <2>3, <3>3, <1>4
    <2>4. CASE i # g.id
        <3>1. Guarding(i)' = Guarding(i)
            <4>1. \A u \in Recorders : \A c : c.id = i => (c \in guards'[u] <=> c \in guards[u])
                BY <1>4, <2>4
            <4> QED
                BY <4>1 DEF Guarding
        <3> QED
            BY <2>1, <2>2, <2>4, <3>1, <1>4
    <2> QED
        BY <2>3, <2>4
<1>6. ASSUME NEW u \in Recorders
      PROVE  /\ \A c \in guards'[u] : c.nth < entries'[c.id]
             /\ pc'[u].at = "activate" => \E c \in guards'[u] : c.id = pc'[u].id
    <2>1. guards'[u] \subseteq guards[u] /\ (u # t => guards'[u] = guards[u])
        BY <1>4
    <2> QED
        BY <2>1, <1>0, <1>4 DEF GuardsKept
<1>7. IsInjective(regions')
    BY <1>4 DEF GuardsKept
<1> QED
    BY <1>2, <1>5, <1>6, <1>7 DEF GuardsKept

-----------------------------------------------------------------------------
(* The reader: what it knows, the names it reads and what it has summed *)

Counters == [total : Int, curr : Int]
AtRows == {"row", "bytes", "counts"}
AtEnd  == {"done", "answered"}
Visits == [at : AtRows, exclusive : BOOLEAN, index : Nat, len : Nat, sum : Counters,
           name : Seq(Recorders)]
Answers == [at : AtEnd, exclusive : BOOLEAN, sum : Counters, entered : Counters, outside : Counters]

ReaderKnown ==
    \/ reader = Idle
    \/ reader \in Visits /\ reader.index <= reader.len /\ reader.len <= count
    \/ reader = [at |-> "regions", exclusive |-> TRUE]
    \/ reader \in Answers

\* A row whose name or counters are read is there; the name of a settled cell
\* is what is read of it.
ReaderNames ==
    /\ reader.at \in {"bytes", "counts"} => reader.index < reader.len /\ reader.index \in published
    /\ reader.at = "bytes" =>
          LET cell == names[reader.index] IN
          /\ cell.state = SETTLED /\ Len(reader.name) <= Len(cell.bytes)
          /\ \A n \in 1..Len(reader.name) : reader.name[n] = cell.bytes[n]
    /\ reader.at = "counts" =>
          \/ reader.name = <<>>
          \/ names[reader.index].state = SETTLED /\ reader.name = names[reader.index].bytes

\* A visit that has the gate has it alone, and has summed the rows before its
\* index; no row that it will not visit holds anything.
ReaderSums ==
    Shut =>
       /\ Inside = {}
       /\ reader.at \in AtRows =>
             /\ \A field \in Fields :
                   Field(reader.sum, field) =
                      SumFunctionOnSet(KindTally("thread", field), 0..reader.index - 1)
             /\ \A i \in reader.len..MAX_THREADS - 1 :
                   tally[ThreadRow(i)].total = 0 /\ tally[ThreadRow(i)].curr = 0
       /\ reader.at \in AtEnd =>
             /\ reader.at = "done" => reader.sum = totals
             /\ reader.outside = outside
             /\ Plus(reader.entered, outside.total, outside.curr) = totals

LEMMA ReaderInit == Init => ReaderKnown /\ ReaderNames /\ ReaderSums
BY DEF Init, ReaderKnown, ReaderNames, ReaderSums, Idle, Shut

\* Names that are settled, of rows that are there, stay.
SettledStays ==
    \A i \in published : names[i].state = SETTLED => i \in published' /\ names'[i] = names[i]

LEMMA ReaderStays ==
    ASSUME Types, ReaderKnown, ReaderNames, reader' = reader, count <= count', count' \in Nat,
           published \subseteq published', SettledStays
    PROVE  ReaderKnown' /\ ReaderNames'
<1>1. ReaderKnown'
    <2>1. CASE reader = Idle \/ reader = [at |-> "regions", exclusive |-> TRUE] \/ reader \in Answers
        BY <2>1 DEF ReaderKnown
    <2>2. CASE reader \in Visits /\ reader.index <= reader.len /\ reader.len <= count
        <3>1. reader.len \in Nat /\ count \in Nat
            BY <2>2, Constants DEF Visits, Types, Known
        <3>2. reader.len <= count'
            BY <2>2, <3>1
        <3> QED
            BY <2>2, <3>2 DEF ReaderKnown
    <2> QED
        BY <2>1, <2>2 DEF ReaderKnown
<1>2. ReaderNames'
    <2>1. reader.at \in {"bytes", "counts"} => reader.index < reader.len /\ reader.index \in published'
        BY DEF ReaderNames
    <2>2. reader.at = "bytes" =>
             LET cell == names'[reader.index] IN
             /\ cell.state = SETTLED /\ Len(reader.name) <= Len(cell.bytes)
             /\ \A n \in 1..Len(reader.name) : reader.name[n] = cell.bytes[n]
        BY DEF ReaderNames, SettledStays
    <2>3. reader.at = "counts" =>
             \/ reader.name = <<>>
             \/ names'[reader.index].state = SETTLED /\ reader.name = names'[reader.index].bytes
        BY DEF ReaderNames, SettledStays
    <2> QED
        BY <2>1, <2>2, <2>3 DEF ReaderNames
<1> QED
    BY <1>1, <1>2

LEMMA SettledNames ==
    ASSUME Types, Owned, NamesKept, NEW t \in Recorders,
           \/ UNCHANGED <<published, names>>
           \/ Publish(t) \/ AskAgain(t) \/ NameStore(t)
    PROVE  SettledStays
<1>0. \A i \in published : i \in 0..MAX_THREADS - 1
    BY PublishedRows
<1>1. CASE UNCHANGED <<published, names>>
    BY <1>1 DEF SettledStays
<1>2. CASE Publish(t)
    <2>1. pc[t].index \notin published /\ pc[t].at = "publish"
        BY <1>2 DEF Publish, Owned
    <2>2. published \subseteq published' /\ \A i \in published : names'[i] = names[i]
        BY <1>0, <1>2, <2>1 DEF Publish, Types, Known
    <2> QED
        BY <2>2 DEF SettledStays
<1>3. CASE AskAgain(t)
    <2>1. thread[t] \in published /\ names[thread[t]].state # SETTLED /\ published' = published
        BY <1>3 DEF AskAgain
    <2>2. \A i \in published : i # thread[t] => names'[i] = names[i]
        BY <1>0, <1>3 DEF AskAgain, Types, Known
    <2> QED
        BY <2>1, <2>2 DEF SettledStays
<1>4. CASE NameStore(t)
    <2>1. thread[t] \in published /\ names[thread[t]].state # SETTLED /\ published' = published
        BY <1>4 DEF NameStore, Owned, NamesKept, OwnName
    <2>2. \A i \in published : i # thread[t] => names'[i] = names[i]
        BY <1>0, <1>4 DEF NameStore, Types, Known
    <2> QED
        BY <2>1, <2>2 DEF SettledStays
<1> QED
    BY <1>1, <1>2, <1>3, <1>4

\* The sums of a reader that has the gate stay while it has it.
LEMMA BesideKeepsSums ==
    ASSUME NEW t \in Recorders, Beside(t), ReaderSums
    PROVE  ReaderSums'
<1>1. Inside' = Inside
    BY DEF Inside, Beside, InGate
<1>2. UNCHANGED <<tally, totals, outside, reader>>
    BY DEF Beside
<1>3. \A field \in Fields : KindTally("thread", field)' = KindTally("thread", field)
    BY <1>2 DEF KindTally
<1>4. Shut' = Shut
    BY <1>2 DEF Shut
<1> QED
    BY <1>1, <1>2, <1>3, <1>4 DEF ReaderSums

LEMMA GateKeepsSums ==
    ASSUME ReaderSums, reader' = reader, Inside # {} \/ ~Shut
    PROVE  ReaderSums'
BY DEF ReaderSums, Shut

\* A name that has been read whole is its row's owner's.
LEMMA NamesRead ==
    ASSUME Types, Owned, NamesKept, ReaderNames
    PROVE  NamesAreWhole
<1> SUFFICES ASSUME reader.at = "counts", reader.name # <<>>
             PROVE  \E t \in Recorders : thread[t] = reader.index /\ reader.name = NameOf(t)
    BY DEF NamesAreWhole
<1>1. /\ reader.index \in published /\ names[reader.index].state = SETTLED
      /\ reader.name = names[reader.index].bytes
    BY DEF ReaderNames
<1>2. PICK t \in Recorders : thread[t] = reader.index
    BY <1>1 DEF Owned
<1>3. reader.name = NameOf(t)
    BY <1>1, <1>2 DEF NamesKept, OwnName
<1> QED
    BY <1>2, <1>3

LEMMA CountersEqual ==
    ASSUME NEW c \in Counters, NEW d \in Counters, c.total = d.total, c.curr = d.curr
    PROVE  c = d
BY DEF Counters

\* With nobody inside the gate nothing is due.
LEMMA BooksAlone ==
    ASSUME Types, Books, Inside = {}, NEW kind \in Kinds, NEW field \in Fields
    PROVE  Field(totals, field) = SumFunction(KindTally(kind, field)) + Beyond(kind, field)
<1>1. Due(kind, field) = [u \in Recorders |-> 0]
    BY DueNumber DEF Due, Types, Inside, InGate
<1>2. SumFunction(Due(kind, field)) = 0
    BY <1>1, SumOfZeros, Constants
<1> QED
    BY <1>2, TallyNumbers DEF Books

LEMMA OutsideIs ==
    ASSUME Types, Underway, Holdings
    PROVE  outside \in Counters /\ outside.total \in Nat /\ outside.curr \in Nat
<1>1. outside \in Counters /\ outside.total \in Int /\ outside.curr \in Int
    BY DEF Types, Holds, Counters
<1>2. outside.total >= 0
    BY DEF Holdings
<1>3. Balance(NoRegion) >= InLive(NoRegion) + SumFunction(Pending(NoRegion))
    BY DEF Holdings
<1>4. InLive(NoRegion) \in Nat /\ SumFunction(Pending(NoRegion)) \in Nat
    BY InLiveIs, OwesNoLess
<1> QED
    BY <1>1, <1>2, <1>3, <1>4 DEF Balance

\* The sums of region rows.
LEMMA RegionSums ==
    ASSUME Types, Empty
    PROVE  /\ Sum(RegionIds) \in Counters /\ Sum(Entered) \in Counters
           /\ Sum(RegionIds).total = SumFunction(KindTally("region", "total"))
           /\ Sum(RegionIds).curr = SumFunction(KindTally("region", "curr"))
           /\ Sum(Entered).total = Sum(RegionIds).total /\ Sum(Entered).curr = Sum(RegionIds).curr
           /\ Sum(RegionIds).total \in Nat /\ Sum(RegionIds).curr \in Nat
<1> DEFINE f == [i \in RegionIds |-> tally[RegionRow(i)].total]
           h == [i \in RegionIds |-> tally[RegionRow(i)].curr]
<1>1. f \in [RegionIds -> Nat] /\ h \in [RegionIds -> Nat]
    BY DEF Types, Holds, Rows, RegionRows
<1>2. \A i \in RegionIds \ Entered : f[i] = 0 /\ h[i] = 0
    BY DEF Empty, Entered
<1>3. KindTally("region", "total") = f /\ KindTally("region", "curr") = h
    BY DEF KindTally, Ids, Field, RegionRow
<1>4. Sum(RegionIds) = [total |-> SumFunctionOnSet(f, RegionIds), curr |-> SumFunctionOnSet(h, RegionIds)]
      /\ Sum(Entered) = [total |-> SumFunctionOnSet(f, Entered), curr |-> SumFunctionOnSet(h, Entered)]
    BY DEF Sum
<1>5. Entered \subseteq RegionIds /\ IsFiniteSet(RegionIds)
    BY KindsOfRows DEF Entered, Ids, Kinds
<1>6. DOMAIN f = RegionIds /\ DOMAIN h = RegionIds
    OBVIOUS
<1> HIDE DEF f, h
<1>7. /\ SumFunctionOnSet(f, Entered) = SumFunctionOnSet(f, RegionIds)
      /\ SumFunctionOnSet(h, Entered) = SumFunctionOnSet(h, RegionIds)
    BY <1>1, <1>2, <1>5, SumWithoutZeros
<1>8. SumFunctionOnSet(f, RegionIds) \in Nat /\ SumFunctionOnSet(h, RegionIds) \in Nat
    BY <1>1, <1>5, SumOnNaturals
<1>9. SumFunction(f) = SumFunctionOnSet(f, RegionIds) /\ SumFunction(h) = SumFunctionOnSet(h, RegionIds)
    BY <1>6 DEF SumFunction
<1> QED
    BY <1>3, <1>4, <1>7, <1>8, <1>9 DEF Counters

\* What the reader makes of the regions.
LEMMA ReadRegionsSums ==
    ASSUME Types, Underway, Empty, Books, Holdings, ReaderKnown, ReaderSums,
           reader \in Visits \/ reader = [at |-> "regions", exclusive |-> TRUE],
           NEW at \in AtEnd, NEW sum \in Counters, ReadRegions(at, sum),
           at = "done" /\ Shut => sum = totals
    PROVE  ReaderKnown' /\ ReaderNames' /\ ReaderSums' /\ poisoned' = (poisoned \/ FALSE)
<1> DEFINE all == Sum(RegionIds)
           left == [total |-> Greater(totals.total - all.total, 0),
                    curr |-> Greater(totals.curr - all.curr, 0)]
<1>1. reader' = [at |-> at, exclusive |-> reader.exclusive, sum |-> sum, entered |-> Sum(Entered),
                 outside |-> left]
    BY DEF ReadRegions
<1>2. totals \in Counters /\ totals.total \in Int /\ totals.curr \in Int
    BY DEF Types, Holds, Counters
<1>3. all.total \in Nat /\ all.curr \in Nat /\ Sum(Entered) \in Counters
      /\ Sum(Entered).total = all.total /\ Sum(Entered).curr = all.curr
    BY RegionSums
<1>4. left \in Counters
    BY <1>2, <1>3 DEF Counters, Greater
<1>5. reader.exclusive \in BOOLEAN /\ reader.at # "idle"
    <2>1. CASE reader \in Visits
        BY <2>1 DEF Visits, AtRows
    <2>2. CASE reader = [at |-> "regions", exclusive |-> TRUE]
        BY <2>2
    <2> QED
        BY <2>1, <2>2
<1>6. reader' \in Answers /\ reader'.at = at /\ reader'.exclusive = reader.exclusive
      /\ reader'.sum = sum /\ reader'.entered = Sum(Entered) /\ reader'.outside = left
    BY <1>1, <1>3, <1>4, <1>5 DEF Answers
<1>7. ReaderKnown' /\ ReaderNames'
    BY <1>6 DEF ReaderKnown, ReaderNames, AtEnd
<1>8. ASSUME reader.exclusive
      PROVE  /\ Inside = {} /\ totals.total = all.total + outside.total
             /\ totals.curr = all.curr + outside.curr
             /\ outside \in Counters /\ outside.total \in Nat /\ outside.curr \in Nat
    <2>1. Inside = {}
        BY <1>5, <1>8 DEF ReaderSums, Shut
    <2>2. /\ Field(totals, "total") = SumFunction(KindTally("region", "total")) + Beyond("region", "total")
          /\ Field(totals, "curr") = SumFunction(KindTally("region", "curr")) + Beyond("region", "curr")
        BY <2>1, BooksAlone DEF Kinds, Fields
    <2> QED
        BY <2>1, <2>2, OutsideIs, RegionSums DEF Field, Beyond
<1>9. poisoned' = (poisoned \/ FALSE)
    <2> DEFINE much == all.total > totals.total \/ all.curr > totals.curr
    <2>1. poisoned' = (poisoned \/ (reader.exclusive /\ much))
        BY DEF ReadRegions
    <2>2. ASSUME reader.exclusive PROVE ~much
        <3>1. /\ totals.total = all.total + outside.total /\ totals.curr = all.curr + outside.curr
              /\ outside.total \in Nat /\ outside.curr \in Nat
            BY <1>8, <2>2
        <3> HIDE DEF all
        <3> QED
            BY <1>3, <3>1
    <2> HIDE DEF much
    <2>3. (reader.exclusive /\ much) = FALSE
        BY <2>2, Zenon
    <2> QED
        BY <2>1, <2>3
<1>10. ReaderSums'
    <2> SUFFICES ASSUME reader.exclusive
                 PROVE  ReaderSums'
        BY <1>6 DEF ReaderSums, Shut
    <2>1. UNCHANGED <<totals, outside, pc>>
        BY DEF ReadRegions
    <2>2. Inside' = {} /\ at \notin AtRows
        BY <1>8, <2>1 DEF Inside, AtEnd, AtRows
    <2>3. left = outside
        <3>1. left.total = outside.total /\ left.curr = outside.curr
            BY <1>3, <1>8 DEF Greater
        <3> HIDE DEF left
        <3> QED
            BY <1>4, <1>8, <3>1, CountersEqual
    <2>4. Plus(Sum(Entered), outside.total, outside.curr) = totals
        <3>1. /\ Plus(Sum(Entered), outside.total, outside.curr) \in Counters
              /\ Plus(Sum(Entered), outside.total, outside.curr).total = all.total + outside.total
              /\ Plus(Sum(Entered), outside.total, outside.curr).curr = all.curr + outside.curr
            BY <1>3, <1>8, PlusIs DEF Counters
        <3> QED
            BY <1>2, <1>8, <3>1, CountersEqual
    <2>5. at = "done" => sum = totals
        BY <1>5 DEF Shut
    <2> HIDE DEF left, all
    <2> QED
        BY <1>6, <2>1, <2>2, <2>3, <2>4, <2>5 DEF ReaderSums
<1> QED
    BY <1>7, <1>9, <1>10

LEMMA BeginKeepsReader ==
    ASSUME Types, Empty, BeginVisit
    PROVE  ReaderKnown' /\ ReaderNames' /\ ReaderSums'
<1>0. count \in 0..MAX_THREADS /\ count \in Nat /\ published \subseteq 0..count - 1
      /\ UNCHANGED <<count, tally, pc, totals, outside, published, names>>
    BY Constants DEF Types, Known, BeginVisit, counts, threads
<1>1. reader' = [at |-> "row", exclusive |-> Inside = {}, index |-> 0, len |-> count, sum |-> Zero,
                 name |-> <<>>]
    BY DEF BeginVisit
<1>2. (Inside = {}) \in BOOLEAN /\ Zero \in Counters /\ <<>> \in Seq(Recorders)
    BY DEF Zero, Counters
<1>3. reader' \in Visits /\ reader'.at = "row" /\ reader'.exclusive = (Inside = {})
      /\ reader'.index = 0 /\ reader'.len = count /\ reader'.sum = Zero
    BY <1>0, <1>1, <1>2 DEF Visits, AtRows
<1>4. ReaderKnown' /\ ReaderNames'
    BY <1>0, <1>3 DEF ReaderKnown, ReaderNames
<1>5. ReaderSums'
    <2> SUFFICES ASSUME Shut' PROVE ReaderSums'
        BY DEF ReaderSums
    <2>1. Inside' = {}
        BY <1>0, <1>3 DEF Shut, Inside
    <2>2. ASSUME NEW field \in Fields
          PROVE  Field(reader'.sum, field) =
                    SumFunctionOnSet(KindTally("thread", field)', 0..reader'.index - 1)
        <3>1. 0..reader'.index - 1 = {}
            BY <1>3
        <3>2. Field(reader'.sum, field) = 0
            BY <1>3 DEF Field, Zero
        <3> QED
            BY <3>1, <3>2, SumEmpty
    <2>3. ASSUME NEW i \in reader'.len..MAX_THREADS - 1
          PROVE  tally'[ThreadRow(i)].total = 0 /\ tally'[ThreadRow(i)].curr = 0
        <3>1. i \in 0..MAX_THREADS - 1 /\ i \notin published
            BY <1>0, <1>3, Constants
        <3> QED
            BY <3>1, <1>0 DEF Empty
    <2> QED
        BY <2>1, <2>2, <2>3, <1>3 DEF ReaderSums, AtEnd
<1> QED
    BY <1>4, <1>5

LEMMA BreakdownKeepsReader ==
    ASSUME BeginBreakdown
    PROVE  ReaderKnown' /\ ReaderNames' /\ ReaderSums'
<1>1. reader' = [at |-> "regions", exclusive |-> TRUE] /\ pc' = pc /\ Inside = {}
    BY DEF BeginBreakdown
<1>2. Inside' = {}
    BY <1>1 DEF Inside
<1>3. reader'.at = "regions"
    BY <1>1
<1> QED
    BY <1>1, <1>2, <1>3 DEF ReaderKnown, ReaderNames, ReaderSums, AtRows, AtEnd

LEMMA EndKeepsReader ==
    ASSUME EndVisit
    PROVE  ReaderKnown' /\ ReaderNames' /\ ReaderSums'
BY DEF EndVisit, ReaderKnown, ReaderNames, ReaderSums, Shut, Idle

\* A row is read next: its counters are added, or it has none.
LEMMA NextIndex ==
    ASSUME Types, NEW field \in Fields, NEW n \in 0..MAX_THREADS - 1
    PROVE  SumFunctionOnSet(KindTally("thread", field), 0..n) =
              SumFunctionOnSet(KindTally("thread", field), 0..n - 1) + Field(tally[ThreadRow(n)], field)
<1> DEFINE f == KindTally("thread", field)
<1>1. f \in [ThreadIds -> Nat] /\ f[n] = Field(tally[ThreadRow(n)], field)
    BY TallyNumbers DEF KindTally, Ids, Kinds, ThreadIds, ThreadRow
<1>2. IsFiniteSet(0..n) /\ n \in 0..n /\ (0..n) \ {n} = 0..n - 1
    <2>1. n \in Int /\ 0 \in Int /\ 0 <= n
        BY Constants
    <2>2. IsFiniteSet(0..n)
        BY <2>1, FS_Interval
    <2>3. \A x : x \in (0..n) \ {n} <=> x \in 0..n - 1
        BY <2>1
    <2>4. (0..n) \ {n} = 0..n - 1
        BY <2>3
    <2> QED
        BY <2>1, <2>2, <2>4
<1>3. \A x \in 0..n : f[x] \in Int
    BY <1>1, Constants DEF ThreadIds
<1> HIDE DEF f
<1>4. /\ SumFunctionOnSet(f, (0..n) \ {n}) \in Int
      /\ SumFunctionOnSet(f, 0..n) = f[n] + SumFunctionOnSet(f, (0..n) \ {n})
    BY <1>2, <1>3, SumTakes
<1>5. f[n] \in Int
    BY <1>2, <1>3
<1>6. SumFunctionOnSet(f, 0..n - 1) \in Int /\ SumFunctionOnSet(f, 0..n) = f[n] + SumFunctionOnSet(f, 0..n - 1)
    BY <1>2, <1>4, Zenon
<1> QED
    BY <1>1, <1>5, <1>6 DEF f

LEMMA RowKeepsReader ==
    ASSUME Types, Empty, ReaderKnown, ReaderNames, ReaderSums, VisitRow
    PROVE  ReaderKnown' /\ ReaderNames' /\ ReaderSums'
<1>0. /\ reader.at = "row" /\ reader.index < reader.len
      /\ UNCHANGED <<count, tally, pc, totals, outside, published, names>>
    BY DEF VisitRow, counts, threads
<1>1. reader \in Visits /\ reader.index \in Nat /\ reader.len \in Nat /\ reader.len <= count
      /\ count <= MAX_THREADS /\ count \in Nat /\ MAX_THREADS \in Nat
    BY <1>0, Constants DEF ReaderKnown, Idle, Answers, AtEnd, Visits, Types, Known
<1>2. reader.index \in 0..MAX_THREADS - 1
    BY <1>0, <1>1
<1>3. CASE reader.index \notin published
    <2>1. reader' = [reader EXCEPT !.index = @ + 1]
        BY <1>3 DEF VisitRow
    <2>2. reader' \in Visits /\ reader'.index = reader.index + 1 /\ reader'.len = reader.len
          /\ reader'.at = "row" /\ reader'.sum = reader.sum /\ reader'.exclusive = reader.exclusive
        BY <1>0, <1>1, <2>1 DEF Visits
    <2>3. ReaderKnown' /\ ReaderNames'
        BY <1>0, <1>1, <2>2 DEF ReaderKnown, ReaderNames
    <2>4. ReaderSums'
        <3> SUFFICES ASSUME Shut' PROVE ReaderSums'
            BY DEF ReaderSums
        <3>1. Shut /\ Inside' = Inside
            BY <1>0, <2>2 DEF Shut, Inside
        <3>2. Inside' = {}
            BY <3>1 DEF ReaderSums
        <3>3. ASSUME NEW field \in Fields
              PROVE  Field(reader'.sum, field) =
                        SumFunctionOnSet(KindTally("thread", field)', 0..reader'.index - 1)
            <4>1. Field(tally[ThreadRow(reader.index)], field) = 0
                BY <1>2, <1>3 DEF Empty, Field
            <4>2. SumFunctionOnSet(KindTally("thread", field), 0..reader.index) =
                     SumFunctionOnSet(KindTally("thread", field), 0..reader.index - 1) + 0
                BY <1>2, <4>1, NextIndex
            <4>3. Field(reader.sum, field) =
                     SumFunctionOnSet(KindTally("thread", field), 0..reader.index - 1)
                BY <1>0, <3>1 DEF ReaderSums, AtRows
            <4>4. Field(reader.sum, field) \in Int
                BY <1>1 DEF Visits, Counters, Field
            <4>5. reader'.index - 1 = reader.index
                BY <1>1, <2>2
            <4>6. KindTally("thread", field)' = KindTally("thread", field)
                BY <1>0 DEF KindTally
            <4> QED
                BY <2>2, <4>2, <4>3, <4>4, <4>5, <4>6
        <3>4. \A i \in reader'.len..MAX_THREADS - 1 :
                 tally'[ThreadRow(i)].total = 0 /\ tally'[ThreadRow(i)].curr = 0
            BY <1>0, <2>2, <3>1 DEF ReaderSums, AtRows
        <3> QED
            BY <2>2, <3>2, <3>3, <3>4 DEF ReaderSums, AtEnd
    <2> QED
        BY <2>3, <2>4
<1>4. CASE reader.index \in published
    <2> DEFINE to == IF names[reader.index].state = SETTLED THEN "bytes" ELSE "counts"
    <2>1. reader' = [reader EXCEPT !.at = to, !.name = <<>>]
        BY <1>4 DEF VisitRow
    <2>2. reader' \in Visits /\ reader'.index = reader.index /\ reader'.len = reader.len
          /\ reader'.at = to /\ reader'.sum = reader.sum /\ reader'.exclusive = reader.exclusive
          /\ reader'.name = <<>>
        <3>1. to \in AtRows /\ <<>> \in Seq(Recorders)
            BY DEF AtRows
        <3> HIDE DEF to
        <3> QED
            BY <1>0, <1>1, <2>1, <3>1 DEF Visits
    <2>3. ReaderKnown'
        BY <1>0, <1>1, <2>2 DEF ReaderKnown
    <2>4. ReaderNames'
        <3>1. names[reader.index] \in Cells
            BY <1>2 DEF Types, Known
        <3>2. Len(<<>>) = 0 /\ Len(names[reader.index].bytes) \in Nat
            BY <3>1 DEF Cells
        <3> QED
            BY <1>0, <1>4, <2>2, <3>2 DEF ReaderNames
    <2>5. ReaderSums'
        <3>1. Shut' = Shut /\ Inside' = Inside /\ totals' = totals /\ reader'.at \notin AtEnd
              /\ reader.at \in AtRows
            BY <1>0, <2>2 DEF Shut, Inside, AtEnd, AtRows
        <3>2. \A field \in Fields : KindTally("thread", field)' = KindTally("thread", field)
            BY <1>0 DEF KindTally
        <3> HIDE DEF to
        <3> QED
            BY <1>0, <2>2, <3>1, <3>2 DEF ReaderSums
    <2> QED
        BY <2>3, <2>4, <2>5
<1> QED
    BY <1>3, <1>4

LEMMA ByteKeepsReader ==
    ASSUME Types, ReaderKnown, ReaderNames, ReaderSums, VisitByte
    PROVE  ReaderKnown' /\ ReaderNames' /\ ReaderSums'
<1> DEFINE bytes == names[reader.index].bytes
<1>0. /\ reader.at = "bytes"
      /\ UNCHANGED <<count, tally, pc, totals, outside, published, names>>
    BY DEF VisitByte, counts, threads
<1>1. reader \in Visits /\ reader.index <= reader.len /\ reader.len <= count
    BY <1>0 DEF ReaderKnown, Idle, Answers, AtEnd, Visits
<1>2. /\ reader.index < reader.len /\ reader.index \in published
      /\ names[reader.index].state = SETTLED /\ Len(reader.name) <= Len(bytes)
      /\ \A n \in 1..Len(reader.name) : reader.name[n] = bytes[n]
    BY <1>0 DEF ReaderNames
<1>3. names[reader.index] \in Cells /\ bytes \in Seq(Recorders) /\ Len(bytes) \in Nat
      /\ reader.name \in Seq(Recorders) /\ Len(reader.name) \in Nat
    BY <1>1, <1>2, PublishedRows DEF Types, Known, Cells, Visits
<1>4. /\ reader' \in Visits /\ reader'.index = reader.index /\ reader'.len = reader.len
      /\ reader'.sum = reader.sum /\ reader'.exclusive = reader.exclusive
      /\ reader'.at \in {"bytes", "counts"} /\ ReaderNames'
    <2>1. CASE Len(reader.name) < Len(bytes)
        <3> DEFINE k == Len(reader.name) + 1  name == Append(reader.name, bytes[k])
        <3>1. reader' = [reader EXCEPT !.name = name]
            BY <2>1 DEF VisitByte
        <3>2. k \in 1..Len(bytes)
            BY <1>3, <2>1
        <3>3. bytes[k] \in Recorders
            BY <1>3, <3>2
        <3>4. /\ name \in Seq(Recorders) /\ Len(name) = k
              /\ \A n \in 1..Len(reader.name) : name[n] = reader.name[n]
              /\ name[k] = bytes[k]
            BY <1>3, <3>3
        <3>0. k = Len(reader.name) + 1
            OBVIOUS
        <3> HIDE DEF bytes, name, k
        <3>5. \A n \in 1..Len(name) : name[n] = bytes[n]
            <4>1. TAKE n \in 1..Len(name)
            <4>2. n \in 1..Len(reader.name) \/ n = k
                BY <1>3, <3>4, <3>0, <4>1
            <4>3. CASE n \in 1..Len(reader.name)
                <5>1. bytes[n] = reader.name[n]
                    BY <1>2, <4>3 DEF bytes
                <5> QED
                    BY <3>4, <4>3, <5>1
            <4>4. CASE n = k
                BY <3>4, <4>4, Zenon
            <4> QED
                BY <4>2, <4>3, <4>4
        <3>6. Len(name) <= Len(bytes)
            BY <1>3, <2>1, <3>4, <3>0
        <3>7. /\ reader' \in Visits /\ reader'.index = reader.index /\ reader'.len = reader.len
              /\ reader'.sum = reader.sum /\ reader'.exclusive = reader.exclusive
              /\ reader'.at = "bytes" /\ reader'.name = name
            BY <1>0, <1>1, <3>1, <3>4 DEF Visits
        <3>8. ReaderNames'
            BY <1>0, <1>2, <3>5, <3>6, <3>7 DEF ReaderNames, bytes
        <3> QED
            BY <3>7, <3>8
    <2>2. CASE ~(Len(reader.name) < Len(bytes))
        <3>1. reader' = [reader EXCEPT !.at = "counts"]
            BY <2>2 DEF VisitByte
        <3>2. /\ reader' \in Visits /\ reader'.index = reader.index /\ reader'.len = reader.len
              /\ reader'.sum = reader.sum /\ reader'.exclusive = reader.exclusive
              /\ reader'.at = "counts" /\ reader'.name = reader.name
            BY <1>1, <3>1 DEF Visits, AtRows
        <3> HIDE DEF bytes
        <3>3. Len(reader.name) = Len(bytes)
            BY <1>2, <1>3, <2>2
        <3>4. reader.name = bytes
            BY <1>2, <1>3, <3>3, SeqEqual
        <3>5. ReaderNames'
            BY <1>0, <1>2, <3>2, <3>4 DEF ReaderNames, bytes
        <3> QED
            BY <3>2, <3>5
    <2> QED
        BY <2>1, <2>2
<1> HIDE DEF bytes
<1>5. ReaderKnown'
    BY <1>0, <1>1, <1>4 DEF ReaderKnown
<1>6. ReaderSums'
    <2>1. Shut' = Shut /\ Inside' = Inside /\ reader'.at \notin AtEnd /\ reader.at \in AtRows
        <3>1. reader'.at # "idle" /\ reader.at # "idle" /\ reader'.at \notin AtEnd /\ reader.at \in AtRows
            BY <1>0, <1>4 DEF AtEnd, AtRows
        <3> QED
            BY <1>0, <1>4, <3>1 DEF Shut, Inside
    <2>2. \A field \in Fields : KindTally("thread", field)' = KindTally("thread", field)
        BY <1>0 DEF KindTally
    <2> QED
        BY <1>0, <1>4, <2>1, <2>2 DEF ReaderSums
<1> QED
    BY <1>4, <1>5, <1>6

LEMMA CountsKeepsReader ==
    ASSUME Types, ReaderKnown, ReaderNames, ReaderSums, VisitCounts
    PROVE  ReaderKnown' /\ ReaderNames' /\ ReaderSums'
<1>0. /\ reader.at = "counts"
      /\ UNCHANGED <<count, tally, pc, totals, outside, published, names>>
      /\ reader' = [reader EXCEPT !.at = "row", !.index = @ + 1,
                                  !.sum = Counted(@, ThreadRow(reader.index))]
    BY DEF VisitCounts, counts, threads
<1>1. reader \in Visits /\ reader.index \in Nat /\ reader.len \in Nat /\ reader.len <= count
      /\ reader.sum \in Counters
    BY <1>0 DEF ReaderKnown, Idle, Answers, AtEnd, Visits
<1>2. reader.index < reader.len /\ reader.index \in published /\ reader.index \in 0..MAX_THREADS - 1
    BY <1>0, PublishedRows DEF ReaderNames
<1> DEFINE r == ThreadRow(reader.index)  sum == Counted(reader.sum, r)
<1>3. tally[r].total \in Int /\ tally[r].curr \in Int
    BY <1>2 DEF Types, Holds, Rows, ThreadIds
<1>4. /\ sum \in Counters
      /\ sum.total = reader.sum.total + tally[r].total /\ sum.curr = reader.sum.curr + tally[r].curr
    <2> HIDE DEF r
    <2> QED
        BY <1>1, <1>3, PlusIs DEF Counted, Counters
<1> HIDE DEF sum, r
<1>5. /\ reader' \in Visits /\ reader'.index = reader.index + 1 /\ reader'.len = reader.len
      /\ reader'.at = "row" /\ reader'.sum = sum /\ reader'.exclusive = reader.exclusive
    <2> DEFINE i == reader.index + 1
    <2>1. reader' = [reader EXCEPT !.at = "row", !.index = i, !.sum = sum]
        BY <1>0 DEF sum, r
    <2>2. "row" \in AtRows /\ i \in Nat
        BY <1>1 DEF AtRows
    <2> HIDE DEF i
    <2>3. reader' \in Visits
        BY <1>1, <1>4, <2>1, <2>2 DEF Visits
    <2>4. /\ reader'.index = i /\ reader'.len = reader.len /\ reader'.at = "row"
          /\ reader'.sum = sum /\ reader'.exclusive = reader.exclusive
        BY <1>1, <2>1 DEF Visits
    <2>5. i = reader.index + 1
        BY DEF i
    <2> QED
        BY <2>3, <2>4, <2>5
<1>6. ReaderKnown' /\ ReaderNames'
    BY <1>0, <1>1, <1>2, <1>5 DEF ReaderKnown, ReaderNames
<1>7. ReaderSums'
    <2> SUFFICES ASSUME Shut' PROVE ReaderSums'
        BY DEF ReaderSums
    <2>1. Shut /\ Inside' = Inside
        BY <1>0, <1>5 DEF Shut, Inside
    <2>2. Inside' = {}
        BY <2>1 DEF ReaderSums
    <2>3. ASSUME NEW field \in Fields
          PROVE  Field(reader'.sum, field) =
                    SumFunctionOnSet(KindTally("thread", field)', 0..reader'.index - 1)
        <3>1. SumFunctionOnSet(KindTally("thread", field), 0..reader.index) =
                 SumFunctionOnSet(KindTally("thread", field), 0..reader.index - 1)
                    + Field(tally[r], field)
            BY <1>2, NextIndex DEF r
        <3>2. Field(reader.sum, field) =
                 SumFunctionOnSet(KindTally("thread", field), 0..reader.index - 1)
            BY <1>0, <2>1 DEF ReaderSums, AtRows
        <3>3. Field(sum, field) = Field(reader.sum, field) + Field(tally[r], field)
            BY <1>4 DEF Field
        <3>4. reader'.index - 1 = reader.index
            BY <1>1, <1>5
        <3>5. KindTally("thread", field)' = KindTally("thread", field)
            BY <1>0 DEF KindTally
        <3> QED
            BY <1>5, <3>1, <3>2, <3>3, <3>4, <3>5
    <2>4. \A i \in reader'.len..MAX_THREADS - 1 :
             tally'[ThreadRow(i)].total = 0 /\ tally'[ThreadRow(i)].curr = 0
        BY <1>0, <1>5, <2>1 DEF ReaderSums, AtRows
    <2> QED
        BY <1>5, <2>2, <2>3, <2>4 DEF ReaderSums, AtEnd
<1> QED
    BY <1>6, <1>7

\* All rows before the end, and the shared one, are all there is.
LEMMA RegionsKeepReader ==
    ASSUME Types, Underway, Empty, Books, Holdings, ReaderKnown, ReaderSums, VisitRegions
    PROVE  ReaderKnown' /\ ReaderNames' /\ ReaderSums' /\ poisoned' = (poisoned \/ FALSE)
<1> DEFINE r == ThreadRow(OVERFLOW)  sum == Counted(reader.sum, r)
<1>0. reader.at = "row" /\ reader.index = reader.len /\ ReadRegions("done", sum)
    BY DEF VisitRegions
<1>1. reader \in Visits /\ reader.index \in Nat /\ reader.len \in Nat /\ reader.len <= count
      /\ reader.sum \in Counters
    BY <1>0 DEF ReaderKnown, Idle, Answers, AtEnd, Visits
<1>2. count <= MAX_THREADS /\ count \in Nat /\ MAX_THREADS \in Nat /\ MAX_THREADS < OVERFLOW
      /\ OVERFLOW \in Nat /\ OVERFLOW \in ThreadIds
    BY Constants DEF Types, Known
<1>3. tally[r].total \in Int /\ tally[r].curr \in Int
    BY <1>2 DEF Types, Holds, Rows
<1>4. /\ sum \in Counters
      /\ sum.total = reader.sum.total + tally[r].total /\ sum.curr = reader.sum.curr + tally[r].curr
    <2> HIDE DEF r
    <2> QED
        BY <1>1, <1>3, PlusIs DEF Counted, Counters
<1>5. ASSUME Shut PROVE sum = totals
    <2>1. ASSUME NEW field \in Fields PROVE Field(totals, field) = Field(sum, field)
        <3> DEFINE f == KindTally("thread", field)
        <3>1. f \in [ThreadIds -> Nat] /\ f[OVERFLOW] = Field(tally[r], field) /\ IsFiniteSet(ThreadIds)
            BY <1>2, TallyNumbers, KindsOfRows DEF KindTally, Ids, Kinds, ThreadRow
        <3>2. ThreadIds \ {OVERFLOW} = 0..MAX_THREADS - 1
            BY <1>2 DEF ThreadIds
        <3>3. \A i \in reader.len..MAX_THREADS - 1 : f[i] = 0
            <4>1. \A i \in reader.len..MAX_THREADS - 1 : i \in ThreadIds
                BY <1>1, <1>2 DEF ThreadIds
            <4>2. \A i \in reader.len..MAX_THREADS - 1 : Field(tally[ThreadRow(i)], field) = 0
                BY <1>0, <1>5 DEF ReaderSums, AtRows, Field
            <4> QED
                BY <4>1, <4>2 DEF KindTally, Ids, ThreadRow
        <3>4. Field(reader.sum, field) = SumFunctionOnSet(f, 0..reader.len - 1)
            BY <1>0, <1>5 DEF ReaderSums, AtRows
        <3>5. Field(totals, field) = SumFunction(f)
            <4>1. Inside = {}
                BY <1>5 DEF ReaderSums
            <4>2. Field(totals, field) = SumFunction(f) + Beyond("thread", field)
                BY <4>1, BooksAlone DEF Kinds
            <4>3. SumFunction(f) \in Nat /\ Beyond("thread", field) = 0
                BY TallyNumbers DEF Kinds, Beyond
            <4> QED
                BY <4>2, <4>3
        <3>6. Field(sum, field) = Field(reader.sum, field) + Field(tally[r], field)
            BY <1>4 DEF Field
        <3>7. DOMAIN f = ThreadIds
            BY <3>1
        <3> HIDE DEF f, sum, r
        <3>8. SumFunctionOnSet(f, ThreadIds) =
                 f[OVERFLOW] + SumFunctionOnSet(f, ThreadIds \ {OVERFLOW})
            <4>1. \A i \in ThreadIds : f[i] \in Int
                BY <3>1
            <4> QED
                BY <1>2, <3>1, <4>1, SumTakes, Zenon
        <3>9. SumFunctionOnSet(f, 0..reader.len - 1) = SumFunctionOnSet(f, ThreadIds \ {OVERFLOW})
            <4> DEFINE A == 0..reader.len - 1  B == ThreadIds \ {OVERFLOW}
            <4>1. A \subseteq B /\ \A x \in B \ A : x \in reader.len..MAX_THREADS - 1
                BY <1>1, <1>2, <3>2
            <4>2. IsFiniteSet(B) /\ \A x \in B : f[x] \in Nat
                BY <3>1, FS_Subset
            <4>3. \A x \in B \ A : f[x] = 0
                BY <3>3, <4>1
            <4> HIDE DEF A, B
            <4>4. SumFunctionOnSet(f, A) = SumFunctionOnSet(f, B)
                BY <4>1, <4>2, <4>3, SumWithoutZeros
            <4> QED
                BY <4>4 DEF A, B
        <3>10. SumFunction(f) = SumFunctionOnSet(f, ThreadIds)
            BY <3>7 DEF SumFunction
        <3>11. Field(reader.sum, field) \in Int /\ f[OVERFLOW] \in Int
            BY <1>1, <1>2, <3>1 DEF Counters, Field
        <3> QED
            BY <3>1, <3>4, <3>5, <3>6, <3>8, <3>9, <3>10, <3>11
    <2>2. sum.total = totals.total /\ sum.curr = totals.curr
        BY <2>1 DEF Fields, Field
    <2>3. totals \in Counters
        BY DEF Types, Holds, Counters
    <2> HIDE DEF sum
    <2> QED
        BY <1>4, <2>2, <2>3, CountersEqual
<1> HIDE DEF sum, r
<1>6. "done" \in AtEnd
    BY DEF AtEnd
<1> QED
    BY <1>0, <1>1, <1>4, <1>5, <1>6, ReadRegionsSums

LEMMA AnswerKeepsReader ==
    ASSUME Types, Underway, Empty, Books, Holdings, ReaderKnown, ReaderSums, Breakdown
    PROVE  ReaderKnown' /\ ReaderNames' /\ ReaderSums' /\ poisoned' = (poisoned \/ FALSE)
<1>1. reader.at = "regions" /\ ReadRegions("answered", Zero)
    BY DEF Breakdown
<1>2. reader = [at |-> "regions", exclusive |-> TRUE]
    BY <1>1 DEF ReaderKnown, Idle, Visits, AtRows, Answers, AtEnd
<1>3. Zero \in Counters /\ "answered" \in AtEnd /\ "answered" # "done"
    BY DEF Zero, Counters, AtEnd
<1> QED
    BY <1>1, <1>2, <1>3, ReadRegionsSums

LEMMA VisitKeepsReader ==
    ASSUME Types, Underway, Empty, Books, Holdings, ReaderKnown, ReaderNames, ReaderSums, ~poisoned,
           Visit
    PROVE  ReaderKnown' /\ ReaderNames' /\ ReaderSums' /\ ~poisoned'
<1>1. CASE BeginVisit
    BY <1>1, BeginKeepsReader DEF BeginVisit, counts
<1>2. CASE BeginBreakdown
    BY <1>2, BreakdownKeepsReader DEF BeginBreakdown, counts
<1>3. CASE VisitRow
    BY <1>3, RowKeepsReader DEF VisitRow, counts
<1>4. CASE VisitByte
    BY <1>4, ByteKeepsReader DEF VisitByte, counts
<1>5. CASE VisitCounts
    BY <1>5, CountsKeepsReader DEF VisitCounts, counts
<1>6. CASE VisitRegions
    BY <1>6, RegionsKeepReader
<1>7. CASE Breakdown
    BY <1>7, AnswerKeepsReader
<1>8. CASE EndVisit
    BY <1>8, EndKeepsReader DEF EndVisit, counts
<1> QED
    BY <1>1, <1>2, <1>3, <1>4, <1>5, <1>6, <1>7, <1>8 DEF Visit

-----------------------------------------------------------------------------
(* The inductive invariant, and that every step keeps it *)

RowsKept == Owned /\ NamesKept
EventsKept == Underway /\ Placed /\ Empty
BooksKept == Holdings /\ Books /\ Peaks
ReaderKept == ReaderKnown /\ ReaderNames /\ ReaderSums
IInv == Types /\ ~poisoned /\ RowsKept /\ EventsKept /\ BooksKept /\ GuardsKept /\ ReaderKept

LEMMA IInvInit == Init => IInv
<1> SUFFICES ASSUME Init PROVE IInv
    OBVIOUS
<1>1. ~poisoned
    BY DEF Init
<1>2. Types /\ RowsKept
    BY TypesInit, RowsInit DEF RowsKept
<1>3. EventsKept /\ BooksKept
    BY StandInit, HoldingsInit, BooksInit, PeaksInit DEF EventsKept, BooksKept
<1>4. GuardsKept /\ ReaderKept
    BY GuardsInit, ReaderInit DEF ReaderKept
<1> QED
    BY <1>1, <1>2, <1>3, <1>4 DEF IInv

\* A step outside the gate.
LEMMA BesideKeeps ==
    ASSUME IInv, Types', ~poisoned', NEW t \in Recorders, Beside(t), RowsKept', Placed', GuardsKept',
           count <= count', SettledStays
    PROVE  IInv'
<1>1. EventsKept'
    BY BesideKeepsEvents DEF IInv, EventsKept
<1>2. Holdings' /\ Books' /\ Peaks'
    BY <1>1, BesideKeepsHoldings, BesideKeepsBooks, BesideKeepsPeaks DEF IInv, EventsKept, BooksKept
<1>3. ReaderKnown' /\ ReaderNames'
    <2>1. published \subseteq published' /\ reader' = reader
        BY DEF Beside
    <2>2. count' \in Nat
        BY Constants DEF Types, Known
    <2> QED
        BY <2>1, <2>2, ReaderStays DEF IInv, ReaderKept
<1>4. ReaderSums'
    BY BesideKeepsSums DEF IInv, ReaderKept
<1> QED
    BY <1>1, <1>2, <1>3, <1>4 DEF IInv, BooksKept, ReaderKept

\* Rows are claimed and named.
LEMMA ThreadKeeps ==
    ASSUME IInv, Types', NEW t \in Recorders, Beside(t), UNCHANGED <<phases, poisoned>>, RowsKept',
           count <= count', SettledStays, pc[t].at # "activate", pc'[t].at # "activate"
    PROVE  IInv'
<1>1. UNCHANGED <<regions, entries, active, region, guards>> /\ Types /\ ~poisoned'
    BY DEF phases, IInv
<1>2. Placed'
    BY <1>1, BesideKeepsPlaces DEF IInv, EventsKept
<1>3. IsInjective(regions')
    BY <1>1 DEF IInv, GuardsKept
<1>4. GuardsKept'
    <2>1. \A u \in Recorders : pc'[u] = pc[u] \/ (pc[u].at # "activate" /\ pc'[u].at # "activate")
        BY DEF Beside
    <2> QED
        BY <1>1, <1>3, <2>1, GuardsStay DEF IInv
<1> QED
    BY <1>1, <1>2, <1>4, BesideKeeps

LEMMA ClaimLoadKeeps ==
    ASSUME IInv, NEW t \in Recorders, ClaimLoad(t)
    PROVE  IInv'
<1>1. Types /\ Owned /\ NamesKept
    BY DEF IInv, RowsKept
<1>2. Types' /\ Beside(t)
    BY <1>1, ClaimLoadIsBeside
<1>3. RowsKept'
    BY <1>1, ClaimLoadKeepsRows DEF RowsKept
<1>4. UNCHANGED <<phases, poisoned, count, published, names>>
    BY DEF ClaimLoad, counts
<1>5. count <= count'
    BY <1>1, <1>4, Constants DEF Types, Known
<1>6. SettledStays
    BY <1>1, <1>4, SettledNames
<1>7. pc[t].at # "activate" /\ pc'[t].at # "activate"
    <2>1. pc[t] = Idle /\ (pc' = pc \/ Goto(t, [at |-> "claim", count |-> count]))
        BY DEF ClaimLoad
    <2> QED
        BY <1>1, <2>1 DEF Idle, Goto, Types
<1> QED
    BY <1>2, <1>3, <1>4, <1>5, <1>6, <1>7, ThreadKeeps

LEMMA ClaimIndexKeeps ==
    ASSUME IInv, NEW t \in Recorders, ClaimIndex(t)
    PROVE  IInv'
<1>1. Types /\ Owned /\ NamesKept
    BY DEF IInv, RowsKept
<1>2. Types' /\ Beside(t)
    BY <1>1, ClaimIndexIsBeside
<1>3. RowsKept'
    BY <1>1, ClaimIndexKeepsRows DEF RowsKept
<1>4. UNCHANGED <<phases, poisoned, published, names>> /\ count' \in {count, count + 1}
    BY DEF ClaimIndex, counts
<1>5. count <= count'
    BY <1>1, <1>4, Constants DEF Types, Known
<1>6. SettledStays
    BY <1>1, <1>4, SettledNames
<1>7. pc[t].at # "activate" /\ pc'[t].at # "activate"
    <2>1. /\ pc[t].at = "claim"
          /\ Goto(t, Idle) \/ Goto(t, [at |-> "publish", index |-> count])
        BY DEF ClaimIndex
    <2> QED
        BY <1>1, <2>1 DEF Idle, Goto, Types
<1> QED
    BY <1>2, <1>3, <1>4, <1>5, <1>6, <1>7, ThreadKeeps

LEMMA PublishKeeps ==
    ASSUME IInv, NEW t \in Recorders, Publish(t)
    PROVE  IInv'
<1>1. Types /\ Owned /\ NamesKept
    BY DEF IInv, RowsKept
<1>2. Types' /\ Beside(t)
    <2>1. pc[t].index \in 0..count - 1
        BY <1>1 DEF Publish, Owned
    <2> QED
        BY <1>1, <2>1, PublishIsBeside
<1>3. RowsKept'
    BY <1>1, PublishKeepsRows DEF RowsKept
<1>4. UNCHANGED <<phases, poisoned, count>>
    BY DEF Publish, counts
<1>5. count <= count'
    BY <1>1, <1>4, Constants DEF Types, Known
<1>6. SettledStays
    BY <1>1, SettledNames
<1>7. pc[t].at # "activate" /\ pc'[t].at # "activate"
    BY <1>1 DEF Publish, Idle, Goto, Types
<1> QED
    BY <1>2, <1>3, <1>4, <1>5, <1>6, <1>7, ThreadKeeps

LEMMA AskAgainKeeps ==
    ASSUME IInv, NEW t \in Recorders, AskAgain(t)
    PROVE  IInv'
<1>1. Types /\ Owned /\ NamesKept
    BY DEF IInv, RowsKept
<1>2. Types' /\ Beside(t)
    BY <1>1, AskAgainIsBeside
<1>3. RowsKept'
    BY <1>1, AskAgainKeepsRows DEF RowsKept
<1>4. UNCHANGED <<phases, poisoned, count>>
    BY DEF AskAgain, counts
<1>5. count <= count'
    BY <1>1, <1>4, Constants DEF Types, Known
<1>6. SettledStays
    BY <1>1, SettledNames
<1>7. pc[t].at # "activate" /\ pc'[t].at # "activate"
    <2>1. pc[t] = Idle /\ (pc' = pc \/ Goto(t, [at |-> "name"]))
        BY DEF AskAgain
    <2> QED
        BY <1>1, <2>1 DEF Idle, Goto, Types
<1> QED
    BY <1>2, <1>3, <1>4, <1>5, <1>6, <1>7, ThreadKeeps

LEMMA NameStoreKeeps ==
    ASSUME IInv, NEW t \in Recorders, NameStore(t)
    PROVE  IInv'
<1>1. Types /\ Owned /\ NamesKept
    BY DEF IInv, RowsKept
<1>2. Types' /\ Beside(t)
    <2>1. thread[t] \in published
        BY <1>1 DEF NameStore, Owned
    <2> QED
        BY <1>1, <2>1, NameStoreIsBeside
<1>3. RowsKept'
    BY <1>1, NameStoreKeepsRows DEF RowsKept
<1>4. UNCHANGED <<phases, poisoned, count>>
    BY DEF NameStore, counts
<1>5. count <= count'
    BY <1>1, <1>4, Constants DEF Types, Known
<1>6. SettledStays
    BY <1>1, SettledNames
<1>7. pc[t].at # "activate" /\ pc'[t].at # "activate"
    <2>1. pc[t].at = "name" /\ (pc' = pc \/ Goto(t, Idle))
        BY DEF NameStore
    <2> QED
        BY <1>1, <2>1 DEF Idle, Goto, Types
<1> QED
    BY <1>2, <1>3, <1>4, <1>5, <1>6, <1>7, ThreadKeeps

\* Regions are entered and left.
LEMMA RegionKeeps ==
    ASSUME IInv, Types', ~poisoned', NEW t \in Recorders, Beside(t), UNCHANGED threads, Placed',
           GuardsKept', pc[t].at # "name", pc'[t].at \notin {"claim", "publish", "name"}
    PROVE  IInv'
<1>1. Types /\ Owned /\ NamesKept /\ UNCHANGED <<count, published, names, thread>>
    BY DEF IInv, RowsKept, threads
<1>2. RowsKept'
    <2>1. \A u \in Recorders : \/ pc'[u] = pc[u]
                               \/ /\ pc[u].at # "name"
                                  /\ pc'[u].at \notin {"claim", "publish", "name"}
        BY DEF Beside
    <2> QED
        BY <1>1, <2>1, RowsStay DEF RowsKept
<1>3. SettledStays
    BY <1>1, SettledNames
<1>4. count <= count'
    BY <1>1, Constants DEF Types, Known
<1> QED
    BY <1>2, <1>3, <1>4, BesideKeeps

LEMMA InternKeeps ==
    ASSUME IInv, NEW t \in Recorders, NEW n \in Names, Intern(t, n)
    PROVE  IInv'
<1>1. Types /\ Types' /\ Beside(t)
    BY InternIsBeside DEF IInv
<1>2. UNCHANGED <<threads, region, guards, poisoned>>
    BY DEF Intern, counts
<1>3. Placed' /\ GuardsKept' /\ ~poisoned'
    BY <1>1, <1>2, BesideKeepsPlaces, InternKeepsGuards DEF IInv, EventsKept
<1>4. pc[t].at # "name" /\ pc'[t].at \notin {"claim", "publish", "name"}
    <2>1. pc[t] = Idle /\ \E id : Goto(t, [at |-> "enter", id |-> id])
        BY DEF Intern
    <2> QED
        BY <1>1, <2>1 DEF Idle, Goto, Types
<1> QED
    BY <1>1, <1>2, <1>3, <1>4, RegionKeeps

LEMMA EnterKeeps ==
    ASSUME IInv, NEW t \in Recorders, EnterRegion(t)
    PROVE  IInv'
<1>1. /\ Types /\ Types' /\ Beside(t)
      /\ pc[t].at = "enter" /\ pc'[t] = [at |-> "activate", id |-> pc[t].id]
    BY EnterRegionIsBeside DEF IInv, EnterRegion
<1>2. UNCHANGED <<threads, poisoned>>
    BY DEF EnterRegion, counts
<1>3. Placed' /\ GuardsKept' /\ ~poisoned'
    BY <1>1, <1>2, EnterKeepsPlaces, EnterKeepsGuards DEF IInv, EventsKept
<1> QED
    BY <1>1, <1>2, <1>3, RegionKeeps

LEMMA ActivateKeeps ==
    ASSUME IInv, NEW t \in Recorders, Activate(t)
    PROVE  IInv'
<1>1. Types /\ Types' /\ Beside(t) /\ pc[t].at = "activate" /\ pc'[t] = Idle
    BY ActivateIsBeside DEF IInv, Activate
<1>2. UNCHANGED <<threads, region, guards, poisoned>>
    BY DEF Activate, counts
<1>3. Placed' /\ GuardsKept' /\ ~poisoned'
    BY <1>1, <1>2, BesideKeepsPlaces, ActivateKeepsGuards DEF IInv, EventsKept
<1> QED
    BY <1>1, <1>2, <1>3, RegionKeeps DEF Idle

LEMMA LeaveKeeps ==
    ASSUME IInv, NEW t \in Recorders, NEW g \in guards[t], LeaveRegion(t, g)
    PROVE  IInv'
<1>1. Types /\ Types' /\ Beside(t)
    BY LeaveRegionIsBeside DEF IInv
<1>2. UNCHANGED <<threads, pc>> /\ pc[t] = Idle
    BY DEF LeaveRegion
<1>3. Placed' /\ GuardsKept' /\ poisoned' = (poisoned \/ FALSE)
    BY <1>1, LeaveKeepsPlaces, LeaveKeepsGuards DEF IInv, EventsKept
<1>4. ~poisoned'
    BY <1>3 DEF IInv
<1> QED
    BY <1>1, <1>2, <1>3, <1>4, RegionKeeps DEF Idle

\* Recorders pass the gate: nobody is given a row, a name or a region by it.
LEMMA GateKeepsGuards ==
    ASSUME Types, Types', GuardsKept, UNCHANGED phases,
           \A u \in Recorders : pc'[u] = pc[u] \/ (pc[u].at # "activate" /\ pc'[u].at # "activate")
    PROVE  GuardsKept'
<1>1. UNCHANGED <<regions, entries, active, guards>>
    BY DEF phases
<1>2. IsInjective(regions')
    BY <1>1 DEF GuardsKept
<1> QED
    BY <1>1, <1>2, GuardsStay

LEMMA GateKeepsNames ==
    ASSUME Types, ReaderKnown, ReaderNames, UNCHANGED <<threads, reader>>
    PROVE  ReaderKnown' /\ ReaderNames'
<1>1. UNCHANGED <<count, published, names>>
    BY DEF threads
<1>2. count' \in Nat /\ count <= count' /\ published \subseteq published'
    BY <1>1, Constants DEF Types, Known
<1>3. SettledStays
    BY <1>1 DEF SettledStays
<1> QED
    BY <1>2, <1>3, ReaderStays

LEMMA RecordKeeps ==
    ASSUME IInv, Types', NEW t \in Recorders, NEW site \in SiteIds, NEW freed, NEW lost \in Nat,
           Records(t, site, freed, lost)
    PROVE  IInv'
<1>1. /\ pc[t] = Idle /\ pc'[t].at = "curr" /\ ~Shut
      /\ \A u \in Recorders \ {t} : pc'[u] = pc[u]
      /\ UNCHANGED <<poisoned, threads, phases, reader>>
    BY DEF Records
<1>2. RowsKept'
    BY <1>1, RowsStay DEF IInv, RowsKept, Idle
<1>3. EventsKept'
    BY RecordsKeepsEvents DEF IInv, EventsKept
<1>4. BooksKept'
    BY <1>3, RecordsKeepsHoldings, RecordsKeepsBooks, RecordsKeepsPeaks
    DEF IInv, EventsKept, BooksKept
<1>5. GuardsKept'
    <2>1. \A u \in Recorders : pc'[u] = pc[u] \/ (pc[u].at # "activate" /\ pc'[u].at # "activate")
        BY <1>1 DEF Idle
    <2> QED
        BY <1>1, <2>1, GateKeepsGuards DEF IInv
<1>6. ReaderKept'
    BY <1>1, GateKeepsNames, GateKeepsSums DEF IInv, ReaderKept
<1>7. ~poisoned'
    BY <1>1 DEF IInv
<1> QED
    BY <1>2, <1>3, <1>4, <1>5, <1>6, <1>7 DEF IInv

LEMMA RecordingKeeps ==
    ASSUME IInv, NEW t \in Recorders,
           \/ \E size \in Sizes :
                 RecordAlloc(t, size) \/ \E b \in live : RecordRealloc(t, b, size)
           \/ \E b \in live : RecordFree(t, b)
    PROVE  IInv'
<1>1. Types /\ Owned /\ Placed
    BY DEF IInv, RowsKept, EventsKept
<1>2. ASSUME NEW size \in Sizes, RecordAlloc(t, size) PROVE IInv'
    BY <1>1, <1>2, AllocTypes, AllocRecords, RecordKeeps
<1>3. ASSUME NEW size \in Sizes, NEW b \in live, RecordRealloc(t, b, size) PROVE IInv'
    BY <1>1, <1>3, ReallocTypes, ReallocRecords, RecordKeeps
<1>4. ASSUME NEW b \in live, RecordFree(t, b) PROVE IInv'
    BY <1>1, <1>4, FreeTypes, FreeRecords, RecordKeeps
<1> QED
    BY <1>2, <1>3, <1>4

LEMMA PassingKeeps ==
    ASSUME IInv, Types', NEW t \in Recorders, NEW site \in SiteIds, Sited(site), NEW moved,
           Advances(t, site, moved), UNCHANGED <<threads, phases, reader>>
    PROVE  RowsKept' /\ Underway' /\ Placed' /\ GuardsKept' /\ ReaderKept'
<1>1. /\ pc[t].at \in {"curr", "max"} /\ pc'[t].at \in {"curr", "max", "idle"}
      /\ \A u \in Recorders \ {t} : pc'[u] = pc[u]
    BY DEF Advances, InGate, Idle
<1>2. RowsKept'
    BY <1>1, RowsStay DEF IInv, RowsKept
<1>3. Underway' /\ Placed'
    BY AdvanceKeepsEvents DEF IInv, EventsKept
<1>4. GuardsKept'
    <2>1. \A u \in Recorders : pc'[u] = pc[u] \/ (pc[u].at # "activate" /\ pc'[u].at # "activate")
        BY <1>1
    <2> QED
        BY <2>1, GateKeepsGuards DEF IInv
<1>5. ReaderKept'
    <2>1. Inside # {}
        BY <1>1 DEF Inside
    <2> QED
        BY <2>1, GateKeepsNames, GateKeepsSums DEF IInv, ReaderKept
<1> QED
    BY <1>2, <1>3, <1>4, <1>5

LEMMA MoveCurrKeeps ==
    ASSUME IInv, NEW t \in Recorders, MoveCurr(t)
    PROVE  IInv'
<1>1. Types /\ Types'
    BY MoveCurrTypes DEF IInv
<1>2. PICK site \in SiteIds : Sited(site) /\ OnItsWay(pc[t], site)
    BY DEF IInv, EventsKept, Underway, MoveCurr, InGate
<1>3. Advances(t, site, {Row(t)}) /\ Row(t) \in RowSet(site)
    BY <1>1, <1>2, MoveCurrAdvances
<1>4. UNCHANGED <<threads, phases, reader>>
    BY DEF MoveCurr
<1>5. RowsKept' /\ Underway' /\ Placed' /\ GuardsKept' /\ ReaderKept'
    BY <1>1, <1>2, <1>3, <1>4, PassingKeeps
<1>6. Empty'
    <2>1. PICK r \in RowSet(site) : r = Row(t)
        BY <1>3
    <2>2. \A q \in Rows \ {r} : tally'[q] = tally[q]
        BY <1>1, <2>1, RowMoves
    <2>3. UNCHANGED <<published, entries>>
        BY <1>4 DEF threads, phases
    <2> QED
        BY <1>1, <1>2, <2>2, <2>3, RowChangesKeepEmpty DEF IInv, EventsKept
<1>7. /\ Holdings' /\ 0 <= tally[Row(t)].curr + pc[t].delta
      /\ tally'[Row(t)].curr = tally[Row(t)].curr + pc[t].delta /\ poisoned' = (poisoned \/ FALSE)
    BY <1>1, <1>2, <1>5, MoveCurrKeepsHoldings DEF IInv, EventsKept, BooksKept
<1>8. Books' /\ Peaks'
    BY <1>1, <1>2, <1>7, MoveCurrKeepsBooks, MoveCurrKeepsPeaks DEF IInv, BooksKept
<1>9. ~poisoned'
    BY <1>7 DEF IInv
<1> QED
    BY <1>1, <1>5, <1>6, <1>7, <1>8, <1>9 DEF IInv, EventsKept, BooksKept

LEMMA FetchMaxKeeps ==
    ASSUME IInv, NEW t \in Recorders, FetchMax(t)
    PROVE  IInv'
<1>1. Types /\ Types'
    BY FetchMaxTypes DEF IInv
<1>2. PICK site \in SiteIds : Sited(site) /\ OnItsWay(pc[t], site)
    BY DEF IInv, EventsKept, Underway, FetchMax, InGate
<1>3. Advances(t, site, {})
    BY <1>1, <1>2, FetchMaxAdvances
<1>4. UNCHANGED <<threads, phases, reader>>
    BY DEF FetchMax
<1>5. RowsKept' /\ Underway' /\ Placed' /\ GuardsKept' /\ ReaderKept'
    BY <1>1, <1>2, <1>3, <1>4, PassingKeeps
<1>6. Row(t) \in RowSet(site)
    <2>1. pc[t] \in Moving
        BY <1>1, FetchMaxRow
    <2> QED
        BY <1>2, <2>1, AfterRow DEF Row
<1>7. Empty' /\ ~poisoned'
    <2>1. PICK r \in RowSet(site) : r = Row(t)
        BY <1>6
    <2>2. \A q \in Rows \ {r} : tally'[q] = tally[q]
        BY <1>1, <2>1, FetchMaxRow
    <2>3. UNCHANGED <<published, entries>>
        BY <1>4 DEF threads, phases
    <2>4. poisoned' = poisoned
        BY DEF FetchMax
    <2> QED
        BY <1>1, <1>2, <2>2, <2>3, <2>4, RowChangesKeepEmpty DEF IInv, EventsKept
<1>8. Holdings' /\ Books' /\ Peaks'
    BY <1>1, <1>2, <1>5, FetchMaxKeepsHoldings, FetchMaxKeepsBooks, FetchMaxKeepsPeaks
    DEF IInv, EventsKept, BooksKept
<1> QED
    BY <1>1, <1>5, <1>7, <1>8 DEF IInv, EventsKept, BooksKept

LEMMA RestartKeeps ==
    ASSUME IInv, Restart
    PROVE  IInv'
<1>1. Types /\ Types'
    BY RestartTypes DEF IInv
<1>2. UNCHANGED <<poisoned, threads, phases, pc, reader>> /\ ~Shut
    BY DEF Restart
<1>3. RowsKept'
    BY <1>2, RowsStay DEF IInv, RowsKept
<1>4. EventsKept'
    BY <1>1, RestartKeepsEvents DEF IInv, EventsKept
<1>5. BooksKept'
    BY <1>1, RestartKeepsHoldings, RestartKeepsBooks, RestartKeepsPeaks
    DEF IInv, EventsKept, BooksKept
<1>6. GuardsKept'
    BY <1>1, <1>2, GateKeepsGuards DEF IInv
<1>7. ReaderKept'
    BY <1>1, <1>2, GateKeepsNames, GateKeepsSums DEF IInv, ReaderKept
<1>8. ~poisoned'
    BY <1>2 DEF IInv
<1> QED
    BY <1>1, <1>3, <1>4, <1>5, <1>6, <1>7, <1>8 DEF IInv

\* The reader moves nothing but what it has seen.
LEMMA ReadingKeeps ==
    ASSUME IInv, Visit \/ UNCHANGED vars
    PROVE  Types' /\ RowsKept' /\ EventsKept' /\ BooksKept' /\ GuardsKept'
<1>1. /\ Types /\ Types'
      /\ UNCHANGED <<tally, totals, top, outside, live, threads, phases, pc, spent>>
    BY VisitTypes DEF IInv
<1>2. UNCHANGED <<published, entries, region, guards>>
    BY <1>1 DEF threads, phases
<1>3. RowsKept'
    BY <1>1, RowsStay DEF IInv, RowsKept
<1>4. EventsKept'
    <2>1. \A site : Sited(site)' <=> Sited(site)
        BY <1>2 DEF Sited
    <2>2. Underway'
        BY <1>1, <2>1 DEF IInv, EventsKept, Underway
    <2>3. Placed'
        BY <1>1, <1>2, <2>1 DEF IInv, EventsKept, Placed
    <2>4. Empty'
        BY <1>1, <1>2 DEF IInv, EventsKept, Empty
    <2> QED
        BY <2>2, <2>3, <2>4 DEF EventsKept
<1>5. BooksKept'
    <2>1. outside'.total >= 0
        BY <1>1 DEF IInv, BooksKept, Holdings
    <2> QED
        BY <1>1, <2>1, StillKeepsHoldings, StillKeepsBooks, PeaksStay
        DEF IInv, EventsKept, BooksKept
<1>6. GuardsKept'
    BY <1>1, GateKeepsGuards DEF IInv
<1> QED
    BY <1>1, <1>3, <1>4, <1>5, <1>6

LEMMA VisitKeeps ==
    ASSUME IInv, Visit
    PROVE  IInv'
<1>1. Types' /\ RowsKept' /\ EventsKept' /\ BooksKept' /\ GuardsKept'
    BY ReadingKeeps
<1>2. ReaderKept' /\ ~poisoned'
    BY VisitKeepsReader DEF IInv, EventsKept, BooksKept, ReaderKept
<1> QED
    BY <1>1, <1>2 DEF IInv

LEMMA StutterKeeps ==
    ASSUME IInv, UNCHANGED vars
    PROVE  IInv'
<1>1. Types' /\ RowsKept' /\ EventsKept' /\ BooksKept' /\ GuardsKept'
    BY ReadingKeeps
<1>2. UNCHANGED <<tally, totals, outside, poisoned, pc, threads, reader>>
    BY DEF vars, counts
<1>3. ReaderKnown' /\ ReaderNames'
    BY <1>2, GateKeepsNames DEF IInv, ReaderKept
<1>4. ReaderSums'
    <2>1. Shut' = Shut /\ Inside' = Inside
        BY <1>2 DEF Shut, Inside
    <2>2. \A field \in Fields : KindTally("thread", field)' = KindTally("thread", field)
        BY <1>2 DEF KindTally
    <2> QED
        BY <1>2, <2>1, <2>2 DEF IInv, ReaderKept, ReaderSums
<1>5. ~poisoned'
    BY <1>2 DEF IInv
<1> QED
    BY <1>1, <1>3, <1>4, <1>5 DEF IInv, ReaderKept

LEMMA IInvNext == IInv /\ [Next]_vars => IInv'
<1> SUFFICES ASSUME IInv, [Next]_vars PROVE IInv'
    OBVIOUS
<1>1. ASSUME NEW t \in Recorders, ClaimLoad(t) PROVE IInv'
    BY <1>1, ClaimLoadKeeps
<1>2. ASSUME NEW t \in Recorders, ClaimIndex(t) PROVE IInv'
    BY <1>2, ClaimIndexKeeps
<1>3. ASSUME NEW t \in Recorders, Publish(t) PROVE IInv'
    BY <1>3, PublishKeeps
<1>4. ASSUME NEW t \in Recorders, AskAgain(t) PROVE IInv'
    BY <1>4, AskAgainKeeps
<1>5. ASSUME NEW t \in Recorders, NameStore(t) PROVE IInv'
    BY <1>5, NameStoreKeeps
<1>6. ASSUME NEW t \in Recorders,
             \/ \E size \in Sizes :
                   RecordAlloc(t, size) \/ \E b \in live : RecordRealloc(t, b, size)
             \/ \E b \in live : RecordFree(t, b)
      PROVE  IInv'
    BY <1>6, RecordingKeeps
<1>7. ASSUME NEW t \in Recorders, MoveCurr(t) PROVE IInv'
    BY <1>7, MoveCurrKeeps
<1>8. ASSUME NEW t \in Recorders, FetchMax(t) PROVE IInv'
    BY <1>8, FetchMaxKeeps
<1>9. ASSUME NEW t \in Recorders, NEW n \in Names, Intern(t, n) PROVE IInv'
    BY <1>9, InternKeeps
<1>10. ASSUME NEW t \in Recorders, EnterRegion(t) PROVE IInv'
    BY <1>10, EnterKeeps
<1>11. ASSUME NEW t \in Recorders, Activate(t) PROVE IInv'
    BY <1>11, ActivateKeeps
<1>12. ASSUME NEW t \in Recorders, NEW g \in guards[t], LeaveRegion(t, g) PROVE IInv'
    BY <1>12, LeaveKeeps
<1>13. CASE Restart
    BY <1>13, RestartKeeps
<1>14. CASE Visit
    BY <1>14, VisitKeeps
<1>15. CASE UNCHANGED vars
    BY <1>15, StutterKeeps
<1> QED
    BY <1>1, <1>2, <1>3, <1>4, <1>5, <1>6, <1>7, <1>8, <1>9, <1>10, <1>11, <1>12, <1>13, <1>14, <1>15
    DEF Next

LEMMA Invariant == Spec => []IInv
<1>1. Init => IInv
    BY IInvInit
<1>2. IInv /\ [Next]_vars => IInv'
    BY IInvNext
<1> QED
    BY <1>1, <1>2, PTL DEF Spec

(***************************************************************************)
(* Site, for any number of threads, rows and regions: counters never go    *)
(* below zero and nothing is ever poisoned; a row has one owner however    *)
(* claims race, a claimed row without a record has recorded nothing, and a *)
(* name is read whole or not at all.                                       *)
(***************************************************************************)
THEOREM RowsSound == Spec => []RowsAreSound
<1>1. IInv => RowsAreSound
    <2> SUFFICES ASSUME IInv PROVE RowsAreSound
        OBVIOUS
    <2>1. TypeOK
        <3>1. \A r \in Rows : tally[r].curr \in Nat /\ tally[r].total \in Nat
            BY DEF IInv, Types, Holds
        <3> QED
            BY <3>1 DEF IInv, RowsKept, Types, Known, Owned, TypeOK
    <2>2. RowsAreOwned
        BY DEF IInv, RowsKept, EventsKept, Owned, Empty, RowsAreOwned
    <2>3. NamesAreWhole
        BY NamesRead DEF IInv, RowsKept, ReaderKept
    <2> QED
        BY <2>1, <2>2, <2>3 DEF RowsAreSound
<1> QED
    BY <1>1, Invariant, PTL

(***************************************************************************)
(* Tally::apply, "this peak is exact without a lock": with nobody inside   *)
(* the gate every row's maximum is the most it held since the restart.     *)
(***************************************************************************)
THEOREM PeaksExact == Spec => []PeakIsExact
<1>1. IInv => PeakIsExact
    BY DEF IInv, BooksKept, Peaks, AtMax, PeakIsExact, Inside
<1> QED
    BY <1>1, Invariant, PTL

(***************************************************************************)
(* flush_and_visit and visit_regions: whoever has the gate reads thread    *)
(* rows, and regions with the rest, that sum to the totals.                *)
(***************************************************************************)
THEOREM VisitsAddUp == Spec => []VisitSums
<1>1. IInv => VisitSums
    <2> SUFFICES ASSUME IInv, reader.at \in AtEnd, reader.exclusive
                 PROVE  /\ reader.at = "done" => reader.sum = totals
                        /\ reader.outside = outside
                        /\ Plus(reader.entered, outside.total, outside.curr) = totals
        BY DEF VisitSums, AtEnd
    <2>1. Shut
        BY DEF Shut, AtEnd
    <2> QED
        BY <2>1 DEF IInv, ReaderKept, ReaderSums
<1> QED
    BY <1>1, Invariant, PTL

(***************************************************************************)
(* Regions: a kept name has one row, and a row is open as often as there   *)
(* are guards of it, in whatever order a thread drops its guards.          *)
(***************************************************************************)
THEOREM RegionsCounted == Spec => []RegionsAreCounted
<1>1. IInv => RegionsAreCounted
    <2> SUFFICES ASSUME IInv PROVE RegionsAreCounted
        OBVIOUS
    <2>1. ASSUME NEW i \in RegionIds
          PROVE  /\ active[i] <= entries[i]
                 /\ active[i] + Cardinality(Opening(i)) = Cardinality(Guarding(i))
        <3>1. active[i] \in Nat /\ entries[i] \in Nat /\ Cardinality(Opening(i)) \in Nat
            BY OpeningIs DEF IInv, Types, Phases
        <3> QED
            BY <3>1 DEF IInv, GuardsKept
    <2> QED
        BY <2>1 DEF IInv, GuardsKept, RegionsAreCounted, Guarding
<1> QED
    BY <1>1, Invariant, PTL
=============================================================================
