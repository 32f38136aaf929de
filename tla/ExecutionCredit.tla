-------------------------- MODULE ExecutionCredit --------------------------
(***************************************************************************)
(* services/runtime_execution.py, class RuntimeExecutionCredit: permits in *)
(* a semaphore that the IPC parent and the runtime process share, and      *)
(* statistics about them behind a lock nobody waits for longer than 20 ms. *)
(* A caller that gives up on the lock still takes or returns its permit    *)
(* and marks the statistics as failed.                                     *)
(***************************************************************************)
EXTENDS Integers, FiniteSets, FiniteSetTheorems, TLAPS

CONSTANTS Callers, Capacity, Nobody,
          MaxFailed  \* bound: no acquire or release is called after so many failures

ASSUME CapacityAssumption == Capacity \in Nat \ {0} /\ MaxFailed \in Nat \ {0}
ASSUME CallersAssumption == IsFiniteSet(Callers) /\ Nobody \notin Callers

VARIABLES permits,  \* _semaphore
          current,  \* _counts[0]
          peak,     \* _counts[1]
          failed,   \* _statistics_failed
          lock,     \* holder of the lock of _counts
          pc,       \* what each caller does: the operation and how far it is
          held,     \* permits an acquire returned and no release was called for
          report,   \* the last snapshot
          most      \* history: the largest number of permits ever out

vars == <<permits, current, peak, failed, lock, pc, held, report, most>>

\* The counters drift by at most one for each update made without the lock.
Drift == MaxFailed + Cardinality(Callers)
Unknown == -1
InUse == Capacity - permits
Larger(m, n) == IF m > n THEN m ELSE n

Operations == {"acquire", "release", "snapshot"}
Phases == {"wait", "observed", "unobserved", "count", "mark", "unlock", "idle", "dead", "lost"}

TypeOK ==
    /\ permits \in 0..Capacity /\ held \in 0..Capacity /\ most \in 0..Capacity
    /\ failed \in 0..Drift
    /\ current \in -Drift..(Capacity + Drift) /\ peak \in 0..(Capacity + Drift)
    /\ lock \in Callers \cup {Nobody}
    /\ pc \in [Callers -> ((Operations \cup {"none"}) \X Phases)]
    /\ report \in [current : 0..Capacity, peak : 0..(Capacity + Drift) \cup {Unknown}]

Init ==
    /\ permits = Capacity /\ current = 0 /\ peak = 0 /\ failed = 0 /\ most = 0
    /\ lock = Nobody
    /\ pc = [p \in Callers |-> <<"none", "idle">>]
    /\ held = 0
    /\ report = [current |-> 0, peak |-> 0]

At(p, phase) == pc[p][2] = phase
Doing(p, op, phase) == pc[p] = <<op, phase>>
To(p, phase) == pc' = [pc EXCEPT ![p] = <<@[1], phase>>]
Returned(p) == held' = IF pc[p][1] = "acquire" THEN held + 1 ELSE held
Idle(p) == pc' = [pc EXCEPT ![p] = <<"none", "idle">>]

\* A permit may be acquired in one process and released in the other.
Call(p, op) ==
    /\ At(p, "idle")
    /\ pc' = [pc EXCEPT ![p] = <<op, "wait">>]
    /\ op \in {"acquire", "release"} => failed < MaxFailed
    /\ op = "release" => held > 0
    /\ held' = IF op = "release" THEN held - 1 ELSE held
    /\ UNCHANGED <<permits, current, peak, failed, lock, report, most>>

\* Mutant: the lock is waited for.
TryLock_Waits(p) ==
    /\ At(p, "wait") /\ lock = Nobody
    /\ lock' = p /\ To(p, "observed")
    /\ UNCHANGED <<permits, current, peak, failed, held, report, most>>

\* lock.acquire(timeout=.02) succeeds, or finds the lock held until the deadline.
\* snapshot without the lock answers at once, the peak unknown.
TryLock(p) ==
    /\ At(p, "wait")
    /\ \/ lock = Nobody /\ lock' = p /\ To(p, "observed") /\ UNCHANGED report
       \/ /\ lock # Nobody /\ UNCHANGED lock
          /\ IF pc[p][1] = "snapshot"
             THEN Idle(p) /\ report' = [current |-> InUse, peak |-> Unknown]
             ELSE To(p, "unobserved") /\ UNCHANGED report
    /\ UNCHANGED <<permits, current, peak, failed, held, most>>

\* The semaphore, before any statistics: acquire(False) may find no permit.
MovePermit(p) ==
    /\ At(p, "observed") \/ At(p, "unobserved")
    /\ \/ /\ pc[p][1] = "acquire" /\ permits > 0
          /\ permits' = permits - 1
          /\ To(p, IF At(p, "observed") THEN "count" ELSE "mark")
       \/ /\ pc[p][1] = "acquire" /\ permits = 0
          /\ pc' = [pc EXCEPT ![p] = <<"none", IF At(p, "observed") THEN "unlock" ELSE "idle">>]
          /\ UNCHANGED permits
       \/ /\ pc[p][1] = "release"
          /\ permits' = permits + 1
          /\ To(p, IF At(p, "observed") THEN "count" ELSE "mark")
    /\ most' = Larger(most, Capacity - permits')
    /\ UNCHANGED <<current, peak, failed, lock, held, report>>

Count(p) ==
    /\ At(p, "count") /\ To(p, "unlock")
    /\ current' = (IF pc[p][1] = "acquire" THEN current + 1 ELSE current - 1)
    /\ peak' = (IF pc[p][1] = "acquire" THEN Larger(peak, current') ELSE peak)
    /\ UNCHANGED <<permits, failed, lock, held, report, most>>

\* Mutant: an update made without the lock leaves no mark.
Mark_Nothing(p) ==
    /\ At(p, "mark") /\ Idle(p)
    /\ Returned(p)
    /\ UNCHANGED <<permits, current, peak, failed, lock, report, most>>

\* _statistics_failed.release() without the lock.
Mark(p) ==
    /\ At(p, "mark") /\ Idle(p)
    /\ failed' = failed + 1
    /\ Returned(p)
    /\ UNCHANGED <<permits, current, peak, lock, report, most>>

Snapshot(p) ==
    /\ Doing(p, "snapshot", "observed") /\ To(p, "unlock")
    /\ report' = [current |-> InUse, peak |-> IF failed > 0 THEN Unknown ELSE peak]
    /\ UNCHANGED <<permits, current, peak, failed, lock, held, most>>

Unlock(p) ==
    /\ At(p, "unlock") /\ Idle(p)
    /\ lock' = Nobody
    /\ Returned(p)
    /\ UNCHANGED <<permits, current, peak, failed, report, most>>

\* The process of a caller is killed wherever it is.  A lock it holds stays taken; one
\* that moved its permit without the lock never marks the statistics ("lost").
Die(p) ==
    /\ pc[p][2] \notin {"idle", "dead", "lost"}
    /\ pc' = [pc EXCEPT ![p] = IF At(p, "mark") THEN <<@[1], "lost">> ELSE <<"none", "dead">>]
    /\ UNCHANGED <<permits, current, peak, failed, lock, held, report, most>>

Step(p) == TryLock(p) \/ MovePermit(p) \/ Count(p) \/ Mark(p) \/ Snapshot(p) \/ Unlock(p)
Next == \E p \in Callers : Step(p) \/ Die(p) \/ \E op \in Operations : Call(p, op)
Spec == Init /\ [][Next]_vars

\* A caller that is running takes its next step; none has to call, and none has to
\* get the lock.
FairSpec == Spec /\ \A p \in Callers : WF_vars(Step(p))

-----------------------------------------------------------------------------
(* Properties *)

\* The callers that moved a permit without the lock and did not mark it: they are
\* about to, or they were killed before.
Unmarked(op) == {p \in Callers : pc[p] \in {<<op, "mark">>, <<op, "lost">>}}
UnmarkedAcquires == Cardinality(Unmarked("acquire"))
UnmarkedReleases == Cardinality(Unmarked("release"))

\* What a reported peak is worth.  Whenever a snapshot may report one (the lock is
\* free and no update is marked as made without it), the counters and the semaphore
\* differ by exactly the updates between the semaphore and the mark, which are as few
\* as the callers there or killed there; without such a caller the peak is the largest
\* number of permits ever out (acquire 31-46, release 48-61).
StatisticsBounded ==
    lock = Nobody /\ failed = 0 =>
        /\ InUse = current + UnmarkedAcquires - UnmarkedReleases
        /\ most <= peak + UnmarkedAcquires
        /\ peak <= most + UnmarkedReleases

\* Whoever calls acquire, release or snapshot gets an answer, unless its own process is
\* killed, and also when the holder of the statistics lock was: a dead reader of statistics cannot keep a
\* command from ending (comments at 33, 50 and 53).
CallReturns == \A p \in Callers : ~At(p, "idle") ~> At(p, "idle") \/ At(p, "dead") \/ At(p, "lost")

\* What the comment at line 65 says of snapshot: it reads consistent values, or
\* answers that the peak is unknown.  A reported peak then covers the current use.
SnapshotConsistent == report.peak # Unknown => report.current <= report.peak

------------------------------------------------------------------------------
(***************************************************************************)
(* How far a reported peak may be off, for any number of callers and       *)
(* permits: see the README.                                                *)
(***************************************************************************)
Types ==
    /\ permits \in Int /\ current \in Int /\ peak \in Int /\ most \in Int
    /\ failed \in Nat
    /\ lock \in Callers \cup {Nobody}
    /\ pc \in [Callers -> ((Operations \cup {"none"}) \X Phases)]

\* Whoever is between the lock and its release holds it, and nobody else; a killed
\* holder keeps it.
LockOwner ==
    \A p \in Callers :
        /\ pc[p][2] \in {"observed", "count", "unlock"} => lock = p
        /\ lock = p => pc[p][2] \in {"observed", "count", "unlock", "dead"}

\* The update the holder of the lock owes the counters.
Counting == lock # Nobody /\ At(lock, "count")
Owed == IF Counting THEN IF pc[lock][1] = "acquire" THEN 1 ELSE -1 ELSE 0

\* Only acquire and release move permits.
Updates == \A p \in Callers : pc[p][2] \in {"count", "mark"} => pc[p][1] \in {"acquire", "release"}

\* While nothing is marked, the counters lack what the holder of the lock owes and
\* what was moved without it; a holder that was killed may owe its update for good.
Bounded ==
    failed = 0 /\ (lock # Nobody => ~At(lock, "dead")) =>
        /\ InUse = current + Owed + UnmarkedAcquires - UnmarkedReleases
        /\ most <= Larger(peak, current + Owed) + UnmarkedAcquires
        /\ peak <= most + UnmarkedReleases
        /\ current <= peak

IInv == Types /\ LockOwner /\ Updates /\ InUse <= most /\ Bounded

------------------------------------------------------------------------------
\* The larger of two integers.
LEMMA LargerBounds == ASSUME NEW m \in Int, NEW n \in Int
                      PROVE Larger(m, n) \in Int /\ n <= Larger(m, n) /\ m <= Larger(m, n)
                            /\ (Larger(m, n) = m \/ Larger(m, n) = n)
BY DEF Larger

\* The callers that left no mark are finitely many.
LEMMA UnmarkedFinite == ASSUME NEW op
                        PROVE IsFiniteSet(Unmarked(op)) /\ Cardinality(Unmarked(op)) \in Nat
BY CallersAssumption, FS_Subset, FS_CardinalityType DEF Unmarked

\* The counters start exact, nobody holding the lock.
LEMMA InitiallyBounded == Init => IInv
<1> SUFFICES ASSUME Init PROVE IInv
  OBVIOUS
<1>1. UnmarkedAcquires = 0 /\ UnmarkedReleases = 0
  <2>1. Unmarked("acquire") = {} /\ Unmarked("release") = {}
    BY DEF Init, Unmarked
  <2> QED
    BY <2>1, FS_EmptySet DEF UnmarkedAcquires, UnmarkedReleases
<1> QED
  BY <1>1, CapacityAssumption, CallersAssumption
     DEF Init, IInv, Types, LockOwner, Updates, Bounded, Owed, Counting, InUse, At, Larger,
         Operations, Phases

\* A step keeps the lock with whoever is between taking and releasing it.
LEMMA TypesKept == IInv /\ [Next]_vars => Types' /\ LockOwner' /\ Updates'
<1> SUFFICES ASSUME IInv, [Next]_vars PROVE Types' /\ LockOwner' /\ Updates'
  OBVIOUS
<1> USE CapacityAssumption, CallersAssumption
    DEF IInv, Types, LockOwner, Updates, At, Doing, To, Idle, Returned, Larger, InUse, Operations,
        Phases
<1>1. ASSUME NEW p \in Callers, NEW op \in Operations, Call(p, op) PROVE Types' /\ LockOwner' /\ Updates'
  BY <1>1 DEF Call
<1>2. ASSUME NEW p \in Callers, TryLock(p) PROVE Types' /\ LockOwner' /\ Updates'
  BY <1>2 DEF TryLock
<1>3. ASSUME NEW p \in Callers, MovePermit(p) PROVE Types' /\ LockOwner' /\ Updates'
  BY <1>3 DEF MovePermit
<1>4. ASSUME NEW p \in Callers, Count(p) PROVE Types' /\ LockOwner' /\ Updates'
  BY <1>4 DEF Count
<1>5. ASSUME NEW p \in Callers, Mark(p) PROVE Types' /\ LockOwner' /\ Updates'
  BY <1>5 DEF Mark
<1>6. ASSUME NEW p \in Callers, Snapshot(p) PROVE Types' /\ LockOwner' /\ Updates'
  BY <1>6 DEF Snapshot
<1>7. ASSUME NEW p \in Callers, Unlock(p) PROVE Types' /\ LockOwner' /\ Updates'
  BY <1>7 DEF Unlock
<1>8. ASSUME NEW p \in Callers, Die(p) PROVE Types' /\ LockOwner' /\ Updates'
  BY <1>8 DEF Die
<1>9. CASE UNCHANGED vars
  BY <1>9 DEF vars
<1> QED
  BY <1>1, <1>2, <1>3, <1>4, <1>5, <1>6, <1>7, <1>8, <1>9 DEF Next, Step

\* A step that moves nobody to or from an unmarked update leaves their number as it is.
LEMMA UnmarkedSame ==
    ASSUME \A q \in Callers, op \in {"acquire", "release"} :
               pc'[q] \in {<<op, "mark">>, <<op, "lost">>} <=> pc[q] \in {<<op, "mark">>, <<op, "lost">>}
    PROVE UnmarkedAcquires' = UnmarkedAcquires /\ UnmarkedReleases' = UnmarkedReleases
BY DEF Unmarked, UnmarkedAcquires, UnmarkedReleases

\* A permit moved without the lock is one more unmarked update.
LEMMA UnmarkedOneMore ==
    ASSUME NEW p \in Callers, NEW op \in {"acquire", "release"}, Types,
           ~(pc[p][2] \in {"mark", "lost"}), pc' = [pc EXCEPT ![p] = <<op, "mark">>]
    PROVE /\ UnmarkedAcquires' = UnmarkedAcquires + (IF op = "acquire" THEN 1 ELSE 0)
          /\ UnmarkedReleases' = UnmarkedReleases + (IF op = "release" THEN 1 ELSE 0)
<1>1. p \notin Unmarked("acquire") /\ p \notin Unmarked("release")
  BY DEF Unmarked
<1>2. CASE op = "acquire"
  <2>1. Unmarked("acquire")' = Unmarked("acquire") \cup {p} /\ Unmarked("release")' = Unmarked("release")
    BY <1>2 DEF Unmarked, Types
  <2> QED
    BY <1>1, <1>2, <2>1, FS_AddElement, UnmarkedFinite DEF UnmarkedAcquires, UnmarkedReleases
<1>3. CASE op = "release"
  <2>1. Unmarked("release")' = Unmarked("release") \cup {p} /\ Unmarked("acquire")' = Unmarked("acquire")
    BY <1>3 DEF Unmarked, Types
  <2> QED
    BY <1>1, <1>3, <2>1, FS_AddElement, UnmarkedFinite DEF UnmarkedAcquires, UnmarkedReleases
<1> QED
  BY <1>2, <1>3

\* A step keeps the counters as near to the semaphore, or leaves a mark.
LEMMA BoundedKept == IInv /\ [Next]_vars => InUse' <= most' /\ Bounded'
<1> SUFFICES ASSUME IInv, [Next]_vars, Types', LockOwner', Updates' PROVE InUse' <= most' /\ Bounded'
  BY TypesKept
<1> DEFINE A == UnmarkedAcquires
           R == UnmarkedReleases
<1>0. A \in Nat /\ R \in Nat
  BY UnmarkedFinite DEF UnmarkedAcquires, UnmarkedReleases
<1> HIDE DEF A, R
<1>f. UnmarkedAcquires = A /\ UnmarkedReleases = R
  BY DEF A, R
<1> USE CapacityAssumption, CallersAssumption, <1>0, <1>f
    DEF IInv, Types, LockOwner, Updates, Bounded, Owed, Counting, At, Doing, To, Idle, Returned,
        Larger, InUse, Operations, Phases
<1>1. ASSUME NEW p \in Callers, NEW op \in Operations, Call(p, op) PROVE InUse' <= most' /\ Bounded'
  <2>1. UnmarkedAcquires' = A /\ UnmarkedReleases' = R
    BY <1>1, UnmarkedSame DEF Call
  <2> QED
    BY <1>1, <2>1 DEF Call
<1>2. ASSUME NEW p \in Callers, TryLock(p) PROVE InUse' <= most' /\ Bounded'
  <2>1. UnmarkedAcquires' = A /\ UnmarkedReleases' = R
    BY <1>2, UnmarkedSame DEF TryLock
  <2> QED
    BY <1>2, <2>1 DEF TryLock
<1>3. ASSUME NEW p \in Callers, MovePermit(p) PROVE InUse' <= most' /\ Bounded'
  <2>1. UNCHANGED <<current, peak, failed, lock>> /\ most' = Larger(most, InUse')
    BY <1>3 DEF MovePermit
  <2>2. CASE At(p, "observed")
    <3>1. UnmarkedAcquires' = A /\ UnmarkedReleases' = R
      BY <1>3, <2>2, UnmarkedSame DEF MovePermit
    <3>2. lock = p
      BY <2>2
    <3>3. CASE pc[p][1] = "acquire" /\ permits > 0
      <4>1. permits' = permits - 1 /\ pc' = [pc EXCEPT ![p] = <<"acquire", "count">>]
        BY <1>3, <2>2, <3>3 DEF MovePermit
      <4> QED
        BY <2>1, <2>2, <3>1, <3>2, <3>3, <4>1
    <3>4. CASE pc[p][1] = "acquire" /\ permits = 0
      <4>1. permits' = permits /\ pc' = [pc EXCEPT ![p] = <<"none", "unlock">>]
        BY <1>3, <2>2, <3>4 DEF MovePermit
      <4> QED
        BY <2>1, <2>2, <3>1, <3>2, <3>4, <4>1
    <3>5. CASE pc[p][1] = "release"
      <4>1. permits' = permits + 1 /\ pc' = [pc EXCEPT ![p] = <<"release", "count">>]
        BY <1>3, <2>2, <3>5 DEF MovePermit
      <4> QED
        BY <2>1, <2>2, <3>1, <3>2, <3>5, <4>1
    <3> QED
      BY <1>3, <2>2, <3>3, <3>4, <3>5 DEF MovePermit
  <2>3. CASE At(p, "unobserved")
    <3>2. lock # p
      BY <2>3
    <3>3. CASE pc[p][1] = "acquire" /\ permits > 0
      <4>1. permits' = permits - 1 /\ pc' = [pc EXCEPT ![p] = <<"acquire", "mark">>]
        BY <1>3, <2>3, <3>3 DEF MovePermit
      <4>2. UnmarkedAcquires' = A + 1 /\ UnmarkedReleases' = R
        <5>1. Types /\ ~(pc[p][2] \in {"mark", "lost"})
          BY <2>3
        <5>2. /\ UnmarkedAcquires' = UnmarkedAcquires + (IF "acquire" = "acquire" THEN 1 ELSE 0)
              /\ UnmarkedReleases' = UnmarkedReleases + (IF "acquire" = "release" THEN 1 ELSE 0)
          BY ONLY <4>1, <5>1, UnmarkedOneMore, p \in Callers
        <5> QED
          BY ONLY <5>2, <1>f, <1>0
      <4> QED
        BY <2>1, <2>3, <3>2, <3>3, <4>1, <4>2
    <3>4. CASE pc[p][1] = "acquire" /\ permits = 0
      <4>1. permits' = permits /\ pc' = [pc EXCEPT ![p] = <<"none", "idle">>]
        BY <1>3, <2>3, <3>4 DEF MovePermit
      <4>2. UnmarkedAcquires' = A /\ UnmarkedReleases' = R
        BY <2>3, <4>1, UnmarkedSame
      <4> QED
        BY <2>1, <2>3, <3>2, <3>4, <4>1, <4>2
    <3>5. CASE pc[p][1] = "release"
      <4>1. permits' = permits + 1 /\ pc' = [pc EXCEPT ![p] = <<"release", "mark">>]
        BY <1>3, <2>3, <3>5 DEF MovePermit
      <4>2. UnmarkedAcquires' = A /\ UnmarkedReleases' = R + 1
        <5>1. Types /\ ~(pc[p][2] \in {"mark", "lost"})
          BY <2>3
        <5>2. /\ UnmarkedAcquires' = UnmarkedAcquires + (IF "release" = "acquire" THEN 1 ELSE 0)
              /\ UnmarkedReleases' = UnmarkedReleases + (IF "release" = "release" THEN 1 ELSE 0)
          BY ONLY <4>1, <5>1, UnmarkedOneMore, p \in Callers
        <5> QED
          BY ONLY <5>2, <1>f, <1>0
      <4> QED
        BY <2>1, <2>3, <3>2, <3>5, <4>1, <4>2
    <3> QED
      BY <1>3, <2>3, <3>3, <3>4, <3>5 DEF MovePermit
  <2> QED
    BY <1>3, <2>2, <2>3 DEF MovePermit
<1>4. ASSUME NEW p \in Callers, Count(p) PROVE InUse' <= most' /\ Bounded'
  <2>1. UnmarkedAcquires' = A /\ UnmarkedReleases' = R
    BY <1>4, UnmarkedSame DEF Count
  <2> QED
    BY <1>4, <2>1 DEF Count
<1>5. ASSUME NEW p \in Callers, Mark(p) PROVE InUse' <= most' /\ Bounded'
  BY <1>5 DEF Mark
<1>6. ASSUME NEW p \in Callers, Snapshot(p) PROVE InUse' <= most' /\ Bounded'
  <2>1. UnmarkedAcquires' = A /\ UnmarkedReleases' = R
    BY <1>6, UnmarkedSame DEF Snapshot
  <2> QED
    BY <1>6, <2>1 DEF Snapshot
<1>7. ASSUME NEW p \in Callers, Unlock(p) PROVE InUse' <= most' /\ Bounded'
  <2>1. UnmarkedAcquires' = A /\ UnmarkedReleases' = R
    BY <1>7, UnmarkedSame DEF Unlock
  <2> QED
    BY <1>7, <2>1 DEF Unlock
<1>8. ASSUME NEW p \in Callers, Die(p) PROVE InUse' <= most' /\ Bounded'
  <2>1. UnmarkedAcquires' = A /\ UnmarkedReleases' = R
    BY <1>8, UnmarkedSame DEF Die
  <2> QED
    BY <1>8, <2>1 DEF Die
<1>9. CASE UNCHANGED vars
  <2>1. UnmarkedAcquires' = A /\ UnmarkedReleases' = R
    BY <1>9, UnmarkedSame DEF vars
  <2> QED
    BY <1>9, <2>1 DEF vars
<1> HIDE DEF Bounded, InUse, Types, LockOwner, Updates, At, Doing, To, Idle, Returned
<1> QED
  BY <1>1, <1>2, <1>3, <1>4, <1>5, <1>6, <1>7, <1>8, <1>9 DEF Next, Step

\* A peak that a snapshot reports is off by no more than the updates between the
\* semaphore and the mark, however many callers and permits there are, and wherever
\* they are killed (RuntimeExecutionCredit 31-72).
THEOREM ReportedStatisticsBounded == Spec => []StatisticsBounded
<1>1. IInv => StatisticsBounded
  <2> SUFFICES ASSUME IInv, lock = Nobody, failed = 0 PROVE StatisticsBounded
    BY DEF StatisticsBounded
  <2>1. Owed = 0 /\ Bounded
    BY DEF IInv, Owed, Counting
  <2>2. UnmarkedAcquires \in Nat /\ UnmarkedReleases \in Nat
    BY UnmarkedFinite DEF UnmarkedAcquires, UnmarkedReleases
  <2> QED
    BY <2>1, <2>2, CapacityAssumption DEF IInv, Types, Bounded, StatisticsBounded, InUse, Larger
<1>2. IInv /\ [Next]_vars => IInv'
  BY TypesKept, BoundedKept DEF IInv
<1> QED
  BY InitiallyBounded, <1>1, <1>2, PTL DEF Spec
=============================================================================
