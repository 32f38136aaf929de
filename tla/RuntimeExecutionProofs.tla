----------------------- MODULE RuntimeExecutionProofs -----------------------
(***************************************************************************)
(* Proofs about RuntimeExecution, for any finite set of commands and any   *)
(* capacities.  The invariants the runs check are not inductive by         *)
(* themselves: they need to know which command the owner holds at each     *)
(* point, and that a release callback exists only once submit returned.    *)
(***************************************************************************)
EXTENDS RuntimeExecution, FiniteSetTheorems, TLAPS

Holders == {c \in Commands : HoldsCredit(c)}

Busy == {"took", "running", "nested", "failing", "notify", "stats"}

\* The owner holds a command exactly while it is busy; when its Future has ended
\* is known from where the owner is.
OwnerTask ==
    /\ owner \in Busy => task \in Commands
    /\ owner \notin Busy => task = Nobody
    /\ owner \in {"notify", "stats"} => Finished(task)

CallbackAfterReturn == \A c \in Commands : sub[c] # "returned" => callback[c] = "none"

StoppedIsDead == stopper = "true" => owner = "dead"

IInv == /\ TypeOK
        /\ CreditConservation
        /\ NoCommandLost
        /\ ClosesDrained
        /\ OwnerTask
        /\ CallbackAfterReturn
        /\ StoppedIsDead

-----------------------------------------------------------------------------
\* The permits add up again when one command joins or leaves the holders
\* (credit accounting of _submit and of the release callback).
LEMMA PermitsAddUp ==
    ASSUME NEW H, NEW G, NEW c, NEW n \in 0..Capacity, NEW m \in Int,
           H \subseteq Commands, n + Cardinality(H) = Capacity,
           \/ c \in Commands /\ c \notin H /\ G = H \cup {c} /\ m = n - 1
           \/ c \in H /\ G = H \ {c} /\ m = n + 1
    PROVE  m + Cardinality(G) = Capacity /\ m <= Capacity
<1>1. IsFiniteSet(H)
  BY CommandsAssumption, FS_Subset
<1>2. Cardinality(H) \in Nat
  BY <1>1, FS_CardinalityType
<1>4. CASE c \notin H /\ G = H \cup {c} /\ m = n - 1
  <2>1. Cardinality(G) = Cardinality(H) + 1
    BY <1>1, <1>4, FS_AddElement
  <2> QED
    BY <1>2, <1>4, <2>1, LimitsAssumption
<1>5. CASE c \in H /\ G = H \ {c} /\ m = n + 1
  <2>1. Cardinality(G) = Cardinality(H) - 1
    BY <1>1, <1>5, FS_RemoveElement
  <2>2. Cardinality(G) \in Nat
    BY <1>1, <1>5, FS_Subset, FS_CardinalityType
  <2> QED
    BY <1>2, <1>5, <2>1, <2>2, LimitsAssumption
<1> QED
  BY <1>4, <1>5

\* Every step of Next leaves the holders and the semaphore alone, adds one command
\* that took a permit, or removes one that gave it back.
LEMMA CreditStep ==
    ASSUME IInv, [Next]_vars
    PROVE  CreditConservation' /\ credit' \in 0..Capacity
<1> DEFINE Kept == Holders' = Holders /\ credit' = credit
           Taken(c) == c \notin Holders /\ Holders' = Holders \cup {c} /\ credit > 0 /\ credit' = credit - 1
           Given(c) == c \in Holders /\ Holders' = Holders \ {c} /\ credit' = credit + 1
<1> USE DEF IInv, TypeOK, CallbackAfterReturn, Holders, HoldsCredit, Accepted, Finished
<1>1. ASSUME NEW c \in Commands, Reserve(c) PROVE Kept \/ Taken(c)
  BY <1>1 DEF Reserve, Move, control
<1>2. ASSUME NEW c \in Commands, Refund(c) PROVE Given(c)
  BY <1>2 DEF Refund, Move, control
<1>3. ASSUME NEW c \in Commands, EnterSubmit(c) PROVE Kept \/ Taken(c)
  BY <1>3 DEF EnterSubmit, Move, control
<1>4. ASSUME NEW c \in Commands, EnterAdmitted(c) PROVE Kept
  BY <1>4 DEF EnterAdmitted, Move, control
<1>5. ASSUME NEW c \in Commands, Put(c) PROVE Kept \/ Given(c)
  BY <1>5 DEF Put, Move, control
<1>6. ASSUME NEW c \in Commands, Register(c) PROVE Kept \/ Given(c)
  BY <1>6 DEF Register, Move, control, Terminal
<1>7. ASSUME NEW c \in Commands, Cancel(c) PROVE Kept
  BY <1>7 DEF Cancel, submission, control
<1>8. ASSUME NEW c \in Commands, NotifyCancelled(c) PROVE Given(c)
  BY <1>8 DEF NotifyCancelled, RunCallback, control
<1>9. ASSUME Notify PROVE Kept \/ Given(task)
  BY <1>9 DEF Notify, RunCallback, OwnerAt, OwnerTask, Busy
<1>10. ASSUME OwnerStep \/ EnterNested, ~Notify PROVE Kept
  BY <1>10 DEF OwnerStep, Get, CheckEmpty, StartTask, TaskReturns, TaskRaises, SetException,
               EnterNested, LeaveNested, Statistics, StartFinalizer, Finalize, submission
<1>11. ASSUME Stop PROVE Kept
  BY <1>11 DEF Stop, StopFromOwner, StopCall, JoinReturns, JoinExpires, StopAnswers, submission
<1>12. ASSUME UNCHANGED vars PROVE Kept
  BY <1>12 DEF vars
<1>13. Kept \/ \E c \in Commands : Taken(c) \/ Given(c)
  <2>1. ASSUME Notify PROVE Kept \/ \E c \in Commands : Given(c)
    BY <1>9, <2>1
  <2> QED
    BY <1>1, <1>2, <1>3, <1>4, <1>5, <1>6, <1>7, <1>8, <2>1, <1>10, <1>11, <1>12
    DEF Next, Submitter, Child, Locked
<1>14. credit' \in Nat
  BY <1>13
<1>15. credit + Cardinality(Holders) = Capacity /\ credit \in 0..Capacity /\ Holders \subseteq Commands
  BY DEF CreditConservation
<1> HIDE DEF Holders, IInv, TypeOK
<1>16. credit' + Cardinality(Holders') = Capacity /\ credit' <= Capacity
  <2>1. CASE Kept
    BY <1>15, <2>1
  <2>2. ASSUME NEW c \in Commands, Taken(c) \/ Given(c)
        PROVE  credit' + Cardinality(Holders') = Capacity /\ credit' <= Capacity
    BY <1>14, <1>15, <2>2, PermitsAddUp
  <2> QED
    BY <1>13, <2>1, <2>2
<1> QED
  BY <1>14, <1>16, LimitsAssumption DEF CreditConservation, Holders

-----------------------------------------------------------------------------
\* The queue of a command put or taken keeps its type and its members.
LEMMA QueueMembers ==
    ASSUME NEW q \in Seq(Commands)
    PROVE  /\ \A c \in Commands :
                 /\ Append(q, c) \in Seq(Commands) /\ Append(q, c) # <<>>
                 /\ \E i \in 1..Len(Append(q, c)) : Append(q, c)[i] = c
                 /\ \A i \in 1..Len(q) : i \in 1..Len(Append(q, c)) /\ Append(q, c)[i] = q[i]
           /\ q # <<>> =>
                 /\ Head(q) \in Commands /\ Tail(q) \in Seq(Commands)
                 /\ \A i \in 1..Len(q) : q[i] = Head(q) \/ \E j \in 1..Len(Tail(q)) : Tail(q)[j] = q[i]
<1>1. ASSUME NEW c \in Commands
      PROVE  /\ Append(q, c) \in Seq(Commands) /\ Append(q, c) # <<>>
             /\ \E i \in 1..Len(Append(q, c)) : Append(q, c)[i] = c
             /\ \A i \in 1..Len(q) : i \in 1..Len(Append(q, c)) /\ Append(q, c)[i] = q[i]
  <2>1. Len(Append(q, c)) = Len(q) + 1 /\ Append(q, c)[Len(q) + 1] = c /\ Len(q) \in Nat
    OBVIOUS
  <2> QED
    BY <2>1
<1>2. ASSUME q # <<>>, NEW i \in 1..Len(q)
      PROVE  q[i] = Head(q) \/ \E j \in 1..Len(Tail(q)) : Tail(q)[j] = q[i]
  <2>1. CASE i = 1
    BY <2>1
  <2>2. CASE i # 1
    <3>1. i - 1 \in 1..Len(Tail(q)) /\ Tail(q)[i - 1] = q[i]
      BY <1>2, <2>2
    <3> QED
      BY <3>1
  <2> QED
    BY <2>1, <2>2
<1>3. q # <<>> => Head(q) \in Commands /\ Tail(q) \in Seq(Commands)
  OBVIOUS
<1> QED
  BY <1>1, <1>2, <1>3

\* Every step keeps the types and the facts about the owner's task; the type of
\* the semaphore is CreditStep's.
LEMMA TypeStep ==
    ASSUME IInv, [Next]_vars
    PROVE  TypeOK' /\ OwnerTask' /\ CallbackAfterReturn' /\ StoppedIsDead'
<1>1. credit' \in 0..Capacity
  BY CreditStep
<1>2. /\ \A c \in Commands : Append(queue, c) \in Seq(Commands)
      /\ queue # <<>> => Head(queue) \in Commands /\ Tail(queue) \in Seq(Commands)
  BY QueueMembers DEF IInv, TypeOK
<1> USE DEF IInv, TypeOK, OwnerTask, Busy, CallbackAfterReturn, StoppedIsDead, Finished, Terminal, Failures
<1>3. ASSUME NEW c \in Commands, Submitter(c)
      PROVE  TypeOK' /\ OwnerTask' /\ CallbackAfterReturn' /\ StoppedIsDead'
  <2>1. CASE Reserve(c) \/ Refund(c) \/ EnterSubmit(c) \/ EnterAdmitted(c)
    BY <1>1, <2>1 DEF Reserve, Refund, EnterSubmit, EnterAdmitted, Move, control
  <2>2. CASE Put(c)
    <3>1. queue' \in Seq(Commands)
      BY <1>2, <2>2 DEF Put
    <3>2. sub' \in [Commands -> {"new", "reserved", "inside", "queued", "returned", "refunding", "refused"}]
          /\ sub[c] = "inside"
          /\ \A d \in Commands : sub'[d] # "returned" => callback[d] = "none"
      BY <2>2 DEF Put, Move
    <3> QED
      BY <1>1, <2>2, <3>1, <3>2 DEF Put, control
  <2>3. CASE Register(c)
    BY <1>1, <2>3 DEF Register, Move, control
  <2>4. CASE Cancel(c)
    BY <1>1, <2>4 DEF Cancel, submission, control
  <2>5. CASE NotifyCancelled(c)
    BY <1>1, <2>5 DEF NotifyCancelled, RunCallback, control
  <2> QED
    BY <1>3, <2>1, <2>2, <2>3, <2>4, <2>5 DEF Submitter, Child, Locked
<1>4. ASSUME OwnerStep \/ EnterNested
      PROVE  TypeOK' /\ OwnerTask' /\ CallbackAfterReturn' /\ StoppedIsDead'
  <2>1. CASE Get
    BY <1>1, <1>2, <2>1, NobodyAssumption DEF Get, OwnerAt
  <2>2. CASE StartTask
    BY <1>1, <2>2 DEF StartTask, OwnerAt, submission
  <2>3. CASE TaskReturns \/ SetException
    BY <1>1, <2>3 DEF TaskReturns, SetException, OwnerAt, submission
  <2>4. CASE Notify
    BY <1>1, <2>4 DEF Notify, RunCallback, OwnerAt
  <2>5. CASE CheckEmpty \/ Statistics \/ StartFinalizer
    BY <1>1, <2>5 DEF CheckEmpty, Statistics, StartFinalizer, OwnerAt, submission
  <2>6. CASE TaskRaises \/ EnterNested \/ LeaveNested \/ Finalize
    BY <1>1, <2>6 DEF TaskRaises, EnterNested, LeaveNested, Finalize, OwnerAt, submission
  <2> QED
    BY <1>4, <2>1, <2>2, <2>3, <2>4, <2>5, <2>6 DEF OwnerStep
<1>5. ASSUME Stop
      PROVE  TypeOK' /\ OwnerTask' /\ CallbackAfterReturn' /\ StoppedIsDead'
  BY <1>1, <1>5 DEF Stop, StopFromOwner, StopCall, JoinReturns, JoinExpires, StopAnswers, submission
<1>6. ASSUME UNCHANGED vars
      PROVE  TypeOK' /\ OwnerTask' /\ CallbackAfterReturn' /\ StoppedIsDead'
  BY <1>6 DEF vars
<1> QED
  BY <1>3, <1>4, <1>5, <1>6 DEF Next

\* A command that is queued and not ended stays in the queue or goes to the owner.
LEMMA NoCommandLostStep ==
    ASSUME IInv, [Next]_vars
    PROVE  NoCommandLost'
<1> USE DEF IInv, NoCommandLost, TypeOK, OwnerTask, Busy, Accepted, Finished, Terminal
<1>1. ASSUME NEW c \in Commands, Submitter(c) PROVE NoCommandLost'
  <2>1. CASE Reserve(c) \/ Refund(c) \/ EnterSubmit(c) \/ EnterAdmitted(c) \/ Register(c)
    BY <2>1 DEF Reserve, Refund, EnterSubmit, EnterAdmitted, Register, Move, control
  <2>2. CASE Put(c)
    <3>1. CASE queue' = Append(queue, c)
      BY <2>2, <3>1, QueueMembers DEF Put, Move, control
    <3>2. CASE queue' = queue /\ sub'[c] \in {"refunding", "refused"}
      BY <2>2, <3>2 DEF Put, Move, control
    <3> QED
      BY <2>2, <3>1, <3>2 DEF Put, Move
  <2>3. CASE Cancel(c)
    BY <2>3 DEF Cancel, submission, control
  <2>4. CASE NotifyCancelled(c)
    BY <2>4 DEF NotifyCancelled, RunCallback, control
  <2> QED
    BY <1>1, <2>1, <2>2, <2>3, <2>4 DEF Submitter, Child, Locked
<1>2. ASSUME OwnerStep \/ EnterNested PROVE NoCommandLost'
  <2>1. CASE Get
    <3>1. CASE queue # <<>>
      <4>1. task = Nobody /\ task' = Head(queue) /\ queue' = Tail(queue) /\ UNCHANGED <<sub, fut>>
        BY <2>1, <3>1 DEF Get, OwnerAt
      <4>2. \A i \in 1..Len(queue) :
               queue[i] = Head(queue) \/ \E j \in 1..Len(Tail(queue)) : Tail(queue)[j] = queue[i]
        BY <3>1, QueueMembers
      <4>3. ASSUME NEW c \in Commands, Accepted(c), ~Finished(c)
            PROVE  \E i \in 1..Len(queue) : queue[i] = c
        BY <4>1, <4>3, NobodyAssumption
      <4>4. ASSUME NEW c \in Commands, Accepted(c), ~Finished(c)
            PROVE  task' = c \/ \E j \in 1..Len(queue') : queue'[j] = c
        <5>1. PICK i \in 1..Len(queue) : queue[i] = c
          BY <4>3, <4>4
        <5>2. c = Head(queue) \/ \E j \in 1..Len(Tail(queue)) : Tail(queue)[j] = c
          BY <4>2, <5>1
        <5> QED
          BY <4>1, <5>2
      <4> QED
        BY <4>1, <4>4
    <3>2. CASE queue = <<>>
      BY <2>1, <3>2 DEF Get, OwnerAt
    <3> QED
      BY <3>1, <3>2
  <2>2. CASE StartTask
    BY <2>2 DEF StartTask, OwnerAt, submission
  <2>3. CASE TaskReturns \/ SetException
    BY <2>3 DEF TaskReturns, SetException, OwnerAt, submission
  <2>4. CASE Notify
    BY <2>4 DEF Notify, RunCallback, OwnerAt
  <2>5. CASE Statistics
    BY <2>5 DEF Statistics, OwnerAt, submission
  <2>6. CASE CheckEmpty \/ StartFinalizer \/ TaskRaises \/ EnterNested \/ LeaveNested \/ Finalize
    BY <2>6 DEF CheckEmpty, StartFinalizer, TaskRaises, EnterNested, LeaveNested, Finalize, submission
  <2> QED
    BY <1>2, <2>1, <2>2, <2>3, <2>4, <2>5, <2>6 DEF OwnerStep
<1>3. ASSUME Stop \/ UNCHANGED vars PROVE NoCommandLost'
  BY <1>3 DEF Stop, StopFromOwner, StopCall, JoinReturns, JoinExpires, StopAnswers, submission, vars
<1> QED
  BY <1>1, <1>2, <1>3 DEF Next

\* The owner starts to close only when the lock is free, nothing is accepted any
\* more and the queue is empty; after that no submission gets past the lock.
LEMMA ClosesDrainedStep ==
    ASSUME IInv, [Next]_vars
    PROVE  ClosesDrained'
<1> USE DEF IInv, ClosesDrained, TypeOK, OwnerTask, Busy, Accepted, Finished, Terminal
<1>1. ASSUME NEW c \in Commands, Submitter(c) PROVE ClosesDrained'
  BY <1>1 DEF Submitter, Child, Locked, Reserve, Refund, EnterSubmit, EnterAdmitted, Put, Register, Cancel,
              NotifyCancelled, RunCallback, Move, submission, control
<1>2. ASSUME OwnerStep \/ EnterNested PROVE ClosesDrained'
  <2>1. CASE CheckEmpty
    <3>1. CASE owner' = "closing"
      <4>1. ~accepting /\ queue = <<>> /\ task = Nobody /\ (\A c \in Commands : sub[c] # "inside")
        BY <2>1, <3>1 DEF CheckEmpty, OwnerAt, LockFree
      <4>2. ASSUME NEW c \in Commands, Accepted(c) PROVE Finished(c)
        BY <4>1, <4>2, NobodyAssumption DEF NoCommandLost
      <4> QED
        BY <2>1, <4>1, <4>2 DEF CheckEmpty, submission
    <3>2. CASE owner' = "get"
      BY <3>2
    <3> QED
      BY <2>1, <3>1, <3>2 DEF CheckEmpty, OwnerAt
  <2>2. CASE StartFinalizer \/ Finalize
    BY <2>2 DEF StartFinalizer, Finalize, OwnerAt, submission
  <2>3. CASE Get \/ StartTask \/ TaskReturns \/ TaskRaises \/ SetException \/ EnterNested
             \/ LeaveNested \/ Notify \/ Statistics
    BY <2>3 DEF Get, StartTask, TaskReturns, TaskRaises, SetException, EnterNested, LeaveNested,
                Notify, Statistics, OwnerAt
  <2> QED
    BY <1>2, <2>1, <2>2, <2>3 DEF OwnerStep
<1>3. ASSUME Stop \/ UNCHANGED vars PROVE ClosesDrained'
  BY <1>3 DEF Stop, StopFromOwner, StopCall, JoinReturns, JoinExpires, StopAnswers, submission, vars
<1> QED
  BY <1>1, <1>2, <1>3 DEF Next

\* A runtime that was just started satisfies the inductive invariant.
LEMMA InvInit == Init => IInv
<1> SUFFICES ASSUME Init PROVE IInv
  OBVIOUS
<1>1. Holders = {}
  BY DEF Init, Holders, HoldsCredit, Accepted
<1>2. CreditConservation
  <2>1. Cardinality(Holders) = 0
    BY <1>1, FS_EmptySet
  <2> QED
    BY <2>1, LimitsAssumption DEF Init, CreditConservation, Holders
<1>3. TypeOK
  BY LimitsAssumption DEF Init, TypeOK, Failures
<1> QED
  BY <1>2, <1>3 DEF Init, IInv, NoCommandLost, ClosesDrained, OwnerTask, Busy, CallbackAfterReturn,
                    StoppedIsDead, Accepted

\* The inductive invariant holds in every reachable state of the execution.
LEMMA Invariance == Spec => []IInv
<1>1. IInv /\ [Next]_vars => IInv'
  BY CreditStep, TypeStep, NoCommandLostStep, ClosesDrainedStep DEF IInv
<1> QED
  BY InvInit, <1>1, PTL DEF Spec

-----------------------------------------------------------------------------
\* The state of the execution domain keeps its types; the semaphore never goes
\* below zero or above its capacity.
THEOREM TypeCorrect == Spec => []TypeOK
  BY Invariance, PTL DEF IInv

\* No permit is lost or released twice (_submit 102-123).
THEOREM CreditIsConserved == Spec => []CreditConservation
  BY Invariance, PTL DEF IInv

\* No accepted command is lost (_submit 102-123, _drain 148-160).
THEOREM NothingIsLost == Spec => []NoCommandLost
  BY Invariance, PTL DEF IInv

\* The resources are closed only when everything accepted has ended (_run 140-146).
THEOREM ClosesAfterDraining == Spec => []ClosesDrained
  BY Invariance, PTL DEF IInv

\* After stop() answered True no Future changes any more (stop 162-171).
THEOREM StopIsFinal == Spec => StopTrueIsFinal
<1>1. IInv /\ [Next]_vars => [stopper = "true" => owner = "dead" /\ UNCHANGED <<fut, accepting>>]_vars
  <2> SUFFICES ASSUME IInv, Next, stopper = "true"
               PROVE  owner = "dead" /\ UNCHANGED <<fut, accepting>>
    BY DEF vars
  <2>1. owner = "dead" /\ (\A c \in Commands : sub[c] # "inside" /\ (Accepted(c) => Finished(c)))
    BY DEF IInv, StoppedIsDead, ClosesDrained
  <2>2. ASSUME NEW c \in Commands, Submitter(c) PROVE UNCHANGED <<fut, accepting>>
    BY <2>1, <2>2 DEF Submitter, Child, Locked, Reserve, Refund, EnterSubmit, EnterAdmitted, Put, Register,
                      Cancel, NotifyCancelled, control, Accepted, Finished, Terminal
  <2>3. ~(OwnerStep \/ EnterNested)
    BY <2>1 DEF OwnerStep, Get, CheckEmpty, StartTask, TaskReturns, TaskRaises, SetException, EnterNested,
                LeaveNested, Notify, Statistics, StartFinalizer, Finalize, OwnerAt
  <2>4. ASSUME Stop PROVE UNCHANGED <<fut, accepting>>
    BY <2>1, <2>4 DEF Stop, StopFromOwner, StopCall, JoinReturns, JoinExpires, StopAnswers
  <2> QED
    BY <2>1, <2>2, <2>3, <2>4 DEF Next, vars
<1> QED
  BY Invariance, <1>1, PTL DEF Spec, StopTrueIsFinal
=============================================================================
