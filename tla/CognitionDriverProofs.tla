------------------------ MODULE CognitionDriverProofs ------------------------
(***************************************************************************)
(* The provider slots of the cognition driver, what closing it leaves      *)
(* behind, and the finality of an ended admission, for any admissions,     *)
(* actors, slots, leases and retries: see the README.                      *)
(***************************************************************************)
EXTENDS CognitionDriver, FiniteSetTheorems, TLAPS

Types ==
    /\ progress \in [Keys -> [stage : {"entry", "l2", "l3", "suggestion", "goal"},
                              status : {"new", "pending", "ready"} \cup Terminal]]
    /\ lease \in [Actors -> Keys \cup {Free, Player}]
    /\ active \subseteq Keys
    /\ call \in [Keys -> {"none", "running", "returned", "raised"}]
    /\ slot \in [Keys -> {"none", "open", "closed"}]
    /\ permits \in Int
    /\ others \in [held : Int, taken : Int]
    /\ loop \in [pc : {"idle", "collect", "accept", "accepted", "list", "launch",
                       "prepare", "prepared", "close", "closed"},
                 keys : SUBSET Keys, key : Keys \cup {Free},
                 got : {"none", "yes", "no", "raise"}]

\* Where the task stands fixes what it may know of the key it works on: a collected
\* call has ended; a prepared key has no slot, unless the answer is not a request.
TaskKnows ==
    /\ loop.pc \in {"accept", "accepted", "prepare", "prepared"} => loop.key \in Keys
    /\ loop.pc \in {"accept", "accepted"} => call[loop.key] # "running"
    /\ loop.pc \in {"prepare", "prepared"} => slot[loop.key] # "open"
    /\ At("prepared") /\ loop.got # "no" /\ ~Raised => slot[loop.key] = "none"

\* An open slot belongs to an active key; a slot is closed before its call has
\* ended only for an admission that has, or by close.
SlotsKnown ==
    /\ \A k \in Keys : slot[k] = "open" => k \in active
    /\ \A k \in Keys : slot[k] = "closed" => call[k] = "running" /\ (Ended(k) \/ At("closed"))
    /\ \A k \in Keys : call[k] = "running" => slot[k] # "none"
    /\ At("closed") => active = {} /\ \A k \in Keys : ~Holds(k)

\* The task's own permit, while it prepares a request.
Reserved == IF loop.pc \in {"prepare", "prepared"} THEN 1 ELSE 0
Balance == permits + others.held + Cardinality(Used) + Reserved = Slots

IInv == Types /\ TaskKnows /\ SlotsKnown /\ Balance

\* A goal proposal never has a lease and a running call, so that the player who
\* fails to end it closes no slot of a running call.
GoalsUnleased ==
    /\ \A a \in Actors, k \in Keys : lease[a] = k => a = ActorOf[k]
    /\ \A k \in GoalKeys : Holds(k) => call[k] # "running"
    /\ At("prepared") /\ loop.got # "no" /\ ~Raised /\ loop.key \in GoalKeys => ~Holds(loop.key)

------------------------------------------------------------------------------
\* The keys with a slot are finitely many.
LEMMA UsedFinite == IsFiniteSet(Used) /\ Cardinality(Used) \in Nat
<1>1. Used \in SUBSET Keys
  BY DEF Used
<1> QED
  BY <1>1, KeysAssumption, FS_Subset, FS_CardinalityType

\* The same after a step.
LEMMA UsedFiniteNext == IsFiniteSet(Used') /\ Cardinality(Used)' \in Nat
<1>1. Used' \in SUBSET Keys
  BY DEF Used
<1> QED
  BY <1>1, KeysAssumption, FS_Subset, FS_CardinalityType

\* Removing a finite part of a finite set removes its cardinality.
LEMMA PartRemoved ==
  ASSUME NEW S, IsFiniteSet(S), NEW T \in SUBSET S
  PROVE  Cardinality(S \ T) = Cardinality(S) - Cardinality(T)
<1>1. S \cap T = T
  OBVIOUS
<1> QED
  BY <1>1, FS_Difference

\* What close() of some slots does: it keeps every running call's slot, and the
\* permits it returns are those of the slots it frees.
LEMMA SlotsClosed ==
  ASSUME Types, SlotsKnown, NEW ks \in SUBSET Keys, CloseSlots(ks)
  PROVE  /\ slot' \in [Keys -> {"none", "open", "closed"}]
         /\ call' \in [Keys -> {"none", "running", "returned", "raised"}]
         /\ permits' \in Int
         /\ \A k \in Keys : slot[k] # "open" \/ k \notin ks => slot'[k] = slot[k] /\ call'[k] = call[k]
         /\ \A k \in ks : slot[k] = "open" =>
                IF call[k] = "running" THEN slot'[k] = "closed" /\ call'[k] = "running"
                ELSE slot'[k] = "none" /\ call'[k] = "none"
         /\ permits' + Cardinality(Used)' = permits + Cardinality(Used)
<1> DEFINE open == {k \in ks : slot[k] = "open"}
           idle == {k \in open : call[k] # "running"}
<1>1. /\ slot' = [k \in Keys |-> IF k \in idle THEN "none" ELSE IF k \in open THEN "closed" ELSE slot[k]]
      /\ call' = [k \in Keys |-> IF k \in idle THEN "none" ELSE call[k]]
      /\ permits' = permits + Cardinality(idle)
  BY DEF CloseSlots
<1>2. idle \in SUBSET Used
  BY DEF Used
<1>3. Used' = Used \ idle
  BY <1>1 DEF Used, Types
<1>4. Cardinality(Used \ idle) = Cardinality(Used) - Cardinality(idle) /\ Cardinality(idle) \in Nat
  BY <1>2, UsedFinite, PartRemoved, FS_Subset, FS_CardinalityType
<1>5. permits' \in Int /\ permits' + Cardinality(Used') = permits + Cardinality(Used)
  BY <1>1, <1>3, <1>4, UsedFinite DEF Types
<1>6. /\ slot' \in [Keys -> {"none", "open", "closed"}]
      /\ call' \in [Keys -> {"none", "running", "returned", "raised"}]
  BY <1>1 DEF Types
<1>7. /\ \A k \in Keys : slot[k] # "open" \/ k \notin ks => slot'[k] = slot[k] /\ call'[k] = call[k]
      /\ \A k \in ks : slot[k] = "open" =>
             IF call[k] = "running" THEN slot'[k] = "closed" /\ call'[k] = "running"
             ELSE slot'[k] = "none" /\ call'[k] = "none"
  BY <1>1 DEF Types
<1> QED
  BY <1>5, <1>6, <1>7
------------------------------------------------------------------------------
EndedStays == \A k \in Keys : Ended(k) => progress'[k] = progress[k]

\* No command changes an ended admission.
LEMMA CommandKeepsEnded ==
  ASSUME Types, NEW k \in Keys, Accept(k) \/ Prepare(k) PROVE EndedStays
<1> USE KeysAssumption DEF EndedStays, Types, Ended, Become, End, Terminal, work
<1>1. CASE Accept(k)
  <2>1. CASE AcceptNothing(k)
    BY <2>1 DEF AcceptNothing
  <2>2. CASE AcceptOutput(k)
    BY <2>2 DEF AcceptOutput
  <2>3. CASE AcceptStale(k)
    BY <2>3 DEF AcceptStale
  <2>4. CASE AcceptGoalError(k)
    BY <2>4 DEF AcceptGoalError
  <2>5. CASE AcceptFallback(k)
    BY <2>5 DEF AcceptFallback
  <2>6. CASE AcceptRetry(k)
    BY <2>6 DEF AcceptRetry
  <2>7. CASE ExpiresInside(k)
    BY <2>7 DEF ExpiresInside
  <2> QED
    BY <1>1, <2>1, <2>2, <2>3, <2>4, <2>5, <2>6, <2>7 DEF Accept
<1>2. CASE Prepare(k)
  <2>1. CASE PrepareEnded(k)
    BY <2>1 DEF PrepareEnded
  <2>2. CASE PrepareExpired(k)
    BY <2>2 DEF PrepareExpired
  <2>3. CASE PrepareLater(k)
    BY <2>3 DEF PrepareLater
  <2>4. CASE PrepareStale(k)
    BY <2>4 DEF PrepareStale
  <2>5. CASE PrepareRequest(k)
    BY <2>5 DEF PrepareRequest
  <2>6. CASE PrepareCompletes(k)
    BY <2>6 DEF PrepareCompletes
  <2>7. CASE ExpiresInside(k)
    BY <2>7 DEF ExpiresInside
  <2> QED
    BY <1>2, <2>1, <2>2, <2>3, <2>4, <2>5, <2>6, <2>7 DEF Prepare
<1> QED
  BY <1>1, <1>2

\* No step changes an ended admission.
LEMMA StepKeepsEnded == Types /\ [Next]_vars => EndedStays
<1> SUFFICES ASSUME Types, [Next]_vars PROVE EndedStays
  OBVIOUS
<1>1. ASSUME NEW k \in Keys, Accept(k) \/ Prepare(k) PROVE EndedStays
  BY <1>1, CommandKeepsEnded
<1>2. ASSUME NEW a \in Actors, PlayerTurn(a) PROVE EndedStays
  BY <1>2 DEF PlayerTurn, Preempt, EndedStays
<1>3. CASE UNCHANGED progress
  BY <1>3 DEF EndedStays
<1>4. ListKeys \/ Close \/ Task \/ Shutdown \/ OthersTake \/ OthersReturn => UNCHANGED progress
  BY DEF ListKeys, Close, Task, StartPoll, Accepted, Collected, Prepared, Launched, Interrupted,
         Collect, Launch, Shutdown, OthersTake, OthersReturn, work
<1>5. ASSUME NEW k \in Keys, ProviderEnds(k) \/ Expire(k) PROVE UNCHANGED progress
  BY <1>5 DEF ProviderEnds, Expire, work
<1>6. ASSUME NEW a \in Actors, PlayerDone(a) \/ PlayerFails(a) PROVE UNCHANGED progress
  BY <1>6 DEF PlayerDone, PlayerFails, work
<1>7. CASE UNCHANGED vars
  BY <1>7, <1>3 DEF vars
<1> QED
  BY <1>1, <1>2, <1>3, <1>4, <1>5, <1>6, <1>7 DEF Next, Owner
------------------------------------------------------------------------------
\* What a command may change: the admissions, the leases, and its answer.
Answered ==
    /\ progress' \in [Keys -> [stage : {"entry", "l2", "l3", "suggestion", "goal"},
                               status : {"new", "pending", "ready"} \cup Terminal]]
    /\ lease' \in [Actors -> Keys \cup {Free, Player}]
    /\ \E got \in {"yes", "no", "raise"} : Answer(got)

\* Accepting a result, in each of its outcomes, answers the task.
LEMMA AcceptAnswers == ASSUME Types, NEW k \in Keys, Accept(k) PROVE Answered
<1> USE ActorsAssumption DEF Answered, Types, Become, End, Release, Keep, Terminal, work
<1>1. CASE AcceptNothing(k)
  BY <1>1 DEF AcceptNothing
<1>2. CASE AcceptOutput(k)
  BY <1>2 DEF AcceptOutput
<1>3. CASE AcceptStale(k)
  BY <1>3 DEF AcceptStale
<1>4. CASE AcceptGoalError(k)
  BY <1>4 DEF AcceptGoalError
<1>5. CASE AcceptFallback(k)
  BY <1>5 DEF AcceptFallback
<1>6. CASE AcceptRetry(k)
  BY <1>6 DEF AcceptRetry
<1>7. CASE ExpiresInside(k)
  BY <1>7 DEF ExpiresInside
<1> QED
  BY <1>1, <1>2, <1>3, <1>4, <1>5, <1>6, <1>7 DEF Accept

\* And a request is answered only for an admission that has not ended.
LEMMA PrepareAnswers ==
  ASSUME Types, NEW k \in Keys, Prepare(k)
  PROVE  Answered /\ (loop'.got = "yes" => ~Ended(k))
<1> USE ActorsAssumption DEF Answered, Types, Become, End, Release, Keep, Terminal, work
<1>0. ASSUME NEW got, Answer(got) PROVE loop'.got = got
  BY <1>0 DEF Answer
<1>1. CASE PrepareEnded(k)
  BY <1>0, <1>1 DEF PrepareEnded
<1>2. CASE PrepareExpired(k)
  <2>1. Answer("no") /\ loop'.got = "no"
    BY <1>0, <1>2 DEF PrepareExpired
  <2>2. CASE UNCHANGED work
    BY <2>1, <2>2
  <2>3. CASE End(k, "stale")
    BY <2>1, <2>3
  <2> QED
    BY <1>2, <2>2, <2>3 DEF PrepareExpired
<1>3. CASE PrepareLater(k)
  BY <1>0, <1>3 DEF PrepareLater
<1>4. CASE PrepareStale(k)
  BY <1>0, <1>4 DEF PrepareStale
<1>5. CASE PrepareRequest(k)
  <2>1. Answer("yes") /\ ~Ended(k)
    BY <1>5 DEF PrepareRequest
  <2>2. PICK stage \in {"entry", "l2", "l3", "suggestion", "goal"} :
            progress' = [progress EXCEPT ![k] = [stage |-> stage, status |-> "pending"]]
    <3>1. progress[k].stage \in {"entry", "l2", "l3", "suggestion", "goal"}
      OBVIOUS
    <3>2. PICK stage \in NextStages(k) :
              progress' = [progress EXCEPT ![k] = [stage |-> stage, status |-> "pending"]]
      BY <1>5 DEF PrepareRequest
    <3>3. stage \in {"entry", "l2", "l3", "suggestion", "goal"}
      BY <3>1, <3>2 DEF NextStages
    <3> QED
      BY <3>2, <3>3
  <2>3. lease' \in [Actors -> Keys \cup {Free, Player}]
    BY <1>5 DEF PrepareRequest
  <2> QED
    BY <2>1, <2>2, <2>3
<1>6. CASE PrepareCompletes(k)
  <2>1. CASE End(k, "completed") /\ Answer("no")
    <3>1. loop'.got = "no"
      BY <1>0, <2>1
    <3>2. progress' = [progress EXCEPT ![k].status = "completed"]
      BY <2>1
    <3>3. lease' \in [Actors -> Keys \cup {Free, Player}]
      BY <2>1
    <3> QED
      BY <2>1, <3>1, <3>2, <3>3
  <2>2. CASE Become(k, "completed") /\ Keep(k) /\ Answer("raise")
    BY <1>0, <2>2
  <2> QED
    BY <1>6, <2>1, <2>2 DEF PrepareCompletes
<1>7. CASE ExpiresInside(k)
  BY <1>0, <1>7 DEF ExpiresInside
<1> QED
  BY <1>1, <1>2, <1>3, <1>4, <1>5, <1>6, <1>7 DEF Prepare
------------------------------------------------------------------------------
\* While no slot changes hands, as many are in use.
LEMMA SlotsUnchanged ==
  ASSUME slot' = slot PROVE Used' = Used /\ Cardinality(Used)' = Cardinality(Used)
BY DEF Used

\* A command on the owner thread keeps the invariant.
LEMMA CommandKeeps ==
  ASSUME IInv, NEW k \in Keys, Accept(k) \/ Prepare(k) PROVE IInv'
<1> USE DEF IInv
<1>1. /\ k = loop.key /\ loop.pc \in {"accept", "prepare"}
      /\ UNCHANGED <<active, call, slot, permits, others>>
  BY DEF Accept, Prepare, calls, At
<1>2. Answered
  BY AcceptAnswers, PrepareAnswers
<1>3. /\ loop'.pc = IF loop.pc = "accept" THEN "accepted" ELSE "prepared"
      /\ loop'.key = loop.key /\ loop'.keys = loop.keys /\ loop'.got \in {"yes", "no", "raise"}
      /\ loop' \in [pc : {"accepted", "prepared"}, keys : SUBSET Keys, key : Keys \cup {Free},
                    got : {"yes", "no", "raise"}]
  BY <1>1, <1>2 DEF Answered, Answer, At, Types
<1>4. Types'
  BY <1>1, <1>2, <1>3 DEF Types, Answered
<1>5. EndedStays
  BY CommandKeepsEnded
<1>6. SlotsKnown'
  <2>1. \A x \in Keys : Ended(x) => Ended(x)'
    BY <1>5 DEF EndedStays, Ended
  <2> QED
    BY <1>1, <1>3, <2>1 DEF SlotsKnown, At
<1>7. TaskKnows'
  <2>1. CASE loop.pc = "accept"
    BY <1>1, <1>3, <2>1 DEF TaskKnows, At
  <2>2. CASE loop.pc = "prepare"
    <3>1. loop'.got = "yes" => ~Ended(k)
      BY <1>1, <2>2, PrepareAnswers DEF Accept, At
    <3>2. loop'.got = "yes" => slot[k] = "none"
      BY <1>1, <2>2, <3>1 DEF SlotsKnown, TaskKnows, Types, At
    <3> QED
      BY <1>1, <1>3, <2>2, <3>2 DEF TaskKnows, At, Raised
  <2> QED
    BY <1>1, <2>1, <2>2
<1>8. Balance'
  BY <1>1, <1>3, SlotsUnchanged DEF Balance, Reserved
<1> QED
  BY <1>4, <1>6, <1>7, <1>8

\* A step that moves no slot, no lease and no admission, and sends the task nowhere
\* but to its next key, keeps the invariant.
LEMMA QuietKeeps ==
  ASSUME IInv,
         UNCHANGED <<progress, lease, active, call, slot, permits, others>>,
         Types', TaskKnows', Reserved' = Reserved, loop'.pc = "closed" <=> loop.pc = "closed"
  PROVE  IInv'
<1>1. SlotsKnown'
  BY DEF IInv, SlotsKnown, At, Ended, Holds
<1>2. Balance'
  BY SlotsUnchanged DEF IInv, Balance
<1> QED
  BY <1>1, <1>2 DEF IInv
\* The steps of the task that only look around, and the environment's that touch no slot.
LEMMA QuietSteps ==
  ASSUME IInv,
         \/ ListKeys \/ StartPoll \/ Collected \/ Launched \/ Interrupted \/ Shutdown \/ UNCHANGED vars
         \/ \E k \in Keys : Collect(k) \/ Expire(k)
  PROVE  IInv'
<1> USE DEF Goto, At, Types, TaskKnows, Reserved, Raised, work, calls, IInv
<1>1. CASE ListKeys
  BY <1>1, QuietKeeps DEF ListKeys
<1>2. CASE StartPoll
  BY <1>2, QuietKeeps DEF StartPoll
<1>3. CASE Collected
  BY <1>3, QuietKeeps DEF Collected
<1>4. CASE Launched
  BY <1>4, QuietKeeps DEF Launched
<1>5. CASE Interrupted
  BY <1>5, QuietKeeps DEF Interrupted
<1>6. CASE Shutdown
  BY <1>6, QuietKeeps DEF Shutdown
<1>7. CASE UNCHANGED vars
  BY <1>7, QuietKeeps DEF vars
<1>8. ASSUME NEW k \in Keys, Collect(k) PROVE IInv'
  BY <1>8, QuietKeeps DEF Collect
<1>9. ASSUME NEW k \in Keys, Expire(k) PROVE IInv'
  BY <1>9, QuietKeeps DEF Expire
<1> QED
  BY <1>1, <1>2, <1>3, <1>4, <1>5, <1>6, <1>7, <1>8, <1>9

\* A slot is taken for the next key, for the request, or by the other users.
LEMMA TakingKeeps ==
  ASSUME IInv, Prepared \/ OthersTake \/ OthersReturn \/ \E k \in Keys : Launch(k)
  PROVE  IInv'
<1> USE KeysAssumption, LimitsAssumption DEF IInv, At, Types, work, calls
<1>1. ASSUME NEW k \in Keys, Launch(k) PROVE IInv'
  <2>1. loop.pc = "launch" /\ UNCHANGED <<progress, lease, active, call, slot, others>>
    BY <1>1 DEF Launch
  <2>2. CASE /\ k \in active \/ permits = 0
             /\ \/ loop' = [loop EXCEPT !.keys = @ \ {k}]
                \/ loop' = [loop EXCEPT !.pc = "idle", !.keys = {}]
    <3>1. permits' = permits
      BY <1>1, <2>2 DEF Launch
    <3>2. loop' \in [pc : {"launch", "idle"}, keys : SUBSET Keys, key : Keys \cup {Free},
                    got : {"none", "yes", "no", "raise"}]
      <4>1. CASE loop' = [loop EXCEPT !.keys = @ \ {k}]
        BY <2>1, <4>1
      <4>2. CASE loop' = [loop EXCEPT !.pc = "idle", !.keys = {}]
        BY <2>1, <4>2
      <4> QED
        BY <2>2, <4>1, <4>2
    <3>3. Types'
      BY <2>1, <3>1, <3>2
    <3> QED
      BY <2>1, <3>1, <3>2, <3>3, QuietKeeps DEF TaskKnows, Reserved
  <2>3. CASE /\ k \notin active /\ permits' = permits - 1
             /\ loop' = [loop EXCEPT !.keys = @ \ {k}, !.pc = "prepare", !.key = k]
    <3>1. Types' /\ loop'.pc = "prepare" /\ loop'.key = k
      <4>1. loop' \in [pc : {"prepare"}, keys : SUBSET Keys, key : {k},
                      got : {"none", "yes", "no", "raise"}]
        BY <2>1, <2>3
      <4>2. permits' \in Int
        BY <2>3
      <4> QED
        BY <2>1, <4>1, <4>2
    <3>2. TaskKnows'
      BY <2>1, <2>3, <3>1 DEF TaskKnows, SlotsKnown
    <3>3. SlotsKnown'
      BY <2>1, <3>1 DEF SlotsKnown, Ended, Holds
    <3>4. Balance'
      BY <2>1, <2>3, <3>1, SlotsUnchanged, UsedFinite DEF Balance, Reserved
    <3> QED
      BY <3>1, <3>2, <3>3, <3>4
  <2> QED
    BY <1>1, <2>2, <2>3 DEF Launch
<1>2. CASE Prepared
  <2>1. loop.pc = "prepared" /\ loop.key \in Keys /\ loop'.pc \in {"close", "launch"}
    BY <1>2 DEF Prepared, Goto, TaskKnows
  <2>2. Types' /\ UNCHANGED <<progress, lease, others>>
    <3>1. UNCHANGED <<progress, lease, others>>
      BY <1>2 DEF Prepared
    <3>2. loop' \in [pc : {"close", "launch"}, keys : SUBSET Keys, key : Keys \cup {Free}, got : {"none"}]
      BY <1>2, <2>1 DEF Prepared, Goto
    <3>3. active' \subseteq Keys /\ permits' \in Int
      BY <1>2, <2>1 DEF Prepared
    <3>4. /\ call' \in [Keys -> {"none", "running", "returned", "raised"}]
          /\ slot' \in [Keys -> {"none", "open", "closed"}]
      BY <1>2, <2>1 DEF Prepared
    <3> QED
      BY <3>1, <3>2, <3>3, <3>4
  <2>3. TaskKnows'
    BY <2>1 DEF TaskKnows
  <2>4. CASE UNCHANGED <<active, call, slot>> /\ permits' = permits + 1
    <3>1. SlotsKnown'
      BY <2>1, <2>2, <2>4 DEF SlotsKnown, Ended, Holds
    <3>2. Balance'
      BY <2>1, <2>2, <2>4, SlotsUnchanged, UsedFinite DEF Balance, Reserved
    <3> QED
      BY <2>2, <2>3, <3>1, <3>2
  <2>5. CASE /\ ~Cancelled /\ loop.got # "no"
             /\ call' = [call EXCEPT ![loop.key] = "running"]
             /\ slot' = [slot EXCEPT ![loop.key] = "open"]
             /\ active' = active \cup {loop.key} /\ permits' = permits
    <3>1. slot[loop.key] = "none"
      BY <2>1, <2>5 DEF TaskKnows, Cancelled
    <3>2. SlotsKnown'
      BY <2>1, <2>2, <2>5 DEF SlotsKnown, Ended, Holds
    <3>3. Used' = Used \cup {loop.key} /\ loop.key \notin Used
      BY <2>1, <2>5, <3>1 DEF Used
    <3>4. Cardinality(Used)' = Cardinality(Used) + 1
      BY <3>3, UsedFinite, FS_AddElement
    <3>5. Balance'
      BY <2>1, <2>2, <2>5, <3>4, UsedFinite DEF Balance, Reserved
    <3> QED
      BY <2>2, <2>3, <3>2, <3>5
  <2> QED
    BY <1>2, <2>4, <2>5 DEF Prepared
<1>3. CASE OthersTake \/ OthersReturn
  <2>1. /\ Types' /\ UNCHANGED <<progress, lease, active, call, slot, loop>>
        /\ permits' + others'.held = permits + others.held
    <3>1. CASE OthersTake
      <4>1. permits' = permits - 1 /\ others' = [held |-> others.held + 1, taken |-> others.taken + 1]
        BY <3>1 DEF OthersTake
      <4>2. others' \in [held : Int, taken : Int] /\ permits' \in Int
        BY <4>1
      <4>3. UNCHANGED <<progress, lease, active, call, slot, loop>>
        BY <3>1 DEF OthersTake
      <4>4. permits' + others'.held = permits + others.held
        BY <4>1
      <4> QED
        BY <4>2, <4>3, <4>4
    <3>2. CASE OthersReturn
      <4>1. permits' = permits + 1 /\ others' = [others EXCEPT !.held = @ - 1]
        BY <3>2 DEF OthersReturn
      <4>2. others' \in [held : Int, taken : Int] /\ permits' \in Int
        BY <4>1
      <4>3. UNCHANGED <<progress, lease, active, call, slot, loop>>
        BY <3>2 DEF OthersReturn
      <4>4. permits' + others'.held = permits + others.held
        BY <4>1
      <4> QED
        BY <4>2, <4>3, <4>4
    <3> QED
      BY <1>3, <3>1, <3>2
  <2>2. TaskKnows' /\ SlotsKnown'
    BY <2>1 DEF TaskKnows, SlotsKnown, Raised, Ended, Holds
  <2>3. Balance'
    BY <2>1, SlotsUnchanged, UsedFinite DEF Balance, Reserved
  <2> QED
    BY <2>1, <2>2, <2>3
<1> QED
  BY <1>1, <1>2, <1>3
\* Slots are closed by the task, by close and by the player, and a call ends.
LEMMA AcceptedKeeps == ASSUME IInv, Accepted PROVE IInv'
<1> USE KeysAssumption DEF IInv, At, calls, work
<1>1. /\ loop.pc = "accepted" /\ loop.key \in Keys /\ call[loop.key] # "running"
      /\ UNCHANGED <<progress, lease, others>>
      /\ loop'.pc \in {"close", "collect"}
  BY DEF Accepted, Goto, TaskKnows, Types
<1>2. loop' \in [pc : {"close", "collect"}, keys : SUBSET Keys, key : Keys \cup {Free}, got : {"none"}]
  BY DEF Accepted, Goto, Types
<1>3. TaskKnows'
  BY <1>1 DEF TaskKnows
<1>4. CASE active' = active /\ UNCHANGED <<call, slot, permits>>
  <2>1. Types'
    BY <1>1, <1>2, <1>4 DEF Types
  <2>2. SlotsKnown'
    BY <1>1, <1>4 DEF SlotsKnown, Ended, Holds
  <2>3. Balance'
    BY <1>1, <1>4, SlotsUnchanged DEF Balance, Reserved
  <2> QED
    BY <1>3, <2>1, <2>2, <2>3
<1>5. CASE active' \in {active, active \ {loop.key}} /\ CloseSlots({loop.key})
  <2>1. /\ slot' \in [Keys -> {"none", "open", "closed"}]
        /\ call' \in [Keys -> {"none", "running", "returned", "raised"}]
        /\ permits' \in Int
        /\ \A k \in Keys : k # loop.key => slot'[k] = slot[k] /\ call'[k] = call[k]
        /\ slot[loop.key] # "open" => slot'[loop.key] = slot[loop.key] /\ call'[loop.key] = call[loop.key]
        /\ slot[loop.key] = "open" => slot'[loop.key] = "none" /\ call'[loop.key] = "none"
        /\ permits' + Cardinality(Used)' = permits + Cardinality(Used)
    BY <1>1, <1>5, SlotsClosed
  <2>2. Types'
    BY <1>1, <1>2, <1>5, <2>1 DEF Types
  <2>3. SlotsKnown'
    BY <1>1, <1>5, <2>1 DEF SlotsKnown, Ended, Holds, Types
  <2>4. Balance'
    <3>1. Reserved = 0 /\ Reserved' = 0
      BY <1>1 DEF Reserved
    <3>2. others' = others /\ others.held \in Int /\ permits \in Int /\ permits' \in Int
      BY <1>1, <2>1 DEF Types
    <3> QED
      BY <2>1, <3>1, <3>2, UsedFinite, UsedFiniteNext DEF Balance
  <2> QED
    BY <1>3, <2>2, <2>3, <2>4
<1> QED
  BY <1>4, <1>5 DEF Accepted

\* Closing gives back every lease and every slot whose call has ended.
LEMMA CloseKeeps == ASSUME IInv, Close PROVE IInv'
<1> USE KeysAssumption, HoldersAssumption, ActorsAssumption DEF IInv, At, calls, work
<1>1. /\ loop.pc = "close" /\ loop' = [loop EXCEPT !.pc = "closed"] /\ active' = {}
      /\ lease' = [a \in Actors |-> IF lease[a] \in Keys THEN Free ELSE lease[a]]
      /\ UNCHANGED <<progress, others>>
  BY DEF Close
<1>2. /\ slot' \in [Keys -> {"none", "open", "closed"}]
      /\ call' \in [Keys -> {"none", "running", "returned", "raised"}]
      /\ permits' \in Int
      /\ \A k \in Keys : slot[k] # "open" \/ k \notin active => slot'[k] = slot[k] /\ call'[k] = call[k]
      /\ \A k \in active : slot[k] = "open" =>
             IF call[k] = "running" THEN slot'[k] = "closed" /\ call'[k] = "running"
             ELSE slot'[k] = "none" /\ call'[k] = "none"
      /\ permits' + Cardinality(Used)' = permits + Cardinality(Used)
  BY SlotsClosed DEF Close, Types
<1>3. /\ loop' \in [pc : {"closed"}, keys : SUBSET Keys, key : Keys \cup {Free},
                    got : {"none", "yes", "no", "raise"}]
      /\ lease' \in [Actors -> {Free, Player}]
  BY <1>1 DEF Types
<1>4. Types'
  BY <1>1, <1>2, <1>3 DEF Types
<1>5. TaskKnows'
  BY <1>3 DEF TaskKnows
<1>6. SlotsKnown'
  <2>1. \A k \in Keys : slot'[k] # "open"
    BY <1>1, <1>2 DEF SlotsKnown, Types
  <2>2. \A k \in Keys : slot'[k] = "closed" => call'[k] = "running"
    BY <1>1, <1>2 DEF SlotsKnown, Types
  <2>3. \A k \in Keys : call'[k] = "running" => slot'[k] # "none"
    BY <1>1, <1>2 DEF SlotsKnown, Types
  <2>4. \A k \in Keys : ~Holds(k)'
    BY <1>3 DEF Holds
  <2> QED
    BY <1>1, <1>3, <2>1, <2>2, <2>3, <2>4 DEF SlotsKnown
<1>7. Balance'
  <2>1. Reserved = 0 /\ Reserved' = 0
    BY <1>1, <1>3 DEF Reserved
  <2>2. others' = others /\ others.held \in Int /\ permits \in Int /\ permits' \in Int
    BY <1>1, <1>2 DEF Types
  <2> QED
    BY <1>2, <2>1, <2>2, UsedFinite, UsedFiniteNext DEF Balance
<1> QED
  BY <1>4, <1>5, <1>6, <1>7
\* A preemption frees the slots of what it ends, and only those.
LEMMA PreemptKeeps ==
  ASSUME IInv, NEW ks \in SUBSET Keys, Preempt(ks), UNCHANGED <<others, loop>>,
         lease' \in [Actors -> Keys \cup {Free, Player}],
         \A k \in Keys : Holds(k)' => Holds(k),
         progress' \in [Keys -> [stage : {"entry", "l2", "l3", "suggestion", "goal"},
                                 status : {"new", "pending", "ready"} \cup Terminal]],
         \A k \in Keys : Ended(k) => Ended(k)',
         \A k \in ks : Ended(k)' \/ call[k] # "running"
  PROVE  IInv'
<1> USE KeysAssumption, HoldersAssumption, ActorsAssumption DEF IInv, At
<1>1. active' = active \ ks /\ CloseSlots(ks \cap active)
  BY DEF Preempt
<1>2. /\ slot' \in [Keys -> {"none", "open", "closed"}]
      /\ call' \in [Keys -> {"none", "running", "returned", "raised"}]
      /\ permits' \in Int
      /\ \A k \in Keys : slot[k] # "open" \/ k \notin ks \cap active =>
             slot'[k] = slot[k] /\ call'[k] = call[k]
      /\ \A k \in ks \cap active : slot[k] = "open" =>
             IF call[k] = "running" THEN slot'[k] = "closed" /\ call'[k] = "running"
             ELSE slot'[k] = "none" /\ call'[k] = "none"
      /\ permits' + Cardinality(Used)' = permits + Cardinality(Used)
  BY <1>1, SlotsClosed
<1>3. Types'
  BY <1>1, <1>2 DEF Types
<1>4. TaskKnows'
  BY <1>1, <1>2 DEF TaskKnows, Raised, Types
<1>5. SlotsKnown'
  <2>1. \A k \in Keys : slot'[k] = "open" => k \in active'
    BY <1>1, <1>2 DEF SlotsKnown, Types
  <2>2. \A k \in Keys : slot'[k] = "closed" => call'[k] = "running" /\ (Ended(k)' \/ At("closed")')
    BY <1>1, <1>2 DEF SlotsKnown, Types
  <2>3. \A k \in Keys : call'[k] = "running" => slot'[k] # "none"
    BY <1>2 DEF SlotsKnown, Types
  <2> QED
    BY <1>1, <2>1, <2>2, <2>3 DEF SlotsKnown
<1>6. Balance'
  <2>1. Reserved' = Reserved /\ Reserved \in Int /\ others' = others /\ others.held \in Int /\ permits \in Int
    BY DEF Reserved, Types
  <2> QED
    BY <1>2, <2>1, UsedFinite, UsedFiniteNext DEF Balance
<1> QED
  BY <1>3, <1>4, <1>5, <1>6

\* A player who wants an actor leaves the slots balanced.
LEMMA PlayerKeeps ==
  ASSUME IInv, GoalsUnleased, NEW a \in Actors, PlayerTurn(a) \/ PlayerFails(a) \/ PlayerDone(a)
  PROVE  IInv'
<1> USE KeysAssumption, HoldersAssumption, ActorsAssumption DEF IInv, At, calls, work
<1>1. /\ lease' \in [Actors -> Keys \cup {Free, Player}]
      /\ \A k \in Keys : Holds(k)' => Holds(k)
  BY DEF PlayerTurn, PlayerFails, PlayerDone, Holds, Types
<1>2. CASE PlayerDone(a)
  <2>1. UNCHANGED <<progress, active, call, slot, permits, others, loop>>
    BY <1>2 DEF PlayerDone
  <2>2. Types' /\ TaskKnows' /\ SlotsKnown'
    BY <1>1, <2>1 DEF Types, TaskKnows, SlotsKnown, Raised, Ended
  <2>3. Balance'
    BY <2>1, SlotsUnchanged DEF Balance, Reserved
  <2> QED
    BY <2>2, <2>3
<1>3. CASE PlayerTurn(a)
  <2> DEFINE mine == {k \in Keys : lease[a] = k}
  <2>1. /\ progress' = [k \in Keys |-> IF k \in mine /\ ~Ended(k)
                                       THEN [progress[k] EXCEPT !.status = "stale"] ELSE progress[k]]
        /\ Preempt(mine) /\ UNCHANGED <<others, loop>>
    BY <1>3 DEF PlayerTurn
  <2>2. /\ progress' \in [Keys -> [stage : {"entry", "l2", "l3", "suggestion", "goal"},
                                   status : {"new", "pending", "ready"} \cup Terminal]]
        /\ \A k \in Keys : k \in mine \/ Ended(k) => Ended(k)'
    BY <2>1 DEF Ended, Terminal, Types
  <2> QED
    BY <1>1, <2>1, <2>2, PreemptKeeps
<1>4. CASE PlayerFails(a)
  <2>1. PICK k \in Keys : lease[a] = k /\ Unendable(k) /\ Preempt({k})
    BY <1>4 DEF PlayerFails
  <2>2. UNCHANGED <<progress, others, loop>>
    BY <1>4 DEF PlayerFails
  <2>3. call[k] # "running"
    BY <2>1 DEF GoalsUnleased, Unendable, Holds
  <2> QED
    BY <1>1, <2>1, <2>2, <2>3, PreemptKeeps DEF Types, Ended
<1> QED
  BY <1>2, <1>3, <1>4

\* A call that ends gives back a slot that was closed meanwhile.
LEMMA EndOfCallKeeps == ASSUME IInv, NEW k \in Keys, ProviderEnds(k) PROVE IInv'
<1> USE KeysAssumption DEF IInv, At, work
<1>1. call[k] = "running" /\ UNCHANGED <<progress, lease, active, others, loop>>
  BY DEF ProviderEnds
<1>2. CASE /\ slot[k] = "closed" /\ permits' = permits + 1
           /\ call' = [call EXCEPT ![k] = "none"] /\ slot' = [slot EXCEPT ![k] = "none"]
  <2>1. Types' /\ TaskKnows' /\ SlotsKnown'
    BY <1>1, <1>2 DEF Types, TaskKnows, SlotsKnown, Raised, Ended, Holds
  <2>2. Used' = Used \ {k} /\ k \in Used
    BY <1>2 DEF Used, Types
  <2>3. Cardinality(Used)' = Cardinality(Used) - 1
    BY <2>2, UsedFinite, FS_RemoveElement
  <2>4. Reserved' = Reserved /\ Reserved \in Int /\ others.held \in Int /\ permits \in Int
    BY <1>1 DEF Reserved, Types
  <2>5. Balance'
    BY <1>1, <1>2, <2>3, <2>4, UsedFinite DEF Balance
  <2> QED
    BY <2>1, <2>5
<1>3. CASE UNCHANGED <<slot, permits>> /\ slot[k] # "closed" /\ \E how \in {"returned", "raised"} : call' = [call EXCEPT ![k] = how]
  <2>1. Types' /\ TaskKnows' /\ SlotsKnown'
    BY <1>1, <1>3 DEF Types, TaskKnows, SlotsKnown, Raised, Ended, Holds
  <2>2. Balance'
    BY <1>1, <1>3, SlotsUnchanged DEF Balance, Reserved
  <2> QED
    BY <2>1, <2>2
<1> QED
  BY <1>2, <1>3 DEF ProviderEnds

\* A command gives no lease to another admission than its own.
LEMMA CommandLeases ==
  ASSUME Types, NEW k \in Keys, Accept(k) \/ Prepare(k)
  PROVE  /\ UNCHANGED call /\ loop'.key = loop.key /\ loop.key = k
         /\ \A a \in Actors, j \in Keys : lease'[a] = j => lease[a] = j \/ (j = k /\ a = ActorOf[k])
<1> USE HoldersAssumption, ActorsAssumption DEF calls, work
<1> DEFINE Kept == \/ lease' = lease
                   \/ lease' = [lease EXCEPT ![ActorOf[k]] = k]
                   \/ lease' = [lease EXCEPT ![ActorOf[k]] = Free]
<1>1. UNCHANGED call /\ loop.key = k /\ \E got \in {"yes", "no", "raise"} : Answer(got)
  BY DEF Accept, AcceptNothing, AcceptOutput, AcceptStale, AcceptGoalError, AcceptFallback, AcceptRetry,
         Prepare, PrepareEnded, PrepareExpired, PrepareLater, PrepareStale, PrepareRequest,
         PrepareCompletes, ExpiresInside
<1>2. loop'.key = loop.key
  BY <1>1 DEF Answer, Types
<1>3. ASSUME Accept(k) PROVE Kept
  <2>1. AcceptNothing(k) => Kept
    BY DEF AcceptNothing
  <2>2. AcceptOutput(k) \/ AcceptStale(k) \/ AcceptGoalError(k) => Kept
    BY DEF AcceptOutput, AcceptStale, AcceptGoalError, End, Release
  <2>3. AcceptFallback(k) \/ AcceptRetry(k) \/ ExpiresInside(k) => Kept
    BY DEF AcceptFallback, AcceptRetry, ExpiresInside, Keep
  <2> QED
    BY <1>3, <2>1, <2>2, <2>3 DEF Accept
<1>4. ASSUME Prepare(k) PROVE Kept
  <2>1. PrepareEnded(k) \/ PrepareExpired(k) \/ PrepareStale(k) => Kept
    BY DEF PrepareEnded, PrepareExpired, PrepareStale, End, Release
  <2>2. PrepareLater(k) \/ ExpiresInside(k) => Kept
    BY DEF PrepareLater, ExpiresInside, Keep
  <2>3. PrepareRequest(k) \/ PrepareCompletes(k) => Kept
    BY DEF PrepareRequest, PrepareCompletes, Keep, End, Release
  <2> QED
    BY <1>4, <2>1, <2>2, <2>3 DEF Prepare
<1>5. Kept => \A a \in Actors, j \in Keys : lease'[a] = j => lease[a] = j \/ (j = k /\ a = ActorOf[k])
  BY DEF Types
<1>6. Kept
  BY <1>3, <1>4
<1> QED
  BY <1>1, <1>2, <1>5, <1>6

\* A command that leaves a goal proposal its lease finds no call of it running.
LEMMA CommandUnleased ==
  ASSUME IInv, GoalsUnleased, NEW k \in Keys, Accept(k) \/ Prepare(k)
  PROVE  GoalsUnleased'
<1> USE HoldersAssumption, ActorsAssumption, KeysAssumption DEF IInv, At
<1>1. /\ UNCHANGED call /\ loop'.key = loop.key /\ loop.key = k
      /\ \A a \in Actors, j \in Keys : lease'[a] = j => lease[a] = j \/ (j = k /\ a = ActorOf[k])
  BY CommandLeases
<1>2. /\ \A a \in Actors, j \in Keys : lease'[a] = j => a = ActorOf[j]
      /\ \A j \in Keys \ {k} : Holds(j)' => Holds(j)
  BY <1>1 DEF GoalsUnleased, Holds
<1>3. CASE Accept(k)
  <2>1. At("accept") /\ call[k] # "running"
    BY <1>1, <1>3 DEF Accept, TaskKnows, Types
  <2>2. \E got \in {"yes", "no", "raise"} : Answer(got)
    BY <1>3 DEF Accept, AcceptNothing, AcceptOutput, AcceptStale, AcceptGoalError, AcceptFallback,
              AcceptRetry, ExpiresInside
  <2>3. loop'.pc = "accepted"
    BY <2>1, <2>2 DEF Answer, Types
  <2> QED
    BY <1>1, <1>2, <2>1, <2>3 DEF GoalsUnleased
<1>4. CASE Prepare(k)
  <2>1. At("prepare") /\ (~Ended(k) => call[k] # "running")
    BY <1>1, <1>4 DEF Prepare, TaskKnows, SlotsKnown, Types
  <2>2. Ended(k) /\ Holds(k)' => Holds(k)
    BY <1>4 DEF Prepare, PrepareEnded, PrepareExpired, PrepareLater, PrepareStale, PrepareRequest,
              PrepareCompletes, ExpiresInside, Release, Holds, Types, Ended, Terminal
  <2>3. k \in GoalKeys /\ loop'.got # "no" /\ loop'.got # "raise" => PrepareRequest(k)
    BY <1>4 DEF Prepare, PrepareEnded, PrepareExpired, PrepareLater, PrepareStale,
              PrepareCompletes, ExpiresInside, Answer, Types
  <2>4. k \in GoalKeys /\ PrepareRequest(k) => ~Holds(k)'
    BY DEF PrepareRequest, Release, Holds, Types
  <2> QED
    BY <1>1, <1>2, <2>1, <2>2, <2>3, <2>4 DEF GoalsUnleased, Raised
<1> QED
  BY <1>3, <1>4

\* The other steps give the driver no lease, and only Prepared starts a call.
LEMMA GoalsStayUnleased == ASSUME IInv, GoalsUnleased, [Next]_vars PROVE GoalsUnleased'
<1> USE HoldersAssumption, ActorsAssumption, KeysAssumption DEF IInv, At, calls, work
<1> DEFINE Fewer == \A a \in Actors, k \in Keys : lease'[a] = k => lease[a] = k
           Idler(ks) == \A k \in Keys \ ks : call'[k] = "running" => call[k] = "running"
<1>1. \A ks \in SUBSET Keys : CloseSlots(ks) => Idler({})
  BY DEF CloseSlots
<1>2. ASSUME Fewer, Idler({}), loop' = loop \/ loop'.pc # "prepared" PROVE GoalsUnleased'
  BY <1>2 DEF GoalsUnleased, Holds, Raised
<1>3. ASSUME NEW k \in Keys, Accept(k) \/ Prepare(k) PROVE GoalsUnleased'
  BY <1>3, CommandUnleased
<1>4. CASE ListKeys \/ Close
  <2>1. loop'.pc # "prepared"
    BY <1>4 DEF ListKeys, Close, Types
  <2>2. Fewer
    BY <1>4 DEF ListKeys, Close
  <2>3. Idler({})
    <3>1. CASE Close
      <4>1. active \in SUBSET Keys /\ CloseSlots(active)
        BY <3>1 DEF Close, Types
      <4> QED
        BY <1>1, <4>1
    <3>2. CASE ListKeys
      BY <3>2 DEF ListKeys
    <3> QED
      BY <1>4, <3>1, <3>2
  <2> QED
    BY <1>2, <2>1, <2>2, <2>3
<1>5. CASE StartPoll \/ Accepted \/ Collected \/ Launched \/ Interrupted
           \/ \E k \in Keys : Collect(k) \/ Launch(k)
  <2>1. loop'.pc # "prepared"
    <3>1. StartPoll \/ Interrupted => loop'.pc # "prepared"
      BY DEF StartPoll, Interrupted, Types
    <3>2. Accepted \/ Collected \/ Launched => loop'.pc # "prepared"
      BY DEF Accepted, Collected, Launched, Goto, Types
    <3>3. ASSUME NEW k \in Keys, Collect(k) PROVE loop'.pc # "prepared"
      BY <3>3 DEF Collect, Types
    <3>4. ASSUME NEW k \in Keys, Launch(k) PROVE loop'.pc # "prepared"
      BY <3>4 DEF Launch, Types
    <3> QED
      BY <1>5, <3>1, <3>2, <3>3, <3>4
  <2>2. Fewer
    BY <1>5 DEF StartPoll, Accepted, Collected, Launched, Interrupted, Collect, Launch, Goto
  <2>3. Accepted => Idler({})
    <3>1. Accepted => loop.key \in Keys /\ (CloseSlots({loop.key}) \/ UNCHANGED call)
      BY DEF Accepted, TaskKnows
    <3> QED
      BY <1>1, <3>1
  <2>4. Accepted \/ UNCHANGED call
    BY <1>5 DEF StartPoll, Collected, Launched, Interrupted, Collect, Launch
  <2> QED
    BY <1>2, <2>1, <2>2, <2>3, <2>4
<1>6. CASE Prepared
  <2>1. loop'.pc # "prepared" /\ Fewer /\ loop.key \in Keys
    BY <1>6 DEF Prepared, Goto, Types, TaskKnows
  <2>2. /\ Idler({loop.key})
        /\ call'[loop.key] = "running" => call[loop.key] = "running" \/ (loop.got # "no" /\ ~Raised)
    BY <1>6, <2>1 DEF Prepared, Types, Cancelled
  <2> QED
    BY <1>6, <2>1, <2>2 DEF GoalsUnleased, Holds, Prepared
<1>7. CASE Shutdown \/ OthersTake \/ OthersReturn \/ UNCHANGED vars
  BY <1>2, <1>7 DEF Shutdown, OthersTake, OthersReturn, vars
<1>8. ASSUME NEW k \in Keys, ProviderEnds(k) \/ Expire(k) PROVE GoalsUnleased'
  BY <1>2, <1>8 DEF ProviderEnds, Expire, Types
<1>9. ASSUME NEW a \in Actors, PlayerTurn(a) \/ PlayerFails(a) \/ PlayerDone(a) PROVE GoalsUnleased'
  <2>1. Fewer /\ loop' = loop
    BY <1>9 DEF PlayerTurn, PlayerFails, PlayerDone, Types
  <2>2. Idler({})
    BY <1>1, <1>9 DEF PlayerTurn, PlayerFails, PlayerDone, Preempt
  <2> QED
    BY <1>2, <2>1, <2>2
<1> QED
  BY <1>3, <1>4, <1>5, <1>6, <1>7, <1>8, <1>9 DEF Next, Owner, Task

------------------------------------------------------------------------------
\* A driver starts with every slot free.
LEMMA InitiallyBalanced == Init => IInv /\ GoalsUnleased
<1> SUFFICES ASSUME Init PROVE IInv /\ GoalsUnleased
  OBVIOUS
<1> USE KeysAssumption, LimitsAssumption DEF Init
<1>1. \A k \in Keys : progress[k] \in [stage : {"entry", "l2", "l3", "suggestion", "goal"},
                                      status : {"new", "pending", "ready"} \cup Terminal]
  BY DEF Resting
<1>2. progress \in [Keys -> [stage : {"entry", "l2", "l3", "suggestion", "goal"},
                            status : {"new", "pending", "ready"} \cup Terminal]]
  BY <1>1
<1>3. Types
  BY <1>2 DEF Types
<1>4. Used = {}
  BY DEF Used
<1>5. Balance
  BY <1>4, FS_EmptySet DEF Balance, Reserved
<1>6. GoalsUnleased
  BY HoldersAssumption DEF GoalsUnleased, Holds, At
<1> QED
  BY <1>3, <1>5, <1>6 DEF IInv, TaskKnows, SlotsKnown, At

\* The invariant is inductive.
LEMMA InvariantKept == IInv /\ GoalsUnleased /\ [Next]_vars => (IInv /\ GoalsUnleased)'
BY CommandKeeps, QuietSteps, TakingKeeps, AcceptedKeeps, CloseKeeps, PlayerKeeps, EndOfCallKeeps, GoalsStayUnleased
   DEF Next, Owner, Task

\* Every provider slot is free, reserved, lent, or stands for one key, and a running
\* call keeps its own, whatever was cancelled, preempted or closed meanwhile
\* (DialogueProviderSlots, dialogue_continuation.py 366-402).
THEOREM SlotsAreConserved == Spec => []PermitsConserved
<1>1. IInv => PermitsConserved
  BY DEF IInv, Balance, Reserved, SlotsKnown, PermitsConserved, Used
<1> QED
  BY InitiallyBalanced, InvariantKept, <1>1, PTL DEF Spec

\* A closed driver has no lease, no active key, and only slots of calls that still
\* run (close, cognition_driver.py 269-277).
THEOREM NothingHeldAfterClose == Spec => []ClosedHoldsNothing
<1>1. IInv => ClosedHoldsNothing
  BY DEF IInv, SlotsKnown, ClosedHoldsNothing, Used, Types
<1> QED
  BY InitiallyBalanced, InvariantKept, <1>1, PTL DEF Spec

\* An ended admission never changes again, although the answers of its calls may
\* still arrive (_accept, cognition_driver.py 169-237).
THEOREM EndedForGood == Spec => EndIsFinal
<1>1. IInv /\ [Next]_vars => [\A k \in Keys : Ended(k) => progress'[k] = progress[k]]_vars
  BY StepKeepsEnded DEF IInv, EndedStays
<1> QED
  BY InitiallyBalanced, InvariantKept, <1>1, PTL DEF Spec, EndIsFinal
=============================================================================
