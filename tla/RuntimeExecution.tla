-------------------------- MODULE RuntimeExecution --------------------------
(***************************************************************************)
(* services/runtime_execution.py, class RuntimeExecution: one owner thread *)
(* runs every command that writes runtime state.  Other threads hand it    *)
(* commands through a bounded queue; a command holds one execution credit  *)
(* from its admission to the end of its Future.  Commands in Admitted come *)
(* over IPC (services/runtime_process.py): the parent process takes the    *)
(* credit and the child either transfers it with submit_admitted or gives  *)
(* it back.                                                                *)
(*                                                                         *)
(* _submit holds _lock while it checks _accepting, puts the command in the *)
(* queue and registers the callback that releases the credit; the owner    *)
(* takes commands out of the queue without that lock, so the three parts   *)
(* of the section are three steps here.  The lock is held exactly while    *)
(* some submission is "inside" or "queued".                                *)
(***************************************************************************)
EXTENDS Naturals, Sequences, FiniteSets

CONSTANTS Commands,   \* the commands of one run, each submitted at most once
          Admitted,   \* those whose credit the IPC parent acquires
          Capacity,   \* RuntimeExecutionCredit.capacity
          QueueMax,   \* Queue(maxsize=max_pending)
          Nobody      \* the owner executes no command

ASSUME CommandsAssumption == IsFiniteSet(Commands) /\ Admitted \subseteq Commands
ASSUME LimitsAssumption == Capacity \in Nat \ {0} /\ QueueMax \in Nat \ {0}
ASSUME NobodyAssumption == Nobody \notin Commands

VARIABLES accepting,  \* _accepting
          queue,      \* _queue, the commands in it
          credit,     \* permits left in the shared semaphore
          sub,        \* where the submission of each command stands
          fut,        \* state of each command's Future
          callback,   \* the Future's release callback: none, registered, run
          owner,      \* the owner thread's program counter
          task,       \* the command the owner executes
          failure,    \* _failure
          stopper     \* a thread that calls stop() from outside

vars == <<accepting, queue, credit, sub, fut, callback, owner, task, failure, stopper>>
submission == <<accepting, queue, credit, sub, callback>>
control == <<owner, task, failure, stopper>>

Failures == {"none", "error", "shutdown_timeout"}
Terminal == {"cancelled", "done", "error"}

TypeOK ==
    /\ accepting \in BOOLEAN
    /\ queue \in Seq(Commands)
    /\ credit \in 0..Capacity
    /\ sub \in [Commands -> {"new", "reserved", "inside", "queued", "returned", "refunding", "refused"}]
    /\ fut \in [Commands -> {"pending", "running"} \cup Terminal]
    /\ callback \in [Commands -> {"none", "registered", "run"}]
    /\ owner \in {"get", "empty", "took", "running", "nested", "failing", "notify",
                  "stats", "closing", "finalizing", "dead"}
    /\ task \in Commands \cup {Nobody}
    /\ failure \in Failures
    /\ stopper \in {"idle", "joining", "expired", "true", "false"}

LockFree == \A c \in Commands : sub[c] \notin {"inside", "queued"}
Accepted(c) == sub[c] \in {"queued", "returned"}
Finished(c) == fut[c] \in Terminal

\* c stands for one permit: acquired, and neither refunded nor released.
HoldsCredit(c) == \/ sub[c] \in {"reserved", "inside", "refunding"}
                  \/ Accepted(c) /\ callback[c] # "run"

Init ==
    /\ accepting = TRUE
    /\ queue = <<>>
    /\ credit = Capacity
    /\ sub = [c \in Commands |-> "new"]
    /\ fut = [c \in Commands |-> "pending"]
    /\ callback = [c \in Commands |-> "none"]
    /\ owner = "get"
    /\ task = Nobody
    /\ failure = "none"
    /\ stopper = "idle"

-----------------------------------------------------------------------------
(* Submission *)

Move(c, from, to) == sub[c] = from /\ sub' = [sub EXCEPT ![c] = to]

\* enqueue_runtime in the parent: acquire(False), then the command goes to the
\* child; without a permit it answers runtime_queue_full.
Reserve(c) ==
    /\ c \in Admitted
    /\ \/ credit > 0 /\ Move(c, "new", "reserved") /\ credit' = credit - 1
       \/ credit = 0 /\ Move(c, "new", "refused") /\ UNCHANGED credit
    /\ UNCHANGED <<accepting, queue, fut, callback, control>>

\* The permit goes back to the semaphore when the IPC queue refuses the command,
\* when the child is stopping, has lost the connection or finds the request
\* invalid, and when submit_admitted raised.
Refund(c) ==
    /\ Move(c, "reserved", "refused") \/ Move(c, "refunding", "refused")
    /\ credit' = credit + 1
    /\ UNCHANGED <<accepting, queue, fut, callback, control>>

\* submit enters the locked section: RuntimeStopped, RuntimeQueueFull for want of
\* a permit, or a permit taken.
EnterSubmit(c) ==
    /\ c \notin Admitted
    /\ LockFree
    /\ \/ accepting /\ credit > 0 /\ Move(c, "new", "inside") /\ credit' = credit - 1
       \/ ~(accepting /\ credit > 0) /\ Move(c, "new", "refused") /\ UNCHANGED credit
    /\ UNCHANGED <<accepting, queue, fut, callback, control>>

\* submit_admitted enters it with the permit it was given; RuntimeStopped leaves
\* the permit with the caller.
EnterAdmitted(c) ==
    /\ c \in Admitted
    /\ LockFree
    /\ Move(c, "reserved", IF accepting THEN "inside" ELSE "refunding")
    /\ UNCHANGED <<accepting, queue, credit, fut, callback, control>>

\* Mutants of Put: on Full every permit is released, or none, or the queue drops
\* its oldest command.
Put_ReleasesTransferred(c) ==
    /\ IF Len(queue) < QueueMax
       THEN Move(c, "inside", "queued") /\ queue' = Append(queue, c) /\ UNCHANGED credit
       ELSE /\ Move(c, "inside", IF c \in Admitted THEN "refunding" ELSE "refused")
            /\ UNCHANGED queue /\ credit' = credit + 1
    /\ UNCHANGED <<accepting, fut, callback, control>>
Put_KeepsPermit(c) ==
    /\ IF Len(queue) < QueueMax
       THEN Move(c, "inside", "queued") /\ queue' = Append(queue, c)
       ELSE Move(c, "inside", IF c \in Admitted THEN "refunding" ELSE "refused") /\ UNCHANGED queue
    /\ UNCHANGED <<accepting, credit, fut, callback, control>>
Put_DropsOldest(c) ==
    /\ Move(c, "inside", "queued")
    /\ queue' = Append(IF Len(queue) < QueueMax THEN queue ELSE Tail(queue), c)
    /\ UNCHANGED <<accepting, credit, fut, callback, control>>

\* put_nowait; on Full a permit taken here is released, a transferred one is not.
Put(c) ==
    /\ \/ /\ Len(queue) < QueueMax
          /\ Move(c, "inside", "queued")
          /\ queue' = Append(queue, c)
          /\ UNCHANGED credit
       \/ /\ Len(queue) = QueueMax
          /\ UNCHANGED queue
          /\ \/ c \in Admitted /\ Move(c, "inside", "refunding") /\ UNCHANGED credit
             \/ c \notin Admitted /\ Move(c, "inside", "refused") /\ credit' = credit + 1
    /\ UNCHANGED <<accepting, fut, callback, control>>

\* add_done_callback runs the callback at once when the Future has already ended.
Register(c) ==
    /\ Move(c, "queued", "returned")
    /\ callback' = [callback EXCEPT ![c] = IF Finished(c) THEN "run" ELSE "registered"]
    /\ credit' = IF Finished(c) THEN credit + 1 ELSE credit
    /\ UNCHANGED <<accepting, queue, fut, control>>

\* The caller cancels the Future it was given; the queue keeps the command.
Cancel(c) ==
    /\ sub[c] = "returned" /\ fut[c] = "pending"
    /\ fut' = [fut EXCEPT ![c] = "cancelled"]
    /\ UNCHANGED <<submission, control>>

RunCallback(c) ==
    /\ callback[c] = "registered" /\ Finished(c)
    /\ callback' = [callback EXCEPT ![c] = "run"]
    /\ credit' = credit + 1

\* cancel() invokes the callbacks in the cancelling thread.
NotifyCancelled(c) ==
    /\ fut[c] = "cancelled"
    /\ RunCallback(c)
    /\ UNCHANGED <<accepting, queue, sub, fut, control>>

-----------------------------------------------------------------------------
(* The owner thread *)

OwnerAt(from, to) == owner = from /\ owner' = to

\* Mutant: get() without a timeout.
Get_Waits ==
    /\ queue # <<>> /\ OwnerAt("get", "took")
    /\ task' = Head(queue) /\ queue' = Tail(queue)
    /\ UNCHANGED <<accepting, credit, sub, fut, callback, failure, stopper>>

\* _queue.get(timeout=0.05)
Get ==
    /\ \/ /\ queue # <<>> /\ OwnerAt("get", "took")
          /\ task' = Head(queue) /\ queue' = Tail(queue)
       \/ /\ queue = <<>> /\ OwnerAt("get", "empty")
          /\ UNCHANGED <<task, queue>>
    /\ UNCHANGED <<accepting, credit, sub, fut, callback, failure, stopper>>

\* Mutant: the queue is not looked at again after Empty.
CheckEmpty_NotAgain ==
    /\ LockFree
    /\ OwnerAt("empty", IF accepting THEN "get" ELSE "closing")
    /\ UNCHANGED <<submission, fut, task, failure, stopper>>

\* After Empty the owner leaves the loop only if, under the lock, the runtime is
\* stopping and nothing arrived since.
CheckEmpty ==
    /\ LockFree
    /\ OwnerAt("empty", IF ~accepting /\ queue = <<>> THEN "closing" ELSE "get")
    /\ UNCHANGED <<submission, fut, task, failure, stopper>>

\* set_running_or_notify_cancel: a cancelled command is skipped.
StartTask ==
    /\ \/ /\ OwnerAt("took", "running") /\ fut[task] = "pending"
          /\ fut' = [fut EXCEPT ![task] = "running"]
          /\ UNCHANGED task
       \/ /\ OwnerAt("took", "get") /\ fut[task] = "cancelled"
          /\ task' = Nobody /\ UNCHANGED fut
    /\ UNCHANGED <<submission, failure, stopper>>

\* A command that submits another one from the owner thread runs it inline, even
\* while the runtime is stopping: it needs the lock, no permit and no room.
EnterNested ==
    /\ LockFree
    /\ OwnerAt("running", "nested")
    /\ UNCHANGED <<submission, fut, task, failure, stopper>>

\* The inline command ends; an exception is recorded in _failure and kept in its
\* Future.
LeaveNested ==
    /\ LockFree
    /\ OwnerAt("nested", "running")
    /\ failure' \in {failure, "error"}
    /\ UNCHANGED <<submission, fut, task, stopper>>

TaskReturns ==
    /\ OwnerAt("running", "notify")
    /\ fut' = [fut EXCEPT ![task] = "done"]
    /\ UNCHANGED <<submission, task, failure, stopper>>

TaskRaises ==
    /\ LockFree
    /\ OwnerAt("running", "failing")
    /\ failure' = "error"
    /\ UNCHANGED <<submission, fut, task, stopper>>

SetException ==
    /\ OwnerAt("failing", "notify")
    /\ fut' = [fut EXCEPT ![task] = "error"]
    /\ UNCHANGED <<submission, task, failure, stopper>>

\* set_result and set_exception invoke the callbacks registered so far.
Notify ==
    /\ OwnerAt("notify", "stats")
    /\ \/ RunCallback(task)
       \/ callback[task] # "registered" /\ UNCHANGED <<callback, credit>>
    /\ UNCHANGED <<accepting, queue, sub, fut, task, failure, stopper>>

\* The statistics, under the lock, and task_done.
Statistics ==
    /\ LockFree
    /\ OwnerAt("stats", "get")
    /\ task' = Nobody
    /\ UNCHANGED <<submission, fut, failure, stopper>>

\* _run's finally: on_stop runs on the owner and completes the Future `closed`.
StartFinalizer ==
    /\ OwnerAt("closing", "finalizing")
    /\ UNCHANGED <<submission, fut, task, failure, stopper>>

Finalize ==
    /\ LockFree
    /\ OwnerAt("finalizing", "dead")
    /\ failure' \in {failure, "error"}
    /\ UNCHANGED <<submission, fut, task, stopper>>

-----------------------------------------------------------------------------
(* stop() *)

\* A command that calls stop() on the owner thread cannot join itself: the thread
\* is alive, so the call answers False and reports a timeout.
StopFromOwner ==
    /\ LockFree
    /\ owner \in {"running", "nested"}
    /\ accepting' = FALSE
    /\ failure' = "shutdown_timeout"
    /\ UNCHANGED <<queue, credit, sub, fut, callback, owner, task, stopper>>

StopCall ==
    /\ LockFree
    /\ stopper \in {"idle", "false"}
    /\ stopper' = "joining"
    /\ accepting' = FALSE
    /\ UNCHANGED <<queue, credit, sub, fut, callback, owner, task, failure>>

JoinReturns ==
    /\ stopper = "joining" /\ owner = "dead"
    /\ stopper' = "true"
    /\ UNCHANGED <<submission, fut, owner, task, failure>>

\* join(timeout) gives up; is_alive() then decides the answer.
JoinExpires ==
    /\ stopper = "joining" /\ owner # "dead"
    /\ stopper' = "expired"
    /\ UNCHANGED <<submission, fut, owner, task, failure>>

\* Mutant: the answer does not depend on the thread having ended.
StopAnswers_True ==
    /\ stopper = "expired" /\ stopper' = "true"
    /\ UNCHANGED <<submission, fut, owner, task, failure>>

StopAnswers ==
    /\ stopper = "expired"
    /\ \/ owner = "dead" /\ stopper' = "true" /\ UNCHANGED failure
       \/ /\ owner # "dead" /\ LockFree
          /\ stopper' = "false" /\ failure' = "shutdown_timeout"
    /\ UNCHANGED <<submission, fut, owner, task>>

-----------------------------------------------------------------------------
Child(c) == Refund(c) \/ EnterAdmitted(c)
Locked(c) == Put(c) \/ Register(c)
Submitter(c) == Reserve(c) \/ Child(c) \/ EnterSubmit(c) \/ Locked(c) \/ Cancel(c) \/ NotifyCancelled(c)

OwnerStep == \/ Get \/ CheckEmpty \/ StartTask \/ TaskReturns \/ TaskRaises \/ SetException
             \/ LeaveNested \/ Notify \/ Statistics \/ StartFinalizer \/ Finalize

Stop == StopFromOwner \/ StopCall \/ JoinReturns \/ JoinExpires \/ StopAnswers

\* Every thread has come to its end.
Ended == /\ owner = "dead" /\ stopper = "true"
         /\ \A c \in Commands : sub[c] = "refused" \/ callback[c] = "run"

Next == \/ \E c \in Commands : Submitter(c)
        \/ OwnerStep
        \/ EnterNested
        \/ Stop
        \/ Ended /\ UNCHANGED vars

Spec == Init /\ [][Next]_vars

\* The owner thread runs and its commands end: a command may nest again and again
\* but then each nested call ends, and in the end the command does.  A thread
\* inside the locked section, a cancelling thread and the child's receive loop
\* keep running.  Nobody has to submit, cancel or stop.
Fairness == /\ WF_vars(OwnerStep)
            /\ SF_vars(TaskReturns \/ TaskRaises)
            /\ \A c \in Commands : /\ WF_vars(Locked(c))
                                   /\ WF_vars(NotifyCancelled(c))
                                   /\ WF_vars(Child(c))

FairSpec == Spec /\ Fairness

-----------------------------------------------------------------------------
(* Properties *)

\* Every permit is in the semaphore or stands for one command: no path through
\* refusal, full queue, cancellation or completion releases a permit twice or
\* never (_submit 102-123, the done callback, and the refunds of runtime_process).
CreditConservation ==
    credit + Cardinality({c \in Commands : HoldsCredit(c)}) = Capacity

\* A command that was put in the queue and has not ended is in the queue or in the
\* owner's hands, so no interleaving of _submit and _drain loses one.
NoCommandLost ==
    \A c \in Commands : Accepted(c) /\ ~Finished(c) =>
        task = c \/ \E i \in 1..Len(queue) : queue[i] = c

\* When the owner leaves its loop to close the resources, nothing can enter the
\* queue any more and every accepted command has ended: _drain's check under the
\* lock leaves no window for a late put.
ClosesDrained ==
    owner \in {"closing", "finalizing", "dead"} =>
        /\ ~accepting /\ queue = <<>> /\ task = Nobody
        /\ \A c \in Commands : sub[c] # "inside" /\ (Accepted(c) => Finished(c))

\* stop() answers True only once the resources are closed, also when join gave up
\* just before the owner ended; after that no Future changes its state.
StopTrueIsFinal ==
    [][stopper = "true" => owner = "dead" /\ UNCHANGED <<fut, accepting>>]_vars

\* An accepted command ends, whatever it nests and whoever cancels it.
AcceptedEnds == \A c \in Commands : Accepted(c) ~> Finished(c)

\* Once stop() was called, on whatever thread and with whatever timeout, the owner
\* drains the queue and runs the finalizer.
StopCloses == ~accepting ~> owner = "dead"
=============================================================================
