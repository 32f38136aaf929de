-------------------------- MODULE CognitionDriver --------------------------
(***************************************************************************)
(* character_agent/services/cognition_driver.py: one asyncio task drives   *)
(* every background cognition.  It asks the owner thread to run each       *)
(* command (_keys, _prepare, _accept), holds one of the provider slots     *)
(* (services/dialogue_continuation.py) around a model call, and keeps a    *)
(* lease on the actor (character_agent/runtime/runtime_loop.py) while an   *)
(* admission is worked on.  A dialogue that needs the actor runs           *)
(* preempt_actor on the owner thread between any two commands.             *)
(*                                                                         *)
(* A command is one step here; what the task does with its answer is a     *)
(* step of its own, because the owner runs other commands in between.      *)
(* An admission's stages stay (progress[k]); their contents, and which     *)
(* pinned revision made a stage stale, are left out.                       *)
(***************************************************************************)
EXTENDS Naturals, FiniteSets

CONSTANTS Keys,      \* admissions, all durable before the driver reads them
          GoalKeys,  \* those of source_kind goal_proposal_trigger
          Actors, ActorOf,
          Slots,     \* DialogueProviderSlots: 4
          MaxLeases, \* begin_actor_activation: 4
          Retries,   \* len(_PROVIDER_RETRY_DELAYS): 3
          Free, Player,
          MaxOthers  \* bound: slots that dialogues and siming jobs ever take

ASSUME KeysAssumption == IsFiniteSet(Keys) /\ GoalKeys \subseteq Keys
ASSUME ActorsAssumption == IsFiniteSet(Actors) /\ ActorOf \in [Keys -> Actors]
ASSUME LimitsAssumption == Slots \in Nat \ {0} /\ MaxLeases \in Nat \ {0}
                      /\ Retries \in Nat /\ MaxOthers \in Nat
ASSUME HoldersAssumption == Free \notin Keys /\ Player \notin Keys /\ Free # Player

VARIABLES progress,  \* stage and status of CharacterCognitionProgress
          expired,   \* clock() >= entry.expires_at
          lease,     \* who holds each actor: _handles and _activation_handles
          attempts,  \* _provider_attempts
          active,    \* keys of _active
          call,      \* the provider call of each key
          slot,      \* the slot its call was submitted to: open, or closed while it still runs
          permits,   \* DialogueProviderSlots._slots
          others,    \* slots that the other users of the pool hold, and took so far
          loop,      \* the task: where it is, for which key, what it still iterates over
          stopping,  \* the task was cancelled
          failure    \* what ended the task: _character_cognition_failure

vars == <<progress, expired, lease, attempts, active, call, slot, permits, others, loop, stopping, failure>>
work == <<progress, lease, attempts>>
calls == <<active, call, slot, permits, others>>

Terminal == {"completed", "stale", "failed"}
TypeOK ==
    /\ progress \in [Keys -> [stage : {"entry", "l2", "l3", "suggestion", "goal"},
                              status : {"new", "pending", "ready"} \cup Terminal]]
    /\ expired \in [Keys -> BOOLEAN]
    /\ lease \in [Actors -> Keys \cup {Free, Player}]
    /\ attempts \in [Keys -> 0..Retries]
    /\ active \subseteq Keys
    /\ call \in [Keys -> {"none", "running", "returned", "raised"}]
    /\ slot \in [Keys -> {"none", "open", "closed"}]
    /\ permits \in 0..Slots
    /\ others \in [held : 0..Slots, taken : 0..MaxOthers]
    /\ loop \in [pc : {"idle", "collect", "accept", "accepted", "list", "launch",
                       "prepare", "prepared", "close", "closed"},
                 keys : SUBSET Keys, key : Keys \cup {Free},
                 got : {"none", "yes", "no", "raise"}]
    /\ stopping \in BOOLEAN
    /\ failure \in {"none", "command", "active_key_missing"}

-----------------------------------------------------------------------------
Ended(k) == progress[k].status \in Terminal
Pending(k) == progress[k].status = "pending"
Holds(k) == lease[ActorOf[k]] = k
Leased == {a \in Actors : lease[a] # Free}

\* begin_actor_activation: the deadline of an expired admission has passed already.
CanBegin(k) == ~expired[k] /\ lease[ActorOf[k]] = Free /\ Cardinality(Leased) < MaxLeases
HasLease(k) == Holds(k) \/ CanBegin(k)

Keep(k) == lease' = [lease EXCEPT ![ActorOf[k]] = k]
\* _release: the attempts are forgotten with or without a lease.
Release(k) ==
    /\ lease' = IF Holds(k) THEN [lease EXCEPT ![ActorOf[k]] = Free] ELSE lease
    /\ attempts' = [attempts EXCEPT ![k] = 0]
Become(k, status) == progress' = [progress EXCEPT ![k].status = status]
End(k, status) == Become(k, status) /\ Release(k)

\* Mutant: a cancelled call's slot counts as free while the call still runs.
CloseSlots_AtOnce(ks) ==
    LET open == {k \in ks : slot[k] = "open"}
    IN  /\ slot' = [k \in Keys |-> IF k \in open THEN "none" ELSE slot[k]]
        /\ call' = [k \in Keys |-> IF k \in open /\ call[k] # "running" THEN "none" ELSE call[k]]
        /\ permits' = permits + Cardinality(open)

\* close() of the slots of ks: the permit comes back when the call has ended.
CloseSlots(ks) ==
    LET open == {k \in ks : slot[k] = "open"}
        idle == {k \in open : call[k] # "running"}
    IN  /\ slot' = [k \in Keys |-> IF k \in idle THEN "none" ELSE IF k \in open THEN "closed" ELSE slot[k]]
        /\ call' = [k \in Keys |-> IF k \in idle THEN "none" ELSE call[k]]
        /\ permits' = permits + Cardinality(idle)

\* Durable progress may be anything a previous process left; "ready" stands for
\* result_ready and for the effects of it that are committed and not yet installed.
Resting(k) == IF k \in GoalKeys
              THEN {[stage |-> "entry", status |-> "new"], [stage |-> "goal", status |-> "pending"],
                    [stage |-> "goal", status |-> "ready"]}
              ELSE {[stage |-> "entry", status |-> "new"], [stage |-> "l2", status |-> "pending"],
                    [stage |-> "l3", status |-> "ready"]}
Init ==
    /\ progress \in [Keys -> UNION {Resting(k) : k \in Keys}]
    /\ \A k \in Keys : progress[k] \in Resting(k)
    /\ expired = [k \in Keys |-> FALSE]
    /\ lease = [a \in Actors |-> Free]
    /\ attempts = [k \in Keys |-> 0]
    /\ active = {}
    /\ call = [k \in Keys |-> "none"]
    /\ slot = [k \in Keys |-> "none"]
    /\ permits = Slots
    /\ others = [held |-> 0, taken |-> 0]
    /\ loop = [pc |-> "idle", keys |-> {}, key |-> Free, got |-> "none"]
    /\ stopping = FALSE
    /\ failure = "none"

-----------------------------------------------------------------------------
(* Commands on the owner thread.                                           *)

At(pc) == loop.pc = pc
Answer(got) == loop' = [loop EXCEPT !.pc = IF At("accept") THEN "accepted" ELSE "prepared", !.got = got]

\* The lease of a goal proposal expires while its command runs: the command raises
\* ValueError, and so does terminate_goal_proposal inside _stale.
ExpiresInside(k) ==
    /\ k \in GoalKeys /\ HasLease(k) /\ ~expired[k]
    /\ progress[k].stage = "goal"
    /\ expired' = [expired EXCEPT ![k] = TRUE]
    /\ Keep(k)
    /\ Answer("raise")
    /\ UNCHANGED <<progress, attempts>>

\* _accept: a late answer for an ended admission, or no lease to accept it with.
AcceptNothing(k) ==
    /\ Ended(k) \/ ~HasLease(k)
    /\ Answer(IF Ended(k) THEN "yes" ELSE "no")
    /\ UNCHANGED <<work, expired>>

\* Mutant: the answer is accepted without a look at how the admission stands.
AcceptOutput_Late(k) ==
    /\ HasLease(k) /\ ~expired[k] /\ call[k] = "returned"
    /\ End(k, "ready")
    /\ Answer("yes")
    /\ UNCHANGED expired

AcceptOutput(k) ==
    /\ ~Ended(k) /\ HasLease(k) /\ ~expired[k] /\ call[k] = "returned"
    /\ End(k, "ready")
    /\ Answer("yes")
    /\ UNCHANGED expired

\* A pin changed, the admission expired, the last retry failed, or a suggestion failed.
AcceptStale(k) ==
    /\ ~Ended(k) /\ HasLease(k)
    /\ k \in GoalKeys => call[k] = "returned"
    /\ End(k, "stale")
    /\ Answer("yes")
    /\ UNCHANGED expired

AcceptGoalError(k) ==
    /\ ~Ended(k) /\ HasLease(k) /\ k \in GoalKeys /\ call[k] = "raised"
    /\ End(k, "failed")
    /\ Answer("yes")
    /\ UNCHANGED expired

\* accept_provider_error freezes a fallback, and the lease is kept.
AcceptFallback(k) ==
    /\ ~Ended(k) /\ HasLease(k) /\ ~expired[k]
    /\ call[k] = "raised" /\ progress[k].stage \in {"l2", "l3"}
    /\ Become(k, "ready") /\ Keep(k)
    /\ Answer("yes")
    /\ UNCHANGED <<attempts, expired>>

\* Forced online: the frozen request stays pending and is sent again later.
AcceptRetry(k) ==
    /\ ~Ended(k) /\ HasLease(k) /\ ~expired[k]
    /\ call[k] = "raised" /\ progress[k].stage \in {"l2", "l3"}
    /\ attempts[k] < Retries
    /\ attempts' = [attempts EXCEPT ![k] = @ + 1]
    /\ Keep(k)
    /\ Answer("yes")
    /\ UNCHANGED <<progress, expired>>

Accept(k) ==
    /\ At("accept") /\ k = loop.key
    /\ \/ AcceptNothing(k)
       \/ AcceptOutput(k)
       \/ AcceptStale(k)
       \/ AcceptGoalError(k)
       \/ AcceptFallback(k)
       \/ AcceptRetry(k)
       \/ ~Ended(k) /\ ExpiresInside(k)
    /\ UNCHANGED <<calls, stopping, failure>>

-----------------------------------------------------------------------------
\* _prepare of an admission that ended since it was listed.
PrepareEnded(k) ==
    /\ Ended(k)
    /\ Release(k)
    /\ Answer("no")
    /\ UNCHANGED <<progress, expired>>

\* Mutant: the lease is asked for before the expiry is looked at.
PrepareExpired_NeedsLease(k) ==
    /\ ~Ended(k) /\ expired[k]
    /\ IF HasLease(k) THEN End(k, "stale") ELSE UNCHANGED work
    /\ Answer("no")
    /\ UNCHANGED expired

\* _stale needs a lease to end a goal proposal that has progress, and returns without.
PrepareExpired(k) ==
    /\ ~Ended(k) /\ expired[k]
    /\ IF progress[k].stage = "goal" /\ ~HasLease(k) THEN UNCHANGED work ELSE End(k, "stale")
    /\ Answer("no")
    /\ UNCHANGED expired

\* The actor is busy, or the retry delay has not passed.
PrepareLater(k) ==
    /\ ~Ended(k) /\ ~expired[k]
    /\ \/ ~HasLease(k) /\ UNCHANGED lease
       \/ HasLease(k) /\ Pending(k) /\ attempts[k] > 0 /\ Keep(k)
    /\ Answer("no")
    /\ UNCHANGED <<progress, attempts, expired>>

\* The source is validated before the lease is asked for; a goal's never changes.
PrepareStale(k) ==
    /\ ~Ended(k) /\ ~expired[k]
    /\ k \in GoalKeys => HasLease(k)
    /\ End(k, "stale")
    /\ Answer("no")
    /\ UNCHANGED expired

\* The provider stages that _prepare reaches without a further model call.
NextStages(k) ==
    LET p == progress[k]
    IN  CASE p.status = "pending" -> {p.stage}
          [] p.status = "new" -> IF k \in GoalKeys THEN {"goal"} ELSE {"l2"}
          [] p.status = "ready" /\ p.stage = "l2" -> {"l3"}
          [] p.status = "ready" /\ p.stage = "l3" -> {"suggestion"}
          [] OTHER -> {}

\* A goal proposal gives its lease back while its model call runs.
PrepareRequest(k) ==
    /\ ~Ended(k) /\ ~expired[k] /\ HasLease(k)
    /\ \E stage \in NextStages(k) :
          progress' = [progress EXCEPT ![k] = [stage |-> stage, status |-> "pending"]]
    /\ IF k \in GoalKeys THEN Release(k) ELSE Keep(k) /\ UNCHANGED attempts
    /\ Answer("yes")
    /\ UNCHANGED expired

\* on_completed may raise; the admission stays completed and its lease is kept.
PrepareCompletes(k) ==
    /\ ~expired[k] /\ HasLease(k)
    /\ \/ progress[k].status = "new" /\ k \notin GoalKeys
       \/ progress[k].status = "ready" /\ progress[k].stage # "l2"
    /\ \/ End(k, "completed") /\ Answer("no")
       \/ /\ k \notin GoalKeys
          /\ Become(k, "completed") /\ Keep(k) /\ Answer("raise") /\ UNCHANGED attempts
    /\ UNCHANGED expired

Prepare(k) ==
    /\ At("prepare") /\ k = loop.key
    /\ \/ PrepareEnded(k)
       \/ PrepareExpired(k)
       \/ PrepareLater(k)
       \/ PrepareStale(k)
       \/ PrepareRequest(k)
       \/ PrepareCompletes(k)
       \/ ~Ended(k) /\ ExpiresInside(k)
    /\ UNCHANGED <<calls, stopping, failure>>

\* _keys: leased admissions and the pending ones; fewer than a page of 32.
ListKeys ==
    /\ At("list")
    /\ loop' = [loop EXCEPT !.pc = "launch",
                            !.keys = {k \in Keys : Holds(k) \/ ~Ended(k)}]
    /\ UNCHANGED <<work, expired, calls, stopping, failure>>

\* Mutant: the entries are cleared before their slots are closed.
Close_ForgetsSlots ==
    /\ At("close")
    /\ lease' = [a \in Actors |-> IF lease[a] \in Keys THEN Free ELSE lease[a]]
    /\ attempts' = [k \in Keys |-> IF Holds(k) THEN 0 ELSE attempts[k]]
    /\ active' = {}
    /\ loop' = [loop EXCEPT !.pc = "closed"]
    /\ UNCHANGED <<progress, expired, call, slot, permits, others, stopping, failure>>

\* close: every lease is released, then every slot closed.
Close ==
    /\ At("close")
    /\ lease' = [a \in Actors |-> IF lease[a] \in Keys THEN Free ELSE lease[a]]
    /\ attempts' = [k \in Keys |-> IF Holds(k) THEN 0 ELSE attempts[k]]
    /\ CloseSlots(active)
    /\ active' = {}
    /\ loop' = [loop EXCEPT !.pc = "closed"]
    /\ UNCHANGED <<progress, expired, others, stopping, failure>>

\* terminate_goal_proposal refuses the lease of an expired goal proposal (ValueError).
Unendable(k) == k \in GoalKeys /\ progress[k].stage = "goal" /\ ~Ended(k) /\ expired[k]

\* preempt_actor closes the slot first, whatever becomes of the admission.
Preempt(ks) == CloseSlots(ks \cap active) /\ active' = active \ ks

\* _begin_dialogue_activation: preempt_actor and then the player's own lease.
PlayerTurn(a) ==
    LET mine == {k \in Keys : lease[a] = k}
    IN  /\ lease[a] # Player
        /\ ~ \E k \in mine : Unendable(k)
        /\ Preempt(mine)
        /\ progress' = [k \in Keys |-> IF k \in mine /\ ~Ended(k)
                                       THEN [progress[k] EXCEPT !.status = "stale"] ELSE progress[k]]
        /\ attempts' = [k \in Keys |-> IF k \in mine THEN 0 ELSE attempts[k]]
        /\ lease' = [lease EXCEPT ![a] = IF Cardinality(Leased \ {a}) < MaxLeases THEN Player ELSE Free]
        /\ UNCHANGED <<expired, others, loop, stopping, failure>>

\* The ValueError of _stale leaves preempt_actor: the lease stays, the player gets none.
PlayerFails(a) ==
    /\ \E k \in Keys : lease[a] = k /\ Unendable(k) /\ Preempt({k})
    /\ UNCHANGED <<work, expired, others, loop, stopping, failure>>

PlayerDone(a) ==
    /\ lease[a] = Player
    /\ lease' = [lease EXCEPT ![a] = Free]
    /\ UNCHANGED <<progress, attempts, expired, calls, loop, stopping, failure>>

-----------------------------------------------------------------------------
(* The task on the event loop.                                             *)

Goto(pc) == loop' = [loop EXCEPT !.pc = pc, !.key = Free, !.got = "none",
                                 !.keys = IF pc = "close" THEN {} ELSE @]
Raised == loop.got = "raise"
Cancelled == stopping \/ Raised

\* poll: the answers of the calls that were active when the poll began.
StartPoll ==
    /\ At("idle") /\ ~stopping
    /\ loop' = [loop EXCEPT !.pc = "collect", !.keys = active]
    /\ UNCHANGED <<work, expired, calls, stopping, failure>>

Collect(k) ==
    /\ At("collect") /\ k \in loop.keys
    /\ loop' = [loop EXCEPT !.keys = @ \ {k},
                            !.pc = IF call[k] = "running" THEN "collect" ELSE "accept",
                            !.key = IF call[k] = "running" THEN Free ELSE k]
    /\ UNCHANGED <<work, expired, calls, stopping, failure>>

\* slot.close() and _active.pop(key), which raises KeyError for a preempted key.
Accepted ==
    LET k == loop.key
    IN  /\ At("accepted")
        /\ IF Cancelled \/ loop.got = "yes" THEN CloseSlots({k}) ELSE UNCHANGED <<call, slot, permits>>
        /\ active' = IF ~Cancelled /\ loop.got = "yes" THEN active \ {k} ELSE active
        /\ failure' = CASE Raised -> "command"
                        [] ~Cancelled /\ loop.got = "yes" /\ k \notin active -> "active_key_missing"
                        [] OTHER -> failure
        /\ Goto(IF Cancelled \/ failure' # "none" THEN "close" ELSE "collect")
        /\ UNCHANGED <<work, expired, others, stopping>>

Collected ==
    /\ At("collect") /\ loop.keys = {}
    /\ Goto("list")
    /\ UNCHANGED <<work, expired, calls, stopping, failure>>

Launch(k) ==
    /\ At("launch") /\ k \in loop.keys
    /\ IF k \in active \/ permits = 0
       THEN /\ loop' = IF k \in active THEN [loop EXCEPT !.keys = @ \ {k}]
                                       ELSE [loop EXCEPT !.pc = "idle", !.keys = {}]
            /\ UNCHANGED permits
       ELSE /\ permits' = permits - 1
            /\ loop' = [loop EXCEPT !.keys = @ \ {k}, !.pc = "prepare", !.key = k]
    /\ UNCHANGED <<work, expired, active, call, slot, others, stopping, failure>>

\* The request is submitted whatever happened to the admission since _prepare.
Prepared ==
    LET k == loop.key
    IN  /\ At("prepared")
        /\ IF Cancelled \/ loop.got = "no"
           THEN permits' = permits + 1 /\ UNCHANGED <<active, call, slot>>
           ELSE /\ call' = [call EXCEPT ![k] = "running"]
                /\ slot' = [slot EXCEPT ![k] = "open"]
                /\ active' = active \cup {k}
                /\ UNCHANGED permits
        /\ failure' = IF Raised THEN "command" ELSE failure
        /\ Goto(IF Cancelled THEN "close" ELSE "launch")
        /\ UNCHANGED <<work, expired, others, stopping>>

Launched ==
    /\ At("launch") /\ loop.keys = {}
    /\ Goto("idle")
    /\ UNCHANGED <<work, expired, calls, stopping, failure>>

\* task.cancel() during the sleep or while _keys is awaited.
Interrupted ==
    /\ stopping /\ loop.pc \in {"idle", "list"}
    /\ loop' = [loop EXCEPT !.pc = "close", !.keys = {}]
    /\ UNCHANGED <<work, expired, calls, stopping, failure>>

-----------------------------------------------------------------------------
(* The environment.                                                        *)

Shutdown ==
    /\ ~stopping
    /\ stopping' = TRUE
    /\ UNCHANGED <<work, expired, calls, loop, failure>>

Expire(k) ==
    /\ ~expired[k]
    /\ expired' = [expired EXCEPT ![k] = TRUE]
    /\ UNCHANGED <<work, calls, loop, stopping, failure>>

\* The call ends; the done callback of a closed slot returns the permit.
ProviderEnds(k) ==
    /\ call[k] = "running"
    /\ IF slot[k] = "closed"
       THEN /\ call' = [call EXCEPT ![k] = "none"]
            /\ slot' = [slot EXCEPT ![k] = "none"]
            /\ permits' = permits + 1
       ELSE /\ \E how \in {"returned", "raised"} : call' = [call EXCEPT ![k] = how]
            /\ UNCHANGED <<slot, permits>>
    /\ UNCHANGED <<work, expired, active, others, loop, stopping, failure>>

\* Dialogues and siming jobs take slots from the same pool and return them.
OthersTake ==
    /\ permits > 0 /\ others.taken < MaxOthers
    /\ permits' = permits - 1
    /\ others' = [held |-> others.held + 1, taken |-> others.taken + 1]
    /\ UNCHANGED <<work, expired, active, call, slot, loop, stopping, failure>>

OthersReturn ==
    /\ others.held > 0
    /\ permits' = permits + 1
    /\ others' = [others EXCEPT !.held = @ - 1]
    /\ UNCHANGED <<work, expired, active, call, slot, loop, stopping, failure>>

Owner == ListKeys \/ Close \/ \E k \in Keys : Accept(k) \/ Prepare(k)
Task == StartPoll \/ Accepted \/ Collected \/ Prepared \/ Launched \/ Interrupted
        \/ \E k \in Keys : Collect(k) \/ Launch(k)
Next ==
    \/ Owner \/ Task \/ Shutdown \/ OthersTake \/ OthersReturn
    \/ \E k \in Keys : ProviderEnds(k) \/ Expire(k)
    \/ \E a \in Actors : PlayerTurn(a) \/ PlayerFails(a) \/ PlayerDone(a)

Spec == Init /\ [][Next]_vars

\* The owner runs commands, the event loop resumes the task, model calls end (their
\* HTTP clients have timeouts) and time passes.  Nobody has to speak to an actor.
FairSpec ==
    /\ Spec
    /\ WF_vars(Owner) /\ WF_vars(Task) /\ WF_vars(OthersReturn)
    /\ \A k \in Keys : WF_vars(ProviderEnds(k)) /\ WF_vars(Expire(k))

-----------------------------------------------------------------------------
(* What must hold.                                                         *)

Used == {k \in Keys : slot[k] # "none"}

\* A slot is free, held by the task or another user, or stands for one key, and a call that still runs keeps its slot
\* whatever was cancelled, preempted or closed meanwhile (comment of
\* DialogueProviderSlots, dialogue_continuation.py:369; close, 393-402).
PermitsConserved ==
    /\ permits + others.held + Cardinality(Used) + (IF loop.pc \in {"prepare", "prepared"} THEN 1 ELSE 0) = Slots
    /\ \A k \in Keys : call[k] = "running" => k \in Used

\* A closed driver keeps no lease, and no slot but those of calls still running,
\* whichever await the cancellation or the failure hit (close, 269-277).
ClosedHoldsNothing ==
    At("closed") => /\ \A k \in Keys : ~Holds(k)
                    /\ active = {}
                    /\ \A k \in Used : slot[k] = "closed" /\ call[k] = "running"

\* An ended admission never changes again: a call's answer that arrives after the
\* player preempted the actor writes nothing (_accept, 172-173; _stale, 78).
EndIsFinal == [][\A k \in Keys : Ended(k) => progress'[k] = progress[k]]_vars

\* The slots of finished calls that no poll gives back: their goal proposals expired
\* and hold no lease (finding CognitionGoal).
Stuck == {k \in GoalKeys : /\ slot[k] = "open" /\ call[k] # "running"
                           /\ expired[k] /\ ~Ended(k) /\ ~Holds(k)}

\* Every ordinary admission ends, by its result or by its expiry: no call, retry,
\* busy actor, preemption or cancelled slot holds one up for ever (poll, 228-267),
\* unless the task ended first, or stuck goal proposals have taken every slot.
OrdinaryEnds ==
    \A k \in Keys \ GoalKeys :
        <>(Ended(k) \/ failure # "none" \/ stopping \/ Cardinality(Stuck) = Slots)

\* What preempt_actor and its caller promise (cognition_driver.py:58-60, main.py:7272):
\* a handoff ends one admission by its normal stale and release path.
HandoffKeepsDriver == failure # "active_key_missing"

\* What the comment at cognition_driver.py:79-81 says of goal proposals: a later
\* poll observes their stale terminal.
GoalEnds == \A k \in GoalKeys : <>(Ended(k) \/ failure # "none" \/ stopping)
=============================================================================
