-------------------------- MODULE PopulationCadence --------------------------
(***************************************************************************)
(* PopulationCadenceDriver.run_forever of world_runtime/population_driver  *)
(* .py over the publisher of CadencePublication: an asyncio task whose      *)
(* commands run on the owner thread, between them the world is paused and  *)
(* resumed by other commands and time passes.  An exception ends the task; *)
(* start_population_runtime of main.py may start it again over the same    *)
(* publisher, a new process restores a publisher from the store.           *)
(*                                                                         *)
(* The simulated clock counts windows, "now" is the monotonic clock.  The  *)
(* profiles with a wall period (wall) run the windows that are due; the    *)
(* production profile runs one window ahead and sleeps a period.           *)
(***************************************************************************)
EXTENDS CadencePublication

CONSTANTS CatchUpLimit,     \* windows per iteration
          Period,           \* wall time per window
          MaxTime,          \* bound of "now"
          MaxWindows,       \* bound of the windows run
          MaxModeChanges    \* bound of pauses and resumes

ASSUME CadenceAssumption ==
    /\ CatchUpLimit \in Nat /\ Period \in Nat \ {0}
    /\ MaxTime \in Nat /\ MaxWindows \in Nat /\ MaxModeChanges \in Nat

VARIABLES
    wall,       \* wall_period_seconds is set
    now,        \* monotonic()
    paused,     \* the last event of the world stream is a pause
    modeRev,    \* head of the world stream
    loop,       \* where run_forever stands
    clock,      \* the driver's clock, in windows
    began,      \* iteration_started
    origin,     \* origin_tick
    started,    \* started_at
    seenRev,    \* mode_revision
    wasPaused,  \* was_paused
    target,     \* target of this iteration
    left,       \* windows this iteration may still run
    wake,       \* end of the sleep
    base,       \* the clock when the task started
    active      \* time since then while the world was not paused

driverVars == <<wall, now, paused, modeRev, loop, clock, began, origin,
                started, seenRev, wasPaused, target, left, wake, base, active>>
world == <<wall, now, paused, modeRev>>
plan == <<began, origin, started, seenRev, wasPaused, target, left, wake, base>>

(* The locals of run_forever are gone when it ends.                          *)
Gone ==
    /\ began' = 0 /\ origin' = 0 /\ started' = 0 /\ seenRev' = 0 /\ wasPaused' = FALSE
    /\ target' = 0 /\ left' = 0 /\ wake' = 0 /\ base' = 0 /\ active' = 0
vars == <<publisherVars, driverVars>>

TypeOK ==
    /\ PublisherTypeOK
    /\ wall \in BOOLEAN /\ paused \in BOOLEAN /\ wasPaused \in BOOLEAN
    /\ loop \in {"start", "observe", "retry", "window", "called", "notify", "rest",
                 "sleep", "failed", "down", "refused"}
    /\ now \in 0 .. MaxTime /\ modeRev \in 1 .. MaxModeChanges + 1
    /\ {clock, began, origin, started, seenRev, target, wake, base, active} \subseteq Nat
    /\ left \in 0 .. CatchUpLimit

Init ==
    /\ PublisherInit
    /\ wall \in BOOLEAN
    /\ now = 0 /\ paused = FALSE /\ modeRev = 1
    /\ loop = "start" /\ clock = 0
    /\ began = 0 /\ origin = 0 /\ started = 0 /\ seenRev = 0 /\ wasPaused = FALSE
    /\ target = 0 /\ left = 0 /\ wake = 0 /\ base = 0 /\ active = 0

------------------------------------------------------------------------------
(* Only the production profile reads iteration_started.                      *)
IterationStart == IF wall THEN 0 ELSE now

(* The first command of run_forever.                                         *)
Start ==
    /\ loop = "start"
    /\ origin' = clock /\ started' = now /\ seenRev' = modeRev /\ wasPaused' = FALSE
    /\ began' = IterationStart /\ loop' = "observe"
    /\ base' = clock /\ active' = 0
    /\ UNCHANGED <<publisherVars, wall, now, paused, modeRev, clock, target, left, wake>>

(* Pauses and resumes since the last look: paused wall time is not caught up. *)
ModeMoved_Polled == paused \/ wasPaused
ModeMoved == paused \/ wasPaused \/ modeRev # seenRev

(* The command that observes the world and fixes what this iteration runs.  *)
Observe ==
    /\ loop = "observe"
    /\ LET observed == IF wall THEN now ELSE began
           since == IF ModeMoved THEN observed ELSE started
           from == IF ModeMoved THEN clock ELSE origin
           due == from + (observed - since) \div Period
           current == IF due > clock THEN due ELSE clock
       IN /\ started' = since /\ origin' = from
          /\ target' = IF wall THEN current ELSE current + 1
    /\ wasPaused' = paused /\ seenRev' = modeRev /\ left' = CatchUpLimit
    /\ loop' = IF paused THEN "rest"
               ELSE IF target' < clock + 1 \/ CatchUpLimit = 0 THEN "retry" ELSE "window"
    /\ UNCHANGED <<publisherVars, world, clock, began, wake, base, active>>

(* tick(current_tick): no window; the consumers of confirmed time are called *)
(* again unless the world was paused meanwhile, and may raise.               *)
Retry ==
    /\ loop = "retry"
    /\ \/ loop' = "window" /\ UNCHANGED <<faults, plan, active>>
       \/ loop' = "failed" /\ ~paused /\ Fault /\ Gone
    /\ UNCHANGED <<durable, step, window, ready, confirmed, hot, bus, world, clock>>

(* A window command that finds the world stream moved drops the target.      *)
DropTarget ==
    /\ loop = "window" /\ left > 0 /\ modeRev # seenRev
    /\ started' = now /\ origin' = clock /\ seenRev' = modeRev
    /\ loop' = "rest"
    /\ UNCHANGED <<publisherVars, world, clock, began, wasPaused, target, left, wake, base, active>>

NothingDue ==
    /\ loop = "window"
    /\ left = 0 \/ (modeRev = seenRev /\ (paused \/ clock + 1 > target))
       \/ clock = MaxWindows
    /\ loop' = "rest"
    /\ UNCHANGED <<publisherVars, world, clock, plan, active>>

CallPublisher ==
    /\ loop = "window" /\ left > 0 /\ modeRev = seenRev /\ ~paused /\ clock + 1 <= target
    /\ clock < MaxWindows
    /\ loop' = "called" /\ step' = "begin" /\ window' = clock + 1
    /\ UNCHANGED <<durable, ready, confirmed, hot, bus, faults, world, clock, plan, active>>

Publishing ==
    /\ loop = "called" /\ PublisherStep
    /\ UNCHANGED driverVars

(* The publisher answered with the event: the clock follows.                 *)
Advance ==
    /\ loop = "called" /\ step = "returned"
    /\ clock' = window /\ loop' = "notify"
    /\ NoCall
    /\ UNCHANGED <<durable, confirmed, hot, bus, faults, world, plan, active>>

(* on_confirmed_time, still in the command of the window.                    *)
Notify ==
    /\ loop = "notify"
    /\ \/ /\ loop' = "window" /\ left' = left - 1
          /\ UNCHANGED <<faults, began, origin, started, seenRev, wasPaused, target, wake,
                         base, active>>
       \/ loop' = "failed" /\ Fault /\ Gone
    /\ UNCHANGED <<durable, step, window, ready, confirmed, hot, bus, world, clock>>

(* A rejected window: population_window_failed ends the task.                *)
Reject ==
    /\ loop = "called" /\ step = "raised"
    /\ loop' = "failed"
    /\ NoCall /\ Gone
    /\ UNCHANGED <<durable, confirmed, hot, bus, faults, world, clock>>

(* The end of an iteration: how long to sleep.                               *)
Rest ==
    /\ loop = "rest"
    /\ LET next == IF wasPaused \/ CatchUpLimit = 0
                   THEN (now - started) \div Period + 1
                   ELSE (clock - origin) + 1
           until == IF wall THEN started + next * Period ELSE began + Period
       IN wake' = IF until > now THEN until ELSE now
    /\ target' = 0 /\ left' = 0
    /\ loop' = "sleep"
    /\ UNCHANGED <<publisherVars, world, clock, began, origin, started, seenRev,
                   wasPaused, base, active>>

Wake ==
    /\ loop = "sleep" /\ now >= wake
    /\ began' = IterationStart /\ wake' = 0 /\ loop' = "observe"
    /\ UNCHANGED <<publisherVars, world, clock, origin, started, seenRev,
                   wasPaused, target, left, base, active>>

(* start_population_runtime after a failure, over the same driver.           *)
StartAgain ==
    /\ loop = "failed"
    /\ loop' = "start"
    /\ UNCHANGED <<publisherVars, world, clock, plan, active>>

------------------------------------------------------------------------------
BetweenCommands == loop \notin {"called", "notify"}

(* WorldContinuityRuntime.pause and resume, which do not ask for the mode.   *)
SetMode ==
    /\ BetweenCommands /\ loop \notin {"down", "refused"}
    /\ modeRev <= MaxModeChanges
    /\ modeRev' = modeRev + 1 /\ paused' \in BOOLEAN
    /\ UNCHANGED <<publisherVars, wall, now, active, loop, clock, plan>>

(* Only a command reads the clock, so time that passes within one may as     *)
(* well pass after it.                                                       *)
TimePasses ==
    /\ BetweenCommands /\ now < MaxTime
    /\ now' = now + 1
    /\ active' = IF paused \/ loop \in {"start", "failed", "down", "refused"} THEN active ELSE active + 1
    /\ UNCHANGED <<publisherVars, wall, paused, modeRev, loop, clock, plan>>

Crash ==
    /\ loop \notin {"down", "refused"}
    /\ CrashPublisher
    /\ loop' = "down" /\ clock' = 0
    /\ Gone
    /\ UNCHANGED world

Damage ==
    /\ loop = "down" /\ DamageSlot
    /\ UNCHANGED driverVars

Restore ==
    /\ loop = "down" /\ RestorePublisher
    /\ clock' = confirmed' /\ loop' = "start"
    /\ UNCHANGED <<world, plan, active>>

RestoreFails ==
    /\ loop = "down" /\ RestoreDies
    /\ UNCHANGED driverVars

RestoreRefuses ==
    /\ loop = "down" /\ Refused
    /\ loop' = "refused"
    /\ UNCHANGED <<publisherVars, world, clock, plan, active>>

Next ==
    \/ Start \/ Observe \/ Retry \/ DropTarget \/ NothingDue \/ CallPublisher \/ Publishing
    \/ Advance \/ Notify \/ Reject \/ Rest \/ Wake \/ StartAgain
    \/ SetMode \/ TimePasses
    \/ Crash \/ Damage \/ Restore \/ RestoreFails \/ RestoreRefuses

Spec == Init /\ [][Next]_vars

------------------------------------------------------------------------------
(* A start is refused only when a container cannot be read or no generation  *)
(* of the checkpoint is usable: one usable generation is recent enough for   *)
(* the tail that may follow it, and the tail has no gap, although the newest *)
(* may be damaged and a start before this one may have died while it rewrote *)
(* the generations (_restore, runtime_publication.py 271-332).               *)
OneGenerationSuffices ==
    loop = "down" /\ Unreadable = {} /\ (Usable # {} \/ Damaged = {}) => ~Refused

(* Paused wall time is not counted in the catch-up budget (the comment at    *)
(* population_driver.py 321): with a wall period the task has never run more *)
(* windows than periods of unpaused time since it was started, also when a   *)
(* pause and a resume fall between two windows of one catch-up.              *)
CatchUpOnlyForActiveTime ==
    wall /\ loop \notin {"start", "failed", "down", "refused"} => (clock - base) * Period <= active

(* Every subscriber saw every delivered window, over all processes, and none *)
(* ever saw a window before all earlier ones.                                *)
SeenInOrder ==
    \A s \in Subscribers :
        /\ delivered \subseteq seen[s]
        /\ \A w \in seen[s] : \A v \in 1 .. (w - 1) : v \in seen[s]

(* A bus never stores one public window twice: until a window is delivered   *)
(* its identity is not evicted by the events of its type that come between   *)
(* (the limit of 2 at main.py 2069).                                         *)
StoredOncePerBus ==
    \A i, j \in DOMAIN stored :
        i < j /\ stored[i][1] = "public" => stored[i] # stored[j]

(* What the store holds of the windows is the ledger of CadenceLedger.       *)
Ledger == INSTANCE CadenceLedger WITH admitted <- Admitted, done <- delivered,
                                      confirmed <- receipts, open <- OpenDomains
ImplementsCadenceLedger == Ledger!Spec
=============================================================================
