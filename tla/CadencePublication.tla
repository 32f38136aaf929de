------------------------- MODULE CadencePublication -------------------------
(***************************************************************************)
(* RuntimeCadencePublisher of population_continuity/runtime_publication.py *)
(* with the store rows it writes, the authority event bus it publishes on, *)
(* the hot table of population_continuity/world.py and the two generations *)
(* of recovery checkpoints.                                                *)
(*                                                                         *)
(* A window is its end, counted in windows: window w covers the time from  *)
(* w-1 to w.  One call of the publisher is one command of the owner thread *)
(* and so is not interleaved with other commands; but any store call of it *)
(* may raise, before or after the effect is durable, a subscriber may      *)
(* raise, and the process may die between two steps.  "step" is where the  *)
(* call stands; the driver of PopulationCadence makes the calls.           *)
(*                                                                         *)
(* A call that raises and one that returns None are both "raised": the     *)
(* driver rejects the window in either case.                               *)
(***************************************************************************)
EXTENDS Naturals, Sequences, FiniteSets

CONSTANTS NSubscribers,     \* subscribers of population_cadence_event
          HistoryLimit,     \* events of that type the bus keeps: 2
          CheckpointEvery,  \* stream revisions per full checkpoint: 16
          DueWindows,       \* windows in which organization work may be due
          MaxFaults         \* failures, damages and crashes in a behaviour

ASSUME PublicationAssumption ==
    /\ NSubscribers \in Nat /\ MaxFaults \in Nat
    /\ HistoryLimit \in Nat \ {0} /\ CheckpointEvery \in Nat \ {0}

VARIABLES
    \* durable: the store
    log,            \* the cadence stream: [window, domain] by revision
    delivered,      \* windows whose public outbox row is delivered
    domainDone,     \* windows whose domain outbox row is delivered
    receipts,       \* windows with a receipt checkpoint
    slots,          \* the two full checkpoints: revision (0: none), damage
    \* lost with the process
    step,           \* where the call stands
    window,         \* the window it is about
    ready,          \* domain_ready
    confirmed,      \* confirmed_tick of the publisher
    hot,            \* the tick of the hot table, _confirmed_window_end
    history,        \* identities the bus remembers, oldest first
    stored,         \* every event the bus of this process stored, in order
    seen,           \* seen[s]: the windows subscriber s was ever given
    faults          \* faults so far

durable == <<log, delivered, domainDone, receipts, slots>>
bus == <<history, stored, seen>>
publisherVars ==
    <<durable, step, window, ready, confirmed, hot, bus, faults>>

Subscribers == 1 .. NSubscribers
Generations == {0, 1}

Admitted == {log[i].window : i \in DOMAIN log}
Revision(w) == CHOOSE i \in DOMAIN log : log[i].window = w
WithDomain == {log[i].window : i \in {j \in DOMAIN log : log[j].domain}}

UndeliveredPublic == Admitted \ delivered
OpenDomains == WithDomain \ domainDone
Earliest(S) == CHOOSE w \in S : \A v \in S : w <= v

PublisherTypeOK ==
    /\ log \in Seq([window : Nat, domain : BOOLEAN])
    /\ delivered \subseteq Nat /\ domainDone \subseteq Nat /\ receipts \subseteq Nat
    /\ slots \in [Generations -> [rev : Nat, damage : {"none", "malformed", "unreadable"}]]
    /\ step \in {"idle", "begin", "domains", "admit", "publish", "mark", "confirm",
                 "save", "after", "returned", "raised"}
    /\ window \in Nat /\ confirmed \in Nat /\ hot \in Nat /\ faults \in 0 .. MaxFaults
    /\ ready \in BOOLEAN
    /\ history \in Seq({"public", "domain"} \X Nat) /\ Len(history) <= HistoryLimit
    /\ stored \in Seq({"public", "domain"} \X Nat)
    /\ seen \in [Subscribers -> SUBSET Nat]

PublisherInit ==
    /\ log = <<>> /\ delivered = {} /\ domainDone = {} /\ receipts = {}
    /\ slots = [g \in Generations |-> [rev |-> 0, damage |-> "none"]]
    /\ step = "idle" /\ window = 0 /\ ready = FALSE /\ confirmed = 0 /\ hot = 0
    /\ history = <<>> /\ stored = <<>> /\ seen = [s \in Subscribers |-> {}]
    /\ faults = 0

------------------------------------------------------------------------------
Fault == faults < MaxFaults /\ faults' = faults + 1

(* A call of the store: it takes effect and the publisher goes on, or it    *)
(* raises with the effect made durable or not.                              *)
StoreCall(Effect, Nothing, next) ==
    \/ Effect /\ step' = next /\ UNCHANGED faults
    \/ (Effect \/ Nothing) /\ step' = "raised" /\ Fault

(* InMemoryAuthorityEventBus._publish: an identity that is remembered is     *)
(* compared with the stored event (equal, as records never change) and not   *)
(* stored again; the history of its type keeps the newest HistoryLimit.      *)
Post_EvictsEarly(id) ==    \* evicts as soon as the limit is reached
    IF \E i \in DOMAIN history : history[i] = id
    THEN UNCHANGED <<history, stored>>
    ELSE /\ history' = IF Len(history) + 1 >= HistoryLimit THEN <<id>> ELSE Append(history, id)
         /\ stored' = Append(stored, id)
Post_Unbounded(id) ==      \* the limit of the event type is not found
    /\ history' = Append(history, id)
    /\ stored' = Append(stored, id)
Post(id) ==
    IF \E i \in DOMAIN history : history[i] = id
    THEN UNCHANGED <<history, stored>>
    ELSE LET longer == Append(history, id)
             excess == IF Len(longer) > HistoryLimit THEN Len(longer) - HistoryLimit ELSE 0
         IN /\ history' = SubSeq(longer, excess + 1, Len(longer))
            /\ stored' = Append(stored, id)

(* The fan-out calls the subscribers in order and stops at one that raises. *)
FanOut(w, n) ==
    seen' = [s \in Subscribers |-> seen[s] \cup IF s <= n THEN {w} ELSE {}]

------------------------------------------------------------------------------
(* __call__: a window that is confirmed already is answered from its record, *)
(* a new one has to follow the confirmed tick.                               *)
Begin ==
    /\ step = "begin"
    /\ step' = IF window \in Admitted /\ window <= confirmed
               THEN IF window \in receipts THEN "returned" ELSE "raised"
               ELSE IF window \notin Admitted /\ window # confirmed + 1
               THEN "raised"
               ELSE "domains"
    /\ UNCHANGED <<durable, window, ready, confirmed, hot, bus, faults>>

(* What follows the first _dispatch_domains; its second call ends the call.  *)
AfterDomains ==
    IF step = "after" THEN "returned"
    ELSE IF window \notin Admitted THEN "admit"
    ELSE IF window \in delivered THEN "confirm" ELSE "publish"

(* _dispatch_domains with nothing open, or with a window not confirmed yet.  *)
NoDomainDue ==
    /\ step \in {"domains", "after"}
    /\ OpenDomains # {} => Earliest(OpenDomains) \notin receipts \cap (0 .. confirmed)
    /\ ready' = (OpenDomains = {} \/ AfterDomains = "confirm")
    /\ StoreCall(TRUE, TRUE, AfterDomains)
    /\ UNCHANGED <<durable, window, confirmed, hot, bus>>

(* The domain message is published and its owners' receipts are there, or    *)
(* the dispatcher counts it as failed and marks it retryable.  "ready" after *)
(* it: the branch of a delivered window calls _dispatch_domains again        *)
(* whatever this answered.                                                   *)
DispatchDomain ==
    /\ step \in {"domains", "after"}
    /\ OpenDomains # {}
    /\ LET w == Earliest(OpenDomains) IN
       /\ w \in receipts /\ w <= confirmed
       /\ Post(<<"domain", w>>)
       /\ \/ /\ ready' = TRUE
             /\ StoreCall(domainDone' = domainDone \cup {w}, UNCHANGED domainDone, AfterDomains)
          \/ /\ ready' = (AfterDomains = "confirm")
             /\ UNCHANGED domainDone
             /\ StoreCall(TRUE, TRUE, AfterDomains)
    /\ UNCHANGED <<log, delivered, receipts, slots, window, confirmed, hot, seen>>

Admit_WhileDomainOpen ==   \* domain_ready is not asked
    /\ step = "admit"
    /\ \E domain \in BOOLEAN :
          /\ domain => window \in DueWindows
          /\ StoreCall(log' = Append(log, [window |-> window, domain |-> domain]),
                       UNCHANGED log, "publish")
    /\ UNCHANGED <<delivered, domainDone, receipts, slots, window, ready, confirmed, hot, bus>>
(* The window's event with its public row and, when _prepare_domain has      *)
(* something due, its domain row: one transaction.                           *)
Admit ==
    /\ step = "admit"
    /\ \E domain \in BOOLEAN :
          /\ domain => ready /\ window \in DueWindows
          /\ StoreCall(log' = Append(log, [window |-> window, domain |-> domain]),
                       UNCHANGED log, "publish")
    /\ UNCHANGED <<delivered, domainDone, receipts, slots, window, ready, confirmed, hot, bus>>

AfterFanOut_Swallowed(n) == step' = "mark" /\ UNCHANGED faults
AfterFanOut(n) ==
    IF n = NSubscribers THEN step' = "mark" /\ UNCHANGED faults
                        ELSE step' = "raised" /\ Fault

(* dispatch_pending(topic, limit=1) takes the earliest public row that is    *)
(* not delivered; _hydrate refuses one that does not follow the confirmed    *)
(* tick; a subscriber that raises leaves the row retryable.                  *)
Publish ==
    /\ step = "publish"
    /\ LET w == Earliest(UndeliveredPublic) IN
       IF w # confirmed + 1
       THEN step' = "raised" /\ UNCHANGED <<bus, faults>>
       ELSE /\ Post(<<"public", w>>)
            /\ \E n \in 0 .. NSubscribers : FanOut(w, n) /\ AfterFanOut(n)
    /\ UNCHANGED <<durable, window, ready, confirmed, hot>>

MarkDelivered ==
    /\ step = "mark"
    /\ LET w == Earliest(UndeliveredPublic) IN
       StoreCall(delivered' = delivered \cup {w}, UNCHANGED delivered, "confirm")
    /\ UNCHANGED <<log, domainDone, receipts, slots, window, ready, confirmed, hot, bus>>

(* confirm_population_cadence: a window the hot table stands at is answered  *)
(* from its receipt, the next one advances every row.                        *)
ConfirmHot ==
    /\ step = "confirm"
    /\ IF window = hot \/ (window < hot /\ window \in receipts)
       THEN step' = "save" /\ UNCHANGED hot
       ELSE IF hot # 0 /\ window # hot + 1
       THEN step' = "raised" /\ UNCHANGED hot
       ELSE step' = "save" /\ hot' = window
    /\ UNCHANGED <<durable, window, ready, confirmed, bus, faults>>

(* The full checkpoints of revisions 16, 32, 48 ... go to alternating slots. *)
SlotsAfter(rev, s) ==
    IF rev % CheckpointEvery = 0
    THEN [s EXCEPT ![(rev \div CheckpointEvery) % 2] = [rev |-> rev, damage |-> "none"]]
    ELSE s

(* The end of _confirm: receipt and checkpoint in one transaction, and the   *)
(* confirmed tick.  A raise after the transaction (marking the refresh) is   *)
(* "durable and raised".                                                     *)
SaveReceipt ==
    /\ step = "save"
    /\ StoreCall(/\ receipts' = receipts \cup {window}
                 /\ slots' = SlotsAfter(Revision(window), slots),
                 UNCHANGED <<receipts, slots>>,
                 IF ready THEN "after" ELSE "returned")
    /\ confirmed' = IF step' = "raised" THEN confirmed ELSE window
    /\ UNCHANGED <<log, delivered, domainDone, window, ready, hot, bus>>

NoCall == step' = "idle" /\ window' = 0 /\ ready' = FALSE

PublisherStep ==
    \/ Begin \/ NoDomainDue \/ DispatchDomain \/ Admit \/ Publish
    \/ MarkDelivered \/ ConfirmHot \/ SaveReceipt

------------------------------------------------------------------------------
(* A new process: the publisher's constructor with _restore.                 *)

(* A generation is usable when its container is valid and its anchor holds:  *)
(* its window is in the stream, delivered, and has a receipt.  An invalid    *)
(* container is skipped ("malformed": the cause is a ValidationError), one   *)
(* that cannot be decompressed is not ("unreadable": _restore raises).       *)
Written == {g \in Generations : slots[g].rev > 0}
Anchored(rev) == rev \in DOMAIN log /\ log[rev].window \in delivered \cap receipts
Usable == {g \in Written : slots[g].damage = "none" /\ Anchored(slots[g].rev)}
Unreadable == {g \in Written : slots[g].damage = "unreadable"}
Damaged == Written \ Usable

(* The revision of the newest usable generation, 0 for none, and how much of *)
(* the stream may follow it.                                                 *)
RestoredRevision == IF Usable = {} THEN 0
                    ELSE CHOOSE r \in {slots[g].rev : g \in Usable} :
                            \A g \in Usable : slots[g].rev <= r
SuffixLimit_NoFallback == CheckpointEvery
SuffixLimit == IF Damaged = {} THEN CheckpointEvery ELSE 2 * CheckpointEvery
RestoredTick == IF RestoredRevision = 0 THEN 0 ELSE log[RestoredRevision].window
Suffix == SubSeq(log, RestoredRevision + 1, Len(log))
SuffixDelivered == {i \in DOMAIN Suffix : Suffix[i].window \in delivered}

(* Why _restore would raise.  That a row's outbox entry, its record and the  *)
(* domain message it names belong together is not in question here: nothing  *)
(* changes them after they were admitted.                                    *)
Refused ==
    \/ Unreadable # {}                                          \* read error
    \/ Usable = {} /\ Damaged # {}                              \* unavailable
    \/ Len(Suffix) > SuffixLimit                                \* rebuild_required
    \/ \E i \in DOMAIN Suffix : Suffix[i].window # RestoredTick + i \* history_gap
    \/ \E i \in DOMAIN Suffix, j \in SuffixDelivered :
          i < j /\ i \notin SuffixDelivered                   \* delivery_gap

(* _restore confirms the first n delivered windows of the tail again.        *)
SlotsReplayed(n) ==
    LET after[i \in 0 .. n] == IF i = 0 THEN slots
                               ELSE SlotsAfter(RestoredRevision + i, after[i - 1])
    IN after[n]
Replayed(n) ==
    /\ receipts' = receipts \cup {Suffix[i].window : i \in 1 .. n}
    /\ slots' = SlotsReplayed(n)
    /\ UNCHANGED <<log, delivered, domainDone>>

Volatile(tick) ==
    /\ confirmed' = tick /\ hot' = tick
    /\ NoCall
    /\ history' = <<>> /\ stored' = <<>>
    /\ UNCHANGED seen

RestorePublisher ==
    /\ ~Refused
    /\ Replayed(Cardinality(SuffixDelivered))
    /\ Volatile(RestoredTick + Cardinality(SuffixDelivered))
    /\ UNCHANGED faults

(* The process dies again, or the store raises, within _restore.             *)
RestoreDies ==
    /\ ~Refused
    /\ \E n \in 1 .. Cardinality(SuffixDelivered) : Replayed(n)
    /\ Volatile(0)
    /\ Fault

CrashPublisher ==
    /\ UNCHANGED durable
    /\ Volatile(0)
    /\ Fault

(* A container on disk is no valid checkpoint any more, or no longer JSON.   *)
DamageSlot ==
    /\ \E g \in {h \in Written : slots[h].damage = "none"}, how \in {"malformed", "unreadable"} :
          slots' = [slots EXCEPT ![g].damage = how]
    /\ UNCHANGED <<log, delivered, domainDone, receipts, step, window, ready, confirmed, hot, bus>>
    /\ Fault
=============================================================================
