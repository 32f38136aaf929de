----------------------------- MODULE OutboxDispatch -----------------------------
(***************************************************************************)
(* Passes of GameplayOutboxDispatcher (gameplay/dispatcher.py) over the    *)
(* outbox of the event store: list a page of undelivered entries, publish  *)
(* each on the authority bus, mark it delivered or retryable, then call    *)
(* the projection refresh of every transaction whose entries are all       *)
(* delivered and mark it done.  Publishing runs the subscribers, which may *)
(* raise, commit further transactions, or start a pass of their own before *)
(* the outer one goes on; the process may crash between any two steps.     *)
(*                                                                         *)
(* The outbox entries are numbered in the order (global_sequence,          *)
(* outbox_id); transactions are numbered in commit order.  The store is    *)
(* seen through what its calls do in one committed step each, see          *)
(* DurableEventStore.                                                      *)
(***************************************************************************)
EXTENDS Naturals, Sequences, FiniteSets, FiniteSetsExt

CONSTANTS NumTxs,        \* transactions that will ever commit: 1..NumTxs
          Entries,       \* outbox entries, as their place in the outbox order
          TxOf,          \* entry -> transaction
          TopicOf,       \* entry -> topic
          Compact,       \* entries of projection_kind "population-runtime"
          Hinted,        \* transactions with projection_refresh_hints
          Poison,        \* entries whose publication always raises
          Dispatchers,   \* [topic, limit, transform, refresh]
          AnyTopic, NoLimit,
          PageSize,      \* 128 in the code
          MaxDepth,      \* bound: passes nested in the publications of others
          MaxFaults      \* bound: crashes, and failures that are not Poison's

Txs == 1..NumTxs

ASSUME OutboxAssumption ==
    /\ NumTxs \in Nat /\ Entries \subseteq Nat \ {0} /\ IsFiniteSet(Entries) /\ PageSize \in Nat \ {0}
    /\ MaxDepth \in Nat \ {0} /\ MaxFaults \in Nat
    /\ \A d \in Dispatchers : d.limit = NoLimit \/ d.limit \in Nat
    /\ TxOf \in [Entries -> Txs]
    /\ \A e, f \in Entries : e < f => TxOf[e] <= TxOf[f]
    /\ Compact \subseteq Entries /\ Poison \subseteq Entries /\ Hinted \subseteq Txs

VARIABLES committed,   \* transactions 1..committed are in the store
          state,       \* delivery_state of each entry
          refresh,     \* refresh_state of each transaction
          stack,       \* the passes in progress, innermost last
          sent,        \* entries some publication of which succeeded
          refreshed,   \* transactions whose refresh callback succeeded
          faults       \* how many things have gone wrong

vars == <<committed, state, refresh, stack, sent, refreshed, faults>>

EntriesOf(t) == {e \in Entries : TxOf[e] = t}
Delivered(t) == \A e \in EntriesOf(t) : state[e] = "delivered"

(* One call of dispatch_pending: which dispatcher, the high water, the      *)
(* cursor, the rest of the page read last, what may still be attempted, the *)
(* entries (published or failed) and the transactions attempted, and where  *)
(* it is.  The cursor and the page hold entries while the pass delivers and *)
(* transactions while it refreshes.                                         *)
Frame(d) == [by |-> d, high |-> committed, cursor |-> 0, page |-> <<>>, left |-> d.limit,
             tried |-> {}, asked |-> {}, at |-> "deliver"]

Top == stack[Len(stack)]
Running(at) == stack # <<>> /\ Top.at = at
Become(frame) == stack' = [stack EXCEPT ![Len(stack)] = frame]
Fault == faults < MaxFaults /\ faults' = faults + 1
Pop == stack' = SubSeq(stack, 1, Len(stack) - 1)

Spend(n) == IF n = NoLimit THEN NoLimit ELSE n - 1
Attempted(f) == [f EXCEPT !.at = "deliver", !.left = Spend(@), !.tried = @ \cup {f.cursor}]
Room(f) == IF f.left = NoLimit THEN PageSize ELSE Min({PageSize, f.left})

(* The n smallest members of S, in order.                                   *)
First(S, n) == LET keep == {e \in S : Cardinality({g \in S : g <= e}) <= n}
               IN  [i \in 1..Cardinality(keep) |->
                       CHOOSE e \in keep : Cardinality({g \in keep : g <= e}) = i]

\* Mutant: delivered entries are listed too.
ListOutbox_All(f) ==
    First({e \in Entries : /\ TxOf[e] <= committed /\ TxOf[e] <= f.high /\ e > f.cursor
                           /\ f.by.topic \in {AnyTopic, TopicOf[e]}}, Room(f))

(* list_outbox(include_delivered=False, topic, after_cursor,                *)
(* through_sequence, limit)                                                 *)
ListOutbox(f) ==
    First({e \in Entries : /\ TxOf[e] <= committed /\ TxOf[e] <= f.high /\ e > f.cursor
                           /\ state[e] # "delivered"
                           /\ f.by.topic \in {AnyTopic, TopicOf[e]}}, Room(f))

\* Mutant: transactions without entries are not listed.
ListReady_OnlyWithEntries(f) ==
    First({t \in Txs : /\ t <= committed /\ t <= f.high /\ t > f.cursor
                       /\ refresh[t] = "pending" /\ EntriesOf(t) # {} /\ Delivered(t)}, Room(f))

(* list_pending_projection_refresh(after_sequence, through_sequence, limit) *)
ListReady(f) ==
    First({t \in Txs : /\ t <= committed /\ t <= f.high /\ t > f.cursor
                       /\ refresh[t] = "pending" /\ Delivered(t)}, Room(f))

------------------------------------------------------------------------------
Init == /\ committed = 0
        /\ state = [e \in Entries |-> "absent"] /\ refresh = [t \in Txs |-> "absent"]
        /\ stack = <<>> /\ sent = {} /\ refreshed = {} /\ faults = 0

\* Mutant: only hints make a transaction wait for its refresh.
CommitTransaction_HintsOnly ==
    /\ committed < NumTxs
    /\ committed' = committed + 1
    /\ state' = [e \in Entries |-> IF TxOf[e] = committed' THEN "pending" ELSE state[e]]
    /\ refresh' = [refresh EXCEPT ![committed'] = IF committed' \in Hinted THEN "pending" ELSE "none"]
    /\ UNCHANGED <<stack, sent, refreshed, faults>>

(* append_batch commits the next transaction with its outbox rows, from a   *)
(* subscriber, a refresh callback or another thread: at any moment.         *)
CommitTransaction ==
    /\ committed < NumTxs
    /\ LET t == committed + 1 IN
       /\ committed' = t
       /\ state' = [e \in Entries |-> IF TxOf[e] = t THEN "pending" ELSE state[e]]
       /\ refresh' = [refresh EXCEPT ![t] = IF t \in Hinted \/ EntriesOf(t) # {} THEN "pending" ELSE "none"]
    /\ UNCHANGED <<stack, sent, refreshed, faults>>

(* dispatch_pending is called: by the runtime, or by a subscriber or        *)
(* callback of the pass that is running.                                    *)
StartPass(d) ==
    /\ stack # <<>> => Len(stack) < MaxDepth /\ Top.at \in {"publishing", "refreshing"}
    /\ stack' = Append(stack, Frame(d))
    /\ UNCHANGED <<committed, state, refresh, sent, refreshed, faults>>

(* A page is read when the last one is used up; none left, or the limit     *)
(* spent, ends the deliveries.                                              *)
ReadPage ==
    /\ Running("deliver") /\ Top.page = <<>>
    /\ LET page == IF Top.left = 0 THEN <<>> ELSE ListOutbox(Top) IN
       Become(IF page # <<>> THEN [Top EXCEPT !.page = page]
              ELSE [Top EXCEPT !.at = "refresh", !.cursor = 0, !.left = Top.by.limit])
    /\ UNCHANGED <<committed, state, refresh, sent, refreshed, faults>>

(* The next entry of the page: the cursor moves first, and a compact record *)
(* is left to the dispatcher that can expand it.                            *)
TakeEntry ==
    /\ Running("deliver") /\ Top.page # <<>>
    /\ LET e == Head(Top.page)
           next == [Top EXCEPT !.cursor = e, !.page = Tail(@)]
       IN  Become(IF e \in Compact /\ ~Top.by.transform THEN next ELSE [next EXCEPT !.at = "publishing"])
    /\ UNCHANGED <<committed, state, refresh, sent, refreshed, faults>>

(* The publisher and the validator return: the entry is published.          *)
Publish ==
    /\ Running("publishing") /\ Top.cursor \notin Poison
    /\ sent' = sent \cup {Top.cursor}
    /\ Become([Top EXCEPT !.at = "published"])
    /\ UNCHANGED <<committed, state, refresh, refreshed, faults>>

\* Mutants of PublishFails: the entry is marked delivered, the pass ends with the
\* failure, or the entry is tried again in the same pass.
PublishFails_Delivered ==
    /\ Running("publishing") /\ Fault
    /\ state' = [state EXCEPT ![Top.cursor] = "delivered"]
    /\ Become(Attempted(Top))
    /\ UNCHANGED <<committed, refresh, sent, refreshed>>
PublishFails_EndsPass ==
    /\ Running("publishing") /\ Top.cursor \in Poison
    /\ state' = [state EXCEPT ![Top.cursor] = "retryable"]
    /\ Pop
    /\ UNCHANGED <<committed, refresh, sent, refreshed, faults>>
PublishFails_TriesAgain ==
    /\ Running("publishing") /\ Top.cursor \in Poison
    /\ state' = [state EXCEPT ![Top.cursor] = "retryable"]
    /\ Become([Top EXCEPT !.at = "deliver", !.cursor = 0, !.page = <<>>])
    /\ UNCHANGED <<committed, refresh, sent, refreshed, faults>>

(* The transform, a subscriber or the validator raises: mark_outbox_        *)
(* retryable, and the page goes on.                                         *)
PublishFails ==
    /\ Running("publishing")
    /\ IF Top.cursor \in Poison THEN UNCHANGED faults ELSE Fault
    /\ state' = [state EXCEPT ![Top.cursor] = "retryable"]
    /\ Become(Attempted(Top))
    /\ UNCHANGED <<committed, refresh, sent, refreshed>>

MarkDelivered ==
    /\ Running("published")
    /\ state' = [state EXCEPT ![Top.cursor] = "delivered"]
    /\ Become(Attempted(Top))
    /\ UNCHANGED <<committed, refresh, sent, refreshed, faults>>

(* A read of the store or the mark of an entry raises, out of the whole     *)
(* pass, and the mark may be durable nevertheless (a COMMIT that raised);   *)
(* an enclosing publication may swallow it or fail in turn.                 *)
StoreFails ==
    /\ stack # <<>> /\ Top.at # "refreshing"
    /\ Fault
    /\ \/ UNCHANGED state
       \/ Top.at = "publishing" /\ state' = [state EXCEPT ![Top.cursor] = "retryable"]
       \/ Top.at = "published" /\ state' = [state EXCEPT ![Top.cursor] = "delivered"]
    /\ Pop
    /\ UNCHANGED <<committed, refresh, sent, refreshed>>

(* _refresh_pending, for a dispatcher that has a callback: the next page of *)
(* ready transactions, or the pass returns.                                 *)
ReadReadyPage ==
    /\ Running("refresh") /\ Top.page = <<>>
    /\ LET page == IF Top.left = 0 \/ ~Top.by.refresh THEN <<>> ELSE ListReady(Top) IN
       IF page = <<>> THEN Pop ELSE Become([Top EXCEPT !.page = page])
    /\ UNCHANGED <<committed, state, refresh, sent, refreshed, faults>>

TakeTransaction ==
    /\ Running("refresh") /\ Top.page # <<>>
    /\ Become([Top EXCEPT !.at = "refreshing", !.cursor = Head(Top.page), !.page = Tail(@), !.left = Spend(@),
                         !.asked = @ \cup {Head(Top.page)}])
    /\ UNCHANGED <<committed, state, refresh, sent, refreshed, faults>>

(* The callback returned; mark_projection_refreshed looks at the entries    *)
(* again.                                                                   *)
MarkRefreshed ==
    /\ refreshed' = refreshed \cup {Top.cursor}
    /\ refresh' = IF refresh[Top.cursor] = "pending" /\ Delivered(Top.cursor)
                  THEN [refresh EXCEPT ![Top.cursor] = "done"] ELSE refresh

(* after_transaction_dispatched and the mark return.                        *)
Refresh ==
    /\ Running("refreshing")
    /\ MarkRefreshed
    /\ Become([Top EXCEPT !.at = "refresh"])
    /\ UNCHANGED <<committed, state, sent, faults>>

(* The callback or the mark raises, and the mark may be durable             *)
(* nevertheless: swallowed, to be retried by a later pass.                  *)
RefreshFails ==
    /\ Running("refreshing") /\ Fault
    /\ \/ refreshed' \in {refreshed, refreshed \cup {Top.cursor}} /\ UNCHANGED refresh
       \/ MarkRefreshed
    /\ Become([Top EXCEPT !.at = "refresh"])
    /\ UNCHANGED <<committed, state, sent>>

(* The process dies and restarts on the durable store.                      *)
Crash ==
    /\ stack # <<>> /\ Fault
    /\ stack' = <<>>
    /\ UNCHANGED <<committed, state, refresh, sent, refreshed>>

Step == ReadPage \/ TakeEntry \/ Publish \/ PublishFails \/ MarkDelivered \/ StoreFails
        \/ ReadReadyPage \/ TakeTransaction \/ Refresh \/ RefreshFails

Next == CommitTransaction \/ (\E d \in Dispatchers : StartPass(d)) \/ Step \/ Crash

Spec == Init /\ [][Next]_vars

(* A pass that is running goes on, being ordinary sequential code.  Nothing *)
(* says that a pass is ever asked for: the code has no timer for it.        *)
FairSpec == Spec /\ WF_vars(Step)

------------------------------------------------------------------------------
TypeOK ==
    /\ committed \in 0..NumTxs /\ faults \in 0..MaxFaults
    /\ state \in [Entries -> {"absent", "pending", "retryable", "delivered"}]
    /\ refresh \in [Txs -> {"absent", "none", "pending", "done"}]
    /\ sent \subseteq Entries /\ refreshed \subseteq Txs
    /\ Len(stack) <= MaxDepth
    /\ \A i \in DOMAIN stack :
          /\ stack[i].by \in Dispatchers /\ stack[i].high \in 0..committed
          /\ stack[i].at \in {"deliver", "publishing", "published", "refresh", "refreshing"}
          /\ stack[i].left = NoLimit \/ stack[i].left \in Nat
          /\ stack[i].tried \subseteq Entries /\ stack[i].asked \subseteq Txs
          /\ stack[i].at \in {"publishing", "published"} => stack[i].cursor \in Entries
          /\ stack[i].at = "refreshing" => stack[i].cursor \in Txs

(* A refresh marked done came after everything it depends on: the callback  *)
(* ran, and every entry of the transaction had been published.  With crashes *)
(* and with passes nested in publications.                                  *)
DoneWasPublishedAndRefreshed ==
    \A t \in Txs : refresh[t] = "done" => t \in refreshed /\ EntriesOf(t) \subseteq sent

(* The state from_snapshot and audit insist on (event_store.py:785): an     *)
(* entry that is not delivered belongs to a transaction whose refresh is    *)
(* still pending.  Needs that no subscriber starts a pass of its own.       *)
UndeliveredMeansRefreshPending ==
    \A e \in Entries : state[e] \in {"pending", "retryable"} => refresh[TxOf[e]] = "pending"

(* A fact already marked delivered is not published again, although pages   *)
(* are read ahead.  Needs that no subscriber starts a pass of its own.      *)
DeliveredNotPublishedAgain ==
    \A i \in DOMAIN stack : stack[i].at = "publishing" => state[stack[i].cursor] # "delivered"

(* A pass returns, though every publication in it may fail and commits go   *)
(* on while it runs: the cursor and the high water bound it.  (A pass that     *)
(* subscribers keep nesting others into is theirs to end.)                  *)
PassReturns == stack # <<>> ~> stack = <<>>

(* The pass ends its deliveries, or the whole of it, without an exception   *)
(* of the store or a crash.                                                 *)
Delivering == Top.at \in {"deliver", "publishing", "published"}
EndsDeliveries == /\ stack # <<>> /\ Delivering /\ faults' = faults
                  /\ stack' = <<>> \/ ~Delivering'
Returns == stack # <<>> /\ stack' = <<>> /\ faults' = faults
SpentOn(f, attempts) == f.by.limit # NoLimit /\ Cardinality(attempts) = f.by.limit

(* A pass leaves no entry untried: when it ends its deliveries, each entry  *)
(* of its topic that was committed before it started is delivered, or its   *)
(* publication failed in this very pass, or it is a compact record of the   *)
(* other dispatcher, or the limit was spent; also behind an entry that      *)
(* always fails, across pages, skipped records and commits in the meantime. *)
EveryEntryTried ==
    [][EndsDeliveries =>
          \/ SpentOn(Top, Top.tried)
          \/ \A e \in Entries :
                TxOf[e] <= Top.high /\ Top.by.topic \in {AnyTopic, TopicOf[e]}
                /\ (e \in Compact => Top.by.transform)
                => state'[e] = "delivered" \/ e \in Top.tried]_vars

(* Nor a refresh that is due: when a pass with a callback returns, every    *)
(* transaction committed before it started whose entries are all delivered  *)
(* and which waits for its refresh was asked for in this pass, and failed,  *)
(* or the limit was spent; also what earlier passes, failures or crashes    *)
(* left behind, and what asks for a refresh without an entry.               *)
EveryRefreshAsked ==
    [][Returns /\ Top.by.refresh =>
          \/ SpentOn(Top, Top.asked)
          \/ \A t \in 1..Top.high : refresh'[t] = "pending" /\ Delivered(t)' => t \in Top.asked]_vars
=============================================================================
