--------------------------- MODULE DurableEventStore ---------------------------
(***************************************************************************)
(* The durable gameplay event store: DurableGameplayEventStore of          *)
(* gameplay/event_store.py with the preparation it shares with the         *)
(* in-memory store.  Several writers (threads of the runtime process) call *)
(* append_batch, alone or inside one group_commit scope, over one SQLite   *)
(* database.  The store's RLock together with BEGIN IMMEDIATE makes one    *)
(* writer at a time the owner of the open transaction; a crash, a failing  *)
(* statement or a failing COMMIT may come between any two steps, and a     *)
(* writer that was told "retriable", or that never got an answer, may send *)
(* its command again with the revisions it sees then.                      *)
(*                                                                         *)
(* "tables" is the committed database; "work" is the database as the open  *)
(* transaction sees it, equal to "tables" when no transaction is open.     *)
(***************************************************************************)
EXTENDS Naturals, Sequences, FiniteSets

CONSTANTS Writers,      \* contexts that call the store
          NoWriter,     \* the lock is free
          Streams,      \* stream_id values
          Commands      \* what writers ask for, see IsCommand

(* One AtomicEventBatch without its revision vectors: identity, idempotency *)
(* record, the events in order, the outbox entries, the streams whose       *)
(* revision the caller expects or only reads, and refresh hints yes or no.  *)
IsCommand(c) ==
    /\ DOMAIN c = {"tx", "key", "digest", "events", "outbox", "expects", "reads", "hints"}
    /\ c.expects \subseteq Streams /\ c.reads \subseteq Streams
    /\ c.hints \in BOOLEAN
    /\ c.events \in Seq([id : {c.events[i].id : i \in DOMAIN c.events}, stream : Streams])
    /\ c.events # <<>>
    /\ \A o \in c.outbox : \E i \in DOMAIN c.events : c.events[i].id = o.event

ASSUME CommandsAssumption == \A c \in Commands : IsCommand(c)
ASSUME NoWriterAssumption == NoWriter \notin Writers

VARIABLES tables,       \* committed database
          work,         \* database inside the open transaction
          owner,        \* writer that holds the lock and the transaction
          group,        \* _group_connection is set: a group_commit scope is open
          groupFailed,  \* _group_failed
          writeReady,   \* _write_ready
          pc,           \* "idle", "called" or "written" (rows in, COMMIT due)
          req,          \* the batch each writer is appending
          view,         \* heads each writer read some time ago
          answers,      \* what append_batch answered inside the open group
          acked         \* answers callers may rely on: committed, group closed

vars == <<tables, work, owner, group, groupFailed, writeReady, pc, req, view, answers, acked>>

------------------------------------------------------------------------------
(* _prepare_append: the checks, in terms of the batch b and the tables t.   *)

Written(c) == {c.events[i].stream : i \in DOMAIN c.events}

KeyRows(c, t) == {x \in t.transactions : x.cmd.key = c.key}

(* The same key with the same digest: answered from the stored result.      *)
IsReplay(b, t) == \E x \in KeyRows(b.cmd, t) : x.cmd.digest = b.cmd.digest

\* Mutants of RevisionsHold: the read set, or the expected revisions, unchecked.
RevisionsHold_NoReads(b, t) == \A s \in DOMAIN b.expected : t.heads[s] = b.expected[s]
RevisionsHold_NoExpected(b, t) == \A s \in DOMAIN b.reads : t.heads[s] = b.reads[s]

RevisionsHold(b, t) ==
    /\ \A s \in DOMAIN b.reads \cap DOMAIN b.expected : b.reads[s] = b.expected[s]
    /\ \A s \in DOMAIN b.expected : t.heads[s] = b.expected[s]
    /\ \A s \in DOMAIN b.reads : t.heads[s] = b.reads[s]

EventIds(c) == {c.events[i].id : i \in DOMAIN c.events}

\* Mutant: a transaction identity may come back under another key.
IdentitiesFresh_NoTransaction(c, t) == \A e \in t.events : e.id \notin EventIds(c)

IdentitiesFresh(c, t) ==
    /\ \A x \in t.transactions : x.cmd.tx # c.tx
    /\ Cardinality(EventIds(c)) = Len(c.events)
    /\ \A e \in t.events : e.id \notin EventIds(c)
    /\ \A o, p \in c.outbox : o.id = p.id => o = p
    /\ \A o \in t.outbox : o.id \notin {p.id : p \in c.outbox}

Admissible(b, t) ==
    /\ KeyRows(b.cmd, t) = {}
    /\ Written(b.cmd) \subseteq DOMAIN b.expected
    /\ RevisionsHold(b, t)
    /\ IdentitiesFresh(b.cmd, t)

------------------------------------------------------------------------------
(* The rows a batch becomes.                                                *)

\* Mutant: every event of a batch gets the next revision of its stream.
CountUpTo_Next(c, s, i) == 1
CountUpTo(c, s, i) == Cardinality({j \in 1..i : c.events[j].stream = s})

\* Mutant: revisions count from zero.
EventRows_FromZero(b, t) ==
    {[id |-> b.cmd.events[i].id, tx |-> b.cmd.tx, seq |-> t.last + i,
      stream |-> b.cmd.events[i].stream, rev |-> t.heads[b.cmd.events[i].stream] + i - 1] :
        i \in DOMAIN b.cmd.events}

EventRows(b, t) ==
    {[id |-> b.cmd.events[i].id, tx |-> b.cmd.tx, seq |-> t.last + i,
      stream |-> b.cmd.events[i].stream,
      rev |-> t.heads[b.cmd.events[i].stream] + CountUpTo(b.cmd, b.cmd.events[i].stream, i)] :
        i \in DOMAIN b.cmd.events}

ResultOf(b, t) ==
    [first |-> t.last + 1, last |-> t.last + Len(b.cmd.events),
     revisions |-> [s \in Written(b.cmd) |-> t.heads[s] + CountUpTo(b.cmd, s, Len(b.cmd.events))]]

TransactionRow(b, t) ==
    [cmd |-> b.cmd, expected |-> b.expected, reads |-> b.reads, result |-> ResultOf(b, t),
     refresh |-> IF b.cmd.outbox # {} \/ b.cmd.hints THEN "pending" ELSE "none"]

OutboxRows(b) == {[id |-> o.id, tx |-> b.cmd.tx, event |-> o.event, state |-> "pending"] : o \in b.cmd.outbox}

(* The rows a batch has in the tables when _write_delta inserted these       *)
(* events, the heads of these streams and these outbox rows.                *)
Inserted(b, t, events, streams, entries) ==
    [t EXCEPT !.transactions = @ \cup {TransactionRow(b, t)},
              !.events = @ \cup events,
              !.heads = [s \in Streams |-> IF s \in streams THEN ResultOf(b, t).revisions[s] ELSE t.heads[s]],
              !.outbox = @ \cup entries]

WriteDelta(b, t) ==
    [Inserted(b, t, EventRows(b, t), Written(b.cmd), OutboxRows(b)) EXCEPT !.last = ResultOf(b, t).last]

(* A statement after the first fails: what ran before it stays in the open  *)
(* transaction, and so does what an executemany inserted before its row.    *)
TearDelta(b) ==
    \E n \in 0..Len(b.cmd.events), streams \in SUBSET Written(b.cmd), entries \in SUBSET OutboxRows(b) :
        /\ streams # {} => n = Len(b.cmd.events)
        /\ entries # {} => streams = Written(b.cmd)
        /\ work' = Inserted(b, work, {e \in EventRows(b, work) : e.seq <= work.last + n}, streams, entries)

------------------------------------------------------------------------------
(* The lock: free, or already held by the writer's own group scope.         *)
Owns(w) == owner = NoWriter \/ (owner = w /\ group)

Finish(w) == pc' = [pc EXCEPT ![w] = "idle"] /\ req' = [req EXCEPT ![w] = <<>>]

(* What an append answers: "committed" carries the stored result.  Inside a  *)
(* group it is a promise until the scope closes.                            *)
Answer(c, status, result) == [key |-> c.key, digest |-> c.digest, status |-> status, result |-> result]

\* Mutant: an answer given inside a group counts at once.
Tell_AtOnce(a) == acked' = acked \cup {a} /\ UNCHANGED answers

Tell(a) == IF group THEN answers' = answers \cup {a} /\ UNCHANGED acked
                    ELSE acked' = acked \cup {a} /\ UNCHANGED answers

EmptyTables == [transactions |-> {}, events |-> {}, outbox |-> {}, heads |-> [s \in Streams |-> 0], last |-> 0]

Init == /\ tables = EmptyTables /\ work = tables
        /\ owner = NoWriter /\ group = FALSE /\ groupFailed = FALSE
        /\ writeReady \in BOOLEAN
        /\ pc = [w \in Writers |-> "idle"] /\ req = [w \in Writers |-> <<>>]
        /\ view = [w \in Writers |-> [s \in Streams |-> 0]]
        /\ answers = {} /\ acked = {}

(* get_stream_heads: what the writer will later cite as its read set.       *)
ReadHeads(w) ==
    /\ pc[w] = "idle" /\ Owns(w) /\ view[w] # work.heads
    /\ view' = [view EXCEPT ![w] = work.heads]
    /\ UNCHANGED <<tables, work, owner, group, groupFailed, writeReady, pc, req, answers, acked>>

(* The caller builds the batch: expected revisions read now, the read set   *)
(* from its earlier view.  Any command may be sent again at any time.       *)
CallAppend(w, c) ==
    /\ pc[w] = "idle" /\ Owns(w)
    /\ req' = [req EXCEPT ![w] = [cmd |-> c,
                                  expected |-> [s \in c.expects |-> work.heads[s]],
                                  reads |-> [s \in c.reads |-> view[w][s]]]]
    /\ pc' = [pc EXCEPT ![w] = "called"]
    /\ UNCHANGED <<tables, work, owner, group, groupFailed, writeReady, view, answers, acked>>

(* projection_not_ready, key reuse, missing or stale revision, an identity  *)
(* already used: a final answer and no write.                               *)
Reject(w) ==
    /\ pc[w] = "called" /\ Owns(w)
    /\ ~writeReady \/ (~IsReplay(req[w], work) /\ ~Admissible(req[w], work))
    /\ Finish(w)
    /\ UNCHANGED <<tables, work, owner, group, groupFailed, writeReady, view, answers, acked>>

(* duplicate_replayed: the stored result, no write.                         *)
Replay(w) ==
    /\ pc[w] = "called" /\ Owns(w) /\ writeReady
    /\ \E x \in KeyRows(req[w].cmd, work) :
          /\ x.cmd.digest = req[w].cmd.digest
          /\ Tell(Answer(req[w].cmd, "committed", x.result))
    /\ Finish(w)
    /\ UNCHANGED <<tables, work, owner, group, groupFailed, writeReady, view>>

(* The rows go into the open transaction.  In a group that is all and the   *)
(* caller is told "committed"; alone, COMMIT is due.                        *)
WriteRows(w) ==
    /\ pc[w] = "called" /\ Owns(w) /\ writeReady
    /\ Admissible(req[w], work)
    /\ work' = WriteDelta(req[w], work)
    /\ IF group
       THEN /\ Tell(Answer(req[w].cmd, "committed", ResultOf(req[w], work)))
            /\ Finish(w) /\ UNCHANGED owner
       ELSE /\ owner' = w /\ pc' = [pc EXCEPT ![w] = "written"]
            /\ UNCHANGED <<req, answers, acked>>
    /\ UNCHANGED <<tables, group, groupFailed, writeReady, view>>

\* Mutant: a failure inside a group does not doom the group.
WriteFails_GroupGoesOn(w) ==
    /\ pc[w] = "called" /\ Owns(w) /\ writeReady /\ group
    /\ Admissible(req[w], work)
    /\ TearDelta(req[w])
    /\ Finish(w)
    /\ UNCHANGED <<tables, owner, group, groupFailed, writeReady, view, answers, acked>>

(* durable_persistence_failed: some statement failed.  Alone, the           *)
(* transaction rolls back; in a group the rows written so far stay in it    *)
(* and _group_failed is set.                                                *)
WriteFails(w) ==
    /\ pc[w] = "called" /\ Owns(w) /\ writeReady
    /\ IF group
       THEN /\ groupFailed' = TRUE
            /\ \/ UNCHANGED work
               \/ Admissible(req[w], work) /\ TearDelta(req[w])
            /\ Tell(Answer(req[w].cmd, "failed", <<>>))
       ELSE UNCHANGED <<work, groupFailed, answers, acked>>
    /\ Finish(w)
    /\ UNCHANGED <<tables, owner, group, writeReady, view>>

Commit(w) ==
    /\ pc[w] = "written"
    /\ tables' = work /\ owner' = NoWriter
    /\ \E x \in KeyRows(req[w].cmd, work) : Tell(Answer(req[w].cmd, "committed", x.result))
    /\ Finish(w)
    /\ UNCHANGED <<work, group, groupFailed, writeReady, view>>

(* COMMIT raised: the caller hears durable_persistence_failed, and whether  *)
(* the log record reached the disk is not known.                            *)
CommitFails(w) ==
    /\ pc[w] = "written"
    /\ tables' \in {tables, work} /\ work' = tables'
    /\ owner' = NoWriter
    /\ Finish(w)
    /\ UNCHANGED <<group, groupFailed, writeReady, view, answers, acked>>

(* group_commit: the scope opens with BEGIN IMMEDIATE.                      *)
GroupBegin(w) ==
    /\ owner = NoWriter /\ pc[w] = "idle"
    /\ owner' = w /\ group' = TRUE /\ groupFailed' = FALSE
    /\ UNCHANGED <<tables, work, writeReady, pc, req, view, answers, acked>>

CloseGroup == owner' = NoWriter /\ group' = FALSE /\ groupFailed' = FALSE /\ answers' = {}

\* Mutant: the scope commits although an append of it failed.
GroupCommit_DespiteFailure(w) ==
    /\ owner = w /\ group /\ pc[w] = "idle"
    /\ tables' = work
    /\ acked' = acked \cup answers
    /\ CloseGroup
    /\ UNCHANGED <<work, writeReady, pc, req, view>>

(* The scope ends, every append of it having been persisted: one COMMIT,    *)
(* and its promises hold.                                                   *)
GroupCommit(w) ==
    /\ owner = w /\ group /\ pc[w] = "idle" /\ ~groupFailed
    /\ tables' = work
    /\ acked' = acked \cup answers
    /\ CloseGroup
    /\ UNCHANGED <<work, writeReady, pc, req, view>>

GroupCommitFails(w) ==
    /\ owner = w /\ group /\ pc[w] = "idle" /\ ~groupFailed
    /\ tables' \in {tables, work} /\ work' = tables'
    /\ CloseGroup
    /\ UNCHANGED <<writeReady, pc, req, view, acked>>

(* The scope raised, or an append of it had failed: everything rolls back   *)
(* and the caller sees the exception.                                       *)
GroupRollback(w) ==
    /\ owner = w /\ group /\ pc[w] = "idle"
    /\ work' = tables
    /\ CloseGroup
    /\ UNCHANGED <<tables, writeReady, pc, req, view, acked>>

(* mark_outbox_delivered, mark_outbox_retryable and                         *)
(* mark_projection_refreshed: one UPDATE, in the caller's group if it has   *)
(* one, otherwise in a transaction of its own.                              *)
Update(w, t) ==
    /\ pc[w] = "idle" /\ Owns(w)
    /\ t # work
    /\ work' = t
    /\ IF group THEN UNCHANGED tables ELSE tables' = t
    /\ UNCHANGED <<owner, group, groupFailed, writeReady, pc, req, view, answers, acked>>

\* Mutant: a delivered entry is deleted.
MarkOutbox_Deletes(w, o, state) ==
    /\ o \in work.outbox
    /\ Update(w, [work EXCEPT !.outbox = @ \ {o}])

MarkOutbox(w, o, state) ==
    /\ o \in work.outbox
    /\ Update(w, [work EXCEPT !.outbox = (@ \ {o}) \cup {[o EXCEPT !.state = state]}])

MarkProjectionRefreshed(w, x) ==
    /\ x \in work.transactions /\ x.refresh = "pending"
    /\ \A o \in work.outbox : o.tx = x.cmd.tx => o.state = "delivered"
    /\ Update(w, [work EXCEPT !.transactions = (@ \ {x}) \cup {[x EXCEPT !.refresh = "done"]}])

(* set_write_readiness, called by the projection bootstrap.                 *)
SetWriteReadiness(ready) ==
    /\ owner = NoWriter /\ writeReady # ready
    /\ writeReady' = ready
    /\ UNCHANGED <<tables, work, owner, group, groupFailed, pc, req, view, answers, acked>>

(* The process dies.  SQLite recovers the committed database; the lock, the *)
(* calls in progress and the promises of an open group are gone, and the    *)
(* store opens ready for writes.                                            *)
Crash ==
    /\ work' = tables
    /\ owner' = NoWriter /\ group' = FALSE /\ groupFailed' = FALSE
    /\ writeReady' = TRUE
    /\ pc' = [w \in Writers |-> "idle"] /\ req' = [w \in Writers |-> <<>>]
    /\ view' = [w \in Writers |-> tables.heads]
    /\ answers' = {}
    /\ UNCHANGED <<tables, acked>>

Next == \/ \E w \in Writers :
              \/ ReadHeads(w) \/ Reject(w) \/ Replay(w) \/ WriteRows(w) \/ WriteFails(w)
              \/ Commit(w) \/ CommitFails(w)
              \/ GroupBegin(w) \/ GroupCommit(w) \/ GroupCommitFails(w) \/ GroupRollback(w)
              \/ \E c \in Commands : CallAppend(w, c)
              \/ \E o \in work.outbox : MarkOutbox(w, o, "delivered") \/ MarkOutbox(w, o, "retryable")
              \/ \E x \in work.transactions : MarkProjectionRefreshed(w, x)
        \/ \E ready \in BOOLEAN : SetWriteReadiness(ready)
        \/ Crash

Spec == Init /\ [][Next]_vars

------------------------------------------------------------------------------
(* Every variable holds what the code keeps in it.                          *)
TypeOK ==
    /\ \A t \in {tables, work} :
          /\ DOMAIN t = {"transactions", "events", "outbox", "heads", "last"}
          /\ t.heads \in [Streams -> Nat] /\ t.last \in Nat
          /\ \A x \in t.transactions : x.cmd \in Commands /\ x.refresh \in {"none", "pending", "done"}
          /\ \A e \in t.events : e.seq \in Nat \ {0} /\ e.rev \in Nat \ {0} /\ e.stream \in Streams
          /\ \A o \in t.outbox : o.state \in {"pending", "retryable", "delivered"}
    /\ owner \in Writers \cup {NoWriter}
    /\ group \in BOOLEAN /\ groupFailed \in BOOLEAN /\ writeReady \in BOOLEAN
    /\ pc \in [Writers -> {"idle", "called", "written"}]
    /\ view \in [Writers -> [Streams -> Nat]]

(* No torn batch: whatever fails or crashes, the committed events and       *)
(* outbox rows are exactly those of the committed transactions (lines       *)
(* 995-1001, 1135-1137: one failed append dooms its whole group).           *)
NoTornBatch ==
    LET t == tables IN
    /\ {<<e.tx, e.id>> : e \in t.events} =
          UNION {{<<x.cmd.tx, i>> : i \in EventIds(x.cmd)} : x \in t.transactions}
    /\ {<<o.tx, o.id>> : o \in t.outbox} =
          UNION {{<<x.cmd.tx, o.id>> : o \in x.cmd.outbox} : x \in t.transactions}

(* The numbering has no hole and no double: global sequences are 1..last    *)
(* and each stream's revisions are 1..head, over crashes, rolled back       *)
(* groups and commits of unknown outcome.                                   *)
NumberingContiguous ==
    LET t == tables IN
    /\ {e.seq : e \in t.events} = 1..t.last /\ Cardinality(t.events) = t.last
    /\ \A s \in Streams :
          LET es == {e \in t.events : e.stream = s} IN
          {e.rev : e \in es} = 1..t.heads[s] /\ Cardinality(es) = t.heads[s]

(* Exactly once: however often a command is sent, at most one transaction   *)
(* stands for its idempotency key, and it is that of one digest.            *)
AtMostOncePerKey ==
    \A x, y \in tables.transactions : x.cmd.key = y.cmd.key \/ x.cmd.tx = y.cmd.tx => x = y

(* What a caller was told is committed stays committed, with the numbers it *)
(* was told: an answer given outside a group, or inside one that closed.    *)
AckedIsDurable ==
    \A a \in acked : \E x \in tables.transactions :
        x.cmd.key = a.key /\ x.cmd.digest = a.digest /\ x.result = a.result

(* Optimistic concurrency: every committed batch was numbered against the   *)
(* heads it expected and read, however old its caller's view was.           *)
HeadBefore(t, s, n) == Cardinality({e \in t.events : e.stream = s /\ e.seq < n})
ReadsWereCurrent ==
    \A x \in tables.transactions :
        /\ \A s \in DOMAIN x.expected : x.expected[s] = HeadBefore(tables, s, x.result.first)
        /\ \A s \in DOMAIN x.reads : x.reads[s] = HeadBefore(tables, s, x.result.first)

(* The ledger only grows: a committed event, transaction or outbox row is   *)
(* never lost or renumbered, by a rollback, a crash or a failed commit.     *)
LedgerOnlyGrows ==
    [][/\ tables.events \subseteq tables'.events
       /\ \A x \in tables.transactions : \E y \in tables'.transactions :
             x.cmd = y.cmd /\ x.result = y.result
       /\ {o.id : o \in tables.outbox} \subseteq {o.id : o \in tables'.outbox}]_vars

(* A group is all or nothing for its caller: when its scope closes, either  *)
(* every append it was told "committed" is in the database, or none that    *)
(* the group itself added; and none if the group was told of a failure.     *)
GroupAllOrNothing ==
    [][group /\ ~group' =>
         LET before == {x.cmd.key : x \in tables.transactions}
             told   == {a.key : a \in {b \in answers : b.status = "committed"}} \ before
             kept   == {x.cmd.key : x \in tables'.transactions} \ before
         IN  /\ kept = {} \/ told \subseteq kept
             /\ (\E a \in answers : a.status = "failed") => kept = {}]_vars

(* The committed database is the ledger of GameplayLedger, and what callers *)
(* may rely on is what that ledger tells: the tables kept incrementally     *)
(* (heads, last sequence, stored results) agree with the batches.           *)
Ledger == INSTANCE GameplayLedger
            WITH ledger <- {[cmd |-> x.cmd, expected |-> x.expected, reads |-> x.reads,
                             result |-> x.result] : x \in tables.transactions},
                 told <- acked
ImplementsLedger == Ledger!Spec
=============================================================================
