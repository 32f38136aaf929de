---------------------- MODULE DurableEventStoreProofs ----------------------
(***************************************************************************)
(* Proofs about DurableEventStore, for any set of writers, streams and     *)
(* commands.  The argument: the open transaction always extends the        *)
(* committed database (rows are added, never dropped), and equals it while *)
(* nobody owns the lock; so whatever a rollback, a crash or a COMMIT of    *)
(* unknown outcome leaves behind still holds every answer that was final,  *)
(* and the answers of an open group are backed by its transaction unless   *)
(* the group is doomed.                                                    *)
(***************************************************************************)
EXTENDS DurableEventStore, FiniteSetTheorems, TLAPS

\* The rank of a member among the members of a finite set of numbers orders them.
LEMMA RankOrders ==
  ASSUME NEW S \in SUBSET Nat, IsFiniteSet(S), NEW e \in S, NEW f \in S
  PROVE  LET Rank(g) == Cardinality({h \in S : h <= g})
         IN  /\ Rank(e) \in 1..Cardinality(S)
             /\ e < f => Rank(e) < Rank(f)
<1> DEFINE Below(g) == {h \in S : h <= g}
<1>1. \A g \in S : IsFiniteSet(Below(g)) /\ Cardinality(Below(g)) \in Nat /\ Cardinality(Below(g)) <= Cardinality(S)
  BY FS_Subset, FS_CardinalityType
<1>2. Cardinality(S) \in Nat
  BY FS_CardinalityType
<1>3. Cardinality(Below(e)) # 0
  <2>1. e \in Below(e)
    OBVIOUS
  <2> QED
    BY <1>1, <2>1, FS_EmptySet
<1>4. ASSUME e < f PROVE Cardinality(Below(e)) < Cardinality(Below(f))
  <2>1. Below(e) \in SUBSET Below(f)
    <3>1. \A h \in S : h <= e => h <= f
      BY <1>4
    <3> QED
      BY <3>1
  <2>2. f \in Below(f) /\ f \notin Below(e)
    BY <1>4
  <2> HIDE DEF Below
  <2>3. Cardinality(Below(e)) <= Cardinality(Below(f)) /\ Cardinality(Below(e)) # Cardinality(Below(f))
    BY <1>1, <2>1, <2>2, FS_Subset
  <2> QED
    BY <1>1, <2>3
<1> HIDE DEF Below
<1>5. Cardinality(Below(e)) \in 1..Cardinality(S)
  BY <1>1, <1>2, <1>3
<1> QED
  BY <1>4, <1>5 DEF Below

\* Every rank up to the size of the set is the rank of one of its members.
LEMMA RankOnto ==
  ASSUME NEW S \in SUBSET Nat, IsFiniteSet(S)
  PROVE  \A i \in 1..Cardinality(S) : \E e \in S : Cardinality({h \in S : h <= e}) = i
<1> DEFINE Rank(e) == Cardinality({h \in S : h <= e})
           r == [e \in S |-> Rank(e)]
           K == Cardinality(S)
<1>1. K \in Nat
  BY FS_CardinalityType
<1>2. \A e, f \in S : Rank(e) \in 1..K /\ (e < f => Rank(e) < Rank(f))
  BY RankOrders
<1> HIDE DEF Rank, K
<1>3. r \in Injection(S, 1..K)
  <2>1. r \in [S -> 1..K]
    BY <1>2
  <2>2. ASSUME NEW e \in S, NEW f \in S, r[e] = r[f] PROVE e = f
    <3>1. Rank(e) = Rank(f) /\ e \in Nat /\ f \in Nat /\ Rank(e) \in Int /\ Rank(f) \in Int
      BY <1>2, <2>2
    <3>2. ~(e < f) /\ ~(f < e)
      BY <1>2, <3>1
    <3> QED
      BY <3>1, <3>2
  <2> QED
    BY <2>1, <2>2 DEF Injection, IsInjective
<1>4. IsFiniteSet(1..K) /\ Cardinality(1..K) = K
  BY <1>1, FS_Interval
<1>5. r \in Surjection(S, 1..K)
  BY <1>3, <1>4, FS_Injection DEF K
<1> QED
  BY <1>5 DEF Surjection, Rank, K


TransactionFields == {"cmd", "expected", "reads", "result", "refresh"}
OutboxFields == {"id", "tx", "event", "state"}

TableOK(t) ==
    /\ DOMAIN t = {"transactions", "events", "outbox", "heads", "last"}
    /\ t.heads \in [Streams -> Nat] /\ t.last \in Nat
    /\ \A x \in t.transactions : /\ DOMAIN x = TransactionFields
                                 /\ x.cmd \in Commands /\ x.refresh \in {"none", "pending", "done"}
    /\ \A e \in t.events : e.seq \in Nat \ {0} /\ e.rev \in Nat \ {0} /\ e.stream \in Streams
    /\ \A o \in t.outbox : /\ DOMAIN o = OutboxFields
                           /\ o.state \in {"pending", "retryable", "delivered"}

UniqueKeys(t) ==
    \A x, y \in t.transactions : x.cmd.key = y.cmd.key \/ x.cmd.tx = y.cmd.tx => x = y

\* u holds every event and outbox entry of t, and its transactions up to their
\* refresh state.
Extends(t, u) ==
    /\ t.events \subseteq u.events
    /\ \A x \in t.transactions : \E y \in u.transactions : x.cmd = y.cmd /\ x.result = y.result
    /\ {o.id : o \in t.outbox} \subseteq {o.id : o \in u.outbox}

Supports(t, a) ==
    \E x \in t.transactions : x.cmd.key = a.key /\ x.cmd.digest = a.digest /\ x.result = a.result

ControlOK ==
    /\ owner \in Writers \cup {NoWriter}
    /\ group \in BOOLEAN /\ groupFailed \in BOOLEAN /\ writeReady \in BOOLEAN
    /\ pc \in [Writers -> {"idle", "called", "written"}]
    /\ DOMAIN req = Writers
    /\ view \in [Writers -> [Streams -> Nat]]
    /\ \A w \in Writers : pc[w] # "idle" => req[w].cmd \in Commands
    /\ \A w \in Writers : pc[w] = "written" => owner = w /\ ~group
    /\ owner = NoWriter => ~group
    /\ ~group => answers = {}

TablesOK ==
    /\ TableOK(tables) /\ TableOK(work)
    /\ UniqueKeys(tables) /\ UniqueKeys(work)
    /\ Extends(tables, work)
    /\ owner = NoWriter => work = tables

\* The row a writer is about to commit under its key is its own.
WrittenIsOwn ==
    \A w \in Writers : pc[w] = "written" =>
        \A x \in KeyRows(req[w].cmd, work) : x.cmd = req[w].cmd

Backed ==
    /\ \A a \in acked : Supports(tables, a)
    /\ \A a \in answers : Supports(work, a) \/ groupFailed

IInv == ControlOK /\ TablesOK /\ WrittenIsOwn /\ Backed

-----------------------------------------------------------------------------
(* Tables *)

\* "One database extends another" is a preorder, and keeps what backs an answer.
LEMMA ExtendsReflexive == \A t : Extends(t, t)
  BY DEF Extends

\* Extending twice is extending.
LEMMA ExtendsTransitive == \A t, u, v : Extends(t, u) /\ Extends(u, v) => Extends(t, v)
  BY SMTT(30) DEF Extends

\* An answer that the tables back stays backed when rows are only added.
LEMMA SupportsMonotone == \A t, u, a : Extends(t, u) /\ Supports(t, a) => Supports(u, a)
  BY DEF Extends, Supports

\* The members of a sequence are its values at the indices up to its length.
LEMMA SequenceElements ==
    ASSUME NEW S, NEW q \in Seq(S)
    PROVE  Len(q) \in Nat /\ DOMAIN q = 1..Len(q) /\ \A i \in 1..Len(q) : q[i] \in S
  OBVIOUS

\* The events of a command are a sequence of records on known streams.
LEMMA CommandEvents ==
    ASSUME NEW c \in Commands
    PROVE  /\ Len(c.events) \in Nat /\ DOMAIN c.events = 1..Len(c.events)
           /\ \A i \in DOMAIN c.events : c.events[i].stream \in Streams
<1> DEFINE Ids == {c.events[i].id : i \in DOMAIN c.events}
<1>1. c.events \in Seq([id : Ids, stream : Streams])
  <2>1. IsCommand(c)
    BY CommandsAssumption
  <2> QED
    BY <2>1, Zenon DEF IsCommand
<1> HIDE DEF Ids
<1>2. /\ Len(c.events) \in Nat /\ DOMAIN c.events = 1..Len(c.events)
      /\ \A i \in 1..Len(c.events) : c.events[i] \in [id : Ids, stream : Streams]
  BY <1>1, SequenceElements, Zenon
<1> QED
  BY <1>2

\* The number of events of a batch on one stream, up to one of its own, is positive.
LEMMA CountType ==
    ASSUME NEW c \in Commands, NEW i \in 0..Len(c.events), NEW s
    PROVE  /\ CountUpTo(c, s, i) \in Nat
           /\ i > 0 /\ s = c.events[i].stream => CountUpTo(c, s, i) # 0
<1> DEFINE S == {j \in 1..i : c.events[j].stream = s}
<1>1. i \in Nat
  BY CommandEvents
<1>2. IsFiniteSet(S)
  <2>1. IsFiniteSet(1..i)
    BY <1>1, FS_Interval
  <2> QED
    BY <2>1, FS_Subset
<1>3. Cardinality(S) \in Nat
  BY <1>2, FS_CardinalityType
<1>4. ASSUME i > 0, s = c.events[i].stream PROVE Cardinality(S) # 0
  <2>1. i \in S
    BY <1>1, <1>4
  <2> QED
    BY <1>2, <2>1, FS_EmptySet
<1> QED
  BY <1>3, <1>4 DEF CountUpTo

\* The tables a batch leaves, cut off or complete.
IsInserted(b, t, E, H, O, u) ==
    \/ u = Inserted(b, t, E, H, O)
    \/ u = [Inserted(b, t, E, H, O) EXCEPT !.last = ResultOf(b, t).last]

\* What a batch inserts, whole or cut off anywhere, are only rows, and rows of the
\* right shape.
LEMMA RowsAdd ==
    ASSUME NEW b, NEW t, TableOK(t), UniqueKeys(t), b.cmd \in Commands, Admissible(b, t),
           NEW E \in SUBSET EventRows(b, t), NEW H \in SUBSET Written(b.cmd),
           NEW O \in SUBSET OutboxRows(b), NEW u,
           IsInserted(b, t, E, H, O, u)
    PROVE  /\ TableOK(u)
           /\ UniqueKeys(u)
           /\ Extends(t, u)
           /\ u.transactions = t.transactions \cup {TransactionRow(b, t)}
<1> DEFINE c == b.cmd
           row == TransactionRow(b, t)
           N == Len(c.events)
<1>1. /\ N \in Nat /\ DOMAIN c.events = 1..N
      /\ \A i \in 1..N : c.events[i].stream \in Streams
  BY CommandEvents
<1>2. \A e \in EventRows(b, t) : e.seq \in Nat \ {0} /\ e.rev \in Nat \ {0} /\ e.stream \in Streams
  <2> SUFFICES ASSUME NEW e \in EventRows(b, t)
               PROVE  e.seq \in Nat \ {0} /\ e.rev \in Nat \ {0} /\ e.stream \in Streams
    OBVIOUS
  <2>1. PICK i \in 1..N : /\ e.seq = t.last + i /\ e.stream = c.events[i].stream
                          /\ e.rev = t.heads[e.stream] + CountUpTo(c, e.stream, i)
    BY <1>1 DEF EventRows
  <2>2. CountUpTo(c, e.stream, i) \in Nat \ {0}
    BY <1>1, <2>1, CountType
  <2>3. e.stream \in Streams /\ t.heads[e.stream] \in Nat /\ t.last \in Nat
    BY <1>1, <2>1 DEF TableOK
  <2> QED
    BY <1>1, <2>1, <2>2, <2>3
<1>3. /\ DOMAIN row = TransactionFields
      /\ row.cmd = c /\ row.refresh \in {"none", "pending", "done"}
  BY DEF TransactionRow, TransactionFields
<1>4. \A o \in OutboxRows(b) : DOMAIN o = OutboxFields /\ o.state = "pending"
  BY DEF OutboxRows, OutboxFields
<1>5. ResultOf(b, t).last \in Nat
  BY <1>1 DEF ResultOf, TableOK
<1>6. \A s \in Written(c) : ResultOf(b, t).revisions[s] \in Nat
  <2> SUFFICES ASSUME NEW s \in Written(c) PROVE ResultOf(b, t).revisions[s] \in Nat
    OBVIOUS
  <2>1. s \in Streams /\ t.heads[s] \in Nat
    BY <1>1 DEF Written, TableOK
  <2>2. CountUpTo(c, s, N) \in Nat
    BY <1>1, CountType
  <2>3. ResultOf(b, t).revisions[s] = t.heads[s] + CountUpTo(c, s, N)
    BY DEF ResultOf
  <2> QED
    BY <2>1, <2>2, <2>3
<1>7. /\ DOMAIN u = {"transactions", "events", "outbox", "heads", "last"}
      /\ u.transactions = t.transactions \cup {row}
      /\ u.events = t.events \cup E
      /\ u.outbox = t.outbox \cup O
      /\ u.heads \in [Streams -> Nat]
      /\ u.last \in Nat
  <2> DEFINE heads == [s \in Streams |-> IF s \in H THEN ResultOf(b, t).revisions[s] ELSE t.heads[s]]
             last == ResultOf(b, t).last
             v == Inserted(b, t, E, H, O)
  <2>1. heads \in [Streams -> Nat] /\ last \in Nat /\ t.last \in Nat
    BY <1>5, <1>6 DEF TableOK
  <2>2. DOMAIN t = {"transactions", "events", "outbox", "heads", "last"}
    BY DEF TableOK
  <2>3. v = [t EXCEPT !.transactions = @ \cup {row}, !.events = @ \cup E, !.heads = heads, !.outbox = @ \cup O]
    BY DEF Inserted
  <2> HIDE DEF heads, last, row, v
  <2>4. /\ DOMAIN v = DOMAIN t /\ v.transactions = t.transactions \cup {row} /\ v.events = t.events \cup E
        /\ v.outbox = t.outbox \cup O /\ v.heads = heads /\ v.last = t.last
    BY <2>2, <2>3
  <2>5. u = v \/ u = [v EXCEPT !.last = last]
    BY DEF v, last, IsInserted
  <2> QED
    BY <2>1, <2>2, <2>4, <2>5
<1>8. TableOK(u)
  BY <1>2, <1>3, <1>4, <1>7 DEF TableOK
<1>9. \A x \in t.transactions : x.cmd.key # c.key /\ x.cmd.tx # c.tx
  BY DEF Admissible, KeyRows, IdentitiesFresh
<1>10. UniqueKeys(u)
  BY <1>3, <1>7, <1>9 DEF UniqueKeys
<1>11. Extends(t, u)
  BY <1>7 DEF Extends
<1> QED
  BY <1>7, <1>8, <1>10, <1>11

\* The whole batch, and a batch that was torn.
LEMMA StatementsAdd ==
    ASSUME NEW b, TableOK(work), UniqueKeys(work), b.cmd \in Commands, Admissible(b, work),
           work' = WriteDelta(b, work) \/ TearDelta(b)
    PROVE  /\ TableOK(work') /\ UniqueKeys(work') /\ Extends(work, work')
           /\ work'.transactions = work.transactions \cup {TransactionRow(b, work)}
<1>1. ASSUME NEW E \in SUBSET EventRows(b, work), NEW H \in SUBSET Written(b.cmd), NEW O \in SUBSET OutboxRows(b),
             IsInserted(b, work, E, H, O, work')
      PROVE  /\ TableOK(work') /\ UniqueKeys(work') /\ Extends(work, work')
             /\ work'.transactions = work.transactions \cup {TransactionRow(b, work)}
  BY <1>1, RowsAdd
<1>2. CASE work' = WriteDelta(b, work)
  <2>1. work' = [Inserted(b, work, EventRows(b, work), Written(b.cmd), OutboxRows(b))
                   EXCEPT !.last = ResultOf(b, work).last]
    BY <1>2 DEF WriteDelta
  <2> QED
    BY <1>1, <2>1 DEF IsInserted
<1>3. CASE TearDelta(b)
  <2>1. PICK n \in 0..Len(b.cmd.events), H \in SUBSET Written(b.cmd), O \in SUBSET OutboxRows(b) :
            work' = Inserted(b, work, {e \in EventRows(b, work) : e.seq <= work.last + n}, H, O)
    BY <1>3 DEF TearDelta
  <2> DEFINE E == {e \in EventRows(b, work) : e.seq <= work.last + n}
  <2>2. E \in SUBSET EventRows(b, work) /\ work' = Inserted(b, work, E, H, O)
    BY <2>1
  <2> HIDE DEF E
  <2> QED
    BY <1>1, <2>2 DEF IsInserted
<1> QED
  BY <1>2, <1>3

\* A mark on an outbox entry or on a transaction's refresh keeps every row.
LEMMA MarksKeepRows ==
    ASSUME NEW t, TableOK(t), UniqueKeys(t)
    PROVE  /\ \A o \in t.outbox, st \in {"pending", "retryable", "delivered"} :
                 LET u == [t EXCEPT !.outbox = (@ \ {o}) \cup {[o EXCEPT !.state = st]}]
                 IN  TableOK(u) /\ UniqueKeys(u) /\ Extends(t, u)
           /\ \A x \in t.transactions :
                 LET u == [t EXCEPT !.transactions = (@ \ {x}) \cup {[x EXCEPT !.refresh = "done"]}]
                 IN  TableOK(u) /\ UniqueKeys(u) /\ Extends(t, u)
<1>1. ASSUME NEW o \in t.outbox, NEW st \in {"pending", "retryable", "delivered"}
      PROVE  LET u == [t EXCEPT !.outbox = (@ \ {o}) \cup {[o EXCEPT !.state = st]}]
             IN  TableOK(u) /\ UniqueKeys(u) /\ Extends(t, u)
  <2> DEFINE p == [o EXCEPT !.state = st]
             u == [t EXCEPT !.outbox = (@ \ {o}) \cup {p}]
  <2>1. DOMAIN p = OutboxFields /\ p.id = o.id /\ p.state = st
    BY DEF TableOK, OutboxFields
  <2> HIDE DEF p
  <2>2. /\ DOMAIN u = DOMAIN t /\ u.outbox = (t.outbox \ {o}) \cup {p}
        /\ u.transactions = t.transactions /\ u.events = t.events /\ u.heads = t.heads /\ u.last = t.last
    BY DEF TableOK
  <2> HIDE DEF u
  <2>3. TableOK(u) /\ UniqueKeys(u)
    BY <2>1, <2>2 DEF TableOK, UniqueKeys
  <2>4. Extends(t, u)
    BY <2>1, <2>2 DEF Extends
  <2> QED
    BY <2>3, <2>4 DEF u, p
<1>2. ASSUME NEW x \in t.transactions
      PROVE  LET u == [t EXCEPT !.transactions = (@ \ {x}) \cup {[x EXCEPT !.refresh = "done"]}]
             IN  TableOK(u) /\ UniqueKeys(u) /\ Extends(t, u)
  <2> DEFINE y == [x EXCEPT !.refresh = "done"]
             u == [t EXCEPT !.transactions = (@ \ {x}) \cup {y}]
  <2>1. DOMAIN y = TransactionFields /\ y.cmd = x.cmd /\ y.result = x.result /\ y.refresh = "done"
    BY DEF TableOK, TransactionFields
  <2> HIDE DEF y
  <2>2. /\ DOMAIN u = DOMAIN t /\ u.transactions = (t.transactions \ {x}) \cup {y}
        /\ u.outbox = t.outbox /\ u.events = t.events /\ u.heads = t.heads /\ u.last = t.last
    BY DEF TableOK
  <2> HIDE DEF u
  <2>3. TableOK(u)
    BY <2>1, <2>2 DEF TableOK
  <2>4. UniqueKeys(u)
    BY <2>1, <2>2 DEF UniqueKeys
  <2>5. Extends(t, u)
    BY <2>1, <2>2 DEF Extends
  <2> QED
    BY <2>3, <2>4, <2>5 DEF u, y
<1> QED
  BY <1>1, <1>2

-----------------------------------------------------------------------------
(* Steps *)

Grows(t, u) == TableOK(u) /\ UniqueKeys(u) /\ Extends(t, u)

\* Whoever may use the lock finds no commit under way.
LEMMA OwnsExcludesWritten ==
    ASSUME IInv, NEW w \in Writers, Owns(w), NEW v \in Writers
    PROVE  pc[v] = "written" => v = w /\ FALSE
  BY NoWriterAssumption DEF IInv, ControlOK, Owns

\* What a step can do to the database: nothing; add to the open transaction; commit
\* it; drop it, and with it every promise made in it; or update both at once.
LEMMA TableMoves ==
    ASSUME IInv, [Next]_vars
    PROVE  \/ UNCHANGED <<tables, work>> /\ (owner' = NoWriter => owner = NoWriter)
           \/ tables' = tables /\ Grows(work, work') /\ owner' # NoWriter
           \/ UNCHANGED work /\ tables' = work
           \/ UNCHANGED tables /\ work' = tables /\ answers' = {}
           \/ tables' = work' /\ Grows(work, work')
<1> DEFINE Goal ==
       \/ UNCHANGED <<tables, work>> /\ (owner' = NoWriter => owner = NoWriter)
       \/ tables' = tables /\ Grows(work, work') /\ owner' # NoWriter
       \/ UNCHANGED work /\ tables' = work
       \/ UNCHANGED tables /\ work' = tables /\ answers' = {}
       \/ tables' = work' /\ Grows(work, work')
<1> USE DEF IInv, ControlOK
<1>1. ASSUME NEW w \in Writers, ReadHeads(w) \/ Reject(w) \/ Replay(w) PROVE Goal
  BY <1>1 DEF ReadHeads, Reject, Replay
<1>2. ASSUME NEW w \in Writers, NEW c \in Commands, CallAppend(w, c) PROVE Goal
  BY <1>2 DEF CallAppend
<1>3. ASSUME NEW w \in Writers, pc[w] = "called", Admissible(req[w], work),
             work' = WriteDelta(req[w], work) \/ TearDelta(req[w])
      PROVE  Grows(work, work')
  BY <1>3, StatementsAdd DEF TablesOK, Grows
<1>4. ASSUME NEW w \in Writers, WriteRows(w) PROVE Goal
  <2>1. Grows(work, work')
    BY <1>3, <1>4 DEF WriteRows
  <2>2. tables' = tables /\ owner' # NoWriter
    BY <1>4, NoWriterAssumption DEF WriteRows, Owns
  <2> QED
    BY <2>1, <2>2
<1>5. ASSUME NEW w \in Writers, WriteFails(w) PROVE Goal
  <2>1. CASE UNCHANGED work
    BY <1>5, <2>1 DEF WriteFails
  <2>2. CASE group /\ Admissible(req[w], work) /\ TearDelta(req[w])
    <3>1. Grows(work, work')
      BY <1>3, <1>5, <2>2 DEF WriteFails
    <3> QED
      BY <1>5, <2>2, <3>1 DEF WriteFails
  <2> QED
    BY <1>5, <2>1, <2>2 DEF WriteFails
<1>6. ASSUME NEW w \in Writers, Commit(w) \/ CommitFails(w) PROVE Goal
  BY <1>6 DEF Commit, CommitFails
<1>7. ASSUME NEW w \in Writers, GroupBegin(w) PROVE Goal
  BY <1>7, NoWriterAssumption DEF GroupBegin
<1>8. ASSUME NEW w \in Writers, GroupCommit(w) \/ GroupCommitFails(w) \/ GroupRollback(w) PROVE Goal
  BY <1>8 DEF GroupCommit, GroupCommitFails, GroupRollback, CloseGroup
<1>9. ASSUME NEW w \in Writers, NEW t, Update(w, t), Grows(work, t) PROVE Goal
  BY <1>9, NoWriterAssumption DEF Update, Owns
<1>10. ASSUME NEW w \in Writers, NEW o \in work.outbox,
              MarkOutbox(w, o, "delivered") \/ MarkOutbox(w, o, "retryable")
       PROVE  Goal
  BY <1>9, <1>10, MarksKeepRows DEF MarkOutbox, TablesOK, Grows
<1>11. ASSUME NEW w \in Writers, NEW x \in work.transactions, MarkProjectionRefreshed(w, x) PROVE Goal
  BY <1>9, <1>11, MarksKeepRows DEF MarkProjectionRefreshed, TablesOK, Grows
<1>12. ASSUME Crash \/ (\E ready \in BOOLEAN : SetWriteReadiness(ready)) \/ UNCHANGED vars PROVE Goal
  BY <1>12 DEF Crash, SetWriteReadiness, vars
<1> QED
  BY <1>1, <1>2, <1>4, <1>5, <1>6, <1>7, <1>8, <1>10, <1>11, <1>12 DEF Next

\* Every step of the store moves the tables in one of the ways TableMoves names, so
\* it keeps their types and their unique identities.
LEMMA TablesStep ==
    ASSUME IInv, [Next]_vars
    PROVE  TablesOK' /\ Extends(tables, tables') /\ (Extends(work, work') \/ answers' = {})
<1> USE TableMoves, ExtendsReflexive DEF IInv, TablesOK, Grows
<1>1. Extends(tables, tables')
  BY ExtendsTransitive
<1>2. Extends(tables', work')
  BY ExtendsTransitive
<1> QED
  BY <1>1, <1>2

\* Every step keeps the lock, the open transaction and the calls consistent.
LEMMA ControlStep ==
    ASSUME IInv, [Next]_vars
    PROVE  ControlOK'
<1>1. tables.heads \in [Streams -> Nat] /\ work.heads \in [Streams -> Nat]
  BY DEF IInv, TablesOK, TableOK
<1> USE NoWriterAssumption DEF IInv, ControlOK, Finish, Owns, Tell
<1>2. ASSUME NEW w \in Writers, ReadHeads(w) PROVE ControlOK'
  BY <1>1, <1>2 DEF ReadHeads
<1>3. ASSUME NEW w \in Writers, NEW c \in Commands, CallAppend(w, c) PROVE ControlOK'
  <2>1. req'[w].cmd = c /\ \A v \in Writers \ {w} : req'[v] = req[v]
    BY <1>3 DEF CallAppend
  <2> QED
    BY <1>3, <2>1 DEF CallAppend
\* The call of w ends, and with it what is known of its request.
<1>4. ASSUME NEW w \in Writers, Finish(w)
      PROVE  /\ pc' \in [Writers -> {"idle", "called", "written"}] /\ DOMAIN req' = Writers
             /\ pc'[w] = "idle" /\ \A v \in Writers \ {w} : pc'[v] = pc[v] /\ req'[v] = req[v]
  BY <1>4
<1>5. ASSUME NEW w \in Writers, Finish(w), UNCHANGED <<owner, group, writeReady, view>>,
             groupFailed' \in BOOLEAN, ~group => answers' = {}
      PROVE  ControlOK'
  BY <1>4, <1>5
<1>6. ASSUME NEW w \in Writers, Reject(w) \/ Replay(w) \/ WriteFails(w) PROVE ControlOK'
  <2>1. Finish(w) /\ UNCHANGED <<owner, group, writeReady, view>>
    BY <1>6 DEF Reject, Replay, WriteFails
  <2>2. groupFailed' \in BOOLEAN
    BY <1>6 DEF Reject, Replay, WriteFails
  <2>3. ~group => answers' = {}
    BY <1>6 DEF Reject, Replay, WriteFails
  <2> QED
    BY <1>5, <2>1, <2>2, <2>3
<1>6a. ASSUME NEW w \in Writers, WriteRows(w) PROVE ControlOK'
  <2>1. CASE group
    <3>1. Finish(w) /\ UNCHANGED <<owner, group, groupFailed, writeReady, view>>
      BY <1>6a, <2>1 DEF WriteRows
    <3> QED
      BY <1>5, <2>1, <3>1
  <2>2. CASE ~group
    BY <1>6a, <2>2 DEF WriteRows
  <2> QED
    BY <2>1, <2>2
<1>6b. ASSUME NEW w \in Writers, Commit(w) \/ CommitFails(w) PROVE ControlOK'
  <2>1. /\ Finish(w) /\ owner = w /\ ~group /\ owner' = NoWriter
        /\ UNCHANGED <<group, groupFailed, writeReady, view>>
    BY <1>6b DEF Commit, CommitFails
  <2>2. answers' = {}
    BY <1>6b, <2>1 DEF Commit, CommitFails
  <2> QED
    BY <1>4, <2>1, <2>2
<1>7. ASSUME NEW w \in Writers, GroupBegin(w) PROVE ControlOK'
  BY <1>7 DEF GroupBegin
<1>8. ASSUME NEW w \in Writers, GroupCommit(w) \/ GroupCommitFails(w) \/ GroupRollback(w) PROVE ControlOK'
  BY <1>8 DEF GroupCommit, GroupCommitFails, GroupRollback, CloseGroup
<1>9. ASSUME NEW w \in Writers, NEW t, Update(w, t) PROVE ControlOK'
  BY <1>9 DEF Update
<1>10. ASSUME NEW w \in Writers, NEW o \in work.outbox,
              MarkOutbox(w, o, "delivered") \/ MarkOutbox(w, o, "retryable")
       PROVE  ControlOK'
  BY <1>9, <1>10 DEF MarkOutbox
<1>11. ASSUME NEW w \in Writers, NEW x \in work.transactions, MarkProjectionRefreshed(w, x) PROVE ControlOK'
  BY <1>9, <1>11 DEF MarkProjectionRefreshed
<1>12. ASSUME Crash PROVE ControlOK'
  BY <1>1, <1>12 DEF Crash
<1>13. ASSUME (\E ready \in BOOLEAN : SetWriteReadiness(ready)) \/ UNCHANGED vars PROVE ControlOK'
  BY <1>13 DEF SetWriteReadiness, vars
<1> QED
  BY <1>2, <1>3, <1>6, <1>7, <1>8, <1>10, <1>11, <1>12, <1>13, <1>6a, <1>6b DEF Next

\* While a commit is under way nobody else can touch the transaction.
LEMMA WrittenStep ==
    ASSUME IInv, [Next]_vars
    PROVE  WrittenIsOwn'
<1> SUFFICES ASSUME NEW v \in Writers, pc'[v] = "written",
                    NEW x \in KeyRows(req'[v].cmd, work')
             PROVE  x.cmd = req'[v].cmd
  BY DEF WrittenIsOwn, KeyRows
<1> USE NoWriterAssumption DEF IInv, ControlOK
<1>1. ASSUME NEW w \in Writers, WriteRows(w) PROVE x.cmd = req'[v].cmd
  <2>1. ~group /\ v = w
    BY <1>1, OwnsExcludesWritten DEF WriteRows, Finish
  <2>2. /\ req' = req /\ work' = WriteDelta(req[w], work)
        /\ req[w].cmd \in Commands /\ Admissible(req[w], work)
    BY <1>1, <2>1 DEF WriteRows
  <2>3. work'.transactions \subseteq work.transactions \cup {TransactionRow(req[w], work)}
    BY <2>2, StatementsAdd DEF TablesOK
  <2>4. \A y \in work.transactions : y.cmd.key # req[w].cmd.key
    BY <2>2 DEF Admissible, KeyRows
  <2>5. TransactionRow(req[w], work).cmd = req[w].cmd
    BY DEF TransactionRow
  <2> QED
    BY <2>1, <2>2, <2>3, <2>4, <2>5 DEF KeyRows
<1>2. ASSUME pc[v] = "written", req'[v] = req[v], UNCHANGED work PROVE x.cmd = req'[v].cmd
  BY <1>2 DEF WrittenIsOwn
<1>3. ASSUME NEW w \in Writers, NEW t, Update(w, t) PROVE FALSE
  BY <1>3, OwnsExcludesWritten DEF Update
<1>4. ASSUME NEW w \in Writers, ReadHeads(w) \/ Reject(w) \/ Replay(w) \/ WriteFails(w)
                                \/ \E c \in Commands : CallAppend(w, c)
      PROVE  FALSE
  BY <1>4, OwnsExcludesWritten DEF ReadHeads, Reject, Replay, WriteFails, CallAppend, Finish
<1>5. ASSUME NEW w \in Writers, Commit(w) \/ CommitFails(w) PROVE FALSE
  BY <1>5 DEF Commit, CommitFails, Finish
<1>6. ASSUME NEW w \in Writers, GroupBegin(w) \/ GroupCommit(w) \/ GroupCommitFails(w) \/ GroupRollback(w)
      PROVE  FALSE
  BY <1>6 DEF GroupBegin, GroupCommit, GroupCommitFails, GroupRollback
<1>7. ASSUME NEW w \in Writers,
             \/ \E o \in work.outbox : MarkOutbox(w, o, "delivered") \/ MarkOutbox(w, o, "retryable")
             \/ \E y \in work.transactions : MarkProjectionRefreshed(w, y)
      PROVE  FALSE
  BY <1>3, <1>7 DEF MarkOutbox, MarkProjectionRefreshed
<1>8. ASSUME Crash \/ \E ready \in BOOLEAN : SetWriteReadiness(ready) PROVE FALSE
  BY <1>8 DEF Crash, SetWriteReadiness
<1>9. ASSUME UNCHANGED vars PROVE x.cmd = req'[v].cmd
  BY <1>2, <1>9 DEF vars
<1> QED
  BY <1>1, <1>4, <1>5, <1>6, <1>7, <1>8, <1>9 DEF Next

\* An answer is final only when the committed tables hold its batch, and inside a
\* group only a doomed group may have made promises its transaction does not hold.
LEMMA BackedStep ==
    ASSUME IInv, [Next]_vars
    PROVE  Backed'
<1> USE DEF IInv, Backed
<1>1. \A a \in acked : Supports(tables', a)
  BY TablesStep, SupportsMonotone
<1>2. answers' = {} \/ \A a \in answers : Supports(work', a) \/ groupFailed
  BY TablesStep, SupportsMonotone
<1>3. ASSUME UNCHANGED <<acked, answers, groupFailed>> PROVE Backed'
  BY <1>1, <1>2, <1>3
<1>4. ASSUME NEW w \in Writers, Replay(w) PROVE Backed'
  <2>1. PICK y \in KeyRows(req[w].cmd, work) : /\ y.cmd.digest = req[w].cmd.digest
                                               /\ Tell(Answer(req[w].cmd, "committed", y.result))
    BY <1>4 DEF Replay
  <2> DEFINE a == Answer(req[w].cmd, "committed", y.result)
  <2>2. Supports(work, a)
    BY <2>1 DEF Supports, KeyRows, Answer
  <2>3. UNCHANGED <<tables, work, groupFailed>>
    BY <1>4 DEF Replay
  <2> HIDE DEF a
  <2>4. CASE group
    BY <2>1, <2>2, <2>3, <2>4 DEF Tell, Supports, a
  <2>5. CASE ~group
    <3>1. tables = work
      BY <1>4, <2>5 DEF Replay, Owns, TablesOK
    <3> QED
      BY <2>1, <2>2, <2>3, <2>5, <3>1 DEF Tell, Supports, a
  <2> QED
    BY <2>4, <2>5
<1>5. ASSUME NEW w \in Writers, WriteRows(w) PROVE Backed'
  <2>1. CASE ~group
    BY <1>3, <1>5, <2>1 DEF WriteRows
  <2>2. CASE group
    <3> DEFINE a == Answer(req[w].cmd, "committed", ResultOf(req[w], work))
    <3>1. answers' = answers \cup {a} /\ UNCHANGED <<acked, groupFailed>>
      BY <1>5, <2>2 DEF WriteRows, Tell
    <3>2. TransactionRow(req[w], work) \in work'.transactions
      BY <1>5, StatementsAdd DEF WriteRows, ControlOK, TablesOK
    <3>3. Supports(work', a)
      BY <3>2 DEF Supports, Answer, TransactionRow
    <3> HIDE DEF a
    <3> QED
      BY <1>1, <1>2, <3>1, <3>3
  <2> QED
    BY <2>1, <2>2
<1>6. ASSUME NEW w \in Writers, WriteFails(w) PROVE Backed'
  BY <1>1, <1>2, <1>6 DEF WriteFails, Tell
<1>7. ASSUME NEW w \in Writers, Commit(w) PROVE Backed'
  <2>1. PICK y \in KeyRows(req[w].cmd, work) : Tell(Answer(req[w].cmd, "committed", y.result))
    BY <1>7 DEF Commit
  <2> DEFINE a == Answer(req[w].cmd, "committed", y.result)
  <2>2. y.cmd = req[w].cmd /\ ~group
    BY <1>7, <2>1 DEF Commit, WrittenIsOwn, ControlOK
  <2>3. Supports(work, a)
    BY <2>1, <2>2 DEF Supports, KeyRows, Answer
  <2>4. tables' = work /\ UNCHANGED <<work, groupFailed>>
    BY <1>7 DEF Commit
  <2>5. acked' = acked \cup {a} /\ UNCHANGED answers
    BY <2>1, <2>2 DEF Tell
  <2> HIDE DEF a
  <2> QED
    BY <1>1, <1>2, <2>3, <2>4, <2>5
<1>8. ASSUME NEW w \in Writers, GroupCommit(w) PROVE Backed'
  BY <1>1, <1>8 DEF GroupCommit, CloseGroup
<1>9. ASSUME NEW w \in Writers, GroupCommitFails(w) \/ GroupRollback(w) PROVE Backed'
  BY <1>1, <1>9 DEF GroupCommitFails, GroupRollback, CloseGroup
<1>10. ASSUME NEW w \in Writers, GroupBegin(w) PROVE Backed'
  BY <1>10 DEF GroupBegin, ControlOK
<1>11. ASSUME Crash PROVE Backed'
  BY <1>1, <1>11 DEF Crash
<1>12. ASSUME NEW w \in Writers,
              \/ ReadHeads(w) \/ Reject(w) \/ CommitFails(w) \/ (\E c \in Commands : CallAppend(w, c))
              \/ \E o \in work.outbox : MarkOutbox(w, o, "delivered") \/ MarkOutbox(w, o, "retryable")
              \/ \E y \in work.transactions : MarkProjectionRefreshed(w, y)
       PROVE  Backed'
  BY <1>3, <1>12 DEF ReadHeads, Reject, CommitFails, CallAppend, MarkOutbox, MarkProjectionRefreshed, Update
<1>13. ASSUME (\E ready \in BOOLEAN : SetWriteReadiness(ready)) \/ UNCHANGED vars PROVE Backed'
  BY <1>3, <1>13 DEF SetWriteReadiness, vars
<1> QED
  BY <1>4, <1>5, <1>6, <1>7, <1>8, <1>9, <1>10, <1>11, <1>12, <1>13 DEF Next

\* An empty store satisfies the inductive invariant.
LEMMA InvInit == Init => IInv
<1> SUFFICES ASSUME Init PROVE IInv
  OBVIOUS
<1>1. TableOK(EmptyTables) /\ UniqueKeys(EmptyTables)
  BY DEF EmptyTables, TableOK, UniqueKeys
<1>2. tables = EmptyTables /\ work = EmptyTables
  BY DEF Init
<1>3. TablesOK
  BY <1>1, <1>2, ExtendsReflexive DEF TablesOK
<1> QED
  BY <1>3 DEF Init, IInv, ControlOK, WrittenIsOwn, Backed

\* The inductive invariant holds in every reachable state of the store.
LEMMA Invariance == Spec => []IInv
<1>1. IInv /\ [Next]_vars => IInv'
  BY ControlStep, TablesStep, WrittenStep, BackedStep DEF IInv
<1> QED
  BY InvInit, <1>1, PTL DEF Spec

-----------------------------------------------------------------------------
\* The store keeps its types (every handler of event_store.py).
THEOREM TypeCorrect == Spec => []TypeOK
<1>1. IInv => TypeOK
  BY DEF IInv, ControlOK, TablesOK, TableOK, TypeOK
<1> QED
  BY Invariance, <1>1, PTL

\* At most one transaction per idempotency key and per transaction id, however
\* often and by whomever a command is sent (_prepare_append 219-229 and 274).
THEOREM ExactlyOnce == Spec => []AtMostOncePerKey
<1>1. IInv => AtMostOncePerKey
  BY DEF IInv, TablesOK, UniqueKeys, AtMostOncePerKey
<1> QED
  BY Invariance, <1>1, PTL

\* What a caller was told is committed stays committed with the result it was told
\* (append_batch 1108-1140, group_commit 983-1007).
THEOREM AnswersAreDurable == Spec => []AckedIsDurable
<1>1. IInv => AckedIsDurable
  BY DEF IInv, Backed, Supports, AckedIsDurable
<1> QED
  BY Invariance, <1>1, PTL

\* No step, be it a rollback, a crash or a COMMIT of unknown outcome, drops or
\* changes a committed event, transaction or outbox entry.
THEOREM NothingIsDropped == Spec => LedgerOnlyGrows
<1>1. IInv /\ [Next]_vars =>
        [/\ tables.events \subseteq tables'.events
         /\ \A x \in tables.transactions : \E y \in tables'.transactions :
               x.cmd = y.cmd /\ x.result = y.result
         /\ {o.id : o \in tables.outbox} \subseteq {o.id : o \in tables'.outbox}]_vars
  BY TablesStep DEF Extends
<1> QED
  BY Invariance, <1>1, PTL DEF Spec, LedgerOnlyGrows

-----------------------------------------------------------------------------
(* A group is all or nothing                                                 *)

\* An append that was told of a failure has doomed its group.
FailedDooms == \A a \in answers : a.status = "failed" => groupFailed

\* What a group's own writer was told decides how the group may end: nothing but
\* the closing of the scope takes the mark of the failure away.
LEMMA FailedStep ==
    ASSUME IInv, FailedDooms, [Next]_vars
    PROVE  FailedDooms'
<1> USE DEF FailedDooms
<1>1. ASSUME answers' = {} \/ UNCHANGED <<answers, groupFailed>> PROVE FailedDooms'
  BY <1>1
<1>3. ASSUME NEW w \in Writers, Replay(w) PROVE FailedDooms'
  BY <1>3 DEF Replay, Tell, Answer
<1>4. ASSUME NEW w \in Writers, WriteRows(w) PROVE FailedDooms'
  BY <1>4 DEF WriteRows, Tell, Answer
<1>5. ASSUME NEW w \in Writers, WriteFails(w) PROVE FailedDooms'
  BY <1>5 DEF WriteFails
<1>6. ASSUME NEW w \in Writers, Commit(w) PROVE FailedDooms'
  BY <1>6 DEF Commit, Tell, IInv, ControlOK
<1>7. ASSUME NEW w \in Writers, GroupBegin(w) PROVE FailedDooms'
  BY <1>7, NoWriterAssumption DEF GroupBegin, IInv, ControlOK
<1>8. ASSUME NEW w \in Writers, GroupCommit(w) \/ GroupCommitFails(w) \/ GroupRollback(w) PROVE FailedDooms'
  BY <1>8 DEF GroupCommit, GroupCommitFails, GroupRollback, CloseGroup
<1>9. ASSUME NEW w \in Writers,
             \/ ReadHeads(w) \/ Reject(w) \/ CommitFails(w) \/ (\E c \in Commands : CallAppend(w, c))
             \/ \E o \in work.outbox : MarkOutbox(w, o, "delivered") \/ MarkOutbox(w, o, "retryable")
             \/ \E y \in work.transactions : MarkProjectionRefreshed(w, y)
      PROVE  FailedDooms'
  BY <1>1, <1>9 DEF ReadHeads, Reject, CommitFails, CallAppend, MarkOutbox, MarkProjectionRefreshed, Update
<1>10. ASSUME Crash \/ (\E ready \in BOOLEAN : SetWriteReadiness(ready)) \/ UNCHANGED vars PROVE FailedDooms'
  BY <1>1, <1>10 DEF Crash, SetWriteReadiness, vars
<1> QED
  BY <1>3, <1>4, <1>5, <1>6, <1>7, <1>8, <1>9, <1>10 DEF Next

\* A scope closes by a COMMIT of all that its transaction holds, when nothing of it
\* has failed, or leaves the committed tables as they were.
LEMMA GroupEnds ==
    ASSUME IInv, [Next]_vars, group, ~group'
    PROVE  tables' = tables \/ (tables' = work /\ ~groupFailed)
<1>1. ASSUME NEW w \in Writers, GroupCommit(w) \/ GroupCommitFails(w) \/ GroupRollback(w)
      PROVE  tables' = tables \/ (tables' = work /\ ~groupFailed)
  BY <1>1 DEF GroupCommit, GroupCommitFails, GroupRollback
<1>2. ASSUME Crash PROVE tables' = tables
  BY <1>2 DEF Crash
<1>3. ASSUME NEW w \in Writers,
             \/ ReadHeads(w) \/ Reject(w) \/ Replay(w) \/ WriteRows(w) \/ WriteFails(w)
             \/ Commit(w) \/ CommitFails(w) \/ (\E c \in Commands : CallAppend(w, c))
      PROVE  FALSE
  BY <1>3 DEF ReadHeads, Reject, Replay, WriteRows, WriteFails, Commit, CommitFails, CallAppend
<1>4. ASSUME NEW w \in Writers,
             \/ GroupBegin(w)
             \/ \E o \in work.outbox : MarkOutbox(w, o, "delivered") \/ MarkOutbox(w, o, "retryable")
             \/ \E y \in work.transactions : MarkProjectionRefreshed(w, y)
      PROVE  FALSE
  BY <1>4 DEF GroupBegin, MarkOutbox, MarkProjectionRefreshed, Update
<1>5. ASSUME (\E ready \in BOOLEAN : SetWriteReadiness(ready)) \/ UNCHANGED vars PROVE FALSE
  BY <1>5 DEF SetWriteReadiness, vars
<1> QED
  BY <1>1, <1>2, <1>3, <1>4, <1>5 DEF Next

GroupEnding ==
    group /\ ~group' =>
      LET before == {x.cmd.key : x \in tables.transactions}
          told   == {a.key : a \in {b \in answers : b.status = "committed"}} \ before
          kept   == {x.cmd.key : x \in tables'.transactions} \ before
      IN  /\ kept = {} \/ told \subseteq kept
          /\ (\E a \in answers : a.status = "failed") => kept = {}

\* The ending of a group, with what it was told and what it leaves.
LEMMA GroupEndingStep ==
    ASSUME IInv, FailedDooms, [Next]_vars
    PROVE  GroupEnding
<1> SUFFICES ASSUME group, ~group' PROVE GroupEnding
  BY DEF GroupEnding
<1>1. CASE tables' = tables
  BY <1>1 DEF GroupEnding
<1>2. CASE tables' = work /\ ~groupFailed
  <2>1. \A a \in answers : a.status # "failed" /\ \E x \in work.transactions : x.cmd.key = a.key
    BY <1>2 DEF FailedDooms, IInv, Backed, Supports
  <2> QED
    BY <1>2, <2>1 DEF GroupEnding
<1> QED
  BY <1>1, <1>2, GroupEnds

\* A group is all or nothing for its caller: when the scope closes, by a COMMIT, a
\* failing COMMIT, a rollback or a crash, either every append it was told "committed"
\* is in the database or none that the group added, and none after a failure
\* (group_commit 983-1007, append_batch 1135-1137).
THEOREM GroupsAreWhole == Spec => GroupAllOrNothing
<1>1. Init => FailedDooms
  BY DEF Init, FailedDooms
<1>2. IInv /\ FailedDooms /\ [Next]_vars => FailedDooms'
  BY FailedStep
<1>3. IInv /\ FailedDooms /\ [Next]_vars => [GroupEnding]_vars
  BY GroupEndingStep
<1>4. [GroupEnding]_vars <=>
      [group /\ ~group' =>
         LET before == {x.cmd.key : x \in tables.transactions}
             told   == {a.key : a \in {b \in answers : b.status = "committed"}} \ before
             kept   == {x.cmd.key : x \in tables'.transactions} \ before
         IN  /\ kept = {} \/ told \subseteq kept
             /\ (\E a \in answers : a.status = "failed") => kept = {}]_vars
  BY DEF GroupEnding
<1> QED
  BY <1>1, <1>2, <1>3, <1>4, Invariance, PTL DEF Spec, GroupAllOrNothing

-----------------------------------------------------------------------------
(* Whole batches, contiguous numbers, current reads: kept in the committed   *)
(* database, and in the open transaction unless its group is doomed.         *)

Whole(t) ==
    /\ {<<e.tx, e.id>> : e \in t.events} =
          UNION {{<<x.cmd.tx, i>> : i \in EventIds(x.cmd)} : x \in t.transactions}
    /\ {<<o.tx, o.id>> : o \in t.outbox} =
          UNION {{<<x.cmd.tx, o.id>> : o \in x.cmd.outbox} : x \in t.transactions}

OnStream(t, s) == {e \in t.events : e.stream = s}

Numbered(t) ==
    /\ IsFiniteSet(t.events)
    /\ {e.seq : e \in t.events} = 1..t.last /\ Cardinality(t.events) = t.last
    /\ \A s \in Streams : /\ {e.rev : e \in OnStream(t, s)} = 1..t.heads[s]
                           /\ Cardinality(OnStream(t, s)) = t.heads[s]

Current(t) ==
    \A x \in t.transactions :
        /\ x.result.first \in Nat /\ x.result.first <= t.last + 1
        /\ \A s \in DOMAIN x.expected : x.expected[s] = HeadBefore(t, s, x.result.first)
        /\ \A s \in DOMAIN x.reads : x.reads[s] = HeadBefore(t, s, x.result.first)

Sound(t) == Whole(t) /\ Numbered(t) /\ Current(t)

\* The i-th row of a batch.
Row(b, t, i) ==
    [id |-> b.cmd.events[i].id, tx |-> b.cmd.tx, seq |-> t.last + i,
     stream |-> b.cmd.events[i].stream,
     rev |-> t.heads[b.cmd.events[i].stream] + CountUpTo(b.cmd, b.cmd.events[i].stream, i)]

RowsAt(b, t, I) == {Row(b, t, i) : i \in I}

\* The indices of a batch's events on one stream.
Places(c, s) == {j \in 1..Len(c.events) : c.events[j].stream = s}

\* What the tables hold when every statement of a batch has run.
LEMMA WriteDeltaIs ==
    ASSUME NEW b, NEW t, TableOK(t)
    PROVE  /\ WriteDelta(b, t).transactions = t.transactions \cup {TransactionRow(b, t)}
           /\ WriteDelta(b, t).events = t.events \cup EventRows(b, t)
           /\ WriteDelta(b, t).outbox = t.outbox \cup OutboxRows(b)
           /\ WriteDelta(b, t).last = t.last + Len(b.cmd.events)
           /\ WriteDelta(b, t).heads = [s \in Streams |->
                  IF s \in Written(b.cmd) THEN t.heads[s] + CountUpTo(b.cmd, s, Len(b.cmd.events)) ELSE t.heads[s]]
<1> DEFINE row == TransactionRow(b, t)
           rows == EventRows(b, t)
           entries == OutboxRows(b)
           result == ResultOf(b, t)
           heads == [s \in Streams |-> IF s \in Written(b.cmd) THEN result.revisions[s] ELSE t.heads[s]]
           v == Inserted(b, t, rows, Written(b.cmd), entries)
<1>1. WriteDelta(b, t) = [v EXCEPT !.last = result.last]
  BY DEF WriteDelta
<1>2. DOMAIN t = {"transactions", "events", "outbox", "heads", "last"}
  BY DEF TableOK
<1>3. /\ result.last = t.last + Len(b.cmd.events)
      /\ heads = [s \in Streams |-> IF s \in Written(b.cmd)
                                    THEN t.heads[s] + CountUpTo(b.cmd, s, Len(b.cmd.events)) ELSE t.heads[s]]
  BY DEF ResultOf
<1>4. v = [t EXCEPT !.transactions = @ \cup {row}, !.events = @ \cup rows, !.heads = heads,
                    !.outbox = @ \cup entries]
  BY DEF Inserted
<1> HIDE DEF row, rows, entries, result, heads, v
<1>5. /\ DOMAIN v = DOMAIN t /\ v.transactions = t.transactions \cup {row} /\ v.events = t.events \cup rows
      /\ v.outbox = t.outbox \cup entries /\ v.heads = heads
  BY <1>2, <1>4
<1> QED
  BY <1>1, <1>2, <1>3, <1>5 DEF row, rows, entries

\* The interval from one to n has n members.
LEMMA UpTo ==
    ASSUME NEW n \in Nat
    PROVE  IsFiniteSet(1..n) /\ Cardinality(1..n) = n
  BY FS_Interval

\* A batch adds one row for each of its events, at its own place.
LEMMA RowsOfBatch ==
    ASSUME NEW b, NEW t, TableOK(t), b.cmd \in Commands
    PROVE  /\ EventRows(b, t) = RowsAt(b, t, 1..Len(b.cmd.events))
           /\ \A I \in SUBSET (1..Len(b.cmd.events)) :
                 /\ IsFiniteSet(RowsAt(b, t, I))
                 /\ Cardinality(RowsAt(b, t, I)) = Cardinality(I)
<1> DEFINE N == Len(b.cmd.events)
<1>1. N \in Nat /\ DOMAIN b.cmd.events = 1..N /\ t.last \in Nat
  BY CommandEvents DEF TableOK
<1>2. EventRows(b, t) = RowsAt(b, t, 1..N)
  BY <1>1 DEF EventRows, Row, RowsAt
<1>3. \A i \in 1..N : Row(b, t, i).seq = t.last + i
  BY DEF Row
<1>4. ASSUME NEW I \in SUBSET (1..N)
      PROVE  IsFiniteSet(RowsAt(b, t, I)) /\ Cardinality(RowsAt(b, t, I)) = Cardinality(I)
  <2> DEFINE T == {Row(b, t, i) : i \in I}
             f == [i \in I |-> Row(b, t, i)]
  <2>1. IsFiniteSet(I)
    <3> HIDE DEF N
    <3>1. IsFiniteSet(1..N)
      BY <1>1, UpTo
    <3> QED
      BY <3>1, FS_Subset
  <2>2. \A i, j \in I : f[i] = f[j] => i = j
    <3> SUFFICES ASSUME NEW i \in I, NEW j \in I, Row(b, t, i) = Row(b, t, j) PROVE i = j
      OBVIOUS
    <3>1. t.last + i = t.last + j /\ i \in Int /\ j \in Int
      BY <1>3
    <3> QED
      BY <1>1, <3>1
  <2>3. f \in Bijection(I, T)
    BY <2>2 DEF Bijection, Injection, Surjection, IsInjective
  <2>4. ExistsBijection(I, T)
    BY <2>3 DEF ExistsBijection
  <2> HIDE DEF T
  <2>5. IsFiniteSet(T) /\ Cardinality(T) = Cardinality(I)
    BY <2>1, <2>4, FS_Bijection
  <2> QED
    BY <2>1, <2>5 DEF T, RowsAt
<1> QED
  BY <1>2, <1>4

\* The events of a batch on one stream are counted from one, without a hole.
LEMMA PlacesRanked ==
    ASSUME NEW c \in Commands, NEW s
    PROVE  /\ Places(c, s) \in SUBSET (1..Len(c.events)) /\ IsFiniteSet(Places(c, s))
           /\ Cardinality(Places(c, s)) \in Nat /\ CountUpTo(c, s, Len(c.events)) = Cardinality(Places(c, s))
           /\ {CountUpTo(c, s, i) : i \in Places(c, s)} = 1..Cardinality(Places(c, s))
<1> DEFINE N == Len(c.events)
           P == Places(c, s)
           K == Cardinality(P)
           Rank(i) == Cardinality({j \in P : j <= i})
<1>1. N \in Nat
  BY CommandEvents
<1>2. P \in SUBSET (1..N) /\ P \in SUBSET Nat
  BY <1>1 DEF Places
<1>3. IsFiniteSet(P)
  <2>1. IsFiniteSet(1..N)
    BY <1>1, FS_Interval
  <2> QED
    BY <1>2, <2>1, FS_Subset
<1>4. K \in Nat
  BY <1>3, FS_CardinalityType
<1>5. \A i \in 1..N : CountUpTo(c, s, i) = Rank(i)
  <2> SUFFICES ASSUME NEW i \in 1..N PROVE CountUpTo(c, s, i) = Rank(i)
    OBVIOUS
  <2>1. {j \in 1..i : c.events[j].stream = s} = {j \in P : j <= i}
    BY <1>1 DEF Places
  <2> QED
    BY <2>1 DEF CountUpTo
<1>6. CountUpTo(c, s, N) = K
  BY <1>1 DEF CountUpTo, Places
<1>7. \A i \in P : Rank(i) \in 1..K
  BY <1>2, <1>3, RankOrders
<1>8. \A n \in 1..K : \E i \in P : Rank(i) = n
  BY <1>2, <1>3, RankOnto
<1> HIDE DEF P, K, Rank
<1>9. {CountUpTo(c, s, i) : i \in P} = 1..K
  <2>1. \A i \in P : CountUpTo(c, s, i) = Rank(i)
    BY <1>2, <1>5
  <2> QED
    BY <1>7, <1>8, <2>1
<1> QED
  BY <1>2, <1>3, <1>4, <1>6, <1>9 DEF P, K

\* Writing an admissible batch keeps the numbering.
LEMMA BatchNumbered ==
    ASSUME NEW b, NEW t, TableOK(t), b.cmd \in Commands, Numbered(t)
    PROVE  Numbered(WriteDelta(b, t))
<1> DEFINE c == b.cmd
           N == Len(c.events)
           u == WriteDelta(b, t)
           rows == EventRows(b, t)
<1>1. N \in Nat /\ t.last \in Nat /\ (\A s \in Streams : t.heads[s] \in Nat)
  BY CommandEvents DEF TableOK
<1>2. /\ u.events = t.events \cup rows /\ u.last = t.last + N
      /\ u.heads = [s \in Streams |->
             IF s \in Written(c) THEN t.heads[s] + CountUpTo(c, s, N) ELSE t.heads[s]]
  BY WriteDeltaIs
<1>3. /\ rows = {Row(b, t, i) : i \in 1..N}
      /\ IsFiniteSet(rows) /\ Cardinality(rows) = N
  <2>1. rows = RowsAt(b, t, 1..N) /\ IsFiniteSet(rows) /\ Cardinality(rows) = Cardinality(1..N)
    BY RowsOfBatch
  <2> HIDE DEF N, rows
  <2>2. Cardinality(1..N) = N
    BY <1>1, UpTo
  <2> QED
    BY <2>1, <2>2 DEF RowsAt
<1>4. \A i \in 1..N : /\ Row(b, t, i).seq = t.last + i
                      /\ Row(b, t, i).stream = c.events[i].stream
                      /\ Row(b, t, i).rev = t.heads[c.events[i].stream] + CountUpTo(c, c.events[i].stream, i)
  BY DEF Row
<1>5. \A e \in t.events : e.seq \in 1..t.last
  BY DEF Numbered
<1>6. \A e \in rows : e \notin t.events
  BY <1>1, <1>3, <1>4, <1>5
<1> HIDE DEF u, rows
<1>7. IsFiniteSet(u.events) /\ Cardinality(u.events) = u.last
  <2>1. t.events \cap rows = {} /\ IsFiniteSet(t.events) /\ Cardinality(t.events) = t.last
    BY <1>6 DEF Numbered
  <2>2. /\ IsFiniteSet(t.events \cup rows)
        /\ Cardinality(t.events \cup rows) = Cardinality(t.events) + Cardinality(rows) - Cardinality({})
    BY <1>3, <2>1, FS_Union
  <2> QED
    BY <1>1, <1>2, <1>3, <2>1, <2>2, FS_EmptySet
<1>8. {e.seq : e \in u.events} = 1..u.last
  <2>1. ASSUME NEW n \in 1..(t.last + N) PROVE \E e \in u.events : e.seq = n
    <3>1. CASE n <= t.last
      <4>1. n \in {e.seq : e \in t.events}
        BY <1>1, <3>1 DEF Numbered
      <4> QED
        BY <1>2, <4>1
    <3>2. CASE n > t.last
      <4>1. n - t.last \in 1..N
        BY <1>1, <3>2
      <4>2. Row(b, t, n - t.last).seq = t.last + (n - t.last)
        BY <1>4, <4>1
      <4>3. Row(b, t, n - t.last).seq = n
        BY <1>1, <4>2
      <4> QED
        BY <1>2, <1>3, <4>1, <4>3
    <3> QED
      BY <1>1, <3>1, <3>2
  <2>2. ASSUME NEW e \in u.events PROVE e.seq \in 1..(t.last + N)
    BY <1>1, <1>2, <1>3, <1>4, <1>5
  <2>3. {e.seq : e \in u.events} \subseteq 1..(t.last + N)
    BY <2>2
  <2>4. 1..(t.last + N) \subseteq {e.seq : e \in u.events}
    BY <2>1
  <2> QED
    BY <1>2, <2>3, <2>4
<1>9. ASSUME NEW s \in Streams
      PROVE  {e.rev : e \in OnStream(u, s)} = 1..u.heads[s] /\ Cardinality(OnStream(u, s)) = u.heads[s]
  <2> DEFINE P == Places(c, s)
             K == Cardinality(P)
             mine == RowsAt(b, t, P)
             old == OnStream(t, s)
  <2>1. /\ P \in SUBSET (1..N) /\ IsFiniteSet(P) /\ K \in Nat /\ CountUpTo(c, s, N) = K
        /\ {CountUpTo(c, s, i) : i \in P} = 1..K
    BY PlacesRanked
  <2>2. IsFiniteSet(mine) /\ Cardinality(mine) = K
    BY <2>1, RowsOfBatch
  <2>3. OnStream(u, s) = old \cup mine
    BY <1>2, <1>3, <1>4 DEF OnStream, Places, RowsAt
  <2>4. u.heads[s] = t.heads[s] + K
    <3>1. CASE s \in Written(c)
      BY <1>2, <2>1, <3>1
    <3>2. CASE s \notin Written(c)
      <4>1. P = {}
        BY <3>2, CommandEvents DEF Written, Places
      <4>2. K = 0
        BY <4>1, FS_EmptySet
      <4> QED
        BY <1>1, <1>2, <3>2, <4>2
    <3> QED
      BY <3>1, <3>2
  <2>5. /\ IsFiniteSet(old) /\ Cardinality(old) = t.heads[s]
        /\ {e.rev : e \in old} = 1..t.heads[s]
    BY FS_Subset DEF Numbered, OnStream
  <2>6. old \cap mine = {}
    BY <1>3, <1>6, <2>1 DEF OnStream, RowsAt
  <2>7. \A i \in P : Row(b, t, i).rev = t.heads[s] + CountUpTo(c, s, i)
    BY <1>4, <2>1 DEF Places
  <2> HIDE DEF P, K, mine, old
  <2>8. Cardinality(old \cup mine) = Cardinality(old) + Cardinality(mine)
    <3>1. Cardinality(old \cup mine) = Cardinality(old) + Cardinality(mine) - Cardinality({})
      BY <2>2, <2>5, <2>6, FS_Union
    <3> QED
      BY <1>1, <2>1, <2>2, <2>5, <3>1, FS_EmptySet
  <2>9. Cardinality(OnStream(u, s)) = u.heads[s]
    BY <2>2, <2>3, <2>4, <2>5, <2>8
  <2>10. {e.rev : e \in mine} = (t.heads[s] + 1)..(t.heads[s] + K)
    <3>1. ASSUME NEW e \in mine PROVE e.rev \in (t.heads[s] + 1)..(t.heads[s] + K)
      <4>1. PICK i \in P : e = Row(b, t, i)
        BY <3>1 DEF mine, RowsAt
      <4>2. CountUpTo(c, s, i) \in 1..K
        BY <2>1
      <4> QED
        BY <1>1, <2>1, <2>7, <4>1, <4>2
    <3>2. ASSUME NEW n \in (t.heads[s] + 1)..(t.heads[s] + K) PROVE \E e \in mine : e.rev = n
      <4>1. n - t.heads[s] \in 1..K
        BY <1>1, <2>1, <3>2
      <4>2. PICK i \in P : CountUpTo(c, s, i) = n - t.heads[s]
        BY <2>1, <4>1
      <4>3. Row(b, t, i).rev = t.heads[s] + (n - t.heads[s])
        BY <2>7, <4>2
      <4>4. Row(b, t, i).rev = n
        BY <1>1, <2>1, <3>2, <4>3
      <4> QED
        BY <4>4 DEF mine, RowsAt
    <3>3. {e.rev : e \in mine} \subseteq (t.heads[s] + 1)..(t.heads[s] + K)
      BY <3>1
    <3>4. (t.heads[s] + 1)..(t.heads[s] + K) \subseteq {e.rev : e \in mine}
      BY <3>2
    <3> QED
      BY <3>3, <3>4
  <2>11. {e.rev : e \in OnStream(u, s)} = {e.rev : e \in old} \cup {e.rev : e \in mine}
    BY <2>3
  <2>12. 1..t.heads[s] \cup (t.heads[s] + 1)..(t.heads[s] + K) = 1..(t.heads[s] + K)
    BY <1>1, <2>1
  <2> QED
    BY <2>4, <2>5, <2>9, <2>10, <2>11, <2>12
<1> QED
  BY <1>7, <1>8, <1>9 DEF Numbered, u

\* Writing a batch brings in exactly its events and its outbox entries.
LEMMA BatchWhole ==
    ASSUME NEW b, NEW t, TableOK(t), Whole(t)
    PROVE  Whole(WriteDelta(b, t))
<1> DEFINE u == WriteDelta(b, t)
           row == TransactionRow(b, t)
           EventsOf(c) == {<<c.tx, i>> : i \in EventIds(c)}
           EntriesOf(c) == {<<c.tx, o.id>> : o \in c.outbox}
<1>1. /\ u.transactions = t.transactions \cup {row}
      /\ u.events = t.events \cup EventRows(b, t) /\ u.outbox = t.outbox \cup OutboxRows(b)
  BY WriteDeltaIs
<1>2. row.cmd = b.cmd
  BY DEF TransactionRow
<1>3. {<<e.tx, e.id>> : e \in EventRows(b, t)} = EventsOf(b.cmd)
  <2>1. ASSUME NEW e \in EventRows(b, t) PROVE <<e.tx, e.id>> \in EventsOf(b.cmd)
    BY DEF EventRows, EventIds
  <2>2. ASSUME NEW i \in DOMAIN b.cmd.events
        PROVE  \E e \in EventRows(b, t) : e.tx = b.cmd.tx /\ e.id = b.cmd.events[i].id
    <3>1. Row(b, t, i) \in EventRows(b, t)
      BY DEF Row, EventRows
    <3> QED
      BY <3>1 DEF Row
  <2> QED
    BY <2>1, <2>2 DEF EventIds
<1>4. {<<o.tx, o.id>> : o \in OutboxRows(b)} = EntriesOf(b.cmd)
  <2>1. ASSUME NEW o \in OutboxRows(b) PROVE <<o.tx, o.id>> \in EntriesOf(b.cmd)
    BY DEF OutboxRows
  <2>2. ASSUME NEW p \in b.cmd.outbox PROVE \E o \in OutboxRows(b) : o.tx = b.cmd.tx /\ o.id = p.id
    <3> DEFINE o == [id |-> p.id, tx |-> b.cmd.tx, event |-> p.event, state |-> "pending"]
    <3>1. o \in OutboxRows(b) /\ o.tx = b.cmd.tx /\ o.id = p.id
      BY DEF OutboxRows
    <3> QED
      BY <3>1
  <2> QED
    BY <2>1, <2>2
<1> DEFINE EventsBy(v) == UNION {EventsOf(x.cmd) : x \in v.transactions}
           EntriesBy(v) == UNION {EntriesOf(x.cmd) : x \in v.transactions}
           EventsIn(v) == {<<e.tx, e.id>> : e \in v.events}
           EntriesIn(v) == {<<o.tx, o.id>> : o \in v.outbox}
<1> HIDE DEF u, row, EventsOf, EntriesOf
<1>5. \A v, p : /\ p \in EventsBy(v) <=> \E x \in v.transactions : p \in EventsOf(x.cmd)
                /\ p \in EntriesBy(v) <=> \E x \in v.transactions : p \in EntriesOf(x.cmd)
  OBVIOUS
<1>6. EventsIn(u) = EventsIn(t) \cup EventsOf(b.cmd)
  <2>1. EventsIn(u) = EventsIn(t) \cup {<<e.tx, e.id>> : e \in EventRows(b, t)}
    BY <1>1
  <2> QED
    BY <1>3, <2>1
<1>7. EntriesIn(u) = EntriesIn(t) \cup EntriesOf(b.cmd)
  <2>1. EntriesIn(u) = EntriesIn(t) \cup {<<o.tx, o.id>> : o \in OutboxRows(b)}
    BY <1>1
  <2> QED
    BY <1>4, <2>1
<1>8. EventsIn(t) = EventsBy(t) /\ EntriesIn(t) = EntriesBy(t)
  BY DEF Whole, EventsOf, EntriesOf
<1> HIDE DEF EventsBy, EntriesBy, EventsIn, EntriesIn
<1>9. \A p : p \in EventsBy(u) <=> p \in EventsBy(t) \cup EventsOf(b.cmd)
  BY <1>1, <1>2, <1>5
<1>10. \A p : p \in EntriesBy(u) <=> p \in EntriesBy(t) \cup EntriesOf(b.cmd)
  BY <1>1, <1>2, <1>5
<1>11. EventsBy(u) = EventsIn(u) /\ EntriesBy(u) = EntriesIn(u)
  <2>1. EventsBy(u) = EventsBy(t) \cup EventsOf(b.cmd) /\ EntriesBy(u) = EntriesBy(t) \cup EntriesOf(b.cmd)
    BY <1>9, <1>10, Zenon
  <2> QED
    BY <1>6, <1>7, <1>8, <2>1
<1> QED
  BY <1>11 DEF Whole, EventsBy, EntriesBy, EventsIn, EntriesIn, EventsOf, EntriesOf, u

\* Writing an admissible batch leaves every batch numbered against the heads it cited.
LEMMA BatchCurrent ==
    ASSUME NEW b, NEW t, TableOK(t), b.cmd \in Commands, Numbered(t), Current(t), RevisionsHold(b, t),
           DOMAIN b.expected \subseteq Streams, DOMAIN b.reads \subseteq Streams
    PROVE  Current(WriteDelta(b, t))
<1> DEFINE u == WriteDelta(b, t)
           row == TransactionRow(b, t)
<1>1. Len(b.cmd.events) \in Nat /\ t.last \in Nat
  BY CommandEvents DEF TableOK
<1>2. /\ u.transactions = t.transactions \cup {row} /\ u.events = t.events \cup EventRows(b, t)
      /\ u.last = t.last + Len(b.cmd.events)
  BY WriteDeltaIs
<1>3. row.expected = b.expected /\ row.reads = b.reads /\ row.result.first = t.last + 1
  BY DEF TransactionRow, ResultOf
<1>4. \A e \in EventRows(b, t) : e.seq > t.last /\ e.seq \in Nat
  <2> SUFFICES ASSUME NEW e \in EventRows(b, t) PROVE e.seq > t.last /\ e.seq \in Nat
    OBVIOUS
  <2>1. PICK i \in 1..Len(b.cmd.events) : e = Row(b, t, i)
    BY RowsOfBatch DEF RowsAt
  <2>2. e.seq = t.last + i
    BY <2>1 DEF Row
  <2> QED
    BY <1>1, <2>2
<1>5. \A e \in t.events : e.seq \in 1..t.last
  BY DEF Numbered
<1> HIDE DEF u, row
<1>6. ASSUME NEW s, NEW n \in Nat, n <= t.last + 1 PROVE HeadBefore(u, s, n) = HeadBefore(t, s, n)
  <2>1. {e \in u.events : e.stream = s /\ e.seq < n} = {e \in t.events : e.stream = s /\ e.seq < n}
    BY <1>1, <1>2, <1>4, <1>6
  <2> QED
    BY <2>1 DEF HeadBefore
<1>7. ASSUME NEW s \in Streams PROVE HeadBefore(t, s, t.last + 1) = t.heads[s]
  <2>1. {e \in t.events : e.stream = s /\ e.seq < t.last + 1} = OnStream(t, s)
    BY <1>1, <1>5 DEF OnStream
  <2> QED
    BY <2>1 DEF HeadBefore, Numbered
<1> SUFFICES ASSUME NEW x \in u.transactions
             PROVE  /\ x.result.first \in Nat /\ x.result.first <= u.last + 1
                    /\ \A s \in DOMAIN x.expected : x.expected[s] = HeadBefore(u, s, x.result.first)
                    /\ \A s \in DOMAIN x.reads : x.reads[s] = HeadBefore(u, s, x.result.first)
  BY DEF Current, u
<1>8. CASE x \in t.transactions
  <2>1. /\ x.result.first \in Nat /\ x.result.first <= t.last + 1
        /\ \A s \in DOMAIN x.expected : x.expected[s] = HeadBefore(t, s, x.result.first)
        /\ \A s \in DOMAIN x.reads : x.reads[s] = HeadBefore(t, s, x.result.first)
    BY <1>8 DEF Current
  <2> QED
    BY <1>1, <1>2, <1>6, <2>1
<1>9. CASE x = row
  <2>1. t.last + 1 \in Nat /\ t.last + 1 <= u.last + 1
    BY <1>1, <1>2
  <2>2. \A s \in Streams : HeadBefore(u, s, t.last + 1) = t.heads[s]
    BY <1>6, <1>7, <2>1
  <2> QED
    BY <1>3, <1>9, <2>1, <2>2 DEF RevisionsHold
<1> QED
  BY <1>2, <1>8, <1>9

\* Tables with the same numbered rows are as sound: the delivery and refresh marks
\* do not count.
LEMMA SoundSameRows ==
    ASSUME NEW t, NEW u, Sound(t), u.events = t.events, u.heads = t.heads, u.last = t.last,
           {<<o.tx, o.id>> : o \in u.outbox} = {<<o.tx, o.id>> : o \in t.outbox},
           \A x \in t.transactions : \E y \in u.transactions : x.cmd = y.cmd,
           \A y \in u.transactions : \E x \in t.transactions :
              x.cmd = y.cmd /\ x.expected = y.expected /\ x.reads = y.reads /\ x.result = y.result
    PROVE  Sound(u)
<1>1. Whole(u)
  <2> DEFINE EventsOf(c) == {<<c.tx, i>> : i \in EventIds(c)}
             EntriesOf(c) == {<<c.tx, o.id>> : o \in c.outbox}
  <2>1. /\ {<<e.tx, e.id>> : e \in t.events} = UNION {EventsOf(x.cmd) : x \in t.transactions}
        /\ {<<o.tx, o.id>> : o \in t.outbox} = UNION {EntriesOf(x.cmd) : x \in t.transactions}
    BY DEF Sound, Whole
  <2> HIDE DEF EventsOf, EntriesOf
  <2>2. UNION {EventsOf(x.cmd) : x \in t.transactions} = UNION {EventsOf(x.cmd) : x \in u.transactions}
    OBVIOUS
  <2>3. UNION {EntriesOf(x.cmd) : x \in t.transactions} = UNION {EntriesOf(x.cmd) : x \in u.transactions}
    OBVIOUS
  <2>4. /\ {<<e.tx, e.id>> : e \in u.events} = UNION {EventsOf(x.cmd) : x \in u.transactions}
        /\ {<<o.tx, o.id>> : o \in u.outbox} = UNION {EntriesOf(x.cmd) : x \in u.transactions}
    BY <2>1, <2>2, <2>3
  <2> QED
    BY <2>4 DEF Whole, EventsOf, EntriesOf
<1>2. \A s : OnStream(u, s) = OnStream(t, s)
  BY DEF OnStream
<1>3. Numbered(u)
  BY <1>2 DEF Sound, Numbered
<1>4. \A s, n : HeadBefore(u, s, n) = HeadBefore(t, s, n)
  BY DEF HeadBefore
<1>5. Current(u)
  BY <1>4 DEF Sound, Current
<1> QED
  BY <1>1, <1>3, <1>5 DEF Sound

\* What the batches under way cite are streams of the store.
CitesStreams ==
    \A w \in Writers : pc[w] # "idle" => /\ DOMAIN req[w].expected \subseteq Streams
                                         /\ DOMAIN req[w].reads \subseteq Streams

SoundInv ==
    /\ Sound(tables)
    /\ ~groupFailed => Sound(work)
    /\ groupFailed => group
    /\ CitesStreams

\* Writing an admissible batch keeps the tables sound.
LEMMA BatchSound ==
    ASSUME IInv, CitesStreams, NEW w \in Writers, pc[w] = "called", Admissible(req[w], work), Sound(work)
    PROVE  Sound(WriteDelta(req[w], work))
<1>1. TableOK(work) /\ req[w].cmd \in Commands /\ Whole(work) /\ Numbered(work) /\ Current(work)
  BY DEF IInv, ControlOK, TablesOK, Sound
<1>2. DOMAIN req[w].expected \subseteq Streams /\ DOMAIN req[w].reads \subseteq Streams
  BY DEF CitesStreams
<1>3. RevisionsHold(req[w], work)
  BY DEF Admissible
<1> QED
  BY <1>1, <1>2, <1>3, BatchWhole, BatchNumbered, BatchCurrent DEF Sound

\* The delivery and refresh marks keep the tables sound.
LEMMA MarksSound ==
    ASSUME NEW t, TableOK(t), Sound(t)
    PROVE  /\ \A o \in t.outbox, st \in {"retryable", "delivered"} :
                 Sound([t EXCEPT !.outbox = (@ \ {o}) \cup {[o EXCEPT !.state = st]}])
           /\ \A x \in t.transactions :
                 Sound([t EXCEPT !.transactions = (@ \ {x}) \cup {[x EXCEPT !.refresh = "done"]}])
<1>1. ASSUME NEW o \in t.outbox, NEW st
      PROVE  Sound([t EXCEPT !.outbox = (@ \ {o}) \cup {[o EXCEPT !.state = st]}])
  <2> DEFINE p == [o EXCEPT !.state = st]
             u == [t EXCEPT !.outbox = (@ \ {o}) \cup {p}]
  <2>1. p.id = o.id /\ p.tx = o.tx
    BY DEF TableOK, OutboxFields
  <2> HIDE DEF p
  <2>2. /\ u.outbox = (t.outbox \ {o}) \cup {p} /\ u.transactions = t.transactions
        /\ u.events = t.events /\ u.heads = t.heads /\ u.last = t.last
    BY DEF TableOK
  <2> HIDE DEF u
  <2>3. {<<q.tx, q.id>> : q \in u.outbox} = {<<q.tx, q.id>> : q \in t.outbox}
    BY <2>1, <2>2
  <2>4. Sound(u)
    BY <2>2, <2>3, SoundSameRows
  <2> QED
    BY <2>4 DEF u, p
<1>2. ASSUME NEW x \in t.transactions
      PROVE  Sound([t EXCEPT !.transactions = (@ \ {x}) \cup {[x EXCEPT !.refresh = "done"]}])
  <2> DEFINE y == [x EXCEPT !.refresh = "done"]
             u == [t EXCEPT !.transactions = (@ \ {x}) \cup {y}]
  <2>1. y.cmd = x.cmd /\ y.expected = x.expected /\ y.reads = x.reads /\ y.result = x.result
    BY DEF TableOK, TransactionFields
  <2> HIDE DEF y
  <2>2. /\ u.transactions = (t.transactions \ {x}) \cup {y} /\ u.outbox = t.outbox
        /\ u.events = t.events /\ u.heads = t.heads /\ u.last = t.last
    BY DEF TableOK
  <2> HIDE DEF u
  <2>3. \A z \in t.transactions : \E v \in u.transactions : z.cmd = v.cmd
    BY <2>1, <2>2
  <2>4. \A v \in u.transactions : \E z \in t.transactions :
           z.cmd = v.cmd /\ z.expected = v.expected /\ z.reads = v.reads /\ z.result = v.result
    BY <2>1, <2>2
  <2>5. Sound(u)
    BY <2>2, <2>3, <2>4, SoundSameRows
  <2> QED
    BY <2>5 DEF u, y
<1> QED
  BY <1>1, <1>2

\* Every step keeps the soundness of the committed tables, and of the open
\* transaction unless its group is doomed.
LEMMA SoundStep ==
    ASSUME IInv, SoundInv, [Next]_vars
    PROVE  SoundInv'
<1> USE DEF SoundInv
<1>1. group \in BOOLEAN /\ (owner = NoWriter => ~group)
  BY DEF IInv, ControlOK
<1>2. ASSUME UNCHANGED <<pc, req>> \/ \E w \in Writers : Finish(w)
      PROVE  CitesStreams'
  <2>1. DOMAIN req = Writers /\ pc \in [Writers -> {"idle", "called", "written"}]
    BY DEF IInv, ControlOK
  <2> QED
    BY <1>2, <2>1 DEF CitesStreams, Finish
<1>3. ASSUME UNCHANGED <<tables, work, group, groupFailed>>, CitesStreams' PROVE SoundInv'
  BY <1>3 DEF Sound, Whole, Numbered, Current, OnStream, HeadBefore
<1>4. ASSUME NEW w \in Writers, ReadHeads(w) \/ Reject(w) \/ Replay(w) PROVE SoundInv'
  BY <1>2, <1>3, <1>4 DEF ReadHeads, Reject, Replay
<1>5. ASSUME NEW w \in Writers, NEW c \in Commands, CallAppend(w, c) PROVE SoundInv'
  <2>1. CitesStreams'
    <3>1. DOMAIN req = Writers /\ pc \in [Writers -> {"idle", "called", "written"}]
      BY DEF IInv, ControlOK
    <3>2. c.expects \subseteq Streams /\ c.reads \subseteq Streams
      BY CommandsAssumption DEF IsCommand
    <3>3. /\ DOMAIN req'[w].expected = c.expects /\ DOMAIN req'[w].reads = c.reads
          /\ \A v \in Writers \ {w} : req'[v] = req[v] /\ pc'[v] = pc[v]
      BY <1>5, <3>1 DEF CallAppend
    <3> QED
      BY <3>2, <3>3 DEF CitesStreams
  <2> QED
    BY <1>3, <1>5, <2>1 DEF CallAppend
<1>6. ASSUME NEW w \in Writers, WriteRows(w) PROVE SoundInv'
  <2>1. CitesStreams'
    <3>1. CASE group
      BY <1>2, <1>6, <3>1 DEF WriteRows
    <3>2. CASE ~group
      <4>1. req' = req /\ pc' = [pc EXCEPT ![w] = "written"] /\ pc[w] = "called"
        BY <1>6, <3>2 DEF WriteRows
      <4>2. \A v \in Writers : pc'[v] # "idle" => pc[v] # "idle"
        BY <4>1 DEF IInv, ControlOK
      <4> QED
        BY <4>1, <4>2 DEF CitesStreams
    <3> QED
      BY <3>1, <3>2
  <2>2. Sound(work) => Sound(work')
    BY <1>6, BatchSound DEF WriteRows
  <2>3. UNCHANGED <<tables, group, groupFailed>>
    BY <1>6 DEF WriteRows
  <2> QED
    BY <2>1, <2>2, <2>3
<1>7. ASSUME NEW w \in Writers, WriteFails(w) PROVE SoundInv'
  <2>1. CitesStreams'
    BY <1>2, <1>7 DEF WriteFails
  <2>2. CASE group
    BY <1>7, <2>1, <2>2 DEF WriteFails
  <2>3. CASE ~group
    BY <1>3, <1>7, <2>1, <2>3 DEF WriteFails
  <2> QED
    BY <2>2, <2>3
<1>8. ASSUME NEW w \in Writers, Commit(w) \/ CommitFails(w) PROVE SoundInv'
  <2>1. ~group
    BY <1>8 DEF IInv, ControlOK, Commit, CommitFails
  <2>2. CitesStreams'
    BY <1>2, <1>8 DEF Commit, CommitFails
  <2>3. tables' \in {tables, work} /\ work' = tables' /\ UNCHANGED <<group, groupFailed>>
    BY <1>8 DEF Commit, CommitFails
  <2> QED
    BY <2>1, <2>2, <2>3
<1>9. ASSUME NEW w \in Writers, GroupBegin(w) PROVE SoundInv'
  <2>1. CitesStreams'
    BY <1>2, <1>9 DEF GroupBegin
  <2> QED
    BY <1>1, <1>9, <2>1 DEF GroupBegin
<1>10. ASSUME NEW w \in Writers, GroupCommit(w) \/ GroupCommitFails(w) \/ GroupRollback(w) PROVE SoundInv'
  <2>1. CitesStreams'
    BY <1>2, <1>10 DEF GroupCommit, GroupCommitFails, GroupRollback
  <2>2. /\ tables' \in {tables, work} /\ (tables' = work => tables' = tables \/ ~groupFailed)
        /\ work' = tables' /\ ~groupFailed'
    BY <1>10 DEF GroupCommit, GroupCommitFails, GroupRollback, CloseGroup
  <2> QED
    BY <2>1, <2>2
<1>11. ASSUME NEW w \in Writers, NEW t, Update(w, t), Sound(work) => Sound(t) PROVE SoundInv'
  <2>1. CitesStreams'
    BY <1>2, <1>11 DEF Update
  <2>2. /\ work' = t /\ UNCHANGED <<group, groupFailed>>
        /\ tables' = tables \/ (~group /\ tables' = t)
    BY <1>11 DEF Update
  <2>3. CASE groupFailed
    BY <2>1, <2>2, <2>3
  <2>4. CASE ~groupFailed
    <3>1. Sound(t)
      BY <1>11, <2>4
    <3>2. Sound(tables') /\ Sound(work')
      BY <2>2, <3>1
    <3> QED
      BY <2>1, <2>2, <2>4, <3>2
  <2> QED
    BY <2>3, <2>4
<1>12. ASSUME NEW w \in Writers, NEW o \in work.outbox,
              MarkOutbox(w, o, "delivered") \/ MarkOutbox(w, o, "retryable")
       PROVE  SoundInv'
  <2>1. TableOK(work)
    BY DEF IInv, TablesOK
  <2>2. PICK st \in {"retryable", "delivered"} :
           Update(w, [work EXCEPT !.outbox = (@ \ {o}) \cup {[o EXCEPT !.state = st]}])
    BY <1>12 DEF MarkOutbox
  <2> QED
    BY <1>11, <2>1, <2>2, MarksSound
<1>13. ASSUME NEW w \in Writers, NEW x \in work.transactions, MarkProjectionRefreshed(w, x) PROVE SoundInv'
  <2>1. TableOK(work)
    BY DEF IInv, TablesOK
  <2>2. Update(w, [work EXCEPT !.transactions = (@ \ {x}) \cup {[x EXCEPT !.refresh = "done"]}])
    BY <1>13 DEF MarkProjectionRefreshed
  <2> QED
    BY <1>11, <2>1, <2>2, MarksSound
<1>14. ASSUME Crash PROVE SoundInv'
  <2>1. CitesStreams'
    BY <1>14 DEF Crash, CitesStreams
  <2> QED
    BY <1>14, <2>1 DEF Crash
<1>15. ASSUME (\E ready \in BOOLEAN : SetWriteReadiness(ready)) \/ UNCHANGED vars PROVE SoundInv'
  BY <1>2, <1>3, <1>15 DEF SetWriteReadiness, vars
<1> QED
  BY <1>4, <1>5, <1>6, <1>7, <1>8, <1>9, <1>10, <1>12, <1>13, <1>14, <1>15 DEF Next

\* An empty store is sound.
LEMMA SoundInit == Init => SoundInv
<1> SUFFICES ASSUME Init PROVE SoundInv
  OBVIOUS
<1> DEFINE t == EmptyTables
<1>1. tables = t /\ work = t /\ ~groupFailed /\ CitesStreams
  BY DEF Init, CitesStreams
<1>2. /\ t.events = {} /\ t.outbox = {} /\ t.transactions = {} /\ t.last = 0
      /\ \A s \in Streams : t.heads[s] = 0
  BY DEF EmptyTables
<1> HIDE DEF t
<1>3. Whole(t)
  BY <1>2 DEF Whole
<1>4. Numbered(t)
  <2>1. IsFiniteSet({}) /\ Cardinality({}) = 0
    BY FS_EmptySet
  <2>2. \A s : OnStream(t, s) = {}
    BY <1>2 DEF OnStream
  <2> QED
    BY <1>2, <2>1, <2>2 DEF Numbered
<1>5. Current(t)
  BY <1>2 DEF Current
<1> QED
  BY <1>1, <1>3, <1>4, <1>5 DEF SoundInv, Sound

\* Whatever was rolled back, crashed or committed with an unknown outcome, the
\* committed database is sound.
LEMMA Soundness == Spec => []SoundInv
<1>1. IInv /\ SoundInv /\ [Next]_vars => SoundInv'
  BY SoundStep
<1> QED
  BY SoundInit, <1>1, Invariance, PTL DEF Spec

\* No torn batch: the committed events and outbox rows are exactly those of the
\* committed transactions (append_batch 1108-1140, group_commit 983-1007).
THEOREM BatchesAreWhole == Spec => []NoTornBatch
<1>1. SoundInv => NoTornBatch
  BY DEF SoundInv, Sound, Whole, NoTornBatch
<1> QED
  BY Soundness, <1>1, PTL

\* Global sequences and stream revisions are 1..last and 1..head, without hole or
\* double (_prepare_append 301-314, _write_delta 1142-1167).
THEOREM NumbersHaveNoHole == Spec => []NumberingContiguous
<1>1. SoundInv => NumberingContiguous
  BY DEF SoundInv, Sound, Numbered, OnStream, NumberingContiguous
<1> QED
  BY Soundness, <1>1, PTL

\* Every committed batch was numbered against the heads it expected and read
\* (_prepare_append 242-272).
THEOREM CitedHeadsHeld == Spec => []ReadsWereCurrent
<1>1. SoundInv => ReadsWereCurrent
  BY DEF SoundInv, Sound, Current, ReadsWereCurrent
<1> QED
  BY Soundness, <1>1, PTL

------------------------------------------------------------------------------
(***************************************************************************)
(* The durable store implements the ledger of GameplayLedger, for any      *)
(* writers, streams and commands.  The tables count incrementally what the *)
(* ledger counts from the batches: "last" is its length and each head its  *)
(* revision.  Since every batch in the open transaction comes after all    *)
(* the committed ones, a COMMIT, whole or of unknown outcome, appends      *)
(* batches that may follow each other, and a rollback leaves the ledger    *)
(* where it was.                                                           *)
(***************************************************************************)

LedgerRow(x) == [cmd |-> x.cmd, expected |-> x.expected, reads |-> x.reads, result |-> x.result]
Rows(t) == {LedgerRow(x) : x \in t.transactions}

Counted(t) ==
    /\ IsFiniteSet(Ledger!Positions(Rows(t)))
    /\ Ledger!Length(Rows(t)) = t.last
    /\ \A s \in Streams : Ledger!Revision(Rows(t), s) = t.heads[s]

Ordered(t) ==
    \A x \in Rows(t) : /\ x.result.first \in Nat /\ x.result.first <= t.last
                       /\ Ledger!MayFollow(x, Ledger!Earlier(Rows(t), x))

Laid(t) == Counted(t) /\ Ordered(t)

\* The open transaction only has batches beyond the committed ones.
Beyond(t, u) ==
    /\ Rows(t) \subseteq Rows(u) /\ t.last <= u.last
    /\ \A x \in Rows(u) \ Rows(t) : x.result.first > t.last

LaidInv == Laid(tables) /\ (~groupFailed => Laid(work) /\ Beyond(tables, work))

\* Places of the events of transaction tx.
Tagged(tx, I) == {tx} \X I

-----------------------------------------------------------------------------
\* The ledger counts with the same cardinality.
LEMMA SameCardinality == \A S : Ledger!Cardinality(S) = Cardinality(S)
  BY Zenon DEF Ledger!Cardinality, Cardinality

\* Its length and its revisions are numbers of events.
LEMMA LedgerCounts ==
    ASSUME NEW rows
    PROVE  /\ Ledger!Length(rows) = Cardinality(Ledger!Positions(rows))
           /\ \A s : Ledger!Revision(rows, s) = Cardinality(Ledger!OnStream(rows, s))
  BY SameCardinality, Zenon DEF Ledger!Length, Ledger!Revision

\* A sequence that is not empty has a first place.
LEMMA NotEmpty ==
    ASSUME NEW S, NEW q \in Seq(S), q # <<>>
    PROVE  Len(q) > 0
  OBVIOUS

\* The events of one batch, all of them or those on one stream, as the ledger
\* counts them, next to those of other batches.
LEMMA CountNext ==
    ASSUME NEW S, IsFiniteSet(S), NEW tx, NEW I, IsFiniteSet(I), \A p \in S : p[1] # tx
    PROVE  /\ IsFiniteSet(S \cup Tagged(tx, I))
           /\ Cardinality(S \cup Tagged(tx, I)) = Cardinality(S) + Cardinality(I)
<1>1. IsFiniteSet({tx}) /\ Cardinality({tx}) = 1
  BY FS_Singleton
<1>2. Cardinality(I) \in Nat /\ Cardinality(S) \in Nat
  BY FS_CardinalityType
<1>3. IsFiniteSet({tx} \X I) /\ Cardinality({tx} \X I) = 1 * Cardinality(I)
  BY <1>1, FS_Product
<1>4. S \cap ({tx} \X I) = {}
  OBVIOUS
<1> DEFINE T == {tx} \X I
<1> HIDE DEF T
<1>5. /\ IsFiniteSet(S \cup T)
      /\ Cardinality(S \cup T) = Cardinality(S) + Cardinality(T) - Cardinality({})
  BY <1>3, <1>4, FS_Union DEF T
<1>6. Cardinality({}) = 0
  BY FS_EmptySet
<1> QED
  BY <1>2, <1>3, <1>5, <1>6 DEF T, Tagged

\* A written batch follows, in the ledger, all that the tables held before.
LEMMA BatchLaid ==
    ASSUME NEW b, NEW t, TableOK(t), b.cmd \in Commands, Admissible(b, t), Whole(t), Laid(t),
           DOMAIN b.expected \subseteq Streams, DOMAIN b.reads \subseteq Streams
    PROVE  /\ Laid(WriteDelta(b, t))
           /\ Rows(WriteDelta(b, t)) = Rows(t) \cup {LedgerRow(TransactionRow(b, t))}
           /\ WriteDelta(b, t).last >= t.last
<1> DEFINE c == b.cmd
           N == Len(c.events)
           u == WriteDelta(b, t)
           r == LedgerRow(TransactionRow(b, t))
<1>1. /\ N \in Nat /\ DOMAIN c.events = 1..N /\ t.last \in Nat
      /\ \A s \in Streams : t.heads[s] \in Nat
  BY CommandEvents DEF TableOK
<1>2. Rows(u) = Rows(t) \cup {r}
  <2>1. u.transactions = t.transactions \cup {TransactionRow(b, t)}
    BY WriteDeltaIs
  <2> HIDE DEF u
  <2> QED
    BY <2>1 DEF Rows
<1>3. /\ r.cmd = c /\ r.expected = b.expected /\ r.reads = b.reads
      /\ r.result = ResultOf(b, t) /\ r.result.first = t.last + 1
  BY DEF LedgerRow, TransactionRow, ResultOf
<1>4. N > 0
  <2> DEFINE S == [id : {c.events[i].id : i \in DOMAIN c.events}, stream : Streams]
  <2>1. c.events \in Seq(S) /\ c.events # <<>>
    BY CommandsAssumption, Zenon DEF IsCommand
  <2> HIDE DEF S
  <2> QED
    BY <2>1, NotEmpty
<1>5. /\ u.last = t.last + N
      /\ u.heads = [s \in Streams |->
             IF s \in Written(c) THEN t.heads[s] + CountUpTo(c, s, N) ELSE t.heads[s]]
  BY WriteDeltaIs
<1>6. ASSUME NEW y \in Rows(t)
      PROVE  y.cmd.key # c.key /\ y.cmd.tx # c.tx /\ Ledger!EventsOf(y) \cap Ledger!EventsOf(r) = {}
  <2>1. PICK x \in t.transactions : y = LedgerRow(x)
    BY DEF Rows
  <2>2. y.cmd = x.cmd
    BY <2>1 DEF LedgerRow
  <2>3. x.cmd.key # c.key /\ x.cmd.tx # c.tx
    BY DEF Admissible, KeyRows, IdentitiesFresh
  <2>4. ASSUME NEW i \in EventIds(x.cmd) PROVE i \notin EventIds(c)
    <3>1. <<x.cmd.tx, i>> \in {<<e.tx, e.id>> : e \in t.events}
      <4>1. <<x.cmd.tx, i>> \in {<<x.cmd.tx, j>> : j \in EventIds(x.cmd)}
        OBVIOUS
      <4>2. <<x.cmd.tx, i>> \in UNION {{<<z.cmd.tx, j>> : j \in EventIds(z.cmd)} : z \in t.transactions}
        BY <4>1
      <4> QED
        BY <4>2 DEF Whole
    <3>2. PICK e \in t.events : e.id = i
      BY <3>1
    <3> QED
      BY <3>2 DEF Admissible, IdentitiesFresh
  <2>5. Ledger!EventsOf(y) = EventIds(x.cmd) /\ Ledger!EventsOf(r) = EventIds(c)
    BY <1>3, <2>2 DEF Ledger!EventsOf, EventIds
  <2> QED
    BY <2>2, <2>3, <2>4, <2>5
<1> HIDE DEF u, r
<1>7. /\ IsFiniteSet(Ledger!Positions(Rows(u)))
      /\ Ledger!Length(Rows(u)) = t.last + N
  <2> DEFINE S == Ledger!Positions(Rows(t))
  <2>1. Ledger!Positions(Rows(u)) = S \cup Tagged(c.tx, 1..N)
    BY <1>1, <1>2, <1>3 DEF Ledger!Positions, Tagged
  <2>2. \A p \in S : p[1] # c.tx
    BY <1>6 DEF Ledger!Positions
  <2>3. IsFiniteSet(S) /\ Cardinality(S) = t.last
    BY LedgerCounts DEF Laid, Counted
  <2> HIDE DEF S, N
  <2>4. IsFiniteSet(1..N) /\ Cardinality(1..N) = N
    BY <1>1, UpTo
  <2>5. /\ IsFiniteSet(S \cup Tagged(c.tx, 1..N))
        /\ Cardinality(S \cup Tagged(c.tx, 1..N)) = Cardinality(S) + Cardinality(1..N)
    BY <2>2, <2>3, <2>4, CountNext
  <2> QED
    BY <2>1, <2>3, <2>4, <2>5, LedgerCounts
<1>8. ASSUME NEW s \in Streams
      PROVE  /\ Ledger!Revision(Rows(u), s) = u.heads[s]
             /\ s \in Written(c) => Ledger!Revision(Rows(u), s) = t.heads[s] + CountUpTo(c, s, N)
  <2> DEFINE S == Ledger!OnStream(Rows(t), s)
             P == Places(c, s)
  <2>1. Ledger!OnStream(Rows(u), s) = S \cup Tagged(c.tx, P)
    BY <1>1, <1>2, <1>3 DEF Ledger!OnStream, Places, Tagged
  <2>2. \A p \in S : p[1] # c.tx
    BY <1>6 DEF Ledger!OnStream
  <2>3. IsFiniteSet(S) /\ Cardinality(S) = t.heads[s]
    <3>1. S \subseteq Ledger!Positions(Rows(t))
      BY DEF Ledger!OnStream, Ledger!Positions
    <3> QED
      BY <3>1, FS_Subset, LedgerCounts DEF Laid, Counted
  <2>4. IsFiniteSet(P) /\ Cardinality(P) \in Nat /\ CountUpTo(c, s, N) = Cardinality(P)
    BY PlacesRanked
  <2>5. s \notin Written(c) => Cardinality(P) = 0
    <3>1. s \notin Written(c) => P = {}
      BY CommandEvents DEF Written, Places
    <3> QED
      BY <3>1, FS_EmptySet
  <2> HIDE DEF S, P
  <2>6. Ledger!Revision(Rows(u), s) = t.heads[s] + Cardinality(P)
    <3>1. Cardinality(S \cup Tagged(c.tx, P)) = Cardinality(S) + Cardinality(P)
      BY <2>2, <2>3, <2>4, CountNext
    <3> QED
      BY <2>1, <2>3, <3>1, LedgerCounts
  <2> QED
    BY <1>1, <1>5, <2>4, <2>5, <2>6
<1>9. Counted(u)
  BY <1>5, <1>7, <1>8 DEF Counted
<1>10. \A y \in Rows(t) : y.result.first \in Nat /\ y.result.first <= t.last
  BY DEF Laid, Ordered
<1>11. Ledger!Earlier(Rows(u), r) = Rows(t)
  BY <1>1, <1>2, <1>3, <1>10 DEF Ledger!Earlier
<1>12. \A y \in Rows(t) : Ledger!Earlier(Rows(u), y) = Ledger!Earlier(Rows(t), y)
  BY <1>1, <1>2, <1>3, <1>10 DEF Ledger!Earlier
<1>13. Ledger!MayFollow(r, Rows(t))
  <2>1. Ledger!StreamsOf(r) = Written(c) /\ Written(c) \subseteq Streams
    BY <1>1, <1>3, CommandEvents DEF Ledger!StreamsOf, Written
  <2>2. Ledger!Length(Rows(t)) = t.last /\ \A s \in Streams : Ledger!Revision(Rows(t), s) = t.heads[s]
    BY DEF Laid, Counted
  <2>3. /\ Written(c) \subseteq DOMAIN r.expected
        /\ \A s \in DOMAIN r.expected : r.expected[s] = Ledger!Revision(Rows(t), s)
        /\ \A s \in DOMAIN r.reads : r.reads[s] = Ledger!Revision(Rows(t), s)
    BY <1>3, <2>2 DEF Admissible, RevisionsHold
  <2>4. \A s \in Written(c) : Ledger!Revision(Rows(t) \cup {r}, s) = t.heads[s] + CountUpTo(c, s, N)
    BY <1>2, <1>8, <2>1
  <2>5. [s \in Ledger!StreamsOf(r) |-> Ledger!Revision(Rows(t) \cup {r}, s)]
          = [s \in Written(c) |-> t.heads[s] + CountUpTo(c, s, N)]
    BY <2>1, <2>4
  <2>6. r.result = [first |-> Ledger!Length(Rows(t)) + 1,
                    last |-> Ledger!Length(Rows(t)) + Len(r.cmd.events),
                    revisions |-> [s \in Ledger!StreamsOf(r) |-> Ledger!Revision(Rows(t) \cup {r}, s)]]
    BY <1>3, <2>2, <2>5 DEF ResultOf
  <2> QED
    BY <1>3, <1>6, <2>1, <2>3, <2>6 DEF Ledger!MayFollow
<1>14. Ordered(u)
  <2> SUFFICES ASSUME NEW x \in Rows(u)
               PROVE  /\ x.result.first \in Nat /\ x.result.first <= u.last
                      /\ Ledger!MayFollow(x, Ledger!Earlier(Rows(u), x))
    BY DEF Ordered
  <2>1. CASE x \in Rows(t)
    BY <1>1, <1>5, <1>10, <1>12, <2>1 DEF Laid, Ordered
  <2>2. CASE x = r
    BY <1>1, <1>3, <1>4, <1>5, <1>11, <1>13, <2>2
  <2> QED
    BY <1>2, <2>1, <2>2
<1> QED
  BY <1>1, <1>2, <1>5, <1>9, <1>14 DEF Laid, u, r

\* The delivery and refresh marks do not show in the ledger.
LEMMA MarksUnseen ==
    ASSUME NEW t, TableOK(t)
    PROVE  /\ \A o \in t.outbox, st \in {"retryable", "delivered"} :
                 LET u == [t EXCEPT !.outbox = (@ \ {o}) \cup {[o EXCEPT !.state = st]}]
                 IN  Rows(u) = Rows(t) /\ u.last = t.last /\ u.heads = t.heads
           /\ \A x \in t.transactions :
                 LET u == [t EXCEPT !.transactions = (@ \ {x}) \cup {[x EXCEPT !.refresh = "done"]}]
                 IN  Rows(u) = Rows(t) /\ u.last = t.last /\ u.heads = t.heads
<1>1. ASSUME NEW o \in t.outbox, NEW st
      PROVE  LET u == [t EXCEPT !.outbox = (@ \ {o}) \cup {[o EXCEPT !.state = st]}]
             IN  Rows(u) = Rows(t) /\ u.last = t.last /\ u.heads = t.heads
  BY DEF TableOK, Rows
<1>2. ASSUME NEW x \in t.transactions
      PROVE  LET u == [t EXCEPT !.transactions = (@ \ {x}) \cup {[x EXCEPT !.refresh = "done"]}]
             IN  Rows(u) = Rows(t) /\ u.last = t.last /\ u.heads = t.heads
  <2> DEFINE y == [x EXCEPT !.refresh = "done"]
             u == [t EXCEPT !.transactions = (@ \ {x}) \cup {y}]
  <2>1. LedgerRow(y) = LedgerRow(x)
    BY DEF TableOK, TransactionFields, LedgerRow
  <2> HIDE DEF y
  <2>2. u.transactions = (t.transactions \ {x}) \cup {y} /\ u.heads = t.heads /\ u.last = t.last
    BY DEF TableOK
  <2> HIDE DEF u
  <2>3. Rows(u) = Rows(t)
    BY <2>1, <2>2 DEF Rows
  <2> QED
    BY <2>2, <2>3 DEF u, y
<1> QED
  BY <1>1, <1>2

\* Tables with the same ledger, length and heads are laid alike.
LEMMA LaidSame ==
    ASSUME NEW t, NEW u, Rows(u) = Rows(t), u.last = t.last, u.heads = t.heads
    PROVE  /\ Laid(t) => Laid(u)
           /\ \A v : Beyond(v, t) => Beyond(v, u)
  BY DEF Laid, Counted, Ordered, Beyond

\* Every step keeps both databases laid, and adds to the committed one only batches
\* beyond it.
LEMMA LaidStep ==
    ASSUME IInv, SoundInv, LaidInv, [Next]_vars
    PROVE  LaidInv' /\ Beyond(tables, tables')
<1> USE DEF LaidInv
<1>1. /\ group \in BOOLEAN /\ (owner = NoWriter => ~group /\ work = tables) /\ (groupFailed => group)
      /\ TableOK(tables) /\ TableOK(work)
  BY DEF IInv, ControlOK, TablesOK, SoundInv
<1>2. \A t : TableOK(t) => Beyond(t, t)
  BY DEF Beyond, TableOK
<1>3. ASSUME UNCHANGED <<tables, work>>, groupFailed' \/ ~groupFailed PROVE LaidInv' /\ Beyond(tables, tables')
  BY <1>1, <1>2, <1>3
<1>4. ASSUME UNCHANGED tables, groupFailed' PROVE LaidInv' /\ Beyond(tables, tables')
  BY <1>1, <1>2, <1>4
<1>5. ASSUME work' = tables', tables' = tables \/ (tables' = work /\ ~groupFailed)
      PROVE  LaidInv' /\ Beyond(tables, tables')
  <2>1. TableOK(tables') /\ Laid(tables') /\ Beyond(tables, tables')
    BY <1>1, <1>2, <1>5
  <2> QED
    BY <1>2, <1>5, <2>1
<1>6. ASSUME NEW w \in Writers, WriteRows(w) PROVE LaidInv' /\ Beyond(tables, tables')
  <2>1. CASE groupFailed
    BY <1>4, <1>6, <2>1 DEF WriteRows
  <2>2. CASE ~groupFailed
    <3> DEFINE b == req[w]
               r == LedgerRow(TransactionRow(b, work))
    <3>1. Laid(work) /\ Beyond(tables, work) /\ Whole(work) /\ b.cmd \in Commands /\ Admissible(b, work)
      BY <1>6, <2>2 DEF WriteRows, SoundInv, Sound, IInv, ControlOK
    <3>2. DOMAIN b.expected \subseteq Streams /\ DOMAIN b.reads \subseteq Streams
      BY <1>6 DEF WriteRows, SoundInv, CitesStreams
    <3> HIDE DEF b
    <3>3. /\ Laid(WriteDelta(b, work)) /\ Rows(WriteDelta(b, work)) = Rows(work) \cup {r}
          /\ WriteDelta(b, work).last >= work.last
      BY <1>1, <3>1, <3>2, BatchLaid
    <3>4. work' = WriteDelta(b, work) /\ tables' = tables /\ groupFailed' = groupFailed
      BY <1>6 DEF WriteRows, b
    <3>5. r.result.first = work.last + 1
      BY DEF LedgerRow, TransactionRow, ResultOf
    <3>6. tables.last \in Nat /\ work.last \in Nat /\ work'.last \in Nat
      <4>1. TableOK(work')
        BY <1>6, StatementsAdd DEF WriteRows, IInv, ControlOK, TablesOK
      <4> QED
        BY <1>1, <4>1 DEF TableOK
    <3> HIDE DEF r
    <3>7. Beyond(tables, work')
      BY <3>1, <3>3, <3>4, <3>5, <3>6 DEF Beyond
    <3> QED
      BY <1>1, <1>2, <2>2, <3>3, <3>4, <3>7
  <2> QED
    BY <2>1, <2>2
<1>7. ASSUME NEW w \in Writers, WriteFails(w) PROVE LaidInv' /\ Beyond(tables, tables')
  <2>1. CASE group
    BY <1>4, <1>7, <2>1 DEF WriteFails
  <2>2. CASE ~group
    BY <1>3, <1>7, <2>2 DEF WriteFails
  <2> QED
    BY <2>1, <2>2
<1>8. ASSUME NEW w \in Writers, Commit(w) \/ CommitFails(w) PROVE LaidInv' /\ Beyond(tables, tables')
  <2>1. ~groupFailed
    BY <1>1, <1>8 DEF IInv, ControlOK, Commit, CommitFails
  <2> QED
    BY <1>5, <1>8, <2>1 DEF Commit, CommitFails
<1>9. ASSUME NEW w \in Writers, GroupCommit(w) \/ GroupCommitFails(w) \/ GroupRollback(w)
      PROVE  LaidInv' /\ Beyond(tables, tables')
  BY <1>5, <1>9 DEF GroupCommit, GroupCommitFails, GroupRollback
<1>10. ASSUME NEW w \in Writers, NEW t, Update(w, t), Rows(t) = Rows(work), t.last = work.last, t.heads = work.heads
       PROVE  LaidInv' /\ Beyond(tables, tables')
  <2>1. work' = t /\ UNCHANGED <<group, groupFailed>> /\ (group => tables' = tables)
        /\ (~group => tables' = t /\ work = tables)
    BY <1>1, <1>10 DEF Update, Owns
  <2>2. CASE groupFailed
    BY <1>1, <1>4, <2>1, <2>2
  <2>3. CASE ~groupFailed
    <3>1. Laid(t) /\ Beyond(tables, t)
      BY <1>10, <2>3, LaidSame
    <3>2. CASE group
      BY <1>1, <1>2, <2>1, <2>3, <3>1, <3>2
    <3>3. CASE ~group
      <4>1. Beyond(t, t)
        BY <1>1, <1>10 DEF Beyond, TableOK
      <4> QED
        BY <2>1, <2>3, <3>1, <3>3, <4>1
    <3> QED
      BY <1>1, <3>2, <3>3
  <2> QED
    BY <2>2, <2>3
<1>11. ASSUME NEW w \in Writers, NEW o \in work.outbox,
              MarkOutbox(w, o, "delivered") \/ MarkOutbox(w, o, "retryable")
       PROVE  LaidInv' /\ Beyond(tables, tables')
  <2>1. PICK st \in {"retryable", "delivered"} :
           Update(w, [work EXCEPT !.outbox = (@ \ {o}) \cup {[o EXCEPT !.state = st]}])
    BY <1>11 DEF MarkOutbox
  <2> DEFINE u == [work EXCEPT !.outbox = (@ \ {o}) \cup {[o EXCEPT !.state = st]}]
  <2>2. Rows(u) = Rows(work) /\ u.last = work.last /\ u.heads = work.heads
    BY <1>1, MarksUnseen
  <2> QED
    BY <1>10, <2>1, <2>2
<1>12. ASSUME NEW w \in Writers, NEW x \in work.transactions, MarkProjectionRefreshed(w, x)
       PROVE  LaidInv' /\ Beyond(tables, tables')
  <2> DEFINE u == [work EXCEPT !.transactions = (@ \ {x}) \cup {[x EXCEPT !.refresh = "done"]}]
  <2>1. Update(w, u)
    BY <1>12 DEF MarkProjectionRefreshed
  <2>2. Rows(u) = Rows(work) /\ u.last = work.last /\ u.heads = work.heads
    BY <1>1, MarksUnseen
  <2> QED
    BY <1>10, <2>1, <2>2
<1>13. ASSUME Crash PROVE LaidInv' /\ Beyond(tables, tables')
  BY <1>5, <1>13 DEF Crash
<1>14. ASSUME NEW w \in Writers,
              \/ ReadHeads(w) \/ Reject(w) \/ Replay(w) \/ GroupBegin(w)
              \/ \E c \in Commands : CallAppend(w, c)
       PROVE  LaidInv' /\ Beyond(tables, tables')
  <2>1. UNCHANGED <<tables, work>> /\ (groupFailed' \/ ~groupFailed)
    BY <1>1, <1>14 DEF ReadHeads, Reject, Replay, GroupBegin, CallAppend
  <2> QED
    BY <1>3, <2>1
<1>15. ASSUME (\E ready \in BOOLEAN : SetWriteReadiness(ready)) \/ UNCHANGED vars
       PROVE  LaidInv' /\ Beyond(tables, tables')
  BY <1>3, <1>15 DEF SetWriteReadiness, vars
<1> QED
  BY <1>6, <1>7, <1>8, <1>9, <1>11, <1>12, <1>13, <1>14, <1>15 DEF Next

\* An empty store is an empty ledger.
LEMMA LaidInit == Init => LaidInv /\ Ledger!Init
<1> SUFFICES ASSUME Init PROVE LaidInv /\ Ledger!Init
  OBVIOUS
<1> DEFINE t == EmptyTables
<1>1. tables = t /\ work = t /\ acked = {}
  BY DEF Init
<1>2. t.transactions = {} /\ t.last = 0 /\ \A s \in Streams : t.heads[s] = 0
  BY DEF EmptyTables
<1> HIDE DEF t
<1>3. Rows(t) = {}
  BY <1>2 DEF Rows
<1>4. Ledger!Positions({}) = {} /\ \A s : Ledger!OnStream({}, s) = {}
  BY DEF Ledger!Positions, Ledger!OnStream
<1>5. IsFiniteSet({}) /\ Cardinality({}) = 0
  BY FS_EmptySet
<1>6. Laid(t)
  BY <1>2, <1>3, <1>4, <1>5, LedgerCounts DEF Laid, Counted, Ordered
<1>7. Beyond(t, t)
  BY <1>2 DEF Beyond
<1>8. Ledger!Init
  BY <1>1, <1>2 DEF Ledger!Init
<1> QED
  BY <1>1, <1>6, <1>7, <1>8 DEF LaidInv

\* No step takes an answer back.
LEMMA AckedGrow == [Next]_vars => acked \subseteq acked'
<1> SUFFICES ASSUME [Next]_vars PROVE acked \subseteq acked'
  OBVIOUS
<1>1. ASSUME NEW w \in Writers, ReadHeads(w) \/ Reject(w) \/ Replay(w) \/ WriteRows(w) \/ WriteFails(w)
      PROVE  acked \subseteq acked'
  BY <1>1 DEF ReadHeads, Reject, Replay, WriteRows, WriteFails, Tell
<1>2. ASSUME NEW w \in Writers, Commit(w) \/ CommitFails(w) \/ GroupBegin(w) \/ GroupCommit(w)
                                \/ GroupCommitFails(w) \/ GroupRollback(w)
      PROVE  acked \subseteq acked'
  BY <1>2 DEF Commit, CommitFails, GroupBegin, GroupCommit, GroupCommitFails, GroupRollback, Tell
<1>3. ASSUME NEW w \in Writers,
             \/ \E c \in Commands : CallAppend(w, c)
             \/ \E o \in work.outbox : MarkOutbox(w, o, "delivered") \/ MarkOutbox(w, o, "retryable")
             \/ \E x \in work.transactions : MarkProjectionRefreshed(w, x)
      PROVE  acked \subseteq acked'
  BY <1>3 DEF CallAppend, MarkOutbox, MarkProjectionRefreshed, Update
<1>4. ASSUME Crash \/ (\E ready \in BOOLEAN : SetWriteReadiness(ready)) \/ UNCHANGED vars
      PROVE  acked \subseteq acked'
  BY <1>4 DEF Crash, SetWriteReadiness, vars
<1> QED
  BY <1>1, <1>2, <1>3, <1>4 DEF Next

\* The store implements the ledger: every step, be it a commit, a rollback, a crash or
\* a COMMIT of unknown outcome, appends batches that may follow those before them
\* (append_batch 1108-1140, group_commit 983-1007, _prepare_append 212-336).
THEOREM StoreImplementsLedger == Spec => ImplementsLedger
<1>1. LaidInv /\ IInv /\ SoundInv /\ [Next]_vars => LaidInv'
  BY LaidStep
<1>2. ASSUME LaidInv, LaidInv', IInv, IInv', SoundInv, [Next]_vars
      PROVE  Ledger!Extend
  <2>1. Beyond(tables, tables') /\ Laid(tables) /\ Laid(tables')
    BY <1>2, LaidStep DEF LaidInv
  <2>2. tables.last \in Nat
    BY <1>2 DEF IInv, TablesOK, TableOK
  <2>3. ASSUME NEW x \in Rows(tables') \ Rows(tables)
        PROVE  /\ Ledger!MayFollow(x, Ledger!Earlier(Rows(tables'), x))
               /\ Rows(tables) \subseteq Ledger!Earlier(Rows(tables'), x)
    <3>1. Ledger!MayFollow(x, Ledger!Earlier(Rows(tables'), x)) /\ x.result.first \in Nat
      BY <2>1 DEF Laid, Ordered
    <3>2. x.result.first > tables.last
      BY <2>1 DEF Beyond
    <3>3. \A y \in Rows(tables) : /\ y.result.first \in Nat /\ y.result.first <= tables.last
                                  /\ y \in Rows(tables')
      BY <2>1 DEF Laid, Ordered, Beyond
    <3> QED
      BY <2>2, <3>1, <3>2, <3>3 DEF Ledger!Earlier
  <2>4. acked \subseteq acked'
    BY <1>2, AckedGrow
  <2>5. ASSUME NEW a \in acked' PROVE Ledger!Supported(a, Rows(tables'))
    <3>1. Supports(tables', a)
      BY <1>2 DEF IInv, Backed
    <3>2. PICK x \in tables'.transactions : x.cmd.key = a.key /\ x.cmd.digest = a.digest /\ x.result = a.result
      BY <3>1 DEF Supports
    <3>3. LedgerRow(x) \in Rows(tables')
      BY DEF Rows
    <3>4. LedgerRow(x).cmd = x.cmd /\ LedgerRow(x).result = x.result
      BY DEF LedgerRow
    <3> QED
      BY <3>2, <3>3, <3>4 DEF Ledger!Supported
  <2>6. Rows(tables) \subseteq Rows(tables')
    BY <2>1 DEF Beyond
  <2> QED
    BY <2>3, <2>4, <2>5, <2>6 DEF Ledger!Extend, Rows, LedgerRow
<1>3. Init => LaidInv /\ Ledger!Init
  BY LaidInit
<1> QED
  BY <1>1, <1>2, <1>3, Invariance, Soundness, PTL DEF Spec, ImplementsLedger, Ledger!Spec
=============================================================================
