------------------------------ MODULE GameplayLedger ------------------------------
(***************************************************************************)
(* What the gameplay event store promises the rest of the runtime, without *)
(* tables, transactions, groups or crashes: an append-only ledger of       *)
(* atomic batches, each numbered after all that came before it, at most    *)
(* one per idempotency key, each against the stream revisions its caller   *)
(* saw; and answers that are only ever given about what the ledger holds.  *)
(*                                                                         *)
(* The ledger is the set of committed batches; the global sequence numbers *)
(* in their results order it.                                              *)
(***************************************************************************)
EXTENDS Naturals, Sequences, FiniteSets

VARIABLES ledger,   \* rows [cmd, expected, reads, result]
          told      \* answers [key, digest, status, result] given to callers

Positions(rows) == UNION {{x.cmd.tx} \X DOMAIN x.cmd.events : x \in rows}
OnStream(rows, s) ==
    UNION {{x.cmd.tx} \X {i \in DOMAIN x.cmd.events : x.cmd.events[i].stream = s} : x \in rows}

Length(rows)      == Cardinality(Positions(rows))
Revision(rows, s) == Cardinality(OnStream(rows, s))

EventsOf(x) == {x.cmd.events[i].id : i \in DOMAIN x.cmd.events}
StreamsOf(x) == {x.cmd.events[i].stream : i \in DOMAIN x.cmd.events}

(* Row x may follow exactly the rows of "before".                           *)
MayFollow(x, before) ==
    /\ \A y \in before : /\ y.cmd.key # x.cmd.key /\ y.cmd.tx # x.cmd.tx
                         /\ EventsOf(y) \cap EventsOf(x) = {}
    /\ StreamsOf(x) \subseteq DOMAIN x.expected
    /\ \A s \in DOMAIN x.expected : x.expected[s] = Revision(before, s)
    /\ \A s \in DOMAIN x.reads : x.reads[s] = Revision(before, s)
    /\ x.result = [first |-> Length(before) + 1,
                   last  |-> Length(before) + Len(x.cmd.events),
                   revisions |-> [s \in StreamsOf(x) |-> Revision(before \cup {x}, s)]]

Earlier(rows, x) == {y \in rows : y.result.first < x.result.first}

Supported(a, rows) ==
    \E x \in rows : x.cmd.key = a.key /\ x.cmd.digest = a.digest /\ x.result = a.result

Init == ledger = {} /\ told = {}

(* One atomic step: the batches of one commit join the ledger, or some       *)
(* callers are told of what it holds, or both.                              *)
Extend ==
    /\ ledger \subseteq ledger'
    /\ \A x \in ledger' \ ledger : /\ MayFollow(x, Earlier(ledger', x))
                                   /\ ledger \subseteq Earlier(ledger', x)
    /\ told \subseteq told'
    /\ \A a \in told' \ told : Supported(a, ledger')

Spec == Init /\ [][Extend]_<<ledger, told>>
=============================================================================
