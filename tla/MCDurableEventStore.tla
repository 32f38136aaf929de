--------------------------- MODULE MCDurableEventStore ---------------------------
(* A small instance of the durable store for TLC: two writers, two streams and
   commands that reuse each other's key, transaction and event identities.     *)
EXTENDS DurableEventStore, TLC

CONSTANTS w1, w2, s1, s2

(* Two events on one stream and an outbox entry for the second.             *)
settle == [tx |-> "tx1", key |-> "k1", digest |-> "d1",
           events |-> <<[id |-> "e1", stream |-> s1], [id |-> "e2", stream |-> s1]>>,
           outbox |-> {[id |-> "o1", event |-> "e2"]},
           expects |-> {s1}, reads |-> {}, hints |-> FALSE]

(* Another payload under the key of settle; its event is one of cadence.    *)
reuse == [settle EXCEPT !.tx = "tx2", !.digest = "d2", !.outbox = {},
                        !.events = <<[id |-> "e4", stream |-> s1]>>]

(* Writes s2 and s1 from an old view of s1; wants a projection refresh.     *)
cadence == [tx |-> "tx3", key |-> "k3", digest |-> "d3",
            events |-> <<[id |-> "e4", stream |-> s2], [id |-> "e5", stream |-> s1]>>,
            outbox |-> {}, expects |-> {s1, s2}, reads |-> {s1}, hints |-> TRUE]

(* Writes s1 too, under the transaction identity of cadence.                *)
clash == [tx |-> "tx3", key |-> "k4", digest |-> "d4",
          events |-> <<[id |-> "e6", stream |-> s1]>>,
          outbox |-> {}, expects |-> {s1}, reads |-> {}, hints |-> FALSE]

(* Writes s1 twice under identities of its own.                             *)
plain == [settle EXCEPT !.outbox = {}]

LifecycleCommands == {settle, reuse, cadence}

(* Two writers race for s1 with commands that may both commit and commands
   that may not; no outbox to keep busy with.                                 *)
RacingCommands == {[cadence EXCEPT !.hints = FALSE], clash, plain}
Symmetry == Permutations(Writers)
=============================================================================
