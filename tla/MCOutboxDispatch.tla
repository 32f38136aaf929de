--------------------------- MODULE MCOutboxDispatch ---------------------------
(* Three transactions: one with two public entries, one with a compact
   population record, one that only asks for a refresh.                        *)
EXTENDS OutboxDispatch

MCEntries == {1, 2, 3}
MCTxOf    == [e \in MCEntries |-> IF e < 3 THEN 1 ELSE 2]
MCTopicOf == [e \in MCEntries |-> IF e < 3 THEN "public" ELSE "cadence"]

(* The dispatcher of main.py and the one of runtime_publication.py.         *)
general    == [topic |-> AnyTopic, limit |-> NoLimit, transform |-> FALSE, refresh |-> TRUE]
population == [topic |-> "cadence", limit |-> 1, transform |-> TRUE, refresh |-> FALSE]
Both == {general, population}
=============================================================================
