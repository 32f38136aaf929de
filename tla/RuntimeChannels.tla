-------------------------- MODULE RuntimeChannels --------------------------
(***************************************************************************)
(* What the two processes of services/runtime_process.py share: four       *)
(* bounded queues and the permits of the execution credit.                 *)
(*                                                                         *)
(* A connection of the model is one websocket, so one registration         *)
(* (connection_ref and connection_generation never come back).  Queues are *)
(* FIFO and hold at most Capacity items; the commands queue is tested for  *)
(* room by its only writer, the writers of the others wait for room, which *)
(* the instances never make them do.                                       *)
(***************************************************************************)
EXTENDS Naturals, Sequences, FiniteSets

CONSTANTS Connections,      \* websockets
          RequestIds,       \* request_id values the clients use
          Capacity          \* IPC_CAPACITY: 128

ASSUME ChannelsAssumption == Capacity \in Nat \ {0}

VARIABLES
    commands,        \* parent to child: [op, seq, c, q, rev]
    controls,        \* parent to child: receipts, disconnects, the shutdown
    results,         \* child to parent: answers and reports
    notifications,   \* child to parent: messages for the sockets
    credit,          \* permits of the execution credit that are free
    childAlive       \* the child process lives

queues == <<commands, controls, results, notifications>>

(* Reports of the child about connection c; "n" is what the kind is about.  *)
Report(kind, c, n) == [kind |-> kind, c |-> c, n |-> n]

(* The identity of a message: its connection, its kind and its number.      *)
Receipt(id, sent) == [kind |-> "receipt", id |-> id, sent |-> sent]

ChannelsInit ==
    /\ commands = <<>> /\ controls = <<>> /\ results = <<>> /\ notifications = <<>>
    /\ credit = Capacity /\ childAlive = TRUE
=============================================================================
