--------------------------- MODULE RuntimeParent ---------------------------
(***************************************************************************)
(* The parent side of services/runtime_process.py: class RuntimeProcess,   *)
(* with the websocket handler of services/runtime_asgi.py that calls it.   *)
(*                                                                         *)
(* One event loop: a step is what runs between two awaits.  The handler of *)
(* a websocket runs one worker, which connects and then handles the        *)
(* client's frames one after the other, and watches the socket beside it.  *)
(* A send task writes one message to the socket and, unless the message is *)
(* an admission of the parent's own, reports the outcome to the child.     *)
(*                                                                         *)
(* A client frame is a runtime_enqueue or any other envelope.  Leases are  *)
(* not counted in seconds: a write on a bound connection may simply fail.  *)
(***************************************************************************)
EXTENDS RuntimeChannels

CONSTANT MaxFrames          \* frames a client sends

VARIABLES
    sequence,        \* _sequence: the last command's number
    pending,         \* _pending: commands not answered yet, [seq, op, c, q]
    conn,            \* _connections, and what outlives the entry
    worker,          \* the websocket's worker: where it stands, [at, seq, q]
    frames,          \* frames the worker has taken
    running,         \* _runtime_pending: [seq, rev, acked, terminal] or None
    barriers,        \* _envelope_pending: the envelopes not processed yet
    sends,           \* _send_tasks
    wire,            \* what was written on each socket
    failure,         \* _failure: "none" or the reason
    readers,         \* the readers of the child's reports that still run
    closing          \* _closing

connVars == <<conn, worker, frames>>
tableVars == <<pending, running, barriers, sends>>
parentVars == <<sequence, connVars, tableVars, wire, failure, readers, closing>>

None == [seq |-> 0, rev |-> 0, acked |-> TRUE, terminal |-> FALSE]

ParentInit ==
    /\ sequence = 0 /\ pending = {} /\ barriers = {} /\ sends = {}
    /\ conn = [c \in Connections |->
                 [registered |-> FALSE, closed |-> FALSE, rev |-> 0, bound |-> FALSE,
                  revoked |-> FALSE, start |-> 0, barrier |-> 0, broken |-> FALSE,
                  ending |-> "no", gone |-> FALSE, lost |-> FALSE]]
    /\ worker = [c \in Connections |-> [at |-> "new", seq |-> 0, q |-> "none"]]
    /\ frames = [c \in Connections |-> 0]
    /\ running = [c \in Connections |-> [q \in RequestIds |-> None]]
    /\ wire = [c \in Connections |-> <<>>]
    /\ failure = "none" /\ readers = {"results", "notifications"} /\ closing = FALSE

------------------------------------------------------------------------------
Registered == {c \in Connections : conn[c].registered}
Requests == {r \in Connections \X RequestIds : running[r[1]][r[2]] # None}
Table == Cardinality(Requests) + Cardinality(barriers)

(* _submit_request: refused, or the command is queued with its future.      *)
MaySubmit ==
    /\ ~closing /\ failure = "none" /\ childAlive
    /\ Cardinality(pending) < Capacity /\ Len(commands) < Capacity
Submit(op, c, q, rev) ==
    /\ commands' = Append(commands,
                     [op |-> op, seq |-> sequence + 1, c |-> c, q |-> q, rev |-> rev])
    /\ pending' = pending \cup {[seq |-> sequence + 1, op |-> op, c |-> c]}
    /\ sequence' = sequence + 1

At(c, place) == worker' = [worker EXCEPT ![c].at = place]

(* _begin_disconnect: a second call does nothing.                           *)
Ending(c) == IF conn[c].ending = "no"
             THEN [conn[c] EXCEPT !.closed = TRUE, !.ending = "begun"]
             ELSE conn[c]

(* task.cancel() on the sends of some connections: one that has returned    *)
(* keeps its outcome.                                                       *)
Cancelled(S) ==
    {IF s.c \in S /\ s.at \in {"waiting", "sending"}
     THEN [s EXCEPT !.at = "failed"] ELSE s : s \in sends}

Cleared_Kept(S) == running
Cleared(S) == [c \in Connections |->
                 IF c \in S THEN [q \in RequestIds |-> None] ELSE running[c]]

(* _close_connection_socket, for each of a set of connections.              *)
Shut(S) == [c \in Connections |->
              IF c \in S THEN [conn[c] EXCEPT !.closed = TRUE, !.lost = TRUE] ELSE conn[c]]

(* _fail: every future is failed and every socket closed.  A worker that    *)
(* waits raises; one that was connecting takes its registration away.  The  *)
(* readers go on.                                                           *)
Fail(reason) ==
    /\ failure' = reason
    /\ pending' = {} /\ barriers' = {}
    /\ running' = Cleared(Registered)
    /\ sends' = Cancelled(Registered)
    /\ conn' = [c \in Connections |->
                  IF conn[c].registered
                  THEN [Shut(Registered)[c] EXCEPT !.gone = TRUE, !.broken = TRUE,
                          !.registered = worker[c].at # "connecting"]
                  ELSE conn[c]]
    /\ worker' = [c \in Connections |->
                    IF worker[c].at \in {"connecting", "enveloping", "barrier"}
                    THEN [worker[c] EXCEPT !.at = "failed"] ELSE worker[c]]

(* A reader that takes a report for a protocol error fails the process and   *)
(* ends.                                                                     *)
Reject(reader) == Fail("protocol") /\ readers' = readers \ {reader}

------------------------------------------------------------------------------
(* The worker's first call, connect.                                         *)
Connect(c) ==
    /\ worker[c].at = "new"
    /\ IF Cardinality(Registered) < Capacity /\ MaySubmit
       THEN /\ Submit("connect", c, "none", 0)
            /\ conn' = [conn EXCEPT ![c].registered = TRUE, ![c].start = sequence + 1]
            /\ worker' = [worker EXCEPT ![c] = [@ EXCEPT !.at = "connecting", !.seq = sequence + 1]]
       ELSE At(c, "failed") /\ UNCHANGED <<commands, pending, sequence, conn>>
    /\ UNCHANGED <<frames, running, barriers, sends, wire, failure, readers, closing, childAlive>>
    /\ UNCHANGED <<controls, results, notifications, credit>>

(* A frame that is no runtime_enqueue: envelope.                             *)
SendEnvelope(c) ==
    /\ worker[c].at = "reading" /\ frames[c] < MaxFrames
    /\ frames' = [frames EXCEPT ![c] = @ + 1]
    /\ IF ~conn[c].closed /\ Table < Capacity /\ MaySubmit
       THEN /\ Submit("envelope", c, "none", 0)
            /\ barriers' = barriers \cup {<<c, sequence + 1>>}
            /\ conn' = [conn EXCEPT ![c].barrier = sequence + 1, ![c].broken = FALSE]
            /\ worker' = [worker EXCEPT ![c] = [@ EXCEPT !.at = "enveloping", !.seq = sequence + 1]]
       ELSE At(c, "failed") /\ UNCHANGED <<commands, pending, sequence, barriers, conn>>
    /\ UNCHANGED <<running, sends, wire, failure, readers, closing, childAlive>>
    /\ UNCHANGED <<controls, results, notifications, credit>>

(* A runtime_enqueue frame: it waits for the newest barrier.                 *)
TakeRequest(c, q) ==
    /\ worker[c].at = "reading" /\ frames[c] < MaxFrames
    /\ frames' = [frames EXCEPT ![c] = @ + 1]
    /\ worker' = [worker EXCEPT ![c] =
                    [@ EXCEPT !.at = IF conn[c].closed THEN "failed" ELSE "barrier", !.q = q]]
    /\ UNCHANGED <<sequence, conn, tableVars, wire, failure, readers, closing, childAlive>>
    /\ UNCHANGED <<queues, credit>>

BarrierPassed_NotAwaited(c) == TRUE
BarrierPassed(c) == <<c, conn[c].barrier>> \notin barriers

(* enqueue_runtime after the barrier: a permit, the command and its entry,   *)
(* and the admission in a send task of its own.                              *)
Enqueue(c) ==
    /\ worker[c].at = "barrier" /\ BarrierPassed(c)
    /\ IF conn[c].broken
       THEN At(c, "failed") /\ UNCHANGED <<commands, pending, sequence, running, credit, sends, conn>>
       ELSE LET q == worker[c].q
                admit == /\ running[c][q] = None /\ Table < Capacity
                         /\ conn[c].bound /\ ~conn[c].revoked
                         /\ credit > 0 /\ MaySubmit
                n == IF admit THEN sequence + 1 ELSE 0
            IN /\ IF admit
                  THEN /\ Submit("enqueue", c, q, conn[c].rev)
                       /\ credit' = credit - 1
                       /\ running' = [running EXCEPT ![c][q] =
                            [seq |-> n, rev |-> conn[c].rev, acked |-> FALSE, terminal |-> FALSE]]
                  ELSE UNCHANGED <<commands, pending, sequence, running, credit>>
               /\ IF Cardinality(sends) < Capacity
                  THEN /\ sends' = sends \cup
                            {[id |-> <<c, "admission", frames[c]>>, c |-> c, kind |-> "admission",
                              rev |-> conn[c].rev, q |-> q, seq |-> n, at |-> "waiting"]}
                       /\ worker' = [worker EXCEPT ![c] = [@ EXCEPT !.at = "admitting", !.seq = n]]
                       /\ UNCHANGED conn
                  ELSE /\ conn' = [conn EXCEPT ![c] = Ending(c)]
                       /\ At(c, "failed") /\ UNCHANGED sends
    /\ UNCHANGED <<frames, barriers, wire, failure, readers, closing, childAlive>>
    /\ UNCHANGED <<controls, results, notifications>>

(* The admission was written: the entry is acknowledged, and dropped if the  *)
(* request was finished meanwhile; or it was not: the connection ends.       *)
Admitted(c) ==
    /\ worker[c].at = "admitting"
    /\ \E s \in sends :
          /\ s.c = c /\ s.kind = "admission" /\ s.at \in {"sent", "failed"}
          /\ sends' = sends \ {s}
          /\ IF s.at = "sent"
             THEN /\ At(c, "reading")
                  /\ UNCHANGED conn
                  /\ running' = IF s.seq # 0 /\ running[c][s.q].seq = s.seq
                                THEN [running EXCEPT ![c][s.q] =
                                        IF @.terminal THEN None ELSE [@ EXCEPT !.acked = TRUE]]
                                ELSE running
             ELSE /\ At(c, "failed")
                  /\ conn' = [conn EXCEPT ![c] = Ending(c)]
                  /\ UNCHANGED running
    /\ UNCHANGED <<sequence, frames, pending, barriers, wire, failure, readers, closing, childAlive>>
    /\ UNCHANGED <<queues, credit>>

(* The client goes away.                                                     *)
ClientLost(c) ==
    /\ ~conn[c].lost
    /\ conn' = [conn EXCEPT ![c].lost = TRUE]
    /\ UNCHANGED <<sequence, worker, frames, tableVars, wire, failure, readers, closing, childAlive>>
    /\ UNCHANGED <<queues, credit>>

(* The handler's finally: the worker is cancelled where it stands and the    *)
(* connection is given up.  Cancelling a wait withdraws nothing: the command *)
(* keeps its place, an envelope its barrier.                                 *)
AfterCancel_Withdrawn(c) == {p \in pending : p.seq # worker[c].seq}
AfterCancel(c) == pending
EndWorker(c) ==
    /\ worker[c].at \notin {"closing", "ended"}
    /\ conn[c].lost \/ worker[c].at = "failed"
    /\ sends' = IF worker[c].at = "admitting"
                THEN {s \in sends : s.c # c \/ s.kind # "admission"} ELSE sends
    /\ conn' = IF conn[c].registered THEN [conn EXCEPT ![c] = Ending(c)] ELSE conn
    /\ At(c, IF conn[c].registered THEN "closing" ELSE "ended")
    /\ pending' = AfterCancel(c)
    /\ UNCHANGED <<sequence, frames, running, barriers, wire, failure, readers, closing, childAlive>>
    /\ UNCHANGED <<queues, credit>>

------------------------------------------------------------------------------
(* The task of _disconnect.                                                  *)
DisconnectStart(c) ==
    /\ conn[c].ending = "begun"
    /\ sends' = Cancelled({c})
    /\ IF failure = "none" /\ childAlive
       THEN conn' = [conn EXCEPT ![c].ending = "waiting"]
       ELSE conn' = [conn EXCEPT ![c].ending = "waiting", ![c].gone = TRUE]
    /\ controls' = IF failure = "none" /\ childAlive /\ ~closing
                   THEN Append(controls, [kind |-> "disconnect", c |-> c, seq |-> conn[c].start])
                   ELSE controls
    /\ UNCHANGED <<sequence, worker, frames, pending, running, barriers, wire, failure, readers, closing, childAlive>>
    /\ UNCHANGED <<commands, results, notifications, credit>>

DisconnectEnd(c) ==
    /\ conn[c].ending = "waiting" /\ conn[c].gone
    /\ conn' = [conn EXCEPT ![c].ending = "done", ![c].registered = FALSE]
    /\ running' = Cleared({c})
    /\ worker' = IF worker[c].at = "closing" THEN [worker EXCEPT ![c].at = "ended"] ELSE worker
    /\ UNCHANGED <<sequence, frames, pending, barriers, sends, wire, failure, readers, closing, childAlive>>
    /\ UNCHANGED <<queues, credit>>

------------------------------------------------------------------------------
(* _read_notifications: a completion whose entry is another one's fails at   *)
(* once.                                                                     *)
ReadNotification ==
    /\ "notifications" \in readers /\ notifications # <<>>
    /\ LET m == Head(notifications)
           stale == m.kind = "completion" /\ \/ running[m.c][m.q].seq # m.seq
                                             \/ running[m.c][m.q].rev # m.rev
       IN IF \E s \in sends : s.id = m.id
          THEN Reject("notifications")
          ELSE /\ Cardinality(sends) < Capacity
               /\ sends' = sends \cup {[id |-> m.id, c |-> m.c, kind |-> m.kind, rev |-> m.rev,
                                        q |-> m.q, seq |-> m.seq,
                                        at |-> IF stale THEN "failed" ELSE "waiting"]}
               /\ UNCHANGED <<pending, running, barriers, conn, worker, failure, readers>>
    /\ notifications' = Tail(notifications)
    /\ UNCHANGED <<sequence, frames, wire, closing, childAlive>>
    /\ UNCHANGED <<commands, controls, results, credit>>

(* A completion waits until its admission was written.                       *)
Acknowledged_Ignored(s) == TRUE
Acknowledged(s) ==
    s.kind = "completion" => \/ running[s.c][s.q].seq # s.seq
                             \/ running[s.c][s.q].acked

(* _deliver with the connection's send_lock: the checks made under it.       *)
BeginWrite(s) ==
    /\ s.at = "waiting" /\ Acknowledged(s)
    /\ ~ \E t \in sends : t.c = s.c /\ t.at = "sending"
    /\ sends' = (sends \ {s}) \cup
         {[s EXCEPT !.at =
             IF /\ conn[s.c].registered /\ ~conn[s.c].closed /\ ~closing
                /\ conn[s.c].rev = s.rev
                /\ ~conn[s.c].revoked \/ s.kind = "revoked"
             THEN "sending" ELSE "failed"]}
    /\ UNCHANGED <<sequence, connVars, pending, running, barriers, wire, failure, readers, closing, childAlive>>
    /\ UNCHANGED <<queues, credit>>

(* The write itself: a lease that ends, a lost socket or any other exception *)
(* of send stops it before or after the message is out.                      *)
Write(s) ==
    /\ s.at = "sending"
    /\ \E written \in BOOLEAN, result \in {"sent", "failed"} :
          /\ result = "sent" => written
          /\ sends' = (sends \ {s}) \cup {[s EXCEPT !.at = result]}
          /\ wire' = IF written
                     THEN [wire EXCEPT ![s.c] =
                             Append(@, [kind |-> s.kind, seq |-> s.seq, rev |-> s.rev])]
                     ELSE wire
    /\ UNCHANGED <<sequence, connVars, pending, running, barriers, failure, readers, closing, childAlive>>
    /\ UNCHANGED <<queues, credit>>

(* _finish_delivery: the outcome of a child's message goes back to it, unless *)
(* the process failed.                                                        *)
FinishDelivery(s) ==
    /\ s.at \in {"sent", "failed"} /\ s.kind # "admission"
    /\ sends' = sends \ {s}
    /\ controls' = IF closing \/ ~childAlive \/ failure # "none" THEN controls
                   ELSE Append(controls, Receipt(s.id, s.at = "sent"))
    /\ UNCHANGED <<sequence, connVars, pending, running, barriers, wire, failure, readers, closing, childAlive>>
    /\ UNCHANGED <<commands, results, notifications, credit>>

------------------------------------------------------------------------------
(* _read_results, one branch per kind of report; also after a failure, until *)
(* the reader ends itself or close cancels it.                               *)
Reading(kind) ==
    /\ "results" \in readers /\ results # <<>> /\ Head(results).kind = kind
    /\ results' = Tail(results)

(* The answer to a command wakes the worker that waits for it; the error of  *)
(* an enqueue closes the socket, as its admission may be out already.        *)
Awaited(p) == worker[p.c].seq = p.seq /\ worker[p.c].at \in {"connecting", "enveloping"}
Woken(p, place) == worker' = IF Awaited(p) THEN [worker EXCEPT ![p.c].at = place] ELSE worker
AnswerAccepted(p) ==
    /\ Woken(p, "reading")
    /\ UNCHANGED <<conn, barriers, running, sends>>
CallRefused(p) ==
    /\ p.op # "enqueue" /\ Woken(p, "failed")
    /\ conn' = IF ~Awaited(p) THEN conn
               ELSE IF p.op = "connect" THEN [conn EXCEPT ![p.c].registered = FALSE]
               ELSE [conn EXCEPT ![p.c].broken = TRUE]
    /\ barriers' = IF Awaited(p) THEN barriers \ {<<p.c, p.seq>>} ELSE barriers
    /\ UNCHANGED <<running, sends>>
EnqueueRefused(p) ==
    /\ p.op = "enqueue"
    /\ conn' = Shut({p.c}) /\ running' = Cleared({p.c})
    /\ sends' = IF conn[p.c].registered THEN Cancelled({p.c}) ELSE sends
    /\ UNCHANGED <<worker, barriers>>
ReadAnswer ==
    /\ Reading("result")
    /\ LET r == Head(results)
           known == {p \in pending : p.seq = r.n}
       IN \/ known = {} /\ Reject("results")
          \/ \E p \in known :
                /\ pending' = pending \ {p}
                /\ IF r.ok THEN AnswerAccepted(p) ELSE CallRefused(p) \/ EnqueueRefused(p)
                /\ UNCHANGED <<failure, readers>>
    /\ UNCHANGED <<sequence, frames, wire, closing, childAlive>>
    /\ UNCHANGED <<commands, controls, notifications, credit>>

(* runtime_terminal: the entry goes once its admission was acknowledged.     *)
ReadTerminal ==
    /\ Reading("terminal")
    /\ LET r == Head(results)
       IN running' = IF running[r.c][r.q].seq # r.n THEN running
                     ELSE [running EXCEPT ![r.c][r.q] =
                             IF @.acked THEN None ELSE [@ EXCEPT !.terminal = TRUE]]
    /\ UNCHANGED <<sequence, connVars, pending, barriers, sends, wire, failure, readers, closing, childAlive>>
    /\ UNCHANGED <<commands, controls, notifications, credit>>

ReadProcessed ==
    /\ Reading("processed")
    /\ LET r == Head(results)
       IN /\ barriers' = barriers \ {<<r.c, r.n>>}
          /\ conn' = IF ~r.ok /\ <<r.c, r.n>> \in barriers /\ conn[r.c].barrier = r.n
                     THEN [conn EXCEPT ![r.c].broken = TRUE] ELSE conn
    /\ UNCHANGED <<sequence, worker, frames, pending, running, sends, wire, failure, readers, closing, childAlive>>
    /\ UNCHANGED <<commands, controls, notifications, credit>>

(* connection_state: the next revision is taken over, the sends of the       *)
(* connection are cancelled and the child is told.                           *)
AfterState_LetsSendsEnd(c) == sends
AfterState(c) == Cancelled({c})
ReadState ==
    /\ Reading("state")
    /\ LET r == Head(results)
           current == conn[r.c].registered /\ ~conn[r.c].closed
           invalid == r.n # conn[r.c].rev + 1 \/ (conn[r.c].revoked /\ ~r.revoked)
       IN IF current /\ invalid
          THEN Reject("results") /\ UNCHANGED controls
          ELSE /\ conn' = IF current
                          THEN [conn EXCEPT ![r.c].rev = r.n, ![r.c].bound = r.bound,
                                            ![r.c].revoked = r.revoked]
                          ELSE conn
               /\ sends' = IF current THEN AfterState(r.c) ELSE sends
               /\ controls' = IF closing \/ failure # "none" THEN controls
                              ELSE Append(controls, Receipt(<<r.c, "state", r.n>>, current))
               /\ UNCHANGED <<pending, running, barriers, worker, failure, readers>>
    /\ UNCHANGED <<sequence, frames, wire, closing, childAlive>>
    /\ UNCHANGED <<commands, notifications, credit>>

ReadSocketClose ==
    /\ Reading("close")
    /\ LET c == Head(results).c
       IN IF conn[c].registered
          THEN /\ conn' = Shut({c}) /\ sends' = Cancelled({c}) /\ running' = Cleared({c})
          ELSE UNCHANGED <<conn, sends, running>>
    /\ UNCHANGED <<sequence, worker, frames, pending, barriers, wire, failure, readers, closing, childAlive>>
    /\ UNCHANGED <<commands, controls, notifications, credit>>

ReadDisconnected ==
    /\ Reading("disconnected")
    /\ LET c == Head(results).c
       IN conn' = IF conn[c].registered
                  THEN [conn EXCEPT ![c].closed = TRUE, ![c].gone = TRUE] ELSE conn
    /\ UNCHANGED <<sequence, worker, frames, tableVars, wire, failure, readers, closing, childAlive>>
    /\ UNCHANGED <<commands, controls, notifications, credit>>

------------------------------------------------------------------------------
(* close: the sends are cancelled and the child is asked to stop after the   *)
(* last command.                                                             *)
StartClose ==
    /\ ~closing
    /\ closing' = TRUE
    /\ sends' = IF childAlive THEN Cancelled(Connections) ELSE sends
    /\ controls' = IF childAlive THEN Append(controls, [kind |-> "shutdown", seq |-> sequence])
                   ELSE controls
    /\ UNCHANGED <<sequence, connVars, pending, running, barriers, wire, failure, readers, childAlive>>
    /\ UNCHANGED <<commands, results, notifications, credit>>

(* The 15 seconds are over: the child is terminated.                         *)
CloseTimeout ==
    /\ closing /\ failure = "none" /\ childAlive
    /\ Fail("unknown")
    /\ UNCHANGED <<sequence, frames, wire, readers, closing>>
    /\ UNCHANGED <<queues, credit>>

(* The child has stopped, which ends close, or is found dead without having  *)
(* been asked.                                                               *)
ChildEnded ==
    /\ ~childAlive /\ failure = "none"
    /\ IF closing /\ results # <<>> THEN Head(results).kind = "stopped" ELSE TRUE
    /\ Fail(IF closing THEN "stopped" ELSE "exited")
    /\ readers' = IF closing THEN {} ELSE readers
    /\ UNCHANGED <<sequence, frames, wire, closing, childAlive>>
    /\ UNCHANGED <<queues, credit>>

(* close after a failure, with the child's death confirmed: _fail once more, *)
(* and the readers are cancelled.                                            *)
EndClose ==
    /\ closing /\ ~childAlive /\ failure # "none" /\ readers # {}
    /\ Fail(failure)
    /\ readers' = {}
    /\ UNCHANGED <<sequence, frames, wire, closing, childAlive>>
    /\ UNCHANGED <<queues, credit>>

ParentStep ==
    \/ \E c \in Connections :
          \/ Connect(c) \/ Enqueue(c) \/ Admitted(c) \/ EndWorker(c)
          \/ DisconnectStart(c) \/ DisconnectEnd(c)
    \/ \E s \in sends : BeginWrite(s) \/ Write(s) \/ FinishDelivery(s)
    \/ ReadNotification \/ ReadAnswer \/ ReadTerminal \/ ReadProcessed \/ ReadState
    \/ ReadSocketClose \/ ReadDisconnected \/ ChildEnded \/ EndClose

ClientSends == \E c \in Connections :
    \/ SendEnvelope(c)
    \/ \E q \in RequestIds : TakeRequest(c, q)
=============================================================================
