---------------------------- MODULE RuntimeChild ----------------------------
(***************************************************************************)
(* The child side of services/runtime_process.py, _run_child and class     *)
(* _RuntimeConnection, with what the session of main.websocket_endpoint    *)
(* does on such a channel: it handles envelopes one after the other, its   *)
(* admission pump completes the enqueued commands in order, and a          *)
(* revocation closes it under control.                                     *)
(*                                                                         *)
(* One event loop, and the owner thread that runs commands and calls in    *)
(* the order in which they took a permit (RuntimeExecution is the model of *)
(* that thread).  What a command does is left out: a call for an envelope  *)
(* may bind the session or change its binding, and a completion may be     *)
(* withheld because its authorisation is over.                             *)
(***************************************************************************)
EXTENDS RuntimeChannels

VARIABLES
    phase,           \* "up", "refusing", "draining", "closing", "stopped"
    last,            \* sequence: the last command received
    target,          \* shutdown_target
    dropped,         \* cancelled_connections
    chan,            \* the channel of a connection and its session
    syncs,           \* binding publications in flight, [n, bound, revoked, out]
    admitted,        \* admitted_commands: [q, seq, rev, done]
    pump,            \* admission_pump: "off", "on", "stopping"
    sending,         \* the message under the session's send_lock
    owner            \* what waits for the owner thread, [c, what, seq]

sessionVars == <<chan, syncs, admitted, pump, sending>>
childVars == <<phase, last, target, dropped, sessionVars, owner>>

Nobody == [kind |-> "none", n |-> 0, q |-> "none", rev |-> 0, out |-> FALSE]

NoSession == [at |-> "none", disconnecting |-> FALSE, rev |-> 0, bound |-> FALSE,
              revoked |-> FALSE, current |-> 0, inbox |-> <<>>, synced |-> 0,
              syncLost |-> FALSE, awaits |-> 0, unbind |-> "no", closer |-> "off"]
Each(value) == [c \in Connections |-> value]

ChildInit ==
    /\ phase = "up" /\ last = 0 /\ target = 0 /\ dropped = {} /\ owner = <<>>
    /\ chan = Each(NoSession) /\ syncs = Each(<<>>) /\ admitted = Each(<<>>)
    /\ pump = Each("off") /\ sending = Each(Nobody)

(* The memory of the process goes with it.                                   *)
ChildLost ==
    /\ childAlive' = FALSE
    /\ phase' = "lost" /\ last' = 0 /\ target' = 0 /\ dropped' = {} /\ owner' = <<>>
    /\ chan' = Each(NoSession) /\ syncs' = Each(<<>>) /\ admitted' = Each(<<>>)
    /\ pump' = Each("off") /\ sending' = Each(Nobody)

------------------------------------------------------------------------------
Exists(c) == chan[c].at \notin {"none", "gone"}

Answer(seq, ok) == [kind |-> "result", n |-> seq, ok |-> ok]
Emit(reports) == results' = results \o reports
Processed(c, n, ok) == [kind |-> "processed", c |-> c, n |-> n, ok |-> ok]
Terminals(c) == [i \in DOMAIN admitted[c] |->
                   [kind |-> "terminal", c |-> c, q |-> admitted[c][i].q, n |-> admitted[c][i].seq]]

(* synchronize_binding: the next revision is published after the one before, *)
(* and is lost with it; "close": the finally waits for it.                   *)
Synced(c, ch, close) ==
    IF ch.syncLost THEN syncs[c]
    ELSE Append(syncs[c], [n |-> ch.rev, bound |-> ch.bound, revoked |-> ch.revoked,
                           close |-> close, out |-> FALSE])
(* Cancelling a publication loses the ones behind it.                        *)
Before(c, n) == SubSeq(syncs[c], 1, Cardinality({i \in DOMAIN syncs[c] : syncs[c][i].n < n}))
CloseSync(c) == {syncs[c][i].n : i \in {j \in DOMAIN syncs[c] : syncs[c][j].close}}

(* request_transport_close                                                   *)
RequestClose(c) ==
    LET ch == [chan[c] EXCEPT !.rev = @ + 1, !.revoked = TRUE, !.closer = "asked"]
    IN chan' = [chan EXCEPT ![c] = ch] /\ syncs' = [syncs EXCEPT ![c] = Synced(c, ch, TRUE)]

(* The session's finally begins: the pump is cancelled first.                *)
Finally(c, ch) == [ch EXCEPT !.at = IF pump[c] = "off" THEN "unbinding" ELSE "pumpWait",
                             !.unbind = IF pump[c] = "off" THEN "asked" ELSE @]
StopPump(c) == pump' = IF pump[c] = "on" THEN [pump EXCEPT ![c] = "stopping"] ELSE pump

(* task.cancel() on the session.  While it handles an envelope, its finally  *)
(* begins; a binding publication it waits for is cancelled with it, and the  *)
(* ones behind it.  Within the finally, what it waits for is skipped: after  *)
(* the pump everything, as the exception leaves the block.                   *)
Forget(c, kind) ==
    sending' = IF sending[c].kind = kind THEN [sending EXCEPT ![c] = Nobody] ELSE sending
CancelPublication(c, n, place) ==
    /\ syncs' = [syncs EXCEPT ![c] = Before(c, n)]
    /\ chan' = [chan EXCEPT ![c] = [place EXCEPT !.syncLost = @ \/ Before(c, n) # syncs[c]]]
CancelLoop(c, ch) ==
    /\ chan[c].at \in {"receive", "join", "ownerWait", "send"}
    /\ chan' = [chan EXCEPT ![c] = Finally(c, ch)]
    /\ StopPump(c) /\ Forget(c, "message")
    /\ UNCHANGED syncs
CancelSync(c, ch) ==
    /\ chan[c].at = "sync"
    /\ CancelPublication(c, chan[c].awaits, Finally(c, ch))
    /\ StopPump(c)
    /\ UNCHANGED sending
CancelUnbind(c, ch) ==
    /\ chan[c].at = "unbinding"
    /\ chan' = [chan EXCEPT ![c] = [ch EXCEPT !.at = "waiting", !.closer = "off"]]
    /\ Forget(c, "revoked")
    /\ UNCHANGED <<syncs, pump>>
CancelPumpWait(c, ch) ==
    /\ chan[c].at = "pumpWait"
    /\ chan' = [chan EXCEPT ![c] = [ch EXCEPT !.at = "finalizing"]]
    /\ UNCHANGED <<syncs, pump, sending>>
CancelWaiting(c, ch) ==
    /\ chan[c].at = "waiting"
    /\ \E n \in IF CloseSync(c) = {} THEN {chan[c].rev + 1} ELSE CloseSync(c) :
          CancelPublication(c, n, [ch EXCEPT !.at = "finalizing"])
    /\ UNCHANGED <<pump, sending>>
Cancel(c) ==
    LET ch == [chan[c] EXCEPT !.disconnecting = TRUE]
    IN CancelLoop(c, ch) \/ CancelSync(c, ch) \/ CancelUnbind(c, ch)
          \/ CancelPumpWait(c, ch) \/ CancelWaiting(c, ch)

------------------------------------------------------------------------------
(* receive                                                                   *)
Receiving(op) ==
    /\ phase = "up" /\ commands # <<>> /\ Head(commands).op = op
    /\ commands' = Tail(commands)
    /\ last' = Head(commands).seq

(* After the shutdown was asked for: nothing is accepted any more, and the   *)
(* permit of a refused request goes back.                                    *)
RefusedPermit_Kept(op) == 0
RefusedPermit(op) == IF op = "enqueue" THEN 1 ELSE 0
ReceiveRefused ==
    /\ phase = "refusing" /\ commands # <<>>
    /\ LET m == Head(commands)
       IN /\ last' = m.seq
          /\ credit' = credit + RefusedPermit(m.op)
          /\ Emit(<<Answer(m.seq, FALSE)>>)
          /\ phase' = IF m.seq >= target THEN "draining" ELSE phase
    /\ commands' = Tail(commands)
    /\ UNCHANGED <<controls, notifications, childAlive, target, dropped, sessionVars, owner>>

(* transport.connect: no session for a connection that was given up already. *)
ReceiveConnect ==
    /\ Receiving("connect")
    /\ LET m == Head(commands)
           full == Exists(m.c) \/ Cardinality({c \in Connections : Exists(c)}) >= Capacity
       IN /\ Emit(<<Answer(m.seq, ~full)>>)
          /\ dropped' = IF full THEN dropped ELSE dropped \ {m.c}
          /\ chan' = IF full \/ m.c \in dropped THEN chan
                     ELSE [chan EXCEPT ![m.c].at = "receive"]
    /\ UNCHANGED <<controls, notifications, credit, childAlive>>
    /\ UNCHANGED <<phase, target, syncs, admitted, pump, sending, owner>>

ReceiveEnvelope ==
    /\ Receiving("envelope")
    /\ LET m == Head(commands)
       IN /\ Emit(<<Answer(m.seq, Exists(m.c))>>)
          /\ chan' = IF Exists(m.c) THEN [chan EXCEPT ![m.c].inbox = Append(@, m.seq)] ELSE chan
    /\ UNCHANGED <<controls, notifications, credit, childAlive>>
    /\ UNCHANGED <<phase, target, dropped, syncs, admitted, pump, sending, owner>>

(* runtime.enqueue: the permit goes to the owner's queue with the command,   *)
(* or back.                                                                  *)
ReceiveEnqueue ==
    /\ Receiving("enqueue")
    /\ LET m == Head(commands)
           accepted == /\ Exists(m.c) /\ chan[m.c].at # "finalizing" /\ ~chan[m.c].disconnecting
                       /\ ~ \E i \in DOMAIN admitted[m.c] : admitted[m.c][i].q = m.q
                       /\ Len(admitted[m.c]) < Capacity
       IN /\ Emit(<<Answer(m.seq, accepted)>>)
          /\ IF accepted
             THEN /\ admitted' = [admitted EXCEPT ![m.c] =
                       Append(@, [q |-> m.q, seq |-> m.seq, rev |-> m.rev, done |-> FALSE])]
                  /\ owner' = Append(owner, [c |-> m.c, what |-> "command", seq |-> m.seq])
                  /\ pump' = [pump EXCEPT ![m.c] = IF @ = "off" THEN "on" ELSE @]
                  /\ UNCHANGED credit
             ELSE /\ credit' = credit + 1
                  /\ UNCHANGED <<admitted, owner, pump>>
    /\ UNCHANGED <<controls, notifications, childAlive>>
    /\ UNCHANGED <<phase, target, dropped, chan, syncs, sending>>

------------------------------------------------------------------------------
(* The session's loop: receive_json, the wait for the commands admitted      *)
(* before, the call of the owner, the publication of the binding, the answer.*)
TakeEnvelope(c) ==
    /\ chan[c].at = "receive" /\ chan[c].inbox # <<>>
    /\ LET n == Head(chan[c].inbox)
           taken == [chan[c] EXCEPT !.inbox = Tail(@)]
       IN IF chan[c].revoked
          THEN Emit(<<Processed(c, n, TRUE)>>) /\ chan' = [chan EXCEPT ![c] = taken]
          ELSE chan' = [chan EXCEPT ![c] = [taken EXCEPT !.at = "join", !.current = n]]
               /\ UNCHANGED results
    /\ UNCHANGED <<commands, controls, notifications, credit, childAlive>>
    /\ UNCHANGED <<phase, last, target, dropped, syncs, admitted, pump, sending, owner>>

Joined_NotAwaited(c) == TRUE
Joined(c) == admitted[c] = <<>>

(* _dialogue_owner_call: submit as soon as there is a permit.                *)
CallOwner(c) ==
    /\ credit > 0 /\ credit' = credit - 1
    /\ \/ /\ chan[c].at = "join" /\ Joined(c)
          /\ chan' = [chan EXCEPT ![c].at = "ownerWait"]
          /\ owner' = Append(owner, [c |-> c, what |-> "envelope", seq |-> chan[c].current])
       \/ /\ chan[c].unbind = "asked"
          /\ chan' = [chan EXCEPT ![c].unbind = "queued"]
          /\ owner' = Append(owner, [c |-> c, what |-> "unbind", seq |-> 0])
    /\ UNCHANGED <<queues, childAlive>>
    /\ UNCHANGED <<phase, last, target, dropped, syncs, admitted, pump, sending>>

(* The owner thread ends a command or a call and gives the permit back; who  *)
(* waited for it goes on.                                                    *)
Ended(a, n) == [a EXCEPT !.done = @ \/ a.seq = n]
EndCommand(c, n) ==
    /\ admitted' = [admitted EXCEPT ![c] = [i \in DOMAIN admitted[c] |-> Ended(admitted[c][i], n)]]
    /\ UNCHANGED <<chan, syncs, sending>>
AwaitsOwner(c, n) == chan[c].at = "ownerWait" /\ chan[c].current = n
Rebind(c) ==
    LET ch == [chan[c] EXCEPT !.at = "sync", !.rev = @ + 1, !.awaits = chan[c].rev + 1, !.bound = TRUE]
    IN /\ chan' = [chan EXCEPT ![c] = ch]
       /\ syncs' = [syncs EXCEPT ![c] = Synced(c, ch, FALSE)]
KeepBinding(c) ==
    /\ chan' = [chan EXCEPT ![c] = [@ EXCEPT !.at = "sync", !.awaits = chan[c].rev]]
    /\ UNCHANGED syncs
EndEnvelope(c, n) ==
    /\ AwaitsOwner(c, n) /\ (Rebind(c) \/ KeepBinding(c))
    /\ UNCHANGED <<admitted, sending>>
EndUnbind(c) ==
    /\ chan[c].at = "unbinding"
    /\ chan' = [chan EXCEPT ![c] = [@ EXCEPT !.at = "waiting", !.unbind = "done", !.closer = "off"]]
    /\ Forget(c, "revoked")
    /\ UNCHANGED <<admitted, syncs>>
EndForNobody(c, what, n) ==
    /\ ~ (what = "envelope" /\ AwaitsOwner(c, n)) /\ ~ (what = "unbind" /\ chan[c].at = "unbinding")
    /\ chan' = IF what = "unbind" THEN [chan EXCEPT ![c].unbind = "done"] ELSE chan
    /\ UNCHANGED <<admitted, syncs, sending>>
OwnerRun ==
    /\ owner # <<>>
    /\ LET m == Head(owner)
       IN \/ m.what = "command" /\ EndCommand(m.c, m.seq)
          \/ m.what = "envelope" /\ EndEnvelope(m.c, m.seq)
          \/ m.what = "unbind" /\ EndUnbind(m.c)
          \/ m.what # "command" /\ EndForNobody(m.c, m.what, m.seq)
    /\ owner' = Tail(owner)
    /\ credit' = credit + 1
    /\ UNCHANGED <<queues, childAlive, phase, last, target, dropped, pump>>

(* The publication is over: the answer is sent, or the session returns.      *)
AfterSync(c) ==
    /\ chan[c].at = "sync"
    /\ \/ /\ chan[c].synced >= chan[c].awaits
          /\ chan' = [chan EXCEPT ![c].at = "send"]
          /\ UNCHANGED pump
       \/ /\ chan[c].syncLost /\ chan[c].synced < chan[c].awaits
          /\ chan' = [chan EXCEPT ![c] = Finally(c, chan[c])]
          /\ StopPump(c)
    /\ UNCHANGED <<queues, credit, childAlive>>
    /\ UNCHANGED <<phase, last, target, dropped, syncs, admitted, sending, owner>>

(* _publish_binding: one publication of a channel at a time, in order.       *)
PublishBinding(c) ==
    /\ syncs[c] # <<>> /\ ~Head(syncs[c]).out
    /\ LET s == Head(syncs[c])
       IN Emit(<<[kind |-> "state", c |-> c, n |-> s.n, bound |-> s.bound, revoked |-> s.revoked]>>)
    /\ syncs' = [syncs EXCEPT ![c][1].out = TRUE]
    /\ UNCHANGED <<commands, controls, notifications, credit, childAlive>>
    /\ UNCHANGED <<phase, last, target, dropped, chan, admitted, pump, sending, owner>>

------------------------------------------------------------------------------
(* send_json under the session's send_lock: the revision is noted, then the  *)
(* binding's publication awaited.                                            *)
Lock(c, kind, n, q) ==
    /\ sending[c] = Nobody
    /\ sending' = [sending EXCEPT ![c] =
         [kind |-> kind, n |-> n, q |-> q, rev |-> chan[c].rev, out |-> FALSE]]

(* The pump takes the first command that has ended.                          *)
FirstDone(c) == pump[c] = "on" /\ admitted[c] # <<>> /\ Head(admitted[c]).done

StartSend(c) ==
    /\ \/ chan[c].at = "send" /\ Lock(c, "message", chan[c].current, "none")
       \/ /\ FirstDone(c) /\ sending[c].kind # "completion" /\ ~chan[c].revoked
          /\ Lock(c, "completion", Head(admitted[c]).seq, Head(admitted[c]).q)
       \/ chan[c].closer = "asked" /\ Lock(c, "revoked", 0, "none")
    /\ UNCHANGED <<queues, credit, childAlive>>
    /\ UNCHANGED <<phase, last, target, dropped, chan, syncs, admitted, pump, owner>>

(* finish_admitted for the first one; the pump ends with the last.           *)
FinishFirst(c) ==
    /\ admitted' = [admitted EXCEPT ![c] = Tail(@)]
    /\ pump' = [pump EXCEPT ![c] = IF Len(admitted[c]) = 1 THEN "off" ELSE @]
    /\ Emit(<<Terminals(c)[1]>>)

(* Its completion is withheld: the session is revoked, the authorisation or  *)
(* the lease is over.                                                        *)
Withhold(c) ==
    /\ FirstDone(c) /\ sending[c].kind # "completion"
    /\ FinishFirst(c)
    /\ UNCHANGED <<commands, controls, notifications, credit, childAlive>>
    /\ UNCHANGED <<phase, last, target, dropped, chan, syncs, sending, owner>>

(* The wait of send_json is over, with "sent" or with WebSocketDisconnect.   *)
MessageSent(c) ==
    /\ Emit(<<Processed(c, chan[c].current, TRUE)>>)
    /\ chan' = [chan EXCEPT ![c] = [@ EXCEPT !.at = "receive", !.current = 0]]
    /\ UNCHANGED <<syncs, admitted, pump>>
MessageLost(c) ==
    /\ chan' = [chan EXCEPT ![c] = Finally(c, chan[c])]
    /\ StopPump(c)
    /\ UNCHANGED <<results, syncs, admitted>>
CompletionLost(c) ==
    /\ Emit(Terminals(c))
    /\ admitted' = [admitted EXCEPT ![c] = <<>>]
    /\ pump' = [pump EXCEPT ![c] = "off"]
    /\ IF chan[c].revoked THEN UNCHANGED <<chan, syncs>> ELSE RequestClose(c)
RevokedOver(c, sent) ==
    /\ chan' = [chan EXCEPT ![c].closer = IF sent THEN "told" ELSE "off"]
    /\ UNCHANGED <<results, syncs, admitted, pump>>
SendOver(c, sent) ==
    /\ sending' = [sending EXCEPT ![c] = Nobody]
    /\ \/ sending[c].kind = "message" /\ IF sent THEN MessageSent(c) ELSE MessageLost(c)
       \/ /\ sending[c].kind = "completion"
          /\ IF sent THEN FinishFirst(c) /\ UNCHANGED <<chan, syncs>> ELSE CompletionLost(c)
       \/ sending[c].kind = "revoked" /\ RevokedOver(c, sent)

(* A pump that is being cancelled hears of nothing any more.                *)
Heard(c) == sending[c] # Nobody /\ (sending[c].kind = "completion" => pump[c] = "on")

PutNotification(c) ==
    /\ Heard(c) /\ ~sending[c].out
    /\ LET s == sending[c]
       IN \/ /\ chan[c].synced >= s.rev /\ chan[c].rev = s.rev
             /\ notifications' = Append(notifications,
                  [id |-> <<c, s.kind, s.n>>, c |-> c, kind |-> s.kind, rev |-> s.rev,
                   q |-> s.q, seq |-> s.n])
             /\ sending' = [sending EXCEPT ![c].out = TRUE]
             /\ UNCHANGED <<results, chan, syncs, admitted, pump>>
          \/ /\ \/ chan[c].synced >= s.rev /\ chan[c].rev # s.rev
                \/ chan[c].synced < s.rev /\ chan[c].syncLost
             /\ SendOver(c, FALSE)
             /\ UNCHANGED notifications
    /\ UNCHANGED <<commands, controls, credit, childAlive>>
    /\ UNCHANGED <<phase, last, target, dropped, owner>>

(* The controlled close, a second after the client was told.                 *)
CloseSession(c) ==
    /\ chan[c].closer = "told"
    /\ chan' = [chan EXCEPT ![c].closer = "off"]
    /\ Emit(<<Report("close", c, 0)>>)
    /\ UNCHANGED <<commands, controls, notifications, credit, childAlive>>
    /\ UNCHANGED <<phase, last, target, dropped, syncs, admitted, pump, sending, owner>>

(* The session is revoked: by the owner, the mirror or another session.      *)
Revoke(c) ==
    /\ chan[c].at \in {"receive", "join", "ownerWait", "sync", "send", "pumpWait"}
    /\ ~chan[c].revoked /\ RequestClose(c)
    /\ UNCHANGED <<queues, credit, childAlive>>
    /\ UNCHANGED <<phase, last, target, dropped, admitted, pump, sending, owner>>

------------------------------------------------------------------------------
(* The pump's own finally: every command left is reported as ended.          *)
PumpStopped(c) ==
    /\ pump[c] = "stopping"
    /\ Emit(Terminals(c))
    /\ admitted' = [admitted EXCEPT ![c] = <<>>]
    /\ pump' = [pump EXCEPT ![c] = "off"]
    /\ Forget(c, "completion")
    /\ chan' = IF chan[c].at = "pumpWait"
               THEN [chan EXCEPT ![c].at = "unbinding", ![c].unbind = "asked"] ELSE chan
    /\ UNCHANGED <<commands, controls, notifications, credit, childAlive>>
    /\ UNCHANGED <<phase, last, target, dropped, syncs, owner>>

(* The end of the finally waits for the publication of a revocation.         *)
EndSession(c) ==
    /\ chan[c].at = "waiting"
    /\ CloseSync(c) = {}
    /\ chan' = [chan EXCEPT ![c].at = "finalizing"]
    /\ UNCHANGED <<queues, credit, childAlive>>
    /\ UNCHANGED <<phase, last, target, dropped, syncs, admitted, pump, sending, owner>>

(* finish_connection                                                         *)
FinishConnection(c) ==
    /\ chan[c].at = "finalizing"
    /\ LET open == (IF chan[c].current = 0 THEN <<>> ELSE <<chan[c].current>>) \o chan[c].inbox
       IN Emit([i \in DOMAIN open |-> Processed(c, open[i], FALSE)] \o <<Report("disconnected", c, 0)>>)
    /\ chan' = [chan EXCEPT ![c] = [@ EXCEPT !.at = "gone", !.current = 0, !.inbox = <<>>]]
    /\ UNCHANGED <<commands, controls, notifications, credit, childAlive>>
    /\ UNCHANGED <<phase, last, target, dropped, syncs, admitted, pump, sending, owner>>

------------------------------------------------------------------------------
(* control                                                                   *)
Control(kind) ==
    /\ phase \in {"up", "refusing", "draining"}
    /\ controls # <<>> /\ Head(controls).kind = kind
    /\ controls' = Tail(controls)

PublicationAcked(c, n) == syncs[c] # <<>> /\ Head(syncs[c]).out /\ Head(syncs[c]).n = n
SendAcked(c, kind, n) ==
    Heard(c) /\ sending[c].out /\ sending[c].kind = kind /\ sending[c].n = n
ReceiptOfState(c, n, sent) ==
    /\ IF sent
       THEN /\ chan' = [chan EXCEPT ![c].synced = n]
            /\ syncs' = [syncs EXCEPT ![c] = Tail(@)]
       ELSE /\ chan' = [chan EXCEPT ![c].syncLost = TRUE]
            /\ syncs' = [syncs EXCEPT ![c] = <<>>]
    /\ UNCHANGED <<results, admitted, pump, sending>>
ControlReceipt ==
    /\ Control("receipt")
    /\ LET m == Head(controls)
           c == m.id[1]
           kind == m.id[2]
           n == m.id[3]
       IN \/ kind = "state" /\ PublicationAcked(c, n) /\ ReceiptOfState(c, n, m.sent)
          \/ kind # "state" /\ SendAcked(c, kind, n) /\ SendOver(c, m.sent)
          \/ /\ IF kind = "state" THEN ~PublicationAcked(c, n) ELSE ~SendAcked(c, kind, n)
             /\ UNCHANGED <<results, sessionVars>>
    /\ UNCHANGED <<commands, notifications, credit, childAlive>>
    /\ UNCHANGED <<phase, last, target, dropped, owner>>

(* A disconnect that arrives before its connect is remembered.               *)
Remembered_Never(m) == dropped
Remembered(m) == IF m.seq > last THEN dropped \cup {m.c} ELSE dropped
ControlDisconnect ==
    /\ Control("disconnect")
    /\ LET m == Head(controls)
       IN IF Exists(m.c)
          THEN /\ IF chan[m.c].at # "finalizing" /\ ~chan[m.c].disconnecting
                  THEN Cancel(m.c) ELSE UNCHANGED <<chan, syncs, pump, sending>>
               /\ UNCHANGED <<results, dropped>>
          ELSE /\ dropped' = Remembered(m)
               /\ Emit(<<Report("disconnected", m.c, 0)>>)
               /\ UNCHANGED <<chan, syncs, pump, sending>>
    /\ UNCHANGED <<commands, notifications, credit, childAlive>>
    /\ UNCHANGED <<phase, last, target, admitted, owner>>

ControlShutdown ==
    /\ Control("shutdown")
    /\ target' = Head(controls).seq
    /\ phase' = IF last >= Head(controls).seq THEN "draining" ELSE "refusing"
    /\ UNCHANGED <<commands, results, notifications, credit, childAlive>>
    /\ UNCHANGED <<last, dropped, sessionVars, owner>>

(* Nothing is received any more: the sessions are cancelled, control goes on *)
(* until none is left, and the owner ends what it was given.                 *)
DrainSession(c) ==
    /\ phase = "draining"
    /\ Exists(c) /\ chan[c].at # "finalizing" /\ ~chan[c].disconnecting
    /\ Cancel(c)
    /\ UNCHANGED <<queues, credit, childAlive>>
    /\ UNCHANGED <<phase, last, target, dropped, admitted, owner>>

StopOwner ==
    /\ phase = "draining" /\ \A c \in Connections : ~Exists(c)
    /\ phase' = "closing"
    /\ UNCHANGED <<queues, credit, childAlive>>
    /\ UNCHANGED <<last, target, dropped, sessionVars, owner>>

Stopped ==
    /\ phase = "closing" /\ owner = <<>>
    /\ phase' = "stopped" /\ childAlive' = FALSE
    /\ Emit(<<[kind |-> "stopped"]>>)
    /\ UNCHANGED <<commands, controls, notifications, credit>>
    /\ UNCHANGED <<last, target, dropped, sessionVars, owner>>

(* The process dies; what its feeder threads had not passed on is lost.      *)
ChildDies ==
    /\ childAlive
    /\ ChildLost
    /\ \E i \in 0 .. Len(results), j \in 0 .. Len(notifications) :
          results' = SubSeq(results, 1, i) /\ notifications' = SubSeq(notifications, 1, j)
    /\ UNCHANGED <<commands, controls, credit>>

ChildStep ==
    /\ childAlive
    /\ \/ ReceiveRefused \/ ReceiveConnect \/ ReceiveEnvelope \/ ReceiveEnqueue
       \/ ControlReceipt \/ ControlDisconnect \/ ControlShutdown
       \/ OwnerRun \/ StopOwner \/ Stopped
       \/ \E c \in Connections :
             \/ TakeEnvelope(c) \/ CallOwner(c) \/ AfterSync(c)
             \/ PublishBinding(c) \/ StartSend(c) \/ Withhold(c) \/ PutNotification(c)
             \/ CloseSession(c) \/ PumpStopped(c) \/ EndSession(c)
             \/ FinishConnection(c) \/ DrainSession(c)
=============================================================================
