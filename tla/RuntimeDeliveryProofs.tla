----------------------- MODULE RuntimeDeliveryProofs -----------------------
(***************************************************************************)
(* What the two processes of the runtime transport agree on, and what a    *)
(* client is sent, on the invariants of RuntimeProcessProofs.              *)
(*                                                                         *)
(* Binding.  The child's steps keep BindingInv, of which the other module  *)
(* has the definition and the parent's steps: what it reports, what moves  *)
(* through an inbox, and what revision is in force.                        *)
(*                                                                         *)
(* Agreement.  The parent makes three complaints of its own child.  It has *)
(* none: a command that is queued, or whose answer is on its way, is still *)
(* awaited, and by one answer; one report of a session's binding is on its *)
(* way at a time, or the receipt for one, and it is the revision after the *)
(* parent's as long as the connection lives; and a session hands a message *)
(* over once, under its lock, about a command or an envelope later than    *)
(* all it sent before, so that no two on their way have the same identity. *)
(*                                                                         *)
(* Delivery.  A session's completions travel one at a time: the lock is    *)
(* held until the receipt is taken, and whatever ends the wait sooner      *)
(* mutes the session: it was cancelled and its pump is gone, or a          *)
(* publication of its binding was lost.  So what is still to be written    *)
(* is about a later command than what was.                                 *)
(* And what leads to a completion, from the queued command to the send     *)
(* task, is about a request that keeps its place in the parent's table     *)
(* until its admission was written, unless its connection is closed.       *)
(***************************************************************************)
EXTENDS RuntimeProcessProofs

\* What the child reports: what is not the end of an envelope, but a binding only
\* when it is published; or the end of the first envelope of a session; or the end
\* of a session.
Fresh(r) == /\ r.kind # "processed"
            /\ r.kind = "state" => r.c \in Connections /\ PublishBinding(r.c) /\ r.n = Head(syncs[r.c]).n
Silent == \E t \in Seq(Result) : results' = results \o t /\ \A r \in Items(t) : Fresh(r)
\* A step that reports nothing, or one thing, is silent.
LEMMA SilentNone ==
  ASSUME TypeInv, UNCHANGED results
  PROVE  Silent
<1>1. results \in Seq(Result) /\ <<>> \in Seq(Result) /\ results \o <<>> = results
  BY BindingTypes
<1>2. Items(<<>>) = {}
  BY DEF Items
<1> QED
  BY <1>1, <1>2 DEF Silent
\* The case of a single report.
LEMMA SilentOne ==
  ASSUME TypeInv, NEW e \in Result, Fresh(e), Emit(<<e>>)
  PROVE  Silent
<1>1. <<e>> \in Seq(Result) /\ results' = results \o <<e>>
  BY EmitOneTypes
<1>2. Items(<<e>>) = {e}
  BY DEF Items
<1> QED
  BY <1>1, <1>2 DEF Silent
\* The commands given up are reported silently.
LEMMA SilentTerminals ==
  ASSUME TypeInv, NEW c \in Connections, Emit(Terminals(c))
  PROVE  Silent
<1>1. Terminals(c) \in Seq(Result) /\ results' = results \o Terminals(c)
  BY TerminalsTypes, EmitTypes
<1>2. ASSUME NEW e \in Items(Terminals(c))
      PROVE  Fresh(e)
  <2>1. DOMAIN Terminals(c) = DOMAIN admitted[c]
    BY DEF Terminals
  <2>2. PICK i \in DOMAIN admitted[c] : e = Terminals(c)[i]
    BY <2>1 DEF Items
  <2>3. e = [kind |-> "terminal", c |-> c, q |-> admitted[c][i].q, n |-> admitted[c][i].seq]
    BY <2>2, TerminalsTypes
  <2> QED
    BY <2>3 DEF Fresh
<1> QED
  BY <1>1, <1>2 DEF Silent
\* So is the first command that has ended.
LEMMA SilentFirst ==
  ASSUME TypeInv, NEW c \in Connections, admitted[c] # <<>>, FinishFirst(c)
  PROVE  Silent
<1> DEFINE e == [kind |-> "terminal", c |-> c, q |-> Head(admitted[c]).q, n |-> Head(admitted[c]).seq]
<1>1. Emit(<<e>>)
  BY FinishFirstTypes DEF Emit
<1>2. Head(admitted[c]) \in Admission
  BY DEF TypeInv, ChildType
<1>3. e \in Result /\ Fresh(e)
  BY <1>2 DEF Admission, Result, Fresh
<1> HIDE DEF e
<1> QED
  BY <1>1, <1>3, SilentOne
\* The answer to a command is not the end of an envelope.
LEMMA ReceiveSilent ==
  ASSUME TypeInv, ReceiveRefused \/ ReceiveConnect \/ ReceiveEnvelope \/ ReceiveEnqueue
  PROVE  Silent
<1> DEFINE m == Head(commands)
<1>1. commands # <<>> /\ commands' = Tail(commands)
  BY DEF ReceiveRefused, ReceiveConnect, ReceiveEnvelope, ReceiveEnqueue, Receiving
<1>2. m.seq \in Nat
  BY <1>1, TakenTypes
<1>3. \E ok \in BOOLEAN : Emit(<<Answer(m.seq, ok)>>)
  <2>1. CASE ReceiveRefused
    BY <2>1, Zenon DEF ReceiveRefused
  <2>2. CASE ReceiveConnect
    <3> DEFINE full == Exists(m.c) \/ Cardinality({c \in Connections : Exists(c)}) >= Capacity
    <3>1. Emit(<<Answer(m.seq, ~full)>>)
      BY <2>2 DEF ReceiveConnect
    <3>2. (~full) \in BOOLEAN
      OBVIOUS
    <3> HIDE DEF full
    <3> QED
      BY <3>1, <3>2
  <2>3. CASE ReceiveEnvelope
    <3>1. Emit(<<Answer(m.seq, Exists(m.c))>>) /\ Exists(m.c) \in BOOLEAN
      BY <2>3, Zenon DEF ReceiveEnvelope, Exists
    <3> QED
      BY <3>1, Zenon
  <2>4. CASE ReceiveEnqueue
    BY <2>4, ReceiveEnqueueTypes
  <2> QED
    BY <2>1, <2>2, <2>3, <2>4
<1>4. PICK ok \in BOOLEAN : Emit(<<Answer(m.seq, ok)>>)
  BY <1>3
<1>5. Answer(m.seq, ok) \in Result /\ Fresh(Answer(m.seq, ok))
  BY <1>2, AnswerType DEF Answer, Fresh
<1> QED
  BY <1>4, <1>5, SilentOne

\* What a step of the child does to the envelopes.
OthersWork(c) == \A d \in Connections : d # c => SameWork(d)
Hands(c) ==
    /\ \E n \in Nat, ok \in BOOLEAN :
          /\ results' = results \o <<Processed(c, n, ok)>> /\ n # 0 /\ chan'[c].current = 0
          /\ \/ n = chan[c].current /\ chan'[c].inbox = chan[c].inbox
             \/ /\ chan[c].current = 0 /\ chan[c].inbox # <<>>
                /\ n = Head(chan[c].inbox) /\ chan'[c].inbox = Tail(chan[c].inbox)
    /\ OthersWork(c)
Begins(c) ==
    /\ UNCHANGED results
    /\ chan[c].current = 0 /\ chan[c].inbox # <<>> /\ chan[c].at = "receive"
    /\ chan'[c].current = Head(chan[c].inbox) /\ chan'[c].inbox = Tail(chan[c].inbox)
    /\ OthersWork(c)
SameEnvelopes == Silent /\ \A d \in Connections : SameWork(d)
WorkMoves ==
    \/ SameEnvelopes
    \/ Silent /\ ReceiveEnvelope
    \/ \E c \in Connections : Hands(c) \/ Begins(c) \/ FinishConnection(c)

\* The end of a send ends an envelope, or none.
LEMMA SendOverWork ==
  ASSUME TypeInv, MessagesPlaced, NEW c \in Connections, WorkPlaced(c), NEW sent \in BOOLEAN, SendOver(c, sent)
  PROVE  WorkMoves
<1>1. \/ sending[c].kind = "message" /\ MessageSent(c)
      \/ MessageLost(c)
      \/ sending[c].kind = "completion" /\ FinishFirst(c) /\ UNCHANGED chan
      \/ Emit(Terminals(c)) /\ (UNCHANGED chan \/ RequestClose(c))
      \/ RevokedOver(c, sent)
  BY Zenon DEF SendOver, CompletionLost
<1>2. CASE sending[c].kind = "message" /\ MessageSent(c)
  <2>1. chan[c].at = "send"
    BY <1>2 DEF MessagesPlaced
  <2>2. chan[c].current # 0 /\ chan[c].current \in Nat
    BY <2>1, BindingTypes DEF WorkPlaced, Works
  <2>3. Emit(<<Processed(c, chan[c].current, TRUE)>>)
    BY <1>2, Zenon DEF MessageSent
  <2>4. Processed(c, chan[c].current, TRUE) \in Result
    BY <2>2 DEF Processed, Result
  <2>5. results' = results \o <<Processed(c, chan[c].current, TRUE)>>
    BY <2>3, <2>4, EmitOneTypes
  <2>6. chan'[c].current = 0 /\ chan'[c].inbox = chan[c].inbox /\ OthersWork(c)
    BY <1>2, MessageSentChan DEF OthersWork, SameWork
  <2>7. Hands(c)
    BY <2>2, <2>5, <2>6 DEF Hands
  <2> QED
    BY <2>7 DEF WorkMoves
<1>3. CASE MessageLost(c)
  <2>1. UNCHANGED results
    BY <1>3, Zenon DEF MessageLost
  <2>2. Silent
    BY <2>1, SilentNone
  <2>3. \A d \in Connections : SameWork(d)
    BY <1>3, MessageLostChan
  <2> QED
    BY <2>2, <2>3 DEF SameEnvelopes, WorkMoves
<1>4. CASE sending[c].kind = "completion" /\ FinishFirst(c) /\ UNCHANGED chan
  <2>1. Silent
    BY <1>4, SilentFirst DEF TypeInv, CompletionHeld
  <2> QED
    BY <1>4, <2>1 DEF SameEnvelopes, WorkMoves, SameWork
<1>5. CASE Emit(Terminals(c)) /\ (UNCHANGED chan \/ RequestClose(c))
  <2>1. Silent
    BY <1>5, SilentTerminals
  <2>2. \A d \in Connections : SameWork(d)
    BY <1>5, RequestCloseChan DEF SameWork
  <2> QED
    BY <2>1, <2>2 DEF SameEnvelopes, WorkMoves
<1>6. CASE RevokedOver(c, sent)
  <2>1. UNCHANGED results
    BY <1>6, Zenon DEF RevokedOver
  <2>2. Silent
    BY <2>1, SilentNone
  <2>3. \A d \in Connections : SameWork(d)
    BY <1>6, RevokedOverChan
  <2> QED
    BY <2>2, <2>3 DEF SameEnvelopes, WorkMoves
<1> QED
  BY <1>1, <1>2, <1>3, <1>4, <1>5, <1>6
\* Cancelling a session ends none.
LEMMA CancelWork ==
  ASSUME TypeInv, NEW c \in Connections, Cancel(c), NEW d \in Connections
  PROVE  SameWork(d)
<1> DEFINE ch == [chan[c] EXCEPT !.disconnecting = TRUE]
<1>1. CancelLoop(c, ch) \/ CancelSync(c, ch) \/ CancelUnbind(c, ch) \/ CancelPumpWait(c, ch)
      \/ \E n : CancelPublication(c, n, [ch EXCEPT !.at = "finalizing"])
  BY Zenon DEF Cancel, CancelWaiting
<1> QED
  BY <1>1, CancelLoopChan, CancelSyncChan, CancelUnbindChan, CancelPumpWaitChan, CancelPublicationChan
\* A session that takes an envelope begins it, or ends it when it is revoked.
LEMMA TakeEnvelopeWork ==
  ASSUME TypeInv, NEW c \in Connections, WorkPlaced(c), WorkInOrder(c), TakeEnvelope(c)
  PROVE  WorkMoves
<1> DEFINE n == Head(chan[c].inbox)
<1>0. /\ chan[c].at = "receive" /\ chan[c].inbox # <<>> /\ chan[c].inbox \in Seq(Nat) /\ chan[c].current = 0
  BY BindingTypes DEF TakeEnvelope, WorkPlaced
<1>1. n \in Nat /\ n # 0
  BY <1>0, ItemsOf DEF WorkInOrder
<1>2. /\ chan'[c].current = IF ~chan[c].revoked THEN n ELSE chan[c].current
      /\ chan'[c].inbox = Tail(chan[c].inbox) /\ OthersWork(c)
  BY TakeEnvelopeChan DEF OthersWork, SameWork
<1>3. CASE chan[c].revoked
  <2>1. Emit(<<Processed(c, n, TRUE)>>)
    BY <1>3, Zenon DEF TakeEnvelope
  <2>2. Processed(c, n, TRUE) \in Result
    BY <1>1 DEF Processed, Result
  <2>3. results' = results \o <<Processed(c, n, TRUE)>>
    BY <2>1, <2>2, EmitOneTypes
  <2>4. Hands(c)
    BY <1>0, <1>1, <1>2, <1>3, <2>3 DEF Hands
  <2> QED
    BY <2>4 DEF WorkMoves
<1>4. CASE ~chan[c].revoked
  <2>1. UNCHANGED results
    BY <1>4, Zenon DEF TakeEnvelope
  <2>2. Begins(c)
    BY <1>0, <1>2, <1>4, <2>1 DEF Begins
  <2> QED
    BY <2>2 DEF WorkMoves
<1> QED
  BY <1>3, <1>4

\* The owner thread and the publications end none.
LEMMA OwnerRunWork ==
  ASSUME TypeInv, OwnerRun, NEW d \in Connections
  PROVE  SameWork(d)
<1> DEFINE m == Head(owner)
<1>1. m.c \in Connections
  <2>1. m \in Work
    BY OwnerRunTypes
  <2> QED
    BY <2>1 DEF Work
<1>2. \/ UNCHANGED chan \/ Rebind(m.c) \/ KeepBinding(m.c) \/ EndUnbind(m.c) \/ EndForNobody(m.c, m.what, m.seq)
  BY Zenon DEF OwnerRun, EndCommand, EndEnvelope
<1> HIDE DEF m
<1>3. UNCHANGED chan => SameWork(d)
  BY DEF SameWork
<1>4. Rebind(m.c) \/ KeepBinding(m.c) => SameWork(d)
  BY <1>1, RebindChan, KeepBindingChan
<1>5. EndUnbind(m.c) => SameWork(d)
  BY <1>1, EndUnbindChan
<1>6. EndForNobody(m.c, m.what, m.seq) => SameWork(d)
  BY <1>1, EndForNobodyChan
<1> QED
  BY <1>2, <1>3, <1>4, <1>5, <1>6
\* Nor do the steps of a session that wait, call or publish.
LEMMA SessionWork ==
  ASSUME TypeInv, NEW c \in Connections,
         \/ CallOwner(c) \/ AfterSync(c) \/ PublishBinding(c) \/ StartSend(c) \/ Withhold(c)
         \/ CloseSession(c) \/ PumpStopped(c) \/ EndSession(c) \/ DrainSession(c)
  PROVE  SameEnvelopes
<1>1. CASE CallOwner(c) \/ AfterSync(c) \/ EndSession(c) \/ DrainSession(c) \/ StartSend(c)
  <2>1. UNCHANGED results
    BY <1>1 DEF CallOwner, AfterSync, EndSession, DrainSession, StartSend, queues
  <2>2. StartSend(c) => UNCHANGED chan
    BY DEF StartSend
  <2>3. DrainSession(c) => Cancel(c)
    BY DEF DrainSession
  <2>4. \A d \in Connections : SameWork(d)
    <3> TAKE d \in Connections
    <3>1. UNCHANGED chan => SameWork(d)
      BY DEF SameWork
    <3> QED
      BY <1>1, <2>2, <2>3, <3>1, CallOwnerChan, AfterSyncChan, EndSessionChan, CancelWork
  <2> QED
    BY <2>1, <2>4, SilentNone DEF SameEnvelopes
<1>2. CASE PublishBinding(c)
  <2> DEFINE s == Head(syncs[c])
             e == [kind |-> "state", c |-> c, n |-> s.n, bound |-> s.bound, revoked |-> s.revoked]
  <2>1. s \in Sync /\ Emit(<<e>>) /\ UNCHANGED chan
    BY <1>2, PublishBindingTypes, Zenon DEF PublishBinding
  <2>2. e \in Result /\ Fresh(e)
    BY <1>2, <2>1 DEF Sync, Result, Fresh
  <2> HIDE DEF e
  <2>3. Silent
    BY <2>1, <2>2, SilentOne
  <2> QED
    BY <2>1, <2>3 DEF SameEnvelopes, SameWork
<1>3. CASE Withhold(c)
  <2>1. Silent /\ UNCHANGED chan
    BY <1>3, SilentFirst DEF Withhold, FirstDone
  <2> QED
    BY <2>1 DEF SameEnvelopes, SameWork
<1>4. CASE CloseSession(c)
  <2>1. Report("close", c, 0) \in Result /\ Fresh(Report("close", c, 0))
    BY DEF Report, Result, Fresh
  <2>2. Silent
    BY <1>4, <2>1, SilentOne DEF CloseSession
  <2>3. \A d \in Connections : SameWork(d)
    BY <1>4, CloseSessionChan
  <2> QED
    BY <2>2, <2>3 DEF SameEnvelopes
<1>5. CASE PumpStopped(c)
  <2>1. Silent
    BY <1>5, SilentTerminals DEF PumpStopped
  <2>2. \A d \in Connections : SameWork(d)
    BY <1>5, PumpStoppedChan
  <2> QED
    BY <2>1, <2>2 DEF SameEnvelopes
<1> QED
  BY <1>1, <1>2, <1>3, <1>4, <1>5
\* A receipt may end the envelope whose answer was sent; a disconnect ends none.
LEMMA ControlWork ==
  ASSUME TypeInv, MessagesPlaced, \A c \in Connections : WorkPlaced(c),
         ControlReceipt \/ ControlDisconnect \/ ControlShutdown
  PROVE  WorkMoves
<1>1. CASE ControlReceipt
  <2>1. \/ ReceiptOfState(Rcpt.id[1], Rcpt.id[3], Rcpt.sent)
        \/ SendOver(Rcpt.id[1], Rcpt.sent)
        \/ UNCHANGED <<results, sessionVars>>
    BY <1>1, Zenon DEF ControlReceipt, Rcpt
  <2>2. Rcpt.id \in Ids /\ Rcpt.sent \in BOOLEAN
    BY <1>1, ControlReceiptTypes
  <2>3. Rcpt.id[1] \in Connections /\ Rcpt.id[3] \in Nat
    BY <2>2 DEF Ids
  <2>4. CASE ReceiptOfState(Rcpt.id[1], Rcpt.id[3], Rcpt.sent)
    <3>1. UNCHANGED results
      BY <2>4, Zenon DEF ReceiptOfState
    <3>2. \A d \in Connections : SameWork(d)
      BY <2>2, <2>3, <2>4, ReceiptOfStateChan
    <3> QED
      BY <3>1, <3>2, SilentNone DEF SameEnvelopes, WorkMoves
  <2>5. CASE SendOver(Rcpt.id[1], Rcpt.sent)
    BY <2>2, <2>3, <2>5, SendOverWork
  <2>6. CASE UNCHANGED <<results, sessionVars>>
    <3>1. UNCHANGED results /\ UNCHANGED chan
      BY <2>6 DEF sessionVars
    <3> QED
      BY <3>1, SilentNone DEF SameEnvelopes, WorkMoves, SameWork
  <2> QED
    BY <2>1, <2>4, <2>5, <2>6
<1>2. CASE ControlDisconnect
  <2> DEFINE c == Head(controls).c
  <2>1. c \in Connections
    BY <1>2, ControlDisconnectTypes
  <2>2. \/ (Cancel(c) \/ UNCHANGED chan) /\ UNCHANGED results
        \/ UNCHANGED chan /\ Emit(<<Report("disconnected", c, 0)>>)
    BY <1>2, Zenon DEF ControlDisconnect
  <2>3. Report("disconnected", c, 0) \in Result /\ Fresh(Report("disconnected", c, 0))
    BY <2>1 DEF Report, Result, Fresh
  <2>4. \A d \in Connections : SameWork(d)
    <3>1. UNCHANGED chan => \A d \in Connections : SameWork(d)
      BY DEF SameWork
    <3> QED
      BY <2>1, <2>2, <3>1, CancelWork
  <2>5. Silent
    BY <2>2, <2>3, SilentOne, SilentNone
  <2> QED
    BY <2>4, <2>5 DEF SameEnvelopes, WorkMoves
<1>3. CASE ControlShutdown
  <2>1. UNCHANGED results /\ UNCHANGED chan
    BY <1>3 DEF ControlShutdown, sessionVars
  <2> QED
    BY <2>1, SilentNone DEF SameEnvelopes, WorkMoves, SameWork
<1> QED
  BY <1>1, <1>2, <1>3
\* Every step of the child.
LEMMA ChildWork ==
  ASSUME TypeInv, ChildStep, BeginsOnce, EnvelopesInOrder, SessionsPlaced
  PROVE  WorkMoves
<1>1. MessagesPlaced /\ childAlive /\ \A c \in Connections : WorkInOrder(c) /\ WorkPlaced(c)
  BY DEF ChildStep, BeginsOnce, EnvelopesInOrder, SessionsPlaced
<1>2. UNCHANGED chan => \A d \in Connections : SameWork(d)
  BY DEF SameWork
<1>3. CASE ReceiveRefused \/ ReceiveConnect \/ ReceiveEnqueue
  <2>1. ReceiveRefused \/ ReceiveEnqueue => UNCHANGED chan
    BY DEF ReceiveRefused, ReceiveEnqueue, sessionVars
  <2>2. \A d \in Connections : SameWork(d)
    BY <1>2, <1>3, <2>1, ReceiveConnectChan
  <2> QED
    BY <1>3, <2>2, ReceiveSilent DEF SameEnvelopes, WorkMoves
<1>4. CASE ReceiveEnvelope
  BY <1>4, ReceiveSilent DEF WorkMoves
<1>5. CASE OwnerRun \/ StopOwner
  <2>1. UNCHANGED results /\ (StopOwner => UNCHANGED chan)
    BY <1>5 DEF OwnerRun, StopOwner, queues, sessionVars
  <2>2. \A d \in Connections : SameWork(d)
    BY <1>2, <1>5, <2>1, OwnerRunWork
  <2> QED
    BY <2>1, <2>2, SilentNone DEF SameEnvelopes, WorkMoves
<1>6. CASE Stopped
  <2>1. Emit(<<[kind |-> "stopped"]>>) /\ UNCHANGED chan
    BY <1>6 DEF Stopped, sessionVars
  <2>2. [kind |-> "stopped"] \in Result /\ Fresh([kind |-> "stopped"])
    BY DEF Result, Fresh
  <2>3. Silent
    BY <2>1, <2>2, SilentOne
  <2> QED
    BY <1>2, <2>1, <2>3 DEF SameEnvelopes, WorkMoves
<1>7. ASSUME NEW c \in Connections,
             \/ CallOwner(c) \/ AfterSync(c) \/ PublishBinding(c) \/ StartSend(c) \/ Withhold(c)
             \/ CloseSession(c) \/ PumpStopped(c) \/ EndSession(c) \/ DrainSession(c)
      PROVE  WorkMoves
  BY <1>7, SessionWork DEF WorkMoves
<1>8. ASSUME NEW c \in Connections, TakeEnvelope(c) \/ FinishConnection(c)
      PROVE  WorkMoves
  BY <1>1, <1>8, TakeEnvelopeWork DEF WorkMoves
<1>9. ASSUME NEW c \in Connections, PutNotification(c)
      PROVE  WorkMoves
  <2>1. SendOver(c, FALSE) \/ UNCHANGED <<results, chan>>
    BY <1>9, PutNotificationTypes
  <2>2. UNCHANGED <<results, chan>> => WorkMoves
    BY <1>2, SilentNone DEF SameEnvelopes, WorkMoves
  <2> QED
    BY <1>1, <2>1, <2>2, SendOverWork
<1> QED
  BY <1>1, <1>3, <1>4, <1>5, <1>6, <1>7, <1>8, <1>9, ControlWork, Zenon DEF ChildStep

\* Sequences in order, at their ends.
Increasing(s) == \A i, j \in 1..Len(s) : i < j => s[i] < s[j]
\* The rest of a growing sequence grows, past its head.
LEMMA TailIncreasing ==
  ASSUME NEW s \in Seq(Nat), s # <<>>, Increasing(s)
  PROVE  /\ Increasing(Tail(s)) /\ Items(Tail(s)) \subseteq Items(s)
         /\ Head(s) \in Items(s) /\ \A x \in Items(Tail(s)) : Head(s) < x
<1>1. /\ Tail(s) \in Seq(Nat) /\ Len(Tail(s)) = Len(s) - 1 /\ Len(s) >= 1 /\ Len(s) \in Nat
      /\ \A i \in 1..(Len(s) - 1) : Tail(s)[i] = s[i + 1]
      /\ Head(s) = s[1]
  OBVIOUS
<1>2. /\ Items(Tail(s)) \subseteq Items(s) /\ Head(s) \in Items(s)
      /\ \A x \in Items(Tail(s)) : \E i \in 1..Len(Tail(s)) : x = Tail(s)[i]
  BY <1>1, ItemsOf
<1>3. \A i \in 1..(Len(s) - 1) : i + 1 \in 1..Len(s) /\ 1 < i + 1
  BY <1>1
<1>4. 1 \in 1..Len(s)
  BY <1>1
<1>5. \A i, j \in 1..(Len(s) - 1) : i < j => i + 1 < j + 1
  BY <1>1
<1>6. Increasing(Tail(s))
  BY <1>1, <1>3, <1>5 DEF Increasing
<1>7. \A x \in Items(Tail(s)) : Head(s) < x
  BY <1>1, <1>2, <1>3, <1>4 DEF Increasing
<1> QED
  BY <1>2, <1>6, <1>7
\* A growing sequence and a greater number.
LEMMA AppendIncreasing ==
  ASSUME NEW s \in Seq(Nat), NEW n \in Nat, Increasing(s), \A x \in Items(s) : x < n
  PROVE  Increasing(Append(s, n)) /\ Items(Append(s, n)) = Items(s) \cup {n}
<1>1. /\ Append(s, n) \in Seq(Nat) /\ Len(Append(s, n)) = Len(s) + 1 /\ Len(s) \in Nat
      /\ \A i \in 1..Len(s) : Append(s, n)[i] = s[i] /\ s[i] \in Items(s)
      /\ Append(s, n)[Len(s) + 1] = n
  BY AppendProperties, ItemsOf
<1>2. Items(Append(s, n)) = Items(s) \cup {n}
  BY ItemsOf
<1>3. \A i \in 1..(Len(s) + 1) : i \in 1..Len(s) \/ i = Len(s) + 1
  BY <1>1
<1>4. \A i, j \in 1..(Len(s) + 1) : i < j => i \in 1..Len(s)
  BY <1>1
<1>5. Increasing(Append(s, n))
  BY <1>1, <1>3, <1>4 DEF Increasing
<1> QED
  BY <1>2, <1>5
\* Reports in order, followed by reports of later envelopes.
LEMMA ConcatInOrder ==
  ASSUME NEW s \in Seq(Result), NEW t \in Seq(Result), InOrder(s), InOrder(t),
         \A r \in Items(s), q \in Items(t) :
            r.kind = "processed" /\ q.kind = "processed" /\ r.c = q.c => r.n < q.n
  PROVE  InOrder(s \o t)
<1> DEFINE n == Len(s)
           k == Len(t)
           u == s \o t
<1>1. /\ u \in Seq(Result) /\ Len(u) = n + k /\ n \in Nat /\ k \in Nat
      /\ \A i \in 1..(n + k) : u[i] = IF i <= n THEN s[i] ELSE t[i - n]
  BY ConcatProperties
<1>2. /\ \A i \in 1..n : s[i] \in Items(s)
      /\ \A i \in 1..k : t[i] \in Items(t)
  BY ItemsOf
<1>3. \A i, j \in 1..n : i < j /\ s[i].kind = "processed" /\ s[j].kind = "processed" /\ s[i].c = s[j].c => s[i].n < s[j].n
  BY DEF InOrder
<1>4. \A i, j \in 1..k : i < j /\ t[i].kind = "processed" /\ t[j].kind = "processed" /\ t[i].c = t[j].c => t[i].n < t[j].n
  BY DEF InOrder
<1> HIDE DEF n, k, u
<1>5. ASSUME NEW i \in 1..(n + k), NEW j \in 1..(n + k), i < j,
             u[i].kind = "processed", u[j].kind = "processed", u[i].c = u[j].c
      PROVE  u[i].n < u[j].n
  <2>1. CASE j <= n
    <3>1. i \in 1..n /\ j \in 1..n /\ u[i] = s[i] /\ u[j] = s[j]
      BY <1>1, <1>5, <2>1
    <3> QED
      BY <1>3, <1>5, <3>1
  <2>2. CASE i <= n /\ ~(j <= n)
    <3>1. i \in 1..n /\ j - n \in 1..k /\ u[i] = s[i] /\ u[j] = t[j - n]
      BY <1>1, <1>5, <2>2
    <3> QED
      BY <1>2, <1>5, <3>1
  <2>3. CASE ~(i <= n)
    <3>1. i - n \in 1..k /\ j - n \in 1..k /\ i - n < j - n /\ u[i] = t[i - n] /\ u[j] = t[j - n]
      BY <1>1, <1>5, <2>3
    <3> QED
      BY <1>4, <1>5, <3>1
  <2> QED
    BY <1>1, <2>1, <2>2, <2>3
<1> QED
  BY <1>1, <1>5 DEF InOrder, u

\* The reports a step of the child adds: in order, about the first envelopes of
\* the sessions, and only what comes later is left.
ChildKept ==
    /\ TypeInv /\ TypeInv' /\ CommandsOrdered /\ CommandsOrdered' /\ OrphanInv /\ BindingInv
    /\ Child /\ childAlive'
\* What a session that is over still holds is in order.
LEMMA OpenInOrder ==
  ASSUME TypeInv, NEW c \in Connections, WorkInOrder(c)
  PROVE  /\ Open(c) \in Seq(Nat) /\ Increasing(Open(c))
         /\ \A i \in 1..Len(Open(c)) : Carries(c, Open(c)[i])
<1> DEFINE s == IF chan[c].current = 0 THEN <<>> ELSE <<chan[c].current>>
           t == chan[c].inbox
           k == Len(s)
           l == Len(t)
<1>1. chan[c].current \in Nat /\ t \in Seq(Nat)
  BY BindingTypes
<1>2. /\ s \in Seq(Nat) /\ k \in {0, 1} /\ (k = 1 => chan[c].current # 0 /\ s[1] = chan[c].current)
  <2>1. CASE chan[c].current = 0
    BY <2>1
  <2>2. CASE chan[c].current # 0
    <3>1. s = <<chan[c].current>>
      BY <2>2
    <3> QED
      BY <1>1, <2>2, <3>1
  <2> QED
    BY <2>1, <2>2
<1>3. Open(c) = s \o t
  BY DEF Open
<1> HIDE DEF s
<1>4. /\ s \o t \in Seq(Nat) /\ Len(s \o t) = k + l /\ k \in Nat /\ l \in Nat
      /\ \A i \in 1..(k + l) : (s \o t)[i] = IF i <= k THEN s[i] ELSE t[i - k]
  BY <1>1, <1>2, ConcatProperties
<1>5. /\ \A i, j \in 1..l : i < j => t[i] < t[j]
      /\ \A i \in 1..l : t[i] \in Items(t) /\ (chan[c].current # 0 => chan[c].current < t[i])
  <2>1. \A i \in 1..l : t[i] \in Items(t)
    BY <1>1, ItemsOf
  <2> QED
    BY <2>1 DEF WorkInOrder
<1> HIDE DEF t, k, l
<1>6. ASSUME NEW i \in 1..(k + l)
      PROVE  \/ k = 1 /\ i = 1 /\ Open(c)[i] = chan[c].current
             \/ ~(i <= k) /\ i - k \in 1..l /\ Open(c)[i] = t[i - k]
  <2>1. Open(c)[i] = IF i <= k THEN s[i] ELSE t[i - k]
    BY <1>3, <1>4
  <2>2. CASE i <= k
    <3>1. k = 1 /\ i = 1
      BY <1>2, <1>4, <2>2
    <3> QED
      BY <1>2, <2>1, <3>1
  <2>3. CASE ~(i <= k)
    <3>1. i - k \in 1..l
      BY <1>4, <2>3
    <3> QED
      BY <2>1, <2>3, <3>1
  <2> QED
    BY <2>2, <2>3
<1>7. ASSUME NEW i \in 1..(k + l), NEW j \in 1..(k + l), i < j
      PROVE  Open(c)[i] < Open(c)[j]
  <2>1. j - k \in 1..l /\ Open(c)[j] = t[j - k]
    BY <1>2, <1>6, <1>7
  <2>2. CASE k = 1 /\ i = 1 /\ Open(c)[i] = chan[c].current
    BY <1>2, <1>5, <2>1, <2>2
  <2>3. CASE ~(i <= k) /\ i - k \in 1..l /\ Open(c)[i] = t[i - k]
    <3>1. i - k < j - k
      BY <1>2, <1>7
    <3> QED
      BY <1>5, <2>1, <2>3, <3>1
  <2> QED
    BY <1>6, <2>2, <2>3
<1>8. \A i \in 1..(k + l) : Carries(c, Open(c)[i])
  BY <1>2, <1>5, <1>6 DEF Carries, t
<1> QED
  BY <1>3, <1>4, <1>7, <1>8 DEF Increasing
\* So are the failures reported for it.
LEMMA FailuresInOrder ==
  ASSUME TypeInv, NEW c \in Connections, WorkInOrder(c), FinishConnection(c)
  PROVE  \E t \in Seq(Result) :
            /\ results' = results \o t /\ InOrder(t)
            /\ \A r \in Items(t) : /\ r.kind # "state"
                                   /\ r.kind = "processed" => r.c = c /\ Carries(c, r.n)
<1> DEFINE f == Failures(c)
           e == Report("disconnected", c, 0)
           g == <<e>>
<1>1. f \in Seq(Result) /\ results' = results \o (f \o g)
  BY FinishConnectionTypes
<1>2. e \in Result /\ e.kind = "disconnected"
  BY DEF Report, Result
<1>3. g \in Seq(Result) /\ Items(g) = {e} /\ InOrder(g)
  <2> HIDE DEF e
  <2>1. g \in Seq(Result) /\ Len(g) = 1
    BY <1>2
  <2>2. Items(g) = {e}
    BY DEF Items
  <2>3. \A i, j \in 1..Len(g) : ~(i < j)
    BY <2>1
  <2> HIDE DEF g
  <2>4. InOrder(g)
    BY <2>3 DEF InOrder
  <2> QED
    BY <2>1, <2>2, <2>4
<1>4. /\ Open(c) \in Seq(Nat) /\ Increasing(Open(c)) /\ DOMAIN Open(c) = 1..Len(Open(c))
      /\ \A i \in 1..Len(Open(c)) : Carries(c, Open(c)[i])
  BY OpenInOrder
<1>5. /\ DOMAIN f = 1..Len(Open(c))
      /\ \A i \in 1..Len(Open(c)) : f[i].kind = "processed" /\ f[i].c = c /\ f[i].n = Open(c)[i]
  BY <1>4 DEF Failures, Processed
<1>6. Len(f) = Len(Open(c))
  BY <1>1, <1>4, <1>5
<1> HIDE DEF f, e, g
<1>7. InOrder(f)
  BY <1>4, <1>5, <1>6 DEF InOrder, Increasing
<1>8. \A r \in Items(f) : r.kind = "processed" /\ r.c = c /\ Carries(c, r.n)
  BY <1>4, <1>5 DEF Items
<1>9. InOrder(f \o g)
  BY <1>1, <1>2, <1>3, <1>7, ConcatInOrder
<1>10. f \o g \in Seq(Result) /\ Items(f \o g) = Items(f) \cup Items(g)
  BY <1>1, <1>3, ItemsOf, ConcatProperties
<1>11. \A r \in Items(f \o g) : /\ r.kind # "state"
                                /\ r.kind = "processed" => r.c = c /\ Carries(c, r.n)
  BY <1>2, <1>3, <1>8, <1>10
<1> DEFINE u == f \o g
<1>12. /\ u \in Seq(Result) /\ results' = results \o u /\ InOrder(u)
       /\ \A r \in Items(u) : /\ r.kind # "state"
                              /\ r.kind = "processed" => r.c = c /\ Carries(c, r.n)
  <2>1. u \in Seq(Result)
    BY <1>10
  <2>2. results' = results \o u
    BY <1>1
  <2>3. InOrder(u)
    BY <1>9
  <2>4. \A r \in Items(u) : /\ r.kind # "state"
                            /\ r.kind = "processed" => r.c = c /\ Carries(c, r.n)
    BY <1>11
  <2> QED
    BY <2>1, <2>2, <2>3, <2>4
<1> HIDE DEF u
<1> QED
  BY <1>12

\* What a session holds after the step.
CarriesThen(c, n) == (n # 0 /\ n = chan'[c].current) \/ n \in Items(chan'[c].inbox)
\* The number of the last command received only grows.
LEMMA ChildReceives ==
  ASSUME ChildKept
  PROVE  /\ last \in Nat /\ last' \in Nat /\ last <= last'
         /\ ReceiveEnvelope => /\ Takes /\ last' = Head(commands).seq /\ last < last' /\ Head(commands) \in Items(commands)
                               /\ Envelope(Head(commands), Head(commands).c) /\ Head(commands).c \in Connections
<1>0. /\ TypeInv /\ TypeInv' /\ CommandsOrdered /\ Child /\ childAlive' /\ childAlive /\ commands \in Seq(Command)
      /\ last \in Nat
  BY BindingTypes DEF ChildKept, Child, ChildStep
<1>1. last' \in Nat
  BY <1>0 DEF TypeInv, ChildType
<1>2. ASSUME Takes
      PROVE  Head(commands) \in Items(commands) /\ last < last' /\ last' = Head(commands).seq
  <2>1. Head(commands) \in Items(commands) /\ last' = Head(commands).seq
    BY <1>0, <1>2, ItemsOf DEF Takes
  <2> QED
    BY <1>0, <2>1 DEF CommandsOrdered
<1>3. ReceiveEnvelope => Takes
  BY <1>0 DEF ReceiveEnvelope, Receiving, Takes
<1>4. ReceiveRefused \/ ReceiveConnect \/ ReceiveEnqueue => Takes
  BY <1>0 DEF ReceiveRefused, ReceiveConnect, ReceiveEnqueue, Receiving, Takes
<1>5. OwnerRun \/ Stopped \/ (\E c \in Connections : CallOwner(c)) => last' = last
  BY DEF OwnerRun, Stopped, CallOwner
<1>6. last' = last \/ Takes
  BY <1>0, <1>3, <1>4, <1>5, OtherChildSteps
<1>7. ReceiveEnvelope => Head(commands).op = "envelope" /\ Head(commands).c \in Connections
  <2>1. Takes => Head(commands).c \in Connections
    BY <1>0, TakenTypes DEF Takes
  <2> QED
    BY <1>3, <2>1 DEF ReceiveEnvelope, Receiving
<1> QED
  BY <1>0, <1>1, <1>2, <1>3, <1>6, <1>7 DEF Envelope
\* The envelopes a session holds stay in order, and only a received one is new.
WorkThen(d) ==
    /\ Increasing(chan'[d].inbox)
    /\ \A x \in Items(chan'[d].inbox) : 0 < x /\ x <= last' /\ (chan'[d].current # 0 => chan'[d].current < x)
    /\ chan'[d].current <= last'
NewEnvelope(d, x) == ReceiveEnvelope /\ d = Head(commands).c /\ x = Head(commands).seq
\* The order within a session, after the step.
LEMMA WorkMovesOn ==
  ASSUME ChildKept, NEW d \in Connections
  PROVE  /\ WorkThen(d)
         /\ \A x \in Nat : CarriesThen(d, x) => Carries(d, x) \/ NewEnvelope(d, x)
<1> DEFINE s == chan[d].inbox
<1>0. /\ TypeInv /\ ChildStep /\ BeginsOnce /\ EnvelopesInOrder /\ SessionsPlaced /\ childAlive
      /\ s \in Seq(Nat) /\ Items(s) \subseteq Nat /\ chan[d].current \in Nat
      /\ last \in Nat /\ last' \in Nat /\ last <= last'
  BY BindingTypes, ChildReceives DEF ChildKept, Child, ChildStep, OrphanInv, BindingInv
<1>1. /\ Increasing(s) /\ chan[d].current <= last
      /\ \A x \in Items(s) : 0 < x /\ x <= last /\ (chan[d].current # 0 => chan[d].current < x)
  BY <1>0 DEF EnvelopesInOrder, WorkInOrder, Increasing
<1>2. s # <<>> => /\ Increasing(Tail(s)) /\ Items(Tail(s)) \subseteq Items(s)
                  /\ Head(s) \in Items(s) /\ \A x \in Items(Tail(s)) : Head(s) < x
  BY <1>0, <1>1, TailIncreasing
<1>3. WorkMoves
  BY <1>0, ChildWork
<1>4. CASE SameWork(d)
  BY <1>0, <1>1, <1>4 DEF SameWork, WorkThen, CarriesThen, Carries
<1>5. CASE ReceiveEnvelope
  <2> DEFINE n == Head(commands).seq
  <2>1. /\ chan'[d].current = chan[d].current
        /\ chan'[d].inbox = IF d = Head(commands).c /\ Exists(d) THEN Append(s, n) ELSE s
    BY <1>0, <1>5, ReceiveEnvelopeChan
  <2>2. n = last' /\ last < last'
    BY <1>5, ChildReceives
  <2> HIDE DEF n, s
  <2>3. Increasing(Append(s, n)) /\ Items(Append(s, n)) = Items(s) \cup {n}
    BY <1>0, <1>1, <2>2, AppendIncreasing
  <2>4. \/ chan'[d].inbox = s
        \/ d = Head(commands).c /\ chan'[d].inbox = Append(s, n)
    BY <2>1
  <2>5. CASE chan'[d].inbox = s
    BY <1>0, <1>1, <2>1, <2>5 DEF WorkThen, CarriesThen, Carries, s
  <2>6. CASE d = Head(commands).c /\ chan'[d].inbox = Append(s, n)
    <3>1. WorkThen(d)
      BY <1>0, <1>1, <2>1, <2>2, <2>3, <2>6 DEF WorkThen
    <3>2. \A x \in Nat : CarriesThen(d, x) => Carries(d, x) \/ NewEnvelope(d, x)
      BY <1>5, <2>1, <2>3, <2>6 DEF CarriesThen, Carries, NewEnvelope, s, n
    <3> QED
      BY <3>1, <3>2
  <2> QED
    BY <2>4, <2>5, <2>6
<1>6. CASE Hands(d)
  <2>1. chan'[d].current = 0 /\ (chan'[d].inbox = s \/ (s # <<>> /\ chan'[d].inbox = Tail(s)))
    BY <1>6 DEF Hands
  <2> QED
    BY <1>0, <1>1, <1>2, <2>1 DEF WorkThen, CarriesThen, Carries
<1>7. CASE Begins(d)
  <2>1. chan'[d].current = Head(s) /\ s # <<>> /\ chan'[d].inbox = Tail(s)
    BY <1>7 DEF Begins
  <2> QED
    BY <1>0, <1>1, <1>2, <2>1 DEF WorkThen, CarriesThen, Carries
<1>8. CASE FinishConnection(d)
  <2>1. chan'[d].current = 0 /\ chan'[d].inbox = <<>>
    BY <1>0, <1>8, FinishConnectionChan
  <2>2. Items(<<>>) = {} /\ Increasing(<<>>)
    BY DEF Items, Increasing
  <2> QED
    BY <1>0, <2>1, <2>2 DEF WorkThen, CarriesThen
<1>9. ASSUME NEW c \in Connections, c # d, Hands(c) \/ Begins(c) \/ FinishConnection(c)
      PROVE  SameWork(d)
  <2>1. Hands(c) \/ Begins(c) => SameWork(d)
    BY <1>9 DEF Hands, Begins, OthersWork
  <2>2. FinishConnection(c) => SameWork(d)
    BY <1>0, <1>9, FinishConnectionChan DEF SameWork
  <2> QED
    BY <1>9, <2>1, <2>2
<1>10. SameEnvelopes => SameWork(d)
  BY DEF SameEnvelopes
<1> QED
  BY <1>3, <1>4, <1>5, <1>6, <1>7, <1>8, <1>9, <1>10 DEF WorkMoves

\* What a step of the child reports.
FirstOf(r) ==
    /\ r.c \in Connections /\ r.n \in Nat /\ Carries(r.c, r.n)
    /\ \A x \in Nat : CarriesThen(r.c, x) => r.n < x
NewReport(r) ==
    /\ r.kind = "processed" => FirstOf(r)
    /\ r.kind = "state" => r.c \in Connections /\ PublishBinding(r.c) /\ r.n = Head(syncs[r.c]).n
\* What a step reports is in order and ahead of what the sessions still hold.
LEMMA ChildReported ==
  ASSUME ChildKept
  PROVE  \E t \in Seq(Result) : results' = results \o t /\ InOrder(t) /\ \A r \in Items(t) : NewReport(r)
<1>0. /\ TypeInv /\ ChildStep /\ BeginsOnce /\ EnvelopesInOrder /\ SessionsPlaced /\ childAlive /\ WorkMoves
  BY ChildWork DEF ChildKept, Child, ChildStep, OrphanInv, BindingInv
<1>1. ASSUME Silent
      PROVE  \E t \in Seq(Result) : results' = results \o t /\ InOrder(t) /\ \A r \in Items(t) : NewReport(r)
  <2>1. PICK t \in Seq(Result) : results' = results \o t /\ \A r \in Items(t) : Fresh(r)
    BY <1>1 DEF Silent
  <2>2. \A i \in 1..Len(t) : t[i] \in Items(t)
    BY ItemsOf
  <2>3. InOrder(t)
    BY <2>1, <2>2 DEF InOrder, Fresh
  <2>4. \A r \in Items(t) : NewReport(r)
    BY <2>1 DEF Fresh, NewReport
  <2> QED
    BY <2>1, <2>3, <2>4
<1>2. ASSUME NEW c \in Connections, Hands(c)
      PROVE  \E t \in Seq(Result) : results' = results \o t /\ InOrder(t) /\ \A r \in Items(t) : NewReport(r)
  <2>1. PICK n \in Nat, ok \in BOOLEAN :
          /\ results' = results \o <<Processed(c, n, ok)>> /\ n # 0 /\ chan'[c].current = 0
          /\ \/ n = chan[c].current /\ chan'[c].inbox = chan[c].inbox
             \/ /\ chan[c].current = 0 /\ chan[c].inbox # <<>>
                /\ n = Head(chan[c].inbox) /\ chan'[c].inbox = Tail(chan[c].inbox)
    BY <1>2 DEF Hands
  <2> DEFINE e == Processed(c, n, ok)
             t == <<e>>
  <2>2. e \in Result /\ e.kind = "processed" /\ e.c = c /\ e.n = n
    BY DEF Processed, Result
  <2> HIDE DEF e
  <2>3. t \in Seq(Result) /\ Len(t) = 1
    BY <2>2
  <2>4. Items(t) = {e}
    BY DEF Items
  <2>5. results' = results \o t
    BY <2>1 DEF e
  <2> HIDE DEF t
  <2>6. \A i, j \in 1..Len(t) : ~(i < j)
    BY <2>3
  <2>7. InOrder(t)
    BY <2>6 DEF InOrder
  <2>8. chan[c].inbox \in Seq(Nat) /\ WorkInOrder(c) /\ Increasing(chan[c].inbox)
    BY <1>0, BindingTypes DEF EnvelopesInOrder, WorkInOrder, Increasing
  <2>9. Carries(c, n) /\ \A x \in Nat : CarriesThen(c, x) => n < x
    <3>1. CASE n = chan[c].current /\ chan'[c].inbox = chan[c].inbox
      BY <2>1, <2>8, <3>1 DEF WorkInOrder, Carries, CarriesThen
    <3>2. CASE /\ chan[c].current = 0 /\ chan[c].inbox # <<>>
               /\ n = Head(chan[c].inbox) /\ chan'[c].inbox = Tail(chan[c].inbox)
      BY <2>1, <2>8, <3>2, TailIncreasing DEF Carries, CarriesThen
    <3> QED
      BY <2>1, <3>1, <3>2
  <2>10. NewReport(e)
    BY <2>2, <2>9 DEF NewReport, FirstOf
  <2> QED
    BY <2>3, <2>4, <2>5, <2>7, <2>10
<1>3. ASSUME NEW c \in Connections, Begins(c)
      PROVE  Silent
  BY <1>0, <1>3, SilentNone DEF Begins
<1>4. ASSUME NEW c \in Connections, FinishConnection(c)
      PROVE  \E t \in Seq(Result) : results' = results \o t /\ InOrder(t) /\ \A r \in Items(t) : NewReport(r)
  <2>1. WorkInOrder(c)
    BY <1>0 DEF EnvelopesInOrder
  <2>2. PICK t \in Seq(Result) :
            /\ results' = results \o t /\ InOrder(t)
            /\ \A r \in Items(t) : /\ r.kind # "state"
                                   /\ r.kind = "processed" => r.c = c /\ Carries(c, r.n)
    BY <1>0, <1>4, <2>1, FailuresInOrder
  <2>3. chan'[c].current = 0 /\ chan'[c].inbox = <<>>
    BY <1>0, <1>4, FinishConnectionChan
  <2>4. Items(<<>>) = {}
    BY DEF Items
  <2>5. \A x \in Nat : ~CarriesThen(c, x)
    BY <2>3, <2>4 DEF CarriesThen
  <2>6. \A x : Carries(c, x) => x \in Nat
    BY <1>0, BindingTypes
  <2>7. \A r \in Items(t) : NewReport(r)
    BY <2>2, <2>5, <2>6 DEF NewReport, FirstOf
  <2> QED
    BY <2>2, <2>7
<1> QED
  BY <1>0, <1>1, <1>2, <1>3, <1>4 DEF WorkMoves, SameEnvelopes
\* The order is kept.
LEMMA ChildOrder ==
  ASSUME ChildKept
  PROVE  /\ EnvelopesInOrder'
         /\ \A r \in Items(results)' : r \in Items(results) \/ NewReport(r)
<1>0. /\ TypeInv /\ EnvelopesInOrder /\ childAlive /\ results \in Seq(Result) /\ Items(results)' = Items(results')
      /\ last \in Nat /\ last' \in Nat /\ last <= last'
  BY BindingTypes, ChildReceives DEF ChildKept, Child, ChildStep, BindingInv, Items
<1>1. PICK t \in Seq(Result) : results' = results \o t /\ InOrder(t) /\ \A r \in Items(t) : NewReport(r)
  BY ChildReported
<1>2. Items(results') = Items(results) \cup Items(t)
  BY <1>0, <1>1, ItemsOf
<1>3. ASSUME NEW r \in Items(results), NEW d \in Connections, Processes(r, d)
      PROVE  r.n \in Nat /\ r.n <= last /\ \A x \in Nat : Carries(d, x) => r.n < x
  <2>1. r \in Result
    BY <1>0, ItemsOf
  <2>2. r.n \in Nat
    BY <1>3, <2>1 DEF Result, Processes
  <2> QED
    BY <1>0, <1>3, <2>2 DEF EnvelopesInOrder, WorkInOrder
<1>4. ASSUME NEW r \in Items(t), NEW d \in Connections, Processes(r, d)
      PROVE  r.n \in Nat /\ Carries(d, r.n) /\ r.n <= last /\ \A x \in Nat : CarriesThen(d, x) => r.n < x
  <2>1. FirstOf(r) /\ r.c = d
    BY <1>1, <1>4 DEF NewReport, Processes
  <2>2. WorkInOrder(d) /\ Items(chan[d].inbox) \subseteq Nat
    BY <1>0, BindingTypes DEF EnvelopesInOrder
  <2>3. r.n <= last
    BY <1>0, <2>1, <2>2 DEF FirstOf, Carries, WorkInOrder
  <2> QED
    BY <2>1, <2>3 DEF FirstOf
<1>5. InOrder(results')
  <2>1. InOrder(results)
    BY <1>0 DEF EnvelopesInOrder
  <2>2. ASSUME NEW r \in Items(results), NEW q \in Items(t),
               r.kind = "processed" /\ q.kind = "processed" /\ r.c = q.c
        PROVE  r.n < q.n
    <3>1. q.c \in Connections
      BY <1>1, <2>2 DEF NewReport, FirstOf
    <3> QED
      BY <1>3, <1>4, <2>2, <3>1 DEF Processes
  <2> QED
    BY <1>0, <1>1, <2>1, <2>2, ConcatInOrder
<1>6. ASSUME NEW d \in Connections
      PROVE  WorkInOrder(d)'
  <2>1. WorkThen(d) /\ \A x \in Nat : CarriesThen(d, x) => Carries(d, x) \/ NewEnvelope(d, x)
    BY WorkMovesOn
  <2>2. \A x : Carries(d, x)' <=> CarriesThen(d, x)
    BY DEF Carries, CarriesThen, Items
  <2>3. Items(chan[d].inbox)' = Items(chan'[d].inbox)
    BY DEF Items
  <2>4. \A x : NewEnvelope(d, x) => x = last' /\ last < last'
    BY ChildReceives DEF NewEnvelope
  <2>5. ASSUME NEW r \in Items(results'), Processes(r, d)
        PROVE  r.n <= last' /\ \A x \in Nat : Carries(d, x)' => r.n < x
    <3>1. CASE r \in Items(results)
      <4>1. r.n \in Nat /\ r.n <= last /\ \A x \in Nat : Carries(d, x) => r.n < x
        BY <1>3, <2>5, <3>1
      <4> QED
        BY <1>0, <2>1, <2>2, <2>4, <4>1
    <3>2. CASE r \in Items(t)
      <4>1. r.n \in Nat /\ r.n <= last /\ \A x \in Nat : CarriesThen(d, x) => r.n < x
        BY <1>4, <2>5, <3>2
      <4> QED
        BY <1>0, <2>2, <4>1
    <3> QED
      BY <1>2, <2>5, <3>1, <3>2
  <2>6. \A r \in Items(results)' : Processes(r, d) => r.n <= last' /\ \A x \in Nat : Carries(d, x)' => r.n < x
    BY <1>0, <2>5
  <2> QED
    BY <2>1, <2>3, <2>6 DEF WorkInOrder, WorkThen, Increasing, Processes
<1>7. EnvelopesInOrder'
  <2>1. InOrder(results)'
    BY <1>5 DEF InOrder
  <2> QED
    BY <1>6, <2>1 DEF EnvelopesInOrder
<1>8. \A r \in Items(results)' : r \in Items(results) \/ NewReport(r)
  BY <1>0, <1>1, <1>2
<1> QED
  BY <1>7, <1>8

\* The barriers stand: what is unprocessed after the step was so before.
LEMMA ChildHolds ==
  ASSUME ChildKept
  PROVE  BarriersHold'
<1> SUFFICES ASSUME failure' = "none", NEW c \in Connections, (Active(c))', NEW n \in Nat, (Unprocessed(n, c))'
             PROVE  (Barred(n, c))'
  BY DEF BarriersHold
<1>0. /\ TypeInv /\ BindingInv /\ Child /\ childAlive /\ UNCHANGED <<worker, conn, barriers, failure>>
  BY DEF ChildKept, Child, ChildStep, parentVars, connVars, tableVars
<1>1. \/ CarriesThen(c, n)
      \/ \E r \in Items(results)' : Processes(r, c) /\ r.n = n
      \/ \E m \in Items(commands)' : Envelope(m, c) /\ m.seq = n
  BY DEF Unprocessed, Carries, CarriesThen, Items, Processes, Envelope
<1>2. CarriesThen(c, n) => Unprocessed(n, c)
  <2>1. CarriesThen(c, n) => Carries(c, n) \/ NewEnvelope(c, n)
    BY WorkMovesOn
  <2>2. NewEnvelope(c, n) => Head(commands) \in Items(commands) /\ Envelope(Head(commands), c) /\ Head(commands).seq = n
    BY ChildReceives DEF NewEnvelope
  <2> QED
    BY <2>1, <2>2 DEF Unprocessed
<1>3. (\E r \in Items(results)' : Processes(r, c) /\ r.n = n) => Unprocessed(n, c)
  BY ChildOrder DEF Unprocessed, NewReport, FirstOf, Processes
<1>4. Items(commands)' \subseteq Items(commands)
  BY <1>0, ChildCommands
<1>5. Unprocessed(n, c)
  BY <1>1, <1>2, <1>3, <1>4 DEF Unprocessed
<1>6. Barred(n, c)
  BY <1>0, <1>5 DEF BindingInv, BarriersHold, Active
<1> QED
  BY <1>0, <1>6 DEF Barred
\* The revision of a session that is not revoked changes when it rebinds.
Rebinds(d) == OwnerRun /\ UNCHANGED admitted /\ chan[d].at = "ownerWait" /\ chan'[d].rev = chan[d].rev + 1
RevisionMoves(d) == ~chan'[d].revoked => /\ ~chan[d].revoked
                                         /\ chan'[d].rev = chan[d].rev \/ Rebinds(d)
\* The owner thread rebinds the session that waits for it, or leaves its revision.
LEMMA OwnerRunRevision ==
  ASSUME TypeInv, OwnerRun, NEW d \in Connections
  PROVE  RevisionMoves(d)
<1> DEFINE m == Head(owner)
<1>1. m.c \in Connections
  <2>1. m \in Work
    BY OwnerRunTypes
  <2> QED
    BY <2>1 DEF Work
<1>2. \/ UNCHANGED chan
      \/ chan[m.c].at = "ownerWait" /\ UNCHANGED admitted /\ (Rebind(m.c) \/ KeepBinding(m.c))
      \/ EndUnbind(m.c)
      \/ EndForNobody(m.c, m.what, m.seq)
  BY Zenon DEF OwnerRun, EndCommand, EndEnvelope, AwaitsOwner
<1> HIDE DEF m
<1>3. UNCHANGED chan => RevisionMoves(d)
  BY DEF RevisionMoves
<1>4. SameRevision(d) => RevisionMoves(d)
  BY DEF RevisionMoves, SameRevision
<1>5. ASSUME chan[m.c].at = "ownerWait", UNCHANGED admitted, Rebind(m.c)
      PROVE  RevisionMoves(d)
  <2>1. chan'[d].rev = (IF d = m.c THEN chan[d].rev + 1 ELSE chan[d].rev) /\ chan'[d].revoked = chan[d].revoked
    BY <1>1, <1>5, RebindChan
  <2> QED
    BY <1>5, <2>1 DEF RevisionMoves, Rebinds
<1>6. KeepBinding(m.c) => SameRevision(d)
  BY <1>1, KeepBindingChan
<1>7. EndUnbind(m.c) => SameRevision(d)
  BY <1>1, EndUnbindChan
<1>8. EndForNobody(m.c, m.what, m.seq) => SameRevision(d)
  BY <1>1, EndForNobodyChan
<1> QED
  BY <1>2, <1>3, <1>4, <1>5, <1>6, <1>7, <1>8
\* Cancelling a session leaves its revision.
LEMMA CancelRevision ==
  ASSUME TypeInv, NEW c \in Connections, Cancel(c), NEW d \in Connections
  PROVE  SameRevision(d)
<1> DEFINE ch == [chan[c] EXCEPT !.disconnecting = TRUE]
<1>1. CancelLoop(c, ch) \/ CancelSync(c, ch) \/ CancelUnbind(c, ch) \/ CancelPumpWait(c, ch)
      \/ \E n : CancelPublication(c, n, [ch EXCEPT !.at = "finalizing"])
  BY Zenon DEF Cancel, CancelWaiting
<1> QED
  BY <1>1, CancelLoopChan, CancelSyncChan, CancelUnbindChan, CancelPumpWaitChan, CancelPublicationChan
\* Asking a session to close revokes it.
LEMMA RequestCloseRevision ==
  ASSUME TypeInv, NEW c \in Connections, RequestClose(c), NEW d \in Connections
  PROVE  RevisionMoves(d)
<1>1. /\ chan'[d].rev = IF d = c THEN chan[d].rev + 1 ELSE chan[d].rev
      /\ (chan'[d].revoked <=> (chan[d].revoked \/ d = c))
  BY RequestCloseChan
<1> QED
  BY <1>1 DEF RevisionMoves
\* The end of a send leaves the revision, or revokes.
LEMMA SendOverRevision ==
  ASSUME TypeInv, NEW c \in Connections, NEW sent, SendOver(c, sent), NEW d \in Connections
  PROVE  RevisionMoves(d)
<1>1. MessageSent(c) \/ MessageLost(c) \/ UNCHANGED chan \/ RequestClose(c) \/ RevokedOver(c, sent)
  BY Zenon DEF SendOver, CompletionLost
<1>2. MessageSent(c) \/ MessageLost(c) \/ RevokedOver(c, sent) => SameRevision(d)
  BY MessageSentChan, MessageLostChan, RevokedOverChan
<1> QED
  BY <1>1, <1>2, RequestCloseRevision DEF RevisionMoves, SameRevision
\* So the revision moves, for each step of the child.
LEMMA ChildRevision ==
  ASSUME TypeInv, ChildStep, NEW d \in Connections
  PROVE  RevisionMoves(d)
<1> DEFINE Goal == RevisionMoves(d)
<1>0. SUFFICES Goal
  OBVIOUS
<1>1. UNCHANGED chan => Goal
  BY DEF RevisionMoves
<1>2. SameRevision(d) => Goal
  BY DEF RevisionMoves, SameRevision
<1>3. CASE ReceiveRefused \/ ReceiveEnqueue \/ ControlShutdown \/ StopOwner \/ Stopped
  BY <1>1, <1>3 DEF ReceiveRefused, ReceiveEnqueue, ControlShutdown, StopOwner, Stopped, sessionVars
<1>4. CASE ReceiveConnect \/ ReceiveEnvelope
  BY <1>2, <1>4, ReceiveConnectChan, ReceiveEnvelopeChan
<1>5. CASE ControlReceipt
  <2>1. \/ ReceiptOfState(Rcpt.id[1], Rcpt.id[3], Rcpt.sent)
        \/ SendOver(Rcpt.id[1], Rcpt.sent)
        \/ UNCHANGED sessionVars
    BY <1>5, Zenon DEF ControlReceipt, Rcpt
  <2>2. Rcpt.id \in Ids /\ Rcpt.sent \in BOOLEAN
    BY <1>5, ControlReceiptTypes
  <2>3. Rcpt.id[1] \in Connections /\ Rcpt.id[3] \in Nat
    BY <2>2 DEF Ids
  <2>4. ReceiptOfState(Rcpt.id[1], Rcpt.id[3], Rcpt.sent) => SameRevision(d)
    BY <2>2, <2>3, ReceiptOfStateChan
  <2>5. SendOver(Rcpt.id[1], Rcpt.sent) => Goal
    BY <2>2, <2>3, SendOverRevision
  <2>6. UNCHANGED sessionVars => Goal
    BY <1>1 DEF sessionVars
  <2> QED
    BY <1>2, <2>1, <2>4, <2>5, <2>6
<1>6. CASE ControlDisconnect
  <2>1. Head(controls).c \in Connections
    BY <1>6, ControlDisconnectTypes
  <2>2. Cancel(Head(controls).c) \/ UNCHANGED chan
    BY <1>6, Zenon DEF ControlDisconnect
  <2> QED
    BY <1>1, <1>2, <2>1, <2>2, CancelRevision
<1>7. ASSUME NEW c \in Connections, PublishBinding(c) \/ StartSend(c) \/ Withhold(c)
      PROVE  Goal
  BY <1>1, <1>7 DEF PublishBinding, StartSend, Withhold
<1>8. ASSUME NEW c \in Connections, TakeEnvelope(c) \/ CallOwner(c) \/ AfterSync(c)
      PROVE  Goal
  BY <1>2, <1>8, TakeEnvelopeChan, CallOwnerChan, AfterSyncChan
<1>9. ASSUME NEW c \in Connections, CloseSession(c) \/ PumpStopped(c) \/ EndSession(c) \/ FinishConnection(c)
      PROVE  Goal
  BY <1>2, <1>9, CloseSessionChan, PumpStoppedChan, EndSessionChan, FinishConnectionChan
<1>10. ASSUME NEW c \in Connections, PutNotification(c)
      PROVE  Goal
  BY <1>1, <1>10, PutNotificationTypes, SendOverRevision
<1>11. ASSUME NEW c \in Connections, DrainSession(c)
      PROVE  Goal
  BY <1>2, <1>11, CancelRevision DEF DrainSession
<1> HIDE DEF Goal
<1> QED
  BY <1>3, <1>4, <1>5, <1>6, <1>7, <1>8, <1>9, <1>10, <1>11, OwnerRunRevision, Zenon DEF ChildStep, Goal

\* The sessions stay placed, and the parent behind them.
LEMMA ChildStays ==
  ASSUME ChildKept
  PROVE  SessionsPlaced' /\ RevisionsBehind'
<1>0. /\ TypeInv /\ TypeInv' /\ ChildStep /\ BeginsOnce /\ EnvelopesInOrder /\ SessionsPlaced /\ RevisionsBehind
      /\ childAlive /\ UNCHANGED conn /\ results \in Seq(Result) /\ \A r \in Result : r.kind = "state" => r.n \in Nat
  <2>1. \A r \in Result : r.kind = "state" => r.n \in Nat
    BY DEF Result
  <2> QED
    BY <2>1, BindingTypes DEF ChildKept, Child, ChildStep, OrphanInv, BindingInv, parentVars, connVars
<1>1. SessionsPlaced'
  <2>1. ASSUME NEW d \in Connections PROVE Placed(d)'
    BY <1>0, ChildPlaced DEF SessionsPlaced, Placed
  <2> QED
    BY <2>1 DEF SessionsPlaced, Placed
<1>2. RevisionsBehind'
  <2> SUFFICES ASSUME NEW c \in Connections, ~chan'[c].revoked
               PROVE  /\ conn'[c].rev <= chan'[c].rev
                      /\ \A r \in Items(results)' : StateOf(r, c) => r.n <= chan'[c].rev
    BY DEF RevisionsBehind, Behind, StateOf
  <2>1. ~chan[c].revoked /\ (chan'[c].rev = chan[c].rev \/ chan'[c].rev = chan[c].rev + 1)
    BY <1>0, ChildRevision DEF RevisionMoves, Rebinds
  <2>2. Behind(c) /\ InFlight(c)
    BY <1>0 DEF RevisionsBehind, SessionsPlaced
  <2>3. chan[c].rev \in Nat /\ conn[c].rev \in Nat
    BY <1>0, BindingTypes
  <2>4. chan[c].rev <= chan'[c].rev
    BY <2>1, <2>3
  <2>5. ASSUME NEW r \in Items(results)', StateOf(r, c)
        PROVE  r.n <= chan'[c].rev
    <3>1. CASE r \in Items(results)
      <4>1. r \in Result /\ r.n \in Nat
        BY <1>0, <2>5, <3>1, ItemsOf DEF StateOf
      <4>2. r.n <= chan[c].rev
        BY <2>1, <2>2, <2>5, <3>1 DEF Behind
      <4> QED
        BY <2>1, <2>3, <4>1, <4>2
    <3>2. CASE NewReport(r)
      <4>1. PublishBinding(c) /\ r.n = Head(syncs[c]).n
        BY <2>5, <3>2 DEF NewReport, StateOf
      <4>2. syncs[c] # <<>>
        BY <4>1 DEF PublishBinding
      <4>3. r.n = chan[c].rev
        BY <2>1, <2>2, <4>1, <4>2 DEF InFlight
      <4> QED
        BY <2>4, <4>3
    <3> QED
      BY <2>5, <3>1, <3>2, ChildOrder
  <2>6. conn'[c].rev <= chan'[c].rev
    BY <1>0, <2>1, <2>2, <2>3, <2>4 DEF Behind
  <2> QED
    BY <2>5, <2>6
<1> QED
  BY <1>1, <1>2
\* The commands admitted to a session: those that were, one received, or fewer.
Alike(a, m) == a.seq = m.seq /\ a.q = m.q /\ a.rev = m.rev
Carried(d) == \A m \in Items(admitted'[d]) : \E a \in Items(admitted[d]) : Alike(a, m)
Enters(d) ==
    /\ ReceiveEnqueue /\ Head(commands).c = d
    /\ \A m \in Items(admitted'[d]) :
          Alike(Head(commands), m) \/ \E a \in Items(admitted[d]) : Alike(a, m)
\* Nothing happens to the commands of a session.
LEMMA SameCarried ==
  ASSUME NEW d \in Connections, admitted'[d] = admitted[d]
  PROVE  Carried(d)
BY DEF Carried, Alike
\* The first command of a session is over, or all of them.
LEMMA FewerCarried ==
  ASSUME TypeInv, NEW c \in Connections, NEW d \in Connections,
         \/ admitted' = [admitted EXCEPT ![c] = <<>>]
         \/ admitted[c] # <<>> /\ admitted' = [admitted EXCEPT ![c] = Tail(@)]
  PROVE  Carried(d)
<1>1. admitted \in [Connections -> Seq(Admission)] /\ admitted[c] \in Seq(Admission)
  BY DEF TypeInv, ChildType
<1>2. CASE d # c
  BY <1>1, <1>2, SameCarried
<1>3. CASE d = c
  <2>1. \/ admitted'[d] = <<>>
        \/ admitted[d] # <<>> /\ admitted'[d] = Tail(admitted[d])
    BY <1>1, <1>3
  <2>2. Items(<<>>) = {}
    BY DEF Items
  <2>3. Items(admitted'[d]) \subseteq Items(admitted[d])
    BY <1>1, <1>3, <2>1, <2>2, ItemsOf
  <2> QED
    BY <2>3 DEF Carried, Alike
<1> QED
  BY <1>2, <1>3
\* The end of a send is the end of a command at most.
LEMMA SendOverCarried ==
  ASSUME TypeInv, NEW c \in Connections, NEW sent, SendOver(c, sent), NEW d \in Connections
  PROVE  Carried(d)
<1>1. \/ UNCHANGED admitted
      \/ sending[c].kind = "completion" /\ FinishFirst(c)
      \/ CompletionLost(c)
  BY Zenon DEF SendOver, MessageSent, MessageLost, RevokedOver
<1>2. sending[c].kind = "completion" => admitted[c] # <<>>
  BY DEF TypeInv, CompletionHeld
<1>3. FinishFirst(c) => admitted' = [admitted EXCEPT ![c] = Tail(@)]
  BY DEF FinishFirst
<1>4. CompletionLost(c) => admitted' = [admitted EXCEPT ![c] = <<>>]
  BY DEF CompletionLost
<1> QED
  BY <1>1, <1>2, <1>3, <1>4, SameCarried, FewerCarried
\* A command that has ended keeps the revision it came with.
LEMMA OwnerRunCarried ==
  ASSUME TypeInv, OwnerRun, NEW d \in Connections
  PROVE  Carried(d)
<1> DEFINE m == Head(owner)
           s == admitted[m.c]
           ended == [i \in DOMAIN s |-> Ended(s[i], m.seq)]
<1>1. m.c \in Connections
  <2>1. m \in Work
    BY OwnerRunTypes
  <2> QED
    BY <2>1 DEF Work
<1>2. UNCHANGED admitted \/ admitted' = [admitted EXCEPT ![m.c] = ended]
  BY Zenon DEF OwnerRun, EndCommand, EndEnvelope, EndUnbind, EndForNobody
<1>3. admitted \in [Connections -> Seq(Admission)] /\ s \in Seq(Admission)
  BY <1>1 DEF TypeInv, ChildType
<1>4. DOMAIN ended = DOMAIN s /\ \A i \in DOMAIN s : Alike(s[i], ended[i])
  <2>1. \A i \in DOMAIN s : s[i] \in Admission
    BY <1>3
  <2>2. \A i \in DOMAIN s : Alike(s[i], Ended(s[i], m.seq))
    BY <2>1 DEF Admission, Ended, Alike
  <2> QED
    BY <2>2
<1> HIDE DEF ended
<1>5. CASE admitted'[d] = admitted[d]
  BY <1>5, SameCarried
<1>6. CASE d = m.c /\ admitted'[d] = ended
  <2>1. ASSUME NEW x \in Items(ended)
        PROVE  \E a \in Items(s) : Alike(a, x)
    <3>1. PICK i \in DOMAIN s : x = ended[i]
      BY <1>4 DEF Items
    <3>2. s[i] \in Items(s)
      BY DEF Items
    <3> QED
      BY <1>4, <3>1, <3>2
  <2> QED
    BY <1>6, <2>1 DEF Carried
<1> QED
  BY <1>1, <1>2, <1>3, <1>5, <1>6
\* Where the commands of a session come from, for each step of the child.
LEMMA ChildAdmitted ==
  ASSUME TypeInv, ChildStep, NEW d \in Connections
  PROVE  Carried(d) \/ Enters(d)
<1> DEFINE Goal == Carried(d) \/ Enters(d)
<1>0. SUFFICES Goal
  OBVIOUS
<1>1. UNCHANGED admitted => Goal
  BY SameCarried
<1>2. CASE ReceiveRefused \/ ReceiveConnect \/ ReceiveEnvelope \/ ControlDisconnect \/ ControlShutdown \/ StopOwner \/ Stopped
  BY <1>1, <1>2 DEF ReceiveRefused, ReceiveConnect, ReceiveEnvelope, ControlDisconnect, ControlShutdown, StopOwner,
                    Stopped, sessionVars
<1>3. CASE ReceiveEnqueue
  <2> DEFINE m == Head(commands)
  <2>1. m.c \in Connections
    <3>1. commands # <<>> /\ commands' = Tail(commands)
      BY <1>3 DEF ReceiveEnqueue, Receiving
    <3> QED
      BY <3>1, TakenTypes
  <2>2. \/ Accepted(m) /\ admitted' = [admitted EXCEPT ![m.c] = Append(@, NewAdmission(m))]
        \/ UNCHANGED admitted
    BY <1>3, ReceiveEnqueueTypes
  <2>3. CASE admitted' = [admitted EXCEPT ![m.c] = Append(@, NewAdmission(m))]
    <3>1. admitted \in [Connections -> Seq(Admission)] /\ admitted[d] \in Seq(Admission)
      BY DEF TypeInv, ChildType
    <3>2. Alike(m, NewAdmission(m))
      BY DEF NewAdmission, Alike
    <3>3. CASE d # m.c
      BY <2>1, <2>3, <3>1, <3>3, SameCarried
    <3>4. CASE d = m.c
      <4> DEFINE s == admitted[d]
                 e == NewAdmission(m)
      <4>1. admitted'[d] = Append(s, e)
        BY <2>1, <2>3, <3>1, <3>4
      <4> HIDE DEF e
      <4>2. Items(Append(s, e)) \subseteq Items(s) \cup {e}
        <5>1. Len(s) \in Nat /\ DOMAIN s = 1..Len(s) /\ DOMAIN Append(s, e) = 1..(Len(s) + 1)
              /\ \A i \in 1..Len(s) : Append(s, e)[i] = s[i]
              /\ Append(s, e)[Len(s) + 1] = e
          BY <3>1
        <5>2. \A i \in 1..(Len(s) + 1) : i \in 1..Len(s) \/ i = Len(s) + 1
          BY <5>1
        <5> HIDE DEF s
        <5>3. ASSUME NEW x \in Items(Append(s, e)) PROVE x \in Items(s) \cup {e}
          <6>1. PICK i \in 1..(Len(s) + 1) : x = Append(s, e)[i]
            BY <5>1, <5>3 DEF Items
          <6> QED
            BY <5>1, <5>2, <6>1 DEF Items
        <5> QED
          BY <5>3
      <4> QED
        BY <1>3, <3>2, <3>4, <4>1, <4>2 DEF Enters, e, Alike
    <3> QED
      BY <3>3, <3>4
  <2> QED
    BY <1>1, <2>2, <2>3
<1>4. CASE ControlReceipt
  <2>1. \/ ReceiptOfState(Rcpt.id[1], Rcpt.id[3], Rcpt.sent)
        \/ SendOver(Rcpt.id[1], Rcpt.sent)
        \/ UNCHANGED sessionVars
    BY <1>4, Zenon DEF ControlReceipt, Rcpt
  <2>2. Rcpt.id \in Ids
    BY <1>4, ControlReceiptTypes
  <2>3. Rcpt.id[1] \in Connections
    BY <2>2 DEF Ids
  <2>4. ReceiptOfState(Rcpt.id[1], Rcpt.id[3], Rcpt.sent) \/ UNCHANGED sessionVars => UNCHANGED admitted
    BY DEF ReceiptOfState, sessionVars
  <2>5. SendOver(Rcpt.id[1], Rcpt.sent) => Goal
    BY <2>3, SendOverCarried
  <2> QED
    BY <1>1, <2>1, <2>4, <2>5
<1>5. ASSUME NEW c \in Connections,
             \/ TakeEnvelope(c) \/ CallOwner(c) \/ AfterSync(c) \/ PublishBinding(c) \/ StartSend(c)
             \/ CloseSession(c) \/ EndSession(c) \/ FinishConnection(c) \/ DrainSession(c)
      PROVE  Goal
  BY <1>1, <1>5 DEF TakeEnvelope, CallOwner, AfterSync, PublishBinding, StartSend, CloseSession, EndSession,
                    FinishConnection, DrainSession
<1>6. ASSUME NEW c \in Connections, Withhold(c)
      PROVE  Goal
  <2>1. admitted[c] # <<>> /\ admitted' = [admitted EXCEPT ![c] = Tail(@)]
    BY <1>6 DEF Withhold, FirstDone, FinishFirst
  <2> QED
    BY <2>1, FewerCarried
<1>7. ASSUME NEW c \in Connections, PumpStopped(c)
      PROVE  Goal
  <2>1. admitted' = [admitted EXCEPT ![c] = <<>>]
    BY <1>7 DEF PumpStopped
  <2> QED
    BY <2>1, FewerCarried
<1>8. ASSUME NEW c \in Connections, PutNotification(c)
      PROVE  Goal
  BY <1>1, <1>8, PutNotificationTypes, SendOverCarried
<1>9. OwnerRun => Goal
  BY OwnerRunCarried
<1> HIDE DEF Goal
<1> QED
  BY <1>2, <1>3, <1>4, <1>5, <1>6, <1>7, <1>8, <1>9, Zenon DEF ChildStep

\* A session waits for the owner only when nothing admitted before is left.
WaitsAlone(d) == chan'[d].at = "ownerWait" => chan[d].at = "ownerWait" \/ (UNCHANGED admitted /\ admitted[d] = <<>>)
\* The end of a send makes no session wait for the owner.
LEMMA SendOverWaits ==
  ASSUME TypeInv, NEW c \in Connections, NEW sent, SendOver(c, sent), NEW d \in Connections
  PROVE  WaitsAlone(d)
<1>1. MessageSent(c) \/ MessageLost(c) \/ UNCHANGED chan \/ RequestClose(c) \/ RevokedOver(c, sent)
  BY Zenon DEF SendOver, CompletionLost
<1>2. chan'[d].at = chan[d].at \/ chan'[d].at # "ownerWait"
  BY <1>1, MessageSentChan, MessageLostChan, RevokedOverChan, RequestCloseChan DEF SamePlace
<1> QED
  BY <1>2 DEF WaitsAlone
\* Nor does cancelling one.
LEMMA CancelWaits ==
  ASSUME TypeInv, NEW c \in Connections, Cancel(c), NEW d \in Connections
  PROVE  WaitsAlone(d)
<1> DEFINE ch == [chan[c] EXCEPT !.disconnecting = TRUE]
<1>1. CancelLoop(c, ch) \/ CancelSync(c, ch) \/ CancelUnbind(c, ch) \/ CancelPumpWait(c, ch)
      \/ \E n : CancelPublication(c, n, [ch EXCEPT !.at = "finalizing"])
  BY Zenon DEF Cancel, CancelWaiting
<1>2. chan'[d].at = chan[d].at \/ chan'[d].at \in {"pumpWait", "unbinding", "waiting", "finalizing"}
  BY <1>1, CancelLoopChan, CancelSyncChan, CancelUnbindChan, CancelPumpWaitChan, CancelPublicationChan
<1> QED
  BY <1>2 DEF WaitsAlone
\* Nor does the control task.
LEMMA ControlWaits ==
  ASSUME TypeInv, ControlReceipt \/ ControlDisconnect \/ ControlShutdown, NEW d \in Connections
  PROVE  WaitsAlone(d)
<1>1. UNCHANGED chan => WaitsAlone(d)
  BY DEF WaitsAlone
<1>2. CASE ControlReceipt
  <2>1. \/ ReceiptOfState(Rcpt.id[1], Rcpt.id[3], Rcpt.sent)
        \/ SendOver(Rcpt.id[1], Rcpt.sent)
        \/ UNCHANGED sessionVars
    BY <1>2, Zenon DEF ControlReceipt, Rcpt
  <2>2. Rcpt.id \in Ids /\ Rcpt.sent \in BOOLEAN
    BY <1>2, ControlReceiptTypes
  <2>3. Rcpt.id[1] \in Connections /\ Rcpt.id[3] \in Nat
    BY <2>2 DEF Ids
  <2>4. ReceiptOfState(Rcpt.id[1], Rcpt.id[3], Rcpt.sent) => WaitsAlone(d)
    BY <2>2, <2>3, ReceiptOfStateChan DEF SamePlace, WaitsAlone
  <2>5. SendOver(Rcpt.id[1], Rcpt.sent) => WaitsAlone(d)
    BY <2>3, SendOverWaits
  <2>6. UNCHANGED sessionVars => UNCHANGED chan
    BY DEF sessionVars
  <2> QED
    BY <1>1, <2>1, <2>4, <2>5, <2>6
<1>3. CASE ControlDisconnect
  <2>1. Head(controls).c \in Connections
    BY <1>3, ControlDisconnectTypes
  <2>2. Cancel(Head(controls).c) \/ UNCHANGED chan
    BY <1>3, Zenon DEF ControlDisconnect
  <2> QED
    BY <1>1, <2>1, <2>2, CancelWaits
<1>4. CASE ControlShutdown
  BY <1>1, <1>4 DEF ControlShutdown, sessionVars
<1> QED
  BY <1>2, <1>3, <1>4
\* Nor does the owner thread.
LEMMA OwnerRunWaits ==
  ASSUME TypeInv, OwnerRun, NEW d \in Connections
  PROVE  WaitsAlone(d)
<1> DEFINE m == Head(owner)
<1>1. m.c \in Connections
  <2>1. m \in Work
    BY OwnerRunTypes
  <2> QED
    BY <2>1 DEF Work
<1>2. \/ UNCHANGED chan \/ Rebind(m.c) \/ KeepBinding(m.c) \/ EndUnbind(m.c) \/ EndForNobody(m.c, m.what, m.seq)
  BY Zenon DEF OwnerRun, EndCommand, EndEnvelope
<1> HIDE DEF m
<1>3. chan'[d].at = chan[d].at \/ chan'[d].at \in {"sync", "waiting"}
  BY <1>1, <1>2, RebindChan, KeepBindingChan, EndUnbindChan, EndForNobodyChan DEF SamePlace
<1> QED
  BY <1>3 DEF WaitsAlone
\* A session begins to wait when it calls, for each step of the child.
LEMMA ChildWaits ==
  ASSUME TypeInv, ChildStep, NEW d \in Connections
  PROVE  WaitsAlone(d)
<1> DEFINE Goal == WaitsAlone(d)
<1>0. SUFFICES Goal
  OBVIOUS
<1>1. chan'[d].at = chan[d].at \/ chan'[d].at # "ownerWait" => Goal
  BY DEF WaitsAlone
<1>2. CASE ReceiveRefused \/ ReceiveEnqueue \/ StopOwner \/ Stopped
  BY <1>1, <1>2 DEF ReceiveRefused, ReceiveEnqueue, StopOwner, Stopped, sessionVars
<1>3. CASE ReceiveConnect \/ ReceiveEnvelope
  BY <1>1, <1>3, ReceiveConnectChan, ReceiveEnvelopeChan DEF SamePlace
<1>4. ControlReceipt \/ ControlDisconnect \/ ControlShutdown \/ OwnerRun => Goal
  BY ControlWaits, OwnerRunWaits
<1>5. ASSUME NEW c \in Connections, PublishBinding(c) \/ StartSend(c) \/ Withhold(c)
      PROVE  Goal
  BY <1>1, <1>5 DEF PublishBinding, StartSend, Withhold
<1>6. ASSUME NEW c \in Connections, TakeEnvelope(c) \/ AfterSync(c) \/ CloseSession(c) \/ PumpStopped(c)
      PROVE  Goal
  BY <1>1, <1>6, TakeEnvelopeChan, AfterSyncChan, CloseSessionChan, PumpStoppedChan DEF SamePlace
<1>7. ASSUME NEW c \in Connections, EndSession(c) \/ FinishConnection(c)
      PROVE  Goal
  BY <1>1, <1>7, EndSessionChan, FinishConnectionChan
<1>8. ASSUME NEW c \in Connections, CallOwner(c)
      PROVE  Goal
  <2>1. UNCHANGED admitted
    BY <1>8 DEF CallOwner
  <2>2. chan'[d].at = chan[d].at \/ Joined(d)
    BY <1>8, CallOwnerChan
  <2> QED
    BY <2>1, <2>2 DEF WaitsAlone, Joined
<1>9. ASSUME NEW c \in Connections, PutNotification(c)
      PROVE  Goal
  BY <1>1, <1>9, PutNotificationTypes, SendOverWaits
<1>10. ASSUME NEW c \in Connections, DrainSession(c)
      PROVE  Goal
  BY <1>10, CancelWaits DEF DrainSession
<1> HIDE DEF Goal
<1> QED
  BY <1>2, <1>3, <1>4, <1>5, <1>6, <1>7, <1>8, <1>9, <1>10, Zenon DEF ChildStep
\* While a session handles an envelope no request of its connection is received.
LEMMA ChildEnters ==
  ASSUME ChildKept, NEW d \in Connections, Enters(d)
  PROVE  /\ chan[d].current = 0 /\ chan[d].at \notin Works /\ UNCHANGED chan
         /\ Head(commands) \in Items(commands) /\ Requested(Head(commands), d)
<1>1. /\ commands # <<>> /\ Head(commands).op = "enqueue" /\ Head(commands).c = d /\ UNCHANGED chan
      /\ commands \in Seq(Command)
  BY DEF Enters, ReceiveEnqueue, Receiving, ChildKept, TypeInv, ChannelsType
<1>2. Head(commands) \in Items(commands) /\ Requested(Head(commands), d)
  BY <1>1, ItemsOf DEF Requested
<1>3. NoneBehind(d) /\ WorkPlaced(d)
  BY DEF ChildKept, Child, ChildStep, BindingInv, RequestsWait, SessionsPlaced
<1> QED
  BY <1>1, <1>2, <1>3 DEF NoneBehind, WorkPlaced
\* The requests wait, in the queue and in the session.
LEMMA ChildRequests ==
  ASSUME ChildKept
  PROVE  RequestsWait'
<1>0. /\ TypeInv /\ TypeInv' /\ CommandsOrdered /\ CommandsOrdered' /\ BindingInv /\ Child /\ ChildStep /\ childAlive /\ childAlive'
      /\ commands \in Seq(Command) /\ Items(commands) \subseteq Command /\ Items(commands)' \subseteq Items(commands)
      /\ last \in Nat /\ last' \in Nat
  BY BindingTypes, ChildCommands, ChildReceives DEF ChildKept, Child, ChildStep
<1> SUFFICES ASSUME NEW c \in Connections
             PROVE  NoneBehind(c)' /\ (chan'[c].at = "ownerWait" => admitted'[c] = <<>>)
  BY DEF RequestsWait
<1>1. NoneBehind(c) /\ (chan[c].at = "ownerWait" => admitted[c] = <<>>)
  BY <1>0 DEF BindingInv, RequestsWait
<1>2. NoneBehind(c)'
  <2> SUFFICES ASSUME NEW m \in Items(commands)', Requested(m, c)
               PROVE  /\ chan'[c].current = 0 /\ chan'[c].inbox = <<>>
                      /\ \A e \in Items(commands)' : Envelope(e, c) => m.seq < e.seq
    BY DEF NoneBehind, Requested, Envelope
  <2>1. /\ m \in Items(commands) /\ m.seq \in Nat /\ last' < m.seq
        /\ chan[c].current = 0 /\ chan[c].inbox = <<>>
        /\ \A e \in Items(commands) : Envelope(e, c) => m.seq < e.seq
    BY <1>0, <1>1 DEF NoneBehind, CommandsOrdered, Command
  <2>2. \A x \in Nat : ~Carries(c, x)
    <3>1. Items(<<>>) = {}
      BY DEF Items
    <3> QED
      BY <2>1, <3>1 DEF Carries
  <2>3. \A x \in Nat : ~NewEnvelope(c, x)
    <3> SUFFICES ASSUME ReceiveEnvelope, c = Head(commands).c
                 PROVE  FALSE
      BY DEF NewEnvelope
    <3>1. Head(commands) \in Items(commands) /\ Envelope(Head(commands), c) /\ last' = Head(commands).seq
      BY ChildReceives
    <3> QED
      BY <1>0, <2>1, <3>1
  <2>4. \A x \in Nat : ~CarriesThen(c, x)
    BY <2>2, <2>3, WorkMovesOn
  <2>5. chan'[c].current \in Nat /\ chan'[c].inbox \in Seq(Nat)
    BY <1>0 DEF TypeInv, ChildType, ChanType
  <2>6. chan'[c].current = 0
    BY <2>4, <2>5 DEF CarriesThen
  <2>7. chan'[c].inbox = <<>>
    <3>1. chan'[c].inbox # <<>> => Head(chan'[c].inbox) \in Items(chan'[c].inbox) /\ Head(chan'[c].inbox) \in Nat
      BY <2>5, ItemsOf
    <3> QED
      BY <2>4, <3>1 DEF CarriesThen
  <2> QED
    BY <1>0, <2>1, <2>6, <2>7
<1>3. ASSUME chan'[c].at = "ownerWait"
      PROVE  admitted'[c] = <<>>
  <2>1. admitted[c] = <<>>
    BY <1>0, <1>1, <1>3, ChildWaits DEF WaitsAlone
  <2>2. Carried(c)
    <3>1. CASE Enters(c)
      <4>1. chan[c].at \notin Works /\ UNCHANGED chan
        BY <3>1, ChildEnters
      <4> QED
        BY <1>3, <4>1 DEF Works
    <3> QED
      BY <1>0, <3>1, ChildAdmitted
  <2>3. Items(<<>>) = {}
    BY DEF Items
  <2>4. Items(admitted'[c]) = {}
    BY <2>1, <2>2, <2>3 DEF Carried
  <2>5. admitted'[c] \in Seq(Admission)
    BY <1>0 DEF TypeInv, ChildType
  <2> QED
    BY <2>4, <2>5, ItemsOf
<1> QED
  BY <1>2, <1>3
\* The session keeps the revision the requests came with.
LEMMA ChildSame ==
  ASSUME ChildKept
  PROVE  RevisionKept'
<1>0. /\ TypeInv /\ TypeInv' /\ BindingInv /\ Child /\ ChildStep /\ childAlive /\ childAlive' /\ BeginsOnce /\ MessagesPlaced
      /\ Items(commands)' \subseteq Items(commands)
  BY ChildCommands DEF ChildKept, Child, ChildStep, OrphanInv, BeginsOnce
<1> SUFFICES ASSUME NEW c \in Connections, chan'[c].at # "gone", ~chan'[c].revoked
             PROVE  /\ \A m \in Items(commands)' : Requested(m, c) => m.rev = chan'[c].rev
                    /\ \A m \in Items(admitted'[c]) : m.rev = chan'[c].rev
  <2>1. \A c \in Connections : Items(admitted[c])' = Items(admitted'[c])
    BY DEF Items
  <2> QED
    BY <2>1 DEF RevisionKept, SameRev, Requested
<1>1. ~chan[c].revoked /\ (chan'[c].rev = chan[c].rev \/ Rebinds(c))
  BY <1>0, ChildRevision DEF RevisionMoves
<1>2. chan[c].at # "gone"
  <2>1. Still(c) \/ Opens(c)
    BY <1>0, ChildPlaces
  <2>2. Still(c) => chan[c].at # "gone"
    BY DEF Still, Away
  <2>3. Opens(c) => chan[c].at = "none"
    <3> SUFFICES ASSUME Opens(c) PROVE chan[c].at = "none"
      OBVIOUS
    <3>1. commands \in Seq(Command) /\ commands # <<>> /\ Head(commands).op = "connect" /\ Head(commands).c = c
      BY <1>0 DEF Opens, ReceiveConnect, Receiving, TypeInv, ChannelsType
    <3>2. Head(commands) \in Items(commands)
      BY <3>1, ItemsOf
    <3> QED
      BY <1>0, <3>1, <3>2 DEF BeginsOnce
  <2> QED
    BY <2>1, <2>2, <2>3
<1>3. SameRev(c) /\ RequestsWait /\ WorkPlaced(c)
  BY <1>0 DEF BindingInv, RevisionKept, SessionsPlaced
<1>4. /\ \A m \in Items(commands) : Requested(m, c) => m.rev = chan[c].rev
      /\ \A m \in Items(admitted[c]) : m.rev = chan[c].rev
  BY <1>1, <1>2, <1>3 DEF SameRev
<1>5. CASE chan'[c].rev = chan[c].rev
  <2>1. \A m \in Items(admitted'[c]) : m.rev = chan[c].rev
    <3>1. CASE Carried(c)
      BY <1>4, <3>1 DEF Carried, Alike
    <3>2. CASE Enters(c)
      <4>1. Head(commands).rev = chan[c].rev
        BY <1>4, <3>2, ChildEnters
      <4> QED
        BY <1>4, <3>2, <4>1 DEF Enters, Alike
    <3> QED
      BY <1>0, <3>1, <3>2, ChildAdmitted
  <2> QED
    BY <1>0, <1>4, <1>5, <2>1
<1>6. CASE Rebinds(c)
  <2>1. chan[c].at = "ownerWait" /\ UNCHANGED <<admitted, commands>>
    BY <1>6 DEF Rebinds, OwnerRun, queues
  <2>2. admitted[c] = <<>> /\ chan[c].current # 0 /\ NoneBehind(c)
    BY <1>0, <1>3, <2>1 DEF RequestsWait, WorkPlaced, Works
  <2>3. Items(admitted'[c]) = {}
    BY <2>1, <2>2 DEF Items
  <2>4. \A m \in Items(commands)' : ~Requested(m, c)
    BY <1>0, <2>2 DEF NoneBehind
  <2> QED
    BY <2>3, <2>4
<1> QED
  BY <1>1, <1>5, <1>6

\* A revocation changes the binding of one session and nothing else.
LEMMA RevokeBinds ==
  ASSUME TypeInv, TypeInv', BindingInv, childAlive, NEW c \in Connections, Revoke(c), UNCHANGED parentVars
  PROVE  BindingInv'
<1>1. /\ UNCHANGED <<commands, results, admitted, last, failure, conn, worker, barriers, childAlive>> /\ RequestClose(c)
  BY DEF Revoke, queues, parentVars, connVars, tableVars
<1>2. /\ Items(commands)' = Items(commands) /\ Items(results)' = Items(results)
      /\ \A d \in Connections : Items(admitted[d])' = Items(admitted[d])
  BY <1>1 DEF Items
<1>3. ASSUME NEW d \in Connections
      PROVE  /\ chan'[d].at = chan[d].at /\ chan'[d].current = chan[d].current /\ chan'[d].inbox = chan[d].inbox
             /\ ~chan'[d].revoked => ~chan[d].revoked /\ chan'[d].rev = chan[d].rev
  BY <1>1, RequestCloseChan DEF SamePlace, SameWork
<1>4. ASSUME NEW d \in Connections
      PROVE  /\ Items(chan[d].inbox)' = Items(chan[d].inbox)
             /\ \A n : Carries(d, n)' <=> Carries(d, n)
  BY <1>3 DEF Items, Carries
<1>5. EnvelopesInOrder'
  <2>1. ASSUME NEW d \in Connections PROVE WorkInOrder(d)'
    <3>1. WorkInOrder(d)
      BY DEF BindingInv, EnvelopesInOrder
    <3> QED
      BY <1>1, <1>2, <1>3, <1>4, <3>1 DEF WorkInOrder, Processes
  <2>2. InOrder(results)'
    BY <1>1 DEF BindingInv, EnvelopesInOrder, InOrder
  <2> QED
    BY <2>1, <2>2 DEF EnvelopesInOrder
<1>6. SessionsPlaced'
  <2>1. \A d \in Connections : Placed(d)'
    BY <1>1, RequestClosePlaced DEF BindingInv, SessionsPlaced, Placed
  <2> QED
    BY <2>1 DEF SessionsPlaced, Placed
<1>7. RevisionsBehind'
  BY <1>1, <1>2, <1>3 DEF BindingInv, RevisionsBehind, Behind, StateOf
<1>8. BarriersHold'
  BY <1>1, <1>2, <1>4 DEF BindingInv, BarriersHold, Active, Barred, Unprocessed, Processes, Envelope
<1>9. RequestsWait'
  BY <1>1, <1>2, <1>3 DEF BindingInv, RequestsWait, NoneBehind, Requested, Envelope
<1>10. RevisionKept'
  BY <1>1, <1>2, <1>3 DEF BindingInv, RevisionKept, SameRev, Requested
<1> QED
  BY <1>5, <1>6, <1>7, <1>8, <1>9, <1>10 DEF BindingInv
\* Without a child there is nothing to keep.
LEMMA GoneBinds ==
  ASSUME ~childAlive'
  PROVE  BindingInv'
BY DEF BindingInv, EnvelopesInOrder, SessionsPlaced, RevisionsBehind, BarriersHold, RequestsWait, RevisionKept
\* A step keeps the invariant of the binding.
LEMMA BindingStep ==
  ASSUME TypeInv, TypeInv', CommandsOrdered, CommandsOrdered', FenceInv, OrphanInv, BindingInv, [Next]_vars
  PROVE  BindingInv'
<1>1. ASSUME childAlive', ParentBinds
      PROVE  BindingInv'
  <2>1. ParentKept
    BY <1>1 DEF ParentKept
  <2> QED
    BY <2>1, ParentOrder, ParentHolds, ParentWaits DEF BindingInv
<1>2. ASSUME childAlive', Child
      PROVE  BindingInv'
  <2>1. ChildKept
    BY <1>2 DEF ChildKept
  <2> QED
    BY <2>1, ChildStays, ChildOrder, ChildHolds, ChildRequests, ChildSame DEF BindingInv
<1>3. (CloseTimeout /\ ChildLost) \/ ChildDies => ~childAlive'
  BY DEF ChildLost, ChildDies
<1>4. FromParent => ParentBinds
  BY ParentBindings
<1>5. \/ (\E c \in Connections : ClientLost(c)) /\ UNCHANGED childVars
      \/ StartClose /\ UNCHANGED childVars
      \/ UNCHANGED vars
      => ParentBinds
  BY DisturbedBindings
<1>6. childAlive /\ (\E c \in Connections : Revoke(c)) /\ UNCHANGED parentVars => BindingInv'
  BY RevokeBinds
<1> QED
  BY <1>1, <1>2, <1>3, <1>4, <1>5, <1>6, GoneBinds, StepCases
\* The invariants of the sessions, of the fence and of the binding hold together.
LEMMA BindingInvariant == Spec => []BindingInv
<1>1. Init => BindingInv
  <2> SUFFICES ASSUME Init PROVE BindingInv
    OBVIOUS
  <2>1. /\ commands = <<>> /\ results = <<>> /\ last = 0
        /\ \A c \in Connections :
              /\ chan[c].at = "none" /\ chan[c].current = 0 /\ chan[c].inbox = <<>> /\ chan[c].rev = 0
              /\ chan[c].synced = 0 /\ syncs[c] = <<>> /\ admitted[c] = <<>> /\ conn[c].rev = 0
    BY DEF Init, ChannelsInit, ParentInit, ChildInit, Each, NoSession
  <2>2. Items(<<>>) = {} /\ Len(<<>>) = 0
    BY DEF Items
  <2>3. EnvelopesInOrder
    BY <2>1, <2>2 DEF EnvelopesInOrder, InOrder, WorkInOrder
  <2>4. SessionsPlaced
    BY <2>1, <2>2 DEF SessionsPlaced, WorkPlaced, InFlight, Settles, Works
  <2>5. RevisionsBehind /\ RequestsWait /\ RevisionKept
    BY <2>1, <2>2 DEF RevisionsBehind, Behind, RequestsWait, NoneBehind, RevisionKept, SameRev
  <2>6. BarriersHold
    BY <2>1, <2>2 DEF BarriersHold, Unprocessed, Carries
  <2> QED
    BY <2>3, <2>4, <2>5, <2>6 DEF BindingInv
<1>2. SessionInv /\ SessionInv' /\ FenceInv /\ BindingInv /\ [Next]_vars => BindingInv'
  BY BindingStep DEF SessionInv, ProcessInv
<1> QED
  BY <1>1, <1>2, SessionInvariant, FenceInvariant, PTL DEF Spec

\* A request is executed under the binding it was admitted with: from the parent's
\* table to the end of the command the session keeps the binding, unless it is
\* revoked or over.
THEOREM BindingIsKept == Spec => []BindingKept
<1>1. BindingInv => BindingKept
  BY DEF BindingInv, RevisionKept, SameRev, Requested, BindingKept, Exists
<1> QED
  BY <1>1, BindingInvariant, PTL

\* At most one item of s is one of K.
Once(s, K) == \A i, j \in 1..Len(s) : i < j => ~(s[i] \in K /\ s[j] \in K)
\* The first item is taken: if it was the one of K, none is left.
LEMMA OnceTail ==
  ASSUME NEW S, NEW s \in Seq(S), NEW K, Once(s, K), s # <<>>
  PROVE  /\ Once(Tail(s), K)
         /\ Head(s) \in K => \A m \in Items(Tail(s)) : m \notin K
<1>1. Len(Tail(s)) = Len(s) - 1 /\ \A i \in 1..Len(s) - 1 : Tail(s)[i] = s[i + 1] /\ Len(s) \in Nat /\ Head(s) = s[1]
  OBVIOUS
<1>2. Once(Tail(s), K)
  BY <1>1 DEF Once
<1>3. ASSUME Head(s) \in K, NEW m \in Items(Tail(s)) PROVE m \notin K
  <2>1. PICK i \in 1..Len(s) - 1 : m = s[i + 1]
    BY <1>1 DEF Items
  <2> QED
    BY <1>1, <1>3, <2>1 DEF Once
<1> QED
  BY <1>2, <1>3
\* Items are added behind: none of K, or one where none was.
LEMMA OnceConcat ==
  ASSUME NEW S, NEW s \in Seq(S), NEW t \in Seq(S), NEW K, Once(s, K), Once(t, K),
         (\A m \in Items(s) : m \notin K) \/ (\A m \in Items(t) : m \notin K)
  PROVE  Once(s \o t, K)
<1>1. /\ Len(s) \in Nat /\ Len(t) \in Nat /\ Len(s \o t) = Len(s) + Len(t)
      /\ \A i \in 1..Len(s) + Len(t) : (s \o t)[i] = IF i <= Len(s) THEN s[i] ELSE t[i - Len(s)]
  OBVIOUS
<1>2. (\A i \in 1..Len(s) : s[i] \in Items(s)) /\ (\A i \in 1..Len(t) : t[i] \in Items(t))
  BY DEF Items
<1>3. SUFFICES ASSUME NEW i \in 1..Len(s) + Len(t), NEW j \in 1..Len(s) + Len(t), i < j,
                      (s \o t)[i] \in K, (s \o t)[j] \in K
               PROVE  FALSE
  BY <1>1 DEF Once
<1>4. CASE j <= Len(s)
  BY <1>1, <1>3, <1>4 DEF Once
<1>5. CASE i > Len(s)
  <2>1. i - Len(s) \in 1..Len(t) /\ j - Len(s) \in 1..Len(t) /\ i - Len(s) < j - Len(s)
    BY <1>1, <1>3, <1>5
  <2> QED
    BY <1>1, <1>3, <1>5, <2>1 DEF Once
<1>6. CASE i <= Len(s) /\ j > Len(s)
  <2>1. i \in 1..Len(s) /\ j - Len(s) \in 1..Len(t)
    BY <1>1, <1>3, <1>6
  <2>2. s[i] \in K /\ t[j - Len(s)] \in K
    BY <1>1, <1>3, <1>6
  <2> QED
    BY <1>2, <2>1, <2>2
<1> QED
  BY <1>1, <1>3, <1>4, <1>5, <1>6
\* Items of none but other kinds are added.
LEMMA OnceAside ==
  ASSUME NEW S, NEW s \in Seq(S), NEW t \in Seq(S), NEW K, Once(s, K), \A m \in Items(t) : m \notin K
  PROVE  Once(s \o t, K)
<1>1. Once(t, K)
  BY DEF Once, Items
<1> QED
  BY <1>1, OnceConcat
\* One item is added behind.
LEMMA OnceAppend ==
  ASSUME NEW S, NEW s \in Seq(S), NEW e \in S, NEW K, Once(s, K), e \in K => \A m \in Items(s) : m \notin K
  PROVE  Once(Append(s, e), K)
<1>1. <<e>> \in Seq(S) /\ Append(s, e) = s \o <<e>> /\ Items(<<e>>) = {e} /\ Once(<<e>>, K)
  BY DEF Once, Items
<1> QED
  BY <1>1, OnceConcat
\* The last items are lost.
LEMMA OnceFirst ==
  ASSUME NEW S, NEW s \in Seq(S), NEW K, Once(s, K), NEW k \in 0..Len(s)
  PROVE  Once(SubSeq(s, 1, k), K)
<1>1. Len(s) \in Nat /\ Len(SubSeq(s, 1, k)) = k /\ \A i \in 1..k : SubSeq(s, 1, k)[i] = s[i]
  BY SubSeqProperties
<1> QED
  BY <1>1 DEF Once

------------------------------------------------------------------------------
\* What a step of the child reports: the answer to the command it takes, a binding
\* it publishes, or other things.
Aside == \E t \in Seq(Result) : results' = results \o t /\ \A r \in Items(t) : r.kind \notin {"result", "state"}
Answered == Takes /\ \E ok \in BOOLEAN : Emit(<<Answer(Head(commands).seq, ok)>>)
Emits ==
    \/ Answered
    \/ UNCHANGED commands /\ \E c \in Connections : PublishBinding(c)
    \/ UNCHANGED commands /\ Aside
\* Nothing, or one report of another kind.
LEMMA AsideNone ==
  ASSUME TypeInv, UNCHANGED results
  PROVE  Aside
<1>1. results \in Seq(Result) /\ <<>> \in Seq(Result) /\ results \o <<>> = results
  BY BindingTypes
<1>2. Items(<<>>) = {}
  BY DEF Items
<1> QED
  BY <1>1, <1>2 DEF Aside
\* One report of another kind.
LEMMA AsideOne ==
  ASSUME TypeInv, NEW e \in Result, e.kind \notin {"result", "state"}, Emit(<<e>>)
  PROVE  Aside
<1>1. <<e>> \in Seq(Result) /\ results' = results \o <<e>>
  BY EmitOneTypes
<1>2. Items(<<e>>) = {e}
  BY DEF Items
<1> QED
  BY <1>1, <1>2 DEF Aside
\* The commands of a session that are given up.
LEMMA AsideTerminals ==
  ASSUME TypeInv, NEW c \in Connections, Emit(Terminals(c))
  PROVE  Aside
<1>1. Terminals(c) \in Seq(Result) /\ results' = results \o Terminals(c)
  BY TerminalsTypes, EmitTypes
<1>2. ASSUME NEW e \in Items(Terminals(c))
      PROVE  e.kind = "terminal"
  <2>1. DOMAIN Terminals(c) = DOMAIN admitted[c]
    BY DEF Terminals
  <2>2. PICK i \in DOMAIN admitted[c] : e = Terminals(c)[i]
    BY <2>1 DEF Items
  <2>3. e = [kind |-> "terminal", c |-> c, q |-> admitted[c][i].q, n |-> admitted[c][i].seq]
    BY <2>2, TerminalsTypes
  <2> QED
    BY <2>3
<1> QED
  BY <1>1, <1>2 DEF Aside
\* The first command that has ended.
LEMMA AsideFirst ==
  ASSUME TypeInv, NEW c \in Connections, admitted[c] # <<>>, FinishFirst(c)
  PROVE  Aside
<1> DEFINE e == [kind |-> "terminal", c |-> c, q |-> Head(admitted[c]).q, n |-> Head(admitted[c]).seq]
<1>1. Emit(<<e>>)
  BY FinishFirstTypes DEF Emit
<1>2. Head(admitted[c]) \in Admission
  BY DEF TypeInv, ChildType
<1>3. e \in Result /\ e.kind = "terminal"
  BY <1>2 DEF Admission, Result
<1> HIDE DEF e
<1> QED
  BY <1>1, <1>3, AsideOne
\* The end of a send.
LEMMA AsideSendOver ==
  ASSUME TypeInv, NEW c \in Connections, NEW sent \in BOOLEAN, SendOver(c, sent)
  PROVE  Aside
<1>1. CASE sending[c].kind = "message" /\ MessageSent(c)
  <2>1. Emit(<<Processed(c, chan[c].current, TRUE)>>)
    BY <1>1 DEF MessageSent
  <2>2. Processed(c, chan[c].current, TRUE) \in Result /\ Processed(c, chan[c].current, TRUE).kind = "processed"
    BY BindingTypes DEF Processed, Result
  <2> QED
    BY <2>1, <2>2, AsideOne
<1>2. CASE MessageLost(c) \/ RevokedOver(c, sent)
  BY <1>2, AsideNone DEF MessageLost, RevokedOver
<1>3. CASE sending[c].kind = "completion" /\ FinishFirst(c)
  BY <1>3, AsideFirst DEF TypeInv, CompletionHeld
<1>4. CASE CompletionLost(c)
  BY <1>4, AsideTerminals DEF CompletionLost
<1> QED
  BY <1>1, <1>2, <1>3, <1>4 DEF SendOver
\* A received command is answered.
LEMMA ReceiveAnswered ==
  ASSUME TypeInv, childAlive, ReceiveRefused \/ ReceiveConnect \/ ReceiveEnvelope \/ ReceiveEnqueue
  PROVE  Answered
<1> DEFINE m == Head(commands)
<1>1. Takes
  BY DEF ReceiveRefused, ReceiveConnect, ReceiveEnvelope, ReceiveEnqueue, Receiving, Takes
<1>2. CASE ReceiveRefused
  <2>1. Emit(<<Answer(m.seq, FALSE)>>)
    BY <1>2, Zenon DEF ReceiveRefused
  <2> QED
    BY <1>1, <2>1 DEF Answered
<1>3. CASE ReceiveConnect
  <2> DEFINE full == Exists(m.c) \/ Cardinality({c \in Connections : Exists(c)}) >= Capacity
  <2>1. Emit(<<Answer(m.seq, ~full)>>)
    BY <1>3 DEF ReceiveConnect
  <2>2. (~full) \in BOOLEAN
    OBVIOUS
  <2> HIDE DEF full
  <2> QED
    BY <1>1, <2>1, <2>2 DEF Answered
<1>4. CASE ReceiveEnvelope
  <2>1. Emit(<<Answer(m.seq, Exists(m.c))>>) /\ Exists(m.c) \in BOOLEAN
    BY <1>4, Zenon DEF ReceiveEnvelope, Exists
  <2> QED
    BY <1>1, <2>1, Zenon DEF Answered
<1>5. CASE ReceiveEnqueue
  BY <1>1, <1>5, ReceiveEnqueueTypes DEF Answered
<1> QED
  BY <1>2, <1>3, <1>4, <1>5
\* The steps of a session and of the channels report aside.
LEMMA AsideSession ==
  ASSUME TypeInv, NEW c \in Connections,
         \/ TakeEnvelope(c) \/ Withhold(c) \/ PutNotification(c) \/ CloseSession(c)
         \/ PumpStopped(c) \/ FinishConnection(c)
  PROVE  Aside
<1>1. CASE TakeEnvelope(c)
  <2>1. UNCHANGED results \/ Emit(<<Processed(c, Head(chan[c].inbox), TRUE)>>)
    BY <1>1, Zenon DEF TakeEnvelope
  <2>2. Processed(c, Head(chan[c].inbox), TRUE) \in Result /\ Processed(c, Head(chan[c].inbox), TRUE).kind = "processed"
    <3>1. chan[c].inbox # <<>> /\ chan[c].inbox \in Seq(Nat)
      BY <1>1, BindingTypes, Zenon DEF TakeEnvelope
    <3>2. Head(chan[c].inbox) \in Nat
      BY <3>1
    <3> QED
      BY <3>2 DEF Processed, Result
  <2> QED
    BY <2>1, <2>2, AsideOne, AsideNone
<1>2. CASE Withhold(c)
  BY <1>2, AsideFirst DEF Withhold, FirstDone
<1>3. CASE PutNotification(c)
  BY <1>3, PutNotificationTypes, AsideSendOver, AsideNone
<1>4. CASE CloseSession(c)
  <2>1. Emit(<<Report("close", c, 0)>>) /\ Report("close", c, 0) \in Result /\ Report("close", c, 0).kind = "close"
    BY <1>4 DEF CloseSession, Report, Result
  <2> QED
    BY <2>1, AsideOne
<1>5. CASE PumpStopped(c)
  BY <1>5, AsideTerminals DEF PumpStopped
<1>6. CASE FinishConnection(c)
  <2> DEFINE t == Failures(c) \o <<Report("disconnected", c, 0)>>
  <2>1. /\ Failures(c) \in Seq(Result) /\ \A r \in Items(Failures(c)) : r.kind = "processed"
        /\ results' = results \o t
    BY <1>6, FinishConnectionTypes
  <2>2. Report("disconnected", c, 0) \in Result /\ Report("disconnected", c, 0).kind = "disconnected"
    BY DEF Report, Result
  <2>3. <<Report("disconnected", c, 0)>> \in Seq(Result) /\ Items(<<Report("disconnected", c, 0)>>) = {Report("disconnected", c, 0)}
    BY <2>2 DEF Items
  <2>4. Items(t) = Items(Failures(c)) \cup Items(<<Report("disconnected", c, 0)>>)
    <3>1. \A u \in Seq(Result) : Items(Failures(c) \o u) = Items(Failures(c)) \cup Items(u)
      BY <2>1, ItemsOf
    <3> QED
      BY <2>3, <3>1
  <2>5. t \in Seq(Result)
    BY <2>1, <2>3
  <2> QED
    BY <2>1, <2>2, <2>3, <2>4, <2>5 DEF Aside
<1> QED
  BY <1>1, <1>2, <1>3, <1>4, <1>5, <1>6
\* The controls' reports.
LEMMA AsideControl ==
  ASSUME TypeInv, ControlReceipt \/ ControlDisconnect \/ ControlShutdown
  PROVE  Aside
<1>1. CASE ControlReceipt
  <2>1. UNCHANGED results \/ \E c \in Connections, sent \in BOOLEAN : SendOver(c, sent)
    <3>1. Rcpt.id \in Ids /\ Rcpt.sent \in BOOLEAN
      BY <1>1, ControlReceiptTypes
    <3>2. Rcpt.id[1] \in Connections
      BY <3>1 DEF Ids
    <3>3. UNCHANGED results \/ SendOver(Rcpt.id[1], Rcpt.sent)
      BY <1>1, Zenon DEF ControlReceipt, ReceiptOfState, Rcpt, sessionVars
    <3> QED
      BY <3>1, <3>2, <3>3
  <2> QED
    BY <2>1, AsideNone, AsideSendOver
<1>2. CASE ControlDisconnect
  <2>1. Head(controls).c \in Connections
    BY <1>2, ControlDisconnectTypes
  <2>2. UNCHANGED results \/ Emit(<<Report("disconnected", Head(controls).c, 0)>>)
    BY <1>2, Zenon DEF ControlDisconnect
  <2>3. Report("disconnected", Head(controls).c, 0) \in Result /\ Report("disconnected", Head(controls).c, 0).kind = "disconnected"
    BY <2>1 DEF Report, Result
  <2> QED
    BY <2>2, <2>3, AsideOne, AsideNone
<1>3. CASE ControlShutdown
  BY <1>3, AsideNone DEF ControlShutdown
<1> QED
  BY <1>1, <1>2, <1>3
\* Every step of the child reports so.
LEMMA ChildEmits ==
  ASSUME TypeInv, Child
  PROVE  Emits
<1>1. ChildStep /\ childAlive
  BY DEF Child, ChildStep
<1>2. CASE ReceiveRefused \/ ReceiveConnect \/ ReceiveEnvelope \/ ReceiveEnqueue
  BY <1>1, <1>2, ReceiveAnswered DEF Emits
<1>3. CASE ControlReceipt \/ ControlDisconnect \/ ControlShutdown
  <2>1. UNCHANGED commands
    BY <1>3 DEF ControlReceipt, ControlDisconnect, ControlShutdown
  <2> QED
    BY <1>3, <2>1, AsideControl DEF Emits
<1>4. CASE OwnerRun \/ StopOwner
  BY <1>4, AsideNone DEF OwnerRun, StopOwner, queues, Emits
<1>5. CASE Stopped
  <2>1. Emit(<<[kind |-> "stopped"]>>) /\ UNCHANGED commands
    BY <1>5 DEF Stopped
  <2>2. [kind |-> "stopped"] \in Result
    BY DEF Result
  <2> QED
    BY <2>1, <2>2, AsideOne DEF Emits
<1>6. ASSUME NEW c \in Connections,
             \/ TakeEnvelope(c) \/ Withhold(c) \/ PutNotification(c) \/ CloseSession(c)
             \/ PumpStopped(c) \/ FinishConnection(c)
      PROVE  Emits
  <2>1. UNCHANGED commands
    BY <1>6 DEF TakeEnvelope, Withhold, PutNotification, CloseSession, PumpStopped, FinishConnection
  <2> QED
    BY <1>6, <2>1, AsideSession DEF Emits
<1>7. ASSUME NEW c \in Connections, CallOwner(c) \/ AfterSync(c) \/ StartSend(c) \/ EndSession(c) \/ DrainSession(c)
      PROVE  Emits
  BY <1>7, AsideNone DEF CallOwner, AfterSync, StartSend, EndSession, DrainSession, queues, Emits
<1>8. ASSUME NEW c \in Connections, PublishBinding(c)
      PROVE  Emits
  BY <1>8 DEF PublishBinding, Emits
<1> QED
  BY <1>1, <1>2, <1>3, <1>4, <1>5, <1>6, <1>7, <1>8, Zenon DEF ChildStep

------------------------------------------------------------------------------
\* A command that is queued, or whose answer is on its way, is still awaited, and
\* has one answer.
Expected(n) == \E p \in pending : p.seq = n
Answers(n) == {r \in Result : r.kind = "result" /\ r.n = n}
AnswersAwaited ==
    failure = "none" =>
        /\ \A m \in Items(commands) : Expected(m.seq)
        /\ \A r \in Items(results) : r.kind = "result" =>
              Expected(r.n) /\ \A m \in Items(commands) : m.seq # r.n
        /\ \A n \in Nat : Once(results, Answers(n))
\* What a step of the parent does to the futures.
ParentAnswers ==
    failure' = "none" =>
        /\ \A p \in pending : p \in pending' \/ (/\ TakesReport /\ Head(results).kind = "result"
                                                 /\ p.seq = Head(results).n)
        /\ UNCHANGED commands \/ \E m : Queues(m) /\ \E p \in pending' : p.seq = m.seq
\* A worker queues a command with its future.
LEMMA WorkerAnswers ==
  ASSUME TypeInv, NEW c \in Connections, Connect(c) \/ SendEnvelope(c) \/ Enqueue(c)
  PROVE  ParentAnswers
<1>1. CASE UNCHANGED <<commands, pending>>
  BY <1>1 DEF ParentAnswers
<1>2. ASSUME NEW op, NEW q, NEW rev \in Nat,
             \/ op = "enqueue" /\ q \in RequestIds
             \/ op \in {"connect", "envelope"} /\ q = "none",
             Submit(op, c, q, rev)
      PROVE  ParentAnswers
  <2>1. Queues(NewCommand(op, c, q, rev))
    BY <1>2, SubmitQueues
  <2>2. pending' = pending \cup {[seq |-> sequence + 1, op |-> op, c |-> c]}
    BY <1>2 DEF Submit
  <2>3. \E p \in pending' : p.seq = NewCommand(op, c, q, rev).seq
    <3> DEFINE p == [seq |-> sequence + 1, op |-> op, c |-> c]
    <3>1. p \in pending' /\ p.seq = sequence + 1
      BY <2>2
    <3>2. NewCommand(op, c, q, rev).seq = sequence + 1
      BY <2>1 DEF Queues
    <3> QED
      BY <3>1, <3>2
  <2> QED
    BY <2>1, <2>2, <2>3 DEF ParentAnswers
<1>3. CASE Connect(c)
  <2>1. Submit("connect", c, "none", 0) \/ UNCHANGED <<commands, pending>>
    BY <1>3, Zenon DEF Connect
  <2> QED
    BY <1>1, <1>2, <2>1
<1>4. CASE SendEnvelope(c)
  <2>1. Submit("envelope", c, "none", 0) \/ UNCHANGED <<commands, pending>>
    BY <1>4, Zenon DEF SendEnvelope
  <2> QED
    BY <1>1, <1>2, <2>1
<1>5. CASE Enqueue(c)
  <2>1. Submit("enqueue", c, worker[c].q, conn[c].rev) \/ UNCHANGED <<commands, pending>>
    BY <1>5, Zenon DEF Enqueue
  <2>2. worker[c].q \in RequestIds /\ conn[c].rev \in Nat
    BY <1>5 DEF Enqueue, TypeInv, ParentType, WorkerType, ConnType
  <2> QED
    BY <1>1, <1>2, <2>1, <2>2
<1> QED
  BY <1>3, <1>4, <1>5
\* Every step of the parent answers so.
LEMMA ParentAnswersCalls ==
  ASSUME TypeInv, FromParent
  PROVE  ParentAnswers
<1>1. ASSUME UNCHANGED commands, pending \subseteq pending'
      PROVE  ParentAnswers
  BY <1>1 DEF ParentAnswers
<1>2. ASSUME NEW reason \in {"protocol", "exited", "stopped"}, Fail(reason)
      PROVE  ParentAnswers
  BY <1>2 DEF Fail, ParentAnswers
<1>3. ASSUME NEW c \in Connections, Connect(c) \/ SendEnvelope(c) \/ Enqueue(c)
      PROVE  ParentAnswers
  BY <1>3, WorkerAnswers
<1>4. ASSUME NEW c \in Connections, Admitted(c) \/ EndWorker(c) \/ DisconnectStart(c) \/ DisconnectEnd(c)
      PROVE  ParentAnswers
  BY <1>1, <1>4 DEF Admitted, EndWorker, AfterCancel, DisconnectStart, DisconnectEnd, queues
<1>5. ASSUME NEW s \in sends, BeginWrite(s) \/ Write(s) \/ FinishDelivery(s)
      PROVE  ParentAnswers
  BY <1>1, <1>5 DEF BeginWrite, Write, FinishDelivery, queues
<1>6. ASSUME ReadTerminal \/ ReadProcessed \/ ReadSocketClose \/ ReadDisconnected
      PROVE  ParentAnswers
  BY <1>1, <1>6 DEF ReadTerminal, ReadProcessed, ReadSocketClose, ReadDisconnected, tableVars
<1>7. CASE ReadNotification \/ ReadState \/ ChildEnded
  <2>1. UNCHANGED commands
    BY <1>7 DEF ReadNotification, ReadState, ChildEnded, queues
  <2>2. pending' = pending \/ Fail("protocol") \/ Fail("stopped") \/ Fail("exited")
    BY <1>7, Zenon DEF Reject, ReadNotification, ReadState, ChildEnded
  <2> QED
    BY <1>1, <1>2, <2>1, <2>2
<1>8. CASE ReadAnswer
  <2>1. Fail("protocol") \/ \E a \in {e \in pending : e.seq = Head(results).n} : pending' = pending \ {a}
    BY <1>8, Zenon DEF Reject, ReadAnswer
  <2>2. UNCHANGED commands /\ TakesReport /\ Head(results).kind = "result"
    BY <1>8, Zenon DEF ReadAnswer, Reading, TakesReport
  <2>3. ASSUME NEW a \in {e \in pending : e.seq = Head(results).n}, pending' = pending \ {a}
        PROVE  ParentAnswers
    BY <2>2, <2>3 DEF ParentAnswers
  <2> QED
    BY <1>2, <2>1, <2>3
<1>9. ASSUME NEW c \in Connections, NEW q \in RequestIds, TakeRequest(c, q)
      PROVE  ParentAnswers
  BY <1>1, <1>9 DEF TakeRequest, tableVars, queues
<1>10. CASE EndClose
  BY <1>10 DEF EndClose, Fail, ParentAnswers
<1> HIDE DEF ParentAnswers
<1> QED
  BY <1>3, <1>10, <1>4, <1>5, <1>6, <1>7, <1>8, <1>9, Zenon DEF FromParent, Parent, ParentStep, ClientSends
\* The parent's steps keep it: an answer that is read was the only one.
LEMMA ParentAwaits ==
  ASSUME TypeInv, OrphanInv, AnswersAwaited, FromParent
  PROVE  AnswersAwaited'
<1>0. SUFFICES ASSUME failure' = "none"
               PROVE  /\ \A m \in Items(commands)' : Expected(m.seq)'
                      /\ \A r \in Items(results)' : r.kind = "result" =>
                            Expected(r.n)' /\ \A m \in Items(commands)' : m.seq # r.n
                      /\ \A n \in Nat : Once(results', Answers(n))
  BY DEF AnswersAwaited, Items
<1>1. failure = "none"
  BY <1>0, ParentFailure DEF FailureStays
<1>2. /\ \A p \in pending : p \in pending' \/ (/\ TakesReport /\ Head(results).kind = "result"
                                                 /\ p.seq = Head(results).n)
      /\ UNCHANGED commands \/ \E m : Queues(m) /\ \E p \in pending' : p.seq = m.seq
  BY <1>0, ParentAnswersCalls DEF ParentAnswers
<1>3. /\ \A m \in Items(commands) : Expected(m.seq)
      /\ \A r \in Items(results) : r.kind = "result" =>
            Expected(r.n) /\ \A m \in Items(commands) : m.seq # r.n
      /\ \A n \in Nat : Once(results, Answers(n))
  BY <1>1 DEF AnswersAwaited
<1>4. results \in Seq(Result) /\ commands \in Seq(Command)
  BY BindingTypes
<1>5. UNCHANGED results \/ TakesReport
  BY ParentReads
<1>6. /\ Items(results)' \subseteq Items(results)
      /\ TakesReport => Head(results) \in Items(results) /\ Head(results) \in Result
  BY <1>4, ParentResults, ItemsOf DEF TakesReport
<1>7. \A r \in Items(results) : r.kind = "result" => r.n \in Nat /\ r.n <= sequence /\ r \in Result
  <2>1. Items(results) \subseteq Result
    BY <1>4, ItemsOf
  <2> QED
    BY <2>1 DEF OrphanInv, ReportsTrue, Result
<1>8. \A n \in Nat : Once(results', Answers(n))
  BY <1>3, <1>4, <1>5, OnceTail DEF TakesReport
<1>9. ASSUME NEW r \in Items(results)', r.kind = "result", TakesReport, Head(results).kind = "result"
      PROVE  r.n # Head(results).n
  <2>1. r \in Items(Tail(results)) /\ results # <<>>
    BY <1>9 DEF TakesReport, Items
  <2>2. r \in Items(results) /\ r \in Answers(r.n) /\ r.n \in Nat
    BY <1>6, <1>7, <1>9 DEF Answers
  <2>3. Once(results, Answers(r.n))
    BY <1>3, <2>2
  <2>4. Head(results) \notin Answers(r.n)
    BY <1>4, <2>1, <2>2, <2>3, OnceTail
  <2> QED
    BY <1>6, <1>9, <2>4 DEF Answers
<1>10. ASSUME NEW r \in Items(results)', r.kind = "result"
       PROVE  Expected(r.n)'
  <2>1. PICK p \in pending : p.seq = r.n
    BY <1>3, <1>6, <1>10 DEF Expected
  <2> QED
    BY <1>2, <1>9, <1>10, <2>1 DEF Expected
<1>11. ASSUME NEW m \in Items(commands), TakesReport, Head(results).kind = "result"
       PROVE  m.seq # Head(results).n
  BY <1>3, <1>6, <1>11
<1>12. \A m \in Items(commands) : Expected(m.seq)'
  <2>1. SUFFICES ASSUME NEW m \in Items(commands) PROVE Expected(m.seq)'
    OBVIOUS
  <2>2. PICK p \in pending : p.seq = m.seq
    BY <1>3 DEF Expected
  <2> QED
    BY <1>2, <1>11, <2>2 DEF Expected
<1>13. CASE UNCHANGED commands
  <2>1. Items(commands)' = Items(commands)
    BY <1>13 DEF Items
  <2> QED
    BY <1>3, <1>6, <1>8, <1>10, <1>12, <2>1
<1>14. ASSUME NEW m, Queues(m), \E p \in pending' : p.seq = m.seq
       PROVE  /\ \A e \in Items(commands)' : Expected(e.seq)'
              /\ \A r \in Items(results)' : r.kind = "result" => \A e \in Items(commands)' : e.seq # r.n
  <2>1. Items(commands)' = Items(commands) \cup {m} /\ m.seq = sequence + 1
    <3>1. commands' = Append(commands, m) /\ m \in Command /\ m.seq = sequence + 1
      BY <1>14 DEF Queues
    <3>2. Items(Append(commands, m)) = Items(commands) \cup {m}
      BY <1>4, <3>1, ItemsOf
    <3> QED
      BY <3>1, <3>2 DEF Items
  <2>2. Expected(m.seq)'
    BY <1>14 DEF Expected
  <2>3. \A r \in Items(results)' : r.kind = "result" => m.seq # r.n
    BY <1>6, <1>7, <2>1, BindingTypes
  <2> QED
    BY <1>3, <1>6, <1>12, <2>1, <2>2, <2>3
<1> QED
  BY <1>2, <1>8, <1>10, <1>13, <1>14
\* The child's steps keep it: the command that is answered leaves the queue.
LEMMA ChildAwaits ==
  ASSUME TypeInv, CommandsOrdered, OrphanInv, AnswersAwaited, Child
  PROVE  AnswersAwaited'
<1>0. UNCHANGED <<failure, pending, sequence>>
  BY DEF Child, parentVars, tableVars
<1>1. SUFFICES ASSUME failure = "none"
               PROVE  /\ \A m \in Items(commands)' : Expected(m.seq)
                      /\ \A r \in Items(results)' : r.kind = "result" =>
                            Expected(r.n) /\ \A m \in Items(commands)' : m.seq # r.n
                      /\ \A n \in Nat : Once(results', Answers(n))
  BY <1>0 DEF AnswersAwaited, Items, Expected
<1>2. /\ \A m \in Items(commands) : Expected(m.seq)
      /\ \A r \in Items(results) : r.kind = "result" =>
            Expected(r.n) /\ \A m \in Items(commands) : m.seq # r.n
      /\ \A n \in Nat : Once(results, Answers(n))
  BY <1>1 DEF AnswersAwaited
<1>3. results \in Seq(Result) /\ commands \in Seq(Command)
  BY BindingTypes
<1>4. Items(commands)' \subseteq Items(commands)
  BY ChildCommands
<1>5. ASSUME NEW t \in Seq(Result), results' = results \o t, \A r \in Items(t) : r.kind # "result"
      PROVE  /\ \A r \in Items(results)' : r.kind = "result" => r \in Items(results)
             /\ \A n \in Nat : Once(results', Answers(n))
  <2>1. Items(results)' = Items(results) \cup Items(t)
    <3>1. Items(results \o t) = Items(results) \cup Items(t)
      BY <1>3, ItemsOf
    <3> QED
      BY <1>5, <3>1 DEF Items
  <2>2. ASSUME NEW n \in Nat PROVE Once(results', Answers(n))
    <3>1. \A r \in Items(t) : r \notin Answers(n)
      BY <1>5 DEF Answers
    <3> QED
      BY <1>2, <1>3, <1>5, <3>1, OnceAside
  <2> QED
    BY <1>5, <2>1, <2>2
<1>6. CASE Aside
  <2>1. PICK t \in Seq(Result) : results' = results \o t /\ \A r \in Items(t) : r.kind \notin {"result", "state"}
    BY <1>6 DEF Aside
  <2> QED
    BY <1>2, <1>4, <1>5, <2>1
<1>7. ASSUME NEW c \in Connections, PublishBinding(c)
      PROVE  \E t \in Seq(Result) : results' = results \o t /\ \A r \in Items(t) : r.kind # "result"
  <2> DEFINE s == Head(syncs[c])
             r == [kind |-> "state", c |-> c, n |-> s.n, bound |-> s.bound, revoked |-> s.revoked]
  <2>1. s \in Sync
    BY <1>7, PublishBindingTypes
  <2>2. r \in Result /\ r.kind = "state"
    BY <2>1 DEF Sync, Result
  <2>3. Emit(<<r>>)
    BY <1>7 DEF PublishBinding
  <2> HIDE DEF r
  <2>4. results' = results \o <<r>> /\ <<r>> \in Seq(Result)
    BY <2>2, <2>3, EmitOneTypes
  <2>5. Items(<<r>>) = {r}
    BY DEF Items
  <2> QED
    BY <2>2, <2>4, <2>5
<1>8. ASSUME NEW c \in Connections, PublishBinding(c)
      PROVE  /\ \A r \in Items(results)' : r.kind = "result" => r \in Items(results)
             /\ \A n \in Nat : Once(results', Answers(n))
  BY <1>5, <1>7, <1>8
<1>9. CASE Answered
  <2> DEFINE m == Head(commands)
  <2>1. PICK ok \in BOOLEAN : Emit(<<Answer(m.seq, ok)>>)
    BY <1>9 DEF Answered
  <2>2. Takes
    BY <1>9 DEF Answered
  <2>3. m \in Items(commands) /\ m.seq \in Nat
    <3>1. commands # <<>> /\ commands' = Tail(commands)
      BY <2>2 DEF Takes
    <3> QED
      BY <1>3, <3>1, ItemsOf, TakenTypes
  <2>4. \A e \in Items(commands)' : e.seq # m.seq
    <3>1. CommandsOrdered'
      BY <1>0, <2>2, TakesOrdered
    <3>2. last' = m.seq /\ childAlive'
      BY <2>2 DEF Takes
    <3>3. \A e \in Items(commands)' : last' < e.seq
      BY <3>1, <3>2 DEF CommandsOrdered, Items
    <3>4. \A e \in Items(commands)' : e.seq \in Nat
      BY <1>4, BindingTypes
    <3> QED
      BY <2>3, <3>2, <3>3, <3>4
  <2> DEFINE r == Answer(m.seq, ok)
  <2>5. r \in Result /\ r.kind = "result" /\ r.n = m.seq
    BY <2>3, AnswerType DEF Answer
  <2>6. results' = results \o <<r>> /\ <<r>> \in Seq(Result)
    BY <2>1, <2>5, EmitOneTypes
  <2> HIDE DEF r
  <2>7. results' = Append(results, r)
    BY <1>3, <2>6
  <2>8. Items(results)' = Items(results) \cup {r}
    <3>1. Items(Append(results, r)) = Items(results) \cup {r}
      BY <1>3, <2>5, ItemsOf
    <3> QED
      BY <2>7, <3>1 DEF Items
  <2>9. ASSUME NEW n \in Nat PROVE Once(results', Answers(n))
    <3>1. r \in Answers(n) => \A e \in Items(results) : e \notin Answers(n)
      BY <1>2, <2>3, <2>5 DEF Answers
    <3> QED
      BY <1>2, <1>3, <2>5, <2>7, <3>1, OnceAppend
  <2> QED
    BY <1>2, <1>4, <2>3, <2>4, <2>5, <2>8, <2>9
<1>10. Answered \/ Aside \/ \E c \in Connections : PublishBinding(c)
  BY ChildEmits DEF Emits
<1> QED
  BY <1>2, <1>4, <1>6, <1>8, <1>9, <1>10
\* Every step keeps it.
LEMMA AwaitsStep ==
  ASSUME TypeInv, CommandsOrdered, OrphanInv, AnswersAwaited, [Next]_vars
  PROVE  AnswersAwaited'
<1>1. CASE CloseTimeout /\ ChildLost
  BY <1>1 DEF CloseTimeout, Fail, AnswersAwaited
<1>2. ASSUME UNCHANGED <<failure, pending, commands>>, NEW k \in 0..Len(results), results' = SubSeq(results, 1, k)
      PROVE  AnswersAwaited'
  <2>1. results \in Seq(Result)
    BY BindingTypes
  <2>2. Items(results)' \subseteq Items(results)
    BY <1>2, <2>1, ItemsOf DEF Items
  <2>3. \A n \in Nat : Once(results, Answers(n)) => Once(results', Answers(n))
    BY <1>2, <2>1, OnceFirst
  <2> QED
    BY <1>2, <2>2, <2>3 DEF AnswersAwaited, Expected, Items
<1>3. ASSUME UNCHANGED <<failure, pending, commands, results>>
      PROVE  AnswersAwaited'
  BY <1>3 DEF AnswersAwaited, Expected, Items
<1>4. CASE ChildDies /\ UNCHANGED parentVars
  <2>1. UNCHANGED <<failure, pending, commands>> /\ \E k \in 0..Len(results) : results' = SubSeq(results, 1, k)
    BY <1>4 DEF ChildDies, parentVars, tableVars
  <2> QED
    BY <1>2, <2>1
<1>5. CASE childAlive /\ (\E c \in Connections : Revoke(c)) /\ UNCHANGED parentVars
  BY <1>3, <1>5 DEF Revoke, parentVars, tableVars, queues
<1>6. CASE (\E c \in Connections : ClientLost(c)) \/ StartClose \/ UNCHANGED vars
  BY <1>3, <1>6 DEF ClientLost, StartClose, vars, parentVars, tableVars, queues
<1> QED
  BY <1>1, <1>4, <1>5, <1>6, ParentAwaits, ChildAwaits, StepCases

------------------------------------------------------------------------------
\* What a step of the child does to the publications of a session: nothing, the
\* last ones are dropped, one more waits, the first goes out or is acknowledged.
SyncStill(d) ==
    /\ syncs'[d] = syncs[d] /\ chan'[d].synced = chan[d].synced /\ chan'[d].rev = chan[d].rev
    /\ (chan'[d].syncLost <=> chan[d].syncLost) /\ (chan'[d].revoked <=> chan[d].revoked)
SyncCut(d) ==
    /\ chan'[d].synced = chan[d].synced /\ chan'[d].rev = chan[d].rev /\ (chan'[d].revoked <=> chan[d].revoked)
    /\ \E k \in 0..Len(syncs[d]) :
          /\ syncs'[d] = SubSeq(syncs[d], 1, k)
          /\ chan'[d].syncLost <=> (chan[d].syncLost \/ k < Len(syncs[d]))
SyncGrow(d) ==
    /\ chan'[d].synced = chan[d].synced /\ chan'[d].rev = chan[d].rev + 1
    /\ (chan'[d].syncLost <=> chan[d].syncLost) /\ (chan[d].revoked => chan'[d].revoked)
    /\ chan[d].syncLost => syncs'[d] = syncs[d]
    /\ ~chan[d].syncLost =>
          \E s \in Sync : /\ s.n = chan[d].rev + 1 /\ ~s.out /\ (s.revoked <=> chan'[d].revoked)
                          /\ syncs'[d] = Append(syncs[d], s)
Settled(d) ==
    /\ Control("receipt") /\ Rcpt.id[1] = d /\ Rcpt.id[2] = "state" /\ Rcpt.id[3] \in Nat /\ Rcpt.sent \in BOOLEAN
    /\ PublicationAcked(d, Rcpt.id[3]) /\ ReceiptOfState(d, Rcpt.id[3], Rcpt.sent)
SyncMoves(d) == SyncStill(d) \/ SyncCut(d) \/ SyncGrow(d) \/ PublishBinding(d) \/ Settled(d)
\* A step that leaves the publications and the revision alone.
LEMMA StillSyncs ==
  ASSUME NEW d \in Connections, SameRevision(d), SameSynced(d), syncs'[d] = syncs[d]
  PROVE  SyncStill(d)
BY DEF SyncStill, SameRevision, SameSynced
\* A publication that is cancelled takes those behind it along.
LEMMA CutSyncs ==
  ASSUME TypeInv, NEW c \in Connections, NEW n \in Nat, syncs' = [syncs EXCEPT ![c] = Before(c, n)],
         NEW d \in Connections, SameRevision(d), chan'[d].synced = chan[d].synced,
         chan'[d].syncLost <=> (chan[d].syncLost \/ (d = c /\ Before(c, n) # syncs[c]))
  PROVE  SyncStill(d) \/ SyncCut(d)
<1>0. syncs \in [Connections -> Seq(Sync)]
  BY DEF TypeInv, ChildType
<1>1. CASE d # c
  BY <1>0, <1>1 DEF SyncStill, SameRevision
<1>2. CASE d = c
  <2>1. PICK k \in 0..Len(syncs[c]) : Before(c, n) = SubSeq(syncs[c], 1, k)
    BY <1>0, BeforeIsPrefix
  <2>2. syncs[c] \in Seq(Sync) /\ Len(syncs[c]) \in Nat /\ k \in Nat /\ k <= Len(syncs[c])
    BY <1>0, <2>1
  <2>3. Before(c, n) # syncs[c] <=> k < Len(syncs[c])
    <3>1. CASE k = Len(syncs[c])
      BY <2>1, <2>2, <3>1
    <3>2. CASE k < Len(syncs[c])
      <4>1. Len(SubSeq(syncs[c], 1, k)) = k
        BY <2>2
      <4> QED
        BY <2>1, <3>2, <4>1
    <3> QED
      BY <2>2, <3>1, <3>2
  <2>4. syncs'[d] = SubSeq(syncs[d], 1, k)
    BY <1>0, <1>2, <2>1
  <2> QED
    BY <1>2, <2>1, <2>3, <2>4 DEF SyncCut, SameRevision
<1> QED
  BY <1>1, <1>2
\* Cancelling a session.
LEMMA CancelSyncs ==
  ASSUME TypeInv, NEW c \in Connections, Cancel(c), NEW d \in Connections
  PROVE  SyncStill(d) \/ SyncCut(d)
<1> DEFINE ch == [chan[c] EXCEPT !.disconnecting = TRUE]
<1>0. chan[c].awaits \in Nat /\ chan[c].rev \in Nat /\ syncs[c] \in Seq(Sync)
  BY BindingTypes
<1>1. CASE CancelLoop(c, ch)
  BY <1>1, CancelLoopChan, StillSyncs DEF CancelLoop
<1>2. CASE CancelSync(c, ch)
  <2>1. syncs' = [syncs EXCEPT ![c] = Before(c, chan[c].awaits)]
    BY <1>2, Zenon DEF CancelSync, CancelPublication
  <2> QED
    BY <1>0, <1>2, <2>1, CancelSyncChan, CutSyncs
<1>3. CASE CancelUnbind(c, ch) \/ CancelPumpWait(c, ch)
  <2>1. UNCHANGED syncs
    BY <1>3, Zenon DEF CancelUnbind, CancelPumpWait
  <2> QED
    BY <1>3, <2>1, CancelUnbindChan, CancelPumpWaitChan, StillSyncs
<1>4. CASE CancelWaiting(c, ch)
  <2>1. PICK n \in (IF CloseSync(c) = {} THEN {chan[c].rev + 1} ELSE CloseSync(c)) :
             CancelPublication(c, n, [ch EXCEPT !.at = "finalizing"])
    BY <1>4, Zenon DEF CancelWaiting
  <2>2. n \in Nat
    <3>1. CloseSync(c) \subseteq Nat
      <4>1. \A i \in DOMAIN syncs[c] : syncs[c][i] \in Sync
        BY <1>0
      <4>2. \A i \in DOMAIN syncs[c] : syncs[c][i].n \in Nat
        BY <4>1 DEF Sync
      <4> QED
        BY <4>2 DEF CloseSync
    <3> QED
      BY <1>0, <2>1, <3>1
  <2>3. syncs' = [syncs EXCEPT ![c] = Before(c, n)]
    BY <2>1, Zenon DEF CancelPublication
  <2>4. /\ SameRevision(d) /\ chan'[d].synced = chan[d].synced
        /\ chan'[d].syncLost <=> (chan[d].syncLost \/ (d = c /\ Before(c, n) # syncs[c]))
    BY <2>1, CancelPublicationChan
  <2> QED
    BY <2>2, <2>3, <2>4, CutSyncs
<1> HIDE DEF ch
<1> QED
  BY <1>1, <1>2, <1>3, <1>4, Zenon DEF Cancel, ch
\* A new revision is published after the ones before.
LEMMA GrowSyncs ==
  ASSUME TypeInv, NEW c \in Connections, NEW ch, NEW close \in BOOLEAN, NEW d \in Connections,
         syncs' = [syncs EXCEPT ![c] = Synced(c, ch, close)],
         ch.rev = chan[c].rev + 1, ch.bound \in BOOLEAN, ch.revoked \in BOOLEAN,
         ch.syncLost <=> chan[c].syncLost, SameSynced(d),
         chan'[d].rev = IF d = c THEN chan[d].rev + 1 ELSE chan[d].rev,
         IF d = c THEN chan'[d].revoked <=> ch.revoked ELSE chan'[d].revoked <=> chan[d].revoked,
         chan[c].revoked => ch.revoked
  PROVE  SyncStill(d) \/ SyncGrow(d)
<1> DEFINE s == [n |-> ch.rev, bound |-> ch.bound, revoked |-> ch.revoked, close |-> close, out |-> FALSE]
<1>0. syncs \in [Connections -> Seq(Sync)] /\ chan[c].rev \in Nat
  BY BindingTypes DEF TypeInv, ChildType
<1>1. s \in Sync /\ s.n = ch.rev /\ ~s.out /\ s.revoked = ch.revoked
  BY <1>0 DEF Sync
<1>2. Synced(c, ch, close) = IF ch.syncLost THEN syncs[c] ELSE Append(syncs[c], s)
  BY DEF Synced
<1> HIDE DEF s
<1>3. CASE d # c
  BY <1>0, <1>3 DEF SyncStill, SameSynced
<1>4. CASE d = c
  <2>1. syncs'[d] = Synced(c, ch, close)
    BY <1>0, <1>4
  <2>2. chan[d].syncLost => syncs'[d] = syncs[d]
    BY <1>2, <1>4, <2>1
  <2>3. ~chan[d].syncLost => syncs'[d] = Append(syncs[d], s)
    BY <1>2, <1>4, <2>1
  <2> QED
    BY <1>1, <1>4, <2>2, <2>3 DEF SyncGrow, SameSynced
<1> QED
  BY <1>3, <1>4
\* A session is asked to close.
LEMMA RequestCloseSyncs ==
  ASSUME TypeInv, NEW c \in Connections, RequestClose(c), NEW d \in Connections
  PROVE  SyncStill(d) \/ SyncGrow(d)
<1> DEFINE ch == [chan[c] EXCEPT !.rev = @ + 1, !.revoked = TRUE, !.closer = "asked"]
<1>1. syncs' = [syncs EXCEPT ![c] = Synced(c, ch, TRUE)]
  BY Zenon DEF RequestClose
<1>2. ch.rev = chan[c].rev + 1 /\ ch.bound \in BOOLEAN /\ ch.revoked = TRUE /\ ch.syncLost = chan[c].syncLost
  BY DEF TypeInv, ChildType, ChanType, ChanFields
<1>3. /\ chan'[d].rev = IF d = c THEN chan[d].rev + 1 ELSE chan[d].rev
      /\ (chan'[d].revoked <=> (chan[d].revoked \/ d = c)) /\ SameSynced(d)
  BY RequestCloseChan
<1> HIDE DEF ch
<1> QED
  BY <1>1, <1>2, <1>3, GrowSyncs
\* A session is bound again.
LEMMA RebindSyncs ==
  ASSUME TypeInv, NEW c \in Connections, Rebind(c), NEW d \in Connections
  PROVE  SyncStill(d) \/ SyncGrow(d)
<1> DEFINE ch == [chan[c] EXCEPT !.at = "sync", !.rev = @ + 1, !.awaits = chan[c].rev + 1, !.bound = TRUE]
<1>1. syncs' = [syncs EXCEPT ![c] = Synced(c, ch, FALSE)]
  BY Zenon DEF Rebind
<1>2. ch.rev = chan[c].rev + 1 /\ ch.bound = TRUE /\ ch.revoked = chan[c].revoked /\ ch.syncLost = chan[c].syncLost
      /\ ch.revoked \in BOOLEAN
  BY DEF TypeInv, ChildType, ChanType, ChanFields
<1>3. /\ chan'[d].rev = IF d = c THEN chan[d].rev + 1 ELSE chan[d].rev
      /\ chan'[d].revoked = chan[d].revoked /\ SameSynced(d)
  BY RebindChan
<1> HIDE DEF ch
<1> QED
  BY <1>1, <1>2, <1>3, GrowSyncs
\* The owner thread ends something.
LEMMA OwnerRunSyncs ==
  ASSUME TypeInv, OwnerRun, NEW d \in Connections
  PROVE  SyncStill(d) \/ SyncGrow(d)
<1> DEFINE m == Head(owner)
<1>1. m.c \in Connections
  <2>1. m \in Work
    BY OwnerRunTypes
  <2> QED
    BY <2>1 DEF Work
<1>2. \/ UNCHANGED <<chan, syncs>>
      \/ Rebind(m.c)
      \/ KeepBinding(m.c) /\ UNCHANGED syncs
      \/ EndUnbind(m.c) /\ UNCHANGED syncs
      \/ EndForNobody(m.c, m.what, m.seq) /\ UNCHANGED syncs
  BY Zenon DEF OwnerRun, EndCommand, EndEnvelope, KeepBinding, EndUnbind, EndForNobody
<1> HIDE DEF m
<1> QED
  BY <1>1, <1>2, RebindSyncs, KeepBindingChan, EndUnbindChan, EndForNobodyChan, StillSyncs DEF SyncStill
\* The end of a send.
LEMMA SendOverSyncs ==
  ASSUME TypeInv, NEW c \in Connections, NEW sent, SendOver(c, sent), NEW d \in Connections
  PROVE  SyncStill(d) \/ SyncGrow(d)
<1>1. \/ (MessageSent(c) \/ MessageLost(c) \/ RevokedOver(c, sent)) /\ UNCHANGED syncs
      \/ UNCHANGED <<chan, syncs>>
      \/ RequestClose(c)
  BY Zenon DEF SendOver, CompletionLost, MessageSent, MessageLost, RevokedOver
<1> QED
  BY <1>1, MessageSentChan, MessageLostChan, RevokedOverChan, RequestCloseSyncs, StillSyncs DEF SyncStill
\* The publications move so in every step of the child.
LEMMA ChildSyncs ==
  ASSUME TypeInv, ChildStep, NEW d \in Connections
  PROVE  SyncMoves(d)
<1>1. UNCHANGED <<chan, syncs>> => SyncMoves(d)
  BY DEF SyncMoves, SyncStill
<1>2. SameRevision(d) /\ SameSynced(d) /\ UNCHANGED syncs => SyncMoves(d)
  BY StillSyncs DEF SyncMoves
<1>3. CASE ReceiveRefused \/ ReceiveEnqueue \/ ControlShutdown \/ StopOwner \/ Stopped
  BY <1>1, <1>3 DEF ReceiveRefused, ReceiveEnqueue, ControlShutdown, StopOwner, Stopped, sessionVars
<1>4. CASE ReceiveConnect \/ ReceiveEnvelope
  <2>1. UNCHANGED syncs
    BY <1>4 DEF ReceiveConnect, ReceiveEnvelope
  <2> QED
    BY <1>2, <1>4, <2>1, ReceiveConnectChan, ReceiveEnvelopeChan
<1>5. CASE ControlReceipt
  <2>1. \/ /\ Rcpt.id[2] = "state" /\ PublicationAcked(Rcpt.id[1], Rcpt.id[3])
           /\ ReceiptOfState(Rcpt.id[1], Rcpt.id[3], Rcpt.sent)
        \/ SendOver(Rcpt.id[1], Rcpt.sent)
        \/ UNCHANGED sessionVars
    BY <1>5, Zenon DEF ControlReceipt, Rcpt
  <2>2. Rcpt.id \in Ids /\ Rcpt.sent \in BOOLEAN /\ Control("receipt")
    BY <1>5, ControlReceiptTypes DEF ControlReceipt
  <2>3. Rcpt.id[1] \in Connections /\ Rcpt.id[3] \in Nat
    BY <2>2 DEF Ids
  <2>4. CASE /\ Rcpt.id[2] = "state" /\ PublicationAcked(Rcpt.id[1], Rcpt.id[3])
             /\ ReceiptOfState(Rcpt.id[1], Rcpt.id[3], Rcpt.sent)
    <3>1. CASE d = Rcpt.id[1]
      BY <2>2, <2>3, <2>4, <3>1 DEF SyncMoves, Settled
    <3>2. CASE d # Rcpt.id[1]
      <4>1. SameRevision(d) /\ SameSynced(d)
        <5>1. /\ chan'[d].synced = IF d = Rcpt.id[1] /\ Rcpt.sent THEN Rcpt.id[3] ELSE chan[d].synced
              /\ SameRevision(d)
          BY <2>2, <2>3, <2>4, ReceiptOfStateChan
        <5>2. chan'[d] = chan[d]
          BY <2>2, <2>4, <3>2 DEF ReceiptOfState, TypeInv, ChildType, ChanType
        <5> QED
          BY <5>1, <5>2 DEF SameSynced
      <4>2. syncs'[d] = syncs[d]
        BY <2>4, <3>2 DEF ReceiptOfState, TypeInv, ChildType
      <4> QED
        BY <4>1, <4>2, StillSyncs DEF SyncMoves
    <3> QED
      BY <3>1, <3>2
  <2>5. UNCHANGED sessionVars => SyncMoves(d)
    BY <1>1 DEF sessionVars
  <2> QED
    BY <2>1, <2>2, <2>3, <2>4, <2>5, SendOverSyncs DEF SyncMoves
<1>6. CASE ControlDisconnect
  <2>1. Head(controls).c \in Connections
    BY <1>6, ControlDisconnectTypes
  <2>2. Cancel(Head(controls).c) \/ UNCHANGED <<chan, syncs>>
    BY <1>6, Zenon DEF ControlDisconnect
  <2> QED
    BY <1>1, <2>1, <2>2, CancelSyncs DEF SyncMoves
<1>7. ASSUME NEW c \in Connections, StartSend(c) \/ Withhold(c)
      PROVE  SyncMoves(d)
  BY <1>1, <1>7 DEF StartSend, Withhold
<1>8. ASSUME NEW c \in Connections, TakeEnvelope(c) \/ CallOwner(c) \/ AfterSync(c)
      PROVE  SyncMoves(d)
  <2>1. UNCHANGED syncs
    BY <1>8 DEF TakeEnvelope, CallOwner, AfterSync
  <2> QED
    BY <1>2, <1>8, <2>1, TakeEnvelopeChan, CallOwnerChan, AfterSyncChan
<1>9. ASSUME NEW c \in Connections, CloseSession(c) \/ PumpStopped(c) \/ EndSession(c) \/ FinishConnection(c)
      PROVE  SyncMoves(d)
  <2>1. UNCHANGED syncs
    BY <1>9 DEF CloseSession, PumpStopped, EndSession, FinishConnection
  <2> QED
    BY <1>2, <1>9, <2>1, CloseSessionChan, PumpStoppedChan, EndSessionChan, FinishConnectionChan
<1>10. ASSUME NEW c \in Connections, PutNotification(c)
      PROVE  SyncMoves(d)
  BY <1>1, <1>10, PutNotificationTypes, SendOverSyncs DEF SyncMoves
<1>11. ASSUME NEW c \in Connections, DrainSession(c)
      PROVE  SyncMoves(d)
  BY <1>11, CancelSyncs DEF DrainSession, SyncMoves
<1>12. ASSUME NEW c \in Connections, PublishBinding(c)
       PROVE  SyncMoves(d)
  <2>1. CASE d = c
    BY <1>12, <2>1 DEF SyncMoves
  <2>2. CASE d # c
    <3>1. UNCHANGED chan /\ syncs'[d] = syncs[d]
      BY <1>12, <2>2 DEF PublishBinding, TypeInv, ChildType
    <3> QED
      BY <3>1 DEF SyncMoves, SyncStill
  <2> QED
    BY <2>1, <2>2
<1>13. CASE OwnerRun
  BY <1>13, OwnerRunSyncs DEF SyncMoves
<1> HIDE DEF SyncMoves
<1> QED
  BY <1>3, <1>4, <1>5, <1>6, <1>7, <1>8, <1>9, <1>10, <1>11, <1>12, <1>13, Zenon DEF ChildStep

------------------------------------------------------------------------------
\* A connection that has not begun, or has begun and is not closed.
Live(c) == ~conn[c].closed /\ (conn[c].registered \/ worker[c].at = "new")
Holds(d) ==
    /\ conn[d].closed => conn'[d].closed
    /\ conn'[d].registered => conn[d].registered \/ worker[d].at = "new"
\* A connection is registered when it begins, and does not open again.
LEMMA ParentHoldsConn ==
  ASSUME TypeInv, FromParent, NEW d \in Connections
  PROVE  Holds(d)
<1>1. UNCHANGED conn => Holds(d)
  BY DEF Holds
<1>2. ASSUME NEW reason, Fail(reason)
      PROVE  Holds(d)
  BY <1>2, FailConn DEF Holds
<1>3. ASSUME NEW c \in Connections, Connect(c)
      PROVE  Holds(d)
  <2>1. worker[c].at = "new"
    BY <1>3 DEF Connect
  <2> QED
    BY <1>3, <2>1, ConnectConn DEF Holds
<1>4. ASSUME NEW c \in Connections, EndWorker(c) \/ DisconnectStart(c) \/ DisconnectEnd(c)
      PROVE  Holds(d)
  BY <1>4, EndWorkerConn, DisconnectStartConn, DisconnectEndConn DEF Holds
<1>5. ASSUME NEW c \in Connections, Enqueue(c) \/ Admitted(c)
      PROVE  Holds(d)
  BY <1>5, EnqueueConn, AdmittedConn DEF BeginsToEnd, Holds
<1>6. ASSUME NEW c \in Connections, SendEnvelope(c)
      PROVE  Holds(d)
  BY <1>6, SendEnvelopeConn DEF SameLife, Holds
<1>7. ASSUME NEW c \in Connections, NEW q \in RequestIds, TakeRequest(c, q)
      PROVE  Holds(d)
  BY <1>1, <1>7 DEF TakeRequest
<1>8. ASSUME NEW s \in sends, BeginWrite(s) \/ Write(s) \/ FinishDelivery(s)
      PROVE  Holds(d)
  BY <1>1, <1>8, Zenon DEF BeginWrite, Write, FinishDelivery, connVars
<1>9. CASE ReadNotification \/ ReadTerminal \/ ChildEnded \/ EndClose
  <2>1. UNCHANGED conn \/ \E reason : Fail(reason)
    BY <1>9, Zenon DEF Reject, ReadNotification, ReadTerminal, ChildEnded, EndClose, connVars
  <2> QED
    BY <1>1, <1>2, <2>1
<1>10. CASE ReadAnswer
  <2>1. \/ Fail("protocol")
        \/ \E p \in pending : AnswerAccepted(p) \/ CallRefused(p) \/ EnqueueRefused(p)
    BY <1>10, Zenon DEF Reject, ReadAnswer
  <2>2. ASSUME NEW p \in pending, AnswerAccepted(p)
        PROVE  Holds(d)
    BY <1>1, <2>2, Zenon DEF AnswerAccepted
  <2>3. ASSUME NEW p \in pending, CallRefused(p) \/ EnqueueRefused(p)
        PROVE  Holds(d)
    BY <2>3, CallRefusedConn, EnqueueRefusedConn DEF Holds
  <2> QED
    BY <1>2, <2>1, <2>2, <2>3
<1>11. CASE ReadProcessed \/ ReadSocketClose \/ ReadDisconnected
  BY <1>11, ReadProcessedConn, ReadSocketCloseConn, ReadDisconnectedConn DEF SameLife, Holds
<1>12. CASE ReadState
  <2>1. CASE StateRefused
    BY <1>2, <1>12, <2>1, Zenon DEF Reject, ReadState, StateRefused
  <2>2. CASE ~StateRefused
    BY <1>12, <2>2, ReadStateConn DEF SameLife, Holds
  <2> QED
    BY <2>1, <2>2
<1> HIDE DEF Holds
<1> QED
  BY <1>3, <1>4, <1>5, <1>6, <1>7, <1>8, <1>9, <1>10, <1>11, <1>12, Zenon
  DEF FromParent, Parent, ParentStep, ClientSends
\* So a connection that lives did so before.
LEMMA ParentLive ==
  ASSUME TypeInv, LivesInv, FromParent, NEW d \in Connections, Live(d)'
  PROVE  Live(d)
BY ParentHoldsConn, ParentLives DEF Holds, Lives, Live

------------------------------------------------------------------------------
\* The publications of a session that wait: the revisions after the one it knows of,
\* without a hole; the last is the one in force unless one was lost.
SyncsFollow(c) ==
    /\ \A i \in 1..Len(syncs[c]) :
          /\ syncs[c][i].n = chan[c].synced + i
          /\ syncs[c][i].out => i = 1
          /\ syncs[c][i].revoked => chan[c].revoked
          /\ \A j \in 1..Len(syncs[c]) : i < j /\ syncs[c][i].revoked => syncs[c][j].revoked
    /\ chan[c].synced + Len(syncs[c]) <= chan[c].rev
    /\ IF chan[c].syncLost THEN chan[c].synced + Len(syncs[c]) < chan[c].rev
       ELSE chan[c].synced + Len(syncs[c]) = chan[c].rev
\* A publication is out, or was given up while it was; or none is; and all that
\* waits is the end of the binding.
IsOut(c, n) == IF syncs[c] = <<>> THEN chan[c].syncLost ELSE Head(syncs[c]).out /\ Head(syncs[c]).n = n
Idle(c) == IF syncs[c] = <<>> THEN ~chan[c].syncLost ELSE ~Head(syncs[c]).out
AllRevoked(c) == chan[c].revoked /\ \A i \in 1..Len(syncs[c]) : syncs[c][i].revoked
\* The session's types, and the first and the last publications.
LEMMA SyncTypes ==
  ASSUME TypeInv, NEW c \in Connections
  PROVE  /\ syncs[c] \in Seq(Sync) /\ Len(syncs[c]) \in Nat /\ chan[c].synced \in Nat /\ chan[c].rev \in Nat
         /\ syncs[c] # <<>> => Len(syncs[c]) >= 1 /\ Head(syncs[c]) = syncs[c][1] /\ Head(syncs[c]) \in Sync
         /\ \A i \in 1..Len(syncs[c]) : syncs[c][i].n \in Nat /\ syncs[c][i].revoked \in BOOLEAN
<1>1. syncs[c] \in Seq(Sync) /\ chan[c].synced \in Nat /\ chan[c].rev \in Nat
  BY BindingTypes
<1>2. \A i \in 1..Len(syncs[c]) : syncs[c][i] \in Sync
  BY <1>1
<1>3. syncs[c] # <<>> => Len(syncs[c]) >= 1 /\ Head(syncs[c]) = syncs[c][1]
  BY <1>1
<1>4. Len(syncs[c]) \in Nat
  BY <1>1
<1> QED
  BY <1>1, <1>2, <1>3, <1>4 DEF Sync
\* What the moves of the publications keep.
SyncsKeep(c) ==
    /\ SyncsFollow(c)' /\ chan'[c].synced = chan[c].synced
    /\ \A n \in Nat : IsOut(c, n) => IsOut(c, n)'
    /\ Idle(c)' => Idle(c)
    /\ AllRevoked(c) => AllRevoked(c)'
\* They stay as they are.
LEMMA StillKeeps ==
  ASSUME TypeInv, NEW c \in Connections, SyncsFollow(c), SyncStill(c)
  PROVE  SyncsKeep(c)
BY DEF SyncStill, SyncsKeep, SyncsFollow, IsOut, Idle, AllRevoked
\* The last are dropped.
LEMMA CutKeeps ==
  ASSUME TypeInv, NEW c \in Connections, SyncsFollow(c), SyncCut(c)
  PROVE  SyncsKeep(c)
<1> DEFINE s == syncs[c]
           t == syncs'[c]
<1>1. PICK k \in 0..Len(s) : t = SubSeq(s, 1, k) /\ (chan'[c].syncLost <=> (chan[c].syncLost \/ k < Len(s)))
  BY DEF SyncCut
<1>2. s \in Seq(Sync) /\ Len(s) \in Nat /\ k \in Nat /\ k <= Len(s)
  BY SyncTypes
<1>3. t \in Seq(Sync) /\ Len(t) = k /\ \A i \in 1..k : t[i] = s[i]
  BY <1>1, <1>2
<1>4. /\ chan'[c].synced = chan[c].synced /\ chan'[c].rev = chan[c].rev /\ (chan'[c].revoked <=> chan[c].revoked)
      /\ chan[c].synced \in Nat /\ chan[c].rev \in Nat
  BY SyncTypes DEF SyncCut
<1>5. t # <<>> => k >= 1 /\ Head(t) = t[1] /\ t[1] = s[1] /\ s # <<>> /\ Head(s) = s[1]
  BY <1>2, <1>3
<1>6. t = <<>> => k = 0
  BY <1>3
<1>7. s # <<>> => Len(s) >= 1
  BY <1>2
<1> HIDE DEF s, t
<1>8. SyncsFollow(c)'
  <2>1. /\ \A i \in 1..Len(s) :
          /\ s[i].n = chan[c].synced + i
          /\ s[i].out => i = 1
          /\ s[i].revoked => chan[c].revoked
          /\ \A j \in 1..Len(s) : i < j /\ s[i].revoked => s[j].revoked
        /\ chan[c].synced + Len(s) <= chan[c].rev
        /\ chan[c].syncLost => chan[c].synced + Len(s) < chan[c].rev
        /\ ~chan[c].syncLost => chan[c].synced + Len(s) = chan[c].rev
    BY DEF SyncsFollow, s
  <2>0. \A i \in 1..Len(t) : i \in 1..Len(s) /\ t[i] = s[i]
    BY <1>2, <1>3
  <2>4. \A i \in 1..Len(t) : t[i].n = chan'[c].synced + i /\ (t[i].out => i = 1)
    BY <1>4, <2>0, <2>1
  <2>5. \A i \in 1..Len(t) : t[i].revoked => chan'[c].revoked
    BY <1>4, <2>0, <2>1
  <2>6. \A i, j \in 1..Len(t) : i < j /\ t[i].revoked => t[j].revoked
    BY <2>0, <2>1
  <2>3. /\ chan'[c].synced + Len(t) <= chan'[c].rev
        /\ chan'[c].syncLost => chan'[c].synced + Len(t) < chan'[c].rev
        /\ ~chan'[c].syncLost => chan'[c].synced + Len(t) = chan'[c].rev
    BY <1>1, <1>2, <1>3, <1>4, <2>1
  <2> QED
    BY <2>3, <2>4, <2>5, <2>6 DEF SyncsFollow, t
<1>9. \A n \in Nat : IsOut(c, n) => IsOut(c, n)'
  BY <1>1, <1>2, <1>5, <1>6, <1>7 DEF IsOut, s, t
<1>10. Idle(c)' => Idle(c)
  <2>1. CASE t # <<>>
    <3>1. s # <<>> /\ Head(s) = Head(t)
      BY <1>5, <2>1
    <3> QED
      BY <2>1, <3>1 DEF Idle, s, t
  <2>2. CASE t = <<>>
    <3>1. Idle(c)' => ~chan'[c].syncLost
      BY <2>2 DEF Idle, t
    <3>2. chan'[c].syncLost \/ (~chan[c].syncLost /\ s = <<>>)
      BY <1>1, <1>2, <1>6, <1>7, <2>2
    <3> QED
      BY <3>1, <3>2 DEF Idle, s
  <2> QED
    BY <2>1, <2>2
<1>11. AllRevoked(c) => AllRevoked(c)'
  BY <1>2, <1>3, <1>4 DEF AllRevoked, s, t
<1> QED
  BY <1>4, <1>8, <1>9, <1>10, <1>11 DEF SyncsKeep
\* One more waits.
LEMMA GrowKeeps ==
  ASSUME TypeInv, NEW c \in Connections, SyncsFollow(c), SyncGrow(c)
  PROVE  SyncsKeep(c)
<1> DEFINE s == syncs[c]
           t == syncs'[c]
<1>1. s \in Seq(Sync) /\ Len(s) \in Nat /\ chan[c].synced \in Nat /\ chan[c].rev \in Nat
  BY SyncTypes
<1>2. /\ chan'[c].synced = chan[c].synced /\ chan'[c].rev = chan[c].rev + 1
      /\ (chan'[c].syncLost <=> chan[c].syncLost) /\ (chan[c].revoked => chan'[c].revoked)
  BY DEF SyncGrow
<1>3. CASE chan[c].syncLost
  <2>1. t = s
    BY <1>3 DEF SyncGrow
  <2> QED
    BY <1>1, <1>2, <1>3, <2>1 DEF SyncsKeep, SyncsFollow, IsOut, Idle, AllRevoked
<1>4. CASE ~chan[c].syncLost
  <2>1. PICK e \in Sync : /\ e.n = chan[c].rev + 1 /\ ~e.out /\ (e.revoked <=> chan'[c].revoked)
                          /\ t = Append(s, e)
    BY <1>4 DEF SyncGrow
  <2>2. /\ t \in Seq(Sync) /\ Len(t) = Len(s) + 1 /\ t[Len(s) + 1] = e /\ \A i \in 1..Len(s) : t[i] = s[i]
        /\ t # <<>> /\ Head(t) = t[1]
    BY <1>1, <2>1
  <2>3. s # <<>> => Len(s) >= 1 /\ Head(s) = s[1]
    BY <1>1
  <2>4. s = <<>> => Len(s) = 0
    BY <1>1
  <2> HIDE DEF s, t
  <2>5. /\ \A i \in 1..Len(s) :
          /\ s[i].n = chan[c].synced + i
          /\ s[i].out => i = 1
          /\ s[i].revoked => chan[c].revoked
          /\ \A j \in 1..Len(s) : i < j /\ s[i].revoked => s[j].revoked
        /\ chan[c].synced + Len(s) = chan[c].rev
    BY <1>4 DEF SyncsFollow, s
  <2>6. \A i \in 1..Len(t) : i \in 1..Len(s) \/ (i = Len(s) + 1 /\ t[i] = e)
    BY <1>1, <2>2
  <2>7. \A i \in 1..Len(t) : t[i].n = chan'[c].synced + i /\ (t[i].out => i = 1)
    <3>1. \A i \in 1..Len(s) : t[i].n = chan'[c].synced + i /\ (t[i].out => i = 1)
      BY <1>2, <2>2, <2>5
    <3>4. \A x, y, z \in Nat : x + y = z => z + 1 = x + (y + 1)
      OBVIOUS
    <3>5. chan[c].rev + 1 = chan[c].synced + (Len(s) + 1)
      <4>1. Len(s) \in Nat /\ chan[c].synced \in Nat /\ chan[c].rev \in Nat /\ chan[c].synced + Len(s) = chan[c].rev
        BY <1>1, <2>5
      <4> QED
        BY <3>4, <4>1, Zenon
    <3>6. t[Len(s) + 1].n = chan[c].rev + 1
      BY <2>1, <2>2
    <3>2. t[Len(s) + 1].n = chan'[c].synced + (Len(s) + 1)
      BY <1>2, <3>5, <3>6
    <3>3. ~t[Len(s) + 1].out
      BY <2>1, <2>2
    <3> QED
      BY <2>6, <3>1, <3>2, <3>3
  <2>8. \A i \in 1..Len(t) : t[i].revoked => chan'[c].revoked
    BY <1>1, <1>2, <2>1, <2>2, <2>5, <2>6
  <2>9. \A i, j \in 1..Len(t) : i < j /\ t[i].revoked => t[j].revoked
    BY <1>1, <1>2, <2>1, <2>2, <2>5, <2>6
  <2>10. SyncsFollow(c)'
    <3>4. \A x, y, z \in Nat : x + y = z => x + (y + 1) = z + 1
      OBVIOUS
    <3>5. Len(s) \in Nat /\ chan[c].synced \in Nat /\ chan[c].rev \in Nat /\ chan[c].synced + Len(s) = chan[c].rev
      BY <1>1, <2>5
    <3>0. chan[c].synced + (Len(s) + 1) = chan[c].rev + 1
      BY <3>4, <3>5, Zenon
    <3>1. chan'[c].synced + Len(t) = chan'[c].rev
      BY <1>2, <2>2, <3>0
    <3> QED
      BY <1>1, <1>2, <1>4, <2>7, <2>8, <2>9, <3>1 DEF SyncsFollow, t
  <2>11. \A n \in Nat : IsOut(c, n) => IsOut(c, n)'
    BY <1>1, <1>2, <1>4, <2>2, <2>3, <2>4 DEF IsOut, s, t
  <2>12. Idle(c)' => Idle(c)
    BY <1>1, <1>2, <1>4, <2>1, <2>2, <2>3, <2>4 DEF Idle, s, t
  <2>13. AllRevoked(c) => AllRevoked(c)'
    BY <1>1, <1>2, <2>1, <2>2, <2>6 DEF AllRevoked, s, t
  <2> QED
    BY <1>2, <2>10, <2>11, <2>12, <2>13 DEF SyncsKeep
<1> QED
  BY <1>3, <1>4
\* The first goes out.
LEMMA PublishFollows ==
  ASSUME TypeInv, NEW c \in Connections, SyncsFollow(c), PublishBinding(c)
  PROVE  /\ SyncsFollow(c)' /\ (AllRevoked(c) => AllRevoked(c)') /\ ~Idle(c)' /\ Idle(c)
         /\ \A n \in Nat : ~IsOut(c, n) /\ (n = Head(syncs[c]).n => IsOut(c, n)')
         /\ Head(syncs[c]).n = chan[c].synced + 1
         /\ Head(syncs[c]).revoked => AllRevoked(c)'
         /\ AllRevoked(c) => Head(syncs[c]).revoked
<1> DEFINE s == syncs[c]
           t == syncs'[c]
<1>1. s \in Seq(Sync) /\ Len(s) \in Nat /\ s # <<>> /\ ~Head(s).out /\ UNCHANGED chan
  BY SyncTypes DEF PublishBinding
<1>2. Len(s) >= 1 /\ Head(s) = s[1] /\ s[1] \in Sync
  BY <1>1
<1>3. t = [s EXCEPT ![1] = [@ EXCEPT !.out = TRUE]]
  BY DEF PublishBinding, TypeInv, ChildType
<1> HIDE DEF s, t
<1>4. Len(t) = Len(s) /\ \A i \in 1..Len(s) : t[i] = IF i = 1 THEN [s[1] EXCEPT !.out = TRUE] ELSE s[i]
  BY <1>1, <1>2, <1>3
<1>5. t # <<>> /\ Head(t) = t[1]
  <2>0. [s[1] EXCEPT !.out = TRUE] \in Sync
    BY <1>2 DEF Sync
  <2>1. t \in Seq(Sync)
    BY <1>1, <1>2, <1>3, <2>0
  <2> QED
    BY <1>1, <1>2, <1>4, <2>1
<1>6. t[1].n = s[1].n /\ t[1].out = TRUE /\ t[1].revoked = s[1].revoked
  BY <1>2, <1>4, <1>1 DEF Sync
<1>7. \A i \in 1..Len(s) : t[i].n = s[i].n /\ t[i].revoked = s[i].revoked /\ (i # 1 => t[i].out = s[i].out)
  BY <1>1, <1>4, <1>6
<1>8. /\ \A i \in 1..Len(s) :
          /\ s[i].n = chan[c].synced + i
          /\ s[i].out => i = 1
          /\ s[i].revoked => chan[c].revoked
          /\ \A j \in 1..Len(s) : i < j /\ s[i].revoked => s[j].revoked
  BY DEF SyncsFollow, s
<1>9. SyncsFollow(c)'
  BY <1>1, <1>4, <1>7, <1>8 DEF SyncsFollow, s, t
<1>10. Idle(c) /\ ~Idle(c)' /\ \A n \in Nat : ~IsOut(c, n) /\ (n = s[1].n => IsOut(c, n)')
  BY <1>1, <1>2, <1>5, <1>6 DEF Idle, IsOut, s, t
<1>11. (AllRevoked(c) => AllRevoked(c)') /\ (AllRevoked(c) => s[1].revoked)
  BY <1>1, <1>2, <1>4, <1>7 DEF AllRevoked, s, t
<1>12. s[1].revoked => AllRevoked(c)'
  <2>1. s[1].revoked => chan[c].revoked /\ \A j \in 1..Len(s) : s[j].revoked
    BY <1>1, <1>2, <1>8
  <2> QED
    BY <1>1, <1>4, <1>7, <2>1 DEF AllRevoked, t
<1> QED
  BY <1>1, <1>2, <1>8, <1>9, <1>10, <1>11, <1>12 DEF s
\* The first is acknowledged, or lost with those behind it.
LEMMA SettledFollows ==
  ASSUME TypeInv, NEW c \in Connections, SyncsFollow(c), Settled(c)
  PROVE  /\ SyncsFollow(c)' /\ (AllRevoked(c) => AllRevoked(c)')
         /\ IF Rcpt.sent THEN chan'[c].synced = Rcpt.id[3] ELSE ~Idle(c)'
<1> DEFINE s == syncs[c]
           t == syncs'[c]
           n == Rcpt.id[3]
<1>1. /\ s \in Seq(Sync) /\ Len(s) \in Nat /\ s # <<>> /\ Head(s).out /\ Head(s).n = n /\ n \in Nat /\ Rcpt.sent \in BOOLEAN
      /\ chan[c].synced \in Nat /\ chan[c].rev \in Nat
  BY SyncTypes DEF Settled, PublicationAcked
<1>2. Len(s) >= 1 /\ Head(s) = s[1] /\ s[1] \in Sync
  BY <1>1
<1>3. /\ chan'[c].synced = IF Rcpt.sent THEN n ELSE chan[c].synced
      /\ (chan'[c].syncLost <=> (chan[c].syncLost \/ ~Rcpt.sent))
      /\ chan'[c].rev = chan[c].rev /\ chan'[c].revoked = chan[c].revoked
  BY <1>1, ReceiptOfStateChan DEF Settled, SameRevision
<1>4. t = IF Rcpt.sent THEN Tail(s) ELSE <<>>
  BY DEF Settled, ReceiptOfState, TypeInv, ChildType
<1> HIDE DEF s, t, n
<1>5. /\ \A i \in 1..Len(s) :
          /\ s[i].n = chan[c].synced + i
          /\ s[i].out => i = 1
          /\ s[i].revoked => chan[c].revoked
          /\ \A j \in 1..Len(s) : i < j /\ s[i].revoked => s[j].revoked
      /\ chan[c].synced + Len(s) <= chan[c].rev
      /\ chan[c].syncLost => chan[c].synced + Len(s) < chan[c].rev
      /\ ~chan[c].syncLost => chan[c].synced + Len(s) = chan[c].rev
  BY DEF SyncsFollow, s
<1>6. n = chan[c].synced + 1
  BY <1>1, <1>2, <1>5
<1>7. CASE Rcpt.sent
  <2>1. t = Tail(s) /\ Len(t) = Len(s) - 1 /\ \A i \in 1..Len(s) - 1 : t[i] = s[i + 1] /\ i + 1 \in 1..Len(s)
    BY <1>1, <1>4, <1>7
  <2>2. Len(t) \in Nat /\ \A i \in 1..Len(t) : i \in 1..Len(s) - 1 /\ i \in Nat
    BY <1>1, <1>2, <2>1
  <2>3. \A i \in 1..Len(t) : t[i].n = chan'[c].synced + i /\ (t[i].out => i = 1)
    <3>1. \A i \in 1..Len(t) : t[i] = s[i + 1] /\ i + 1 \in 1..Len(s) /\ i \in Nat /\ i + 1 # 1
      BY <2>1, <2>2
    <3>2. \A i \in 1..Len(t) : s[i + 1].n = chan[c].synced + (i + 1) /\ ~s[i + 1].out
      BY <1>5, <3>1
    <3>3. chan'[c].synced = chan[c].synced + 1
      BY <1>3, <1>6, <1>7
    <3>5. \A x, i \in Nat : x + (i + 1) = (x + 1) + i
      OBVIOUS
    <3>6. \A i \in Nat : chan[c].synced + (i + 1) = (chan[c].synced + 1) + i
      BY <1>1, <3>5
    <3>4. \A i \in 1..Len(t) : t[i].n = chan'[c].synced + i
      <4> TAKE i \in 1..Len(t)
      <4>1. t[i].n = chan[c].synced + (i + 1) /\ i \in Nat
        BY <3>1, <3>2
      <4>2. chan[c].synced + (i + 1) = (chan[c].synced + 1) + i
        BY <3>6, <4>1
      <4> QED
        BY <3>3, <4>1, <4>2
    <3> QED
      BY <3>1, <3>2, <3>4
  <2>4. \A i \in 1..Len(t) : t[i].revoked => chan'[c].revoked
    BY <1>3, <1>5, <2>1, <2>2
  <2>5. \A i, j \in 1..Len(t) : i < j /\ t[i].revoked => t[j].revoked
    BY <1>1, <1>5, <2>1, <2>2
  <2>6. SyncsFollow(c)'
    <3>1. /\ chan'[c].synced + Len(t) <= chan'[c].rev
          /\ chan'[c].syncLost => chan'[c].synced + Len(t) < chan'[c].rev
          /\ ~chan'[c].syncLost => chan'[c].synced + Len(t) = chan'[c].rev
      BY <1>1, <1>3, <1>5, <1>6, <1>7, <2>1
    <3> QED
      BY <2>3, <2>4, <2>5, <3>1 DEF SyncsFollow, t
  <2>7. AllRevoked(c) => AllRevoked(c)'
    BY <1>3, <2>1, <2>2 DEF AllRevoked, s, t
  <2> QED
    BY <1>3, <1>7, <2>6, <2>7 DEF n
<1>8. CASE ~Rcpt.sent
  <2>1. t = <<>> /\ Len(t) = 0
    BY <1>4, <1>8
  <2>2. chan'[c].syncLost /\ chan'[c].synced = chan[c].synced
    BY <1>3, <1>8
  <2>3. SyncsFollow(c)'
    <3>1. chan'[c].synced + Len(t) < chan'[c].rev
      BY <1>1, <1>2, <1>3, <1>5, <2>1, <2>2
    <3> QED
      BY <1>1, <1>3, <2>1, <2>2, <3>1 DEF SyncsFollow, t
  <2>4. (AllRevoked(c) => AllRevoked(c)') /\ ~Idle(c)'
    BY <1>3, <2>1, <2>2 DEF AllRevoked, Idle, t
  <2> QED
    BY <1>8, <2>3, <2>4
<1> QED
  BY <1>1, <1>7, <1>8

------------------------------------------------------------------------------
\* The reports of a binding, and the receipts for them: one is under way at most.
\* The report is of the revision after the parent's, the receipt of the parent's;
\* what is revoked stays so; and while none is under way both know the same.
States(c) == {r \in Result : StateOf(r, c)}
Receipts(c) == {k \in ControlMsg : k.kind = "receipt" /\ k.id[1] = c /\ k.id[2] = "state"}
ReportNext(c) ==
    \A r \in Items(results) : r \in States(c) =>
        /\ \A k \in Items(controls) : k \notin Receipts(c)
        /\ Live(c) => r.n = conn[c].rev + 1 /\ (conn[c].revoked => r.revoked)
        /\ childAlive => IsOut(c, r.n) /\ (r.revoked => AllRevoked(c))
ReceiptNext(c) ==
    \A k \in Items(controls) : k \in Receipts(c) =>
        /\ Live(c) /\ k.sent => conn[c].rev = k.id[3]
        /\ childAlive => IsOut(c, k.id[3])
Agreed(c) ==
    childAlive /\ Live(c) =>
        /\ Idle(c) => conn[c].rev = chan[c].synced
        /\ conn[c].revoked => AllRevoked(c)
StateFlows(c) ==
    /\ Once(results, States(c)) /\ Once(controls, Receipts(c))
    /\ ReportNext(c) /\ ReceiptNext(c) /\ Agreed(c)
StatesFollow == \A c \in Connections : SyncsFollow(c) /\ StateFlows(c)
\* No report of a binding comes, no receipt for one, and both stay as they are.
FewerStates(c) ==
    /\ Once(results, States(c))' /\ Once(controls, Receipts(c))'
    /\ \A r \in Items(results') : r \in States(c) => r \in Items(results)
    /\ \A k \in Items(controls') : k \in Receipts(c) => k \in Items(controls)
SameKnown(c) ==
    /\ Live(c)' => Live(c)
    /\ conn'[c].rev = conn[c].rev /\ conn'[c].revoked = conn[c].revoked
\* Such a step keeps the flow of the reports.
LEMMA QuietFlows ==
  ASSUME NEW c \in Connections, StateFlows(c), FewerStates(c), SameKnown(c),
         childAlive' => childAlive /\ SyncsKeep(c)
  PROVE  StateFlows(c)'
<1>1. \A r \in Items(results)' : r \in States(c) => r \in Items(results) /\ r.n \in Nat
  BY DEF FewerStates, Items, States, StateOf, Result
<1>2. \A k \in Items(controls)' : k \in Receipts(c) => k \in Items(controls) /\ k.id[3] \in Nat
  BY DEF FewerStates, Items, Receipts, ControlMsg, Ids
<1>3. ReportNext(c)'
  <2> SUFFICES ASSUME NEW r \in Items(results)', r \in States(c)
               PROVE  /\ \A k \in Items(controls)' : k \notin Receipts(c)
                      /\ Live(c)' => r.n = conn'[c].rev + 1 /\ (conn'[c].revoked => r.revoked)
                      /\ childAlive' => IsOut(c, r.n)' /\ (r.revoked => AllRevoked(c)')
    BY DEF ReportNext, States
  <2>1. /\ \A k \in Items(controls) : k \notin Receipts(c)
        /\ Live(c) => r.n = conn[c].rev + 1 /\ (conn[c].revoked => r.revoked)
        /\ childAlive => IsOut(c, r.n) /\ (r.revoked => AllRevoked(c))
    BY <1>1 DEF StateFlows, ReportNext
  <2> QED
    BY <1>1, <1>2, <2>1 DEF SameKnown, SyncsKeep
<1>4. ReceiptNext(c)'
  <2> SUFFICES ASSUME NEW k \in Items(controls)', k \in Receipts(c)
               PROVE  /\ Live(c)' /\ k.sent => conn'[c].rev = k.id[3]
                      /\ childAlive' => IsOut(c, k.id[3])'
    BY DEF ReceiptNext, Receipts
  <2>1. /\ Live(c) /\ k.sent => conn[c].rev = k.id[3]
        /\ childAlive => IsOut(c, k.id[3])
    BY <1>2 DEF StateFlows, ReceiptNext
  <2> QED
    BY <1>2, <2>1 DEF SameKnown, SyncsKeep
<1>5. Agreed(c)'
  BY DEF StateFlows, Agreed, SameKnown, SyncsKeep
<1> QED
  BY <1>3, <1>4, <1>5 DEF StateFlows, FewerStates, Once, States, Receipts
\* The first report or the first control is taken, or nothing; or what comes is
\* something else.
LEMMA FewerReports ==
  ASSUME TypeInv, NEW c \in Connections, Once(results, States(c)),
         \/ UNCHANGED results
         \/ results # <<>> /\ results' = Tail(results)
         \/ \E i \in 0..Len(results) : results' = SubSeq(results, 1, i)
         \/ \E t \in Seq(Result) : results' = results \o t /\ \A r \in Items(t) : r \notin States(c)
  PROVE  /\ Once(results, States(c))'
         /\ \A r \in Items(results') : r \in States(c) => r \in Items(results)
<1>0. results \in Seq(Result)
  BY BindingTypes
<1>1. Once(results', States(c)) => Once(results, States(c))'
  BY DEF Once, States
<1>2. CASE UNCHANGED results
  BY <1>1, <1>2
<1>3. CASE results # <<>> /\ results' = Tail(results)
  BY <1>0, <1>1, <1>3, OnceTail, ItemsOf
<1>4. CASE \E i \in 0..Len(results) : results' = SubSeq(results, 1, i)
  BY <1>0, <1>1, <1>4, OnceFirst, ItemsOf
<1>5. CASE \E t \in Seq(Result) : results' = results \o t /\ \A r \in Items(t) : r \notin States(c)
  <2>1. PICK t \in Seq(Result) : results' = results \o t /\ \A r \in Items(t) : r \notin States(c)
    BY <1>5
  <2>2. Once(results \o t, States(c))
    BY <1>0, <2>1, OnceAside
  <2>3. Items(results \o t) = Items(results) \cup Items(t)
    BY <1>0, ItemsOf
  <2> QED
    BY <1>1, <2>1, <2>2, <2>3
<1> QED
  BY <1>2, <1>3, <1>4, <1>5
\* The same for the controls, and any kind K of them.
LEMMA FewerOfKind ==
  ASSUME TypeInv, TypeInv', NEW K, Once(controls, K),
         \/ UNCHANGED controls
         \/ controls # <<>> /\ controls' = Tail(controls)
         \/ \E k : controls' = Append(controls, k) /\ k \notin K
  PROVE  /\ Once(controls', K)
         /\ \A k \in Items(controls') : k \in K => k \in Items(controls)
<1>0. controls \in Seq(ControlMsg) /\ controls' \in Seq(ControlMsg)
  BY DEF TypeInv, ChannelsType
<1>1. CASE UNCHANGED controls
  BY <1>1
<1>2. CASE controls # <<>> /\ controls' = Tail(controls)
  BY <1>0, <1>2, OnceTail, ItemsOf
<1>3. CASE \E k : controls' = Append(controls, k) /\ k \notin K
  <2>1. PICK k : controls' = Append(controls, k) /\ k \notin K
    BY <1>3
  <2>2. k \in ControlMsg
    <3>1. Len(controls') = Len(controls) + 1 /\ controls'[Len(controls) + 1] = k /\ Len(controls) \in Nat
      BY <1>0, <2>1
    <3>2. controls'[Len(controls) + 1] \in ControlMsg
      BY <1>0, <3>1
    <3> QED
      BY <3>1, <3>2
  <2>3. Once(Append(controls, k), K)
    BY <1>0, <2>1, <2>2, OnceAppend
  <2>4. Items(Append(controls, k)) = Items(controls) \cup {k}
    BY <1>0, <2>2, ItemsOf
  <2> QED
    BY <2>1, <2>3, <2>4
<1> QED
  BY <1>1, <1>2, <1>3
\* The receipts for the reports of a session's binding.
LEMMA FewerControls ==
  ASSUME TypeInv, TypeInv', NEW c \in Connections, Once(controls, Receipts(c)),
         \/ UNCHANGED controls
         \/ controls # <<>> /\ controls' = Tail(controls)
         \/ \E k : controls' = Append(controls, k) /\ k \notin Receipts(c)
  PROVE  /\ Once(controls, Receipts(c))'
         /\ \A k \in Items(controls') : k \in Receipts(c) => k \in Items(controls)
<1>1. Once(controls', Receipts(c)) => Once(controls, Receipts(c))'
  BY DEF Once, Receipts
<1> QED
  BY <1>1, FewerOfKind
\* What a step of the parent adds to the controls.
ParentAdds(k) ==
    \/ k.kind # "receipt"
    \/ \E s \in sends : FinishDelivery(s) /\ k = Receipt(s.id, s.at = "sent")
    \/ ReadState /\ ~StateRefused /\ k = ReceiptOf(conn[Head(results).c].registered /\ ~conn[Head(results).c].closed)
\* The parent adds to the controls nothing else.
LEMMA ParentTells ==
  ASSUME FromParent
  PROVE  UNCHANGED controls \/ \E k : controls' = Append(controls, k) /\ ParentAdds(k)
<1>1. ASSUME NEW c \in Connections,
             Connect(c) \/ Enqueue(c) \/ SendEnvelope(c) \/ Admitted(c) \/ EndWorker(c) \/ DisconnectEnd(c)
      PROVE  UNCHANGED controls
  BY <1>1 DEF Connect, Enqueue, SendEnvelope, Admitted, EndWorker, DisconnectEnd, queues
<1>2. ASSUME NEW c \in Connections, NEW q \in RequestIds, TakeRequest(c, q)
      PROVE  UNCHANGED controls
  BY <1>2 DEF TakeRequest, queues
<1>3. ASSUME NEW c \in Connections, DisconnectStart(c)
      PROVE  UNCHANGED controls \/ \E k : controls' = Append(controls, k) /\ k.kind # "receipt"
  <2> DEFINE e == [kind |-> "disconnect", c |-> c, seq |-> conn[c].start]
  <2>1. controls' = controls \/ controls' = Append(controls, e)
    BY <1>3, Zenon DEF DisconnectStart
  <2>2. e.kind # "receipt"
    OBVIOUS
  <2> HIDE DEF e
  <2> QED
    BY <2>1, <2>2
<1>4. ASSUME NEW s \in sends, BeginWrite(s) \/ Write(s)
      PROVE  UNCHANGED controls
  BY <1>4 DEF BeginWrite, Write, queues
<1>5. ASSUME NEW s \in sends, FinishDelivery(s)
      PROVE  UNCHANGED controls \/ \E k : controls' = Append(controls, k) /\ ParentAdds(k)
  <2>1. controls' = controls \/ controls' = Append(controls, Receipt(s.id, s.at = "sent"))
    BY <1>5, Zenon DEF FinishDelivery
  <2> QED
    BY <1>5, <2>1, Zenon DEF ParentAdds
<1>6. CASE ReadNotification \/ ReadAnswer \/ ReadTerminal \/ ReadProcessed \/ ReadSocketClose \/ ReadDisconnected
           \/ ChildEnded \/ EndClose
  BY <1>6 DEF ReadNotification, ReadAnswer, ReadTerminal, ReadProcessed, ReadSocketClose, ReadDisconnected,
              ChildEnded, EndClose, queues
<1>7. CASE ReadState
  <2>1. CASE StateRefused
    BY <1>7, <2>1, Zenon DEF Reject, ReadState, StateRefused
  <2>2. CASE ~StateRefused
    <3> DEFINE sent == conn[Head(results).c].registered /\ ~conn[Head(results).c].closed
    <3>1. controls' = controls \/ controls' = Append(controls, ReceiptOf(sent))
      BY <1>7, <2>2, Zenon DEF Reject, ReadState, StateRefused, ReceiptOf
    <3> QED
      BY <1>7, <2>2, <3>1, Zenon DEF ParentAdds
  <2> QED
    BY <2>1, <2>2
<1> QED
  BY <1>1, <1>2, <1>3, <1>4, <1>5, <1>6, <1>7, Zenon DEF FromParent, Parent, ParentStep, ClientSends, ParentAdds
\* The child's side stays.
LEMMA ChildRests ==
  ASSUME NEW c \in Connections, UNCHANGED <<chan, syncs>>
  PROVE  /\ SyncsFollow(c) => SyncsKeep(c)
         /\ \A n : IsOut(c, n)' <=> IsOut(c, n)
         /\ (Idle(c)' <=> Idle(c)) /\ (AllRevoked(c)' <=> AllRevoked(c))
BY DEF SyncsKeep, SyncsFollow, IsOut, Idle, AllRevoked
\* The first report of a session's binding that the parent takes is the next one.
LEMMA StateAccepted ==
  ASSUME TypeInv, StatesFollow, ReadState
  PROVE  ~StateRefused
<1>1. /\ results \in Seq(Result) /\ results # <<>> /\ Head(results) \in Result /\ Head(results).kind = "state"
      /\ Head(results).c \in Connections
  BY ReadingTypes, BindingTypes DEF ReadState, Result
<1>2. Head(results) \in Items(results) /\ Head(results) \in States(Head(results).c)
  BY <1>1, ItemsOf DEF States, StateOf
<1>3. Live(Head(results).c) => /\ Head(results).n = conn[Head(results).c].rev + 1
                               /\ conn[Head(results).c].revoked => Head(results).revoked
  BY <1>1, <1>2 DEF StatesFollow, StateFlows, ReportNext
<1> QED
  BY <1>3 DEF StateRefused, Live
\* A step of the parent keeps the flow of the reports.
LEMMA ParentFlows ==
  ASSUME TypeInv, TypeInv', LivesInv, FenceInv, StatesFollow, FromParent, NEW c \in Connections
  PROVE  SyncsFollow(c)' /\ StateFlows(c)'
<1>1. UNCHANGED <<chan, syncs, childAlive>>
  BY ParentBindings DEF ParentBinds, childVars, sessionVars
<1>2. SyncsFollow(c) /\ StateFlows(c)
  BY DEF StatesFollow
<1>3. /\ SyncsKeep(c) /\ \A n : IsOut(c, n)' <=> IsOut(c, n)
      /\ (Idle(c)' <=> Idle(c)) /\ (AllRevoked(c)' <=> AllRevoked(c))
  BY <1>1, <1>2, ChildRests
<1>4. SyncsFollow(c)'
  BY <1>3 DEF SyncsKeep
<1>5. Live(c)' => Live(c)
  BY ParentLive
<1>6. results \in Seq(Result) /\ controls \in Seq(ControlMsg)
  BY DEF TypeInv, ChannelsType
<1>7. ReadState => ~StateRefused
  BY StateAccepted
<1> DEFINE r == Head(results)
           Here == ReadState /\ r.c = c
<1>8. CASE ~Here
  <2>1. conn'[c].rev = conn[c].rev /\ conn'[c].revoked = conn[c].revoked
    <3>1. CASE ReadState
      BY <1>7, <1>8, <3>1, ReadStateConn, Zenon
    <3>2. CASE ~ReadState
      BY <3>2, ParentBinding DEF SameBinding
    <3> QED
      BY <3>1, <3>2
  <2>2. UNCHANGED results \/ (results # <<>> /\ results' = Tail(results))
    BY ParentReads DEF TakesReport
  <2>3. ASSUME NEW k, ParentAdds(k)
        PROVE  k \notin Receipts(c)
    <3>1. CASE k.kind # "receipt"
      BY <3>1 DEF Receipts
    <3>2. ASSUME NEW s \in sends, FinishDelivery(s), k = Receipt(s.id, s.at = "sent")
          PROVE  k \notin Receipts(c)
      <4>1. s.id[2] = s.kind /\ s.kind # "state"
        BY DEF FenceInv, Named, TypeInv, ParentType, Send
      <4> QED
        BY <3>2, <4>1 DEF Receipt, Receipts
    <3>3. CASE ReadState /\ ~StateRefused /\ k = ReceiptOf(conn[r.c].registered /\ ~conn[r.c].closed)
      <4>1. k.id[1] = r.c
        BY <3>3 DEF ReceiptOf, Receipt
      <4> QED
        BY <1>8, <3>3, <4>1 DEF Receipts
    <3> QED
      BY <2>3, <3>1, <3>2, <3>3 DEF ParentAdds
  <2>4. UNCHANGED controls \/ \E k : controls' = Append(controls, k) /\ k \notin Receipts(c)
    BY <2>3, ParentTells
  <2>5. FewerStates(c)
    BY <1>2, <2>2, <2>4, FewerReports, FewerControls DEF StateFlows, FewerStates
  <2>6. SameKnown(c)
    BY <1>5, <2>1 DEF SameKnown
  <2> QED
    BY <1>1, <1>2, <1>3, <1>4, <2>5, <2>6, QuietFlows
<1>9. CASE Here
  <2>1. /\ results # <<>> /\ r \in Result /\ r.kind = "state" /\ results' = Tail(results) /\ r.n \in Nat
    BY <1>9, ReadingTypes DEF ReadState, Result
  <2>2. r \in Items(results) /\ r \in States(c)
    BY <1>6, <1>9, <2>1, ItemsOf DEF States, StateOf
  <2>3. /\ \A k \in Items(controls) : k \notin Receipts(c)
        /\ Live(c) => r.n = conn[c].rev + 1 /\ (conn[c].revoked => r.revoked)
        /\ childAlive => IsOut(c, r.n) /\ (r.revoked => AllRevoked(c))
    BY <1>2, <2>2 DEF StateFlows, ReportNext
  <2>4. Once(Tail(results), States(c)) /\ \A m \in Items(Tail(results)) : m \notin States(c)
    BY <1>2, <1>6, <2>1, <2>2, OnceTail DEF StateFlows
  <2>5. Once(results, States(c))' /\ \A m \in Items(results)' : m \notin States(c)
    BY <2>1, <2>4 DEF Once, Items, States
  <2> DEFINE current == conn[c].registered /\ ~conn[c].closed
             k == ReceiptOf(current)
  <2>6. controls' = controls \/ controls' = Append(controls, k)
    <3>1. controls' = controls \/ controls' = Append(controls, Receipt(<<r.c, "state", r.n>>, conn[r.c].registered /\ ~conn[r.c].closed))
      BY <1>7, <1>9, Zenon DEF Reject, ReadState, StateRefused
    <3> QED
      BY <1>9, <3>1 DEF ReceiptOf
  <2>7. k \in ControlMsg /\ k.id[3] = r.n /\ (k.sent <=> current)
    <3>1. current \in BOOLEAN
      OBVIOUS
    <3> HIDE DEF current
    <3> QED
      BY <1>9, <2>1, <3>1 DEF ReceiptOf, Receipt, ControlMsg, Ids
  <2>8. conn'[c].rev = (IF current THEN r.n ELSE conn[c].rev) /\ conn'[c].revoked = (IF current THEN r.revoked ELSE conn[c].revoked)
    BY <1>7, <1>9, ReadStateConn, Zenon
  <2>9. current = (conn[c].registered /\ ~conn[c].closed)
    OBVIOUS
  <2> HIDE DEF current
  <2>11. Items(controls)' \subseteq Items(controls) \cup {k} /\ Once(controls, Receipts(c))'
    <3>1. Items(Append(controls, k)) = Items(controls) \cup {k} /\ Once(Append(controls, k), Receipts(c))
      BY <1>2, <1>6, <2>3, <2>7, ItemsOf, OnceAppend DEF StateFlows
    <3>2. Items(controls)' = Items(controls') /\ (Once(controls', Receipts(c)) => Once(controls, Receipts(c))')
      BY DEF Items, Once, Receipts
    <3> QED
      BY <1>2, <2>6, <3>1, <3>2 DEF StateFlows
  <2> HIDE DEF k
  <2>12. ReportNext(c)'
    BY <2>5 DEF ReportNext, States
  <2>13. ReceiptNext(c)'
    <3> SUFFICES ASSUME NEW e \in Items(controls)', e \in Receipts(c)
                 PROVE  /\ Live(c)' /\ e.sent => conn'[c].rev = e.id[3]
                        /\ childAlive' => IsOut(c, e.id[3])'
      BY DEF ReceiptNext, Receipts
    <3>1. e = k
      BY <2>3, <2>11
    <3> QED
      BY <1>1, <1>3, <2>3, <2>7, <2>8, <3>1
  <2>14. Agreed(c)'
    <3>1. childAlive => ~Idle(c)
      BY <2>3 DEF IsOut, Idle
    <3>2. childAlive' /\ Live(c)' /\ conn'[c].revoked => AllRevoked(c)'
      <4>1. conn[c].revoked /\ childAlive /\ Live(c) => AllRevoked(c)
        BY <1>2 DEF StateFlows, Agreed
      <4> QED
        BY <1>1, <1>3, <1>5, <2>3, <2>8, <4>1
    <3> QED
      BY <1>1, <1>3, <3>1, <3>2 DEF Agreed
  <2> QED
    BY <1>4, <2>5, <2>11, <2>12, <2>13, <2>14 DEF StateFlows
<1> QED
  BY <1>8, <1>9
\* A step of the child that reports no binding.
QuietResults(c) == \E t \in Seq(Result) : results' = results \o t /\ \A r \in Items(t) : r \notin States(c)
\* Only the publication of a binding reports one.
LEMMA QuietEmits ==
  ASSUME TypeInv, Emits, \A d \in Connections : ~PublishBinding(d), NEW c \in Connections
  PROVE  QuietResults(c)
<1>1. CASE Answered
  <2>1. PICK ok \in BOOLEAN : Takes /\ Emit(<<Answer(Head(commands).seq, ok)>>)
    BY <1>1 DEF Answered
  <2>2. Head(commands).seq \in Nat
    BY <2>1, TakenTypes DEF Takes
  <2>3. Answer(Head(commands).seq, ok) \in Result /\ Answer(Head(commands).seq, ok).kind = "result"
    BY <2>2, AnswerType DEF Answer
  <2> DEFINE e == Answer(Head(commands).seq, ok)
  <2> HIDE DEF e
  <2>4. e \in Result /\ e.kind = "result" /\ Emit(<<e>>)
    BY <2>1, <2>3 DEF e
  <2>5. <<e>> \in Seq(Result) /\ results' = results \o <<e>> /\ Items(<<e>>) = {e}
    BY <2>4, EmitOneTypes DEF Items
  <2> QED
    BY <2>4, <2>5 DEF States, StateOf, QuietResults
<1>2. CASE Aside
  BY <1>2 DEF Aside, States, StateOf, QuietResults
<1> QED
  BY <1>1, <1>2 DEF Emits
\* The report of a binding goes out.
LEMMA PublishFlows ==
  ASSUME TypeInv, TypeInv', StatesFollow, childAlive, NEW c \in Connections, PublishBinding(c), UNCHANGED parentVars
  PROVE  SyncsFollow(c)' /\ StateFlows(c)'
<1> DEFINE s == Head(syncs[c])
           e == [kind |-> "state", c |-> c, n |-> s.n, bound |-> s.bound, revoked |-> s.revoked]
<1>1. SyncsFollow(c) /\ StateFlows(c)
  BY DEF StatesFollow
<1>2. /\ SyncsFollow(c)' /\ (AllRevoked(c) => AllRevoked(c)') /\ ~Idle(c)' /\ Idle(c)
      /\ \A n \in Nat : ~IsOut(c, n) /\ (n = s.n => IsOut(c, n)')
      /\ s.n = chan[c].synced + 1
      /\ s.revoked => AllRevoked(c)'
      /\ AllRevoked(c) => s.revoked
  BY <1>1, PublishFollows
<1>3. /\ results \in Seq(Result) /\ controls \in Seq(ControlMsg) /\ s \in Sync
      /\ UNCHANGED <<controls, childAlive>> /\ Emit(<<e>>)
  <2>1. UNCHANGED <<controls, childAlive>> /\ Emit(<<e>>)
    BY DEF PublishBinding
  <2>2. results \in Seq(Result) /\ controls \in Seq(ControlMsg)
    BY DEF TypeInv, ChannelsType
  <2> QED
    BY <2>1, <2>2, PublishBindingTypes
<1>4. e \in Result /\ e \in States(c) /\ e.n = s.n /\ e.revoked = s.revoked
  BY <1>3 DEF Result, Sync, States, StateOf
<1> HIDE DEF e, s
<1>5. results' = Append(results, e)
  BY <1>3, <1>4 DEF Emit
<1>6. \A r \in Items(results) : r \notin States(c)
  <2>1. \A r \in Items(results) : r \in States(c) => r.n \in Nat /\ IsOut(c, r.n)
    BY <1>1 DEF StateFlows, ReportNext, States, StateOf, Result
  <2> QED
    BY <1>2, <2>1
<1>7. \A k \in Items(controls) : k \notin Receipts(c)
  <2>1. \A k \in Items(controls) : k \in Receipts(c) => k.id[3] \in Nat /\ IsOut(c, k.id[3])
    BY <1>1 DEF StateFlows, ReceiptNext, Receipts, ControlMsg, Ids
  <2> QED
    BY <1>2, <2>1
<1>8. Once(results, States(c))'
  <2>1. Once(Append(results, e), States(c))
    BY <1>1, <1>3, <1>4, <1>6, OnceAppend DEF StateFlows
  <2> QED
    BY <1>5, <2>1 DEF Once, States
<1>9. Once(controls, Receipts(c))'
  BY <1>1, <1>3 DEF StateFlows, Once, Receipts
<1>10. \A r \in Items(results)' : r \in States(c) => r = e
  <2>1. Items(Append(results, e)) = Items(results) \cup {e}
    BY <1>3, <1>4, ItemsOf
  <2>2. Items(results)' = Items(results')
    BY DEF Items
  <2> QED
    BY <1>5, <1>6, <2>1, <2>2
<1>11. UNCHANGED <<conn, worker>>
  BY DEF parentVars, connVars
<1>12. \A k \in Items(controls)' : k \notin Receipts(c)
  BY <1>3, <1>7 DEF Items
<1>13. ReportNext(c)'
  <2> SUFFICES ASSUME NEW r \in Items(results)', r \in States(c)
               PROVE  /\ \A k \in Items(controls)' : k \notin Receipts(c)
                      /\ Live(c)' => r.n = conn'[c].rev + 1 /\ (conn'[c].revoked => r.revoked)
                      /\ childAlive' => IsOut(c, r.n)' /\ (r.revoked => AllRevoked(c)')
    BY DEF ReportNext, States
  <2>1. r = e
    BY <1>10
  <2>2. Live(c)' => conn[c].rev = chan[c].synced /\ (conn[c].revoked => AllRevoked(c))
    BY <1>1, <1>2, <1>11 DEF StateFlows, Agreed, Live
  <2>3. Live(c)' => r.n = conn'[c].rev + 1
    BY <1>2, <1>4, <1>11, <2>1, <2>2
  <2>4. Live(c)' /\ conn'[c].revoked => r.revoked
    <3>1. r.revoked = s.revoked /\ conn' = conn
      BY <1>4, <1>11, <2>1
    <3> QED
      BY <1>2, <2>2, <3>1
  <2>5. IsOut(c, r.n)' /\ (r.revoked => AllRevoked(c)')
    <3>1. r.revoked = s.revoked /\ r.n = s.n /\ r.n \in Nat
      BY <1>3, <1>4, <2>1 DEF Sync
    <3> QED
      BY <1>2, <3>1
  <2> QED
    BY <1>12, <2>3, <2>4, <2>5
<1>14. ReceiptNext(c)'
  BY <1>12 DEF ReceiptNext, Receipts
<1>15. Agreed(c)'
  BY <1>1, <1>2, <1>11 DEF StateFlows, Agreed, Live
<1> QED
  BY <1>2, <1>8, <1>9, <1>13, <1>14, <1>15 DEF StateFlows
\* The receipt for it arrives.
LEMMA SettledFlows ==
  ASSUME TypeInv, TypeInv', StatesFollow, childAlive, NEW c \in Connections, Settled(c), QuietResults(c),
         UNCHANGED parentVars
  PROVE  SyncsFollow(c)' /\ StateFlows(c)'
<1>1. SyncsFollow(c) /\ StateFlows(c)
  BY DEF StatesFollow
<1>2. /\ SyncsFollow(c)' /\ (AllRevoked(c) => AllRevoked(c)')
      /\ IF Rcpt.sent THEN chan'[c].synced = Rcpt.id[3] ELSE ~Idle(c)'
  BY <1>1, SettledFollows
<1>3. /\ controls \in Seq(ControlMsg) /\ controls # <<>> /\ controls' = Tail(controls)
      /\ Rcpt = Head(controls) /\ Rcpt \in ControlMsg /\ Rcpt \in Receipts(c)
  <2>1. controls \in Seq(ControlMsg)
    BY DEF TypeInv, ChannelsType
  <2>2. /\ controls # <<>> /\ controls' = Tail(controls) /\ Head(controls) \in ControlMsg
        /\ Head(controls).kind = "receipt"
    BY ControlTypes DEF Settled
  <2> QED
    BY <2>1, <2>2 DEF Rcpt, Receipts, Settled
<1>4. Rcpt \in Items(controls)
  BY <1>3, ItemsOf
<1>5. Live(c) /\ Rcpt.sent => conn[c].rev = Rcpt.id[3]
  BY <1>1, <1>3, <1>4 DEF StateFlows, ReceiptNext
<1>6. Once(Tail(controls), Receipts(c)) /\ \A k \in Items(Tail(controls)) : k \notin Receipts(c)
  BY <1>1, <1>3, OnceTail DEF StateFlows
<1>7. Once(controls, Receipts(c))' /\ \A k \in Items(controls)' : k \notin Receipts(c)
  BY <1>3, <1>6 DEF Once, Items, Receipts
<1>8. \A r \in Items(results) : r \notin States(c)
  BY <1>1, <1>3, <1>4 DEF StateFlows, ReportNext
<1>9. Once(results, States(c))' /\ \A r \in Items(results') : r \in States(c) => r \in Items(results)
  BY <1>1, FewerReports DEF StateFlows, QuietResults
<1>10. \A r \in Items(results)' : r \notin States(c)
  BY <1>8, <1>9 DEF Items
<1>11. UNCHANGED <<conn, worker>>
  BY DEF parentVars, connVars
<1>12. ReportNext(c)' /\ ReceiptNext(c)'
  BY <1>7, <1>10 DEF ReportNext, ReceiptNext, States, Receipts
<1>13. Agreed(c)'
  BY <1>1, <1>2, <1>5, <1>11 DEF StateFlows, Agreed, Live
<1> QED
  BY <1>2, <1>7, <1>9, <1>12, <1>13 DEF StateFlows
\* What the moves of its publications keep while the session's reports rest.
LEMMA MovesFlow ==
  ASSUME TypeInv, TypeInv', StatesFollow, childAlive, NEW c \in Connections, UNCHANGED parentVars,
         SyncStill(c) \/ SyncCut(c) \/ SyncGrow(c), FewerStates(c)
  PROVE  SyncsFollow(c)' /\ StateFlows(c)'
<1>1. SyncsFollow(c) /\ StateFlows(c)
  BY DEF StatesFollow
<1>2. SyncsKeep(c)
  BY <1>1, StillKeeps, CutKeeps, GrowKeeps
<1>3. SameKnown(c)
  BY DEF SameKnown, parentVars, connVars, Live
<1> QED
  BY <1>1, <1>2, <1>3, QuietFlows DEF SyncsKeep
\* A step of the child keeps the flow of the reports.
LEMMA ChildFlows ==
  ASSUME TypeInv, TypeInv', StatesFollow, Child, NEW c \in Connections
  PROVE  SyncsFollow(c)' /\ StateFlows(c)'
<1>1. childAlive /\ ChildStep /\ UNCHANGED parentVars
  BY DEF Child, ChildStep
<1>2. Emits
  BY ChildEmits
<1>3. Once(results, States(c)) /\ Once(controls, Receipts(c))
  BY DEF StatesFollow, StateFlows
<1>4. CASE PublishBinding(c)
  BY <1>1, <1>4, PublishFlows
<1>5. ASSUME NEW d \in Connections, d # c, PublishBinding(d)
      PROVE  SyncsFollow(c)' /\ StateFlows(c)'
  <2> DEFINE s == Head(syncs[d])
             e == [kind |-> "state", c |-> d, n |-> s.n, bound |-> s.bound, revoked |-> s.revoked]
  <2>1. UNCHANGED <<chan, controls>> /\ syncs'[c] = syncs[c]
    BY <1>5 DEF PublishBinding, TypeInv, ChildType
  <2>2. SyncStill(c)
    BY <2>1 DEF SyncStill
  <2>3. s \in Sync /\ Emit(<<e>>)
    BY <1>5, PublishBindingTypes DEF PublishBinding
  <2>4. e \in Result /\ e \notin States(c)
    BY <1>5, <2>3 DEF Result, Sync, States, StateOf
  <2> HIDE DEF e
  <2>5. <<e>> \in Seq(Result) /\ results' = results \o <<e>> /\ Items(<<e>>) = {e}
    BY <2>3, <2>4, EmitOneTypes DEF Items
  <2>6. \E t \in Seq(Result) : results' = results \o t /\ \A r \in Items(t) : r \notin States(c)
    BY <2>4, <2>5
  <2>7. FewerStates(c)
    BY <1>3, <2>1, <2>6, FewerReports, FewerControls DEF FewerStates
  <2> QED
    BY <1>1, <2>2, <2>7, MovesFlow
<1>6. CASE \A d \in Connections : ~PublishBinding(d)
  <2>1. QuietResults(c)
    BY <1>2, <1>6, QuietEmits
  <2>2. FewerStates(c)
    BY <1>3, <2>1, FewerReports, FewerControls, ChildTakesControls DEF FewerStates, QuietResults
  <2>3. SyncMoves(c)
    BY <1>1, ChildSyncs
  <2>4. CASE Settled(c)
    BY <1>1, <2>1, <2>4, SettledFlows
  <2>5. CASE SyncStill(c) \/ SyncCut(c) \/ SyncGrow(c)
    BY <1>1, <2>2, <2>5, MovesFlow
  <2> QED
    BY <1>6, <2>3, <2>4, <2>5 DEF SyncMoves
<1> QED
  BY <1>4, <1>5, <1>6
\* The child is lost: nothing of its sessions is left.
LEMMA LostFlows ==
  ASSUME TypeInv, TypeInv', StatesFollow, ChildLost, NEW c \in Connections, FewerStates(c), SameKnown(c)
  PROVE  SyncsFollow(c)' /\ StateFlows(c)'
<1>1. SyncsFollow(c) /\ StateFlows(c)
  BY DEF StatesFollow
<1>2. ~childAlive'
  BY DEF ChildLost
<1>3. syncs'[c] = <<>> /\ chan'[c] = NoSession /\ Len(<<>>) = 0 /\ 0 + 0 = 0
  BY DEF ChildLost, Each
<1>4. NoSession.synced = 0 /\ NoSession.rev = 0 /\ NoSession.syncLost = FALSE
  BY DEF NoSession
<1>5. SyncsFollow(c)'
  BY <1>3, <1>4 DEF SyncsFollow
<1> QED
  BY <1>1, <1>2, <1>5, QuietFlows
\* A step keeps the flow of the reports.
LEMMA FlowsStep ==
  ASSUME TypeInv, TypeInv', LivesInv, FenceInv, StatesFollow, [Next]_vars
  PROVE  StatesFollow'
<1> SUFFICES ASSUME NEW c \in Connections
             PROVE  SyncsFollow(c)' /\ StateFlows(c)'
  BY DEF StatesFollow
<1>0. Once(results, States(c)) /\ Once(controls, Receipts(c)) /\ SyncsFollow(c) /\ StateFlows(c)
  BY DEF StatesFollow, StateFlows
<1>1. CASE FromParent
  BY <1>1, ParentFlows
<1>2. CASE Child
  BY <1>2, ChildFlows
<1>3. CASE CloseTimeout /\ ChildLost
  <2>1. UNCHANGED <<results, controls>> /\ Fail("unknown")
    BY <1>3 DEF CloseTimeout, queues
  <2>2. conn'[c].rev = conn[c].rev /\ conn'[c].revoked = conn[c].revoked
    BY <2>1, FailConn DEF SameBinding
  <2>3. Live(c)' => Live(c)
    <3>1. /\ conn'[c].registered => conn[c].registered
          /\ conn[c].closed => conn'[c].closed
      BY <2>1, FailConn
    <3>2. worker'[c].at = "new" => worker[c].at = "new"
      BY <2>1, FailWorker
    <3> QED
      BY <3>1, <3>2 DEF Live
  <2>4. FewerStates(c)
    BY <1>0, <2>1, FewerReports, FewerControls DEF FewerStates
  <2> QED
    BY <1>3, <2>2, <2>3, <2>4, LostFlows DEF SameKnown
<1>4. CASE ChildDies /\ UNCHANGED parentVars
  <2>1. ChildLost /\ UNCHANGED controls
    BY <1>4 DEF ChildDies
  <2>2. \E i \in 0..Len(results) : results' = SubSeq(results, 1, i)
    BY <1>4, ChildDiesTypes
  <2>3. FewerStates(c)
    BY <1>0, <2>1, <2>2, FewerReports, FewerControls DEF FewerStates
  <2>4. SameKnown(c)
    BY <1>4 DEF SameKnown, parentVars, connVars, Live
  <2> QED
    BY <2>1, <2>3, <2>4, LostFlows
<1>5. CASE childAlive /\ (\E d \in Connections : Revoke(d)) /\ UNCHANGED parentVars
  <2>1. PICK d \in Connections : Revoke(d)
    BY <1>5
  <2>2. UNCHANGED <<results, controls>> /\ RequestClose(d)
    BY <2>1 DEF Revoke, queues
  <2>3. SyncStill(c) \/ SyncGrow(c)
    BY <2>2, RequestCloseSyncs
  <2>4. FewerStates(c)
    BY <1>0, <2>2, FewerReports, FewerControls DEF FewerStates
  <2> QED
    BY <1>5, <2>3, <2>4, MovesFlow
<1>6. CASE (\E d \in Connections : ClientLost(d)) /\ UNCHANGED childVars
  <2>1. PICK d \in Connections : ClientLost(d)
    BY <1>6
  <2>2. UNCHANGED <<results, controls, childAlive, worker, chan, syncs>>
    BY <1>6, <2>1 DEF ClientLost, queues, childVars, sessionVars
  <2>3. SameKnown(c)
    BY <2>1, <2>2, ClientLostConn DEF SameKnown, SameBinding, Live
  <2>4. FewerStates(c)
    BY <1>0, <2>2, FewerReports, FewerControls DEF FewerStates
  <2>5. SyncsKeep(c)
    BY <1>0, <2>2, ChildRests
  <2> QED
    BY <1>0, <2>2, <2>3, <2>4, <2>5, QuietFlows DEF SyncsKeep
<1>7. CASE StartClose /\ UNCHANGED childVars
  <2>1. UNCHANGED <<results, childAlive, conn, worker, chan, syncs>>
    BY <1>7 DEF StartClose, connVars, childVars, sessionVars
  <2>2. controls' = controls \/ controls' = Append(controls, [kind |-> "shutdown", seq |-> sequence])
    BY <1>7, Zenon DEF StartClose
  <2>3. [kind |-> "shutdown", seq |-> sequence] \notin Receipts(c)
    BY DEF Receipts
  <2>4. FewerStates(c)
    BY <1>0, <2>1, <2>2, <2>3, FewerReports, FewerControls DEF FewerStates
  <2>5. SameKnown(c)
    BY <2>1 DEF SameKnown, Live
  <2>6. SyncsKeep(c)
    BY <1>0, <2>1, ChildRests
  <2> QED
    BY <1>0, <2>1, <2>4, <2>5, <2>6, QuietFlows DEF SyncsKeep
<1>8. CASE UNCHANGED vars
  <2>1. UNCHANGED <<results, controls, childAlive, conn, worker, chan, syncs>>
    BY <1>8 DEF vars, queues, parentVars, connVars, childVars, sessionVars
  <2>2. FewerStates(c)
    BY <1>0, <2>1, FewerReports, FewerControls DEF FewerStates
  <2>3. SyncsKeep(c)
    BY <1>0, <2>1, ChildRests
  <2> QED
    BY <1>0, <2>1, <2>2, <2>3, QuietFlows DEF SyncsKeep, SameKnown, Live
<1> QED
  BY <1>1, <1>2, <1>3, <1>4, <1>5, <1>6, <1>7, <1>8, StepCases

------------------------------------------------------------------------------
\* A step of the child takes the lock of a session for a message ...
Locks(d) ==
    /\ sending[d] = Nobody /\ ~sending'[d].out
    /\ chan'[d] = chan[d] /\ admitted'[d] = admitted[d]
    /\ sending'[d].kind = "message" => chan[d].at = "send" /\ sending'[d].n = chan[d].current
    /\ sending'[d].kind = "revoked" => chan[d].closer = "asked" /\ sending'[d].n = 0
    /\ sending'[d].kind = "completion" =>
          sending'[d].n = Head(admitted[d]).seq /\ sending'[d].q = Head(admitted[d]).q
\* ... or hands the message under it over ...
Puts(d) ==
    /\ ~sending[d].out /\ sending'[d].out
    /\ sending'[d].kind = sending[d].kind /\ sending'[d].n = sending[d].n /\ sending'[d].q = sending[d].q
    /\ chan'[d] = chan[d] /\ admitted'[d] = admitted[d]
\* ... or frees it: who sent goes on elsewhere.
Frees(d) ==
    /\ sending'[d] = Nobody
    /\ sending[d].kind = "message" => chan'[d].at \notin Works
    /\ sending[d].kind = "revoked" => chan'[d].closer # "asked"
SendTurn(d) == sending'[d] = sending[d] \/ Frees(d) \/ Locks(d) \/ Puts(d)
PlaceTurn(d) ==
    \/ chan'[d].at \notin Works
    \/ chan[d].at \in Works /\ chan'[d].current = chan[d].current
    \/ chan[d].at = "receive" /\ chan[d].inbox # <<>> /\ chan'[d].current = Head(chan[d].inbox)
CloserTurn(d) ==
    /\ chan[d].revoked => chan'[d].revoked
    /\ chan'[d].closer = "asked" => chan[d].closer = "asked" \/ (~chan[d].revoked /\ chan'[d].revoked)
    /\ chan[d].closer = "asked" /\ chan'[d].closer # "asked" => sending'[d].kind # "revoked"
SameCommands(d) ==
    /\ Len(admitted'[d]) = Len(admitted[d])
    /\ \A i \in 1..Len(admitted[d]) :
          admitted'[d][i].seq = admitted[d][i].seq /\ admitted'[d][i].q = admitted[d][i].q
Accepts(d) ==
    /\ Takes /\ sending'[d] = sending[d]
    /\ \E a \in Admission : a.seq = Head(commands).seq /\ admitted'[d] = Append(admitted[d], a)
AdmittedTurn(d) ==
    \/ SameCommands(d) /\ (sending[d].kind = "completion" => sending'[d].kind = "completion")
    \/ admitted'[d] = <<>>
    \/ admitted[d] # <<>> /\ admitted'[d] = Tail(admitted[d]) /\ sending'[d].kind # "completion"
    \/ Accepts(d)
Turn(d) == SendTurn(d) /\ PlaceTurn(d) /\ CloserTurn(d) /\ AdmittedTurn(d)

\* A session that a step does not touch.
LEMMA RestTurns ==
  ASSUME NEW d \in Connections, chan'[d] = chan[d], sending'[d] = sending[d], admitted'[d] = admitted[d]
  PROVE  Turn(d)
<1>1. SendTurn(d) /\ PlaceTurn(d) /\ CloserTurn(d)
  BY DEF SendTurn, PlaceTurn, CloserTurn
<1>2. AdmittedTurn(d)
  BY DEF AdmittedTurn, SameCommands
<1> QED
  BY <1>1, <1>2 DEF Turn
\* A step that sends and admits nothing.
LEMMA PlainTurns ==
  ASSUME NEW d \in Connections, sending'[d] = sending[d], admitted'[d] = admitted[d], PlaceTurn(d), CloserTurn(d)
  PROVE  Turn(d)
<1>1. SendTurn(d)
  BY DEF SendTurn
<1>2. AdmittedTurn(d)
  BY DEF AdmittedTurn, SameCommands
<1> QED
  BY <1>1, <1>2 DEF Turn
\* Where the place and the closer stay.
LEMMA SamePlaceTurns ==
  ASSUME NEW d \in Connections, SamePlace(d), chan'[d].current = chan[d].current
  PROVE  PlaceTurn(d)
BY DEF PlaceTurn, SamePlace
\* Where the closer stays.
LEMMA SameCloserTurns ==
  ASSUME NEW d \in Connections, SameCloser(d), chan[d].revoked => chan'[d].revoked
  PROVE  CloserTurn(d)
BY DEF CloserTurn, SameCloser
\* Forgetting a message.
LEMMA ForgetSending ==
  ASSUME TypeInv, NEW c \in Connections, NEW kind, Forget(c, kind), NEW d \in Connections
  PROVE  sending'[d] = IF d = c /\ sending[c].kind = kind THEN Nobody ELSE sending[d]
<1>1. sending \in [Connections -> Sending]
  BY DEF TypeInv, ChildType
<1>2. sending' = IF sending[c].kind = kind THEN [sending EXCEPT ![c] = Nobody] ELSE sending
  BY Zenon DEF Forget
<1> QED
  BY <1>1, <1>2
\* A session is cancelled.
LEMMA CancelTurns ==
  ASSUME TypeInv, NEW c \in Connections, Cancel(c), UNCHANGED admitted, NEW d \in Connections
  PROVE  Turn(d)
<1> DEFINE ch == [chan[c] EXCEPT !.disconnecting = TRUE]
<1>0. admitted'[d] = admitted[d] /\ Nobody.kind = "none"
  BY DEF Nobody
<1>1. CASE CancelLoop(c, ch)
  <2>1. Forget(c, "message")
    BY <1>1 DEF CancelLoop
  <2>2. sending'[d] = IF d = c /\ sending[c].kind = "message" THEN Nobody ELSE sending[d]
    BY <2>1, ForgetSending
  <2>3. /\ chan'[d].at = IF d = c THEN IF pump[c] = "off" THEN "unbinding" ELSE "pumpWait" ELSE chan[d].at
        /\ SameWork(d) /\ SameRevision(d) /\ SameCloser(d)
    BY <1>1, CancelLoopChan
  <2>4. PlaceTurn(d) /\ (d = c => chan'[d].at \notin Works)
    BY <2>3 DEF PlaceTurn, Works, SameWork
  <2>5. CloserTurn(d)
    BY <2>3, SameCloserTurns DEF SameRevision
  <2>6. SendTurn(d) /\ AdmittedTurn(d)
    BY <1>0, <2>2, <2>4 DEF SendTurn, Frees, AdmittedTurn, SameCommands
  <2> QED
    BY <2>4, <2>5, <2>6 DEF Turn
<1>2. CASE CancelSync(c, ch)
  <2>1. UNCHANGED sending
    BY <1>2, Zenon DEF CancelSync
  <2>2. /\ chan'[d].at = IF d = c THEN IF pump[c] = "off" THEN "unbinding" ELSE "pumpWait" ELSE chan[d].at
        /\ SameWork(d) /\ SameRevision(d) /\ SameCloser(d)
    BY <1>2, CancelSyncChan
  <2>3. PlaceTurn(d)
    BY <2>2 DEF PlaceTurn, Works, SameWork
  <2> QED
    BY <1>0, <2>1, <2>2, <2>3, PlainTurns, SameCloserTurns DEF SameRevision
<1>3. CASE CancelUnbind(c, ch)
  <2>1. Forget(c, "revoked")
    BY <1>3, Zenon DEF CancelUnbind
  <2>2. sending'[d] = IF d = c /\ sending[c].kind = "revoked" THEN Nobody ELSE sending[d]
    BY <2>1, ForgetSending
  <2>3. /\ chan'[d].at = IF d = c THEN "waiting" ELSE chan[d].at
        /\ SameWork(d) /\ SameRevision(d)
        /\ chan'[d].closer = IF d = c THEN "off" ELSE chan[d].closer
    BY <1>3, CancelUnbindChan
  <2>4. PlaceTurn(d)
    BY <2>3 DEF PlaceTurn, Works, SameWork
  <2>5. CloserTurn(d)
    BY <1>0, <2>2, <2>3 DEF SameRevision, CloserTurn
  <2>6. SendTurn(d) /\ AdmittedTurn(d)
    BY <1>0, <2>2, <2>3 DEF SendTurn, Frees, AdmittedTurn, SameCommands
  <2> QED
    BY <2>4, <2>5, <2>6 DEF Turn
<1>4. CASE CancelPumpWait(c, ch)
  <2>1. UNCHANGED sending
    BY <1>4, Zenon DEF CancelPumpWait
  <2>2. /\ chan'[d].at = IF d = c THEN "finalizing" ELSE chan[d].at
        /\ SameWork(d) /\ SameRevision(d) /\ SameCloser(d)
    BY <1>4, CancelPumpWaitChan
  <2>3. PlaceTurn(d)
    BY <2>2 DEF PlaceTurn, Works, SameWork
  <2> QED
    BY <1>0, <2>1, <2>2, <2>3, PlainTurns, SameCloserTurns DEF SameRevision
<1>5. CASE CancelWaiting(c, ch)
  <2>1. UNCHANGED sending /\ \E n : CancelPublication(c, n, [ch EXCEPT !.at = "finalizing"])
    BY <1>5, Zenon DEF CancelWaiting
  <2>2. /\ chan'[d].at = IF d = c THEN "finalizing" ELSE chan[d].at
        /\ SameWork(d) /\ SameRevision(d) /\ SameCloser(d)
    BY <2>1, CancelPublicationChan
  <2>3. PlaceTurn(d)
    BY <2>2 DEF PlaceTurn, Works, SameWork
  <2> QED
    BY <1>0, <2>1, <2>2, <2>3, PlainTurns, SameCloserTurns DEF SameRevision
<1> HIDE DEF ch
<1> QED
  BY <1>1, <1>2, <1>3, <1>4, <1>5, Zenon DEF Cancel, ch
\* A message is over.
LEMMA SendOverTurns ==
  ASSUME TypeInv, NEW c \in Connections, NEW sent \in BOOLEAN, SendOver(c, sent), NEW d \in Connections
  PROVE  Turn(d)
<1>0. /\ sending \in [Connections -> Sending] /\ admitted \in [Connections -> Seq(Admission)]
      /\ sending[c].kind = "completion" => admitted[c] # <<>>
      /\ Nobody.kind = "none"
  BY DEF TypeInv, ChildType, CompletionHeld, Nobody
<1>1. sending'[d] = IF d = c THEN Nobody ELSE sending[d]
  BY <1>0 DEF SendOver
<1>2. CASE sending[c].kind = "message" /\ MessageSent(c)
  <2>1. /\ chan'[d].at = IF d = c THEN "receive" ELSE chan[d].at
        /\ d # c => chan'[d].current = chan[d].current
        /\ SameRevision(d) /\ SameCloser(d)
    BY <1>2, MessageSentChan
  <2>2. UNCHANGED admitted
    BY <1>2 DEF MessageSent
  <2>3. PlaceTurn(d)
    BY <2>1 DEF PlaceTurn, Works
  <2>4. CloserTurn(d)
    BY <2>1, SameCloserTurns DEF SameRevision
  <2>5. SendTurn(d)
    BY <1>1, <1>2, <2>1 DEF SendTurn, Frees, Works
  <2>6. AdmittedTurn(d)
    BY <1>1, <1>2, <2>2 DEF AdmittedTurn, SameCommands
  <2> QED
    BY <2>3, <2>4, <2>5, <2>6 DEF Turn
<1>3. CASE sending[c].kind = "message" /\ MessageLost(c)
  <2>1. /\ chan'[d].at = IF d = c THEN IF pump[c] = "off" THEN "unbinding" ELSE "pumpWait" ELSE chan[d].at
        /\ SameWork(d) /\ SameRevision(d) /\ SameCloser(d)
    BY <1>3, MessageLostChan
  <2>2. UNCHANGED admitted
    BY <1>3 DEF MessageLost
  <2>3. PlaceTurn(d)
    BY <2>1 DEF PlaceTurn, Works, SameWork
  <2>4. CloserTurn(d)
    BY <2>1, SameCloserTurns DEF SameRevision
  <2>5. SendTurn(d)
    BY <1>1, <1>3, <2>1 DEF SendTurn, Frees, Works
  <2>6. AdmittedTurn(d)
    BY <1>1, <1>3, <2>2 DEF AdmittedTurn, SameCommands
  <2> QED
    BY <2>3, <2>4, <2>5, <2>6 DEF Turn
<1>4. CASE sending[c].kind = "completion" /\ FinishFirst(c) /\ UNCHANGED <<chan, syncs>>
  <2>1. admitted'[d] = IF d = c THEN Tail(admitted[d]) ELSE admitted[d]
    BY <1>0, <1>4 DEF FinishFirst
  <2>2. PlaceTurn(d) /\ CloserTurn(d)
    BY <1>0, <1>1, <1>4 DEF PlaceTurn, CloserTurn
  <2>3. SendTurn(d)
    BY <1>1, <1>4 DEF SendTurn, Frees
  <2>4. AdmittedTurn(d)
    BY <1>0, <1>1, <1>4, <2>1 DEF AdmittedTurn, SameCommands
  <2> QED
    BY <2>2, <2>3, <2>4 DEF Turn
<1>5. CASE sending[c].kind = "completion" /\ CompletionLost(c)
  <2>1. /\ admitted'[d] = IF d = c THEN <<>> ELSE admitted[d]
        /\ UNCHANGED chan \/ (~chan[c].revoked /\ RequestClose(c))
    BY <1>0, <1>5 DEF CompletionLost
  <2>2. RequestClose(c) => /\ SamePlace(d) /\ SameWork(d)
                           /\ (chan'[d].revoked <=> (chan[d].revoked \/ d = c))
                           /\ chan'[d].closer = IF d = c THEN "asked" ELSE chan[d].closer
    BY RequestCloseChan
  <2>3. PlaceTurn(d)
    BY <2>1, <2>2, SamePlaceTurns DEF SamePlace, SameWork
  <2>4. CloserTurn(d)
    BY <1>0, <1>1, <2>1, <2>2 DEF CloserTurn
  <2>5. SendTurn(d)
    BY <1>1, <1>5 DEF SendTurn, Frees
  <2>6. AdmittedTurn(d)
    BY <1>0, <1>1, <2>1 DEF AdmittedTurn, SameCommands
  <2> QED
    BY <2>3, <2>4, <2>5, <2>6 DEF Turn
<1>6. CASE sending[c].kind = "revoked" /\ RevokedOver(c, sent)
  <2>1. /\ SamePlace(d) /\ SameWork(d) /\ SameRevision(d)
        /\ chan'[d].closer = IF d = c THEN IF sent THEN "told" ELSE "off" ELSE chan[d].closer
    BY <1>6, RevokedOverChan
  <2>2. UNCHANGED admitted
    BY <1>6 DEF RevokedOver
  <2>3. PlaceTurn(d)
    BY <2>1, SamePlaceTurns DEF SameWork
  <2>4. CloserTurn(d)
    BY <1>0, <1>1, <2>1 DEF CloserTurn, SameRevision
  <2>5. SendTurn(d)
    BY <1>1, <1>6, <2>1 DEF SendTurn, Frees
  <2>6. AdmittedTurn(d)
    BY <1>0, <1>1, <1>6, <2>2 DEF AdmittedTurn, SameCommands
  <2> QED
    BY <2>3, <2>4, <2>5, <2>6 DEF Turn
<1> QED
  BY <1>2, <1>3, <1>4, <1>5, <1>6, Zenon DEF SendOver
\* The owner thread ends a command or a call.
LEMMA OwnerTurns ==
  ASSUME TypeInv, OwnerRun, NEW d \in Connections
  PROVE  Turn(d)
<1> DEFINE m == Head(owner)
<1>0. Nobody.kind = "none" /\ admitted \in [Connections -> Seq(Admission)]
  BY DEF Nobody, TypeInv, ChildType
<1>1. m.c \in Connections /\ m.seq \in Nat
  <2>1. m \in Work
    BY OwnerRunTypes
  <2> QED
    BY <2>1 DEF Work
<1>2. \/ EndCommand(m.c, m.seq) \/ EndEnvelope(m.c, m.seq) \/ EndUnbind(m.c) \/ EndForNobody(m.c, m.what, m.seq)
  BY Zenon DEF OwnerRun
<1> HIDE DEF m
<1>3. CASE EndCommand(m.c, m.seq)
  <2> DEFINE s == admitted[m.c]
             ended == [i \in DOMAIN s |-> Ended(s[i], m.seq)]
  <2>1. UNCHANGED <<chan, sending>> /\ admitted' = [admitted EXCEPT ![m.c] = ended]
    BY <1>3 DEF EndCommand
  <2>2. s \in Seq(Admission)
    BY <1>0, <1>1
  <2>3. \A i \in 1..Len(s) : Ended(s[i], m.seq).seq = s[i].seq /\ Ended(s[i], m.seq).q = s[i].q
    <3>1. \A i \in 1..Len(s) : s[i] \in Admission
      BY <2>2
    <3> QED
      BY <3>1 DEF Admission, Ended
  <2>4. DOMAIN s = 1..Len(s) /\ Len(s) \in Nat
    BY <2>2
  <2>5. Len(ended) = Len(s) /\ \A i \in 1..Len(s) : ended[i] = Ended(s[i], m.seq)
    <3>1. DOMAIN ended = 1..Len(s)
      BY <2>4
    <3> QED
      BY <2>4, <3>1
  <2>6. admitted'[d] = IF d = m.c THEN ended ELSE admitted[d]
    BY <1>0, <2>1
  <2> HIDE DEF ended
  <2>7. SameCommands(d)
    BY <2>3, <2>5, <2>6 DEF SameCommands
  <2>8. SendTurn(d) /\ PlaceTurn(d) /\ CloserTurn(d) /\ AdmittedTurn(d)
    BY <2>1, <2>7 DEF SendTurn, PlaceTurn, CloserTurn, AdmittedTurn
  <2> QED
    BY <2>8 DEF Turn
<1>4. CASE EndEnvelope(m.c, m.seq)
  <2>1. /\ chan[m.c].at = "ownerWait" /\ UNCHANGED <<sending, admitted>>
        /\ Rebind(m.c) \/ KeepBinding(m.c)
    BY <1>4, Zenon DEF EndEnvelope, AwaitsOwner
  <2>2. /\ chan'[d].at = IF d = m.c THEN "sync" ELSE chan[d].at
        /\ SameWork(d) /\ chan'[d].revoked = chan[d].revoked /\ SameCloser(d)
    BY <1>1, <2>1, RebindChan, KeepBindingChan DEF SameRevision
  <2>3. PlaceTurn(d)
    BY <2>1, <2>2 DEF PlaceTurn, Works, SameWork
  <2> QED
    BY <2>1, <2>2, <2>3, PlainTurns, SameCloserTurns
<1>5. CASE EndUnbind(m.c)
  <2>1. Forget(m.c, "revoked") /\ UNCHANGED admitted
    BY <1>5, Zenon DEF EndUnbind
  <2>2. sending'[d] = IF d = m.c /\ sending[m.c].kind = "revoked" THEN Nobody ELSE sending[d]
    BY <1>1, <2>1, ForgetSending
  <2>3. /\ chan'[d].at = IF d = m.c THEN "waiting" ELSE chan[d].at
        /\ SameWork(d) /\ SameRevision(d)
        /\ chan'[d].closer = IF d = m.c THEN "off" ELSE chan[d].closer
    BY <1>1, <1>5, EndUnbindChan
  <2>4. PlaceTurn(d)
    BY <2>3 DEF PlaceTurn, Works, SameWork
  <2>5. CloserTurn(d)
    BY <1>0, <2>2, <2>3 DEF SameRevision, CloserTurn
  <2>6. SendTurn(d) /\ AdmittedTurn(d)
    BY <1>0, <2>1, <2>2, <2>3 DEF SendTurn, Frees, AdmittedTurn, SameCommands
  <2> QED
    BY <2>4, <2>5, <2>6 DEF Turn
<1>6. CASE EndForNobody(m.c, m.what, m.seq)
  <2>1. UNCHANGED <<sending, admitted>>
    BY <1>6, Zenon DEF EndForNobody
  <2>2. SamePlace(d) /\ SameWork(d) /\ SameRevision(d) /\ SameCloser(d)
    BY <1>1, <1>6, EndForNobodyChan
  <2> QED
    BY <2>1, <2>2, PlainTurns, SamePlaceTurns, SameCloserTurns DEF SameWork, SameRevision
<1> QED
  BY <1>2, <1>3, <1>4, <1>5, <1>6
\* The session's own steps.
LEMMA SessionTurns ==
  ASSUME TypeInv, NEW c \in Connections, NEW d \in Connections,
         \/ TakeEnvelope(c) \/ CallOwner(c) \/ AfterSync(c)
         \/ CloseSession(c) \/ EndSession(c) \/ FinishConnection(c) \/ Revoke(c)
  PROVE  Turn(d)
<1>1. UNCHANGED <<sending, admitted>>
  BY DEF TakeEnvelope, CallOwner, AfterSync, CloseSession, EndSession, FinishConnection, Revoke
<1>2. CASE TakeEnvelope(c)
  <2>1. chan[c].at = "receive" /\ chan[c].inbox # <<>>
    BY <1>2, Zenon DEF TakeEnvelope
  <2>2. /\ chan'[d].at = IF d = c /\ ~chan[c].revoked THEN "join" ELSE chan[d].at
        /\ chan'[d].current = IF d = c /\ ~chan[c].revoked THEN Head(chan[d].inbox) ELSE chan[d].current
        /\ SameRevision(d) /\ SameCloser(d)
    BY <1>2, TakeEnvelopeChan
  <2>3. PlaceTurn(d)
    BY <2>1, <2>2 DEF PlaceTurn, Works
  <2> QED
    BY <1>1, <2>2, <2>3, PlainTurns, SameCloserTurns DEF SameRevision
<1>3. CASE CallOwner(c)
  <2>1. /\ SameWork(d) /\ SameRevision(d) /\ SameCloser(d)
        /\ chan'[d].at = chan[d].at \/ chan[d].at = "join"
    BY <1>3, CallOwnerChan
  <2>2. PlaceTurn(d)
    BY <2>1 DEF PlaceTurn, Works, SameWork
  <2> QED
    BY <1>1, <2>1, <2>2, PlainTurns, SameCloserTurns DEF SameRevision
<1>4. CASE AfterSync(c)
  <2>1. /\ SameWork(d) /\ SameRevision(d) /\ SameCloser(d)
        /\ chan'[d].at = chan[d].at \/ chan[d].at = "sync"
    BY <1>4, AfterSyncChan
  <2>2. PlaceTurn(d)
    BY <2>1 DEF PlaceTurn, Works, SameWork
  <2> QED
    BY <1>1, <2>1, <2>2, PlainTurns, SameCloserTurns DEF SameRevision
<1>5. CASE CloseSession(c)
  <2>1. /\ SamePlace(d) /\ SameWork(d) /\ SameRevision(d)
        /\ chan'[d].closer = IF d = c THEN "off" ELSE chan[d].closer
        /\ chan[c].closer = "told"
    BY <1>5, CloseSessionChan DEF CloseSession
  <2>2. CloserTurn(d)
    BY <2>1 DEF CloserTurn, SameRevision
  <2> QED
    BY <1>1, <2>1, <2>2, PlainTurns, SamePlaceTurns DEF SameWork
<1>6. CASE EndSession(c)
  <2>1. /\ SameWork(d) /\ SameRevision(d) /\ SameCloser(d)
        /\ chan'[d].at = IF d = c THEN "finalizing" ELSE chan[d].at
    BY <1>6, EndSessionChan
  <2>2. PlaceTurn(d)
    BY <2>1 DEF PlaceTurn, Works, SameWork
  <2> QED
    BY <1>1, <2>1, <2>2, PlainTurns, SameCloserTurns DEF SameRevision
<1>7. CASE FinishConnection(c)
  <2>1. /\ SameRevision(d) /\ SameCloser(d)
        /\ chan'[d].at = IF d = c THEN "gone" ELSE chan[d].at
        /\ chan'[d].current = IF d = c THEN 0 ELSE chan[d].current
    BY <1>7, FinishConnectionChan
  <2>2. PlaceTurn(d)
    BY <2>1 DEF PlaceTurn, Works
  <2> QED
    BY <1>1, <2>1, <2>2, PlainTurns, SameCloserTurns DEF SameRevision
<1>8. CASE Revoke(c)
  <2>1. ~chan[c].revoked /\ RequestClose(c)
    BY <1>8, Zenon DEF Revoke
  <2>2. /\ SamePlace(d) /\ SameWork(d)
        /\ (chan'[d].revoked <=> (chan[d].revoked \/ d = c))
        /\ chan'[d].closer = IF d = c THEN "asked" ELSE chan[d].closer
    BY <2>1, RequestCloseChan
  <2>3. CloserTurn(d)
    BY <2>1, <2>2 DEF CloserTurn
  <2> QED
    BY <1>1, <2>2, <2>3, PlainTurns, SamePlaceTurns DEF SameWork
<1> QED
  BY <1>2, <1>3, <1>4, <1>5, <1>6, <1>7, <1>8
\* The steps about the lock, and the end of the pump.
LEMMA LockTurns ==
  ASSUME TypeInv, NEW c \in Connections, NEW d \in Connections, StartSend(c)
  PROVE  Turn(d)
<1>0. sending \in [Connections -> Sending]
  BY DEF TypeInv, ChildType
<1>1. UNCHANGED <<chan, admitted>>
  BY DEF StartSend
<1>2. \/ chan[c].at = "send" /\ Lock(c, "message", chan[c].current, "none")
      \/ Lock(c, "completion", Head(admitted[c]).seq, Head(admitted[c]).q)
      \/ chan[c].closer = "asked" /\ Lock(c, "revoked", 0, "none")
  BY Zenon DEF StartSend
<1>3. ASSUME NEW kind, NEW n, NEW q, Lock(c, kind, n, q)
      PROVE  /\ d # c => sending'[d] = sending[d]
             /\ sending[c] = Nobody /\ sending'[c].kind = kind /\ sending'[c].n = n /\ sending'[c].q = q
             /\ sending'[c].out = FALSE
  BY <1>0, <1>3 DEF Lock
<1>4. CASE d # c
  <2>1. sending'[d] = sending[d]
    BY <1>2, <1>3, <1>4
  <2> QED
    BY <1>1, <2>1, RestTurns
<1>5. CASE d = c
  <2>1. ASSUME NEW kind, NEW n, NEW q, Lock(c, kind, n, q),
               kind = "message" => chan[c].at = "send" /\ n = chan[c].current,
               kind = "revoked" => chan[c].closer = "asked" /\ n = 0,
               kind = "completion" => n = Head(admitted[c]).seq /\ q = Head(admitted[c]).q
        PROVE  Locks(d)
    BY <1>1, <1>3, <1>5, <2>1 DEF Locks
  <2>2. Locks(d)
    BY <1>2, <2>1
  <2>3. sending[d].kind # "completion"
    BY <2>2 DEF Locks, Nobody
  <2>4. PlaceTurn(d) /\ AdmittedTurn(d) /\ SendTurn(d)
    BY <1>1, <2>2, <2>3 DEF PlaceTurn, AdmittedTurn, SameCommands, SendTurn
  <2>5. CloserTurn(d)
    BY <1>1 DEF CloserTurn
  <2> QED
    BY <2>4, <2>5 DEF Turn
<1> QED
  BY <1>4, <1>5
\* A message is handed over, or the wait for it is over.
LEMMA PutTurns ==
  ASSUME TypeInv, NEW c \in Connections, NEW d \in Connections, PutNotification(c)
  PROVE  Turn(d)
<1>0. sending \in [Connections -> Sending] /\ sending[c] # Nobody
  BY PutNotificationTypes DEF TypeInv, ChildType, Heard
<1>1. CASE /\ ~sending[c].out /\ sending' = [sending EXCEPT ![c].out = TRUE]
           /\ UNCHANGED <<chan, admitted>>
  <2>1. CASE d # c
    <3>1. sending'[d] = sending[d]
      BY <1>0, <1>1, <2>1
    <3> QED
      BY <1>1, <3>1, RestTurns
  <2>2. CASE d = c
    <3>1. /\ sending'[d].out /\ sending'[d].kind = sending[d].kind /\ sending'[d].n = sending[d].n
          /\ sending'[d].q = sending[d].q
      <4>1. sending[d] \in Sending /\ sending[d] # Nobody /\ sending'[d] = [sending[d] EXCEPT !.out = TRUE]
        BY <1>0, <1>1, <2>2
      <4> QED
        BY <4>1 DEF Sending
    <3>2. Puts(d)
      BY <1>1, <2>2, <3>1 DEF Puts
    <3>3. PlaceTurn(d) /\ AdmittedTurn(d) /\ SendTurn(d)
      BY <1>1, <3>1, <3>2 DEF PlaceTurn, AdmittedTurn, SameCommands, SendTurn
    <3>4. CloserTurn(d)
      BY <1>1 DEF CloserTurn
    <3> QED
      BY <3>3, <3>4 DEF Turn
  <2> QED
    BY <2>1, <2>2
<1>2. CASE SendOver(c, FALSE)
  BY <1>2, SendOverTurns
<1> QED
  BY <1>1, <1>2, PutNotificationTypes
\* The pump stops, or withholds a completion.
LEMMA PumpTurns ==
  ASSUME TypeInv, NEW c \in Connections, NEW d \in Connections, PumpStopped(c) \/ Withhold(c)
  PROVE  Turn(d)
<1>0. admitted \in [Connections -> Seq(Admission)] /\ Nobody.kind = "none"
  BY DEF TypeInv, ChildType, Nobody
<1>1. CASE PumpStopped(c)
  <2>1. Forget(c, "completion") /\ admitted' = [admitted EXCEPT ![c] = <<>>]
    BY <1>1, Zenon DEF PumpStopped
  <2>2. sending'[d] = IF d = c /\ sending[c].kind = "completion" THEN Nobody ELSE sending[d]
    BY <2>1, ForgetSending
  <2>3. admitted'[d] = IF d = c THEN <<>> ELSE admitted[d]
    BY <1>0, <2>1
  <2>4. /\ SameWork(d) /\ SameRevision(d) /\ SameCloser(d)
        /\ chan'[d].at = IF d = c /\ chan[c].at = "pumpWait" THEN "unbinding" ELSE chan[d].at
    BY <1>1, PumpStoppedChan
  <2>5. PlaceTurn(d) /\ CloserTurn(d)
    BY <2>4, SameCloserTurns DEF PlaceTurn, Works, SameWork, SameRevision
  <2>6. SendTurn(d)
    BY <2>2 DEF SendTurn, Frees
  <2>7. AdmittedTurn(d)
    BY <2>2, <2>3 DEF AdmittedTurn, SameCommands
  <2> QED
    BY <2>5, <2>6, <2>7 DEF Turn
<1>2. CASE Withhold(c)
  <2>1. /\ UNCHANGED <<chan, sending>> /\ sending[c].kind # "completion" /\ admitted[c] # <<>>
        /\ admitted' = [admitted EXCEPT ![c] = Tail(@)]
    BY <1>2 DEF Withhold, FirstDone, FinishFirst
  <2>2. admitted'[d] = IF d = c THEN Tail(admitted[d]) ELSE admitted[d]
    BY <1>0, <2>1
  <2>3. SendTurn(d) /\ PlaceTurn(d) /\ CloserTurn(d)
    BY <2>1 DEF SendTurn, PlaceTurn, CloserTurn
  <2>4. AdmittedTurn(d)
    BY <2>1, <2>2 DEF AdmittedTurn, SameCommands
  <2> QED
    BY <2>3, <2>4 DEF Turn
<1> QED
  BY <1>1, <1>2
\* What the child receives.
LEMMA ReceiveTurns ==
  ASSUME TypeInv, childAlive, NEW d \in Connections, ReceiveConnect \/ ReceiveEnvelope \/ ReceiveEnqueue
  PROVE  Turn(d)
<1> DEFINE m == Head(commands)
<1>1. CASE ReceiveConnect
  <2>1. /\ chan'[d].at = chan[d].at \/ chan'[d].at = "receive"
        /\ SameWork(d) /\ SameRevision(d) /\ SameCloser(d)
    BY <1>1, ReceiveConnectChan
  <2>2. UNCHANGED <<sending, admitted>>
    BY <1>1 DEF ReceiveConnect
  <2>3. PlaceTurn(d)
    BY <2>1 DEF PlaceTurn, Works, SameWork
  <2> QED
    BY <2>1, <2>2, <2>3, PlainTurns, SameCloserTurns DEF SameRevision
<1>2. CASE ReceiveEnvelope
  <2>1. /\ SamePlace(d) /\ SameRevision(d) /\ SameCloser(d) /\ chan'[d].current = chan[d].current
    BY <1>2, ReceiveEnvelopeChan
  <2>2. UNCHANGED <<sending, admitted>>
    BY <1>2 DEF ReceiveEnvelope
  <2> QED
    BY <2>1, <2>2, PlainTurns, SamePlaceTurns, SameCloserTurns DEF SameRevision
<1>3. CASE ReceiveEnqueue
  <2>0. UNCHANGED <<chan, sending>> /\ Takes
    BY <1>3 DEF ReceiveEnqueue, Receiving, Takes
  <2>1. admitted \in [Connections -> Seq(Admission)] /\ m \in Command /\ m.op = "enqueue"
    <3>1. commands # <<>> /\ commands' = Tail(commands) /\ m.op = "enqueue"
      BY <1>3 DEF ReceiveEnqueue, Receiving
    <3> QED
      BY <3>1, TakenTypes DEF TypeInv, ChildType
  <2>2. UNCHANGED admitted \/ admitted' = [admitted EXCEPT ![m.c] = Append(@, NewAdmission(m))]
    BY <1>3, ReceiveEnqueueTypes
  <2>3. NewAdmission(m) \in Admission /\ NewAdmission(m).seq = m.seq
    BY <2>1 DEF NewAdmission, Admission, Command
  <2>4. admitted'[d] = admitted[d] \/ admitted'[d] = Append(admitted[d], NewAdmission(m))
    BY <2>1, <2>2
  <2>5. CASE admitted'[d] = admitted[d]
    BY <2>0, <2>5, RestTurns
  <2>6. CASE admitted'[d] = Append(admitted[d], NewAdmission(m))
    <3>1. AdmittedTurn(d)
      BY <2>0, <2>3, <2>6 DEF AdmittedTurn, Accepts
    <3>2. SendTurn(d) /\ PlaceTurn(d) /\ CloserTurn(d)
      BY <2>0 DEF SendTurn, PlaceTurn, CloserTurn
    <3> QED
      BY <3>1, <3>2 DEF Turn
  <2> QED
    BY <2>4, <2>5, <2>6
<1> QED
  BY <1>1, <1>2, <1>3
\* Every step of the child moves a session by a turn.
LEMMA ChildTurns ==
  ASSUME TypeInv, ChildStep, NEW d \in Connections
  PROVE  Turn(d)
<1>0. childAlive
  BY DEF ChildStep
<1>1. ASSUME UNCHANGED <<chan, sending, admitted>>
      PROVE  Turn(d)
  BY <1>1, RestTurns
<1>2. CASE ReceiveRefused \/ ControlShutdown \/ StopOwner \/ Stopped
  <2>1. UNCHANGED <<chan, sending, admitted>>
    BY <1>2 DEF ReceiveRefused, ControlShutdown, StopOwner, Stopped, sessionVars
  <2> QED
    BY <1>1, <2>1
<1>3. CASE ReceiveConnect \/ ReceiveEnvelope \/ ReceiveEnqueue
  BY <1>0, <1>3, ReceiveTurns
<1>4. CASE ControlReceipt
  <2>1. \/ ReceiptOfState(Rcpt.id[1], Rcpt.id[3], Rcpt.sent)
        \/ SendOver(Rcpt.id[1], Rcpt.sent)
        \/ UNCHANGED sessionVars
    BY <1>4, Zenon DEF ControlReceipt, Rcpt
  <2>2. Rcpt.id \in Ids /\ Rcpt.sent \in BOOLEAN
    BY <1>4, ControlReceiptTypes
  <2>3. Rcpt.id[1] \in Connections /\ Rcpt.id[3] \in Nat
    BY <2>2 DEF Ids
  <2>4. CASE ReceiptOfState(Rcpt.id[1], Rcpt.id[3], Rcpt.sent)
    <3>1. UNCHANGED <<sending, admitted>>
      BY <2>4, Zenon DEF ReceiptOfState
    <3>2. SamePlace(d) /\ SameWork(d) /\ SameRevision(d) /\ SameCloser(d)
      BY <2>2, <2>3, <2>4, ReceiptOfStateChan
    <3> QED
      BY <3>1, <3>2, PlainTurns, SamePlaceTurns, SameCloserTurns DEF SameWork, SameRevision
  <2>5. CASE SendOver(Rcpt.id[1], Rcpt.sent)
    BY <2>2, <2>3, <2>5, SendOverTurns
  <2>6. CASE UNCHANGED sessionVars
    BY <1>1, <2>6 DEF sessionVars
  <2> QED
    BY <2>1, <2>4, <2>5, <2>6
<1>5. CASE ControlDisconnect
  <2>1. Head(controls).c \in Connections /\ UNCHANGED admitted
    BY <1>5, ControlDisconnectTypes DEF ControlDisconnect
  <2>2. Cancel(Head(controls).c) \/ UNCHANGED <<chan, sending>>
    BY <1>5, Zenon DEF ControlDisconnect
  <2> QED
    BY <1>1, <2>1, <2>2, CancelTurns
<1>6. ASSUME NEW c \in Connections, PublishBinding(c)
      PROVE  Turn(d)
  BY <1>1, <1>6 DEF PublishBinding
<1>7. ASSUME NEW c \in Connections, DrainSession(c)
      PROVE  Turn(d)
  BY <1>7, CancelTurns DEF DrainSession
<1>8. ASSUME NEW c \in Connections,
             \/ TakeEnvelope(c) \/ CallOwner(c) \/ AfterSync(c)
             \/ CloseSession(c) \/ EndSession(c) \/ FinishConnection(c)
      PROVE  Turn(d)
  BY <1>8, SessionTurns
<1>9. ASSUME NEW c \in Connections, StartSend(c) \/ PumpStopped(c) \/ Withhold(c) \/ PutNotification(c)
      PROVE  Turn(d)
  BY <1>9, LockTurns, PumpTurns, PutTurns
<1> HIDE DEF Turn
<1> QED
  BY <1>2, <1>3, <1>4, <1>5, <1>6, <1>7, <1>8, <1>9, OwnerTurns, Zenon DEF ChildStep

------------------------------------------------------------------------------
\* A message of the child has an identity of its own among those on their way to a
\* socket: in the queue, where it is at most once, or with a send task, where it has
\* one at most.
Labelled(m) == m.id = <<m.c, m.kind, m.seq>>
IdsOf(i) == {m \in Message : m.id = i}
NoticesOnce ==
    /\ \A m \in Items(notifications) : Labelled(m)
    /\ \A s \in sends : s.kind # "admission" => Labelled(s)
    /\ \A i \in Ids : Once(notifications, IdsOf(i))
    /\ \A m \in Items(notifications), s \in sends : m.id # s.id
    /\ \A s, t \in sends : s.kind # "admission" /\ s.id = t.id => s = t
\* A message of a session is on its way to the socket, or was written there.
Travels(c, kind, n) ==
    \/ \E m \in Items(notifications) : m.c = c /\ m.kind = kind /\ m.seq = n
    \/ \E s \in sends : s.c = c /\ s.kind = kind /\ s.seq = n
Wrote(c, kind, n) == \E j \in 1..Len(wire[c]) : wire[c][j].kind = kind /\ wire[c][j].seq = n

\* What a step of the parent does to the send tasks: it drops some, cancels those of
\* some connections, moves one on, or starts one for an admission of its own ...
SendsMove ==
    \/ sends' \subseteq sends
    \/ \E S : sends' = Cancelled(S)
    \/ \E s \in sends, place \in Stages :
          /\ BeginWrite(s) \/ Write(s)
          /\ sends' = (sends \ {s}) \cup {[s EXCEPT !.at = place]}
    \/ \E x \in Send : /\ x.kind = "admission" /\ x.at = "waiting" /\ Named(x)
                       /\ sends' = sends \cup {x}
\* ... or for the message it reads.
StartsSend ==
    /\ notifications # <<>> /\ notifications' = Tail(notifications)
    /\ \A s \in sends : s.id # Head(notifications).id
    /\ \E x \in Send : /\ sends' = sends \cup {x} /\ Arrived(x, Head(notifications))
                       /\ x.seq = Head(notifications).seq /\ x.q = Head(notifications).q
                       /\ x.at \in {"waiting", "failed"}
\* An enqueue starts the send of its admission, or none.
LEMMA EnqueueSends ==
  ASSUME TypeInv, NEW c \in Connections, Enqueue(c)
  PROVE  SendsMove
<1>1. sends' \subseteq Send
  BY EnqueueTypes DEF ParentType
<1>2. \/ sends' = sends
      \/ \E n : sends' = sends \cup {[id |-> <<c, "admission", frames[c]>>, c |-> c, kind |-> "admission",
                                       rev |-> conn[c].rev, q |-> worker[c].q, seq |-> n, at |-> "waiting"]}
  BY Zenon DEF Enqueue
<1>3. ASSUME NEW n, sends' = sends \cup {[id |-> <<c, "admission", frames[c]>>, c |-> c, kind |-> "admission",
                                           rev |-> conn[c].rev, q |-> worker[c].q, seq |-> n, at |-> "waiting"]}
      PROVE  SendsMove
  <2> DEFINE x == [id |-> <<c, "admission", frames[c]>>, c |-> c, kind |-> "admission",
                   rev |-> conn[c].rev, q |-> worker[c].q, seq |-> n, at |-> "waiting"]
  <2>1. x.kind = "admission" /\ x.at = "waiting" /\ Named(x) /\ sends' = sends \cup {x}
    BY <1>3 DEF Named
  <2> HIDE DEF x
  <2>2. x \in Send
    BY <1>1, <2>1
  <2> QED
    BY <2>1, <2>2 DEF SendsMove
<1> QED
  BY <1>2, <1>3 DEF SendsMove
\* The parent reads a message: as no send has its identity, it is no protocol error.
LEMMA ReadStarts ==
  ASSUME TypeInv, NoticesOnce, ReadNotification
  PROVE  StartsSend /\ UNCHANGED failure
<1> DEFINE m == Head(notifications)
           stage == IF m.kind = "completion" /\ \/ running[m.c][m.q].seq # m.seq
                                                \/ running[m.c][m.q].rev # m.rev
                    THEN "failed" ELSE "waiting"
           x == [id |-> m.id, c |-> m.c, kind |-> m.kind, rev |-> m.rev, q |-> m.q, seq |-> m.seq, at |-> stage]
<1>1. /\ notifications # <<>> /\ notifications' = Tail(notifications) /\ sends' \subseteq Send
      /\ notifications \in Seq(Message)
  BY ReadNotificationTypes DEF ParentType, TypeInv, ChannelsType
<1>2. m \in Items(notifications)
  BY <1>1, ItemsOf
<1>3. ~\E s \in sends : s.id = m.id
  BY <1>2, Zenon DEF NoticesOnce
<1>4. sends' = sends \cup {x} /\ UNCHANGED failure
  BY <1>3, Zenon DEF Reject, ReadNotification
<1>5. Arrived(x, m) /\ x.seq = m.seq /\ x.q = m.q /\ x.at \in {"waiting", "failed"} /\ x \in Send
  BY <1>1, <1>4 DEF Arrived
<1> HIDE DEF x
<1> QED
  BY <1>1, <1>3, <1>4, <1>5 DEF StartsSend
\* Every step of the parent does one of these.
LEMMA ParentStarts ==
  ASSUME TypeInv, NoticesOnce, FromParent
  PROVE  (SendsMove /\ UNCHANGED notifications) \/ StartsSend
<1>0. sends \in SUBSET Send
  BY DEF TypeInv, ParentType
<1>1. ASSUME sends' \subseteq sends PROVE SendsMove
  BY <1>1 DEF SendsMove
<1>2. ASSUME NEW S, sends' = Cancelled(S) PROVE SendsMove
  BY <1>2 DEF SendsMove
<1>3. ASSUME NEW reason, Fail(reason) PROVE SendsMove
  BY <1>2, <1>3, Zenon DEF Fail
<1>4. ASSUME NEW c \in Connections,
             \/ Connect(c) \/ SendEnvelope(c) \/ Admitted(c) \/ EndWorker(c) \/ DisconnectEnd(c)
      PROVE  SendsMove /\ UNCHANGED notifications
  <2>1. sends' \subseteq sends
    BY <1>4 DEF Connect, SendEnvelope, Admitted, EndWorker, DisconnectEnd
  <2>2. UNCHANGED notifications
    BY <1>4 DEF Connect, SendEnvelope, Admitted, EndWorker, DisconnectEnd, queues
  <2> QED
    BY <1>1, <2>1, <2>2
<1>5. ASSUME NEW c \in Connections, DisconnectStart(c)
      PROVE  SendsMove /\ UNCHANGED notifications
  BY <1>2, <1>5 DEF DisconnectStart
<1>6. ASSUME NEW c \in Connections, Enqueue(c)
      PROVE  SendsMove /\ UNCHANGED notifications
  BY <1>6, EnqueueSends DEF Enqueue
<1>7. ASSUME NEW c \in Connections, NEW q \in RequestIds, TakeRequest(c, q)
      PROVE  SendsMove /\ UNCHANGED notifications
  BY <1>1, <1>7 DEF TakeRequest, tableVars, queues
<1>8. ASSUME NEW s \in sends, BeginWrite(s) \/ Write(s) \/ FinishDelivery(s)
      PROVE  SendsMove /\ UNCHANGED notifications
  <2>1. CASE BeginWrite(s) \/ Write(s)
    <3>1. PICK place \in Stages : sends' = (sends \ {s}) \cup {[s EXCEPT !.at = place]}
      BY <2>1, BeginWriteTypes, WriteTypes DEF Stages
    <3>2. UNCHANGED notifications
      BY <2>1 DEF BeginWrite, Write, queues
    <3> QED
      BY <2>1, <3>1, <3>2, Zenon DEF SendsMove
  <2>2. CASE FinishDelivery(s)
    BY <1>1, <2>2 DEF FinishDelivery
  <2> QED
    BY <1>8, <2>1, <2>2
<1>9. CASE ReadAnswer
  <2>1. \/ Fail("protocol")
        \/ \E p \in pending : AnswerAccepted(p) \/ CallRefused(p) \/ EnqueueRefused(p)
    BY <1>9, Zenon DEF Reject, ReadAnswer
  <2>2. ASSUME NEW p \in pending, AnswerAccepted(p) \/ CallRefused(p) \/ EnqueueRefused(p)
        PROVE  SendsMove
    BY <1>1, <1>2, <2>2, Zenon DEF AnswerAccepted, CallRefused, EnqueueRefused
  <2>3. UNCHANGED notifications
    BY <1>9, Zenon DEF Reject, ReadAnswer
  <2> QED
    BY <1>3, <2>1, <2>2, <2>3
<1>10. CASE ReadTerminal \/ ReadProcessed \/ ReadDisconnected
  BY <1>1, <1>10 DEF ReadTerminal, ReadProcessed, ReadDisconnected, tableVars
<1>11. CASE ReadSocketClose
  <2>1. UNCHANGED notifications
    BY <1>11, Zenon DEF ReadSocketClose
  <2> QED
    BY <1>1, <1>2, <1>11, <2>1, Zenon DEF ReadSocketClose
<1>12. CASE ReadState
  <2>1. UNCHANGED notifications
    BY <1>12, Zenon DEF Reject, ReadState
  <2> QED
    BY <1>1, <1>2, <1>3, <1>12, <2>1, Zenon DEF Reject, ReadState, AfterState
<1>13. CASE ChildEnded \/ EndClose
  BY <1>3, <1>13, Zenon DEF ChildEnded, EndClose, queues
<1> QED
  BY <1>4, <1>5, <1>6, <1>7, <1>8, <1>9, <1>10, <1>11, <1>12, <1>13, ReadStarts, Zenon
  DEF FromParent, Parent, ParentStep, ClientSends

\* A send task of the child's that goes on keeps its message, and no other has it.
LEMMA SendsGoOn ==
  ASSUME TypeInv, NoticesOnce, FenceInv, SendsMove
  PROVE  /\ \A t \in sends' : (\E s \in sends : Kept(s, t)) \/ (t.kind = "admission" /\ Named(t))
         /\ \A t, u \in sends' : t.kind # "admission" /\ t.id = u.id => t = u
<1>0. /\ sends \in SUBSET Send /\ \A s \in sends : Named(s)
      /\ \A s, t \in sends : s.kind # "admission" /\ s.id = t.id => s = t
      /\ \A s : Kept(s, s)
  BY DEF TypeInv, ParentType, FenceInv, NoticesOnce, Kept
<1>1. CASE sends' \subseteq sends
  BY <1>0, <1>1
<1>2. ASSUME NEW S, sends' = Cancelled(S)
      PROVE  /\ \A t \in sends' : \E s \in sends : Kept(s, t)
             /\ \A t, u \in sends' : t.kind # "admission" /\ t.id = u.id => t = u
  <2> DEFINE f(s) == IF s.c \in S /\ s.at \in {"waiting", "sending"} THEN [s EXCEPT !.at = "failed"] ELSE s
  <2>1. sends' = {f(s) : s \in sends}
    BY <1>2 DEF Cancelled
  <2>2. ASSUME NEW s \in sends PROVE Kept(s, f(s))
    <3>1. s \in Send /\ "failed" \in Stages
      BY <1>0 DEF Stages
    <3>2. Kept(s, [s EXCEPT !.at = "failed"])
      BY <3>1, SendStage
    <3> QED
      BY <1>0, <3>2
  <2> HIDE DEF f
  <2>3. ASSUME NEW t \in sends', NEW u \in sends', t.kind # "admission", t.id = u.id
        PROVE  t = u
    <3>1. PICK s \in sends, v \in sends : t = f(s) /\ u = f(v)
      BY <2>1
    <3>2. s.kind # "admission" /\ s.id = v.id
      BY <2>2, <2>3, <3>1 DEF Kept
    <3> QED
      BY <1>0, <3>1, <3>2
  <2> QED
    BY <2>1, <2>2, <2>3
<1>3. ASSUME NEW s \in sends, NEW place \in Stages, sends' = (sends \ {s}) \cup {[s EXCEPT !.at = place]}
      PROVE  /\ \A t \in sends' : \E r \in sends : Kept(r, t)
             /\ \A t, u \in sends' : t.kind # "admission" /\ t.id = u.id => t = u
  <2> DEFINE x == [s EXCEPT !.at = place]
  <2>1. Kept(s, x) /\ sends' = (sends \ {s}) \cup {x}
    BY <1>0, <1>3, SendStage
  <2> HIDE DEF x
  <2>2. \A t \in sends' : \E r \in sends : Kept(r, t)
    BY <1>0, <2>1
  <2>3. ASSUME NEW t \in sends', NEW u \in sends', t.kind # "admission", t.id = u.id
        PROVE  t = u
    BY <1>0, <2>1, <2>3 DEF Kept
  <2> QED
    BY <2>2, <2>3
<1>4. ASSUME NEW x \in Send, x.kind = "admission", Named(x), sends' = sends \cup {x}
      PROVE  /\ \A t \in sends' : (\E s \in sends : Kept(s, t)) \/ (t.kind = "admission" /\ Named(t))
             /\ \A t, u \in sends' : t.kind # "admission" /\ t.id = u.id => t = u
  <2>1. ASSUME NEW t \in sends, t.kind # "admission" PROVE t.id # x.id
    BY <1>0, <1>4, <2>1 DEF Named
  <2> QED
    BY <1>0, <1>4, <2>1
<1> QED
  BY <1>1, <1>2, <1>3, <1>4, Zenon DEF SendsMove
\* The message read moves from the queue to a send.
LEMMA StartsOnce ==
  ASSUME TypeInv, NoticesOnce, FenceInv, StartsSend
  PROVE  /\ NoticesOnce'
         /\ \A c, kind, n : Travels(c, kind, n)' => Travels(c, kind, n)
<1> DEFINE m == Head(notifications)
           rest == Tail(notifications)
<1>0. /\ notifications \in Seq(Message) /\ notifications # <<>> /\ notifications' = rest
      /\ \A s \in sends : s.id # m.id
  BY DEF TypeInv, ChannelsType, StartsSend
<1>1. /\ Items(rest) \subseteq Items(notifications) /\ m \in Items(notifications)
      /\ Items(notifications) \subseteq Message
  BY <1>0, ItemsOf
<1>2. m \in Message /\ m.id \in Ids /\ m.kind # "admission" /\ Labelled(m)
  <2>1. m \in Message /\ Labelled(m)
    BY <1>1 DEF NoticesOnce
  <2> QED
    BY <2>1 DEF Message
<1>3. \A i \in Ids : Once(rest, IdsOf(i))
  BY <1>0, OnceTail DEF NoticesOnce
<1>4. \A k \in Items(rest) : k.id # m.id
  <2>1. m \in IdsOf(m.id) /\ Once(notifications, IdsOf(m.id))
    BY <1>2 DEF IdsOf, NoticesOnce
  <2>2. \A k \in Items(rest) : k \notin IdsOf(m.id)
    BY <1>0, <2>1, OnceTail
  <2> QED
    BY <1>1, <2>2 DEF IdsOf
<1> HIDE DEF m, rest
<1>5. PICK x \in Send : sends' = sends \cup {x} /\ x.id = m.id /\ x.c = m.c /\ x.kind = m.kind /\ x.seq = m.seq
  BY DEF StartsSend, Arrived, m
<1>6. Items(notifications)' = Items(rest)
  BY <1>0 DEF Items
<1>7. NoticesOnce'
  <2>1. \A k \in Items(rest) : Labelled(k)
    BY <1>1 DEF NoticesOnce
  <2>2. \A s \in sends' : s.kind # "admission" => Labelled(s)
    BY <1>2, <1>5 DEF NoticesOnce, Labelled
  <2>3. \A k \in Items(rest), s \in sends' : k.id # s.id
    BY <1>1, <1>4, <1>5 DEF NoticesOnce
  <2>4. \A s, t \in sends' : s.kind # "admission" /\ s.id = t.id => s = t
    BY <1>0, <1>5 DEF NoticesOnce
  <2>5. \A i \in Ids : Once(notifications, IdsOf(i))'
    BY <1>0, <1>3 DEF Once, IdsOf
  <2> QED
    BY <1>6, <2>1, <2>2, <2>3, <2>4, <2>5 DEF NoticesOnce, Labelled
<1>8. ASSUME NEW c, NEW kind, NEW n, Travels(c, kind, n)'
      PROVE  Travels(c, kind, n)
  BY <1>1, <1>5, <1>6, <1>8 DEF Travels
<1> QED
  BY <1>7, <1>8

\* What a step adds to what was written on a socket: the message of a send task, at
\* the end.
LEMMA WireGrows ==
  ASSUME TypeInv, [Next]_vars, NEW c \in Connections
  PROVE  \/ wire'[c] = wire[c]
         \/ \E s \in sends, w \in Written :
               /\ Write(s) /\ s.c = c /\ s.at = "sending"
               /\ w.kind = s.kind /\ w.seq = s.seq /\ wire'[c] = Append(wire[c], w)
<1>1. SUFFICES ASSUME wire'[c] # wire[c]
               PROVE  \E s \in sends, w \in Written :
                         /\ Write(s) /\ s.c = c /\ s.at = "sending"
                         /\ w.kind = s.kind /\ w.seq = s.seq /\ wire'[c] = Append(wire[c], w)
  OBVIOUS
<1>2. PICK s \in sends : Write(s)
  BY <1>1, OnlyWrites
<1> DEFINE w == [kind |-> s.kind, seq |-> s.seq, rev |-> s.rev]
<1>3. wire' = [wire EXCEPT ![s.c] = Append(wire[s.c], w)] /\ wire \in [Connections -> Seq(Written)]
  BY <1>1, <1>2, WriteTypes DEF TypeInv, ParentType
<1>4. w.kind = s.kind /\ w.seq = s.seq /\ w \in Written
  BY DEF TypeInv, ParentType, Send, Written
<1> HIDE DEF w
<1>5. s.c = c /\ s.at = "sending" /\ wire'[c] = Append(wire[c], w)
  BY <1>1, <1>2, <1>3 DEF Write
<1> QED
  BY <1>2, <1>4, <1>5
\* The messages written are those that were, and one that was on its way.
LEMMA WireTravels ==
  ASSUME TypeInv, [Next]_vars, NEW c \in Connections
  PROVE  \A kind, n : Wrote(c, kind, n)' => Wrote(c, kind, n) \/ Travels(c, kind, n)
<1>0. wire[c] \in Seq(Written)
  BY DEF TypeInv, ParentType
<1>1. CASE wire'[c] = wire[c]
  BY <1>1 DEF Wrote
<1>2. ASSUME NEW s \in sends, NEW w \in Written, s.c = c, w.kind = s.kind, w.seq = s.seq, wire'[c] = Append(wire[c], w)
      PROVE  \A kind, n : Wrote(c, kind, n)' => Wrote(c, kind, n) \/ Travels(c, kind, n)
  <2>1. \A j \in 1..Len(wire'[c]) : (j \in 1..Len(wire[c]) /\ wire'[c][j] = wire[c][j]) \/ wire'[c][j] = w
    BY <1>0, <1>2
  <2> QED
    BY <1>2, <2>1 DEF Wrote, Travels
<1> QED
  BY <1>1, <1>2, WireGrows

------------------------------------------------------------------------------
\* What a session sends, and has sent: a message under its lock is about the command
\* or the envelope at hand, and what is on its way is about an earlier one, unless the
\* lock is still held for it.
Out(c, kind, n) == sending[c].kind = kind /\ sending[c].out /\ sending[c].n = n
SendsNumbered(c) ==
    /\ sending[c].kind = "message" => sending[c].n = chan[c].current /\ chan[c].at = "send"
    /\ sending[c].kind = "revoked" => sending[c].n = 0 /\ chan[c].closer = "asked"
    /\ sending[c].kind = "completion" =>
          sending[c].n = Head(admitted[c]).seq /\ sending[c].q = Head(admitted[c]).q
    /\ chan[c].closer = "asked" => chan[c].revoked
AdmittedInOrder(c) ==
    /\ \A i, j \in 1..Len(admitted[c]) : i < j => admitted[c][i].seq < admitted[c][j].seq
    /\ \A i \in 1..Len(admitted[c]) : admitted[c][i].seq <= last
MessagesNew(c) ==
    \A n \in Nat : Travels(c, "message", n) =>
        /\ n <= last
        /\ \A x \in Items(chan[c].inbox) : n < x
        /\ chan[c].at \in Works => n < chan[c].current \/ Out(c, "message", n)
RevokedNew(c) ==
    \A n \in Nat : Travels(c, "revoked", n) =>
        chan[c].revoked /\ (chan[c].closer = "asked" => Out(c, "revoked", n))
CompletionsNew(c) ==
    \A n \in Nat : Travels(c, "completion", n) \/ Wrote(c, "completion", n) =>
        /\ n <= last
        /\ \A i \in 1..Len(admitted[c]) :
              n < admitted[c][i].seq \/ (i = 1 /\ n = admitted[c][1].seq /\ Out(c, "completion", n))
Sends(c) == SendsNumbered(c) /\ AdmittedInOrder(c) /\ MessagesNew(c) /\ RevokedNew(c) /\ CompletionsNew(c)
SessionSends == childAlive => \A c \in Connections : Sends(c)

\* No message that is on its way has the identity of the one a session is to send.
LEMMA NothingOut ==
  ASSUME TypeInv, NEW c \in Connections, Sends(c), WorkPlaced(c), WorkInOrder(c),
         sending[c] # Nobody, ~sending[c].out
  PROVE  /\ ~Travels(c, sending[c].kind, sending[c].n)
         /\ sending[c].kind \in {"message", "revoked", "completion"} /\ sending[c].n \in Nat
         /\ sending[c].kind = "completion" => ~Wrote(c, "completion", sending[c].n)
<1>0. /\ sending[c] \in Sending /\ chan[c].current \in Nat /\ admitted[c] \in Seq(Admission)
      /\ sending[c].kind = "completion" => admitted[c] # <<>>
  BY DEF TypeInv, ChildType, ChanType, CompletionHeld
<1>1. sending[c].n \in Nat /\ sending[c].kind \in {"message", "revoked", "completion"}
  BY <1>0 DEF Sending
<1> DEFINE n == sending[c].n
<1>2. ASSUME sending[c].kind = "message" PROVE ~Travels(c, "message", n)
  <2>1. n = chan[c].current /\ chan[c].at \in Works
    BY <1>2 DEF Sends, SendsNumbered, Works
  <2>2. ~(n < n)
    BY <1>1
  <2> QED
    BY <1>1, <2>1, <2>2 DEF Sends, MessagesNew, Out
<1>3. ASSUME sending[c].kind = "revoked" PROVE ~Travels(c, "revoked", n)
  BY <1>1, <1>3 DEF Sends, SendsNumbered, RevokedNew, Out
<1>4. ASSUME sending[c].kind = "completion" PROVE ~Travels(c, "completion", n) /\ ~Wrote(c, "completion", n)
  <2>1. 1 \in 1..Len(admitted[c]) /\ n = admitted[c][1].seq
    BY <1>0, <1>4 DEF Sends, SendsNumbered
  <2>2. ~(n < n)
    BY <1>1
  <2> QED
    BY <1>1, <2>1, <2>2 DEF Sends, CompletionsNew, Out
<1> QED
  BY <1>1, <1>2, <1>3, <1>4

\* What a step of the child does to the messages on their way: one session may hand
\* over the message under its lock.
HandsOver(c) ==
    /\ Notice(c) \in Message /\ notifications' = Append(notifications, Notice(c))
    /\ sending[c] # Nobody /\ ~sending[c].out /\ PutNotification(c) /\ UNCHANGED <<chan, admitted, results, syncs, pump>>
    /\ sending' = [sending EXCEPT ![c].out = TRUE]
\* The child's steps leave the queue of messages alone but for that.
LEMMA ChildNotices ==
  ASSUME TypeInv, Child
  PROVE  UNCHANGED notifications \/ \E c \in Connections : HandsOver(c)
<1>1. ASSUME \/ ReceiveRefused \/ ReceiveConnect \/ ReceiveEnvelope \/ ReceiveEnqueue
             \/ ControlReceipt \/ ControlDisconnect \/ ControlShutdown
             \/ OwnerRun \/ StopOwner \/ Stopped
      PROVE  UNCHANGED notifications
  BY <1>1 DEF ReceiveRefused, ReceiveConnect, ReceiveEnvelope, ReceiveEnqueue, ControlReceipt, ControlDisconnect,
              ControlShutdown, OwnerRun, StopOwner, Stopped, queues
<1>2. ASSUME NEW c \in Connections,
             \/ TakeEnvelope(c) \/ CallOwner(c) \/ AfterSync(c) \/ PublishBinding(c) \/ StartSend(c) \/ Withhold(c)
             \/ CloseSession(c) \/ PumpStopped(c) \/ EndSession(c) \/ FinishConnection(c) \/ DrainSession(c)
      PROVE  UNCHANGED notifications
  BY <1>2 DEF TakeEnvelope, CallOwner, AfterSync, PublishBinding, StartSend, Withhold, CloseSession, PumpStopped,
              EndSession, FinishConnection, DrainSession, queues
<1>3. ASSUME NEW c \in Connections, PutNotification(c)
      PROVE  UNCHANGED notifications \/ HandsOver(c)
  BY <1>3, PutNotificationTypes DEF Heard, HandsOver
<1> HIDE DEF HandsOver
<1> QED
  BY <1>1, <1>2, <1>3, Zenon DEF Child, ChildStep
\* A message handed over is one more on its way, and the only one of its identity.
LEMMA HandsOnce ==
  ASSUME TypeInv, NoticesOnce, FenceInv, NEW c \in Connections, HandsOver(c), UNCHANGED sends,
         Sends(c), WorkPlaced(c), WorkInOrder(c)
  PROVE  /\ NoticesOnce'
         /\ \A d, kind, n : Travels(d, kind, n)' =>
               Travels(d, kind, n) \/ (d = c /\ kind = sending[c].kind /\ n = sending[c].n)
<1> DEFINE m == Notice(c)
<1>0. /\ notifications \in Seq(Message) /\ m \in Message /\ notifications' = Append(notifications, m)
  BY DEF TypeInv, ChannelsType, HandsOver
<1>1. /\ m.id = <<c, sending[c].kind, sending[c].n>> /\ m.c = c /\ m.kind = sending[c].kind /\ m.seq = sending[c].n
  BY DEF Notice
<1>2. ~Travels(c, m.kind, m.seq) /\ m.kind # "admission" /\ Labelled(m)
  BY <1>1, NothingOut DEF HandsOver, Labelled
<1> HIDE DEF m
<1>3. Items(Append(notifications, m)) = Items(notifications) \cup {m}
  BY <1>0, ItemsOf
<1>4. Items(notifications)' = Items(notifications) \cup {m}
  BY <1>0, <1>3 DEF Items
<1>5. \A k \in Items(notifications) : k.id # m.id
  <2>1. ASSUME NEW k \in Items(notifications), k.id = m.id PROVE FALSE
    <3>1. k.c = m.c /\ k.kind = m.kind /\ k.seq = m.seq
      BY <1>2, <2>1 DEF NoticesOnce, Labelled
    <3> QED
      BY <1>1, <1>2, <3>1 DEF Travels
  <2> QED
    BY <2>1
<1>6. \A s \in sends : s.id # m.id
  <2>1. ASSUME NEW s \in sends, s.id = m.id PROVE FALSE
    <3>1. s.kind # "admission"
      BY <1>2, <2>1 DEF FenceInv, Named, Labelled
    <3>2. s.c = m.c /\ s.kind = m.kind /\ s.seq = m.seq
      BY <1>2, <2>1, <3>1 DEF NoticesOnce, Labelled
    <3> QED
      BY <1>1, <1>2, <3>2 DEF Travels
  <2> QED
    BY <2>1
<1>7. \A i \in Ids : Once(notifications', IdsOf(i))
  <2>1. ASSUME NEW i \in Ids PROVE Once(Append(notifications, m), IdsOf(i))
    <3>1. Once(notifications, IdsOf(i))
      BY DEF NoticesOnce
    <3>2. m \notin IdsOf(i) \/ \A k \in Items(notifications) : k \notin IdsOf(i)
      BY <1>5 DEF IdsOf
    <3> QED
      BY <1>0, <3>1, <3>2, OnceAppend
  <2> QED
    BY <1>0, <2>1
<1>8. NoticesOnce'
  <2>1. \A i \in Ids : Once(notifications, IdsOf(i))'
    BY <1>7 DEF Once, IdsOf
  <2> QED
    BY <1>2, <1>4, <1>5, <1>6, <2>1 DEF NoticesOnce, Labelled
<1>9. ASSUME NEW d, NEW kind, NEW n, Travels(d, kind, n)'
      PROVE  Travels(d, kind, n) \/ (d = c /\ kind = sending[c].kind /\ n = sending[c].n)
  BY <1>1, <1>4, <1>9 DEF Travels
<1> QED
  BY <1>8, <1>9

------------------------------------------------------------------------------
\* What a step with the session alive is to the messages of the session.
Adds(c, kind, n) == Puts(c) /\ sending[c].kind = kind /\ sending[c].n = n
MovesSends(c) ==
    /\ Turn(c)
    /\ last <= last'
    /\ \A x \in Items(chan'[c].inbox) : x \in Items(chan[c].inbox) \/ last < x
    /\ Accepts(c) => last < Head(commands).seq /\ last' = Head(commands).seq
    /\ \A kind \in {"message", "revoked", "completion"}, n \in Nat :
          Travels(c, kind, n)' => Travels(c, kind, n) \/ Adds(c, kind, n)
    /\ \A n \in Nat : Wrote(c, "completion", n)' => Wrote(c, "completion", n) \/ Travels(c, "completion", n)
\* A message that is out stays so until it is over.
LEMMA OutStays ==
  ASSUME NEW c \in Connections, SendTurn(c), NEW kind \in {"message", "revoked", "completion"}, NEW n, Out(c, kind, n)
  PROVE  (Out(c, kind, n))' \/ Frees(c)
<1>1. sending[c] # Nobody /\ sending[c].out
  BY DEF Out, Nobody
<1>2. sending'[c] = sending[c] \/ Frees(c)
  BY <1>1 DEF SendTurn, Locks, Puts
<1> QED
  BY <1>2 DEF Out
\* What is under the lock is still about the command or the envelope at hand.
LEMMA NumbersStay ==
  ASSUME TypeInv, TypeInv', MessagesPlaced', NEW c \in Connections, SendsNumbered(c), Turn(c)
  PROVE  SendsNumbered(c)'
<1>0. /\ admitted[c] \in Seq(Admission)
      /\ sending[c].kind = "completion" => admitted[c] # <<>>
      /\ sending'[c].kind = "completion" => admitted'[c] # <<>>
      /\ Nobody.kind = "none" /\ SendTurn(c) /\ PlaceTurn(c) /\ CloserTurn(c) /\ AdmittedTurn(c)
  BY DEF TypeInv, ChildType, CompletionHeld, Nobody, Turn
<1>1. sending'[c].kind = "message" => sending'[c].n = chan'[c].current /\ chan'[c].at = "send"
  <2>1. SUFFICES ASSUME sending'[c].kind = "message" PROVE sending'[c].n = chan'[c].current /\ chan'[c].at = "send"
    OBVIOUS
  <2>2. chan'[c].at = "send"
    BY <2>1 DEF MessagesPlaced
  <2>3. CASE Locks(c)
    BY <2>1, <2>2, <2>3 DEF Locks
  <2>4. CASE sending'[c] = sending[c] \/ Puts(c)
    <3>1. sending[c].kind = "message" /\ sending'[c].n = chan[c].current /\ chan[c].at = "send"
      BY <2>1, <2>4 DEF Puts, SendsNumbered
    <3>2. chan'[c].current = chan[c].current
      BY <1>0, <2>2, <3>1 DEF PlaceTurn, Works
    <3> QED
      BY <2>2, <3>1, <3>2
  <2> QED
    BY <1>0, <2>1, <2>3, <2>4 DEF SendTurn, Frees
<1>2. sending'[c].kind = "revoked" => sending'[c].n = 0 /\ chan'[c].closer = "asked"
  BY <1>0 DEF SendTurn, Frees, Locks, Puts, CloserTurn, SendsNumbered
<1>3. sending'[c].kind = "completion" =>
          sending'[c].n = Head(admitted'[c]).seq /\ sending'[c].q = Head(admitted'[c]).q
  <2>1. SUFFICES ASSUME sending'[c].kind = "completion"
                 PROVE  sending'[c].n = Head(admitted'[c]).seq /\ sending'[c].q = Head(admitted'[c]).q
    OBVIOUS
  <2>2. CASE Locks(c) \/ Puts(c)
    BY <2>1, <2>2 DEF Locks, Puts, SendsNumbered
  <2>3. CASE sending'[c] = sending[c]
    <3>0. admitted[c] # <<>> /\ sending'[c].n = Head(admitted[c]).seq /\ sending'[c].q = Head(admitted[c]).q
      BY <1>0, <2>1, <2>3 DEF SendsNumbered
    <3>1. /\ admitted[c] # <<>> /\ sending'[c].n = Head(admitted[c]).seq /\ sending'[c].q = Head(admitted[c]).q
          /\ 1 \in 1..Len(admitted[c]) /\ Head(admitted[c]) = admitted[c][1]
      BY <1>0, <3>0
    <3>2. CASE SameCommands(c)
      <4>1. Len(admitted'[c]) = Len(admitted[c]) /\ admitted'[c] \in Seq(Admission) /\ admitted'[c] # <<>>
        BY <1>0, <2>1, <3>2 DEF SameCommands, TypeInv, ChildType
      <4>2. Head(admitted'[c]) = admitted'[c][1]
        BY <4>1
      <4> QED
        BY <3>1, <3>2, <4>2 DEF SameCommands
    <3>3. CASE Accepts(c)
      <4>1. PICK a \in Admission : admitted'[c] = Append(admitted[c], a)
        BY <3>3 DEF Accepts
      <4>2. Head(admitted'[c]) = Head(admitted[c])
        BY <1>0, <3>1, <4>1
      <4> QED
        BY <3>1, <4>2
    <3> QED
      BY <1>0, <2>1, <3>2, <3>3 DEF AdmittedTurn
  <2> QED
    BY <1>0, <2>1, <2>2, <2>3 DEF SendTurn, Frees
<1>4. chan'[c].closer = "asked" => chan'[c].revoked
  BY <1>0 DEF CloserTurn, SendsNumbered
<1> QED
  BY <1>1, <1>2, <1>3, <1>4 DEF SendsNumbered
\* The commands of a session are in the order in which they were received.
LEMMA AdmittedStay ==
  ASSUME TypeInv, TypeInv', NEW c \in Connections, AdmittedInOrder(c), MovesSends(c)
  PROVE  AdmittedInOrder(c)'
<1> DEFINE s == admitted[c]
           t == admitted'[c]
<1>a. /\ s \in Seq(Admission) /\ last \in Nat /\ last' \in Nat /\ last <= last' /\ AdmittedTurn(c)
      /\ \A i, j \in 1..Len(s) : i < j => s[i].seq < s[j].seq
      /\ \A i \in 1..Len(s) : s[i].seq <= last
  BY DEF TypeInv, ChildType, MovesSends, Turn, AdmittedInOrder
<1>b. Len(s) \in Nat /\ \A i \in 1..Len(s) : s[i].seq \in Nat
  <2>1. \A i \in 1..Len(s) : s[i] \in Admission
    BY <1>a
  <2> QED
    BY <1>a, <2>1 DEF Admission
<1> SUFFICES /\ \A i, j \in 1..Len(t) : i < j => t[i].seq < t[j].seq
             /\ \A i \in 1..Len(t) : t[i].seq <= last'
  BY DEF AdmittedInOrder
<1>1. CASE SameCommands(c)
  <2>1. Len(t) = Len(s) /\ \A i \in 1..Len(s) : t[i].seq = s[i].seq
    BY <1>1 DEF SameCommands
  <2>2. \A x, y, z \in Nat : x <= y /\ y <= z => x <= z
    OBVIOUS
  <2> HIDE DEF s, t
  <2>3. \A i \in 1..Len(t) : t[i].seq <= last'
    BY <1>a, <1>b, <2>1, <2>2
  <2> QED
    BY <1>a, <1>b, <2>1, <2>3
<1>2. CASE t = <<>>
  BY <1>2
<1>3. CASE s # <<>> /\ t = Tail(s)
  <2>1. Len(t) = Len(s) - 1 /\ \A i \in 1..Len(t) : t[i] = s[i + 1] /\ i + 1 \in 1..Len(s)
    BY <1>a, <1>b, <1>3
  <2> HIDE DEF s, t
  <2>2. \A i, j \in 1..Len(t) : i < j => t[i].seq < t[j].seq
    <3>1. SUFFICES ASSUME NEW i \in 1..Len(t), NEW j \in 1..Len(t), i < j PROVE t[i].seq < t[j].seq
      OBVIOUS
    <3>2. i + 1 \in 1..Len(s) /\ j + 1 \in 1..Len(s) /\ i + 1 < j + 1
      BY <1>b, <2>1, <3>1
    <3>3. s[i + 1].seq < s[j + 1].seq
      BY <1>a, <3>2
    <3> QED
      BY <2>1, <3>3
  <2>3. \A x, y, z \in Nat : x <= y /\ y <= z => x <= z
    OBVIOUS
  <2>4. \A i \in 1..Len(t) : t[i].seq <= last'
    BY <1>a, <1>b, <2>1, <2>3
  <2> QED
    BY <2>2, <2>4
<1>4. CASE Accepts(c)
  <2>1. PICK a \in Admission : a.seq = last' /\ t = Append(s, a) /\ last < last'
    BY <1>4 DEF Accepts, MovesSends
  <2>2. /\ Len(t) = Len(s) + 1
        /\ \A i \in 1..Len(t) : (i \in 1..Len(s) /\ t[i] = s[i]) \/ (i = Len(s) + 1 /\ t[i] = a)
    BY <1>a, <1>b, <2>1
  <2> QED
    BY <1>a, <1>b, <2>1, <2>2
<1> QED
  BY <1>a, <1>b, <1>1, <1>2, <1>3, <1>4 DEF AdmittedTurn
\* A message that is on its way is the answer to an earlier envelope.
LEMMA MessagesStay ==
  ASSUME TypeInv, TypeInv', NEW c \in Connections, WorkPlaced(c), WorkInOrder(c), SendsNumbered(c), MessagesNew(c),
         MovesSends(c)
  PROVE  MessagesNew(c)'
<1>0. /\ SendTurn(c) /\ PlaceTurn(c) /\ last \in Nat /\ last' \in Nat /\ last <= last'
      /\ chan[c].inbox \in Seq(Nat) /\ chan'[c].inbox \in Seq(Nat) /\ chan[c].current \in Nat
  BY DEF TypeInv, ChildType, ChanType, MovesSends, Turn
<1>1. Items(chan[c].inbox) \subseteq Nat /\ Items(chan'[c].inbox) \subseteq Nat
  BY <1>0, ItemsOf
<1>2. \A x, y, z \in Nat : x <= y /\ y < z => x < z
  OBVIOUS
<1>3. \A x, y, z \in Nat : x <= y /\ y <= z => x <= z
  OBVIOUS
<1>4. \A x \in Items(chan'[c].inbox) : x \in Items(chan[c].inbox) \/ last < x
  BY DEF MovesSends
<1> SUFFICES ASSUME NEW n \in Nat, Travels(c, "message", n)'
             PROVE  /\ n <= last'
                    /\ \A x \in Items(chan'[c].inbox) : n < x
                    /\ chan'[c].at \in Works => n < chan'[c].current \/ (Out(c, "message", n))'
  BY DEF MessagesNew, Items
<1>5. CASE Travels(c, "message", n)
  <2>1. /\ n <= last /\ \A x \in Items(chan[c].inbox) : n < x
        /\ chan[c].at \in Works => n < chan[c].current \/ Out(c, "message", n)
    BY <1>5 DEF MessagesNew
  <2>2. \A x \in Items(chan'[c].inbox) : n < x
    BY <1>0, <1>1, <1>2, <1>4, <2>1
  <2>3. chan'[c].at \in Works => n < chan'[c].current \/ (Out(c, "message", n))'
    <3>1. SUFFICES ASSUME chan'[c].at \in Works PROVE n < chan'[c].current \/ (Out(c, "message", n))'
      OBVIOUS
    <3>2. CASE chan[c].at \in Works /\ chan'[c].current = chan[c].current
      <4>1. Out(c, "message", n) => (Out(c, "message", n))' \/ Frees(c)
        BY <1>0, OutStays
      <4>2. Out(c, "message", n) => ~Frees(c)
        BY <3>1 DEF Out, Frees
      <4> QED
        BY <2>1, <3>2, <4>1, <4>2
    <3>3. CASE chan[c].inbox # <<>> /\ chan'[c].current = Head(chan[c].inbox)
      <4>1. Head(chan[c].inbox) \in Items(chan[c].inbox)
        BY <1>0, <3>3, ItemsOf
      <4> QED
        BY <2>1, <3>3, <4>1
    <3> QED
      BY <1>0, <3>1, <3>2, <3>3 DEF PlaceTurn
  <2> QED
    BY <1>0, <1>3, <2>1, <2>2, <2>3
<1>6. CASE Adds(c, "message", n)
  <2>1. n = chan[c].current /\ chan[c].at = "send" /\ chan'[c] = chan[c] /\ (Out(c, "message", n))'
    BY <1>6 DEF Adds, Puts, SendsNumbered, Out
  <2>2. n # 0 /\ n <= last
    BY <2>1 DEF WorkPlaced, WorkInOrder, Works
  <2>3. \A x \in Items(chan[c].inbox) : n < x
    BY <2>1, <2>2 DEF WorkInOrder
  <2> QED
    BY <1>0, <1>3, <2>1, <2>2, <2>3
<1> QED
  BY <1>5, <1>6 DEF MovesSends
\* The notice of a revocation is on its way once.
LEMMA RevokedStay ==
  ASSUME NEW c \in Connections, SendsNumbered(c), RevokedNew(c), MovesSends(c)
  PROVE  RevokedNew(c)'
<1>0. SendTurn(c) /\ CloserTurn(c)
  BY DEF MovesSends, Turn
<1> SUFFICES ASSUME NEW n \in Nat, Travels(c, "revoked", n)'
             PROVE  chan'[c].revoked /\ (chan'[c].closer = "asked" => (Out(c, "revoked", n))')
  BY DEF RevokedNew
<1>1. CASE Travels(c, "revoked", n)
  <2>1. chan[c].revoked /\ (chan[c].closer = "asked" => Out(c, "revoked", n))
    BY <1>1 DEF RevokedNew
  <2>2. chan'[c].revoked /\ (chan'[c].closer = "asked" => chan[c].closer = "asked")
    BY <1>0, <2>1 DEF CloserTurn
  <2>3. Out(c, "revoked", n) => (Out(c, "revoked", n))' \/ Frees(c)
    BY <1>0, OutStays
  <2>4. Out(c, "revoked", n) /\ Frees(c) => chan'[c].closer # "asked"
    BY DEF Out, Frees
  <2> QED
    BY <2>1, <2>2, <2>3, <2>4
<1>2. CASE Adds(c, "revoked", n)
  BY <1>2 DEF Adds, Puts, SendsNumbered, Out
<1> QED
  BY <1>1, <1>2 DEF MovesSends
\* A completion is on its way, or written, for no command that is still to be
\* completed but the first, while its lock is held.
LEMMA CompletionsStay ==
  ASSUME TypeInv, TypeInv', NEW c \in Connections, SendsNumbered(c), AdmittedInOrder(c), CompletionsNew(c),
         MovesSends(c)
  PROVE  CompletionsNew(c)'
<1> DEFINE s == admitted[c]
           t == admitted'[c]
           Then(n) == n <= last' /\ \A i \in 1..Len(t) :
                            n < t[i].seq \/ (i = 1 /\ n = t[1].seq /\ (Out(c, "completion", n))')
<1>a. /\ s \in Seq(Admission) /\ last \in Nat /\ last' \in Nat /\ last <= last' /\ AdmittedTurn(c) /\ SendTurn(c)
      /\ \A i, j \in 1..Len(s) : i < j => s[i].seq < s[j].seq
      /\ \A i \in 1..Len(s) : s[i].seq <= last
  BY DEF TypeInv, ChildType, MovesSends, Turn, AdmittedInOrder
<1>b. Len(s) \in Nat /\ \A i \in 1..Len(s) : s[i].seq \in Nat
  <2>1. \A i \in 1..Len(s) : s[i] \in Admission
    BY <1>a
  <2> QED
    BY <1>a, <2>1 DEF Admission
<1>c. (\A x, y, z \in Nat : x <= y /\ y <= z => x <= z) /\ (\A x, y, z \in Nat : x <= y /\ y < z => x < z)
  OBVIOUS
<1> SUFFICES ASSUME NEW n \in Nat, Travels(c, "completion", n)' \/ Wrote(c, "completion", n)'
             PROVE  Then(n)
  BY DEF CompletionsNew
<1>1. ASSUME Travels(c, "completion", n) \/ Wrote(c, "completion", n)
      PROVE  Then(n)
  <2>1. n <= last /\ \A i \in 1..Len(s) : n < s[i].seq \/ (i = 1 /\ n = s[1].seq /\ Out(c, "completion", n))
    BY <1>1 DEF CompletionsNew
  <2>2. n <= last'
    BY <1>a, <1>c, <2>1
  <2>3. Out(c, "completion", n) => (Out(c, "completion", n))' \/ sending'[c] = Nobody
    <3>1. Out(c, "completion", n) => (Out(c, "completion", n))' \/ Frees(c)
      BY <1>a, OutStays
    <3> QED
      BY <3>1 DEF Frees
  <2>4. CASE SameCommands(c) /\ (sending[c].kind = "completion" => sending'[c].kind = "completion")
    <3>1. Len(t) = Len(s) /\ \A i \in 1..Len(s) : t[i].seq = s[i].seq
      BY <2>4 DEF SameCommands
    <3>2. Out(c, "completion", n) => (Out(c, "completion", n))'
      BY <2>3, <2>4 DEF Out, Nobody
    <3> HIDE DEF s, t
    <3>3. ASSUME NEW i \in 1..Len(t)
          PROVE  n < t[i].seq \/ (i = 1 /\ n = t[1].seq /\ (Out(c, "completion", n))')
      BY <2>1, <3>1, <3>2, <3>3
    <3> QED
      BY <2>2, <3>3
  <2>5. CASE t = <<>>
    BY <2>2, <2>5
  <2>6. CASE s # <<>> /\ t = Tail(s)
    <3>1. Len(t) = Len(s) - 1 /\ \A i \in 1..Len(t) : t[i] = s[i + 1] /\ i + 1 \in 1..Len(s) /\ i + 1 # 1
      BY <1>a, <1>b, <2>6
    <3> HIDE DEF s, t
    <3> QED
      BY <2>1, <2>2, <3>1
  <2>7. CASE Accepts(c)
    <3>1. PICK a \in Admission : a.seq = last' /\ t = Append(s, a) /\ last < last' /\ sending'[c] = sending[c]
      BY <2>7 DEF Accepts, MovesSends
    <3>2. /\ Len(t) = Len(s) + 1
          /\ \A i \in 1..Len(t) : (i \in 1..Len(s) /\ t[i] = s[i]) \/ t[i] = a
          /\ 1 \in 1..Len(s) => t[1] = s[1]
      BY <1>a, <1>b, <3>1
    <3>3. n < a.seq
      BY <1>a, <1>c, <2>1, <3>1
    <3>4. Out(c, "completion", n) => (Out(c, "completion", n))'
      BY <3>1 DEF Out
    <3> HIDE DEF s, t
    <3>5. ASSUME NEW i \in 1..Len(t)
          PROVE  n < t[i].seq \/ (i = 1 /\ n = t[1].seq /\ (Out(c, "completion", n))')
      BY <2>1, <3>2, <3>3, <3>4, <3>5
    <3> QED
      BY <2>2, <3>5
  <2> QED
    BY <1>a, <2>4, <2>5, <2>6, <2>7 DEF AdmittedTurn
<1>2. ASSUME Adds(c, "completion", n)
      PROVE  Then(n)
  <2>1. /\ n = Head(s).seq /\ t = s /\ (Out(c, "completion", n))' /\ s # <<>>
    BY <1>2 DEF Adds, Puts, SendsNumbered, Out, TypeInv, CompletionHeld
  <2>2. 1 \in 1..Len(s) /\ Head(s) = s[1]
    BY <1>a, <1>b, <2>1
  <2>3. n <= last'
    BY <1>a, <1>b, <1>c, <2>1, <2>2
  <2> HIDE DEF s, t
  <2>4. ASSUME NEW i \in 1..Len(s), i # 1 PROVE n < s[i].seq
    <3>1. 1 < i
      BY <1>b, <2>4
    <3> QED
      BY <1>a, <2>1, <2>2, <2>4, <3>1
  <2> QED
    BY <2>1, <2>2, <2>3, <2>4
<1>3. Travels(c, "completion", n)' => Travels(c, "completion", n) \/ Adds(c, "completion", n)
  BY DEF MovesSends
<1>4. Wrote(c, "completion", n)' => Wrote(c, "completion", n) \/ Travels(c, "completion", n)
  BY DEF MovesSends
<1> HIDE DEF Then
<1> QED
  BY <1>1, <1>2, <1>3, <1>4
\* So all of it is kept.
LEMMA SendsStay ==
  ASSUME TypeInv, TypeInv', MessagesPlaced', NEW c \in Connections, WorkPlaced(c), WorkInOrder(c), Sends(c),
         MovesSends(c)
  PROVE  Sends(c)'
BY NumbersStay, AdmittedStay, MessagesStay, RevokedStay, CompletionsStay DEF Sends, MovesSends

------------------------------------------------------------------------------
\* The messages on their way after any step: those before it, and the one a session
\* hands over.
Handed(c, kind, n) == Child /\ HandsOver(c) /\ sending[c].kind = kind /\ sending[c].n = n
NoNewTravels == \A c, kind, n : kind # "admission" /\ Travels(c, kind, n)' => Travels(c, kind, n)
\* A step that leaves the queue of messages, or cuts it.
LEMMA CutOnce ==
  ASSUME TypeInv, NoticesOnce, FenceInv, SendsMove,
         \E j \in 0..Len(notifications) : notifications' = SubSeq(notifications, 1, j)
  PROVE  NoticesOnce' /\ NoNewTravels
<1>0. notifications \in Seq(Message)
  BY DEF TypeInv, ChannelsType
<1>1. PICK j \in 0..Len(notifications) : notifications' = SubSeq(notifications, 1, j)
  OBVIOUS
<1>2. /\ Items(notifications)' \subseteq Items(notifications) /\ Items(notifications) \subseteq Message
      /\ \A i \in Ids : Once(notifications', IdsOf(i))
  <2>1. Items(SubSeq(notifications, 1, j)) \subseteq Items(notifications) /\ Items(notifications) \subseteq Message
    BY <1>0, ItemsOf
  <2>2. Items(notifications)' = Items(SubSeq(notifications, 1, j))
    BY <1>1 DEF Items
  <2>3. \A i \in Ids : Once(SubSeq(notifications, 1, j), IdsOf(i))
    BY <1>0, OnceFirst DEF NoticesOnce
  <2> QED
    BY <1>1, <2>1, <2>2, <2>3
<1>3. /\ \A t \in sends' : (\E s \in sends : Kept(s, t)) \/ (t.kind = "admission" /\ Named(t))
      /\ \A t, u \in sends' : t.kind # "admission" /\ t.id = u.id => t = u
  BY SendsGoOn
<1>4. ASSUME NEW t \in sends', t.kind # "admission" PROVE Labelled(t)
  BY <1>3, <1>4 DEF NoticesOnce, Kept, Labelled
<1>5. ASSUME NEW m \in Items(notifications), NEW t \in sends' PROVE m.id # t.id
  <2>1. CASE \E s \in sends : Kept(s, t)
    BY <2>1 DEF NoticesOnce, Kept
  <2>2. CASE t.kind = "admission" /\ Named(t)
    <3>1. m.kind # "admission" /\ Named(m)
      BY <1>2 DEF FenceInv, Message
    <3> QED
      BY <2>2, <3>1 DEF Named
  <2> QED
    BY <1>3, <2>1, <2>2
<1>6. NoticesOnce'
  <2>1. \A i \in Ids : Once(notifications, IdsOf(i))'
    BY <1>2 DEF Once, IdsOf
  <2> QED
    BY <1>2, <1>3, <1>4, <1>5, <2>1 DEF NoticesOnce, Labelled
<1>7. ASSUME NEW c, NEW kind, NEW n, kind # "admission", Travels(c, kind, n)'
      PROVE  Travels(c, kind, n)
  <2>1. CASE \E s \in sends' : s.c = c /\ s.kind = kind /\ s.seq = n
    BY <1>3, <1>7, <2>1 DEF Travels, Kept
  <2>2. CASE \E m \in Items(notifications) : m.c = c /\ m.kind = kind /\ m.seq = n
    BY <2>2 DEF Travels
  <2> QED
    BY <1>2, <1>7, <2>1, <2>2 DEF Travels
<1> QED
  BY <1>6, <1>7 DEF NoNewTravels
\* Where the queue stays as it is.
LEMMA MovesOnce ==
  ASSUME TypeInv, NoticesOnce, FenceInv, SendsMove, UNCHANGED notifications
  PROVE  NoticesOnce' /\ NoNewTravels
<1>1. notifications \in Seq(Message)
  BY DEF TypeInv, ChannelsType
<1>2. Len(notifications) \in 0..Len(notifications) /\ notifications = SubSeq(notifications, 1, Len(notifications))
  BY <1>1
<1> QED
  BY <1>2, CutOnce
\* The step of each kind.
LEMMA TravelsStep ==
  ASSUME TypeInv, NoticesOnce, FenceInv, SessionSends, BindingInv, [Next]_vars
  PROVE  /\ NoticesOnce'
         /\ \A c \in Connections, kind \in {"message", "revoked", "completion"}, n \in Nat :
               Travels(c, kind, n)' => Travels(c, kind, n) \/ Handed(c, kind, n)
<1> DEFINE Goal == /\ NoticesOnce'
                   /\ \A c \in Connections, kind \in {"message", "revoked", "completion"}, n \in Nat :
                         Travels(c, kind, n)' => Travels(c, kind, n) \/ Handed(c, kind, n)
<1>1. ASSUME SendsMove, UNCHANGED notifications PROVE Goal
  BY <1>1, MovesOnce DEF NoNewTravels
<1>2. ASSUME UNCHANGED <<sends, notifications>> PROVE Goal
  <2>1. SendsMove
    BY <1>2 DEF SendsMove
  <2> HIDE DEF Goal
  <2> QED
    BY <1>1, <1>2, <2>1
<1>3. ASSUME FromParent PROVE Goal
  <2>1. ASSUME StartsSend PROVE Goal
    BY <2>1, StartsOnce
  <2> HIDE DEF Goal
  <2> QED
    BY <1>1, <1>3, <2>1, ParentStarts
<1>4. ASSUME Child PROVE Goal
  <2>0. childAlive /\ UNCHANGED sends
    BY <1>4 DEF Child, ChildStep, parentVars, tableVars
  <2>1. ASSUME NEW c \in Connections, HandsOver(c) PROVE Goal
    <3>1. Sends(c) /\ WorkPlaced(c) /\ WorkInOrder(c)
      BY <2>0 DEF SessionSends, BindingInv, SessionsPlaced, EnvelopesInOrder
    <3>2. /\ NoticesOnce'
          /\ \A d, kind, n : Travels(d, kind, n)' =>
                Travels(d, kind, n) \/ (d = c /\ kind = sending[c].kind /\ n = sending[c].n)
      BY <2>0, <2>1, <3>1, HandsOnce
    <3> QED
      BY <1>4, <2>1, <3>2 DEF Handed
  <2> HIDE DEF Goal
  <2> QED
    BY <1>2, <1>4, <2>0, <2>1, ChildNotices
<1>5. ASSUME CloseTimeout /\ ChildLost PROVE Goal
  <2>1. \E S : sends' = Cancelled(S)
    BY <1>5, Zenon DEF CloseTimeout, Fail
  <2>2. UNCHANGED notifications
    BY <1>5 DEF CloseTimeout, queues
  <2>3. SendsMove
    BY <2>1 DEF SendsMove
  <2> HIDE DEF Goal
  <2> QED
    BY <1>1, <2>2, <2>3
<1>6. ASSUME NEW c \in Connections, ClientLost(c) PROVE Goal
  <2>1. UNCHANGED <<sends, notifications>>
    BY <1>6 DEF ClientLost, tableVars, queues
  <2> HIDE DEF Goal
  <2> QED
    BY <1>2, <2>1
<1>7. ASSUME NEW c \in Connections, Revoke(c), UNCHANGED parentVars PROVE Goal
  <2>1. UNCHANGED <<sends, notifications>>
    BY <1>7 DEF Revoke, parentVars, tableVars, queues
  <2> HIDE DEF Goal
  <2> QED
    BY <1>2, <2>1
<1>8. ASSUME ChildDies /\ UNCHANGED parentVars PROVE Goal
  <2>1. SendsMove
    BY <1>8 DEF SendsMove, parentVars, tableVars
  <2>2. \E j \in 0..Len(notifications) : notifications' = SubSeq(notifications, 1, j)
    BY <1>8, ChildDiesTypes
  <2> QED
    BY <2>1, <2>2, CutOnce DEF NoNewTravels
<1>9. ASSUME StartClose PROVE Goal
  <2>1. SendsMove /\ UNCHANGED notifications
    BY <1>9, Zenon DEF StartClose, SendsMove
  <2> HIDE DEF Goal
  <2> QED
    BY <1>1, <2>1
<1>10. ASSUME UNCHANGED vars PROVE Goal
  <2>1. UNCHANGED <<sends, notifications>>
    BY <1>10 DEF vars, parentVars, tableVars, queues
  <2> HIDE DEF Goal
  <2> QED
    BY <1>2, <2>1
<1> HIDE DEF Goal
<1>11. Goal
  BY <1>3, <1>4, <1>5, <1>6, <1>7, <1>8, <1>9, <1>10, StepCases
<1> QED
  BY <1>11 DEF Goal
\* A command that is accepted is a later one than all that were received.
LEMMA TakesLater ==
  ASSUME TypeInv, CommandsOrdered, Takes
  PROVE  last < Head(commands).seq /\ last' = Head(commands).seq
<1>1. Head(commands) \in Items(commands)
  BY ItemsOf DEF Takes, TypeInv, ChannelsType
<1> QED
  BY <1>1 DEF Takes, CommandsOrdered
\* A step of the child takes envelopes out of an inbox, and adds only a later one.
LEMMA InboxMoves ==
  ASSUME ChildKept, NEW d \in Connections
  PROVE  \A x \in Items(chan'[d].inbox) : x \in Items(chan[d].inbox) \/ last < x
<1> DEFINE s == chan[d].inbox
           Goal == \A x \in Items(chan'[d].inbox) : x \in Items(s) \/ last < x
<1>0. /\ TypeInv /\ ChildStep /\ BeginsOnce /\ EnvelopesInOrder /\ SessionsPlaced /\ CommandsOrdered
      /\ s \in Seq(Nat)
  BY BindingTypes DEF ChildKept, Child, ChildStep, OrphanInv, BindingInv
<1>1. s # <<>> => Items(Tail(s)) \subseteq Items(s)
  BY <1>0, ItemsOf
<1>2. ASSUME chan'[d].inbox = s \/ (s # <<>> /\ chan'[d].inbox = Tail(s)) PROVE Goal
  BY <1>1, <1>2
<1>3. SameWork(d) => Goal
  BY <1>2 DEF SameWork
<1>4. ASSUME ReceiveEnvelope PROVE Goal
  <2> DEFINE n == Head(commands).seq
  <2>1. Takes /\ Head(commands) \in Command
    <3>1. Takes
      BY <1>4, ChildReceives
    <3> QED
      BY <1>0, <3>1, TakenTypes DEF Takes
  <2>2. last < n /\ n \in Nat
    BY <1>0, <2>1, TakesLater DEF Command
  <2>3. chan'[d].inbox = IF d = Head(commands).c /\ Exists(d) THEN Append(s, n) ELSE s
    BY <1>0, <1>4, ReceiveEnvelopeChan
  <2> HIDE DEF n
  <2>4. Items(Append(s, n)) = Items(s) \cup {n}
    BY <1>0, <2>2, ItemsOf
  <2> QED
    BY <2>2, <2>3, <2>4
<1>5. ASSUME NEW c \in Connections, Hands(c) \/ Begins(c) PROVE Goal
  <2>1. d # c => SameWork(d)
    BY <1>5 DEF Hands, Begins, OthersWork
  <2>2. d = c => chan'[d].inbox = s \/ (s # <<>> /\ chan'[d].inbox = Tail(s))
    BY <1>5 DEF Hands, Begins
  <2> HIDE DEF Goal
  <2> QED
    BY <1>2, <1>3, <2>1, <2>2
<1>6. ASSUME NEW c \in Connections, FinishConnection(c) PROVE Goal
  <2>1. chan'[d].inbox = IF d = c THEN <<>> ELSE s
    BY <1>0, <1>6, FinishConnectionChan
  <2>2. Items(<<>>) = {}
    BY DEF Items
  <2> QED
    BY <2>1, <2>2
<1>7. WorkMoves
  BY <1>0, ChildWork
<1> HIDE DEF Goal
<1>8. Goal
  BY <1>3, <1>4, <1>5, <1>6, <1>7 DEF WorkMoves, SameEnvelopes
<1> QED
  BY <1>8 DEF Goal
\* A step of the child moves a session with its messages.
LEMMA ChildMovesSends ==
  ASSUME ChildKept, NoticesOnce, FenceInv, SessionSends, [Next]_vars, NEW d \in Connections
  PROVE  MovesSends(d)
<1>0. /\ TypeInv /\ CommandsOrdered /\ BindingInv /\ Child /\ childAlive /\ ChildStep
      /\ sending \in [Connections -> Sending]
  BY DEF ChildKept, Child, ChildStep, TypeInv, ChildType
<1>1. Turn(d)
  BY <1>0, ChildTurns
<1>2. last <= last'
  BY ChildReceives
<1>3. Accepts(d) => last < Head(commands).seq /\ last' = Head(commands).seq
  BY <1>0, TakesLater DEF Accepts
<1>4. ASSUME NEW kind \in {"message", "revoked", "completion"}, NEW n \in Nat, Travels(d, kind, n)'
      PROVE  Travels(d, kind, n) \/ Adds(d, kind, n)
  <2>1. Travels(d, kind, n) \/ Handed(d, kind, n)
    BY <1>0, <1>4, TravelsStep
  <2>2. CASE Handed(d, kind, n)
    <3>1. /\ sending[d] \in Sending /\ sending[d] # Nobody /\ ~sending[d].out
          /\ sending'[d] = [sending[d] EXCEPT !.out = TRUE] /\ UNCHANGED <<chan, admitted>>
      BY <1>0, <2>2 DEF Handed, HandsOver
    <3>2. /\ sending'[d].out /\ sending'[d].kind = sending[d].kind /\ sending'[d].n = sending[d].n
          /\ sending'[d].q = sending[d].q
      BY <3>1 DEF Sending
    <3> QED
      BY <2>2, <3>1, <3>2 DEF Handed, Adds, Puts
  <2> QED
    BY <2>1, <2>2
<1>5. \A n \in Nat : Wrote(d, "completion", n)' => Wrote(d, "completion", n) \/ Travels(d, "completion", n)
  BY <1>0, WireTravels
<1> QED
  BY <1>1, <1>2, <1>3, <1>4, <1>5, InboxMoves DEF MovesSends
\* Where the child does nothing, its messages only become fewer.
LEMMA RestSends ==
  ASSUME SessionSends, UNCHANGED <<chan, sending, admitted, last>>, childAlive' => childAlive,
         \A c \in Connections, kind \in {"message", "revoked", "completion"}, n \in Nat :
            Travels(c, kind, n)' => Travels(c, kind, n),
         \A c \in Connections, n \in Nat :
            Wrote(c, "completion", n)' => Wrote(c, "completion", n) \/ Travels(c, "completion", n)
  PROVE  SessionSends'
<1> SUFFICES ASSUME NEW c \in Connections, childAlive'
             PROVE  Sends(c)'
  BY DEF SessionSends
<1>0. /\ SendsNumbered(c) /\ AdmittedInOrder(c) /\ MessagesNew(c) /\ RevokedNew(c) /\ CompletionsNew(c)
      /\ Items(chan[c].inbox)' = Items(chan[c].inbox)
      /\ \A kind, n : (Out(c, kind, n))' <=> Out(c, kind, n)
  BY DEF SessionSends, Sends, Items, Out
<1>1. SendsNumbered(c)' /\ AdmittedInOrder(c)'
  BY <1>0 DEF SendsNumbered, AdmittedInOrder
<1>2. MessagesNew(c)'
  BY <1>0 DEF MessagesNew
<1>3. RevokedNew(c)'
  BY <1>0 DEF RevokedNew
<1>4. CompletionsNew(c)'
  BY <1>0 DEF CompletionsNew
<1> QED
  BY <1>1, <1>2, <1>3, <1>4 DEF Sends
\* A revocation moves a session with its messages, too.
LEMMA RevokeMovesSends ==
  ASSUME TypeInv, TypeInv', NEW c \in Connections, Revoke(c), UNCHANGED parentVars, NEW d \in Connections
  PROVE  MovesSends(d)
<1>1. UNCHANGED <<notifications, sends, wire, last, commands, admitted>> /\ RequestClose(c)
  BY DEF Revoke, queues, parentVars, tableVars
<1>2. Turn(d)
  BY SessionTurns
<1>3. chan'[d].inbox = chan[d].inbox
  BY <1>1, RequestCloseChan DEF SameWork
<1>4. last \in Nat /\ admitted[d] \in Seq(Admission)
  BY DEF TypeInv, ChildType
<1>5. ~Accepts(d)
  <2>1. \A a \in Admission : Len(Append(admitted[d], a)) = Len(admitted[d]) + 1 /\ Len(admitted[d]) \in Nat
    BY <1>4
  <2>2. \A a \in Admission : admitted'[d] # Append(admitted[d], a)
    BY <1>1, <2>1
  <2> QED
    BY <2>2 DEF Accepts
<1>6. \A kind, n : (Travels(d, kind, n)' => Travels(d, kind, n)) /\ (Wrote(d, kind, n)' => Wrote(d, kind, n))
  BY <1>1 DEF Travels, Wrote, Items
<1> QED
  BY <1>1, <1>2, <1>3, <1>4, <1>5, <1>6 DEF MovesSends
\* Every step keeps what is said of the messages.
LEMMA SendsStep ==
  ASSUME TypeInv, TypeInv', CommandsOrdered, CommandsOrdered', OrphanInv, OrphanInv', FenceInv, BindingInv, NoticesOnce, SessionSends,
         [Next]_vars
  PROVE  NoticesOnce' /\ SessionSends'
<1>0. NoticesOnce'
  BY TravelsStep
<1>1. /\ \A c \in Connections, kind \in {"message", "revoked", "completion"}, n \in Nat :
            Travels(c, kind, n)' => Travels(c, kind, n) \/ Handed(c, kind, n)
      /\ \A c \in Connections, n \in Nat :
            Wrote(c, "completion", n)' => Wrote(c, "completion", n) \/ Travels(c, "completion", n)
  BY TravelsStep, WireTravels
<1>2. ASSUME ~childAlive' PROVE SessionSends'
  BY <1>2 DEF SessionSends
<1>3. ASSUME UNCHANGED <<chan, sending, admitted, last, childAlive>>, ~Child PROVE SessionSends'
  BY <1>1, <1>3, RestSends DEF Handed
<1>4. ASSUME NEW c \in Connections, childAlive, UNCHANGED childAlive, MovesSends(c) PROVE Sends(c)'
  <2>1. WorkPlaced(c) /\ WorkInOrder(c) /\ Sends(c) /\ MessagesPlaced'
    BY <1>4 DEF BindingInv, SessionsPlaced, EnvelopesInOrder, SessionSends, OrphanInv, BeginsOnce
  <2> QED
    BY <1>4, <2>1, SendsStay
<1>5. ASSUME Child, childAlive' PROVE SessionSends'
  <2>1. ChildKept
    BY <1>5 DEF ChildKept
  <2>2. \A c \in Connections : MovesSends(c)
    BY <2>1, ChildMovesSends
  <2>3. childAlive /\ UNCHANGED childAlive
    BY <1>5 DEF Child, ChildStep
  <2> QED
    BY <1>4, <2>2, <2>3 DEF SessionSends
<1>6. ASSUME NEW c \in Connections, childAlive, Revoke(c), UNCHANGED parentVars PROVE SessionSends'
  <2>1. \A d \in Connections : MovesSends(d)
    BY <1>6, RevokeMovesSends
  <2>2. UNCHANGED childAlive
    BY <1>6 DEF Revoke
  <2> QED
    BY <1>4, <1>6, <2>1, <2>2 DEF SessionSends
<1>7. ASSUME FromParent, ~Child PROVE SessionSends'
  <2>1. UNCHANGED <<childVars, childAlive>>
    BY <1>7, ParentBindings DEF ParentBinds
  <2> QED
    BY <1>3, <1>7, <2>1 DEF childVars, sessionVars
<1>8. ASSUME CloseTimeout /\ ChildLost PROVE SessionSends'
  BY <1>2, <1>8 DEF ChildLost
<1>9. ASSUME ChildDies PROVE SessionSends'
  BY <1>2, <1>9 DEF ChildDies, ChildLost
<1>10. ASSUME NEW c \in Connections, ClientLost(c), UNCHANGED childVars, ~Child PROVE SessionSends'
  BY <1>3, <1>10 DEF ClientLost, childVars, sessionVars
<1>11. ASSUME StartClose, UNCHANGED childVars, ~Child PROVE SessionSends'
  <2>1. UNCHANGED childAlive
    BY <1>11, Zenon DEF StartClose
  <2> QED
    BY <1>3, <1>11, <2>1 DEF childVars, sessionVars
<1>12. ASSUME UNCHANGED vars, ~Child PROVE SessionSends'
  BY <1>3, <1>12 DEF vars, childVars, sessionVars
<1> QED
  BY <1>0, <1>2, <1>5, <1>6, <1>7, <1>8, <1>9, <1>10, <1>11, <1>12, StepCases

------------------------------------------------------------------------------
\* Before any failure, the parent takes no report of its own child for a protocol error:
\* the answer it reads is to a command it awaits, the revision is the next one, the
\* message is new.
Agrees == failure' # "protocol"
LEMMA ParentAgrees ==
  ASSUME TypeInv, AnswersAwaited, StatesFollow, NoticesOnce, failure = "none", FromParent
  PROVE  Agrees
<1>1. failure' = failure => Agrees
  BY DEF Agrees
<1>2. ASSUME NEW reason \in {"exited", "stopped"}, Fail(reason)
      PROVE  Agrees
  BY <1>2 DEF Fail, Agrees
<1>3. ASSUME NEW c \in Connections, \/ Connect(c) \/ Enqueue(c) \/ SendEnvelope(c) \/ Admitted(c) \/ EndWorker(c)
                                    \/ DisconnectStart(c) \/ DisconnectEnd(c)
      PROVE  Agrees
  BY <1>1, <1>3 DEF Connect, Enqueue, SendEnvelope, Admitted, EndWorker, DisconnectStart, DisconnectEnd
<1>4. ASSUME NEW s \in sends, BeginWrite(s) \/ Write(s) \/ FinishDelivery(s)
      PROVE  Agrees
  BY <1>1, <1>4 DEF BeginWrite, Write, FinishDelivery
<1>5. ASSUME ReadTerminal \/ ReadProcessed \/ ReadSocketClose \/ ReadDisconnected
      PROVE  Agrees
  BY <1>1, <1>5 DEF ReadTerminal, ReadProcessed, ReadSocketClose, ReadDisconnected
<1>6. ASSUME ReadNotification
      PROVE  Agrees
  BY <1>1, <1>6, ReadStarts
<1>7. ASSUME ReadState
      PROVE  Agrees
  <2>1. ~StateRefused
    BY <1>7, StateAccepted
  <2>2. failure' = failure
    BY <1>7, <2>1, Zenon DEF ReadState, StateRefused
  <2> QED
    BY <1>1, <2>2
<1>8. ASSUME ReadAnswer
      PROVE  Agrees
  <2>1. results \in Seq(Result) /\ results # <<>> /\ Head(results).kind = "result"
    BY <1>8, BindingTypes DEF ReadAnswer, Reading
  <2>2. Head(results) \in Items(results)
    BY <2>1, ItemsOf
  <2>3. {p \in pending : p.seq = Head(results).n} # {}
    BY <2>1, <2>2 DEF AnswersAwaited, Expected
  <2>4. failure' = failure
    BY <1>8, <2>3, Zenon DEF ReadAnswer
  <2> QED
    BY <1>1, <2>4
<1>9. ASSUME NEW c \in Connections, NEW q \in RequestIds, TakeRequest(c, q)
      PROVE  Agrees
  BY <1>1, <1>9 DEF TakeRequest
<1>10. ASSUME ChildEnded
       PROVE  Agrees
  <2>1. Fail("stopped") \/ Fail("exited")
    BY <1>10, Zenon DEF ChildEnded
  <2> QED
    BY <1>2, <2>1
<1>11. ~EndClose
  BY DEF EndClose
<1> HIDE DEF Agrees
<1> QED
  BY <1>3, <1>4, <1>5, <1>6, <1>7, <1>8, <1>9, <1>10, <1>11, Zenon DEF FromParent, Parent, ParentStep, ClientSends
\* No step is the first failure and a protocol error.
LEMMA AgreesStep ==
  ASSUME TypeInv, AnswersAwaited, StatesFollow, NoticesOnce, failure = "none", [Next]_vars
  PROVE  Agrees
<1>1. failure' = failure => Agrees
  BY DEF Agrees
<1>2. Child => failure' = failure
  BY DEF Child, parentVars
<1>3. CloseTimeout /\ ChildLost => Agrees
  <2>1. CloseTimeout => failure' = "unknown"
    BY Zenon DEF CloseTimeout, Fail
  <2> QED
    BY <2>1 DEF Agrees
<1>4. (\E c \in Connections : ClientLost(c)) => failure' = failure
  BY DEF ClientLost
<1>5. StartClose => failure' = failure
  BY DEF StartClose
<1>6. UNCHANGED parentVars \/ UNCHANGED vars => failure' = failure
  BY DEF parentVars, vars
<1> QED
  BY <1>1, <1>2, <1>3, <1>4, <1>5, <1>6, ParentAgrees, StepCases

\* The two processes agree on what was asked, reported and sent.
AgreementInv == AnswersAwaited /\ StatesFollow /\ NoticesOnce /\ SessionSends
\* They agree at the start.
LEMMA AgreementInit ==
  ASSUME Init
  PROVE  AgreementInv
<1>1. /\ commands = <<>> /\ results = <<>> /\ controls = <<>> /\ notifications = <<>> /\ sends = {} /\ last = 0
      /\ \A c \in Connections :
            /\ chan[c] = NoSession /\ syncs[c] = <<>> /\ admitted[c] = <<>> /\ sending[c] = Nobody
            /\ conn[c].rev = 0 /\ ~conn[c].revoked /\ wire[c] = <<>>
  BY DEF Init, ChannelsInit, ParentInit, ChildInit, Each
<1>2. Items(<<>>) = {} /\ Len(<<>>) = 0
  BY DEF Items
<1>3. \A K : Once(<<>>, K)
  BY <1>2 DEF Once
<1>4. AnswersAwaited
  BY <1>1, <1>2, <1>3 DEF AnswersAwaited
<1>5. StatesFollow
  <2> SUFFICES ASSUME NEW c \in Connections PROVE SyncsFollow(c) /\ StateFlows(c)
    BY DEF StatesFollow
  <2>1. SyncsFollow(c)
    BY <1>1, <1>2 DEF SyncsFollow, NoSession
  <2>2. Once(results, States(c)) /\ Once(controls, Receipts(c)) /\ ReportNext(c) /\ ReceiptNext(c)
    BY <1>1, <1>2, <1>3 DEF ReportNext, ReceiptNext
  <2>3. Agreed(c)
    BY <1>1 DEF Agreed, NoSession
  <2> QED
    BY <2>1, <2>2, <2>3 DEF StateFlows
<1>6. NoticesOnce
  BY <1>1, <1>2, <1>3 DEF NoticesOnce
<1>7. SessionSends
  <2> SUFFICES ASSUME NEW c \in Connections PROVE Sends(c)
    BY DEF SessionSends
  <2>1. \A kind, n : ~Travels(c, kind, n) /\ ~Wrote(c, kind, n)
    BY <1>1, <1>2 DEF Travels, Wrote
  <2>2. SendsNumbered(c)
    BY <1>1 DEF SendsNumbered, Nobody, NoSession
  <2>3. AdmittedInOrder(c)
    BY <1>1, <1>2 DEF AdmittedInOrder
  <2> QED
    BY <2>1, <2>2, <2>3 DEF Sends, MessagesNew, RevokedNew, CompletionsNew
<1> QED
  BY <1>1, <1>4, <1>5, <1>6, <1>7 DEF AgreementInv
\* They agree in every state.
LEMMA AgreementInvariant == Spec => []AgreementInv
<1>1. Init => AgreementInv
  BY AgreementInit
<1>2. /\ SessionInv /\ SessionInv' /\ FenceInv /\ BindingInv /\ AgreementInv /\ [Next]_vars
      => AgreementInv'
  <2> SUFFICES ASSUME SessionInv, SessionInv', FenceInv, BindingInv, AgreementInv, [Next]_vars
               PROVE  AgreementInv'
    OBVIOUS
  <2>1. /\ TypeInv /\ TypeInv' /\ CommandsOrdered /\ CommandsOrdered' /\ OrphanInv /\ OrphanInv' /\ LivesInv
    BY DEF SessionInv, ProcessInv, OrphanInv
  <2>2. AnswersAwaited'
    BY <2>1, AwaitsStep DEF AgreementInv
  <2>3. StatesFollow'
    BY <2>1, FlowsStep DEF AgreementInv
  <2>4. NoticesOnce' /\ SessionSends'
    BY <2>1, SendsStep DEF AgreementInv
  <2> QED
    BY <2>2, <2>3, <2>4 DEF AgreementInv
<1> QED
  BY <1>1, <1>2, SessionInvariant, FenceInvariant, BindingInvariant, PTL DEF Spec

\* A report of its own child is never what makes the parent fail: the first failure of a
\* behaviour is the death, the stop or the termination of the child.
THEOREM NoProtocolErrorArises == Spec => NoProtocolFailure
<1>1. TypeInv /\ AgreementInv /\ [Next]_vars => [failure = "none" => failure' # "protocol"]_vars
  BY AgreesStep DEF AgreementInv, Agrees
<1>2. SessionInv => TypeInv
  BY DEF SessionInv, ProcessInv
<1> QED
  BY <1>1, <1>2, SessionInvariant, AgreementInvariant, PTL DEF Spec, NoProtocolFailure

------------------------------------------------------------------------------
\* A session that is ending, a publication lost or its disconnection begun; and one of
\* which no completion is handed over any more.
Stops(c) == chan[c].disconnecting \/ chan[c].syncLost
Muted(c) == chan[c].syncLost \/ (chan[c].disconnecting /\ pump[c] # "on")
\* What a step of the child does to the pump: where it stops with a completion under
\* the lock, the session is over; and a completion that was handed over keeps the lock
\* until its receipt is taken or the pump ends.
StopsLater(d) ==
    /\ chan[d].syncLost => chan'[d].syncLost
    /\ chan[d].disconnecting => chan'[d].disconnecting
Acks(d) == Control("receipt") /\ Head(controls).id = <<d, "completion", sending[d].n>>
PumpTurn(d) ==
    /\ pump'[d] = "on" /\ pump[d] # "on" => ~chan[d].disconnecting
    /\ pump'[d] = "stopping" /\ sending'[d].kind = "completion" =>
          Stops(d)' \/ (pump[d] = "stopping" /\ sending[d].kind = "completion")
    /\ sending[d].kind = "completion" /\ sending[d].out =>
          sending'[d] = sending[d] \/ (pump[d] = "stopping" /\ pump'[d] = "off") \/ Acks(d)
MuteTurn(d) == StopsLater(d) /\ PumpTurn(d)
\* The marks stay as they are.
LEMMA SameStops ==
  ASSUME NEW d \in Connections, SameSynced(d), SameDisc(d)
  PROVE  StopsLater(d)
BY DEF StopsLater, SameSynced, SameDisc
\* A step that leaves the pump, and whether a completion is sent.
LEMMA AsideMutes ==
  ASSUME NEW d \in Connections, StopsLater(d), pump'[d] = pump[d],
         sending'[d] = sending[d] \/ (sending[d].kind # "completion" /\ sending'[d].kind # "completion")
  PROVE  MuteTurn(d)
BY DEF MuteTurn, PumpTurn
\* Cancelling the pump.
LEMMA StopsPump ==
  ASSUME TypeInv, NEW c \in Connections, StopPump(c), NEW d \in Connections
  PROVE  pump'[d] = pump[d] \/ (d = c /\ pump[d] = "on" /\ pump'[d] = "stopping")
<1>1. pump \in [Connections -> {"off", "on", "stopping"}]
  BY DEF TypeInv, ChildType
<1>2. pump' = IF pump[c] = "on" THEN [pump EXCEPT ![c] = "stopping"] ELSE pump
  BY Zenon DEF StopPump
<1> QED
  BY <1>1, <1>2
\* The pump is cancelled where the session is over.
LEMMA StopMutes ==
  ASSUME TypeInv, NEW c \in Connections, StopPump(c), NEW d \in Connections, StopsLater(d), d = c => Stops(d)',
         sending'[d] = sending[d] \/ (sending[d].kind # "completion" /\ sending'[d].kind # "completion")
  PROVE  MuteTurn(d)
<1>1. pump'[d] = pump[d] \/ (d = c /\ pump[d] = "on" /\ pump'[d] = "stopping")
  BY StopsPump
<1> QED
  BY <1>1, AsideMutes DEF MuteTurn, PumpTurn
\* A session is cancelled.
LEMMA CancelMutes ==
  ASSUME TypeInv, NEW c \in Connections, Cancel(c), NEW d \in Connections
  PROVE  MuteTurn(d)
<1> DEFINE ch == [chan[c] EXCEPT !.disconnecting = TRUE]
<1>0. Nobody.kind = "none"
  BY DEF Nobody
<1>1. CASE CancelLoop(c, ch)
  <2>1. Forget(c, "message") /\ StopPump(c)
    BY <1>1 DEF CancelLoop
  <2>2. sending'[d] = IF d = c /\ sending[c].kind = "message" THEN Nobody ELSE sending[d]
    BY <2>1, ForgetSending
  <2>3. StopsLater(d) /\ (d = c => Stops(d)')
    BY <1>1, CancelLoopChan DEF StopsLater, Stops, SameSynced
  <2> QED
    BY <1>0, <2>1, <2>2, <2>3, StopMutes
<1>2. CASE CancelSync(c, ch)
  <2>1. UNCHANGED sending /\ StopPump(c)
    BY <1>2, Zenon DEF CancelSync
  <2>2. StopsLater(d) /\ (d = c => Stops(d)')
    BY <1>2, CancelSyncChan DEF StopsLater, Stops
  <2> QED
    BY <2>1, <2>2, StopMutes
<1>3. CASE CancelUnbind(c, ch)
  <2>1. Forget(c, "revoked") /\ UNCHANGED pump
    BY <1>3, Zenon DEF CancelUnbind
  <2>2. sending'[d] = IF d = c /\ sending[c].kind = "revoked" THEN Nobody ELSE sending[d]
    BY <2>1, ForgetSending
  <2>3. StopsLater(d)
    BY <1>3, CancelUnbindChan DEF StopsLater, SameSynced
  <2> QED
    BY <1>0, <2>1, <2>2, <2>3, AsideMutes
<1>4. CASE CancelPumpWait(c, ch)
  <2>1. UNCHANGED <<sending, pump>>
    BY <1>4, Zenon DEF CancelPumpWait
  <2>2. StopsLater(d)
    BY <1>4, CancelPumpWaitChan DEF StopsLater, SameSynced
  <2> QED
    BY <2>1, <2>2, AsideMutes
<1>5. CASE CancelWaiting(c, ch)
  <2>1. UNCHANGED <<sending, pump>> /\ \E n : CancelPublication(c, n, [ch EXCEPT !.at = "finalizing"])
    BY <1>5, Zenon DEF CancelWaiting
  <2>2. StopsLater(d)
    BY <2>1, CancelPublicationChan DEF StopsLater
  <2> QED
    BY <2>1, <2>2, AsideMutes
<1> HIDE DEF ch
<1> QED
  BY <1>1, <1>2, <1>3, <1>4, <1>5, Zenon DEF Cancel, ch
\* A message is over: one that was not handed over, or whose receipt is there.
LEMMA SendOverMutes ==
  ASSUME TypeInv, NEW c \in Connections, NEW sent \in BOOLEAN, SendOver(c, sent), NEW d \in Connections,
         sending[c].out => Control("receipt") /\ Head(controls).id = <<c, sending[c].kind, sending[c].n>>
  PROVE  MuteTurn(d)
<1>0. /\ sending \in [Connections -> Sending] /\ pump \in [Connections -> {"off", "on", "stopping"}]
      /\ Nobody.kind = "none"
  BY DEF TypeInv, ChildType, Nobody
<1>1. sending'[d] = IF d = c THEN Nobody ELSE sending[d]
  BY <1>0 DEF SendOver
<1>2. /\ sending[d].kind = "completion" /\ sending[d].out => sending'[d] = sending[d] \/ Acks(d)
      /\ sending'[d].kind = "completion" => d # c
      /\ d # c => sending'[d] = sending[d]
  BY <1>0, <1>1 DEF Acks
<1>3. StopsLater(d) /\ (pump'[d] = "on" => pump[d] = "on") /\ (d # c => pump'[d] = pump[d])
  <2>1. CASE MessageSent(c) \/ RevokedOver(c, sent)
    <3>1. UNCHANGED pump
      BY <2>1, Zenon DEF MessageSent, RevokedOver
    <3>2. SameSynced(d) /\ SameDisc(d)
      BY <2>1, MessageSentChan, RevokedOverChan
    <3> QED
      BY <3>1, <3>2, SameStops
  <2>2. CASE MessageLost(c)
    <3>1. StopPump(c)
      BY <2>2 DEF MessageLost
    <3>2. SameSynced(d) /\ SameDisc(d)
      BY <2>2, MessageLostChan
    <3> QED
      BY <3>1, <3>2, StopsPump, SameStops
  <2>3. CASE FinishFirst(c) /\ UNCHANGED chan
    <3>1. pump' = [pump EXCEPT ![c] = IF Len(admitted[c]) = 1 THEN "off" ELSE @]
      BY <2>3, Zenon DEF FinishFirst
    <3> QED
      BY <1>0, <2>3, <3>1 DEF StopsLater
  <2>4. CASE CompletionLost(c)
    <3>1. pump' = [pump EXCEPT ![c] = "off"] /\ (UNCHANGED chan \/ RequestClose(c))
      BY <2>4, Zenon DEF CompletionLost
    <3>2. StopsLater(d)
      BY <3>1, RequestCloseChan, SameStops DEF StopsLater
    <3> QED
      BY <1>0, <3>1, <3>2
  <2> QED
    BY <2>1, <2>2, <2>3, <2>4, Zenon DEF SendOver
<1> QED
  BY <1>2, <1>3 DEF MuteTurn, PumpTurn
\* The owner thread ends something.
LEMMA OwnerMutes ==
  ASSUME TypeInv, OwnerRun, NEW d \in Connections
  PROVE  MuteTurn(d)
<1> DEFINE m == Head(owner)
<1>0. Nobody.kind = "none" /\ UNCHANGED pump
  BY DEF Nobody, OwnerRun
<1>1. m.c \in Connections
  <2>1. m \in Work
    BY OwnerRunTypes
  <2> QED
    BY <2>1 DEF Work
<1>2. \/ UNCHANGED <<chan, sending>>
      \/ Rebind(m.c) /\ UNCHANGED sending
      \/ KeepBinding(m.c) /\ UNCHANGED sending
      \/ EndUnbind(m.c) /\ Forget(m.c, "revoked")
      \/ EndForNobody(m.c, m.what, m.seq) /\ UNCHANGED sending
  BY Zenon DEF OwnerRun, EndCommand, EndEnvelope, EndUnbind, EndForNobody
<1> HIDE DEF m
<1>3. StopsLater(d)
  <2>1. UNCHANGED chan \/ (SameSynced(d) /\ SameDisc(d))
    BY <1>1, <1>2, RebindChan, KeepBindingChan, EndUnbindChan, EndForNobodyChan
  <2> QED
    BY <2>1, SameStops DEF StopsLater
<1>4. Forget(m.c, "revoked") => sending'[d] = IF d = m.c /\ sending[m.c].kind = "revoked" THEN Nobody ELSE sending[d]
  BY <1>1, ForgetSending
<1> QED
  BY <1>0, <1>2, <1>3, <1>4, AsideMutes
\* The steps about the lock, and of the pump.
LEMMA LockMutes ==
  ASSUME TypeInv, NEW c \in Connections, NEW d \in Connections,
         StartSend(c) \/ PutNotification(c) \/ PumpStopped(c) \/ Withhold(c)
  PROVE  MuteTurn(d)
<1>0. /\ sending \in [Connections -> Sending] /\ pump \in [Connections -> {"off", "on", "stopping"}]
      /\ Nobody.kind = "none" /\ ~Nobody.out
  BY DEF TypeInv, ChildType, Nobody
<1>1. CASE StartSend(c)
  <2>1. UNCHANGED <<chan, pump>>
    BY <1>1 DEF StartSend
  <2>2. \/ Lock(c, "message", chan[c].current, "none")
        \/ pump[c] = "on" /\ Lock(c, "completion", Head(admitted[c]).seq, Head(admitted[c]).q)
        \/ Lock(c, "revoked", 0, "none")
    BY <1>1, Zenon DEF StartSend, FirstDone
  <2>3. ASSUME NEW kind, NEW n, NEW q, Lock(c, kind, n, q)
        PROVE  (d # c => sending'[d] = sending[d]) /\ sending[c] = Nobody /\ sending'[c].kind = kind
    BY <1>0, <2>3 DEF Lock
  <2>4. d = c => sending[d] = Nobody /\ (sending'[d].kind = "completion" => pump[d] = "on")
    BY <2>2, <2>3
  <2>5. d # c => sending'[d] = sending[d]
    BY <2>2, <2>3
  <2>6. PumpTurn(d)
    BY <1>0, <2>1, <2>4, <2>5 DEF PumpTurn
  <2> QED
    BY <2>1, <2>6 DEF MuteTurn, StopsLater
<1>2. CASE PutNotification(c)
  <2>1. CASE ~sending[c].out /\ sending' = [sending EXCEPT ![c].out = TRUE] /\ UNCHANGED <<chan, pump>>
    <3>1. d # c => sending'[d] = sending[d]
      BY <1>0, <2>1
    <3>2. sending'[c].kind = sending[c].kind
      BY <1>0, <2>1 DEF Sending
    <3>3. PumpTurn(d)
      BY <1>0, <2>1, <3>1, <3>2 DEF PumpTurn
    <3> QED
      BY <2>1, <3>3 DEF MuteTurn, StopsLater
  <2>2. CASE SendOver(c, FALSE) /\ ~sending[c].out
    BY <2>2, SendOverMutes
  <2> QED
    BY <1>2, <2>1, <2>2, PutNotificationTypes
<1>3. CASE PumpStopped(c)
  <2>1. pump[c] = "stopping" /\ pump' = [pump EXCEPT ![c] = "off"] /\ Forget(c, "completion")
    BY <1>3, Zenon DEF PumpStopped
  <2>2. sending'[d] = IF d = c /\ sending[c].kind = "completion" THEN Nobody ELSE sending[d]
    BY <2>1, ForgetSending
  <2>3. StopsLater(d)
    BY <1>3, PumpStoppedChan, SameStops
  <2>4. PumpTurn(d)
    BY <1>0, <2>1, <2>2 DEF PumpTurn
  <2> QED
    BY <2>3, <2>4 DEF MuteTurn
<1>4. CASE Withhold(c)
  <2>1. UNCHANGED <<chan, sending>> /\ pump' = [pump EXCEPT ![c] = IF Len(admitted[c]) = 1 THEN "off" ELSE @]
    BY <1>4, Zenon DEF Withhold, FinishFirst
  <2>2. pump'[d] = pump[d] \/ pump'[d] = "off"
    BY <1>0, <2>1
  <2>3. PumpTurn(d)
    BY <2>1, <2>2 DEF PumpTurn
  <2> QED
    BY <2>1, <2>3 DEF MuteTurn, StopsLater
<1> QED
  BY <1>1, <1>2, <1>3, <1>4
\* Every step of the child moves a pump by such a turn.
LEMMA ChildMutes ==
  ASSUME TypeInv, ChildStep, NEW d \in Connections
  PROVE  MuteTurn(d)
<1>0. childAlive
  BY DEF ChildStep
<1>1. ASSUME UNCHANGED <<pump, sending>>, StopsLater(d)
      PROVE  MuteTurn(d)
  BY <1>1, AsideMutes
<1>2. UNCHANGED chan => StopsLater(d)
  BY DEF StopsLater
<1>3. CASE ReceiveRefused \/ ControlShutdown \/ StopOwner \/ Stopped
  <2>1. UNCHANGED <<chan, sending, pump>>
    BY <1>3 DEF ReceiveRefused, ControlShutdown, StopOwner, Stopped, sessionVars
  <2> QED
    BY <1>1, <1>2, <2>1
<1>4. CASE ReceiveConnect \/ ReceiveEnvelope
  <2>1. UNCHANGED <<sending, pump>>
    BY <1>4 DEF ReceiveConnect, ReceiveEnvelope
  <2>2. StopsLater(d)
    BY <1>4, ReceiveConnectChan, ReceiveEnvelopeChan, SameStops
  <2> QED
    BY <1>1, <2>1, <2>2
<1>5. CASE ReceiveEnqueue
  <2> DEFINE m == Head(commands)
  <2>1. UNCHANGED <<chan, sending>> /\ pump \in [Connections -> {"off", "on", "stopping"}]
    BY <1>5 DEF ReceiveEnqueue, TypeInv, ChildType
  <2>2. \/ UNCHANGED pump
        \/ ~chan[m.c].disconnecting /\ pump' = [pump EXCEPT ![m.c] = IF @ = "off" THEN "on" ELSE @]
    BY <1>5, ReceiveEnqueueTypes DEF Accepted
  <2> HIDE DEF m
  <2>3. \/ pump'[d] = pump[d]
        \/ pump'[d] = "on" /\ ~chan[d].disconnecting
    BY <2>1, <2>2
  <2> QED
    BY <1>2, <2>1, <2>3 DEF MuteTurn, PumpTurn
<1>6. CASE ControlReceipt
  <2>1. \/ ReceiptOfState(Rcpt.id[1], Rcpt.id[3], Rcpt.sent) /\ UNCHANGED <<pump, sending>>
        \/ SendAcked(Rcpt.id[1], Rcpt.id[2], Rcpt.id[3]) /\ SendOver(Rcpt.id[1], Rcpt.sent)
        \/ UNCHANGED sessionVars
    BY <1>6, Zenon DEF ControlReceipt, Rcpt, ReceiptOfState
  <2>2. Rcpt.id \in Ids /\ Rcpt.sent \in BOOLEAN /\ Control("receipt")
    BY <1>6, ControlReceiptTypes DEF ControlReceipt
  <2>3. Rcpt.id[1] \in Connections /\ Rcpt.id[3] \in Nat /\ Rcpt.id = <<Rcpt.id[1], Rcpt.id[2], Rcpt.id[3]>>
    BY <2>2 DEF Ids
  <2>4. CASE ReceiptOfState(Rcpt.id[1], Rcpt.id[3], Rcpt.sent) /\ UNCHANGED <<pump, sending>>
    <3>1. StopsLater(d)
      BY <2>2, <2>3, <2>4, ReceiptOfStateChan DEF StopsLater, SameDisc
    <3> QED
      BY <1>1, <2>4, <3>1
  <2>5. CASE SendAcked(Rcpt.id[1], Rcpt.id[2], Rcpt.id[3]) /\ SendOver(Rcpt.id[1], Rcpt.sent)
    <3>1. Head(controls).id = <<Rcpt.id[1], sending[Rcpt.id[1]].kind, sending[Rcpt.id[1]].n>>
      BY <2>3, <2>5 DEF SendAcked, Rcpt
    <3> QED
      BY <2>2, <2>3, <2>5, <3>1, SendOverMutes
  <2>6. CASE UNCHANGED sessionVars
    BY <1>1, <1>2, <2>6 DEF sessionVars
  <2> QED
    BY <2>1, <2>4, <2>5, <2>6
<1>7. CASE ControlDisconnect
  <2>1. Head(controls).c \in Connections
    BY <1>7, ControlDisconnectTypes
  <2>2. Cancel(Head(controls).c) \/ UNCHANGED <<chan, sending, pump>>
    BY <1>7, Zenon DEF ControlDisconnect
  <2> QED
    BY <1>1, <1>2, <2>1, <2>2, CancelMutes
<1>8. ASSUME NEW c \in Connections, PublishBinding(c)
      PROVE  MuteTurn(d)
  BY <1>1, <1>2, <1>8 DEF PublishBinding
<1>9. ASSUME NEW c \in Connections, DrainSession(c)
      PROVE  MuteTurn(d)
  BY <1>9, CancelMutes DEF DrainSession
<1>10. ASSUME NEW c \in Connections,
              TakeEnvelope(c) \/ CallOwner(c) \/ CloseSession(c) \/ EndSession(c) \/ FinishConnection(c)
       PROVE  MuteTurn(d)
  <2>1. UNCHANGED <<sending, pump>>
    BY <1>10 DEF TakeEnvelope, CallOwner, CloseSession, EndSession, FinishConnection
  <2>2. SameSynced(d) /\ SameDisc(d)
    BY <1>10, TakeEnvelopeChan, CallOwnerChan, CloseSessionChan, EndSessionChan, FinishConnectionChan
  <2> QED
    BY <1>1, <2>1, <2>2, SameStops
<1>11. ASSUME NEW c \in Connections, AfterSync(c)
       PROVE  MuteTurn(d)
  <2>1. UNCHANGED sending /\ (UNCHANGED pump \/ (chan[c].syncLost /\ StopPump(c)))
    BY <1>11, Zenon DEF AfterSync
  <2>2. SameSynced(d) /\ SameDisc(d)
    BY <1>11, AfterSyncChan
  <2>3. StopsLater(d) /\ (d = c /\ chan[c].syncLost => Stops(d)')
    BY <2>2, SameStops DEF Stops, SameSynced
  <2> QED
    BY <1>1, <2>1, <2>3, StopMutes
<1>12. ASSUME NEW c \in Connections, StartSend(c) \/ PumpStopped(c) \/ Withhold(c) \/ PutNotification(c)
       PROVE  MuteTurn(d)
  BY <1>12, LockMutes
<1> HIDE DEF MuteTurn
<1> QED
  BY <1>3, <1>4, <1>5, <1>6, <1>7, <1>8, <1>9, <1>10, <1>11, <1>12, OwnerMutes, Zenon DEF ChildStep
\* A revocation leaves the pump.
LEMMA RevokeMutes ==
  ASSUME TypeInv, NEW c \in Connections, Revoke(c), NEW d \in Connections
  PROVE  MuteTurn(d)
<1>1. UNCHANGED <<sending, pump>> /\ RequestClose(c)
  BY DEF Revoke
<1> QED
  BY <1>1, RequestCloseChan, SameStops, AsideMutes

------------------------------------------------------------------------------
\* A session's completions go out one at a time: the next one is handed over when
\* the receipt for the one before it was taken, unless the session's pump is over.
CompletionReceipts(c) == {k \in ControlMsg : k.kind = "receipt" /\ k.id[1] = c /\ k.id[2] = "completion"}
OneTravels(c) ==
    \A n, m \in Nat : Travels(c, "completion", n) /\ Travels(c, "completion", m) => n = m
ReturnsLater(c) ==
    \A k \in Items(controls) : k \in CompletionReceipts(c) =>
        /\ \A n \in Nat : ~Travels(c, "completion", n)
        /\ Out(c, "completion", k.id[3]) \/ Muted(c)
HoldsLock(c) == \A n \in Nat : Travels(c, "completion", n) => Out(c, "completion", n) \/ Muted(c)
PumpStops(c) == pump[c] = "stopping" /\ sending[c].kind = "completion" => Stops(c)
OneAtATime(c) ==
    /\ OneTravels(c)
    /\ childAlive => /\ Once(controls, CompletionReceipts(c))
                     /\ ReturnsLater(c) /\ HoldsLock(c) /\ PumpStops(c)
\* No completion of a session, nor the receipt for one, is one more than before.
FewerCompletions(c) ==
    /\ \A n \in Nat : Travels(c, "completion", n)' => Travels(c, "completion", n)
    /\ Once(controls', CompletionReceipts(c))
    /\ \A k \in Items(controls') : k \in CompletionReceipts(c) => k \in Items(controls)
\* Such a step leaves the lock with the completion that is out, or mutes the session,
\* or takes the only receipt.
LEMMA QuietOneAtATime ==
  ASSUME TypeInv, NEW c \in Connections, OneAtATime(c),
         \A n \in Nat : Travels(c, "completion", n)' => Travels(c, "completion", n),
         childAlive' => childAlive /\ MuteTurn(c) /\ FewerCompletions(c)
  PROVE  OneAtATime(c)'
<1>1. OneTravels(c)'
  BY DEF OneAtATime, OneTravels
<1>2. CASE ~childAlive'
  BY <1>1, <1>2 DEF OneAtATime
<1>3. CASE childAlive'
  <2>1. /\ childAlive /\ MuteTurn(c) /\ FewerCompletions(c)
        /\ Once(controls, CompletionReceipts(c)) /\ ReturnsLater(c) /\ HoldsLock(c) /\ PumpStops(c)
    BY <1>3 DEF OneAtATime
  <2>2. PumpStops(c)'
    BY <2>1 DEF PumpStops, MuteTurn, PumpTurn, StopsLater, Stops
  <2>3. Muted(c) => Muted(c)'
    BY <2>1 DEF MuteTurn, PumpTurn, StopsLater, Muted
  <2>4. \A n \in Nat : Out(c, "completion", n) => Out(c, "completion", n)' \/ Muted(c)' \/ Acks(c)
    <3>1. ASSUME sending[c].kind = "completion", pump[c] = "stopping", pump'[c] = "off" PROVE Muted(c)'
      BY <2>1, <3>1 DEF PumpStops, MuteTurn, StopsLater, Stops, Muted
    <3> QED
      BY <2>1, <3>1 DEF MuteTurn, PumpTurn, Out
  <2>5. ASSUME Acks(c)
        PROVE  /\ \A k \in Items(controls') : k \notin CompletionReceipts(c)
               /\ \A n \in Nat : ~Travels(c, "completion", n)
    <3>1. /\ controls \in Seq(ControlMsg) /\ controls # <<>> /\ controls' = Tail(controls)
          /\ Head(controls) \in CompletionReceipts(c)
      <4>1. controls \in Seq(ControlMsg)
        BY DEF TypeInv, ChannelsType
      <4>2. /\ controls # <<>> /\ controls' = Tail(controls)
            /\ Head(controls) \in ControlMsg /\ Head(controls).kind = "receipt"
        BY <2>5, ControlTypes DEF Acks
      <4> QED
        BY <2>5, <4>1, <4>2 DEF Acks, CompletionReceipts
    <3>2. Head(controls) \in Items(controls)
      BY <3>1, ItemsOf
    <3>3. \A k \in Items(Tail(controls)) : k \notin CompletionReceipts(c)
      BY <2>1, <3>1, OnceTail
    <3> QED
      BY <2>1, <3>1, <3>2, <3>3 DEF ReturnsLater
  <2>6. Once(controls, CompletionReceipts(c))'
    BY <2>1 DEF FewerCompletions, Once, CompletionReceipts
  <2>7. HoldsLock(c)'
    BY <2>1, <2>3, <2>4, <2>5 DEF HoldsLock
  <2>8. ReturnsLater(c)'
    <3> SUFFICES ASSUME NEW k \in Items(controls'), k \in CompletionReceipts(c)
                 PROVE  /\ \A n \in Nat : ~Travels(c, "completion", n)'
                        /\ Out(c, "completion", k.id[3])' \/ Muted(c)'
      BY DEF ReturnsLater, CompletionReceipts, Items
    <3>1. k \in Items(controls) /\ k.id[3] \in Nat /\ ~Acks(c)
      BY <2>1, <2>5 DEF FewerCompletions, CompletionReceipts, ControlMsg, Ids
    <3> QED
      BY <2>1, <2>3, <2>4, <3>1 DEF ReturnsLater
  <2> QED
    BY <1>1, <2>2, <2>6, <2>7, <2>8 DEF OneAtATime
<1> QED
  BY <1>2, <1>3
\* The session hands one over: none was on its way, nor the receipt for one.
LEMMA HandsOneAtATime ==
  ASSUME TypeInv, NEW c \in Connections, OneAtATime(c), StatesFollow, childAlive, UNCHANGED childAlive,
         HandsOver(c), sending[c].kind = "completion",
         \A n \in Nat : Travels(c, "completion", n)' => Travels(c, "completion", n) \/ sending[c].n = n
  PROVE  OneAtATime(c)'
<1>1. /\ Heard(c) /\ ~sending[c].out /\ UNCHANGED <<chan, pump, controls>>
      /\ sending' = [sending EXCEPT ![c].out = TRUE]
  BY PutNotificationTypes DEF HandsOver, PutNotification
<1>2. chan[c].synced >= sending[c].rev /\ chan[c].rev = sending[c].rev
  <2>1. notifications \in Seq(Message) /\ notifications' # notifications
    BY DEF HandsOver, TypeInv, ChannelsType
  <2> QED
    BY <2>1, PutNotificationTypes DEF HandsOver
<1>3. pump[c] = "on" /\ pump'[c] = "on"
  BY <1>1 DEF Heard
<1>4. ~chan[c].syncLost
  <2>1. /\ chan[c].rev \in Nat /\ chan[c].synced \in Nat /\ syncs[c] \in Seq(Sync)
    BY DEF TypeInv, ChildType, ChanType
  <2>2. chan[c].syncLost => chan[c].synced + Len(syncs[c]) < chan[c].rev
    BY DEF StatesFollow, SyncsFollow
  <2>3. Len(syncs[c]) \in Nat
    BY <2>1
  <2> QED
    BY <1>2, <2>1, <2>2, <2>3
<1>5. ~Muted(c) /\ \A n : ~Out(c, "completion", n)
  BY <1>1, <1>3, <1>4 DEF Muted, Out
<1>6. /\ \A n \in Nat : ~Travels(c, "completion", n)
      /\ \A k \in Items(controls) : k \notin CompletionReceipts(c)
      /\ Once(controls, CompletionReceipts(c))
  BY <1>5 DEF OneAtATime, HoldsLock, ReturnsLater
<1>7. \A n \in Nat : Travels(c, "completion", n)' => sending[c].n = n
  BY <1>6
<1>8. OneTravels(c)'
  BY <1>7 DEF OneTravels
<1>9. sending'[c].kind = "completion" /\ sending'[c].out /\ sending'[c].n = sending[c].n
  BY <1>1 DEF TypeInv, ChildType, Sending
<1>10. HoldsLock(c)'
  BY <1>7, <1>9 DEF HoldsLock, Out
<1>11. ReturnsLater(c)' /\ Once(controls, CompletionReceipts(c))'
  BY <1>1, <1>6 DEF ReturnsLater, Once, Items, CompletionReceipts
<1>12. PumpStops(c)'
  BY <1>3 DEF PumpStops
<1> QED
  BY <1>8, <1>10, <1>11, <1>12 DEF OneAtATime
\* The parent tells the child of a completion: it is on its way no longer, and was
\* the only one.
LEMMA TellsOneAtATime ==
  ASSUME TypeInv, TypeInv', NEW c \in Connections, OneAtATime(c), NoticesOnce, FenceInv, childAlive,
         UNCHANGED <<chan, pump, sending, childAlive>>,
         NEW s \in sends, FinishDelivery(s), s.id \in Ids, s.id[1] = c, s.id[2] = "completion",
         controls' = Append(controls, Receipt(s.id, s.at = "sent"))
  PROVE  OneAtATime(c)'
<1> DEFINE k == Receipt(s.id, s.at = "sent")
<1>1. /\ s \in Send /\ s.kind = "completion" /\ s.c = c /\ Labelled(s) /\ s.seq \in Nat
      /\ s.id = <<c, "completion", s.seq>>
  <2>1. s \in Send /\ Named(s) /\ s.seq \in Nat
    BY DEF TypeInv, ParentType, Send, FenceInv
  <2>2. s.kind = "completion" /\ s.c = c
    BY <2>1 DEF Named
  <2>3. Labelled(s)
    BY <2>2 DEF NoticesOnce
  <2> QED
    BY <2>1, <2>2, <2>3 DEF Labelled
<1>2. Travels(c, "completion", s.seq)
  BY <1>1 DEF Travels
<1>3. sends' = sends \ {s} /\ UNCHANGED notifications
  BY DEF FinishDelivery
<1>4. \A n \in Nat : Travels(c, "completion", n)' => Travels(c, "completion", n)
  BY <1>3 DEF Travels, Items
<1>5. ~Travels(c, "completion", s.seq)'
  <2>1. ASSUME NEW m \in Items(notifications), m.c = c, m.kind = "completion", m.seq = s.seq PROVE FALSE
    <3>1. m.id = s.id
      BY <1>1, <2>1 DEF NoticesOnce, Labelled
    <3> QED
      BY <3>1 DEF NoticesOnce
  <2>2. ASSUME NEW t \in sends, t # s, t.c = c, t.kind = "completion", t.seq = s.seq PROVE FALSE
    <3>1. t.id = s.id
      BY <1>1, <2>2 DEF NoticesOnce, Labelled
    <3> QED
      BY <1>1, <2>2, <3>1 DEF NoticesOnce
  <2> QED
    BY <1>3, <2>1, <2>2 DEF Travels, Items
<1>6. \A n \in Nat : Travels(c, "completion", n) => n = s.seq
  BY <1>1, <1>2 DEF OneAtATime, OneTravels
<1>7. \A n \in Nat : ~Travels(c, "completion", n)'
  BY <1>4, <1>5, <1>6
<1>8. \A e \in Items(controls) : e \notin CompletionReceipts(c)
  BY <1>1, <1>2 DEF OneAtATime, ReturnsLater
<1>9. Out(c, "completion", s.seq) \/ Muted(c)
  BY <1>1, <1>2 DEF OneAtATime, HoldsLock
<1>10. k \in ControlMsg /\ k.id[3] = s.seq /\ controls \in Seq(ControlMsg)
  BY <1>1 DEF Receipt, ControlMsg, TypeInv, ChannelsType
<1> HIDE DEF k
<1>11. Items(Append(controls, k)) = Items(controls) \cup {k} /\ Once(Append(controls, k), CompletionReceipts(c))
  BY <1>8, <1>10, ItemsOf, OnceAppend DEF OneAtATime
<1>12. Items(controls)' = Items(controls) \cup {k} /\ Once(controls, CompletionReceipts(c))'
  <2>1. controls' = Append(controls, k)
    BY DEF k
  <2> QED
    BY <1>11, <2>1 DEF Items, Once, CompletionReceipts
<1>13. Out(c, "completion", s.seq)' \/ Muted(c)'
  BY <1>9 DEF Out, Muted
<1>14. ReturnsLater(c)'
  <2>1. \A e \in Items(controls)' : e \in CompletionReceipts(c) => e = k
    BY <1>8, <1>12
  <2> QED
    BY <1>7, <1>10, <1>13, <2>1 DEF ReturnsLater, CompletionReceipts
<1>15. HoldsLock(c)'
  BY <1>7 DEF HoldsLock
<1>16. PumpStops(c)'
  BY DEF OneAtATime, PumpStops, Stops
<1>17. OneTravels(c)'
  BY <1>7 DEF OneTravels
<1> QED
  BY <1>12, <1>14, <1>15, <1>16, <1>17 DEF OneAtATime
\* Every step keeps it.
LEMMA OneStep ==
  ASSUME TypeInv, TypeInv', NoticesOnce, FenceInv, SessionSends, BindingInv, StatesFollow, [Next]_vars,
         NEW c \in Connections, OneAtATime(c)
  PROVE  OneAtATime(c)'
<1>1. \A n \in Nat : Travels(c, "completion", n)' => Travels(c, "completion", n) \/ Handed(c, "completion", n)
  BY TravelsStep
<1>2. childAlive => Once(controls, CompletionReceipts(c))
  BY DEF OneAtATime
<1>3. ASSUME ~Child, ~childAlive' PROVE OneAtATime(c)'
  BY <1>1, <1>3, QuietOneAtATime DEF Handed
<1>4. ASSUME UNCHANGED <<chan, pump, sending>> PROVE MuteTurn(c)
  BY <1>4, AsideMutes DEF StopsLater
<1>5. ASSUME ~Child, UNCHANGED childAlive, MuteTurn(c),
             UNCHANGED controls \/ \E k : controls' = Append(controls, k) /\ k \notin CompletionReceipts(c)
      PROVE  OneAtATime(c)'
  <2>1. \A n \in Nat : Travels(c, "completion", n)' => Travels(c, "completion", n)
    BY <1>1, <1>5 DEF Handed
  <2>2. childAlive => FewerCompletions(c)
    BY <1>2, <1>5, <2>1, FewerOfKind DEF FewerCompletions
  <2> QED
    BY <1>5, <2>1, <2>2, QuietOneAtATime
<1>6. CASE Child
  <2>1. childAlive /\ ChildStep
    BY <1>6 DEF Child, ChildStep
  <2>2. MuteTurn(c)
    BY <2>1, ChildMutes
  <2>3. CASE ~childAlive'
    <3>1. ~HandsOver(c)
      BY <2>1, <2>3 DEF HandsOver, PutNotification
    <3> QED
      BY <1>1, <2>3, <3>1, QuietOneAtATime DEF Handed
  <2>4. CASE \E n \in Nat : Handed(c, "completion", n)
    <3>1. HandsOver(c) /\ sending[c].kind = "completion"
      BY <2>4 DEF Handed
    <3>2. UNCHANGED childAlive
      BY <3>1 DEF HandsOver, PutNotification
    <3>3. \A n \in Nat : Travels(c, "completion", n)' => Travels(c, "completion", n) \/ sending[c].n = n
      BY <1>1 DEF Handed
    <3> QED
      BY <2>1, <3>1, <3>2, <3>3, HandsOneAtATime
  <2>5. CASE \A n \in Nat : ~Handed(c, "completion", n)
    <3>1. FewerCompletions(c)
      BY <1>1, <1>2, <1>6, <2>1, <2>5, FewerOfKind, ChildTakesControls DEF FewerCompletions
    <3> QED
      BY <2>1, <2>2, <3>1, QuietOneAtATime DEF FewerCompletions
  <2> QED
    BY <2>4, <2>5
<1>7. CASE FromParent /\ ~Child
  <2>1. UNCHANGED <<chan, pump, sending, childAlive>>
    BY <1>7, ParentBindings DEF ParentBinds, childVars, sessionVars
  <2>2. ASSUME NEW k, ParentAdds(k), k \in CompletionReceipts(c), childAlive, controls' = Append(controls, k)
        PROVE  OneAtATime(c)'
    <3>1. k.kind = "receipt" /\ k.id \in Ids /\ k.id[1] = c /\ k.id[2] = "completion"
      BY <2>2 DEF CompletionReceipts, ControlMsg
    <3>2. ASSUME NEW s \in sends, FinishDelivery(s), k = Receipt(s.id, s.at = "sent")
          PROVE  OneAtATime(c)'
      <4>1. k.id = s.id
        BY <3>2 DEF Receipt
      <4> QED
        BY <2>1, <2>2, <3>1, <3>2, <4>1, TellsOneAtATime
    <3>3. ASSUME NEW sent, k = ReceiptOf(sent) PROVE FALSE
      BY <3>1, <3>3 DEF ReceiptOf, Receipt
    <3> QED
      BY <2>2, <3>1, <3>2, <3>3 DEF ParentAdds
  <2>3. CASE ~childAlive
    BY <1>3, <1>7, <2>1, <2>3
  <2>4. CASE UNCHANGED controls \/ \E k : controls' = Append(controls, k) /\ k \notin CompletionReceipts(c)
    BY <1>4, <1>5, <1>7, <2>1, <2>4
  <2> QED
    BY <1>7, <2>2, <2>3, <2>4, ParentTells
<1>8. CASE CloseTimeout /\ ChildLost /\ ~Child
  BY <1>3, <1>8 DEF ChildLost
<1>9. CASE ChildDies /\ ~Child
  BY <1>3, <1>9 DEF ChildDies, ChildLost
<1>10. ASSUME NEW d \in Connections, childAlive, Revoke(d), ~Child PROVE OneAtATime(c)'
  <2>1. UNCHANGED <<controls, childAlive>>
    BY <1>10 DEF Revoke, queues
  <2> QED
    BY <1>5, <1>10, <2>1, RevokeMutes
<1>11. ASSUME NEW d \in Connections, ClientLost(d), UNCHANGED childVars, ~Child PROVE OneAtATime(c)'
  <2>1. UNCHANGED <<controls, childAlive, chan, pump, sending>>
    BY <1>11 DEF ClientLost, queues, childVars, sessionVars
  <2> QED
    BY <1>4, <1>5, <1>11, <2>1
<1>12. CASE StartClose /\ UNCHANGED childVars /\ ~Child
  <2>1. UNCHANGED <<childAlive, chan, pump, sending>>
    BY <1>12 DEF StartClose, childVars, sessionVars
  <2>2. controls' = controls \/ controls' = Append(controls, [kind |-> "shutdown", seq |-> sequence])
    BY <1>12, Zenon DEF StartClose
  <2>3. [kind |-> "shutdown", seq |-> sequence] \notin CompletionReceipts(c)
    BY DEF CompletionReceipts
  <2> QED
    BY <1>4, <1>5, <1>12, <2>1, <2>2, <2>3
<1>13. CASE UNCHANGED vars /\ ~Child
  <2>1. UNCHANGED <<controls, childAlive, chan, pump, sending>>
    BY <1>13 DEF vars, queues, childVars, sessionVars
  <2> QED
    BY <1>4, <1>5, <1>13, <2>1
<1> QED
  BY <1>6, <1>7, <1>8, <1>9, <1>10, <1>11, <1>12, <1>13, StepCases

------------------------------------------------------------------------------
\* Where a send task, and a message that waits, come from.
GoesOn(t) ==
    \/ \E s \in sends : /\ Kept(s, t)
                        /\ \/ t.at = s.at \/ t.at = "failed"
                           \/ t.at = "sending" /\ BeginWrite(s)
                           \/ t.at = "sent" /\ Write(s)
    \/ t.kind = "admission" /\ t.at = "waiting"
    \/ \E m \in Items(notifications) : /\ t.c = m.c /\ t.kind = m.kind /\ t.seq = m.seq /\ t.q = m.q
                                       /\ t.at \in {"waiting", "failed"}
Waits(m) == m \in Items(notifications) \/ \E c \in Connections : Child /\ HandsOver(c) /\ m = Notice(c)
\* A send task after such a move of the parent.
LEMMA MovesGoOn ==
  ASSUME TypeInv, SendsMove
  PROVE  \A t \in sends' : GoesOn(t)
<1>0. sends \in SUBSET Send /\ \A s \in sends : Kept(s, s)
  BY DEF TypeInv, ParentType, Kept
<1>1. ASSUME NEW t \in sends PROVE GoesOn(t)
  BY <1>0, <1>1 DEF GoesOn
<1>2. CASE sends' \subseteq sends
  BY <1>1, <1>2
<1>3. ASSUME NEW S, sends' = Cancelled(S) PROVE \A t \in sends' : GoesOn(t)
  <2>1. ASSUME NEW s \in sends PROVE GoesOn([s EXCEPT !.at = "failed"])
    <3>1. s \in Send /\ "failed" \in Stages
      BY <1>0 DEF Stages
    <3>2. [s EXCEPT !.at = "failed"].at = "failed" /\ Kept(s, [s EXCEPT !.at = "failed"])
      BY <3>1, SendStage
    <3> QED
      BY <3>2 DEF GoesOn
  <2>2. \A t \in Cancelled(S) : t \in sends \/ \E s \in sends : t = [s EXCEPT !.at = "failed"]
    BY DEF Cancelled
  <2> QED
    BY <1>1, <1>3, <2>1, <2>2
<1>4. ASSUME NEW s \in sends, BeginWrite(s) \/ Write(s) PROVE \A t \in sends' : GoesOn(t)
  <2>1. PICK place \in Stages : /\ sends' = (sends \ {s}) \cup {[s EXCEPT !.at = place]}
                                /\ \/ place = "failed"
                                   \/ place = "sending" /\ BeginWrite(s)
                                   \/ place = "sent" /\ Write(s)
    BY <1>4, BeginWriteTypes, WriteTypes DEF Stages
  <2> DEFINE x == [s EXCEPT !.at = place]
  <2>2. x.at = place /\ Kept(s, x) /\ sends' = (sends \ {s}) \cup {x}
    BY <1>0, <2>1, SendStage
  <2> HIDE DEF x
  <2>3. GoesOn(x)
    BY <2>1, <2>2 DEF GoesOn
  <2> QED
    BY <1>1, <2>2, <2>3
<1>5. ASSUME NEW x \in Send, x.kind = "admission", x.at = "waiting", sends' = sends \cup {x}
      PROVE  \A t \in sends' : GoesOn(t)
  <2>1. GoesOn(x)
    BY <1>5 DEF GoesOn
  <2> QED
    BY <1>1, <1>5, <2>1
<1> QED
  BY <1>2, <1>3, <1>4, <1>5, Zenon DEF SendsMove
\* The send tasks and the messages after any step.
LEMMA MessagesStep ==
  ASSUME TypeInv, NoticesOnce, [Next]_vars
  PROVE  /\ \A t \in sends' : GoesOn(t)
         /\ \A m \in Items(notifications') : Waits(m)
<1> DEFINE Goal == (\A t \in sends' : GoesOn(t)) /\ (\A m \in Items(notifications') : Waits(m))
<1>0. notifications \in Seq(Message)
  BY DEF TypeInv, ChannelsType
<1>1. ASSUME SendsMove, Items(notifications') \subseteq Items(notifications) PROVE Goal
  BY <1>1, MovesGoOn DEF Waits
<1>2. ASSUME SendsMove, UNCHANGED notifications PROVE Goal
  <2>1. Items(notifications') \subseteq Items(notifications)
    BY <1>2
  <2> HIDE DEF Goal
  <2> QED
    BY <1>1, <1>2, <2>1
<1>3. ASSUME UNCHANGED <<sends, notifications>> PROVE Goal
  <2>1. SendsMove
    BY <1>3 DEF SendsMove
  <2> HIDE DEF Goal
  <2> QED
    BY <1>2, <1>3, <2>1
<1>4. ASSUME FromParent PROVE Goal
  <2>1. ASSUME StartsSend PROVE Goal
    <3> DEFINE m == Head(notifications)
    <3>1. Items(notifications') \subseteq Items(notifications) /\ m \in Items(notifications)
      BY <1>0, <2>1, ItemsOf DEF StartsSend
    <3>2. PICK x \in Send : /\ sends' = sends \cup {x} /\ Arrived(x, m) /\ x.seq = m.seq /\ x.q = m.q
                            /\ x.at \in {"waiting", "failed"}
      BY <2>1 DEF StartsSend
    <3>3. GoesOn(x)
      BY <3>1, <3>2 DEF GoesOn, Arrived
    <3>4. \A t \in sends : GoesOn(t)
      BY DEF GoesOn, Kept
    <3> QED
      BY <3>1, <3>2, <3>3, <3>4 DEF Waits
  <2> HIDE DEF Goal
  <2> QED
    BY <1>2, <1>4, <2>1, ParentStarts
<1>5. ASSUME Child PROVE Goal
  <2>1. UNCHANGED sends
    BY <1>5 DEF Child, parentVars, tableVars
  <2>2. ASSUME NEW c \in Connections, HandsOver(c) PROVE Goal
    <3>1. Items(Append(notifications, Notice(c))) = Items(notifications) \cup {Notice(c)}
      BY <1>0, <2>2, ItemsOf DEF HandsOver
    <3>2. Items(notifications') = Items(notifications) \cup {Notice(c)}
      BY <2>2, <3>1 DEF HandsOver
    <3>3. SendsMove
      BY <2>1 DEF SendsMove
    <3> QED
      BY <1>5, <2>2, <3>2, <3>3, MovesGoOn DEF Waits
  <2> HIDE DEF Goal
  <2> QED
    BY <1>3, <1>5, <2>1, <2>2, ChildNotices
<1>6. ASSUME CloseTimeout /\ ChildLost PROVE Goal
  <2>1. \E S : sends' = Cancelled(S)
    BY <1>6, Zenon DEF CloseTimeout, Fail
  <2>2. UNCHANGED notifications
    BY <1>6 DEF CloseTimeout, queues
  <2>3. SendsMove
    BY <2>1 DEF SendsMove
  <2> HIDE DEF Goal
  <2> QED
    BY <1>2, <2>2, <2>3
<1>7. ASSUME ChildDies /\ UNCHANGED parentVars PROVE Goal
  <2>1. SendsMove
    BY <1>7 DEF SendsMove, parentVars, tableVars
  <2>2. PICK j \in 0..Len(notifications) : notifications' = SubSeq(notifications, 1, j)
    BY <1>7, ChildDiesTypes
  <2>3. Items(notifications') \subseteq Items(notifications)
    BY <1>0, <2>2, ItemsOf
  <2> HIDE DEF Goal
  <2> QED
    BY <1>1, <2>1, <2>3
<1>8. ASSUME StartClose PROVE Goal
  <2>1. SendsMove /\ UNCHANGED notifications
    BY <1>8, Zenon DEF StartClose, SendsMove
  <2> HIDE DEF Goal
  <2> QED
    BY <1>2, <2>1
<1>9. ASSUME \/ \E c \in Connections : ClientLost(c)
             \/ (\E c \in Connections : Revoke(c)) /\ UNCHANGED parentVars
             \/ UNCHANGED vars
      PROVE  Goal
  <2>1. UNCHANGED <<sends, notifications>>
    BY <1>9 DEF ClientLost, Revoke, vars, parentVars, tableVars, queues
  <2> HIDE DEF Goal
  <2> QED
    BY <1>3, <2>1
<1> HIDE DEF Goal
<1>10. Goal
  BY <1>4, <1>5, <1>6, <1>7, <1>8, <1>9, StepCases
<1> QED
  BY <1>10 DEF Goal

------------------------------------------------------------------------------
\* What is still to be written is about a later command than what was, and so what is
\* written is in order.
ToWrite(c, n) ==
    \/ \E m \in Items(notifications) : m.c = c /\ m.kind = "completion" /\ m.seq = n
    \/ \E s \in sends : s.c = c /\ s.kind = "completion" /\ s.seq = n /\ s.at \in {"waiting", "sending"}
Unwritten(c) == \A n, m \in Nat : Wrote(c, "completion", n) /\ ToWrite(c, m) => n < m
WireOrdered(c) ==
    \A i, j \in 1..Len(wire[c]) :
        i < j /\ wire[c][i].kind = "completion" /\ wire[c][j].kind = "completion"
            => wire[c][i].seq < wire[c][j].seq
\* What is to be written was, or is handed over.
LEMMA ToWriteStep ==
  ASSUME TypeInv, NoticesOnce, [Next]_vars, NEW c \in Connections
  PROVE  \A n \in Nat : ToWrite(c, n)' => ToWrite(c, n) \/ Handed(c, "completion", n)
<1> SUFFICES ASSUME NEW n \in Nat, ToWrite(c, n)'
             PROVE  ToWrite(c, n) \/ Handed(c, "completion", n)
  OBVIOUS
<1>1. (\A t \in sends' : GoesOn(t)) /\ (\A m \in Items(notifications') : Waits(m))
  BY MessagesStep
<1>2. ASSUME NEW m \in Items(notifications'), m.c = c, m.kind = "completion", m.seq = n
      PROVE  ToWrite(c, n) \/ Handed(c, "completion", n)
  <2>1. CASE m \in Items(notifications)
    BY <1>2, <2>1 DEF ToWrite
  <2>2. ASSUME NEW d \in Connections, Child, HandsOver(d), m = Notice(d)
        PROVE  Handed(c, "completion", n)
    BY <1>2, <2>2 DEF Notice, Handed
  <2> QED
    BY <1>1, <2>1, <2>2 DEF Waits
<1>3. ASSUME NEW t \in sends', t.c = c, t.kind = "completion", t.seq = n, t.at \in {"waiting", "sending"}
      PROVE  ToWrite(c, n)
  <2>1. GoesOn(t)
    BY <1>1
  <2>2. ASSUME NEW s \in sends, Kept(s, t), t.at = s.at \/ BeginWrite(s) PROVE ToWrite(c, n)
    BY <1>3, <2>2 DEF ToWrite, Kept, BeginWrite
  <2> QED
    BY <1>3, <2>1, <2>2 DEF GoesOn, ToWrite
<1> QED
  BY <1>2, <1>3 DEF ToWrite, Items
\* What is written is to be written no more.
LEMMA WritesIt ==
  ASSUME TypeInv, NoticesOnce, NEW s \in sends, Write(s), s.kind = "completion"
  PROVE  ~ToWrite(s.c, s.seq)'
<1>1. PICK place \in {"sent", "failed"} : sends' = (sends \ {s}) \cup {[s EXCEPT !.at = place]}
  BY WriteTypes
<1>2. s \in Send /\ UNCHANGED notifications
  BY DEF Write, queues, TypeInv, ParentType
<1> DEFINE x == [s EXCEPT !.at = place]
<1>3. x.at = place /\ sends' = (sends \ {s}) \cup {x}
  BY <1>1, <1>2 DEF Send
<1> HIDE DEF x
<1>4. ASSUME NEW m \in Items(notifications), m.c = s.c, m.kind = "completion", m.seq = s.seq PROVE FALSE
  <2>1. m.id = s.id
    BY <1>4 DEF NoticesOnce, Labelled
  <2> QED
    BY <2>1 DEF NoticesOnce
<1>5. ASSUME NEW t \in sends, t # s, t.c = s.c, t.kind = "completion", t.seq = s.seq PROVE FALSE
  <2>1. t.id = s.id
    BY <1>5 DEF NoticesOnce, Labelled
  <2> QED
    BY <1>5, <2>1 DEF NoticesOnce
<1> QED
  BY <1>2, <1>3, <1>4, <1>5 DEF ToWrite, Items
\* Every step keeps the order.
LEMMA OrderStep ==
  ASSUME TypeInv, NoticesOnce, SessionSends, BindingInv, [Next]_vars,
         NEW c \in Connections, OneTravels(c), Unwritten(c), WireOrdered(c)
  PROVE  Unwritten(c)' /\ WireOrdered(c)'
<1>0. /\ wire[c] \in Seq(Written) /\ \A s \in sends : s \in Send /\ s.seq \in Nat
      /\ \A m \in Items(notifications) : m.seq \in Nat
      /\ \A j \in 1..Len(wire[c]) : wire[c][j].seq \in Nat
  <2>1. notifications \in Seq(Message)
    BY DEF TypeInv, ChannelsType
  <2>2. \A m \in Items(notifications) : m \in Message
    BY <2>1, ItemsOf
  <2>3. wire[c] \in Seq(Written) /\ sends \in SUBSET Send
    BY DEF TypeInv, ParentType
  <2>4. \A j \in 1..Len(wire[c]) : wire[c][j].seq \in Nat
    <3>1. \A j \in 1..Len(wire[c]) : wire[c][j] \in Written
      BY <2>3
    <3>2. \A w \in Written : w.seq \in Nat
      BY DEF Written
    <3> QED
      BY <3>1, <3>2
  <2>5. \A m \in Message : m.seq \in Nat
    BY DEF Message
  <2>6. \A s \in Send : s.seq \in Nat
    BY DEF Send
  <2> QED
    BY <2>2, <2>3, <2>4, <2>5, <2>6
<1>1. \A n \in Nat : ToWrite(c, n)' => ToWrite(c, n) \/ Handed(c, "completion", n)
  BY ToWriteStep
<1>2. \A n : ToWrite(c, n) => Travels(c, "completion", n)
  BY DEF ToWrite, Travels
<1>3. ASSUME NEW n \in Nat, NEW m \in Nat, Wrote(c, "completion", n), Handed(c, "completion", m)
      PROVE  n < m
  <2>1. /\ childAlive /\ sending[c] # Nobody /\ ~sending[c].out /\ sending[c].kind = "completion" /\ sending[c].n = m
    BY <1>3 DEF Handed, HandsOver, Child, ChildStep
  <2>2. Sends(c) /\ admitted[c] \in Seq(Admission) /\ admitted[c] # <<>>
    BY <2>1 DEF SessionSends, TypeInv, ChildType, CompletionHeld
  <2>3. 1 \in 1..Len(admitted[c]) /\ m = admitted[c][1].seq
    BY <2>1, <2>2 DEF Sends, SendsNumbered
  <2> QED
    BY <1>3, <2>1, <2>2, <2>3 DEF Sends, CompletionsNew, Out
<1>4. CASE wire'[c] = wire[c]
  <2>1. WireOrdered(c)' /\ \A n : Wrote(c, "completion", n)' <=> Wrote(c, "completion", n)
    BY <1>4 DEF WireOrdered, Wrote
  <2> QED
    BY <1>1, <1>3, <2>1 DEF Unwritten
<1>5. ASSUME NEW s \in sends, NEW w \in Written, Write(s), s.c = c, s.at = "sending",
             w.kind = s.kind, w.seq = s.seq, wire'[c] = Append(wire[c], w)
      PROVE  Unwritten(c)' /\ WireOrdered(c)'
  <2>1. /\ \A j \in 1..Len(wire'[c]) : (j \in 1..Len(wire[c]) /\ wire'[c][j] = wire[c][j]) \/ wire'[c][j] = w
        /\ Len(wire'[c]) = Len(wire[c]) + 1 /\ Len(wire[c]) \in Nat
        /\ \A j \in 1..Len(wire[c]) : wire'[c][j] = wire[c][j]
        /\ wire'[c][Len(wire[c]) + 1] = w
    BY <1>0, <1>5
  <2>2. w.kind = "completion" => ToWrite(c, w.seq) /\ Travels(c, "completion", w.seq) /\ ~ToWrite(c, w.seq)'
    BY <1>2, <1>5, WritesIt DEF ToWrite
  <2>3. \A n \in Nat : ~Handed(c, "completion", n)
    <3>1. wire' # wire
      BY <1>0, <1>5, <2>1
    <3> QED
      BY <3>1 DEF Handed, Child, parentVars
  <2>4. \A n : Wrote(c, "completion", n)' => Wrote(c, "completion", n) \/ (w.kind = "completion" /\ n = w.seq)
    BY <2>1 DEF Wrote
  <2>5. Unwritten(c)'
    <3> SUFFICES ASSUME NEW n \in Nat, NEW m \in Nat, Wrote(c, "completion", n)', ToWrite(c, m)'
                 PROVE  n < m
      BY DEF Unwritten
    <3>1. ToWrite(c, m)
      BY <1>1, <2>3
    <3>2. ~(w.kind = "completion" /\ n = w.seq)
      <4>1. w.kind = "completion" /\ n = w.seq => m = w.seq
        BY <1>2, <2>2, <3>1 DEF OneTravels
      <4> QED
        BY <2>2, <4>1
    <3> QED
      BY <2>4, <3>1, <3>2 DEF Unwritten
  <2>6. WireOrdered(c)'
    <3> SUFFICES ASSUME NEW i \in 1..Len(wire'[c]), NEW j \in 1..Len(wire'[c]), i < j,
                        wire'[c][i].kind = "completion", wire'[c][j].kind = "completion"
                 PROVE  wire'[c][i].seq < wire'[c][j].seq
      BY DEF WireOrdered
    <3>1. i \in 1..Len(wire[c]) /\ wire'[c][i] = wire[c][i]
      BY <2>1
    <3>2. CASE j \in 1..Len(wire[c])
      BY <2>1, <3>1, <3>2 DEF WireOrdered
    <3>3. CASE j \notin 1..Len(wire[c])
      <4>1. wire'[c][j] = w
        BY <2>1, <3>3
      <4>2. Wrote(c, "completion", wire[c][i].seq) /\ wire[c][i].seq \in Nat
        BY <1>0, <3>1 DEF Wrote
      <4>3. wire[c][i].seq < w.seq
        BY <1>0, <1>5, <2>2, <4>1, <4>2 DEF Unwritten
      <4> QED
        BY <3>1, <4>1, <4>3
    <3> QED
      BY <3>2, <3>3
  <2> QED
    BY <2>5, <2>6
<1> QED
  BY <1>4, <1>5, WireGrows

------------------------------------------------------------------------------
\* A request keeps its place in the table until its admission is written, while its
\* connection lives.
Unacked(c, q, n) == running[c][q].seq = n /\ ~running[c][q].acked
AdmissionOut(c, n) == \E s \in sends : s.c = c /\ s.kind = "admission" /\ s.at = "sent" /\ s.seq = n
KeepsPlace(d) ==
    \A q \in RequestIds, n \in Nat : Unacked(d, q, n) => Unacked(d, q, n)' \/ ~Live(d)' \/ AdmissionOut(d, n)
\* The entries that are cleared are those of connections that are closed by it.
LEMMA ClearedPlaces ==
  ASSUME NEW S, running' = Cleared(S), NEW d \in Connections, d \in S => ~Live(d)'
  PROVE  KeepsPlace(d)
<1>1. d \notin S => running'[d] = running[d]
  BY DEF Cleared
<1> QED
  BY <1>1 DEF KeepsPlace, Unacked
\* A new request takes a place that was free.
LEMMA EnqueuePlaces ==
  ASSUME TypeInv, NEW c \in Connections, Enqueue(c), NEW d \in Connections
  PROVE  /\ KeepsPlace(d)
         /\ \/ \E q \in {worker[c].q} : running'[c][q].seq = sequence + 1 /\ ~running'[c][q].acked
            \/ UNCHANGED commands
<1>0. running \in [Connections -> [RequestIds -> Entry]] /\ sequence \in Nat
  BY DEF TypeInv, ParentType
<1>1. CASE ~conn[c].broken /\ Permitted(c)
  <2> DEFINE q == worker[c].q
             e == [seq |-> sequence + 1, rev |-> conn[c].rev, acked |-> FALSE, terminal |-> FALSE]
  <2>1. running' = [running EXCEPT ![c][q] = e] /\ running[c][q] = None
    BY <1>1, Zenon DEF Enqueue, Permitted
  <2>2. q \in RequestIds /\ e.seq = sequence + 1 /\ ~e.acked /\ None.acked
    BY DEF Enqueue, TypeInv, ParentType, WorkerType, None
  <2> HIDE DEF e, q
  <2>3. /\ running'[c][q] = e
        /\ \A x \in RequestIds : d # c \/ x # q => running'[d][x] = running[d][x]
    BY <1>0, <2>1, <2>2
  <2>4. KeepsPlace(d)
    BY <2>1, <2>2, <2>3 DEF KeepsPlace, Unacked
  <2>5. running'[c][q].seq = sequence + 1 /\ ~running'[c][q].acked
    BY <2>2, <2>3
  <2> QED
    BY <2>4, <2>5 DEF q
<1>2. CASE conn[c].broken \/ ~Permitted(c)
  <2>1. UNCHANGED <<running, commands>>
    BY <1>2, Zenon DEF Enqueue, Permitted
  <2> QED
    BY <2>1 DEF KeepsPlace, Unacked
<1> QED
  BY <1>1, <1>2
\* An admission that was written is acknowledged, or takes a finished request away.
LEMMA AdmittedPlaces ==
  ASSUME TypeInv, NEW c \in Connections, Admitted(c), NEW d \in Connections
  PROVE  KeepsPlace(d)
<1>0. running \in [Connections -> [RequestIds -> Entry]] /\ sends \in SUBSET Send
  BY DEF TypeInv, ParentType
<1>1. PICK s \in sends :
         /\ s.c = c /\ s.kind = "admission" /\ s.at \in {"sent", "failed"}
         /\ \/ running' = running
            \/ /\ s.at = "sent" /\ s.seq # 0 /\ running[c][s.q].seq = s.seq
               /\ running' = [running EXCEPT ![c][s.q] =
                                IF @.terminal THEN None ELSE [@ EXCEPT !.acked = TRUE]]
  BY Zenon DEF Admitted
<1>2. CASE running' = running
  BY <1>2 DEF KeepsPlace, Unacked
<1>3. CASE running' # running
  <2>1. \A q \in RequestIds : d # c \/ q # s.q => running'[d][q] = running[d][q]
    BY <1>0, <1>1, <1>3
  <2>2. s.at = "sent" /\ running[c][s.q].seq = s.seq
    BY <1>1, <1>3
  <2>3. \A q \in RequestIds, n \in Nat : Unacked(d, q, n) /\ d = c /\ q = s.q => AdmissionOut(d, n)
    BY <1>1, <2>2 DEF Unacked, AdmissionOut
  <2> QED
    BY <2>1, <2>3 DEF KeepsPlace, Unacked
<1> QED
  BY <1>2, <1>3
\* A finished request stays until its admission is written.
LEMMA TerminalPlaces ==
  ASSUME TypeInv, ReadTerminal, NEW d \in Connections
  PROVE  KeepsPlace(d)
<1>0. running \in [Connections -> [RequestIds -> Entry]]
  BY DEF TypeInv, ParentType
<1> DEFINE r == Head(results)
<1>1. \/ running' = running
      \/ running' = [running EXCEPT ![r.c][r.q] = IF @.acked THEN None ELSE [@ EXCEPT !.terminal = TRUE]]
  BY Zenon DEF ReadTerminal
<1>2. Reading("terminal")
  BY DEF ReadTerminal
<1>3. r.c \in Connections /\ r.q \in RequestIds
  <2>1. r \in Result /\ r.kind = "terminal"
    BY <1>2, ReadingTypes
  <2> QED
    BY <2>1 DEF Result
<1> HIDE DEF r
<1>4. \A e \in Entry : ~e.acked => LET x == [e EXCEPT !.terminal = TRUE] IN x.seq = e.seq /\ ~x.acked
  BY DEF Entry
<1> DEFINE e == running[r.c][r.q]
           x == IF e.acked THEN None ELSE [e EXCEPT !.terminal = TRUE]
<1>5. ASSUME running' # running
      PROVE  /\ \A q \in RequestIds : d # r.c \/ q # r.q => running'[d][q] = running[d][q]
             /\ running'[r.c][r.q] = x
  <2>1. running' = [running EXCEPT ![r.c][r.q] = x]
    BY <1>1, <1>5
  <2> HIDE DEF x
  <2> QED
    BY <1>0, <1>3, <2>1
<1>6. running[r.c][r.q] \in Entry
  BY <1>0, <1>3
<1>7. ASSUME running' # running, NEW q \in RequestIds, NEW n \in Nat, Unacked(d, q, n)
      PROVE  Unacked(d, q, n)'
  <2>1. CASE d # r.c \/ q # r.q
    BY <1>5, <1>7, <2>1 DEF Unacked
  <2>2. CASE d = r.c /\ q = r.q
    <3>1. ~running[r.c][r.q].acked /\ running[r.c][r.q].seq = n
      BY <1>7, <2>2 DEF Unacked
    <3> QED
      BY <1>4, <1>5, <1>6, <1>7, <2>2, <3>1 DEF Unacked
  <2> QED
    BY <2>1, <2>2
<1> QED
  BY <1>7 DEF KeepsPlace, Unacked
\* The answers: an error of an enqueue closes its connection.
LEMMA AnswerPlaces ==
  ASSUME TypeInv, ReadAnswer, NEW d \in Connections, \A reason : Fail(reason) => KeepsPlace(d)
  PROVE  KeepsPlace(d)
<1>1. \/ Fail("protocol")
      \/ \E p \in pending : AnswerAccepted(p) \/ CallRefused(p) \/ EnqueueRefused(p)
  BY Zenon DEF Reject, ReadAnswer
<1>2. ASSUME NEW p \in pending, AnswerAccepted(p) \/ CallRefused(p)
      PROVE  KeepsPlace(d)
  <2>1. running' = running
    BY <1>2 DEF AnswerAccepted, CallRefused
  <2> QED
    BY <2>1 DEF KeepsPlace, Unacked
<1>3. ASSUME NEW p \in pending, EnqueueRefused(p)
      PROVE  KeepsPlace(d)
  <2>1. running' = Cleared({p.c})
    BY <1>3 DEF EnqueueRefused
  <2>2. d = p.c => conn'[d].closed
    <3>1. conn' = Shut({p.c}) /\ ConnType
      BY <1>3 DEF EnqueueRefused, TypeInv, ParentType
    <3> QED
      BY <3>1 DEF Shut, ConnType, ConnFields
  <2> QED
    BY <2>1, <2>2, ClearedPlaces DEF Live
<1> QED
  BY <1>1, <1>2, <1>3
\* A step of the parent keeps the places.
LEMMA ParentPlaces ==
  ASSUME TypeInv, LivesInv, FromParent, NEW d \in Connections, worker[d].at # "new"
  PROVE  KeepsPlace(d)
<1>1. UNCHANGED running => KeepsPlace(d)
  BY DEF KeepsPlace, Unacked
<1>2. ASSUME NEW reason, Fail(reason)
      PROVE  KeepsPlace(d)
  <2>1. running' = Cleared(Registered)
    BY <1>2 DEF Fail
  <2>2. d \in Registered => ~Live(d)'
    BY <1>2, FailConn DEF Registered, Live
  <2> QED
    BY <2>1, <2>2, ClearedPlaces
<1>3. ASSUME NEW c \in Connections, Connect(c) \/ EndWorker(c) \/ DisconnectStart(c)
      PROVE  KeepsPlace(d)
  BY <1>1, <1>3 DEF Connect, EndWorker, DisconnectStart
<1>4. ASSUME NEW c \in Connections, SendEnvelope(c)
      PROVE  KeepsPlace(d)
  BY <1>1, <1>4 DEF SendEnvelope
<1>5. ASSUME NEW c \in Connections, NEW q \in RequestIds, TakeRequest(c, q)
      PROVE  KeepsPlace(d)
  BY <1>1, <1>5 DEF TakeRequest, tableVars
<1>6. ASSUME NEW c \in Connections, Enqueue(c) \/ Admitted(c)
      PROVE  KeepsPlace(d)
  BY <1>6, EnqueuePlaces, AdmittedPlaces
<1>7. ASSUME NEW c \in Connections, DisconnectEnd(c)
      PROVE  KeepsPlace(d)
  <2>1. running' = Cleared({c})
    BY <1>7 DEF DisconnectEnd
  <2>2. d = c => ~conn'[d].registered
    BY <1>7, DisconnectEndConn
  <2>3. worker'[d].at # "new"
    BY ParentLives DEF Lives
  <2> QED
    BY <2>1, <2>2, <2>3, ClearedPlaces DEF Live
<1>8. ASSUME NEW s \in sends, BeginWrite(s) \/ Write(s) \/ FinishDelivery(s)
      PROVE  KeepsPlace(d)
  BY <1>1, <1>8 DEF BeginWrite, Write, FinishDelivery
<1>9. ASSUME ReadNotification \/ ChildEnded \/ EndClose
      PROVE  KeepsPlace(d)
  <2>1. UNCHANGED running \/ \E reason : Fail(reason)
    BY <1>9, Zenon DEF Reject, ReadNotification, ChildEnded, EndClose
  <2> QED
    BY <1>1, <1>2, <2>1
<1>10. ASSUME ReadState
       PROVE  KeepsPlace(d)
  <2>1. UNCHANGED running \/ Fail("protocol")
    BY <1>10, Zenon DEF Reject, ReadState
  <2> QED
    BY <1>1, <1>2, <2>1
<1>11. ASSUME ReadProcessed \/ ReadDisconnected
       PROVE  KeepsPlace(d)
  BY <1>1, <1>11 DEF ReadProcessed, ReadDisconnected, tableVars
<1>12. ASSUME ReadSocketClose
       PROVE  KeepsPlace(d)
  <2> DEFINE c == Head(results).c
  <2>1. \/ UNCHANGED running
        \/ conn' = Shut({c}) /\ running' = Cleared({c})
    BY <1>12, Zenon DEF ReadSocketClose
  <2>2. conn' = Shut({c}) /\ d = c => conn'[d].closed
    BY DEF Shut, TypeInv, ParentType, ConnType, ConnFields
  <2> HIDE DEF c
  <2> QED
    BY <1>1, <2>1, <2>2, ClearedPlaces DEF Live
<1> HIDE DEF KeepsPlace
<1> QED
  BY <1>2, <1>3, <1>4, <1>5, <1>6, <1>7, <1>8, <1>9, <1>10, <1>11, <1>12, AnswerPlaces, TerminalPlaces, Zenon
  DEF FromParent, Parent, ParentStep, ClientSends

------------------------------------------------------------------------------
\* What a completion is about, until it is written: a request that keeps its place, or
\* one whose admission was written, unless its connection is over.
Tracked(c, q, n) == worker[c].at # "new" /\ (Live(c) => Wrote(c, "admission", n) \/ Unacked(c, q, n))
SentAdmissions == \A s \in sends : s.kind = "admission" /\ s.at = "sent" => Wrote(s.c, "admission", s.seq)
\* What was written stays written.
LEMMA WroteStays ==
  ASSUME TypeInv, [Next]_vars, NEW c \in Connections
  PROVE  \A kind, n : Wrote(c, kind, n) => Wrote(c, kind, n)'
<1>0. wire[c] \in Seq(Written)
  BY DEF TypeInv, ParentType
<1>1. CASE wire'[c] = wire[c]
  BY <1>1 DEF Wrote
<1>2. ASSUME NEW w \in Written, wire'[c] = Append(wire[c], w)
      PROVE  \A kind, n : Wrote(c, kind, n) => Wrote(c, kind, n)'
  <2>1. \A j \in 1..Len(wire[c]) : j \in 1..Len(wire'[c]) /\ wire'[c][j] = wire[c][j]
    BY <1>0, <1>2
  <2> QED
    BY <2>1 DEF Wrote
<1> QED
  BY <1>1, <1>2, WireGrows
\* A connection begins, and is over, once; until then its requests keep their places.
LEMMA PlacesStep ==
  ASSUME TypeInv, LivesInv, [Next]_vars, NEW d \in Connections
  PROVE  /\ Live(d)' => Live(d)
         /\ worker'[d].at = "new" => worker[d].at = "new"
         /\ worker[d].at # "new" => KeepsPlace(d)
<1> DEFINE Goal == /\ Live(d)' => Live(d)
                   /\ worker'[d].at = "new" => worker[d].at = "new"
                   /\ worker[d].at # "new" => KeepsPlace(d)
<1>1. ASSUME UNCHANGED <<conn, worker, running>> PROVE Goal
  BY <1>1 DEF Live, KeepsPlace, Unacked
<1>2. ASSUME FromParent PROVE Goal
  <2>1. worker'[d].at = "new" => worker[d].at = "new"
    BY <1>2, ParentLives DEF Lives
  <2>2. Live(d)' => Live(d)
    BY <1>2, ParentLive
  <2>3. worker[d].at # "new" => KeepsPlace(d)
    BY <1>2, ParentPlaces
  <2> QED
    BY <2>1, <2>2, <2>3
<1>3. ASSUME CloseTimeout /\ ChildLost PROVE Goal
  <2>1. Fail("unknown")
    BY <1>3 DEF CloseTimeout
  <2>2. /\ conn'[d].registered => conn[d].registered
        /\ conn[d].closed => conn'[d].closed
        /\ conn[d].registered => conn'[d].closed
    BY <2>1, FailConn
  <2>3. worker'[d].at = "new" => worker[d].at = "new"
    BY <2>1, FailWorker
  <2>4. running' = Cleared(Registered) /\ (d \in Registered => ~Live(d)')
    BY <2>1, <2>2 DEF Fail, Registered, Live
  <2>5. KeepsPlace(d)
    BY <2>4, ClearedPlaces
  <2>6. Live(d)' => Live(d)
    BY <2>2, <2>3 DEF Live
  <2> QED
    BY <2>3, <2>5, <2>6
<1>4. ASSUME \E c \in Connections : ClientLost(c) PROVE Goal
  <2>0. PICK c \in Connections : ClientLost(c)
    BY <1>4
  <2>1. UNCHANGED <<worker, running>>
    BY <2>0 DEF ClientLost, tableVars
  <2>2. conn'[d].registered = conn[d].registered /\ conn'[d].closed = conn[d].closed
    BY <2>0, ClientLostConn
  <2> QED
    BY <2>1, <2>2 DEF Live, KeepsPlace, Unacked
<1>5. ASSUME \/ Child
             \/ ChildDies /\ UNCHANGED parentVars
             \/ StartClose
             \/ (\E c \in Connections : Revoke(c)) /\ UNCHANGED parentVars
             \/ UNCHANGED vars
      PROVE  Goal
  <2>1. UNCHANGED <<conn, worker, running>>
    BY <1>5 DEF Child, StartClose, vars, parentVars, connVars, tableVars
  <2> HIDE DEF Goal
  <2> QED
    BY <1>1, <2>1
<1> HIDE DEF Goal
<1>6. Goal
  BY <1>2, <1>3, <1>4, <1>5, StepCases
<1> QED
  BY <1>6 DEF Goal
\* So what is tracked stays tracked.
LEMMA TrackedStays ==
  ASSUME TypeInv, LivesInv, SentAdmissions, [Next]_vars,
         NEW c \in Connections, NEW q \in RequestIds, NEW n \in Nat, Tracked(c, q, n)
  PROVE  Tracked(c, q, n)'
<1>1. worker'[c].at # "new"
  BY PlacesStep DEF Tracked
<1>2. SUFFICES ASSUME Live(c)' PROVE Wrote(c, "admission", n)' \/ Unacked(c, q, n)'
  BY <1>1 DEF Tracked
<1>3. Wrote(c, "admission", n) \/ Unacked(c, q, n)
  BY <1>2, PlacesStep DEF Tracked
<1>4. CASE Wrote(c, "admission", n)
  BY <1>4, WroteStays
<1>5. CASE Unacked(c, q, n)
  <2>1. Unacked(c, q, n)' \/ AdmissionOut(c, n)
    BY <1>2, <1>5, PlacesStep DEF Tracked, KeepsPlace
  <2>2. AdmissionOut(c, n) => Wrote(c, "admission", n)
    BY DEF AdmissionOut, SentAdmissions
  <2> QED
    BY <1>4, <2>1, <2>2
<1> QED
  BY <1>3, <1>4, <1>5

------------------------------------------------------------------------------
\* A request is queued by the worker of its connection, at its place in the table.
EnqueuedBy(m, c) ==
    /\ worker[c].at = "barrier" /\ worker'[c].at # "new"
    /\ m.c = c /\ running'[c][m.q].seq = m.seq /\ ~running'[c][m.q].acked
\* No other request enters the queue of commands.
LEMMA EnqueuesStep ==
  ASSUME TypeInv, [Next]_vars
  PROVE  \A m \in Items(commands') :
            m \in Items(commands) \/ m.op # "enqueue" \/ \E c \in Connections : EnqueuedBy(m, c)
<1> DEFINE Goal(m) == m \in Items(commands) \/ m.op # "enqueue" \/ \E c \in Connections : EnqueuedBy(m, c)
<1>0. commands \in Seq(Command)
  BY DEF TypeInv, ChannelsType
<1>1. ASSUME Items(commands') \subseteq Items(commands) PROVE \A m \in Items(commands') : Goal(m)
  BY <1>1
<1>2. UNCHANGED commands => \A m \in Items(commands') : Goal(m)
  OBVIOUS
<1>3. ASSUME NEW m, Queues(m), Goal(m) PROVE \A k \in Items(commands') : Goal(k)
  <2>1. Items(Append(commands, m)) = Items(commands) \cup {m} /\ commands' = Append(commands, m)
    BY <1>0, <1>3, ItemsOf DEF Queues
  <2> QED
    BY <1>3, <2>1
<1>4. ASSUME NEW c \in Connections, Connect(c) \/ SendEnvelope(c)
      PROVE  \A m \in Items(commands') : Goal(m)
  <2>1. \A q, rev : /\ NewCommand("envelope", c, q, rev).op # "enqueue"
                    /\ NewCommand("connect", c, q, rev).op # "enqueue"
    BY DEF NewCommand
  <2> HIDE DEF Goal
  <2>2. Goal(NewCommand("envelope", c, "none", 0)) /\ Goal(NewCommand("connect", c, "none", 0))
    BY <2>1 DEF Goal
  <2> QED
    BY <1>2, <1>3, <1>4, <2>2, ConnectQueues, SendEnvelopeQueues
<1>5. ASSUME NEW c \in Connections, Enqueue(c)
      PROVE  \A m \in Items(commands') : Goal(m)
  <2> DEFINE m == NewCommand("enqueue", c, worker[c].q, conn[c].rev)
  <2>1. m.c = c /\ m.q = worker[c].q /\ m.seq = sequence + 1
    BY DEF NewCommand
  <2>2. worker[c].at = "barrier"
    BY <1>5 DEF Enqueue
  <2>3. worker'[c].at # "new"
    BY <1>5, EnqueueWorker
  <2>4. CASE UNCHANGED commands
    BY <1>2, <2>4
  <2>5. CASE ~UNCHANGED commands
    <3>1. running'[c][worker[c].q].seq = sequence + 1 /\ ~running'[c][worker[c].q].acked
      BY <1>5, <2>5, EnqueuePlaces
    <3>2. Queues(m)
      BY <1>5, <2>5, EnqueueQueues
    <3> HIDE DEF m
    <3>3. Goal(m)
      BY <2>1, <2>2, <2>3, <3>1 DEF EnqueuedBy
    <3> HIDE DEF Goal
    <3> QED
      BY <1>3, <3>2, <3>3
  <2> QED
    BY <2>4, <2>5
<1> DEFINE All == \A m \in Items(commands') : Goal(m)
<1>6. ASSUME FromParent PROVE All
  <2>1. \A c \in Connections : Connect(c) \/ Enqueue(c) \/ SendEnvelope(c) => All
    BY <1>4, <1>5
  <2>2. UNCHANGED commands => All
    BY <1>2
  <2> HIDE DEF All
  <2> QED
    BY <1>6, <2>1, <2>2, OtherParentSteps
<1>7. ASSUME Child PROVE All
  <2>1. Items(commands') \subseteq Items(commands)
    BY <1>7, ChildCommands DEF Items
  <2> QED
    BY <1>1, <2>1
<1>8. ASSUME \/ CloseTimeout
             \/ \E c \in Connections : ClientLost(c)
             \/ \E c \in Connections : Revoke(c)
             \/ ChildDies
             \/ StartClose
             \/ UNCHANGED vars
      PROVE  All
  <2>1. UNCHANGED commands
    BY <1>8 DEF CloseTimeout, ClientLost, Revoke, ChildDies, StartClose, vars, queues
  <2> HIDE DEF Goal
  <2> QED
    BY <1>2, <2>1
<1> HIDE DEF All
<1>9. All
  BY <1>6, <1>7, <1>8, StepCases
<1> QED
  BY <1>9 DEF All
\* A command admitted to a session was admitted, or is received.
LEMMA AdmittedStep ==
  ASSUME TypeInv, [Next]_vars, NEW c \in Connections
  PROVE  \A a \in Items(admitted'[c]) :
            \/ \E b \in Items(admitted[c]) : Alike(b, a)
            \/ \E m \in Items(commands) : m.op = "enqueue" /\ m.c = c /\ Alike(m, a)
<1> DEFINE Goal == \A a \in Items(admitted'[c]) :
            \/ \E b \in Items(admitted[c]) : Alike(b, a)
            \/ \E m \in Items(commands) : m.op = "enqueue" /\ m.c = c /\ Alike(m, a)
<1>1. Carried(c) => Goal
  BY DEF Carried
<1>2. ASSUME UNCHANGED admitted PROVE Goal
  <2>1. Carried(c)
    BY <1>2, SameCarried
  <2> HIDE DEF Goal
  <2> QED
    BY <1>1, <2>1
<1>3. ASSUME Child PROVE Goal
  <2>1. ASSUME Enters(c) PROVE Goal
    <3>1. commands # <<>> /\ Head(commands).op = "enqueue"
      BY <2>1 DEF Enters, ReceiveEnqueue, Receiving
    <3>2. Head(commands) \in Items(commands)
      BY <3>1, ItemsOf DEF TypeInv, ChannelsType
    <3> QED
      BY <2>1, <3>1, <3>2 DEF Enters
  <2> HIDE DEF Goal
  <2>2. Carried(c) \/ Enters(c)
    BY <1>3, ChildAdmitted DEF Child
  <2> QED
    BY <1>1, <2>1, <2>2
<1>4. ASSUME ChildLost PROVE Goal
  <2>1. admitted'[c] = <<>> /\ Items(<<>>) = {}
    BY <1>4 DEF ChildLost, Each, Items
  <2> QED
    BY <2>1
<1>5. ASSUME \/ FromParent
             \/ (\E d \in Connections : ClientLost(d)) /\ UNCHANGED childVars
             \/ \E d \in Connections : Revoke(d)
             \/ StartClose /\ UNCHANGED childVars
             \/ UNCHANGED vars
      PROVE  Goal
  <2>1. UNCHANGED admitted
    BY <1>5 DEF FromParent, Parent, Revoke, vars, childVars, sessionVars
  <2> HIDE DEF Goal
  <2> QED
    BY <1>2, <2>1
<1> HIDE DEF Goal
<1>6. Goal
  <2>1. ChildDies => ChildLost
    BY DEF ChildDies
  <2> QED
    BY <1>3, <1>4, <1>5, <2>1, StepCases
<1> QED
  BY <1>6 DEF Goal

------------------------------------------------------------------------------
\* Whatever leads to a completion is tracked, from the command to the socket.
CommandsTracked == \A m \in Items(commands) : m.op = "enqueue" => Tracked(m.c, m.q, m.seq)
AdmittedTracked(c) == \A a \in Items(admitted[c]) : Tracked(c, a.q, a.seq)
CompletionsTracked ==
    /\ \A m \in Items(notifications) : m.kind = "completion" => Tracked(m.c, m.q, m.seq)
    /\ \A s \in sends : s.kind = "completion" => Tracked(s.c, s.q, s.seq)
SendsBegun == \A s \in sends : s.kind = "completion" /\ s.at = "sending" => Wrote(s.c, "admission", s.seq)
WireAdmitted(c) ==
    \A j \in 1..Len(wire[c]) : wire[c][j].kind = "completion" =>
        \E i \in 1..Len(wire[c]) : i < j /\ wire[c][i].kind = "admission" /\ wire[c][i].seq = wire[c][j].seq
AdmissionsFirst ==
    /\ CommandsTracked /\ CompletionsTracked /\ SentAdmissions /\ SendsBegun
    /\ \A c \in Connections : AdmittedTracked(c) /\ WireAdmitted(c)
\* The commands queued, and admitted, are tracked.
LEMMA CommandsTrackedStep ==
  ASSUME TypeInv, TypeInv', LivesInv, AdmissionsFirst, [Next]_vars
  PROVE  CommandsTracked' /\ \A c \in Connections : AdmittedTracked(c)'
<1>0. /\ commands \in Seq(Command) /\ commands' \in Seq(Command)
      /\ \A m \in Command : /\ m.c \in Connections /\ m.seq \in Nat
                            /\ m.op = "enqueue" => m.q \in RequestIds
  BY DEF TypeInv, ChannelsType, Command
<1>1. \A m \in Items(commands) : m \in Command
  BY <1>0, ItemsOf
<1>2. \A m \in Items(commands') : m \in Command
  BY <1>0, ItemsOf
<1>3. ASSUME NEW m \in Items(commands), m.op = "enqueue" PROVE Tracked(m.c, m.q, m.seq)'
  <2>1. m.c \in Connections /\ m.q \in RequestIds /\ m.seq \in Nat /\ Tracked(m.c, m.q, m.seq)
    BY <1>0, <1>1, <1>3 DEF AdmissionsFirst, CommandsTracked
  <2> QED
    BY <2>1, TrackedStays DEF AdmissionsFirst
<1>4. ASSUME NEW m \in Items(commands'), m.op = "enqueue" PROVE Tracked(m.c, m.q, m.seq)'
  <2>1. ASSUME NEW c \in Connections, EnqueuedBy(m, c) PROVE Tracked(m.c, m.q, m.seq)'
    BY <2>1 DEF EnqueuedBy, Tracked, Unacked
  <2> QED
    BY <1>3, <1>4, <2>1, EnqueuesStep
<1>5. CommandsTracked'
  BY <1>4 DEF CommandsTracked, Items
<1>6. ASSUME NEW c \in Connections, NEW a \in Items(admitted'[c]) PROVE Tracked(c, a.q, a.seq)'
  <2>1. ASSUME NEW b \in Items(admitted[c]), Alike(b, a) PROVE Tracked(c, a.q, a.seq)'
    <3>1. admitted[c] \in Seq(Admission)
      BY DEF TypeInv, ChildType
    <3>2. b \in Admission
      BY <2>1, <3>1, ItemsOf
    <3>3. b.q \in RequestIds /\ b.seq \in Nat /\ a.q = b.q /\ a.seq = b.seq
      BY <2>1, <3>2 DEF Admission, Alike
    <3>4. Tracked(c, b.q, b.seq)
      BY <2>1 DEF AdmissionsFirst, AdmittedTracked
    <3>5. Tracked(c, b.q, b.seq)'
      BY <3>3, <3>4, TrackedStays DEF AdmissionsFirst
    <3> QED
      BY <3>3, <3>5
  <2>2. ASSUME NEW m \in Items(commands), m.op = "enqueue", m.c = c, Alike(m, a) PROVE Tracked(c, a.q, a.seq)'
    <3>1. Tracked(m.c, m.q, m.seq)'
      BY <1>3, <2>2
    <3> QED
      BY <2>2, <3>1 DEF Alike
  <2> QED
    BY <2>1, <2>2, AdmittedStep
<1> QED
  BY <1>5, <1>6 DEF AdmittedTracked, Items
\* The completions on their way are tracked.
LEMMA CompletionsTrackedStep ==
  ASSUME TypeInv, TypeInv', LivesInv, NoticesOnce, SessionSends, AdmissionsFirst, [Next]_vars
  PROVE  CompletionsTracked'
<1>0. /\ notifications \in Seq(Message) /\ sends \in SUBSET Send
      /\ \A m \in Message : m.kind = "completion" => m.c \in Connections /\ m.q \in RequestIds /\ m.seq \in Nat
      /\ \A s \in Send : s.kind = "completion" => s.c \in Connections /\ s.q \in RequestIds /\ s.seq \in Nat
  BY DEF TypeInv, ChannelsType, ParentType, Message, Send
<1>1. ASSUME NEW m \in Items(notifications), m.kind = "completion" PROVE Tracked(m.c, m.q, m.seq)'
  <2>1. m \in Message
    BY <1>0, ItemsOf
  <2>2. m.c \in Connections /\ m.q \in RequestIds /\ m.seq \in Nat /\ Tracked(m.c, m.q, m.seq)
    BY <1>0, <1>1, <2>1 DEF AdmissionsFirst, CompletionsTracked
  <2> QED
    BY <2>2, TrackedStays DEF AdmissionsFirst
<1>2. ASSUME NEW s \in sends, s.kind = "completion" PROVE Tracked(s.c, s.q, s.seq)'
  <2>1. s.c \in Connections /\ s.q \in RequestIds /\ s.seq \in Nat /\ Tracked(s.c, s.q, s.seq)
    BY <1>0, <1>2 DEF AdmissionsFirst, CompletionsTracked
  <2> QED
    BY <2>1, TrackedStays DEF AdmissionsFirst
<1>3. (\A t \in sends' : GoesOn(t)) /\ (\A m \in Items(notifications') : Waits(m))
  BY MessagesStep
<1>4. ASSUME NEW m \in Items(notifications'), m.kind = "completion" PROVE Tracked(m.c, m.q, m.seq)'
  <2>1. ASSUME NEW c \in Connections, Child, HandsOver(c), m = Notice(c) PROVE Tracked(m.c, m.q, m.seq)'
    <3>1. sending[c].kind = "completion" /\ m.c = c /\ m.q = sending[c].q /\ m.seq = sending[c].n
      BY <1>4, <2>1 DEF Notice
    <3>2. Sends(c) /\ admitted[c] \in Seq(Admission) /\ admitted[c] # <<>>
      <4>1. childAlive
        BY <2>1 DEF Child, ChildStep
      <4> QED
        BY <3>1, <4>1 DEF SessionSends, TypeInv, ChildType, CompletionHeld
    <3>3. Head(admitted[c]) \in Items(admitted[c]) /\ Head(admitted[c]) \in Admission
      BY <3>2, ItemsOf
    <3>4. PICK a \in Items(admitted[c]) : a \in Admission /\ m.q = a.q /\ m.seq = a.seq
      BY <3>1, <3>2, <3>3 DEF Sends, SendsNumbered
    <3>5. a.q \in RequestIds /\ a.seq \in Nat /\ Tracked(c, a.q, a.seq)
      BY <3>4 DEF AdmissionsFirst, AdmittedTracked, Admission
    <3>6. Tracked(c, a.q, a.seq)'
      BY <3>5, TrackedStays DEF AdmissionsFirst
    <3> QED
      BY <3>1, <3>4, <3>6
  <2> QED
    BY <1>1, <1>3, <1>4, <2>1 DEF Waits
<1>5. ASSUME NEW t \in sends', t.kind = "completion" PROVE Tracked(t.c, t.q, t.seq)'
  <2>1. ASSUME NEW s \in sends, Kept(s, t) PROVE Tracked(t.c, t.q, t.seq)'
    BY <1>2, <1>5, <2>1 DEF Kept
  <2>2. ASSUME NEW m \in Items(notifications), t.c = m.c, t.kind = m.kind, t.seq = m.seq, t.q = m.q
        PROVE  Tracked(t.c, t.q, t.seq)'
    BY <1>1, <1>5, <2>2
  <2>3. GoesOn(t)
    BY <1>3
  <2> QED
    BY <1>5, <2>1, <2>2, <2>3 DEF GoesOn
<1> QED
  BY <1>4, <1>5 DEF CompletionsTracked, Items
\* What is begun, and what is written, of a completion comes after its admission.
LEMMA SendsBegunStep ==
  ASSUME TypeInv, NoticesOnce, AdmissionsFirst, [Next]_vars
  PROVE  SendsBegun' /\ SentAdmissions'
<1>0. sends \in SUBSET Send /\ \A s \in Send : s.c \in Connections
  BY DEF TypeInv, ParentType, Send
<1>1. \A t \in sends' : GoesOn(t)
  BY MessagesStep
<1>2. ASSUME NEW s \in sends, Wrote(s.c, "admission", s.seq) PROVE Wrote(s.c, "admission", s.seq)'
  BY <1>0, <1>2, WroteStays
<1>3. ASSUME NEW t \in sends', t.kind = "completion", t.at = "sending"
      PROVE  Wrote(t.c, "admission", t.seq)'
  <2>1. CASE t \in sends
    BY <1>2, <1>3, <2>1 DEF AdmissionsFirst, SendsBegun
  <2>2. ASSUME NEW s \in sends, Kept(s, t), t.at = s.at PROVE Wrote(t.c, "admission", t.seq)'
    BY <1>2, <1>3, <2>2 DEF AdmissionsFirst, SendsBegun, Kept
  <2>3. ASSUME NEW s \in sends, Kept(s, t), BeginWrite(s), t \notin sends PROVE Wrote(t.c, "admission", t.seq)'
    <3>1. t = [s EXCEPT !.at = IF /\ conn[s.c].registered /\ ~conn[s.c].closed /\ ~closing
                                  /\ conn[s.c].rev = s.rev
                                  /\ ~conn[s.c].revoked \/ s.kind = "revoked"
                               THEN "sending" ELSE "failed"]
      BY <1>3, <2>3 DEF BeginWrite
    <3>2. s \in Send /\ DOMAIN s = {"id", "c", "kind", "rev", "q", "seq", "at"}
      BY <1>0 DEF Send
    <3>3. conn[s.c].registered /\ ~conn[s.c].closed
      BY <1>3, <3>1, <3>2
    <3>4. Tracked(s.c, s.q, s.seq) /\ s.kind = "completion"
      BY <1>3, <2>3 DEF AdmissionsFirst, CompletionsTracked, Kept
    <3>5. ~Unacked(s.c, s.q, s.seq)
      BY <2>3, <3>4 DEF BeginWrite, Acknowledged, Unacked
    <3>6. Wrote(s.c, "admission", s.seq)
      BY <3>3, <3>4, <3>5 DEF Tracked, Live
    <3> QED
      BY <1>2, <2>3, <3>6 DEF Kept
  <2> QED
    BY <1>1, <1>3, <2>1, <2>2, <2>3 DEF GoesOn
<1>4. ASSUME NEW t \in sends', t.kind = "admission", t.at = "sent"
      PROVE  Wrote(t.c, "admission", t.seq)'
  <2>1. CASE t \in sends
    BY <1>2, <1>4, <2>1 DEF AdmissionsFirst, SentAdmissions
  <2>2. ASSUME NEW s \in sends, Kept(s, t), t.at = s.at PROVE Wrote(t.c, "admission", t.seq)'
    BY <1>2, <1>4, <2>2 DEF AdmissionsFirst, SentAdmissions, Kept
  <2>3. ASSUME NEW s \in sends, Kept(s, t), Write(s), t \notin sends PROVE Wrote(t.c, "admission", t.seq)'
    <3>1. PICK written \in BOOLEAN, result \in {"sent", "failed"} :
             /\ result = "sent" => written
             /\ sends' = (sends \ {s}) \cup {[s EXCEPT !.at = result]}
             /\ wire' = IF written
                        THEN [wire EXCEPT ![s.c] = Append(wire[s.c], [kind |-> s.kind, seq |-> s.seq, rev |-> s.rev])]
                        ELSE wire
      BY <2>3, Zenon DEF Write
    <3>2. s \in Send /\ DOMAIN s = {"id", "c", "kind", "rev", "q", "seq", "at"}
      BY <1>0 DEF Send
    <3>3. result = "sent"
      BY <1>4, <2>3, <3>1, <3>2
    <3> DEFINE w == [kind |-> s.kind, seq |-> s.seq, rev |-> s.rev]
    <3>4. wire[s.c] \in Seq(Written) /\ w.kind = s.kind /\ w.seq = s.seq /\ w \in Written /\ s.c \in DOMAIN wire
      BY <1>0, <3>2 DEF TypeInv, ParentType, Send, Written
    <3> HIDE DEF w
    <3>5. wire'[s.c] = Append(wire[s.c], w)
      BY <3>1, <3>3, <3>4 DEF w
    <3>6. Len(wire'[s.c]) \in 1..Len(wire'[s.c]) /\ wire'[s.c][Len(wire'[s.c])] = w
      BY <3>4, <3>5
    <3>7. t.c = s.c /\ w.kind = "admission" /\ w.seq = t.seq
      BY <1>4, <2>3, <3>4 DEF Kept
    <3> QED
      BY <3>6, <3>7 DEF Wrote
  <2> QED
    BY <1>1, <1>4, <2>1, <2>2, <2>3 DEF GoesOn
<1> QED
  BY <1>3, <1>4 DEF SendsBegun, SentAdmissions
\* What is written of a completion comes after its admission.
LEMMA WireAdmittedStep ==
  ASSUME TypeInv, AdmissionsFirst, [Next]_vars, NEW c \in Connections
  PROVE  WireAdmitted(c)'
<1>0. wire[c] \in Seq(Written)
  BY DEF TypeInv, ParentType
<1>1. CASE wire'[c] = wire[c]
  BY <1>1 DEF AdmissionsFirst, WireAdmitted
<1>2. ASSUME NEW s \in sends, NEW w \in Written, s.c = c, s.at = "sending",
             w.kind = s.kind, w.seq = s.seq, wire'[c] = Append(wire[c], w)
      PROVE  WireAdmitted(c)'
  <2>1. /\ Len(wire'[c]) = Len(wire[c]) + 1 /\ Len(wire[c]) \in Nat
        /\ \A j \in 1..Len(wire[c]) : wire'[c][j] = wire[c][j]
        /\ wire'[c][Len(wire[c]) + 1] = w
    BY <1>0, <1>2
  <2>2. w.kind = "completion" => Wrote(c, "admission", w.seq)
    BY <1>2 DEF AdmissionsFirst, SendsBegun
  <2> SUFFICES ASSUME NEW j \in 1..Len(wire'[c]), wire'[c][j].kind = "completion"
               PROVE  \E i \in 1..Len(wire'[c]) : /\ i < j /\ wire'[c][i].kind = "admission"
                                                  /\ wire'[c][i].seq = wire'[c][j].seq
    BY DEF WireAdmitted
  <2>3. CASE j \in 1..Len(wire[c])
    <3>1. PICK i \in 1..Len(wire[c]) : i < j /\ wire[c][i].kind = "admission" /\ wire[c][i].seq = wire[c][j].seq
      BY <2>1, <2>3 DEF AdmissionsFirst, WireAdmitted
    <3>2. i \in 1..Len(wire'[c]) /\ wire'[c][i] = wire[c][i] /\ wire'[c][j] = wire[c][j]
      BY <2>1, <2>3
    <3> QED
      BY <3>1, <3>2
  <2>4. CASE j \notin 1..Len(wire[c])
    <3>1. j = Len(wire[c]) + 1 /\ wire'[c][j] = w
      BY <2>1, <2>4
    <3>2. PICK i \in 1..Len(wire[c]) : wire[c][i].kind = "admission" /\ wire[c][i].seq = w.seq
      BY <2>2, <3>1 DEF Wrote
    <3>3. i \in 1..Len(wire'[c]) /\ i < j /\ wire'[c][i] = wire[c][i]
      BY <2>1, <3>1
    <3> QED
      BY <3>1, <3>2, <3>3
  <2> QED
    BY <2>3, <2>4
<1> QED
  BY <1>1, <1>2, WireGrows

\* What a client reads, with what leads to it.
DeliveryInv ==
    /\ \A c \in Connections : OneAtATime(c) /\ Unwritten(c) /\ WireOrdered(c)
    /\ AdmissionsFirst
\* Nothing is sent at the start.
LEMMA DeliveryInit ==
  ASSUME Init
  PROVE  DeliveryInv
<1>1. /\ commands = <<>> /\ controls = <<>> /\ notifications = <<>> /\ sends = {}
      /\ \A c \in Connections : admitted[c] = <<>> /\ sending[c] = Nobody /\ wire[c] = <<>>
  BY DEF Init, ChannelsInit, ParentInit, ChildInit, Each
<1>2. Items(<<>>) = {} /\ Len(<<>>) = 0
  BY DEF Items
<1>3. \A K : Once(<<>>, K)
  BY <1>2 DEF Once
<1>4. ASSUME NEW c \in Connections
      PROVE  /\ OneAtATime(c) /\ Unwritten(c) /\ WireOrdered(c)
             /\ AdmittedTracked(c) /\ WireAdmitted(c)
  <2>1. \A kind, n : ~Travels(c, kind, n) /\ ~Wrote(c, kind, n)
    BY <1>1, <1>2 DEF Travels, Wrote
  <2>2. Nobody.kind # "completion"
    BY DEF Nobody
  <2>3. OneAtATime(c)
    BY <1>1, <1>2, <1>3, <2>1, <2>2 DEF OneAtATime, OneTravels, ReturnsLater, HoldsLock, PumpStops
  <2>4. Unwritten(c) /\ WireOrdered(c)
    BY <1>1, <1>2, <2>1 DEF Unwritten, WireOrdered
  <2>5. AdmittedTracked(c) /\ WireAdmitted(c)
    BY <1>1, <1>2 DEF AdmittedTracked, WireAdmitted
  <2> QED
    BY <2>3, <2>4, <2>5
<1>5. CommandsTracked /\ CompletionsTracked /\ SentAdmissions /\ SendsBegun
  BY <1>1, <1>2 DEF CommandsTracked, CompletionsTracked, SentAdmissions, SendsBegun
<1> QED
  BY <1>4, <1>5 DEF DeliveryInv, AdmissionsFirst
\* It holds in every state.
LEMMA DeliveryInvariant == Spec => []DeliveryInv
<1>1. Init => DeliveryInv
  BY DeliveryInit
<1>2. /\ SessionInv /\ SessionInv' /\ FenceInv /\ BindingInv /\ AgreementInv /\ DeliveryInv /\ [Next]_vars
      => DeliveryInv'
  <2> SUFFICES ASSUME SessionInv, SessionInv', FenceInv, BindingInv, AgreementInv, DeliveryInv, [Next]_vars
               PROVE  DeliveryInv'
    OBVIOUS
  <2>1. TypeInv /\ TypeInv' /\ LivesInv
    BY DEF SessionInv, ProcessInv, OrphanInv
  <2>2. StatesFollow /\ NoticesOnce /\ SessionSends /\ AdmissionsFirst
    BY DEF AgreementInv, DeliveryInv
  <2>3. ASSUME NEW c \in Connections PROVE OneAtATime(c)' /\ Unwritten(c)' /\ WireOrdered(c)'
    <3>1. OneAtATime(c) /\ Unwritten(c) /\ WireOrdered(c)
      BY DEF DeliveryInv
    <3>2. OneTravels(c)
      BY <3>1 DEF OneAtATime
    <3>3. OneAtATime(c)'
      BY <2>1, <2>2, <3>1, OneStep
    <3>4. Unwritten(c)' /\ WireOrdered(c)'
      BY <2>1, <2>2, <3>1, <3>2, OrderStep
    <3> QED
      BY <3>3, <3>4
  <2>4. CommandsTracked' /\ \A c \in Connections : AdmittedTracked(c)'
    BY <2>1, <2>2, CommandsTrackedStep
  <2>5. CompletionsTracked'
    BY <2>1, <2>2, CompletionsTrackedStep
  <2>6. SendsBegun' /\ SentAdmissions'
    BY <2>1, <2>2, SendsBegunStep
  <2>7. \A c \in Connections : WireAdmitted(c)'
    BY <2>1, <2>2, WireAdmittedStep
  <2> QED
    BY <2>3, <2>4, <2>5, <2>6, <2>7 DEF DeliveryInv, AdmissionsFirst
<1> QED
  BY <1>1, <1>2, SessionInvariant, FenceInvariant, BindingInvariant, AgreementInvariant, PTL DEF Spec

\* On every socket a completion comes after the admission of its request, at most one
\* for each, and the completions come in the order of the admissions.
THEOREM CompletionsAreInOrder == Spec => []CompletionsInOrder
<1>1. TypeInv /\ DeliveryInv => CompletionsInOrder
  <2> SUFFICES ASSUME TypeInv, DeliveryInv, NEW c \in Connections, NEW i \in DOMAIN wire[c],
                      wire[c][i].kind = "completion"
               PROVE  /\ \E j \in 1 .. i - 1 : wire[c][j].kind = "admission" /\ wire[c][j].seq = wire[c][i].seq
                      /\ \A j \in 1 .. i - 1 : wire[c][j].kind = "completion" => wire[c][j].seq < wire[c][i].seq
    BY DEF CompletionsInOrder
  <2>1. wire[c] \in Seq(Written) /\ WireOrdered(c) /\ WireAdmitted(c)
    BY DEF TypeInv, ParentType, DeliveryInv, AdmissionsFirst
  <2>2. i \in 1..Len(wire[c]) /\ Len(wire[c]) \in Nat
    BY <2>1
  <2>3. \A j \in 1 .. i - 1 : j \in 1..Len(wire[c]) /\ j < i
    BY <2>2
  <2>4. \A j \in 1..Len(wire[c]) : j < i => j \in 1 .. i - 1
    BY <2>2
  <2>5. \A j \in 1 .. i - 1 : wire[c][j].kind = "completion" => wire[c][j].seq < wire[c][i].seq
    BY <2>1, <2>2, <2>3 DEF WireOrdered
  <2>6. \E j \in 1 .. i - 1 : wire[c][j].kind = "admission" /\ wire[c][j].seq = wire[c][i].seq
    BY <2>1, <2>2, <2>4 DEF WireAdmitted
  <2> QED
    BY <2>5, <2>6
<1>2. SessionInv => TypeInv
  BY DEF SessionInv, ProcessInv
<1> QED
  BY <1>1, <1>2, SessionInvariant, DeliveryInvariant, PTL
=============================================================================
