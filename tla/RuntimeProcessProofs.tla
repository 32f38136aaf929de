----------------------- MODULE RuntimeProcessProofs -----------------------
(***************************************************************************)
(* Invariants of the runtime transport, for any connections, requests,     *)
(* capacities and number of faults.                                        *)
(*                                                                         *)
(* Types.  The type of every variable of RuntimeProcess, and that every    *)
(* step keeps it: one lemma per action of the parent (RuntimeParent), of   *)
(* the child (RuntimeChild) and of the channels between them.  TypeInv     *)
(* says more than the TypeOK the run checks: the shape of each message a   *)
(* queue may hold, the fields of each record, the places a task may be at. *)
(*                                                                         *)
(* Permits.  Command numbers grow along the queue and the child takes them *)
(* in order, so what a step appends or takes is one command of a known     *)
(* kind; each admission queued, owned or running holds the permit that the *)
(* credit lost for it.                                                     *)
(*                                                                         *)
(* Fence.  The revision of a binding only grows, on the child's side first *)
(* and then on the parent's, through the state messages; every message to  *)
(* the client carries the revision it was made under, and one of an old    *)
(* revision is stopped before it is written.                               *)
(*                                                                         *)
(* Orphans.  A connect has a number of its own, a session begins with it   *)
(* and only once; from then on a refusal, or the end that the child        *)
(* reports, excludes a later session, also when the disconnect came first. *)
(* What the parent takes for given up rests on one of the two.             *)
(*                                                                         *)
(* Binding.  The parent sends a request only when no envelope of its       *)
(* connection is unprocessed, that is queued, with the session, or         *)
(* reported and not read; and a session rebinds only while it handles an   *)
(* envelope. So a queued request finds a session that handles none, has    *)
(* published its last revision and heard that it is in force: the revision *)
(* of the parent is the session's.  The newest barrier of a connection     *)
(* stands for all its envelopes because they are handled and reported in   *)
(* order.  Here: what is to be kept (BindingInv), what a step of the       *)
(* parent is to it, and the part of it about where a session is.  The      *)
(* other steps of the child and the theorem are in RuntimeDeliveryProofs.  *)
(***************************************************************************)
EXTENDS RuntimeProcess, FiniteSetTheorems, SequenceTheorems, TLAPS

Ids == Connections \X {"state", "message", "completion", "revoked", "admission"} \X Nat
Names == RequestIds \cup {"none"}

Command == [op : {"enqueue"}, seq : Nat, c : Connections, q : RequestIds, rev : Nat]
      \cup [op : {"connect", "envelope"}, seq : Nat, c : Connections, q : {"none"}, rev : Nat]
ControlMsg == [kind : {"receipt"}, id : Ids, sent : BOOLEAN]
      \cup [kind : {"disconnect"}, c : Connections, seq : Nat]
      \cup [kind : {"shutdown"}, seq : Nat]
Result == [kind : {"result"}, n : Nat, ok : BOOLEAN]
     \cup [kind : {"processed"}, c : Connections, n : Nat, ok : BOOLEAN]
     \cup [kind : {"terminal"}, c : Connections, q : RequestIds, n : Nat]
     \cup [kind : {"state"}, c : Connections, n : Nat, bound : BOOLEAN, revoked : BOOLEAN]
     \cup [kind : {"close", "disconnected"}, c : Connections, n : Nat]
     \cup [kind : {"stopped"}]
Message == [id : Ids, c : Connections, kind : {"completion"}, rev : Nat, q : RequestIds, seq : Nat]
      \cup [id : Ids, c : Connections, kind : {"message", "revoked"}, rev : Nat, q : {"none"}, seq : Nat]

ChannelsType ==
    /\ commands \in Seq(Command) /\ controls \in Seq(ControlMsg)
    /\ results \in Seq(Result) /\ notifications \in Seq(Message)
    /\ credit \in Nat /\ childAlive \in BOOLEAN

Places == {"new", "connecting", "reading", "enveloping", "barrier", "admitting", "failed",
           "closing", "ended"}
ConnFields == {"registered", "closed", "rev", "bound", "revoked", "start", "barrier", "broken",
               "ending", "gone", "lost"}
ConnType ==
    /\ DOMAIN conn = Connections /\ \A c \in Connections : DOMAIN conn[c] = ConnFields
    /\ \A c \in Connections :
          conn[c].rev \in Nat /\ conn[c].start \in Nat /\ conn[c].barrier \in Nat
WorkerFields == {"at", "seq", "q"}
WorkerType ==
    /\ DOMAIN worker = Connections
    /\ \A c \in Connections : DOMAIN worker[c] = WorkerFields
    /\ \A c \in Connections :
          /\ worker[c].at \in Places /\ worker[c].seq \in Nat /\ worker[c].q \in Names
          /\ worker[c].at = "barrier" => worker[c].q \in RequestIds
Entry == [seq : Nat, rev : Nat, acked : BOOLEAN, terminal : BOOLEAN]
Stages == {"waiting", "sending", "sent", "failed"}
Send == [id : Ids, c : Connections, kind : {"completion", "admission"}, rev : Nat,
         q : RequestIds, seq : Nat, at : Stages]
   \cup [id : Ids, c : Connections, kind : {"message", "revoked"}, rev : Nat,
         q : {"none"}, seq : Nat, at : Stages]
Written == [kind : {"message", "completion", "revoked", "admission"}, seq : Nat, rev : Nat]

ParentType ==
    /\ sequence \in Nat
    /\ pending \in SUBSET [seq : Nat, op : {"connect", "envelope", "enqueue"}, c : Connections]
    /\ ConnType /\ WorkerType
    /\ frames \in [Connections -> Nat]
    /\ running \in [Connections -> [RequestIds -> Entry]]
    /\ barriers \in SUBSET (Connections \X Nat)
    /\ sends \in SUBSET Send
    /\ wire \in [Connections -> Seq(Written)]
    /\ failure \in {"none", "protocol", "exited", "stopped", "unknown"}
    /\ readers \subseteq {"results", "notifications"}
    /\ closing \in BOOLEAN

ChanPlaces == {"none", "receive", "join", "ownerWait", "sync", "send", "pumpWait",
               "unbinding", "waiting", "finalizing", "gone"}
ChanFields == {"at", "disconnecting", "rev", "bound", "revoked", "current", "inbox", "synced",
               "syncLost", "awaits", "unbind", "closer"}
ChanType ==
    /\ DOMAIN chan = Connections /\ \A c \in Connections : DOMAIN chan[c] = ChanFields
    /\ \A c \in Connections :
          /\ chan[c].at \in ChanPlaces /\ chan[c].rev \in Nat /\ chan[c].current \in Nat
          /\ chan[c].synced \in Nat /\ chan[c].awaits \in Nat /\ chan[c].inbox \in Seq(Nat)
          /\ chan[c].bound \in BOOLEAN /\ chan[c].revoked \in BOOLEAN
Sync == [n : Nat, bound : BOOLEAN, revoked : BOOLEAN, close : BOOLEAN, out : BOOLEAN]
Admission == [q : RequestIds, seq : Nat, rev : Nat, done : BOOLEAN]
Sending == [kind : {"completion"}, n : Nat, q : RequestIds, rev : Nat, out : BOOLEAN]
      \cup [kind : {"message", "revoked"}, n : Nat, q : {"none"}, rev : Nat, out : BOOLEAN]
      \cup {Nobody}
Work == [c : Connections, what : {"command", "envelope", "unbind"}, seq : Nat]

ChildType ==
    /\ phase \in {"up", "refusing", "draining", "closing", "stopped", "lost"}
    /\ last \in Nat /\ target \in Nat /\ dropped \in SUBSET Connections
    /\ ChanType
    /\ syncs \in [Connections -> Seq(Sync)]
    /\ admitted \in [Connections -> Seq(Admission)]
    /\ pump \in [Connections -> {"off", "on", "stopping"}]
    /\ sending \in [Connections -> Sending]
    /\ owner \in Seq(Work)

\* A completion is sent for a command that is still there.
CompletionHeld == \A c \in Connections : sending[c].kind = "completion" => admitted[c] # <<>>

TypeInv == ChannelsType /\ ParentType /\ ChildType /\ CompletionHeld
SameBinding(d) ==
    /\ conn'[d].rev = conn[d].rev /\ conn'[d].bound = conn[d].bound
    /\ conn'[d].revoked = conn[d].revoked
SameBarrier(d) ==
    /\ conn'[d].barrier = conn[d].barrier /\ conn'[d].broken = conn[d].broken
SameStart(d) == conn'[d].start = conn[d].start
SameLife(d) ==
    /\ conn'[d].registered = conn[d].registered /\ conn'[d].closed = conn[d].closed
    /\ conn'[d].ending = conn[d].ending /\ conn'[d].gone = conn[d].gone
    /\ conn'[d].lost = conn[d].lost
Admits(c) == Cardinality(Registered) < Capacity /\ MaySubmit

\* What Connect does to conn.
LEMMA ConnectConn ==
  ASSUME TypeInv, NEW c \in Connections, Connect(c)
  PROVE  /\ ConnType'
         /\ \A d \in Connections :
              /\ SameBinding(d)
              /\ SameBarrier(d)
              /\ conn'[d].start = IF d = c /\ Admits(c) THEN sequence + 1 ELSE conn[d].start
              /\ (conn'[d].registered <=> (conn[d].registered \/ (d = c /\ Admits(c))))
              /\ conn'[d].closed = conn[d].closed
              /\ conn'[d].ending = conn[d].ending
              /\ conn'[d].gone = conn[d].gone
              /\ conn'[d].lost = conn[d].lost
<1>0. ConnType /\ sequence \in Nat
  BY DEF TypeInv, ParentType, ChildType, ChannelsType
<1>1. conn' = IF Admits(c) THEN [conn EXCEPT ![c].registered = TRUE, ![c].start = sequence + 1] ELSE conn
  BY Zenon DEF Connect, Admits
<1>2. DOMAIN conn' = Connections /\ \A d \in Connections : DOMAIN conn'[d] = ConnFields
  BY <1>0, <1>1 DEF ConnType, ConnFields
<1>3. \A d \in Connections :
              /\ SameBinding(d)
              /\ SameBarrier(d)
              /\ conn'[d].start = IF d = c /\ Admits(c) THEN sequence + 1 ELSE conn[d].start
              /\ (conn'[d].registered <=> (conn[d].registered \/ (d = c /\ Admits(c))))
              /\ conn'[d].closed = conn[d].closed
              /\ conn'[d].ending = conn[d].ending
              /\ conn'[d].gone = conn[d].gone
              /\ conn'[d].lost = conn[d].lost
  BY <1>0, <1>1 DEF ConnType, ConnFields, SameBinding, SameBarrier
<1> QED
  BY <1>0, <1>2, <1>3 DEF ConnType, SameBinding, SameBarrier

\* What SendEnvelope does to conn.
LEMMA SendEnvelopeConn ==
  ASSUME TypeInv, NEW c \in Connections, SendEnvelope(c)
  PROVE  /\ ConnType'
         /\ \A d \in Connections :
              /\ SameBinding(d)
              /\ conn'[d].barrier = IF d = c /\ ~conn[c].closed /\ Table < Capacity /\ MaySubmit THEN sequence + 1 ELSE conn[d].barrier
              /\ (conn'[d].broken <=> (conn[d].broken /\ ~(d = c /\ ~conn[c].closed /\ Table < Capacity /\ MaySubmit)))
              /\ SameStart(d)
              /\ SameLife(d)
<1>0. ConnType /\ sequence \in Nat
  BY DEF TypeInv, ParentType, ChildType, ChannelsType
<1>1. conn' = IF ~conn[c].closed /\ Table < Capacity /\ MaySubmit THEN [conn EXCEPT ![c].barrier = sequence + 1, ![c].broken = FALSE] ELSE conn
  BY Zenon DEF SendEnvelope
<1>2. DOMAIN conn' = Connections /\ \A d \in Connections : DOMAIN conn'[d] = ConnFields
  BY <1>0, <1>1 DEF ConnType, ConnFields
<1>3. \A d \in Connections :
              /\ SameBinding(d)
              /\ conn'[d].barrier = IF d = c /\ ~conn[c].closed /\ Table < Capacity /\ MaySubmit THEN sequence + 1 ELSE conn[d].barrier
              /\ (conn'[d].broken <=> (conn[d].broken /\ ~(d = c /\ ~conn[c].closed /\ Table < Capacity /\ MaySubmit)))
              /\ SameStart(d)
              /\ SameLife(d)
  BY <1>0, <1>1 DEF ConnType, ConnFields, SameBinding, SameStart, SameLife
<1> QED
  BY <1>0, <1>2, <1>3 DEF ConnType, SameBinding, SameStart, SameLife

\* What EndWorker does to conn.
LEMMA EndWorkerConn ==
  ASSUME TypeInv, NEW c \in Connections, EndWorker(c)
  PROVE  /\ ConnType'
         /\ \A d \in Connections :
              /\ SameBinding(d)
              /\ SameBarrier(d)
              /\ SameStart(d)
              /\ conn'[d].registered = conn[d].registered
              /\ (conn'[d].closed <=> (conn[d].closed \/ (d = c /\ conn[c].registered /\ conn[c].ending = "no")))
              /\ conn'[d].ending = IF d = c /\ conn[c].registered /\ conn[c].ending = "no" THEN "begun" ELSE conn[d].ending
              /\ conn'[d].gone = conn[d].gone
              /\ conn'[d].lost = conn[d].lost
<1>0. ConnType
  BY DEF TypeInv, ParentType, ChildType, ChannelsType
<1>1. conn' = IF conn[c].registered THEN [conn EXCEPT ![c] = Ending(c)] ELSE conn
  BY Zenon DEF EndWorker
<1>2. DOMAIN conn' = Connections /\ \A d \in Connections : DOMAIN conn'[d] = ConnFields
  BY <1>0, <1>1 DEF ConnType, ConnFields, Ending
<1>3. \A d \in Connections :
              /\ SameBinding(d)
              /\ SameBarrier(d)
              /\ SameStart(d)
              /\ conn'[d].registered = conn[d].registered
              /\ (conn'[d].closed <=> (conn[d].closed \/ (d = c /\ conn[c].registered /\ conn[c].ending = "no")))
              /\ conn'[d].ending = IF d = c /\ conn[c].registered /\ conn[c].ending = "no" THEN "begun" ELSE conn[d].ending
              /\ conn'[d].gone = conn[d].gone
              /\ conn'[d].lost = conn[d].lost
  BY <1>0, <1>1 DEF ConnType, ConnFields, SameBinding, SameBarrier, SameStart, Ending
<1> QED
  BY <1>0, <1>2, <1>3 DEF ConnType, SameBinding, SameBarrier, SameStart

\* What ClientLost does to conn.
LEMMA ClientLostConn ==
  ASSUME TypeInv, NEW c \in Connections, ClientLost(c)
  PROVE  /\ ConnType'
         /\ \A d \in Connections :
              /\ SameBinding(d)
              /\ SameBarrier(d)
              /\ SameStart(d)
              /\ conn'[d].registered = conn[d].registered
              /\ conn'[d].closed = conn[d].closed
              /\ conn'[d].ending = conn[d].ending
              /\ conn'[d].gone = conn[d].gone
              /\ (conn'[d].lost <=> (conn[d].lost \/ d = c))
<1>0. ConnType
  BY DEF TypeInv, ParentType, ChildType, ChannelsType
<1>1. conn' = [conn EXCEPT ![c].lost = TRUE]
  BY Zenon DEF ClientLost
<1>2. DOMAIN conn' = Connections /\ \A d \in Connections : DOMAIN conn'[d] = ConnFields
  BY <1>0, <1>1 DEF ConnType, ConnFields
<1>3. \A d \in Connections :
              /\ SameBinding(d)
              /\ SameBarrier(d)
              /\ SameStart(d)
              /\ conn'[d].registered = conn[d].registered
              /\ conn'[d].closed = conn[d].closed
              /\ conn'[d].ending = conn[d].ending
              /\ conn'[d].gone = conn[d].gone
              /\ (conn'[d].lost <=> (conn[d].lost \/ d = c))
  BY <1>0, <1>1 DEF ConnType, ConnFields, SameBinding, SameBarrier, SameStart
<1> QED
  BY <1>0, <1>2, <1>3 DEF ConnType, SameBinding, SameBarrier, SameStart

\* What DisconnectStart does to conn.
LEMMA DisconnectStartConn ==
  ASSUME TypeInv, NEW c \in Connections, DisconnectStart(c)
  PROVE  /\ ConnType'
         /\ \A d \in Connections :
              /\ SameBinding(d)
              /\ SameBarrier(d)
              /\ SameStart(d)
              /\ conn'[d].registered = conn[d].registered
              /\ conn'[d].closed = conn[d].closed
              /\ conn'[d].ending = IF d = c THEN "waiting" ELSE conn[d].ending
              /\ (conn'[d].gone <=> (conn[d].gone \/ (d = c /\ ~(failure = "none" /\ childAlive))))
              /\ conn'[d].lost = conn[d].lost
<1>0. ConnType
  BY DEF TypeInv, ParentType, ChildType, ChannelsType
<1>1. conn' = IF failure = "none" /\ childAlive THEN [conn EXCEPT ![c].ending = "waiting"] ELSE [conn EXCEPT ![c].ending = "waiting", ![c].gone = TRUE]
  BY Zenon DEF DisconnectStart
<1>2. DOMAIN conn' = Connections /\ \A d \in Connections : DOMAIN conn'[d] = ConnFields
  BY <1>0, <1>1 DEF ConnType, ConnFields
<1>3. \A d \in Connections :
              /\ SameBinding(d)
              /\ SameBarrier(d)
              /\ SameStart(d)
              /\ conn'[d].registered = conn[d].registered
              /\ conn'[d].closed = conn[d].closed
              /\ conn'[d].ending = IF d = c THEN "waiting" ELSE conn[d].ending
              /\ (conn'[d].gone <=> (conn[d].gone \/ (d = c /\ ~(failure = "none" /\ childAlive))))
              /\ conn'[d].lost = conn[d].lost
  BY <1>0, <1>1 DEF ConnType, ConnFields, SameBinding, SameBarrier, SameStart
<1> QED
  BY <1>0, <1>2, <1>3 DEF ConnType, SameBinding, SameBarrier, SameStart

\* What DisconnectEnd does to conn.
LEMMA DisconnectEndConn ==
  ASSUME TypeInv, NEW c \in Connections, DisconnectEnd(c)
  PROVE  /\ ConnType'
         /\ \A d \in Connections :
              /\ SameBinding(d)
              /\ SameBarrier(d)
              /\ SameStart(d)
              /\ (conn'[d].registered <=> (d # c /\ conn[d].registered))
              /\ conn'[d].closed = conn[d].closed
              /\ conn'[d].ending = IF d = c THEN "done" ELSE conn[d].ending
              /\ conn'[d].gone = conn[d].gone
              /\ conn'[d].lost = conn[d].lost
<1>0. ConnType
  BY DEF TypeInv, ParentType, ChildType, ChannelsType
<1>1. conn' = [conn EXCEPT ![c].ending = "done", ![c].registered = FALSE]
  BY Zenon DEF DisconnectEnd
<1>2. DOMAIN conn' = Connections /\ \A d \in Connections : DOMAIN conn'[d] = ConnFields
  BY <1>0, <1>1 DEF ConnType, ConnFields
<1>3. \A d \in Connections :
              /\ SameBinding(d)
              /\ SameBarrier(d)
              /\ SameStart(d)
              /\ (conn'[d].registered <=> (d # c /\ conn[d].registered))
              /\ conn'[d].closed = conn[d].closed
              /\ conn'[d].ending = IF d = c THEN "done" ELSE conn[d].ending
              /\ conn'[d].gone = conn[d].gone
              /\ conn'[d].lost = conn[d].lost
  BY <1>0, <1>1 DEF ConnType, ConnFields, SameBinding, SameBarrier, SameStart
<1> QED
  BY <1>0, <1>2, <1>3 DEF ConnType, SameBinding, SameBarrier, SameStart

\* What ReadProcessed does to conn.
LEMMA ReadProcessedConn ==
  ASSUME TypeInv, ReadProcessed
  PROVE  /\ ConnType'
         /\ \A d \in Connections :
              /\ SameBinding(d)
              /\ conn'[d].barrier = conn[d].barrier
              /\ (conn'[d].broken <=> (conn[d].broken \/ (d = Head(results).c /\ ~Head(results).ok /\ <<d, Head(results).n>> \in barriers /\ conn[d].barrier = Head(results).n)))
              /\ SameStart(d)
              /\ SameLife(d)
<1>0. ConnType
  BY DEF TypeInv, ParentType, ChildType, ChannelsType
<1>1. conn' = IF ~Head(results).ok /\ <<Head(results).c, Head(results).n>> \in barriers /\ conn[Head(results).c].barrier = Head(results).n THEN [conn EXCEPT ![Head(results).c].broken = TRUE] ELSE conn
  BY Zenon DEF ReadProcessed
<1>2. DOMAIN conn' = Connections /\ \A d \in Connections : DOMAIN conn'[d] = ConnFields
  BY <1>0, <1>1 DEF ConnType, ConnFields
<1>3. \A d \in Connections :
              /\ SameBinding(d)
              /\ conn'[d].barrier = conn[d].barrier
              /\ (conn'[d].broken <=> (conn[d].broken \/ (d = Head(results).c /\ ~Head(results).ok /\ <<d, Head(results).n>> \in barriers /\ conn[d].barrier = Head(results).n)))
              /\ SameStart(d)
              /\ SameLife(d)
  BY <1>0, <1>1 DEF ConnType, ConnFields, SameBinding, SameStart, SameLife
<1> QED
  BY <1>0, <1>2, <1>3 DEF ConnType, SameBinding, SameStart, SameLife

\* What ReadSocketClose does to conn.
LEMMA ReadSocketCloseConn ==
  ASSUME TypeInv, ReadSocketClose
  PROVE  /\ ConnType'
         /\ \A d \in Connections :
              /\ SameBinding(d)
              /\ SameBarrier(d)
              /\ SameStart(d)
              /\ conn'[d].registered = conn[d].registered
              /\ (conn'[d].closed <=> (conn[d].closed \/ (d = Head(results).c /\ conn[d].registered)))
              /\ conn'[d].ending = conn[d].ending
              /\ conn'[d].gone = conn[d].gone
              /\ (conn'[d].lost <=> (conn[d].lost \/ (d = Head(results).c /\ conn[d].registered)))
<1>0. ConnType
  BY DEF TypeInv, ParentType, ChildType, ChannelsType
<1>1. conn' = IF conn[Head(results).c].registered THEN Shut({Head(results).c}) ELSE conn
  BY Zenon DEF ReadSocketClose
<1>2. DOMAIN conn' = Connections /\ \A d \in Connections : DOMAIN conn'[d] = ConnFields
  BY <1>0, <1>1 DEF ConnType, ConnFields, Shut
<1>3. \A d \in Connections :
              /\ SameBinding(d)
              /\ SameBarrier(d)
              /\ SameStart(d)
              /\ conn'[d].registered = conn[d].registered
              /\ (conn'[d].closed <=> (conn[d].closed \/ (d = Head(results).c /\ conn[d].registered)))
              /\ conn'[d].ending = conn[d].ending
              /\ conn'[d].gone = conn[d].gone
              /\ (conn'[d].lost <=> (conn[d].lost \/ (d = Head(results).c /\ conn[d].registered)))
  BY <1>0, <1>1 DEF ConnType, ConnFields, SameBinding, SameBarrier, SameStart, Shut
<1> QED
  BY <1>0, <1>2, <1>3 DEF ConnType, SameBinding, SameBarrier, SameStart

\* What ReadDisconnected does to conn.
LEMMA ReadDisconnectedConn ==
  ASSUME TypeInv, ReadDisconnected
  PROVE  /\ ConnType'
         /\ \A d \in Connections :
              /\ SameBinding(d)
              /\ SameBarrier(d)
              /\ SameStart(d)
              /\ conn'[d].registered = conn[d].registered
              /\ (conn'[d].closed <=> (conn[d].closed \/ (d = Head(results).c /\ conn[d].registered)))
              /\ conn'[d].ending = conn[d].ending
              /\ (conn'[d].gone <=> (conn[d].gone \/ (d = Head(results).c /\ conn[d].registered)))
              /\ conn'[d].lost = conn[d].lost
<1>0. ConnType
  BY DEF TypeInv, ParentType, ChildType, ChannelsType
<1>1. conn' = IF conn[Head(results).c].registered THEN [conn EXCEPT ![Head(results).c].closed = TRUE, ![Head(results).c].gone = TRUE] ELSE conn
  BY Zenon DEF ReadDisconnected
<1>2. DOMAIN conn' = Connections /\ \A d \in Connections : DOMAIN conn'[d] = ConnFields
  BY <1>0, <1>1 DEF ConnType, ConnFields
<1>3. \A d \in Connections :
              /\ SameBinding(d)
              /\ SameBarrier(d)
              /\ SameStart(d)
              /\ conn'[d].registered = conn[d].registered
              /\ (conn'[d].closed <=> (conn[d].closed \/ (d = Head(results).c /\ conn[d].registered)))
              /\ conn'[d].ending = conn[d].ending
              /\ (conn'[d].gone <=> (conn[d].gone \/ (d = Head(results).c /\ conn[d].registered)))
              /\ conn'[d].lost = conn[d].lost
  BY <1>0, <1>1 DEF ConnType, ConnFields, SameBinding, SameBarrier, SameStart
<1> QED
  BY <1>0, <1>2, <1>3 DEF ConnType, SameBinding, SameBarrier, SameStart

\* What Fail does to conn.
LEMMA FailConn ==
  ASSUME TypeInv, NEW reason, Fail(reason)
  PROVE  /\ ConnType'
         /\ \A d \in Connections :
              /\ SameBinding(d)
              /\ conn'[d].barrier = conn[d].barrier
              /\ (conn'[d].broken <=> (conn[d].broken \/ conn[d].registered))
              /\ SameStart(d)
              /\ (conn'[d].registered <=> (conn[d].registered /\ worker[d].at # "connecting"))
              /\ (conn'[d].closed <=> (conn[d].closed \/ conn[d].registered))
              /\ conn'[d].ending = conn[d].ending
              /\ (conn'[d].gone <=> (conn[d].gone \/ conn[d].registered))
              /\ (conn'[d].lost <=> (conn[d].lost \/ conn[d].registered))
<1>0. ConnType
  BY DEF TypeInv, ParentType, ChildType, ChannelsType
<1>1. conn' = [c \in Connections |->
                  IF conn[c].registered
                  THEN [Shut(Registered)[c] EXCEPT !.gone = TRUE, !.broken = TRUE,
                          !.registered = worker[c].at # "connecting"]
                  ELSE conn[c]]
  BY Zenon DEF Fail
<1>2. DOMAIN conn' = Connections /\ \A d \in Connections : DOMAIN conn'[d] = ConnFields
  BY <1>0, <1>1 DEF ConnType, ConnFields, Shut, Registered
<1>3. \A d \in Connections :
              /\ SameBinding(d)
              /\ conn'[d].barrier = conn[d].barrier
              /\ (conn'[d].broken <=> (conn[d].broken \/ conn[d].registered))
              /\ SameStart(d)
              /\ (conn'[d].registered <=> (conn[d].registered /\ worker[d].at # "connecting"))
              /\ (conn'[d].closed <=> (conn[d].closed \/ conn[d].registered))
              /\ conn'[d].ending = conn[d].ending
              /\ (conn'[d].gone <=> (conn[d].gone \/ conn[d].registered))
              /\ (conn'[d].lost <=> (conn[d].lost \/ conn[d].registered))
  BY <1>0, <1>1 DEF ConnType, ConnFields, SameBinding, SameStart, Shut, Registered
<1> QED
  BY <1>0, <1>2, <1>3 DEF ConnType, SameBinding, SameStart

\* A step that may begin to end a connection (_begin_disconnect).
BeginsToEnd(c, d) ==
    /\ SameBinding(d) /\ SameBarrier(d) /\ SameStart(d)
    /\ conn'[d].registered = conn[d].registered /\ conn'[d].gone = conn[d].gone
    /\ conn'[d].lost = conn[d].lost
    /\ conn[d].closed => conn'[d].closed
    /\ d # c => conn'[d].closed = conn[d].closed /\ conn'[d].ending = conn[d].ending
    /\ conn'[d].ending # conn[d].ending => conn[d].ending = "no" /\ conn'[d].ending = "begun"

\* What _begin_disconnect does to conn.
LEMMA EndingConn ==
  ASSUME ConnType, NEW c \in Connections, conn' = conn \/ conn' = [conn EXCEPT ![c] = Ending(c)]
  PROVE  ConnType' /\ \A d \in Connections : BeginsToEnd(c, d)
<1>1. CASE conn' = conn
  BY <1>1 DEF ConnType, BeginsToEnd, SameBinding, SameBarrier, SameStart
<1>2. CASE conn' = [conn EXCEPT ![c] = Ending(c)]
  <2>1. DOMAIN conn' = Connections /\ \A d \in Connections : DOMAIN conn'[d] = ConnFields
    BY <1>2 DEF ConnType, ConnFields, Ending
  <2>2. \A d \in Connections : BeginsToEnd(c, d)
    BY <1>2 DEF ConnType, ConnFields, Ending, BeginsToEnd, SameBinding, SameBarrier, SameStart
  <2> QED
    BY <2>1, <2>2 DEF ConnType, BeginsToEnd, SameBinding, SameBarrier, SameStart
<1> QED
  BY <1>1, <1>2

\* What Enqueue does to conn.
LEMMA EnqueueConn ==
  ASSUME TypeInv, NEW c \in Connections, Enqueue(c)
  PROVE  ConnType' /\ \A d \in Connections : BeginsToEnd(c, d)
<1>1. conn' = conn \/ conn' = [conn EXCEPT ![c] = Ending(c)]
  BY Zenon DEF Enqueue
<1> QED
  BY <1>1, EndingConn DEF TypeInv, ParentType

\* What Admitted does to conn.
LEMMA AdmittedConn ==
  ASSUME TypeInv, NEW c \in Connections, Admitted(c)
  PROVE  ConnType' /\ \A d \in Connections : BeginsToEnd(c, d)
<1>1. conn' = conn \/ conn' = [conn EXCEPT ![c] = Ending(c)]
  BY Zenon DEF Admitted
<1> QED
  BY <1>1, EndingConn DEF TypeInv, ParentType

\* The report of a binding that the parent refuses.
StateRefused ==
    LET r == Head(results)
    IN /\ conn[r.c].registered /\ ~conn[r.c].closed
       /\ r.n # conn[r.c].rev + 1 \/ (conn[r.c].revoked /\ ~r.revoked)

\* What ReadState does to conn.
LEMMA ReadStateConn ==
  ASSUME TypeInv, ReadState, ~StateRefused
  PROVE  /\ ConnType'
         /\ \A d \in Connections :
              /\ conn'[d].rev = IF d = Head(results).c /\ conn[Head(results).c].registered /\ ~conn[Head(results).c].closed THEN Head(results).n ELSE conn[d].rev
              /\ conn'[d].bound = IF d = Head(results).c /\ conn[Head(results).c].registered /\ ~conn[Head(results).c].closed THEN Head(results).bound ELSE conn[d].bound
              /\ conn'[d].revoked = IF d = Head(results).c /\ conn[Head(results).c].registered /\ ~conn[Head(results).c].closed THEN Head(results).revoked ELSE conn[d].revoked
              /\ SameBarrier(d)
              /\ SameStart(d)
              /\ SameLife(d)
<1>0. ConnType /\ Head(results).n \in Nat
  BY DEF TypeInv, ParentType, ChildType, ChannelsType, ReadState, Reading, Result
<1>1. conn' = IF conn[Head(results).c].registered /\ ~conn[Head(results).c].closed
                     THEN [conn EXCEPT ![Head(results).c].rev = Head(results).n, ![Head(results).c].bound = Head(results).bound,
                                       ![Head(results).c].revoked = Head(results).revoked]
                     ELSE conn
  BY Zenon DEF Reject, ReadState, StateRefused
<1>2. DOMAIN conn' = Connections /\ \A d \in Connections : DOMAIN conn'[d] = ConnFields
  BY <1>0, <1>1 DEF ConnType, ConnFields
<1>3. \A d \in Connections :
              /\ conn'[d].rev = IF d = Head(results).c /\ conn[Head(results).c].registered /\ ~conn[Head(results).c].closed THEN Head(results).n ELSE conn[d].rev
              /\ conn'[d].bound = IF d = Head(results).c /\ conn[Head(results).c].registered /\ ~conn[Head(results).c].closed THEN Head(results).bound ELSE conn[d].bound
              /\ conn'[d].revoked = IF d = Head(results).c /\ conn[Head(results).c].registered /\ ~conn[Head(results).c].closed THEN Head(results).revoked ELSE conn[d].revoked
              /\ SameBarrier(d)
              /\ SameStart(d)
              /\ SameLife(d)
  BY <1>0, <1>1 DEF ConnType, ConnFields, SameBarrier, SameStart, SameLife
<1> QED
  BY <1>0, <1>2, <1>3 DEF ConnType, SameBarrier, SameStart, SameLife

\* What CallRefused does to conn.
LEMMA CallRefusedConn ==
  ASSUME TypeInv, NEW p \in pending, CallRefused(p)
  PROVE  /\ ConnType'
         /\ \A d \in Connections :
              /\ SameBinding(d)
              /\ conn'[d].barrier = conn[d].barrier
              /\ (conn'[d].broken <=> (conn[d].broken \/ (d = p.c /\ Awaited(p) /\ p.op # "connect")))
              /\ SameStart(d)
              /\ (conn'[d].registered <=> (conn[d].registered /\ ~(d = p.c /\ Awaited(p) /\ p.op = "connect")))
              /\ conn'[d].closed = conn[d].closed
              /\ conn'[d].ending = conn[d].ending
              /\ conn'[d].gone = conn[d].gone
              /\ conn'[d].lost = conn[d].lost
<1>0. ConnType
  BY DEF TypeInv, ParentType, ChildType, ChannelsType
<1>1. conn' = IF ~Awaited(p) THEN conn
                     ELSE IF p.op = "connect" THEN [conn EXCEPT ![p.c].registered = FALSE]
                     ELSE [conn EXCEPT ![p.c].broken = TRUE]
  BY Zenon DEF CallRefused
<1>2. DOMAIN conn' = Connections /\ \A d \in Connections : DOMAIN conn'[d] = ConnFields
  BY <1>0, <1>1 DEF ConnType, ConnFields
<1>3. \A d \in Connections :
              /\ SameBinding(d)
              /\ conn'[d].barrier = conn[d].barrier
              /\ (conn'[d].broken <=> (conn[d].broken \/ (d = p.c /\ Awaited(p) /\ p.op # "connect")))
              /\ SameStart(d)
              /\ (conn'[d].registered <=> (conn[d].registered /\ ~(d = p.c /\ Awaited(p) /\ p.op = "connect")))
              /\ conn'[d].closed = conn[d].closed
              /\ conn'[d].ending = conn[d].ending
              /\ conn'[d].gone = conn[d].gone
              /\ conn'[d].lost = conn[d].lost
  BY <1>0, <1>1 DEF ConnType, ConnFields, SameBinding, SameStart
<1> QED
  BY <1>0, <1>2, <1>3 DEF ConnType, SameBinding, SameStart

\* What EnqueueRefused does to conn.
LEMMA EnqueueRefusedConn ==
  ASSUME TypeInv, NEW p \in pending, EnqueueRefused(p)
  PROVE  /\ ConnType'
         /\ \A d \in Connections :
              /\ SameBinding(d)
              /\ SameBarrier(d)
              /\ SameStart(d)
              /\ conn'[d].registered = conn[d].registered
              /\ (conn'[d].closed <=> (conn[d].closed \/ d = p.c))
              /\ conn'[d].ending = conn[d].ending
              /\ conn'[d].gone = conn[d].gone
              /\ (conn'[d].lost <=> (conn[d].lost \/ d = p.c))
<1>0. ConnType
  BY DEF TypeInv, ParentType, ChildType, ChannelsType
<1>1. conn' = Shut({p.c})
  BY Zenon DEF EnqueueRefused
<1>2. DOMAIN conn' = Connections /\ \A d \in Connections : DOMAIN conn'[d] = ConnFields
  BY <1>0, <1>1 DEF ConnType, ConnFields, Shut
<1>3. \A d \in Connections :
              /\ SameBinding(d)
              /\ SameBarrier(d)
              /\ SameStart(d)
              /\ conn'[d].registered = conn[d].registered
              /\ (conn'[d].closed <=> (conn[d].closed \/ d = p.c))
              /\ conn'[d].ending = conn[d].ending
              /\ conn'[d].gone = conn[d].gone
              /\ (conn'[d].lost <=> (conn[d].lost \/ d = p.c))
  BY <1>0, <1>1 DEF ConnType, ConnFields, SameBinding, SameBarrier, SameStart, Shut
<1> QED
  BY <1>0, <1>2, <1>3 DEF ConnType, SameBinding, SameBarrier, SameStart
SameAt(d) == worker'[d].at = worker[d].at
SameCall(d) == worker'[d].seq = worker[d].seq
SameQ(d) == worker'[d].q = worker[d].q

\* What Connect does to worker.
LEMMA ConnectWorker ==
  ASSUME TypeInv, NEW c \in Connections, Connect(c)
  PROVE  /\ WorkerType'
         /\ \A d \in Connections :
              /\ worker'[d].at = IF d # c THEN worker[d].at ELSE IF Admits(c) THEN "connecting" ELSE "failed"
              /\ worker'[d].seq = IF d = c /\ Admits(c) THEN sequence + 1 ELSE worker[d].seq
              /\ SameQ(d)
<1>0. WorkerType /\ sequence \in Nat
  BY DEF TypeInv, ParentType, ChildType, ChannelsType
<1>1. worker' = IF Admits(c) THEN [worker EXCEPT ![c] = [@ EXCEPT !.at = "connecting", !.seq = sequence + 1]] ELSE [worker EXCEPT ![c].at = "failed"]
  BY Zenon DEF Connect, Admits, At
<1>2. DOMAIN worker' = Connections /\ \A d \in Connections : DOMAIN worker'[d] = WorkerFields
  BY <1>0, <1>1 DEF WorkerType, WorkerFields
<1>3. \A d \in Connections :
              /\ worker'[d].at = IF d # c THEN worker[d].at ELSE IF Admits(c) THEN "connecting" ELSE "failed"
              /\ worker'[d].seq = IF d = c /\ Admits(c) THEN sequence + 1 ELSE worker[d].seq
              /\ SameQ(d)
  BY <1>0, <1>1 DEF WorkerType, WorkerFields, SameQ
<1> QED
  BY <1>0, <1>2, <1>3 DEF WorkerType, SameQ, Places, Names

\* What SendEnvelope does to worker.
LEMMA SendEnvelopeWorker ==
  ASSUME TypeInv, NEW c \in Connections, SendEnvelope(c)
  PROVE  /\ WorkerType'
         /\ \A d \in Connections :
              /\ worker'[d].at = IF d # c THEN worker[d].at ELSE IF ~conn[c].closed /\ Table < Capacity /\ MaySubmit THEN "enveloping" ELSE "failed"
              /\ worker'[d].seq = IF d = c /\ ~conn[c].closed /\ Table < Capacity /\ MaySubmit THEN sequence + 1 ELSE worker[d].seq
              /\ SameQ(d)
<1>0. WorkerType /\ sequence \in Nat
  BY DEF TypeInv, ParentType, ChildType, ChannelsType
<1>1. worker' = IF ~conn[c].closed /\ Table < Capacity /\ MaySubmit THEN [worker EXCEPT ![c] = [@ EXCEPT !.at = "enveloping", !.seq = sequence + 1]] ELSE [worker EXCEPT ![c].at = "failed"]
  BY Zenon DEF SendEnvelope, At
<1>2. DOMAIN worker' = Connections /\ \A d \in Connections : DOMAIN worker'[d] = WorkerFields
  BY <1>0, <1>1 DEF WorkerType, WorkerFields
<1>3. \A d \in Connections :
              /\ worker'[d].at = IF d # c THEN worker[d].at ELSE IF ~conn[c].closed /\ Table < Capacity /\ MaySubmit THEN "enveloping" ELSE "failed"
              /\ worker'[d].seq = IF d = c /\ ~conn[c].closed /\ Table < Capacity /\ MaySubmit THEN sequence + 1 ELSE worker[d].seq
              /\ SameQ(d)
  BY <1>0, <1>1 DEF WorkerType, WorkerFields, SameQ
<1> QED
  BY <1>0, <1>2, <1>3 DEF WorkerType, SameQ, Places, Names

\* What TakeRequest does to worker.
LEMMA TakeRequestWorker ==
  ASSUME TypeInv, NEW c \in Connections, NEW q \in RequestIds, TakeRequest(c, q)
  PROVE  /\ WorkerType'
         /\ \A d \in Connections :
              /\ worker'[d].at = IF d # c THEN worker[d].at ELSE IF conn[c].closed THEN "failed" ELSE "barrier"
              /\ SameCall(d)
              /\ worker'[d].q = IF d = c THEN q ELSE worker[d].q
<1>0. WorkerType
  BY DEF TypeInv, ParentType, ChildType, ChannelsType
<1>1. worker' = [worker EXCEPT ![c] = [@ EXCEPT !.at = IF conn[c].closed THEN "failed" ELSE "barrier", !.q = q]]
  BY Zenon DEF TakeRequest
<1>2. DOMAIN worker' = Connections /\ \A d \in Connections : DOMAIN worker'[d] = WorkerFields
  BY <1>0, <1>1 DEF WorkerType, WorkerFields
<1>3. \A d \in Connections :
              /\ worker'[d].at = IF d # c THEN worker[d].at ELSE IF conn[c].closed THEN "failed" ELSE "barrier"
              /\ SameCall(d)
              /\ worker'[d].q = IF d = c THEN q ELSE worker[d].q
  BY <1>0, <1>1 DEF WorkerType, WorkerFields, SameCall
<1> QED
  BY <1>0, <1>2, <1>3 DEF WorkerType, SameCall, Places, Names

\* What EndWorker does to worker.
LEMMA EndWorkerWorker ==
  ASSUME TypeInv, NEW c \in Connections, EndWorker(c)
  PROVE  /\ WorkerType'
         /\ \A d \in Connections :
              /\ worker'[d].at = IF d # c THEN worker[d].at ELSE IF conn[c].registered THEN "closing" ELSE "ended"
              /\ SameCall(d)
              /\ SameQ(d)
<1>0. WorkerType
  BY DEF TypeInv, ParentType, ChildType, ChannelsType
<1>1. worker' = [worker EXCEPT ![c].at = IF conn[c].registered THEN "closing" ELSE "ended"]
  BY Zenon DEF EndWorker, At
<1>2. DOMAIN worker' = Connections /\ \A d \in Connections : DOMAIN worker'[d] = WorkerFields
  BY <1>0, <1>1 DEF WorkerType, WorkerFields
<1>3. \A d \in Connections :
              /\ worker'[d].at = IF d # c THEN worker[d].at ELSE IF conn[c].registered THEN "closing" ELSE "ended"
              /\ SameCall(d)
              /\ SameQ(d)
  BY <1>0, <1>1 DEF WorkerType, WorkerFields, SameCall, SameQ
<1> QED
  BY <1>0, <1>2, <1>3 DEF WorkerType, SameCall, SameQ, Places, Names

\* What DisconnectEnd does to worker.
LEMMA DisconnectEndWorker ==
  ASSUME TypeInv, NEW c \in Connections, DisconnectEnd(c)
  PROVE  /\ WorkerType'
         /\ \A d \in Connections :
              /\ worker'[d].at = IF d = c /\ worker[c].at = "closing" THEN "ended" ELSE worker[d].at
              /\ SameCall(d)
              /\ SameQ(d)
<1>0. WorkerType
  BY DEF TypeInv, ParentType, ChildType, ChannelsType
<1>1. worker' = IF worker[c].at = "closing" THEN [worker EXCEPT ![c].at = "ended"] ELSE worker
  BY Zenon DEF DisconnectEnd
<1>2. DOMAIN worker' = Connections /\ \A d \in Connections : DOMAIN worker'[d] = WorkerFields
  BY <1>0, <1>1 DEF WorkerType, WorkerFields
<1>3. \A d \in Connections :
              /\ worker'[d].at = IF d = c /\ worker[c].at = "closing" THEN "ended" ELSE worker[d].at
              /\ SameCall(d)
              /\ SameQ(d)
  BY <1>0, <1>1 DEF WorkerType, WorkerFields, SameCall, SameQ
<1> QED
  BY <1>0, <1>2, <1>3 DEF WorkerType, SameCall, SameQ, Places, Names

\* What Fail does to worker.
LEMMA FailWorker ==
  ASSUME TypeInv, NEW reason, Fail(reason)
  PROVE  /\ WorkerType'
         /\ \A d \in Connections :
              /\ worker'[d].at = IF worker[d].at \in {"connecting", "enveloping", "barrier"} THEN "failed" ELSE worker[d].at
              /\ SameCall(d)
              /\ SameQ(d)
<1>0. WorkerType
  BY DEF TypeInv, ParentType, ChildType, ChannelsType
<1>1. worker' = [c \in Connections |->
                    IF worker[c].at \in {"connecting", "enveloping", "barrier"}
                    THEN [worker[c] EXCEPT !.at = "failed"] ELSE worker[c]]
  BY Zenon DEF Fail
<1>2. DOMAIN worker' = Connections /\ \A d \in Connections : DOMAIN worker'[d] = WorkerFields
  BY <1>0, <1>1 DEF WorkerType, WorkerFields
<1>3. \A d \in Connections :
              /\ worker'[d].at = IF worker[d].at \in {"connecting", "enveloping", "barrier"} THEN "failed" ELSE worker[d].at
              /\ SameCall(d)
              /\ SameQ(d)
  BY <1>0, <1>1 DEF WorkerType, WorkerFields, SameCall, SameQ
<1> QED
  BY <1>0, <1>2, <1>3 DEF WorkerType, SameCall, SameQ, Places, Names

\* The place of a connection's worker changes, and nothing else of it.
LEMMA AtWorker ==
  ASSUME WorkerType, NEW c \in Connections, NEW place \in Places, place # "barrier",
         At(c, place)
  PROVE  /\ WorkerType'
         /\ \A d \in Connections :
              /\ SameCall(d) /\ SameQ(d)
              /\ worker'[d].at = IF d = c THEN place ELSE worker[d].at
<1>1. DOMAIN worker' = Connections /\ \A d \in Connections : DOMAIN worker'[d] = WorkerFields
  BY DEF WorkerType, WorkerFields, At
<1>2. \A d \in Connections :
              /\ SameCall(d) /\ SameQ(d)
              /\ worker'[d].at = IF d = c THEN place ELSE worker[d].at
  BY DEF WorkerType, WorkerFields, SameCall, SameQ, At
<1> QED
  BY <1>1, <1>2 DEF WorkerType, SameCall, SameQ

\* What Enqueue does to worker: the admission is written, or the connection ends.
LEMMA EnqueueWorker ==
  ASSUME TypeInv, NEW c \in Connections, Enqueue(c)
  PROVE  /\ WorkerType'
         /\ \A d \in Connections :
              /\ SameQ(d)
              /\ d # c => SameAt(d) /\ SameCall(d)
              /\ d = c => \/ worker'[d].at = "failed" /\ SameCall(d)
                          \/ worker'[d].at = "admitting" /\ worker'[d].seq \in {0, sequence + 1}
<1>0. WorkerType /\ sequence \in Nat
  BY DEF TypeInv, ParentType
<1>1. \/ At(c, "failed")
      \/ \E n \in {0, sequence + 1} : worker' = [worker EXCEPT ![c] = [@ EXCEPT !.at = "admitting", !.seq = n]]
  <2>1. CASE conn[c].broken
    BY <2>1, Zenon DEF Enqueue
  <2>2. CASE ~conn[c].broken /\ Cardinality(sends) < Capacity
    <3> DEFINE admit == /\ running[c][worker[c].q] = None /\ Table < Capacity
                        /\ conn[c].bound /\ ~conn[c].revoked
                        /\ credit > 0 /\ MaySubmit
               n == IF admit THEN sequence + 1 ELSE 0
    <3>1. worker' = [worker EXCEPT ![c] = [@ EXCEPT !.at = "admitting", !.seq = n]]
      BY <2>2, Zenon DEF Enqueue
    <3>2. n \in {0, sequence + 1}
      OBVIOUS
    <3> HIDE DEF n
    <3> QED
      BY <3>1, <3>2
  <2>3. CASE ~conn[c].broken /\ ~(Cardinality(sends) < Capacity)
    BY <2>3, Zenon DEF Enqueue
  <2> QED
    BY <2>1, <2>2, <2>3
<1>2. CASE At(c, "failed")
  <2>1. "failed" \in Places /\ "failed" # "barrier"
    BY DEF Places
  <2> QED
    BY <1>0, <1>2, <2>1, AtWorker DEF SameAt
<1>3. ASSUME NEW n \in {0, sequence + 1},
             worker' = [worker EXCEPT ![c] = [@ EXCEPT !.at = "admitting", !.seq = n]]
      PROVE  /\ WorkerType'
             /\ \A d \in Connections :
                  /\ SameQ(d)
                  /\ d # c => SameAt(d) /\ SameCall(d)
                  /\ d = c => worker'[d].at = "admitting" /\ worker'[d].seq = n
  <2>1. DOMAIN worker' = Connections /\ \A d \in Connections : DOMAIN worker'[d] = WorkerFields
    BY <1>0, <1>3 DEF WorkerType, WorkerFields
  <2>2. \A d \in Connections :
                  /\ SameQ(d)
                  /\ d # c => SameAt(d) /\ SameCall(d)
                  /\ d = c => worker'[d].at = "admitting" /\ worker'[d].seq = n
    BY <1>0, <1>3 DEF WorkerType, WorkerFields, SameQ, SameAt, SameCall
  <2>3. n \in Nat
    BY <1>0
  <2> QED
    BY <1>0, <2>1, <2>2, <2>3 DEF WorkerType, SameQ, SameAt, SameCall, Places
<1> QED
  BY <1>1, <1>2, <1>3

\* What Admitted does to worker.
LEMMA AdmittedWorker ==
  ASSUME TypeInv, NEW c \in Connections, Admitted(c)
  PROVE  /\ WorkerType'
         /\ \A d \in Connections :
              /\ SameCall(d) /\ SameQ(d)
              /\ d # c => SameAt(d)
              /\ d = c => worker'[d].at \in {"reading", "failed"}
<1>1. PICK place \in {"reading", "failed"} : At(c, place)
  <2>1. At(c, "reading") \/ At(c, "failed")
    BY Zenon DEF Admitted
  <2> QED
    BY <2>1
<1>2. place \in Places /\ place # "barrier" /\ WorkerType
  BY DEF TypeInv, ParentType, Places
<1> QED
  BY <1>1, <1>2, AtWorker DEF SameAt

\* An answer wakes the worker that waits for it.
LEMMA WokenWorker ==
  ASSUME TypeInv, NEW p \in pending, NEW place \in {"reading", "failed"}, Woken(p, place)
  PROVE  /\ WorkerType'
         /\ \A d \in Connections :
              /\ SameCall(d) /\ SameQ(d)
              /\ worker'[d].at = IF d = p.c /\ Awaited(p) THEN place ELSE worker[d].at
<1>1. WorkerType /\ p.c \in Connections
  BY DEF TypeInv, ParentType
<1>2. CASE Awaited(p)
  <2>1. At(p.c, place)
    BY <1>2 DEF Woken, At
  <2>2. place \in Places /\ place # "barrier"
    BY DEF Places
  <2> QED
    BY <1>1, <1>2, <2>1, <2>2, AtWorker
<1>3. CASE ~Awaited(p)
  BY <1>1, <1>3 DEF Woken, WorkerType, SameCall, SameQ
<1> QED
  BY <1>2, <1>3
SamePlace(d) == chan'[d].at = chan[d].at
SameWork(d) ==
    /\ chan'[d].current = chan[d].current /\ chan'[d].inbox = chan[d].inbox
SameAwaits(d) == chan'[d].awaits = chan[d].awaits
SameRevision(d) ==
    /\ chan'[d].rev = chan[d].rev /\ chan'[d].bound = chan[d].bound
    /\ chan'[d].revoked = chan[d].revoked
SameSynced(d) ==
    /\ chan'[d].synced = chan[d].synced /\ chan'[d].syncLost = chan[d].syncLost
SameDisc(d) == chan'[d].disconnecting = chan[d].disconnecting
SameUnbind(d) == chan'[d].unbind = chan[d].unbind
SameCloser(d) == chan'[d].closer = chan[d].closer

\* What ReceiveConnect does to chan.
LEMMA ReceiveConnectChan ==
  ASSUME TypeInv, ReceiveConnect
  PROVE  /\ ChanType'
         /\ \A d \in Connections :
              /\ chan'[d].at = chan[d].at \/ (d = Head(commands).c /\ chan'[d].at = "receive" /\ ~Exists(d) /\ d \notin dropped)
              /\ SameWork(d)
              /\ SameAwaits(d)
              /\ SameRevision(d)
              /\ SameSynced(d)
              /\ SameDisc(d)
              /\ SameUnbind(d)
              /\ SameCloser(d)
<1>0. ChanType
  BY DEF TypeInv, ParentType, ChildType, ChannelsType
<1>1. chan' = IF (Exists(Head(commands).c) \/ Cardinality({c \in Connections : Exists(c)}) >= Capacity) \/ Head(commands).c \in dropped THEN chan ELSE [chan EXCEPT ![Head(commands).c].at = "receive"]
  BY Zenon DEF ReceiveConnect, Receiving
<1>2. DOMAIN chan' = Connections /\ \A d \in Connections : DOMAIN chan'[d] = ChanFields
  BY <1>0, <1>1 DEF ChanType, ChanFields, Exists
<1>3. \A d \in Connections :
              /\ chan'[d].at = chan[d].at \/ (d = Head(commands).c /\ chan'[d].at = "receive" /\ ~Exists(d) /\ d \notin dropped)
              /\ SameWork(d)
              /\ SameAwaits(d)
              /\ SameRevision(d)
              /\ SameSynced(d)
              /\ SameDisc(d)
              /\ SameUnbind(d)
              /\ SameCloser(d)
  BY <1>0, <1>1 DEF ChanType, ChanFields, SameWork, SameAwaits, SameRevision, SameSynced, SameDisc, SameUnbind, SameCloser, Exists
<1> QED
  BY <1>0, <1>2, <1>3 DEF ChanType, SameWork, SameAwaits, SameRevision, SameSynced, SameDisc, SameUnbind, SameCloser, ChanPlaces

\* What ReceiveEnvelope does to chan.
LEMMA ReceiveEnvelopeChan ==
  ASSUME TypeInv, ReceiveEnvelope
  PROVE  /\ ChanType'
         /\ \A d \in Connections :
              /\ SamePlace(d)
              /\ chan'[d].current = chan[d].current
              /\ chan'[d].inbox = IF d = Head(commands).c /\ Exists(d) THEN Append(chan[d].inbox, Head(commands).seq) ELSE chan[d].inbox
              /\ SameAwaits(d)
              /\ SameRevision(d)
              /\ SameSynced(d)
              /\ SameDisc(d)
              /\ SameUnbind(d)
              /\ SameCloser(d)
<1>0. ChanType /\ commands # <<>> /\ commands \in Seq(Command)
  BY DEF TypeInv, ParentType, ChildType, ChannelsType, ReceiveEnvelope, Receiving
<1>1. chan' = IF Exists(Head(commands).c) THEN [chan EXCEPT ![Head(commands).c].inbox = Append(@, Head(commands).seq)] ELSE chan
  BY Zenon DEF ReceiveEnvelope, Receiving
<1>2. DOMAIN chan' = Connections /\ \A d \in Connections : DOMAIN chan'[d] = ChanFields
  BY <1>0, <1>1 DEF ChanType, ChanFields
<1>3. \A d \in Connections :
              /\ SamePlace(d)
              /\ chan'[d].current = chan[d].current
              /\ chan'[d].inbox = IF d = Head(commands).c /\ Exists(d) THEN Append(chan[d].inbox, Head(commands).seq) ELSE chan[d].inbox
              /\ SameAwaits(d)
              /\ SameRevision(d)
              /\ SameSynced(d)
              /\ SameDisc(d)
              /\ SameUnbind(d)
              /\ SameCloser(d)
  BY <1>0, <1>1 DEF ChanType, ChanFields, SamePlace, SameAwaits, SameRevision, SameSynced, SameDisc, SameUnbind, SameCloser
<1>4. Head(commands).seq \in Nat
  BY <1>0 DEF Command
<1>5. \A d \in Connections : Append(chan[d].inbox, Head(commands).seq) \in Seq(Nat)
  BY <1>0, <1>4 DEF ChanType
<1>6. \A d \in Connections : chan[d].inbox \in Seq(Nat)
  BY <1>0 DEF ChanType
<1>7. \A d \in Connections : chan'[d].inbox \in Seq(Nat)
  BY <1>3, <1>5, <1>6, Zenon
<1> QED
  BY <1>0, <1>2, <1>4, <1>5, <1>6, <1>7, <1>3 DEF ChanType, SamePlace, SameAwaits, SameRevision, SameSynced, SameDisc, SameUnbind, SameCloser, ChanPlaces

\* What TakeEnvelope does to chan.
LEMMA TakeEnvelopeChan ==
  ASSUME TypeInv, NEW c \in Connections, TakeEnvelope(c)
  PROVE  /\ ChanType'
         /\ \A d \in Connections :
              /\ chan'[d].at = IF d = c /\ ~chan[c].revoked THEN "join" ELSE chan[d].at
              /\ chan'[d].current = IF d = c /\ ~chan[c].revoked THEN Head(chan[d].inbox) ELSE chan[d].current
              /\ chan'[d].inbox = IF d = c THEN Tail(chan[d].inbox) ELSE chan[d].inbox
              /\ SameAwaits(d)
              /\ SameRevision(d)
              /\ SameSynced(d)
              /\ SameDisc(d)
              /\ SameUnbind(d)
              /\ SameCloser(d)
<1>0. ChanType /\ chan[c].inbox # <<>>
  BY DEF TypeInv, ParentType, ChildType, ChannelsType, TakeEnvelope
<1>1. chan' = IF chan[c].revoked THEN [chan EXCEPT ![c] = [chan[c] EXCEPT !.inbox = Tail(@)]] ELSE [chan EXCEPT ![c] = [[chan[c] EXCEPT !.inbox = Tail(@)] EXCEPT !.at = "join", !.current = Head(chan[c].inbox)]]
  BY Zenon DEF TakeEnvelope
<1>2. DOMAIN chan' = Connections /\ \A d \in Connections : DOMAIN chan'[d] = ChanFields
  BY <1>0, <1>1 DEF ChanType, ChanFields
<1>3. \A d \in Connections :
              /\ chan'[d].at = IF d = c /\ ~chan[c].revoked THEN "join" ELSE chan[d].at
              /\ chan'[d].current = IF d = c /\ ~chan[c].revoked THEN Head(chan[d].inbox) ELSE chan[d].current
              /\ chan'[d].inbox = IF d = c THEN Tail(chan[d].inbox) ELSE chan[d].inbox
              /\ SameAwaits(d)
              /\ SameRevision(d)
              /\ SameSynced(d)
              /\ SameDisc(d)
              /\ SameUnbind(d)
              /\ SameCloser(d)
  BY <1>0, <1>1 DEF ChanType, ChanFields, SameAwaits, SameRevision, SameSynced, SameDisc, SameUnbind, SameCloser
<1>4. chan[c].inbox \in Seq(Nat)
  BY <1>0 DEF ChanType
<1>5. Tail(chan[c].inbox) \in Seq(Nat) /\ Head(chan[c].inbox) \in Nat
  BY <1>0, <1>4
<1>6. \A d \in Connections : chan'[d].inbox \in Seq(Nat)
  BY <1>0, <1>3, <1>5, Zenon DEF ChanType
<1>7. \A d \in Connections : chan'[d].current \in Nat
  BY <1>0, <1>3, <1>5, Zenon DEF ChanType
<1> QED
  BY <1>0, <1>2, <1>4, <1>5, <1>6, <1>7, <1>3 DEF ChanType, SameAwaits, SameRevision, SameSynced, SameDisc, SameUnbind, SameCloser, ChanPlaces

\* What CallOwner does to chan: an envelope goes to the owner, or an unbind.
LEMMA CallOwnerChan ==
  ASSUME TypeInv, NEW c \in Connections, CallOwner(c)
  PROVE  /\ ChanType'
         /\ \A d \in Connections :
              /\ SameWork(d) /\ SameAwaits(d) /\ SameRevision(d) /\ SameSynced(d) /\ SameDisc(d) /\ SameCloser(d)
              /\ \/ chan'[d].at = chan[d].at
                 \/ d = c /\ chan[d].at = "join" /\ Joined(d) /\ chan'[d].at = "ownerWait"
<1>0. ChanType
  BY DEF TypeInv, ChildType
<1>1. \/ chan[c].at = "join" /\ Joined(c) /\ chan' = [chan EXCEPT ![c].at = "ownerWait"]
      \/ chan' = [chan EXCEPT ![c].unbind = "queued"]
  BY Zenon DEF CallOwner
<1>2. DOMAIN chan' = Connections /\ \A d \in Connections : DOMAIN chan'[d] = ChanFields
  BY <1>0, <1>1 DEF ChanType, ChanFields
<1>3. \A d \in Connections :
              /\ SameWork(d) /\ SameAwaits(d) /\ SameRevision(d) /\ SameSynced(d) /\ SameDisc(d) /\ SameCloser(d)
              /\ \/ chan'[d].at = chan[d].at
                 \/ d = c /\ chan[d].at = "join" /\ Joined(d) /\ chan'[d].at = "ownerWait"
  BY <1>0, <1>1 DEF ChanType, ChanFields, SameWork, SameAwaits, SameRevision, SameSynced, SameDisc, SameCloser
<1> QED
  BY <1>0, <1>2, <1>3 DEF ChanType, ChanPlaces, SameWork, SameAwaits, SameRevision, SameSynced

\* What Rebind does to chan.
LEMMA RebindChan ==
  ASSUME TypeInv, NEW c \in Connections, Rebind(c)
  PROVE  /\ ChanType'
         /\ \A d \in Connections :
              /\ chan'[d].at = IF d = c THEN "sync" ELSE chan[d].at
              /\ SameWork(d)
              /\ chan'[d].awaits = IF d = c THEN chan[d].rev + 1 ELSE chan[d].awaits
              /\ chan'[d].rev = IF d = c THEN chan[d].rev + 1 ELSE chan[d].rev
              /\ (chan'[d].bound <=> (chan[d].bound \/ d = c))
              /\ chan'[d].revoked = chan[d].revoked
              /\ SameSynced(d)
              /\ SameDisc(d)
              /\ SameUnbind(d)
              /\ SameCloser(d)
<1>0. ChanType
  BY DEF TypeInv, ParentType, ChildType, ChannelsType
<1>1. chan' = [chan EXCEPT ![c] = [chan[c] EXCEPT !.at = "sync", !.rev = @ + 1, !.awaits = chan[c].rev + 1, !.bound = TRUE]]
  BY Zenon DEF Rebind
<1>2. DOMAIN chan' = Connections /\ \A d \in Connections : DOMAIN chan'[d] = ChanFields
  BY <1>0, <1>1 DEF ChanType, ChanFields
<1>3. \A d \in Connections :
              /\ chan'[d].at = IF d = c THEN "sync" ELSE chan[d].at
              /\ SameWork(d)
              /\ chan'[d].awaits = IF d = c THEN chan[d].rev + 1 ELSE chan[d].awaits
              /\ chan'[d].rev = IF d = c THEN chan[d].rev + 1 ELSE chan[d].rev
              /\ (chan'[d].bound <=> (chan[d].bound \/ d = c))
              /\ chan'[d].revoked = chan[d].revoked
              /\ SameSynced(d)
              /\ SameDisc(d)
              /\ SameUnbind(d)
              /\ SameCloser(d)
  BY <1>0, <1>1 DEF ChanType, ChanFields, SameWork, SameSynced, SameDisc, SameUnbind, SameCloser
<1>4. \A d \in Connections : chan'[d].rev \in Nat /\ chan'[d].awaits \in Nat
  BY <1>0, <1>3 DEF ChanType
<1>5. \A d \in Connections : chan'[d].bound \in BOOLEAN
  BY <1>0, <1>1 DEF ChanType, ChanFields
<1> QED
  BY <1>0, <1>2, <1>4, <1>5, <1>3 DEF ChanType, SameWork, SameSynced, SameDisc, SameUnbind, SameCloser, ChanPlaces

\* What KeepBinding does to chan.
LEMMA KeepBindingChan ==
  ASSUME TypeInv, NEW c \in Connections, KeepBinding(c)
  PROVE  /\ ChanType'
         /\ \A d \in Connections :
              /\ chan'[d].at = IF d = c THEN "sync" ELSE chan[d].at
              /\ SameWork(d)
              /\ chan'[d].awaits = IF d = c THEN chan[d].rev ELSE chan[d].awaits
              /\ SameRevision(d)
              /\ SameSynced(d)
              /\ SameDisc(d)
              /\ SameUnbind(d)
              /\ SameCloser(d)
<1>0. ChanType
  BY DEF TypeInv, ParentType, ChildType, ChannelsType
<1>1. chan' = [chan EXCEPT ![c] = [@ EXCEPT !.at = "sync", !.awaits = chan[c].rev]]
  BY Zenon DEF KeepBinding
<1>2. DOMAIN chan' = Connections /\ \A d \in Connections : DOMAIN chan'[d] = ChanFields
  BY <1>0, <1>1 DEF ChanType, ChanFields
<1>3. \A d \in Connections :
              /\ chan'[d].at = IF d = c THEN "sync" ELSE chan[d].at
              /\ SameWork(d)
              /\ chan'[d].awaits = IF d = c THEN chan[d].rev ELSE chan[d].awaits
              /\ SameRevision(d)
              /\ SameSynced(d)
              /\ SameDisc(d)
              /\ SameUnbind(d)
              /\ SameCloser(d)
  BY <1>0, <1>1 DEF ChanType, ChanFields, SameWork, SameRevision, SameSynced, SameDisc, SameUnbind, SameCloser
<1>4. \A d \in Connections : chan'[d].awaits \in Nat
  BY <1>0, <1>3 DEF ChanType
<1> QED
  BY <1>0, <1>2, <1>4, <1>3 DEF ChanType, SameWork, SameRevision, SameSynced, SameDisc, SameUnbind, SameCloser, ChanPlaces

\* What EndForNobody does to chan.
LEMMA EndForNobodyChan ==
  ASSUME TypeInv, NEW c \in Connections, NEW what, NEW n, EndForNobody(c, what, n)
  PROVE  /\ ChanType'
         /\ \A d \in Connections :
              /\ SamePlace(d)
              /\ SameWork(d)
              /\ SameAwaits(d)
              /\ SameRevision(d)
              /\ SameSynced(d)
              /\ SameDisc(d)
              /\ (d = c \/ SameUnbind(d))
              /\ SameCloser(d)
<1>0. ChanType
  BY DEF TypeInv, ParentType, ChildType, ChannelsType
<1>1. chan' = IF what = "unbind" THEN [chan EXCEPT ![c].unbind = "done"] ELSE chan
  BY Zenon DEF EndForNobody
<1>2. DOMAIN chan' = Connections /\ \A d \in Connections : DOMAIN chan'[d] = ChanFields
  BY <1>0, <1>1 DEF ChanType, ChanFields, SameUnbind
<1>3. \A d \in Connections :
              /\ SamePlace(d)
              /\ SameWork(d)
              /\ SameAwaits(d)
              /\ SameRevision(d)
              /\ SameSynced(d)
              /\ SameDisc(d)
              /\ (d = c \/ SameUnbind(d))
              /\ SameCloser(d)
  BY <1>0, <1>1 DEF ChanType, ChanFields, SamePlace, SameWork, SameAwaits, SameRevision, SameSynced, SameDisc, SameCloser, SameUnbind
<1> QED
  BY <1>0, <1>2, <1>3 DEF ChanType, SamePlace, SameWork, SameAwaits, SameRevision, SameSynced, SameDisc, SameCloser, ChanPlaces

\* What ReceiptOfState does to chan.
LEMMA ReceiptOfStateChan ==
  ASSUME TypeInv, NEW c \in Connections, NEW n \in Nat, NEW sent \in BOOLEAN, ReceiptOfState(c, n, sent)
  PROVE  /\ ChanType'
         /\ \A d \in Connections :
              /\ SamePlace(d)
              /\ SameWork(d)
              /\ SameAwaits(d)
              /\ SameRevision(d)
              /\ chan'[d].synced = IF d = c /\ sent THEN n ELSE chan[d].synced
              /\ (chan'[d].syncLost <=> (chan[d].syncLost \/ (d = c /\ ~sent)))
              /\ SameDisc(d)
              /\ SameUnbind(d)
              /\ SameCloser(d)
<1>0. ChanType
  BY DEF TypeInv, ParentType, ChildType, ChannelsType
<1>1. chan' = IF sent THEN [chan EXCEPT ![c].synced = n] ELSE [chan EXCEPT ![c].syncLost = TRUE]
  BY Zenon DEF ReceiptOfState
<1>2. DOMAIN chan' = Connections /\ \A d \in Connections : DOMAIN chan'[d] = ChanFields
  BY <1>0, <1>1 DEF ChanType, ChanFields
<1>3. \A d \in Connections :
              /\ SamePlace(d)
              /\ SameWork(d)
              /\ SameAwaits(d)
              /\ SameRevision(d)
              /\ chan'[d].synced = IF d = c /\ sent THEN n ELSE chan[d].synced
              /\ (chan'[d].syncLost <=> (chan[d].syncLost \/ (d = c /\ ~sent)))
              /\ SameDisc(d)
              /\ SameUnbind(d)
              /\ SameCloser(d)
  BY <1>0, <1>1 DEF ChanType, ChanFields, SamePlace, SameWork, SameAwaits, SameRevision, SameDisc, SameUnbind, SameCloser
<1> QED
  BY <1>0, <1>2, <1>3 DEF ChanType, SamePlace, SameWork, SameAwaits, SameRevision, SameDisc, SameUnbind, SameCloser, ChanPlaces

\* What AfterSync does to chan: the answer is sent next, or the session ends.
LEMMA AfterSyncChan ==
  ASSUME TypeInv, NEW c \in Connections, AfterSync(c)
  PROVE  /\ ChanType'
         /\ \A d \in Connections :
              /\ SameWork(d) /\ SameAwaits(d) /\ SameRevision(d) /\ SameSynced(d) /\ SameDisc(d) /\ SameCloser(d)
              /\ \/ d # c /\ chan'[d].at = chan[d].at
                 \/ /\ d = c /\ chan[d].at = "sync" /\ chan'[d].at = "send"
                    /\ chan[d].synced >= chan[d].awaits /\ UNCHANGED pump
                 \/ /\ d = c /\ chan[d].at = "sync" /\ StopPump(c)
                    /\ chan'[d].at = IF pump[d] = "off" THEN "unbinding" ELSE "pumpWait"
<1>0. ChanType
  BY DEF TypeInv, ChildType
<1>1. \/ /\ chan' = [chan EXCEPT ![c].at = "send"] /\ chan[c].at = "sync"
         /\ chan[c].synced >= chan[c].awaits /\ UNCHANGED pump
      \/ chan' = [chan EXCEPT ![c] = Finally(c, chan[c])] /\ chan[c].at = "sync" /\ StopPump(c)
  BY Zenon DEF AfterSync
<1>2. DOMAIN chan' = Connections /\ \A d \in Connections : DOMAIN chan'[d] = ChanFields
  BY <1>0, <1>1 DEF ChanType, ChanFields, Finally
<1>3. \A d \in Connections :
              /\ SameWork(d) /\ SameAwaits(d) /\ SameRevision(d) /\ SameSynced(d) /\ SameDisc(d) /\ SameCloser(d)
              /\ \/ d # c /\ chan'[d].at = chan[d].at
                 \/ /\ d = c /\ chan[d].at = "sync" /\ chan'[d].at = "send"
                    /\ chan[d].synced >= chan[d].awaits /\ UNCHANGED pump
                 \/ /\ d = c /\ chan[d].at = "sync" /\ StopPump(c)
                    /\ chan'[d].at = IF pump[d] = "off" THEN "unbinding" ELSE "pumpWait"
  <2>1. CASE /\ chan' = [chan EXCEPT ![c].at = "send"] /\ chan[c].at = "sync"
             /\ chan[c].synced >= chan[c].awaits /\ UNCHANGED pump
    BY <1>0, <2>1 DEF ChanType, ChanFields, SameWork, SameAwaits, SameRevision, SameSynced, SameDisc, SameCloser
  <2>2. CASE chan' = [chan EXCEPT ![c] = Finally(c, chan[c])] /\ chan[c].at = "sync" /\ StopPump(c)
    BY <1>0, <2>2 DEF ChanType, ChanFields, Finally, SameWork, SameAwaits, SameRevision, SameSynced, SameDisc, SameCloser
  <2> QED
    BY <1>1, <2>1, <2>2
<1> QED
  BY <1>0, <1>2, <1>3 DEF ChanType, ChanPlaces, SameWork, SameAwaits, SameRevision, SameSynced

\* What EndUnbind does to chan.
LEMMA EndUnbindChan ==
  ASSUME TypeInv, NEW c \in Connections, EndUnbind(c)
  PROVE  /\ ChanType'
         /\ \A d \in Connections :
              /\ chan'[d].at = IF d = c THEN "waiting" ELSE chan[d].at
              /\ SameWork(d)
              /\ SameAwaits(d)
              /\ SameRevision(d)
              /\ SameSynced(d)
              /\ SameDisc(d)
              /\ chan'[d].unbind = IF d = c THEN "done" ELSE chan[d].unbind
              /\ chan'[d].closer = IF d = c THEN "off" ELSE chan[d].closer
<1>0. ChanType
  BY DEF TypeInv, ParentType, ChildType, ChannelsType
<1>1. chan' = [chan EXCEPT ![c] = [@ EXCEPT !.at = "waiting", !.unbind = "done", !.closer = "off"]]
  BY Zenon DEF EndUnbind
<1>2. DOMAIN chan' = Connections /\ \A d \in Connections : DOMAIN chan'[d] = ChanFields
  BY <1>0, <1>1 DEF ChanType, ChanFields
<1>3. \A d \in Connections :
              /\ chan'[d].at = IF d = c THEN "waiting" ELSE chan[d].at
              /\ SameWork(d)
              /\ SameAwaits(d)
              /\ SameRevision(d)
              /\ SameSynced(d)
              /\ SameDisc(d)
              /\ chan'[d].unbind = IF d = c THEN "done" ELSE chan[d].unbind
              /\ chan'[d].closer = IF d = c THEN "off" ELSE chan[d].closer
  BY <1>0, <1>1 DEF ChanType, ChanFields, SameWork, SameAwaits, SameRevision, SameSynced, SameDisc
<1> QED
  BY <1>0, <1>2, <1>3 DEF ChanType, SameWork, SameAwaits, SameRevision, SameSynced, SameDisc, ChanPlaces

\* What CloseSession does to chan.
LEMMA CloseSessionChan ==
  ASSUME TypeInv, NEW c \in Connections, CloseSession(c)
  PROVE  /\ ChanType'
         /\ \A d \in Connections :
              /\ SamePlace(d)
              /\ SameWork(d)
              /\ SameAwaits(d)
              /\ SameRevision(d)
              /\ SameSynced(d)
              /\ SameDisc(d)
              /\ SameUnbind(d)
              /\ chan'[d].closer = IF d = c THEN "off" ELSE chan[d].closer
<1>0. ChanType
  BY DEF TypeInv, ParentType, ChildType, ChannelsType
<1>1. chan' = [chan EXCEPT ![c].closer = "off"]
  BY Zenon DEF CloseSession
<1>2. DOMAIN chan' = Connections /\ \A d \in Connections : DOMAIN chan'[d] = ChanFields
  BY <1>0, <1>1 DEF ChanType, ChanFields
<1>3. \A d \in Connections :
              /\ SamePlace(d)
              /\ SameWork(d)
              /\ SameAwaits(d)
              /\ SameRevision(d)
              /\ SameSynced(d)
              /\ SameDisc(d)
              /\ SameUnbind(d)
              /\ chan'[d].closer = IF d = c THEN "off" ELSE chan[d].closer
  BY <1>0, <1>1 DEF ChanType, ChanFields, SamePlace, SameWork, SameAwaits, SameRevision, SameSynced, SameDisc, SameUnbind
<1> QED
  BY <1>0, <1>2, <1>3 DEF ChanType, SamePlace, SameWork, SameAwaits, SameRevision, SameSynced, SameDisc, SameUnbind, ChanPlaces

\* What RequestClose does to chan.
LEMMA RequestCloseChan ==
  ASSUME TypeInv, NEW c \in Connections, RequestClose(c)
  PROVE  /\ ChanType'
         /\ \A d \in Connections :
              /\ SamePlace(d)
              /\ SameWork(d)
              /\ SameAwaits(d)
              /\ chan'[d].rev = IF d = c THEN chan[d].rev + 1 ELSE chan[d].rev
              /\ chan'[d].bound = chan[d].bound
              /\ (chan'[d].revoked <=> (chan[d].revoked \/ d = c))
              /\ SameSynced(d)
              /\ SameDisc(d)
              /\ SameUnbind(d)
              /\ chan'[d].closer = IF d = c THEN "asked" ELSE chan[d].closer
<1>0. ChanType
  BY DEF TypeInv, ParentType, ChildType, ChannelsType
<1>1. chan' = [chan EXCEPT ![c] = [chan[c] EXCEPT !.rev = @ + 1, !.revoked = TRUE, !.closer = "asked"]]
  BY Zenon DEF RequestClose
<1>2. DOMAIN chan' = Connections /\ \A d \in Connections : DOMAIN chan'[d] = ChanFields
  BY <1>0, <1>1 DEF ChanType, ChanFields
<1>3. \A d \in Connections :
              /\ SamePlace(d)
              /\ SameWork(d)
              /\ SameAwaits(d)
              /\ chan'[d].rev = IF d = c THEN chan[d].rev + 1 ELSE chan[d].rev
              /\ chan'[d].bound = chan[d].bound
              /\ (chan'[d].revoked <=> (chan[d].revoked \/ d = c))
              /\ SameSynced(d)
              /\ SameDisc(d)
              /\ SameUnbind(d)
              /\ chan'[d].closer = IF d = c THEN "asked" ELSE chan[d].closer
  BY <1>0, <1>1 DEF ChanType, ChanFields, SamePlace, SameWork, SameAwaits, SameSynced, SameDisc, SameUnbind
<1>4. \A d \in Connections : chan'[d].rev \in Nat
  BY <1>0, <1>3 DEF ChanType
<1>5. \A d \in Connections : chan'[d].revoked \in BOOLEAN
  BY <1>0, <1>1 DEF ChanType, ChanFields
<1> QED
  BY <1>0, <1>2, <1>4, <1>5, <1>3 DEF ChanType, SamePlace, SameWork, SameAwaits, SameSynced, SameDisc, SameUnbind, ChanPlaces

\* What PumpStopped does to chan.
LEMMA PumpStoppedChan ==
  ASSUME TypeInv, NEW c \in Connections, PumpStopped(c)
  PROVE  /\ ChanType'
         /\ \A d \in Connections :
              /\ chan'[d].at = IF d = c /\ chan[c].at = "pumpWait" THEN "unbinding" ELSE chan[d].at
              /\ SameWork(d)
              /\ SameAwaits(d)
              /\ SameRevision(d)
              /\ SameSynced(d)
              /\ SameDisc(d)
              /\ chan'[d].unbind = IF d = c /\ chan[c].at = "pumpWait" THEN "asked" ELSE chan[d].unbind
              /\ SameCloser(d)
<1>0. ChanType
  BY DEF TypeInv, ParentType, ChildType, ChannelsType
<1>1. chan' = IF chan[c].at = "pumpWait" THEN [chan EXCEPT ![c].at = "unbinding", ![c].unbind = "asked"] ELSE chan
  BY Zenon DEF PumpStopped
<1>2. DOMAIN chan' = Connections /\ \A d \in Connections : DOMAIN chan'[d] = ChanFields
  BY <1>0, <1>1 DEF ChanType, ChanFields
<1>3. \A d \in Connections :
              /\ chan'[d].at = IF d = c /\ chan[c].at = "pumpWait" THEN "unbinding" ELSE chan[d].at
              /\ SameWork(d)
              /\ SameAwaits(d)
              /\ SameRevision(d)
              /\ SameSynced(d)
              /\ SameDisc(d)
              /\ chan'[d].unbind = IF d = c /\ chan[c].at = "pumpWait" THEN "asked" ELSE chan[d].unbind
              /\ SameCloser(d)
  BY <1>0, <1>1 DEF ChanType, ChanFields, SameWork, SameAwaits, SameRevision, SameSynced, SameDisc, SameCloser
<1> QED
  BY <1>0, <1>2, <1>3 DEF ChanType, SameWork, SameAwaits, SameRevision, SameSynced, SameDisc, SameCloser, ChanPlaces

\* What EndSession does to chan.
LEMMA EndSessionChan ==
  ASSUME TypeInv, NEW c \in Connections, EndSession(c)
  PROVE  /\ ChanType'
         /\ \A d \in Connections :
              /\ chan'[d].at = IF d = c THEN "finalizing" ELSE chan[d].at
              /\ SameWork(d)
              /\ SameAwaits(d)
              /\ SameRevision(d)
              /\ SameSynced(d)
              /\ SameDisc(d)
              /\ SameUnbind(d)
              /\ SameCloser(d)
<1>0. ChanType
  BY DEF TypeInv, ParentType, ChildType, ChannelsType
<1>1. chan' = [chan EXCEPT ![c].at = "finalizing"]
  BY Zenon DEF EndSession
<1>2. DOMAIN chan' = Connections /\ \A d \in Connections : DOMAIN chan'[d] = ChanFields
  BY <1>0, <1>1 DEF ChanType, ChanFields
<1>3. \A d \in Connections :
              /\ chan'[d].at = IF d = c THEN "finalizing" ELSE chan[d].at
              /\ SameWork(d)
              /\ SameAwaits(d)
              /\ SameRevision(d)
              /\ SameSynced(d)
              /\ SameDisc(d)
              /\ SameUnbind(d)
              /\ SameCloser(d)
  BY <1>0, <1>1 DEF ChanType, ChanFields, SameWork, SameAwaits, SameRevision, SameSynced, SameDisc, SameUnbind, SameCloser
<1> QED
  BY <1>0, <1>2, <1>3 DEF ChanType, SameWork, SameAwaits, SameRevision, SameSynced, SameDisc, SameUnbind, SameCloser, ChanPlaces

\* What FinishConnection does to chan.
LEMMA FinishConnectionChan ==
  ASSUME TypeInv, NEW c \in Connections, FinishConnection(c)
  PROVE  /\ ChanType'
         /\ \A d \in Connections :
              /\ chan'[d].at = IF d = c THEN "gone" ELSE chan[d].at
              /\ chan'[d].current = IF d = c THEN 0 ELSE chan[d].current
              /\ chan'[d].inbox = IF d = c THEN <<>> ELSE chan[d].inbox
              /\ SameAwaits(d)
              /\ SameRevision(d)
              /\ SameSynced(d)
              /\ SameDisc(d)
              /\ SameUnbind(d)
              /\ SameCloser(d)
<1>0. ChanType
  BY DEF TypeInv, ParentType, ChildType, ChannelsType
<1>1. chan' = [chan EXCEPT ![c] = [@ EXCEPT !.at = "gone", !.current = 0, !.inbox = <<>>]]
  BY Zenon DEF FinishConnection
<1>2. DOMAIN chan' = Connections /\ \A d \in Connections : DOMAIN chan'[d] = ChanFields
  BY <1>0, <1>1 DEF ChanType, ChanFields
<1>3. \A d \in Connections :
              /\ chan'[d].at = IF d = c THEN "gone" ELSE chan[d].at
              /\ chan'[d].current = IF d = c THEN 0 ELSE chan[d].current
              /\ chan'[d].inbox = IF d = c THEN <<>> ELSE chan[d].inbox
              /\ SameAwaits(d)
              /\ SameRevision(d)
              /\ SameSynced(d)
              /\ SameDisc(d)
              /\ SameUnbind(d)
              /\ SameCloser(d)
  BY <1>0, <1>1 DEF ChanType, ChanFields, SameAwaits, SameRevision, SameSynced, SameDisc, SameUnbind, SameCloser
<1>4. <<>> \in Seq(Nat) /\ \A d \in Connections : chan[d].inbox \in Seq(Nat)
  BY <1>0 DEF ChanType
<1>5. \A d \in Connections : chan'[d].inbox \in Seq(Nat)
  BY <1>3, <1>4, Zenon
<1>6. \A d \in Connections : chan'[d].current \in Nat
  BY <1>0, <1>3 DEF ChanType
<1> QED
  BY <1>0, <1>2, <1>4, <1>5, <1>6, <1>3 DEF ChanType, SameAwaits, SameRevision, SameSynced, SameDisc, SameUnbind, SameCloser, ChanPlaces

\* What MessageSent does to chan.
LEMMA MessageSentChan ==
  ASSUME TypeInv, NEW c \in Connections, MessageSent(c)
  PROVE  /\ ChanType'
         /\ \A d \in Connections :
              /\ chan'[d].at = IF d = c THEN "receive" ELSE chan[d].at
              /\ chan'[d].current = IF d = c THEN 0 ELSE chan[d].current
              /\ chan'[d].inbox = chan[d].inbox
              /\ SameAwaits(d)
              /\ SameRevision(d)
              /\ SameSynced(d)
              /\ SameDisc(d)
              /\ SameUnbind(d)
              /\ SameCloser(d)
<1>0. ChanType
  BY DEF TypeInv, ParentType, ChildType, ChannelsType
<1>1. chan' = [chan EXCEPT ![c] = [@ EXCEPT !.at = "receive", !.current = 0]]
  BY Zenon DEF MessageSent
<1>2. DOMAIN chan' = Connections /\ \A d \in Connections : DOMAIN chan'[d] = ChanFields
  BY <1>0, <1>1 DEF ChanType, ChanFields
<1>3. \A d \in Connections :
              /\ chan'[d].at = IF d = c THEN "receive" ELSE chan[d].at
              /\ chan'[d].current = IF d = c THEN 0 ELSE chan[d].current
              /\ chan'[d].inbox = chan[d].inbox
              /\ SameAwaits(d)
              /\ SameRevision(d)
              /\ SameSynced(d)
              /\ SameDisc(d)
              /\ SameUnbind(d)
              /\ SameCloser(d)
  BY <1>0, <1>1 DEF ChanType, ChanFields, SameAwaits, SameRevision, SameSynced, SameDisc, SameUnbind, SameCloser
<1>4. \A d \in Connections : chan'[d].current \in Nat
  BY <1>0, <1>3 DEF ChanType
<1> QED
  BY <1>0, <1>2, <1>4, <1>3 DEF ChanType, SameAwaits, SameRevision, SameSynced, SameDisc, SameUnbind, SameCloser, ChanPlaces

\* What MessageLost does to chan.
LEMMA MessageLostChan ==
  ASSUME TypeInv, NEW c \in Connections, MessageLost(c)
  PROVE  /\ ChanType'
         /\ \A d \in Connections :
              /\ chan'[d].at = IF d = c THEN IF pump[c] = "off" THEN "unbinding" ELSE "pumpWait" ELSE chan[d].at
              /\ SameWork(d)
              /\ SameAwaits(d)
              /\ SameRevision(d)
              /\ SameSynced(d)
              /\ SameDisc(d)
              /\ (d = c \/ SameUnbind(d))
              /\ SameCloser(d)
<1>0. ChanType
  BY DEF TypeInv, ParentType, ChildType, ChannelsType
<1>1. chan' = [chan EXCEPT ![c] = Finally(c, chan[c])]
  BY Zenon DEF MessageLost
<1>2. DOMAIN chan' = Connections /\ \A d \in Connections : DOMAIN chan'[d] = ChanFields
  BY <1>0, <1>1 DEF ChanType, ChanFields, Finally, SameUnbind
<1>3. \A d \in Connections :
              /\ chan'[d].at = IF d = c THEN IF pump[c] = "off" THEN "unbinding" ELSE "pumpWait" ELSE chan[d].at
              /\ SameWork(d)
              /\ SameAwaits(d)
              /\ SameRevision(d)
              /\ SameSynced(d)
              /\ SameDisc(d)
              /\ (d = c \/ SameUnbind(d))
              /\ SameCloser(d)
  BY <1>0, <1>1 DEF ChanType, ChanFields, SameWork, SameAwaits, SameRevision, SameSynced, SameDisc, SameCloser, Finally, SameUnbind
<1> QED
  BY <1>0, <1>2, <1>3 DEF ChanType, SameWork, SameAwaits, SameRevision, SameSynced, SameDisc, SameCloser, ChanPlaces

\* What RevokedOver does to chan.
LEMMA RevokedOverChan ==
  ASSUME TypeInv, NEW c \in Connections, NEW sent, RevokedOver(c, sent)
  PROVE  /\ ChanType'
         /\ \A d \in Connections :
              /\ SamePlace(d)
              /\ SameWork(d)
              /\ SameAwaits(d)
              /\ SameRevision(d)
              /\ SameSynced(d)
              /\ SameDisc(d)
              /\ SameUnbind(d)
              /\ chan'[d].closer = IF d = c THEN IF sent THEN "told" ELSE "off" ELSE chan[d].closer
<1>0. ChanType
  BY DEF TypeInv, ParentType, ChildType, ChannelsType
<1>1. chan' = [chan EXCEPT ![c].closer = IF sent THEN "told" ELSE "off"]
  BY Zenon DEF RevokedOver
<1>2. DOMAIN chan' = Connections /\ \A d \in Connections : DOMAIN chan'[d] = ChanFields
  BY <1>0, <1>1 DEF ChanType, ChanFields
<1>3. \A d \in Connections :
              /\ SamePlace(d)
              /\ SameWork(d)
              /\ SameAwaits(d)
              /\ SameRevision(d)
              /\ SameSynced(d)
              /\ SameDisc(d)
              /\ SameUnbind(d)
              /\ chan'[d].closer = IF d = c THEN IF sent THEN "told" ELSE "off" ELSE chan[d].closer
  BY <1>0, <1>1 DEF ChanType, ChanFields, SamePlace, SameWork, SameAwaits, SameRevision, SameSynced, SameDisc, SameUnbind
<1> QED
  BY <1>0, <1>2, <1>3 DEF ChanType, SamePlace, SameWork, SameAwaits, SameRevision, SameSynced, SameDisc, SameUnbind, ChanPlaces

\* What CancelLoop does to chan.
LEMMA CancelLoopChan ==
  ASSUME TypeInv, NEW c \in Connections, CancelLoop(c, [chan[c] EXCEPT !.disconnecting = TRUE])
  PROVE  /\ ChanType'
         /\ \A d \in Connections :
              /\ chan'[d].at = IF d = c THEN IF pump[c] = "off" THEN "unbinding" ELSE "pumpWait" ELSE chan[d].at
              /\ SameWork(d)
              /\ SameAwaits(d)
              /\ SameRevision(d)
              /\ SameSynced(d)
              /\ (chan'[d].disconnecting <=> (chan[d].disconnecting \/ d = c))
              /\ (d = c \/ SameUnbind(d))
              /\ SameCloser(d)
<1>0. ChanType
  BY DEF TypeInv, ParentType, ChildType, ChannelsType
<1>1. chan' = [chan EXCEPT ![c] = Finally(c, [chan[c] EXCEPT !.disconnecting = TRUE])]
  BY Zenon DEF CancelLoop
<1>2. DOMAIN chan' = Connections /\ \A d \in Connections : DOMAIN chan'[d] = ChanFields
  BY <1>0, <1>1 DEF ChanType, ChanFields, Finally, SameUnbind
<1>3. \A d \in Connections :
              /\ chan'[d].at = IF d = c THEN IF pump[c] = "off" THEN "unbinding" ELSE "pumpWait" ELSE chan[d].at
              /\ SameWork(d)
              /\ SameAwaits(d)
              /\ SameRevision(d)
              /\ SameSynced(d)
              /\ (chan'[d].disconnecting <=> (chan[d].disconnecting \/ d = c))
              /\ (d = c \/ SameUnbind(d))
              /\ SameCloser(d)
  BY <1>0, <1>1 DEF ChanType, ChanFields, SameWork, SameAwaits, SameRevision, SameSynced, SameCloser, Finally, SameUnbind
<1> QED
  BY <1>0, <1>2, <1>3 DEF ChanType, SameWork, SameAwaits, SameRevision, SameSynced, SameCloser, ChanPlaces

\* What CancelSync does to chan.
LEMMA CancelSyncChan ==
  ASSUME TypeInv, NEW c \in Connections, CancelSync(c, [chan[c] EXCEPT !.disconnecting = TRUE])
  PROVE  /\ ChanType'
         /\ \A d \in Connections :
              /\ chan'[d].at = IF d = c THEN IF pump[c] = "off" THEN "unbinding" ELSE "pumpWait" ELSE chan[d].at
              /\ SameWork(d)
              /\ SameAwaits(d)
              /\ SameRevision(d)
              /\ chan'[d].synced = chan[d].synced
              /\ (chan'[d].syncLost <=> (chan[d].syncLost \/ (d = c /\ Before(c, chan[c].awaits) # syncs[c])))
              /\ (chan'[d].disconnecting <=> (chan[d].disconnecting \/ d = c))
              /\ (d = c \/ SameUnbind(d))
              /\ SameCloser(d)
<1>0. ChanType
  BY DEF TypeInv, ParentType, ChildType, ChannelsType
<1>1. chan' = [chan EXCEPT ![c] = [Finally(c, [chan[c] EXCEPT !.disconnecting = TRUE]) EXCEPT !.syncLost = @ \/ Before(c, chan[c].awaits) # syncs[c]]]
  BY Zenon DEF CancelSync, CancelPublication
<1>2. DOMAIN chan' = Connections /\ \A d \in Connections : DOMAIN chan'[d] = ChanFields
  BY <1>0, <1>1 DEF ChanType, ChanFields, Finally, SameUnbind
<1>3. \A d \in Connections :
              /\ chan'[d].at = IF d = c THEN IF pump[c] = "off" THEN "unbinding" ELSE "pumpWait" ELSE chan[d].at
              /\ SameWork(d)
              /\ SameAwaits(d)
              /\ SameRevision(d)
              /\ chan'[d].synced = chan[d].synced
              /\ (chan'[d].syncLost <=> (chan[d].syncLost \/ (d = c /\ Before(c, chan[c].awaits) # syncs[c])))
              /\ (chan'[d].disconnecting <=> (chan[d].disconnecting \/ d = c))
              /\ (d = c \/ SameUnbind(d))
              /\ SameCloser(d)
  BY <1>0, <1>1 DEF ChanType, ChanFields, SameWork, SameAwaits, SameRevision, SameCloser, Finally, SameUnbind
<1> QED
  BY <1>0, <1>2, <1>3 DEF ChanType, SameWork, SameAwaits, SameRevision, SameCloser, ChanPlaces

\* What CancelUnbind does to chan.
LEMMA CancelUnbindChan ==
  ASSUME TypeInv, NEW c \in Connections, CancelUnbind(c, [chan[c] EXCEPT !.disconnecting = TRUE])
  PROVE  /\ ChanType'
         /\ \A d \in Connections :
              /\ chan'[d].at = IF d = c THEN "waiting" ELSE chan[d].at
              /\ SameWork(d)
              /\ SameAwaits(d)
              /\ SameRevision(d)
              /\ SameSynced(d)
              /\ (chan'[d].disconnecting <=> (chan[d].disconnecting \/ d = c))
              /\ SameUnbind(d)
              /\ chan'[d].closer = IF d = c THEN "off" ELSE chan[d].closer
<1>0. ChanType
  BY DEF TypeInv, ParentType, ChildType, ChannelsType
<1>1. chan' = [chan EXCEPT ![c] = [[chan[c] EXCEPT !.disconnecting = TRUE] EXCEPT !.at = "waiting", !.closer = "off"]]
  BY Zenon DEF CancelUnbind
<1>2. DOMAIN chan' = Connections /\ \A d \in Connections : DOMAIN chan'[d] = ChanFields
  BY <1>0, <1>1 DEF ChanType, ChanFields
<1>3. \A d \in Connections :
              /\ chan'[d].at = IF d = c THEN "waiting" ELSE chan[d].at
              /\ SameWork(d)
              /\ SameAwaits(d)
              /\ SameRevision(d)
              /\ SameSynced(d)
              /\ (chan'[d].disconnecting <=> (chan[d].disconnecting \/ d = c))
              /\ SameUnbind(d)
              /\ chan'[d].closer = IF d = c THEN "off" ELSE chan[d].closer
  BY <1>0, <1>1 DEF ChanType, ChanFields, SameWork, SameAwaits, SameRevision, SameSynced, SameUnbind
<1> QED
  BY <1>0, <1>2, <1>3 DEF ChanType, SameWork, SameAwaits, SameRevision, SameSynced, SameUnbind, ChanPlaces

\* What CancelPumpWait does to chan.
LEMMA CancelPumpWaitChan ==
  ASSUME TypeInv, NEW c \in Connections, CancelPumpWait(c, [chan[c] EXCEPT !.disconnecting = TRUE])
  PROVE  /\ ChanType'
         /\ \A d \in Connections :
              /\ chan'[d].at = IF d = c THEN "finalizing" ELSE chan[d].at
              /\ SameWork(d)
              /\ SameAwaits(d)
              /\ SameRevision(d)
              /\ SameSynced(d)
              /\ (chan'[d].disconnecting <=> (chan[d].disconnecting \/ d = c))
              /\ SameUnbind(d)
              /\ SameCloser(d)
<1>0. ChanType
  BY DEF TypeInv, ParentType, ChildType, ChannelsType
<1>1. chan' = [chan EXCEPT ![c] = [[chan[c] EXCEPT !.disconnecting = TRUE] EXCEPT !.at = "finalizing"]]
  BY Zenon DEF CancelPumpWait
<1>2. DOMAIN chan' = Connections /\ \A d \in Connections : DOMAIN chan'[d] = ChanFields
  BY <1>0, <1>1 DEF ChanType, ChanFields
<1>3. \A d \in Connections :
              /\ chan'[d].at = IF d = c THEN "finalizing" ELSE chan[d].at
              /\ SameWork(d)
              /\ SameAwaits(d)
              /\ SameRevision(d)
              /\ SameSynced(d)
              /\ (chan'[d].disconnecting <=> (chan[d].disconnecting \/ d = c))
              /\ SameUnbind(d)
              /\ SameCloser(d)
  BY <1>0, <1>1 DEF ChanType, ChanFields, SameWork, SameAwaits, SameRevision, SameSynced, SameUnbind, SameCloser
<1> QED
  BY <1>0, <1>2, <1>3 DEF ChanType, SameWork, SameAwaits, SameRevision, SameSynced, SameUnbind, SameCloser, ChanPlaces

\* What CancelPublication does to chan.
LEMMA CancelPublicationChan ==
  ASSUME TypeInv, NEW c \in Connections, NEW n, CancelPublication(c, n, [[chan[c] EXCEPT !.disconnecting = TRUE] EXCEPT !.at = "finalizing"])
  PROVE  /\ ChanType'
         /\ \A d \in Connections :
              /\ chan'[d].at = IF d = c THEN "finalizing" ELSE chan[d].at
              /\ SameWork(d)
              /\ SameAwaits(d)
              /\ SameRevision(d)
              /\ chan'[d].synced = chan[d].synced
              /\ (chan'[d].syncLost <=> (chan[d].syncLost \/ (d = c /\ Before(c, n) # syncs[c])))
              /\ (chan'[d].disconnecting <=> (chan[d].disconnecting \/ d = c))
              /\ SameUnbind(d)
              /\ SameCloser(d)
<1>0. ChanType
  BY DEF TypeInv, ParentType, ChildType, ChannelsType
<1>1. chan' = [chan EXCEPT ![c] = [[[chan[c] EXCEPT !.disconnecting = TRUE] EXCEPT !.at = "finalizing"] EXCEPT !.syncLost = @ \/ Before(c, n) # syncs[c]]]
  BY Zenon DEF CancelPublication
<1>2. DOMAIN chan' = Connections /\ \A d \in Connections : DOMAIN chan'[d] = ChanFields
  BY <1>0, <1>1 DEF ChanType, ChanFields
<1>3. \A d \in Connections :
              /\ chan'[d].at = IF d = c THEN "finalizing" ELSE chan[d].at
              /\ SameWork(d)
              /\ SameAwaits(d)
              /\ SameRevision(d)
              /\ chan'[d].synced = chan[d].synced
              /\ (chan'[d].syncLost <=> (chan[d].syncLost \/ (d = c /\ Before(c, n) # syncs[c])))
              /\ (chan'[d].disconnecting <=> (chan[d].disconnecting \/ d = c))
              /\ SameUnbind(d)
              /\ SameCloser(d)
  BY <1>0, <1>1 DEF ChanType, ChanFields, SameWork, SameAwaits, SameRevision, SameUnbind, SameCloser
<1> QED
  BY <1>0, <1>2, <1>3 DEF ChanType, SameWork, SameAwaits, SameRevision, SameUnbind, SameCloser, ChanPlaces

\* A send task goes to another stage, and stays the same otherwise.
Kept(s, t) ==
    /\ t.id = s.id /\ t.c = s.c /\ t.kind = s.kind /\ t.rev = s.rev /\ t.q = s.q /\ t.seq = s.seq
\* A message of the wire is one of the sends, in the stage it is in.
LEMMA SendStage ==
  ASSUME NEW s \in Send, NEW place \in Stages
  PROVE  LET t == [s EXCEPT !.at = place] IN t \in Send /\ t.at = place /\ Kept(s, t)
<1>1. [s EXCEPT !.at = place] \in Send
  BY DEF Send
<1>2. [s EXCEPT !.at = place].at = place /\ Kept(s, [s EXCEPT !.at = place])
  BY DEF Send, Kept
<1> QED
  BY <1>1, <1>2

\* The sends of cancelled connections: each stays, or has failed.
LEMMA CancelledSends ==
  ASSUME sends \in SUBSET Send, NEW S
  PROVE  /\ Cancelled(S) \in SUBSET Send
         /\ \A t \in Cancelled(S) : \E s \in sends :
              t = s \/ (t.at = "failed" /\ Kept(s, t) /\ s.c \in S)
<1>1. ASSUME NEW t \in Cancelled(S)
      PROVE  t \in Send /\ \E s \in sends : t = s \/ (t.at = "failed" /\ Kept(s, t) /\ s.c \in S)
  <2>1. PICK s \in sends : t = IF s.c \in S /\ s.at \in {"waiting", "sending"}
                               THEN [s EXCEPT !.at = "failed"] ELSE s
    BY <1>1 DEF Cancelled
  <2>2. s \in Send /\ "failed" \in Stages
    BY DEF Stages
  <2> QED
    BY <2>1, <2>2, SendStage
<1> QED
  BY <1>1

\* Submit queues one command with the next number.
NewCommand(op, c, q, rev) == [op |-> op, seq |-> sequence + 1, c |-> c, q |-> q, rev |-> rev]
\* Submit leaves every variable of its side in its type.
LEMMA SubmitTypes ==
  ASSUME TypeInv, NEW c \in Connections, NEW op, NEW q, NEW rev \in Nat,
         \/ op = "enqueue" /\ q \in RequestIds
         \/ op \in {"connect", "envelope"} /\ q = "none",
         Submit(op, c, q, rev)
  PROVE  /\ commands' \in Seq(Command) /\ sequence' \in Nat
         /\ pending' \in SUBSET [seq : Nat, op : {"connect", "envelope", "enqueue"}, c : Connections]
         /\ commands' = Append(commands, NewCommand(op, c, q, rev)) /\ sequence' = sequence + 1
         /\ NewCommand(op, c, q, rev) \in Command
<1>1. sequence \in Nat /\ commands \in Seq(Command)
  BY DEF TypeInv, ChannelsType, ParentType
<1>2. NewCommand(op, c, q, rev) \in Command
  BY <1>1 DEF NewCommand, Command
<1>3. commands' = Append(commands, NewCommand(op, c, q, rev)) /\ sequence' = sequence + 1
  BY DEF Submit, NewCommand
<1>4. pending' \in SUBSET [seq : Nat, op : {"connect", "envelope", "enqueue"}, c : Connections]
  BY <1>1 DEF Submit, TypeInv, ParentType
<1> QED
  BY <1>1, <1>2, <1>3, <1>4

\* Reports are appended to the results.
LEMMA EmitTypes ==
  ASSUME TypeInv, NEW reports \in Seq(Result), Emit(reports)
  PROVE  results' = results \o reports /\ results' \in Seq(Result)
<1>1. results \in Seq(Result)
  BY DEF TypeInv, ChannelsType
<1> QED
  BY <1>1 DEF Emit

\* One report is appended to the results.
LEMMA EmitOneTypes ==
  ASSUME TypeInv, NEW r \in Result, Emit(<<r>>)
  PROVE  results' = results \o <<r>> /\ results' \in Seq(Result)
<1>1. <<r>> \in Seq(Result)
  OBVIOUS
<1> QED
  BY <1>1, EmitTypes

\* Variables that an action leaves alone keep their types.
LEMMA SameTypes ==
  ASSUME TypeInv
  PROVE  /\ conn' = conn => ConnType'
         /\ worker' = worker => WorkerType'
         /\ chan' = chan => ChanType'
         /\ UNCHANGED childVars => ChildType'
<1>1. ConnType /\ WorkerType /\ ChanType
  BY DEF TypeInv, ParentType, ChildType
<1>2. conn' = conn => ConnType'
  BY <1>1 DEF ConnType
<1>3. worker' = worker => WorkerType'
  BY <1>1 DEF WorkerType
<1>4. chan' = chan => ChanType'
  BY <1>1 DEF ChanType
<1> QED
  BY <1>2, <1>3, <1>4 DEF TypeInv, ChildType, childVars, sessionVars

\* Connect leaves every variable of its side in its type.
LEMMA ConnectTypes ==
  ASSUME TypeInv, NEW c \in Connections, Connect(c)
  PROVE  ChannelsType' /\ ParentType'
<1>1. UNCHANGED <<frames, running, barriers, sends, wire, failure, readers, closing, childAlive, controls, results, notifications, credit>>
  BY DEF Connect
<1>2. commands' \in Seq(Command) /\ sequence' \in Nat
      /\ pending' \in SUBSET [seq : Nat, op : {"connect", "envelope", "enqueue"}, c : Connections]
  <2>1. CASE Admits(c)
    <3>1. Submit("connect", c, "none", 0)
      BY <2>1, Zenon DEF Connect, Admits
    <3> QED
      BY <3>1, SubmitTypes
  <2>2. CASE ~Admits(c)
    <3>1. UNCHANGED <<commands, pending, sequence>>
      BY <2>2, Zenon DEF Connect, Admits
    <3> QED
      BY <3>1 DEF TypeInv, ChannelsType, ParentType
  <2> QED
    BY <2>1, <2>2
<1> QED
  BY <1>1, <1>2, ConnectConn, ConnectWorker DEF TypeInv, ChannelsType, ParentType

\* SendEnvelope leaves every variable of its side in its type.
LEMMA SendEnvelopeTypes ==
  ASSUME TypeInv, NEW c \in Connections, SendEnvelope(c)
  PROVE  ChannelsType' /\ ParentType'
<1>1. UNCHANGED <<running, sends, wire, failure, readers, closing, childAlive, controls, results, notifications, credit>>
  BY DEF SendEnvelope
<1>2. /\ commands' \in Seq(Command) /\ sequence' \in Nat
      /\ pending' \in SUBSET [seq : Nat, op : {"connect", "envelope", "enqueue"}, c : Connections]
      /\ barriers' \in SUBSET (Connections \X Nat)
  <2> DEFINE taken == ~conn[c].closed /\ Table < Capacity /\ MaySubmit
  <2>1. CASE taken
    <3>1. Submit("envelope", c, "none", 0) /\ barriers' = barriers \cup {<<c, sequence + 1>>}
      BY <2>1, Zenon DEF SendEnvelope
    <3>2. sequence \in Nat /\ barriers \in SUBSET (Connections \X Nat)
      BY DEF TypeInv, ParentType
    <3> QED
      BY <3>1, <3>2, SubmitTypes
  <2>2. CASE ~taken
    <3>1. UNCHANGED <<commands, pending, sequence, barriers>>
      BY <2>2, Zenon DEF SendEnvelope
    <3> QED
      BY <3>1 DEF TypeInv, ChannelsType, ParentType
  <2> QED
    BY <2>1, <2>2
<1>3. frames' \in [Connections -> Nat]
  BY DEF SendEnvelope, TypeInv, ParentType
<1> QED
  BY <1>1, <1>2, <1>3, SendEnvelopeConn, SendEnvelopeWorker DEF TypeInv, ChannelsType, ParentType

\* TakeRequest leaves every variable of its side in its type.
LEMMA TakeRequestTypes ==
  ASSUME TypeInv, NEW c \in Connections, NEW q \in RequestIds, TakeRequest(c, q)
  PROVE  ChannelsType' /\ ParentType'
<1>1. UNCHANGED <<sequence, conn, tableVars, wire, failure, readers, closing, childAlive, queues, credit>>
  BY DEF TakeRequest
<1>2. frames' \in [Connections -> Nat]
  BY DEF TakeRequest, TypeInv, ParentType
<1> QED
  BY <1>1, <1>2, SameTypes, TakeRequestWorker DEF TypeInv, ChannelsType, ParentType, tableVars, queues

\* EndWorker leaves every variable of its side in its type.
LEMMA EndWorkerTypes ==
  ASSUME TypeInv, NEW c \in Connections, EndWorker(c)
  PROVE  ChannelsType' /\ ParentType'
<1>1. UNCHANGED <<sequence, frames, running, barriers, wire, failure, readers, closing, childAlive, queues, credit>>
      /\ pending' = pending
  BY DEF EndWorker, AfterCancel
<1>2. sends' \in SUBSET sends
  BY DEF EndWorker
<1>3. sends' \in SUBSET Send
  BY <1>2 DEF TypeInv, ParentType
<1> QED
  BY <1>1, <1>3, EndWorkerConn, EndWorkerWorker DEF TypeInv, ChannelsType, ParentType, queues

\* ClientLost leaves every variable of its side in its type.
LEMMA ClientLostTypes ==
  ASSUME TypeInv, NEW c \in Connections, ClientLost(c)
  PROVE  ChannelsType' /\ ParentType'
<1>1. UNCHANGED <<sequence, worker, frames, tableVars, wire, failure, readers, closing, childAlive, queues, credit>>
  BY DEF ClientLost
<1> QED
  BY <1>1, SameTypes, ClientLostConn DEF TypeInv, ChannelsType, ParentType, tableVars, queues

\* No request keeps its entry.
LEMMA ClearedTypes ==
  ASSUME TypeInv, NEW S
  PROVE  Cleared(S) \in [Connections -> [RequestIds -> Entry]]
<1>1. None \in Entry
  BY DEF None, Entry
<1> QED
  BY <1>1 DEF Cleared, TypeInv, ParentType

\* A permit is used only when there is one.
LEMMA EnqueueTypes ==
  ASSUME TypeInv, NEW c \in Connections, Enqueue(c)
  PROVE  ChannelsType' /\ ParentType'
<1>1. UNCHANGED <<frames, barriers, wire, failure, readers, closing, childAlive, controls, results, notifications>>
  BY DEF Enqueue
<1>2. /\ sequence \in Nat /\ credit \in Nat /\ worker[c].q \in RequestIds /\ conn[c].rev \in Nat
      /\ frames[c] \in Nat /\ sends \in SUBSET Send
      /\ running \in [Connections -> [RequestIds -> Entry]]
  BY DEF Enqueue, TypeInv, ChannelsType, ParentType, WorkerType, ConnType
<1> DEFINE q == worker[c].q
           admit == /\ running[c][q] = None /\ Table < Capacity
                    /\ conn[c].bound /\ ~conn[c].revoked
                    /\ credit > 0 /\ MaySubmit
           n == IF admit THEN sequence + 1 ELSE 0
           entry == [seq |-> n, rev |-> conn[c].rev, acked |-> FALSE, terminal |-> FALSE]
           admission == [id |-> <<c, "admission", frames[c]>>, c |-> c, kind |-> "admission",
                         rev |-> conn[c].rev, q |-> q, seq |-> n, at |-> "waiting"]
<1>3. /\ commands' \in Seq(Command) /\ sequence' \in Nat /\ credit' \in Nat
      /\ pending' \in SUBSET [seq : Nat, op : {"connect", "envelope", "enqueue"}, c : Connections]
      /\ running' \in [Connections -> [RequestIds -> Entry]]
  <2>1. CASE ~conn[c].broken /\ admit
    <3>1. /\ Submit("enqueue", c, q, conn[c].rev) /\ credit' = credit - 1 /\ credit > 0
          /\ running' = [running EXCEPT ![c][q] = entry]
      BY <2>1, Zenon DEF Enqueue
    <3>2. entry \in Entry
      BY <1>2 DEF Entry
    <3>3. running' \in [Connections -> [RequestIds -> Entry]]
      <4> HIDE DEF entry
      <4> QED
        BY <1>2, <3>1, <3>2
    <3>4. credit' \in Nat
      BY <1>2, <3>1
    <3> QED
      BY <1>2, <3>1, <3>3, <3>4, SubmitTypes
  <2>2. CASE conn[c].broken \/ ~admit
    <3>1. UNCHANGED <<commands, pending, sequence, running, credit>>
      BY <2>2, Zenon DEF Enqueue
    <3> QED
      BY <3>1 DEF TypeInv, ChannelsType, ParentType
  <2> QED
    BY <2>1, <2>2
<1>4. sends' \in SUBSET Send
  <2>1. sends' = sends \/ sends' = sends \cup {admission}
    BY Zenon DEF Enqueue
  <2>2. n \in Nat /\ <<c, "admission", frames[c]>> \in Ids /\ "waiting" \in Stages
    BY <1>2 DEF Ids, Stages
  <2>3. admission \in Send
    <3> HIDE DEF n
    <3> QED
      BY <1>2, <2>2, Zenon DEF Send
  <2> HIDE DEF admission
  <2> QED
    BY <1>2, <2>1, <2>3
<1> QED
  BY <1>1, <1>3, <1>4, EnqueueConn, EnqueueWorker DEF TypeInv, ChannelsType, ParentType

\* Admitted leaves every variable of its side in its type.
LEMMA AdmittedTypes ==
  ASSUME TypeInv, NEW c \in Connections, Admitted(c)
  PROVE  ChannelsType' /\ ParentType'
<1>1. UNCHANGED <<sequence, frames, pending, barriers, wire, failure, readers, closing, childAlive, queues, credit>>
  BY DEF Admitted
<1>2. PICK s \in sends :
         /\ s.kind = "admission" /\ sends' = sends \ {s}
         /\ \/ running' = running
            \/ running' = [running EXCEPT ![c][s.q] =
                              IF @.terminal THEN None ELSE [@ EXCEPT !.acked = TRUE]]
  BY Zenon DEF Admitted
<1>3. sends \in SUBSET Send /\ running \in [Connections -> [RequestIds -> Entry]]
  BY DEF TypeInv, ParentType
<1>4. s.q \in RequestIds
  BY <1>2, <1>3 DEF Send
<1>5. None \in Entry /\ \A e \in Entry : [e EXCEPT !.acked = TRUE] \in Entry
  BY DEF None, Entry
<1>6. running' \in [Connections -> [RequestIds -> Entry]]
  BY <1>2, <1>3, <1>4, <1>5
<1>7. sends' \in SUBSET Send
  BY <1>2, <1>3
<1> QED
  BY <1>1, <1>6, <1>7, AdmittedConn, AdmittedWorker DEF TypeInv, ChannelsType, ParentType, queues

\* DisconnectStart leaves every variable of its side in its type.
LEMMA DisconnectStartTypes ==
  ASSUME TypeInv, NEW c \in Connections, DisconnectStart(c)
  PROVE  ChannelsType' /\ ParentType'
<1>1. UNCHANGED <<sequence, worker, frames, pending, running, barriers, wire, failure, readers, closing, childAlive>>
      /\ UNCHANGED <<commands, results, notifications, credit>> /\ sends' = Cancelled({c})
  BY DEF DisconnectStart
<1>2. conn[c].start \in Nat /\ controls \in Seq(ControlMsg) /\ sends \in SUBSET Send
  BY DEF TypeInv, ChannelsType, ParentType, ConnType
<1>3. controls' \in Seq(ControlMsg)
  <2>1. [kind |-> "disconnect", c |-> c, seq |-> conn[c].start] \in ControlMsg
    BY <1>2 DEF ControlMsg
  <2>2. \/ controls' = controls
        \/ controls' = Append(controls, [kind |-> "disconnect", c |-> c, seq |-> conn[c].start])
    BY Zenon DEF DisconnectStart
  <2> QED
    BY <1>2, <2>1, <2>2
<1> QED
  BY <1>1, <1>2, <1>3, SameTypes, CancelledSends, DisconnectStartConn DEF TypeInv, ChannelsType, ParentType

\* DisconnectEnd leaves every variable of its side in its type.
LEMMA DisconnectEndTypes ==
  ASSUME TypeInv, NEW c \in Connections, DisconnectEnd(c)
  PROVE  ChannelsType' /\ ParentType'
<1>1. UNCHANGED <<sequence, frames, pending, barriers, sends, wire, failure, readers, closing, childAlive, queues, credit>>
      /\ running' = Cleared({c})
  BY DEF DisconnectEnd
<1> QED
  BY <1>1, ClearedTypes, DisconnectEndConn, DisconnectEndWorker DEF TypeInv, ChannelsType, ParentType, queues

\* The writing of a message: its send goes to another stage.
LEMMA BeginWriteTypes ==
  ASSUME TypeInv, NEW s \in sends, BeginWrite(s)
  PROVE  /\ ChannelsType' /\ ParentType'
         /\ \E place \in {"sending", "failed"} : sends' = (sends \ {s}) \cup {[s EXCEPT !.at = place]}
<1>1. UNCHANGED <<sequence, connVars, pending, running, barriers, wire, failure, readers, closing, childAlive, queues, credit>>
  BY DEF BeginWrite
<1>2. \E place \in {"sending", "failed"} : sends' = (sends \ {s}) \cup {[s EXCEPT !.at = place]}
  BY Zenon DEF BeginWrite
<1>3. sends \in SUBSET Send /\ {"sending", "failed"} \subseteq Stages
  BY DEF TypeInv, ParentType, Stages
<1>4. sends' \in SUBSET Send
  BY <1>2, <1>3, SendStage
<1> QED
  BY <1>1, <1>2, <1>4, SameTypes DEF TypeInv, ChannelsType, ParentType, queues, connVars

\* Write leaves every variable of its side in its type.
LEMMA WriteTypes ==
  ASSUME TypeInv, NEW s \in sends, Write(s)
  PROVE  /\ ChannelsType' /\ ParentType'
         /\ \E place \in {"sent", "failed"} : sends' = (sends \ {s}) \cup {[s EXCEPT !.at = place]}
         /\ \/ wire' = wire
            \/ wire' = [wire EXCEPT ![s.c] = Append(@, [kind |-> s.kind, seq |-> s.seq, rev |-> s.rev])]
<1>1. UNCHANGED <<sequence, connVars, pending, running, barriers, failure, readers, closing, childAlive, queues, credit>>
  BY DEF Write
<1>2. \E place \in {"sent", "failed"} : sends' = (sends \ {s}) \cup {[s EXCEPT !.at = place]}
  BY Zenon DEF Write
<1>3. sends \in SUBSET Send /\ {"sent", "failed"} \subseteq Stages /\ wire \in [Connections -> Seq(Written)]
  BY DEF TypeInv, ParentType, Stages
<1>4. sends' \in SUBSET Send
  BY <1>2, <1>3, SendStage
<1>5. \/ wire' = wire
      \/ wire' = [wire EXCEPT ![s.c] = Append(@, [kind |-> s.kind, seq |-> s.seq, rev |-> s.rev])]
  BY Zenon DEF Write
<1>6. s.c \in Connections /\ [kind |-> s.kind, seq |-> s.seq, rev |-> s.rev] \in Written
  BY <1>3 DEF Send, Written
<1>7. wire' \in [Connections -> Seq(Written)]
  <2> DEFINE out == [kind |-> s.kind, seq |-> s.seq, rev |-> s.rev]
  <2>1. Append(wire[s.c], out) \in Seq(Written)
    <3>1. out \in Written /\ wire[s.c] \in Seq(Written)
      BY <1>3, <1>6
    <3> HIDE DEF out
    <3> QED
      BY <3>1
  <2>2. wire' = wire \/ wire' = [wire EXCEPT ![s.c] = Append(wire[s.c], out)]
    BY <1>5
  <2> HIDE DEF out
  <2> QED
    BY <1>3, <1>6, <2>1, <2>2
<1> QED
  BY <1>1, <1>2, <1>4, <1>5, <1>7, SameTypes DEF TypeInv, ChannelsType, ParentType, queues, connVars

\* FinishDelivery leaves every variable of its side in its type.
LEMMA FinishDeliveryTypes ==
  ASSUME TypeInv, NEW s \in sends, FinishDelivery(s)
  PROVE  ChannelsType' /\ ParentType'
<1>1. UNCHANGED <<sequence, connVars, pending, running, barriers, wire, failure, readers, closing, childAlive>>
      /\ UNCHANGED <<commands, results, notifications, credit>> /\ sends' = sends \ {s}
  BY DEF FinishDelivery
<1>2. sends \in SUBSET Send /\ controls \in Seq(ControlMsg)
  BY DEF TypeInv, ChannelsType, ParentType
<1>3. controls' \in Seq(ControlMsg)
  <2>1. s.id \in Ids /\ (s.at = "sent") \in BOOLEAN
    BY <1>2 DEF Send
  <2>2. Receipt(s.id, s.at = "sent") \in ControlMsg
    BY <2>1 DEF Receipt, ControlMsg
  <2>3. controls' = controls \/ controls' = Append(controls, Receipt(s.id, s.at = "sent"))
    BY Zenon DEF FinishDelivery
  <2> QED
    BY <1>2, <2>2, <2>3
<1> QED
  BY <1>1, <1>2, <1>3, SameTypes DEF TypeInv, ChannelsType, ParentType, connVars

\* Fail leaves every variable of its side in its type.
LEMMA FailTypes ==
  ASSUME TypeInv, NEW reason \in {"protocol", "exited", "stopped", "unknown"}, Fail(reason),
         readers' \subseteq readers, UNCHANGED <<sequence, frames, wire, closing>>
  PROVE  ParentType'
<1>1. /\ failure' = reason /\ pending' = {} /\ barriers' = {}
      /\ running' = Cleared(Registered) /\ sends' = Cancelled(Registered)
  BY DEF Fail
<1>2. sends \in SUBSET Send
  BY DEF TypeInv, ParentType
<1> QED
  BY <1>1, <1>2, ClearedTypes, CancelledSends, FailConn, FailWorker DEF TypeInv, ParentType

\* What is read is removed, and is a report.
LEMMA ReadingTypes ==
  ASSUME TypeInv, NEW kind, Reading(kind)
  PROVE  /\ results # <<>> /\ Head(results) \in Result /\ Head(results).kind = kind
         /\ results' = Tail(results) /\ results' \in Seq(Result)
<1>1. results \in Seq(Result)
  BY DEF TypeInv, ChannelsType
<1> QED
  BY <1>1 DEF Reading

\* ReadNotification leaves every variable of its side in its type.
LEMMA ReadNotificationTypes ==
  ASSUME TypeInv, ReadNotification
  PROVE  /\ ChannelsType' /\ ParentType'
         /\ notifications # <<>> /\ Head(notifications) \in Message /\ notifications' = Tail(notifications)
<1>1. /\ notifications # <<>> /\ notifications' = Tail(notifications)
      /\ UNCHANGED <<sequence, frames, wire, closing, childAlive, commands, controls, results, credit>>
  BY DEF ReadNotification
<1>2. notifications \in Seq(Message) /\ sends \in SUBSET Send
  BY DEF TypeInv, ChannelsType, ParentType
<1>3. Head(notifications) \in Message /\ notifications' \in Seq(Message)
  BY <1>1, <1>2
<1> DEFINE m == Head(notifications)
           stage == IF m.kind = "completion" /\ \/ running[m.c][m.q].seq # m.seq
                                                \/ running[m.c][m.q].rev # m.rev
                    THEN "failed" ELSE "waiting"
           send == [id |-> m.id, c |-> m.c, kind |-> m.kind, rev |-> m.rev, q |-> m.q, seq |-> m.seq,
                    at |-> stage]
<1>4. CASE \E s \in sends : s.id = m.id
  <2>1. Fail("protocol") /\ readers' \subseteq readers
    BY <1>4 DEF Reject, ReadNotification
  <2> QED
    BY <1>1, <1>3, <2>1, FailTypes DEF TypeInv, ChannelsType
<1>5. CASE ~ \E s \in sends : s.id = m.id
  <2>1. /\ sends' = sends \cup {send}
        /\ UNCHANGED <<pending, running, barriers, conn, worker, failure, readers>>
    BY <1>5, Zenon DEF Reject, ReadNotification
  <2>2. stage \in Stages
    BY DEF Stages
  <2>3. send \in Send
    <3> HIDE DEF stage
    <3> QED
      BY <1>3, <2>2, Zenon DEF Message, Send
  <2> HIDE DEF send
  <2> QED
    BY <1>1, <1>2, <1>3, <2>1, <2>3, SameTypes DEF TypeInv, ChannelsType, ParentType
<1> QED
  BY <1>1, <1>3, <1>4, <1>5

\* ReadAnswer leaves every variable of its side in its type.
LEMMA ReadAnswerTypes ==
  ASSUME TypeInv, ReadAnswer
  PROVE  ChannelsType' /\ ParentType'
<1>1. /\ UNCHANGED <<sequence, frames, wire, closing, childAlive, commands, controls, notifications, credit>>
      /\ Reading("result")
  BY DEF ReadAnswer
<1>2. ChannelsType'
  BY <1>1, ReadingTypes DEF TypeInv, ChannelsType
<1>3. CASE Reject("results")
  <2>1. Fail("protocol") /\ readers' \subseteq readers
    BY <1>3 DEF Reject
  <2> QED
    BY <1>1, <1>2, <2>1, FailTypes
<1>4. ASSUME NEW p \in pending, pending' = pending \ {p}, UNCHANGED <<failure, readers>>,
             AnswerAccepted(p) \/ CallRefused(p) \/ EnqueueRefused(p)
      PROVE  ParentType'
  <2>1. /\ pending' \in SUBSET [seq : Nat, op : {"connect", "envelope", "enqueue"}, c : Connections]
        /\ sends \in SUBSET Send
    BY <1>4 DEF TypeInv, ParentType
  <2>2. CASE AnswerAccepted(p)
    <3>1. UNCHANGED <<conn, barriers, running, sends>> /\ Woken(p, "reading")
      BY <2>2 DEF AnswerAccepted
    <3> QED
      BY <1>1, <1>4, <2>1, <3>1, SameTypes, WokenWorker DEF TypeInv, ParentType
  <2>3. CASE CallRefused(p)
    <3>1. UNCHANGED <<running, sends>> /\ Woken(p, "failed") /\ barriers' \in SUBSET barriers
      BY <2>3 DEF CallRefused
    <3> QED
      BY <1>1, <1>4, <2>1, <2>3, <3>1, CallRefusedConn, WokenWorker DEF TypeInv, ParentType
  <2>4. CASE EnqueueRefused(p)
    <3>1. /\ UNCHANGED <<worker, barriers>> /\ running' = Cleared({p.c})
          /\ sends' = sends \/ sends' = Cancelled({p.c})
      BY <2>4 DEF EnqueueRefused
    <3> QED
      BY <1>1, <1>4, <2>1, <2>4, <3>1, SameTypes, ClearedTypes, CancelledSends, EnqueueRefusedConn
      DEF TypeInv, ParentType
  <2> QED
    BY <1>4, <2>2, <2>3, <2>4
<1>5. \/ Reject("results")
      \/ \E p \in pending : /\ pending' = pending \ {p} /\ UNCHANGED <<failure, readers>>
                            /\ AnswerAccepted(p) \/ CallRefused(p) \/ EnqueueRefused(p)
  BY Zenon DEF ReadAnswer
<1> QED
  BY <1>2, <1>3, <1>4, <1>5

\* ReadTerminal leaves every variable of its side in its type.
LEMMA ReadTerminalTypes ==
  ASSUME TypeInv, ReadTerminal
  PROVE  ChannelsType' /\ ParentType'
<1>1. UNCHANGED <<sequence, connVars, pending, barriers, sends, wire, failure, readers, closing, childAlive>>
      /\ UNCHANGED <<commands, controls, notifications, credit>> /\ Reading("terminal")
  BY DEF ReadTerminal
<1>2. ChannelsType'
  BY <1>1, ReadingTypes DEF TypeInv, ChannelsType
<1> DEFINE r == Head(results)
<1>3. r.c \in Connections /\ r.q \in RequestIds
  <2>1. r \in Result /\ r.kind = "terminal"
    BY <1>1, ReadingTypes
  <2> QED
    BY <2>1 DEF Result
<1>4. running' = running \/ running' = [running EXCEPT ![r.c][r.q] =
                                           IF @.acked THEN None ELSE [@ EXCEPT !.terminal = TRUE]]
  BY Zenon DEF ReadTerminal
<1>5. None \in Entry /\ \A e \in Entry : [e EXCEPT !.terminal = TRUE] \in Entry
  BY DEF None, Entry
<1>6. running' \in [Connections -> [RequestIds -> Entry]]
  <2> HIDE DEF r
  <2>1. running \in [Connections -> [RequestIds -> Entry]]
    BY DEF TypeInv, ParentType
  <2> QED
    BY <1>3, <1>4, <1>5, <2>1
<1> QED
  BY <1>1, <1>2, <1>6, SameTypes DEF TypeInv, ParentType, connVars

\* ReadProcessed leaves every variable of its side in its type.
LEMMA ReadProcessedTypes ==
  ASSUME TypeInv, ReadProcessed
  PROVE  ChannelsType' /\ ParentType'
<1>1. UNCHANGED <<sequence, worker, frames, pending, running, sends, wire, failure, readers, closing, childAlive>>
      /\ UNCHANGED <<commands, controls, notifications, credit>> /\ Reading("processed")
      /\ barriers' \in SUBSET barriers
  BY DEF ReadProcessed
<1> QED
  BY <1>1, SameTypes, ReadingTypes, ReadProcessedConn DEF TypeInv, ChannelsType, ParentType

\* The receipt that the parent answers a report of the binding with.
ReceiptOf(sent) == Receipt(<<Head(results).c, "state", Head(results).n>>, sent)
\* ReadState leaves every variable of its side in its type.
LEMMA ReadStateTypes ==
  ASSUME TypeInv, ReadState
  PROVE  ChannelsType' /\ ParentType'
<1>1. UNCHANGED <<sequence, frames, wire, closing, childAlive>>
      /\ UNCHANGED <<commands, notifications, credit>> /\ Reading("state")
  BY DEF ReadState
<1>2. controls \in Seq(ControlMsg) /\ sends \in SUBSET Send
  BY DEF TypeInv, ChannelsType, ParentType
<1>3. CASE StateRefused
  <2>1. Fail("protocol") /\ readers' \subseteq readers /\ UNCHANGED controls
    BY <1>3 DEF Reject, ReadState, StateRefused
  <2> QED
    BY <1>1, <2>1, ReadingTypes, FailTypes DEF TypeInv, ChannelsType
<1>4. CASE ~StateRefused
  <2>1. /\ UNCHANGED <<pending, running, barriers, worker, failure, readers>>
        /\ sends' = sends \/ sends' = Cancelled({Head(results).c})
    BY <1>4, Zenon DEF Reject, ReadState, StateRefused, AfterState
  <2>2. \/ controls' = controls
        \/ \E sent \in BOOLEAN : controls' = Append(controls, ReceiptOf(sent))
    <3>1. \/ controls' = controls
          \/ controls' = Append(controls, ReceiptOf(conn[Head(results).c].registered
                                                       /\ ~conn[Head(results).c].closed))
      BY <1>4, Zenon DEF Reject, ReadState, StateRefused, ReceiptOf
    <3> QED
      BY <3>1
  <2>3. \A sent \in BOOLEAN : ReceiptOf(sent) \in ControlMsg
    <3>1. Head(results).c \in Connections /\ Head(results).n \in Nat
      <4>1. Head(results) \in Result /\ Head(results).kind = "state"
        BY <1>1, ReadingTypes
      <4> QED
        BY <4>1 DEF Result
    <3> QED
      BY <3>1 DEF ReceiptOf, Receipt, ControlMsg, Ids
  <2>4. controls' \in Seq(ControlMsg)
    BY <1>2, <2>2, <2>3
  <2> QED
    BY <1>1, <1>2, <1>4, <2>1, <2>4, SameTypes, CancelledSends, ReadingTypes, ReadStateConn
    DEF TypeInv, ChannelsType, ParentType
<1> QED
  BY <1>3, <1>4

\* ReadSocketClose leaves every variable of its side in its type.
LEMMA ReadSocketCloseTypes ==
  ASSUME TypeInv, ReadSocketClose
  PROVE  ChannelsType' /\ ParentType'
<1>1. UNCHANGED <<sequence, worker, frames, pending, barriers, wire, failure, readers, closing, childAlive>>
      /\ UNCHANGED <<commands, controls, notifications, credit>> /\ Reading("close")
  BY DEF ReadSocketClose
<1>2. /\ sends' = sends \/ sends' = Cancelled({Head(results).c})
      /\ running' = running \/ running' = Cleared({Head(results).c})
  BY Zenon DEF ReadSocketClose
<1>3. sends \in SUBSET Send
  BY DEF TypeInv, ParentType
<1>4. sends' \in SUBSET Send
  BY <1>2, <1>3, CancelledSends
<1>5. running' \in [Connections -> [RequestIds -> Entry]]
  BY <1>2, ClearedTypes DEF TypeInv, ParentType
<1> QED
  BY <1>1, <1>4, <1>5, SameTypes, ReadingTypes, ReadSocketCloseConn DEF TypeInv, ChannelsType, ParentType

\* ReadDisconnected leaves every variable of its side in its type.
LEMMA ReadDisconnectedTypes ==
  ASSUME TypeInv, ReadDisconnected
  PROVE  ChannelsType' /\ ParentType'
<1>1. UNCHANGED <<sequence, worker, frames, tableVars, wire, failure, readers, closing, childAlive>>
      /\ UNCHANGED <<commands, controls, notifications, credit>> /\ Reading("disconnected")
  BY DEF ReadDisconnected
<1> QED
  BY <1>1, SameTypes, ReadingTypes, ReadDisconnectedConn DEF TypeInv, ChannelsType, ParentType, tableVars

\* StartClose leaves every variable of its side in its type.
LEMMA StartCloseTypes ==
  ASSUME TypeInv, StartClose
  PROVE  ChannelsType' /\ ParentType'
<1>1. UNCHANGED <<sequence, connVars, pending, running, barriers, wire, failure, readers, childAlive>>
      /\ UNCHANGED <<commands, results, notifications, credit>> /\ closing' = TRUE
  BY DEF StartClose
<1>2. controls \in Seq(ControlMsg) /\ sends \in SUBSET Send /\ sequence \in Nat
  BY DEF TypeInv, ChannelsType, ParentType
<1>3. /\ sends' = sends \/ sends' = Cancelled(Connections)
      /\ controls' = controls \/ controls' = Append(controls, [kind |-> "shutdown", seq |-> sequence])
  BY DEF StartClose
<1>4. [kind |-> "shutdown", seq |-> sequence] \in ControlMsg
  BY <1>2 DEF ControlMsg
<1>5. controls' \in Seq(ControlMsg)
  BY <1>2, <1>3, <1>4
<1> QED
  BY <1>1, <1>2, <1>3, <1>5, SameTypes, CancelledSends DEF TypeInv, ChannelsType, ParentType, connVars

\* CloseTimeout leaves every variable of its side in its type.
LEMMA CloseTimeoutTypes ==
  ASSUME TypeInv, CloseTimeout
  PROVE  ParentType'
BY FailTypes DEF CloseTimeout

\* ChildEnded leaves every variable of its side in its type.
LEMMA ChildEndedTypes ==
  ASSUME TypeInv, ChildEnded
  PROVE  ChannelsType' /\ ParentType'
<1>1. UNCHANGED <<sequence, frames, wire, closing, childAlive, queues, credit>>
      /\ Fail(IF closing THEN "stopped" ELSE "exited") /\ readers' \subseteq readers
  BY DEF ChildEnded
<1> QED
  BY <1>1, FailTypes DEF TypeInv, ChannelsType, queues

\* EndClose leaves every variable of its side in its type.
LEMMA EndCloseTypes ==
  ASSUME TypeInv, EndClose
  PROVE  ChannelsType' /\ ParentType'
<1>1. UNCHANGED <<sequence, frames, wire, closing, childAlive, queues, credit>>
      /\ Fail(failure) /\ readers' \subseteq readers
  BY DEF EndClose
<1>2. failure \in {"protocol", "exited", "stopped", "unknown"}
  BY DEF EndClose, TypeInv, ParentType
<1> QED
  BY <1>1, <1>2, FailTypes DEF TypeInv, ChannelsType, queues

\* The reports that the commands of a session have ended.
LEMMA TerminalsTypes ==
  ASSUME TypeInv, NEW c \in Connections
  PROVE  /\ Terminals(c) \in Seq(Result) /\ Len(Terminals(c)) = Len(admitted[c])
         /\ \A i \in DOMAIN admitted[c] : Terminals(c)[i] =
              [kind |-> "terminal", c |-> c, q |-> admitted[c][i].q, n |-> admitted[c][i].seq]
<1>1. admitted[c] \in Seq(Admission)
  BY DEF TypeInv, ChildType
<1> DEFINE T(i) == [kind |-> "terminal", c |-> c, q |-> admitted[c][i].q, n |-> admitted[c][i].seq]
<1>2. ASSUME NEW i \in DOMAIN admitted[c]
      PROVE  T(i) \in Result
  <2>1. admitted[c][i] \in Admission
    BY <1>1
  <2> QED
    BY <2>1 DEF Admission, Result
<1>3. Terminals(c) = [i \in DOMAIN admitted[c] |-> T(i)]
  BY DEF Terminals
<1> HIDE DEF T
<1>4. Len(admitted[c]) \in Nat /\ DOMAIN admitted[c] = 1..Len(admitted[c])
  BY <1>1
<1>5. Terminals(c) \in Seq(Result) /\ Len(Terminals(c)) = Len(admitted[c])
  BY <1>2, <1>3, <1>4
<1> QED
  BY <1>3, <1>5 DEF T

\* synchronize_binding: one publication more, or none.
LEMMA SyncedTypes ==
  ASSUME TypeInv, NEW c \in Connections, NEW ch, NEW close \in BOOLEAN,
         ch.rev \in Nat, ch.bound \in BOOLEAN, ch.revoked \in BOOLEAN
  PROVE  Synced(c, ch, close) \in Seq(Sync)
<1> DEFINE s == [n |-> ch.rev, bound |-> ch.bound, revoked |-> ch.revoked, close |-> close, out |-> FALSE]
<1>1. s \in Sync
  BY DEF Sync
<1>2. syncs[c] \in Seq(Sync)
  BY DEF TypeInv, ChildType
<1>3. Synced(c, ch, close) = IF ch.syncLost THEN syncs[c] ELSE Append(syncs[c], s)
  BY DEF Synced
<1> HIDE DEF s
<1> QED
  BY <1>1, <1>2, <1>3

\* Asking a session to close: its new state and the publication of it.
LEMMA RequestCloseTypes ==
  ASSUME TypeInv, NEW c \in Connections, RequestClose(c)
  PROVE  ChanType' /\ syncs' \in [Connections -> Seq(Sync)]
<1> DEFINE ch == [chan[c] EXCEPT !.rev = @ + 1, !.revoked = TRUE, !.closer = "asked"]
<1>1. syncs' = [syncs EXCEPT ![c] = Synced(c, ch, TRUE)]
  BY Zenon DEF RequestClose
<1>2. ch.rev \in Nat /\ ch.bound \in BOOLEAN /\ ch.revoked \in BOOLEAN
  BY DEF TypeInv, ChildType, ChanType, ChanFields
<1>3. Synced(c, ch, TRUE) \in Seq(Sync)
  <2> HIDE DEF ch
  <2> QED
    BY <1>2, SyncedTypes
<1> HIDE DEF ch
<1> QED
  BY <1>1, <1>3, RequestCloseChan DEF TypeInv, ChildType

\* A new binding and the publication of it.
LEMMA RebindTypes ==
  ASSUME TypeInv, NEW c \in Connections, Rebind(c)
  PROVE  ChanType' /\ syncs' \in [Connections -> Seq(Sync)]
<1> DEFINE ch == [chan[c] EXCEPT !.at = "sync", !.rev = @ + 1, !.awaits = chan[c].rev + 1, !.bound = TRUE]
<1>1. syncs' = [syncs EXCEPT ![c] = Synced(c, ch, FALSE)]
  BY Zenon DEF Rebind
<1>2. ch.rev \in Nat /\ ch.bound \in BOOLEAN /\ ch.revoked \in BOOLEAN
  BY DEF TypeInv, ChildType, ChanType, ChanFields
<1>3. Synced(c, ch, FALSE) \in Seq(Sync)
  <2> HIDE DEF ch
  <2> QED
    BY <1>2, SyncedTypes
<1> HIDE DEF ch
<1> QED
  BY <1>1, <1>3, RebindChan DEF TypeInv, ChildType

\* What a cancelled publication leaves is a prefix of what was in flight.
LEMMA BeforeIsPrefix ==
  ASSUME syncs \in [Connections -> Seq(Sync)], NEW c \in Connections, NEW n \in Nat
  PROVE  \E k \in 0..Len(syncs[c]) : Before(c, n) = SubSeq(syncs[c], 1, k)
<1> DEFINE Earlier == {i \in DOMAIN syncs[c] : syncs[c][i].n < n}
           N == Len(syncs[c])
<1>1. N \in Nat /\ DOMAIN syncs[c] = 1..N
  OBVIOUS
<1>2. IsFiniteSet(1..N) /\ Cardinality(1..N) = N
  <2>1. 1 \in Int /\ N \in Int /\ N - 1 + 1 = N /\ (1 > N => N = 0)
    BY <1>1
  <2>2. IsFiniteSet(1..N) /\ Cardinality(1..N) = IF 1 > N THEN 0 ELSE N - 1 + 1
    BY <2>1, FS_Interval
  <2> QED
    BY <2>1, <2>2
<1>3. Earlier \in SUBSET (1..N)
  BY <1>1
<1> HIDE DEF Earlier, N
<1>4. IsFiniteSet(Earlier) /\ Cardinality(Earlier) <= N
  BY <1>2, <1>3, FS_Subset
<1>5. Cardinality(Earlier) \in Nat
  BY <1>4, FS_CardinalityType
<1>6. Cardinality(Earlier) \in 0..N
  BY <1>1, <1>4, <1>5
<1>7. Before(c, n) = SubSeq(syncs[c], 1, Cardinality(Earlier))
  BY DEF Before, Earlier
<1> QED
  BY <1>6, <1>7 DEF N

\* Cancelling a publication keeps a prefix of what was in flight.
LEMMA BeforeTypes ==
  ASSUME syncs \in [Connections -> Seq(Sync)], NEW c \in Connections, NEW n \in Nat
  PROVE  Before(c, n) \in Seq(Sync)
<1>1. PICK k \in 0..Len(syncs[c]) : Before(c, n) = SubSeq(syncs[c], 1, k)
  BY BeforeIsPrefix
<1>2. syncs[c] \in Seq(Sync)
  OBVIOUS
<1> QED
  BY <1>1, <1>2

\* The pump is asked to stop; a message is forgotten.
LEMMA StopPumpTypes ==
  ASSUME TypeInv, NEW c \in Connections, StopPump(c)
  PROVE  pump' \in [Connections -> {"off", "on", "stopping"}]
BY DEF StopPump, TypeInv, ChildType

\* Nobody is a value of sending.
LEMMA NobodyType == Nobody \in Sending
BY DEF Nobody, Sending

\* Forget leaves every variable of its side in its type.
LEMMA ForgetTypes ==
  ASSUME TypeInv, NEW c \in Connections, NEW kind, Forget(c, kind)
  PROVE  sending' \in [Connections -> Sending]
BY NobodyType DEF Forget, TypeInv, ChildType

\* FinishFirst leaves every variable of its side in its type.
LEMMA FinishFirstTypes ==
  ASSUME TypeInv, NEW c \in Connections, FinishFirst(c), admitted[c] # <<>>
  PROVE  /\ admitted' \in [Connections -> Seq(Admission)]
         /\ pump' \in [Connections -> {"off", "on", "stopping"}]
         /\ results' \in Seq(Result)
         /\ results' = results \o <<[kind |-> "terminal", c |-> c, q |-> Head(admitted[c]).q,
                                     n |-> Head(admitted[c]).seq]>>
<1>1. admitted \in [Connections -> Seq(Admission)]
  BY DEF TypeInv, ChildType
<1>2. admitted[c] \in Seq(Admission) /\ 1 \in DOMAIN admitted[c]
  BY <1>1
<1>3. Tail(admitted[c]) \in Seq(Admission)
  BY <1>2
<1>4. admitted' = [admitted EXCEPT ![c] = Tail(admitted[c])]
  BY DEF FinishFirst
<1>5. Head(admitted[c]) = admitted[c][1]
  BY <1>2
<1>6. Terminals(c)[1] = [kind |-> "terminal", c |-> c, q |-> Head(admitted[c]).q, n |-> Head(admitted[c]).seq]
  BY <1>2, <1>5, TerminalsTypes
<1>7. Terminals(c)[1] \in Result
  <2>1. Head(admitted[c]) \in Admission
    BY <1>2
  <2> QED
    BY <1>6, <2>1 DEF Admission, Result
<1>8. Emit(<<Terminals(c)[1]>>)
  BY DEF FinishFirst
<1>9. results' \in Seq(Result) /\ results' = results \o <<Terminals(c)[1]>>
  BY <1>7, <1>8, EmitOneTypes
<1>10. pump' \in [Connections -> {"off", "on", "stopping"}]
  BY DEF FinishFirst, TypeInv, ChildType
<1> QED
  BY <1>1, <1>3, <1>4, <1>6, <1>9, <1>10

\* SendOver leaves every variable of its side in its type.
LEMMA SendOverTypes ==
  ASSUME TypeInv, NEW c \in Connections, NEW sent \in BOOLEAN, SendOver(c, sent)
  PROVE  /\ results' \in Seq(Result) /\ ChanType' /\ syncs' \in [Connections -> Seq(Sync)]
         /\ admitted' \in [Connections -> Seq(Admission)]
         /\ pump' \in [Connections -> {"off", "on", "stopping"}] /\ sending' \in [Connections -> Sending]
         /\ CompletionHeld'
<1>0. /\ results \in Seq(Result) /\ syncs \in [Connections -> Seq(Sync)]
      /\ admitted \in [Connections -> Seq(Admission)]
      /\ pump \in [Connections -> {"off", "on", "stopping"}] /\ sending \in [Connections -> Sending]
      /\ CompletionHeld
  BY DEF TypeInv, ChannelsType, ChildType
<1>1. /\ sending' \in [Connections -> Sending] /\ sending'[c] = Nobody
      /\ \A d \in Connections : d # c => sending'[d] = sending[d]
  BY <1>0, NobodyType DEF SendOver
<1>h. (\A d \in Connections : d # c => admitted'[d] = admitted[d]) => CompletionHeld'
  BY <1>0, <1>1 DEF CompletionHeld, Nobody
<1>2. CASE MessageSent(c)
  <2>1. UNCHANGED <<syncs, admitted, pump>> /\ Emit(<<Processed(c, chan[c].current, TRUE)>>)
    BY <1>2 DEF MessageSent
  <2>2. chan[c].current \in Nat
    BY DEF TypeInv, ChildType, ChanType
  <2>3. Processed(c, chan[c].current, TRUE) \in Result
    BY <2>2 DEF Processed, Result
  <2> QED
    BY <1>0, <1>1, <1>2, <1>h, <2>1, <2>3, EmitOneTypes, MessageSentChan
<1>3. CASE MessageLost(c)
  <2>1. UNCHANGED <<results, syncs, admitted>> /\ StopPump(c)
    BY <1>3 DEF MessageLost
  <2> QED
    BY <1>0, <1>1, <1>3, <1>h, <2>1, StopPumpTypes, MessageLostChan
<1>4. CASE sending[c].kind = "completion" /\ FinishFirst(c) /\ UNCHANGED <<chan, syncs>>
  <2>1. admitted[c] # <<>>
    BY <1>0, <1>4 DEF CompletionHeld
  <2>2. \A d \in Connections : d # c => admitted'[d] = admitted[d]
    BY <1>0, <1>4 DEF FinishFirst
  <2> QED
    BY <1>0, <1>1, <1>4, <1>h, <2>1, <2>2, FinishFirstTypes, SameTypes
<1>5. CASE CompletionLost(c)
  <2>1. /\ Emit(Terminals(c)) /\ admitted' = [admitted EXCEPT ![c] = <<>>]
        /\ pump' = [pump EXCEPT ![c] = "off"]
        /\ UNCHANGED <<chan, syncs>> \/ RequestClose(c)
    BY <1>5 DEF CompletionLost
  <2>2. admitted' \in [Connections -> Seq(Admission)] /\ \A d \in Connections : d # c => admitted'[d] = admitted[d]
    BY <1>0, <2>1
  <2>3. results' \in Seq(Result)
    BY <2>1, TerminalsTypes, EmitTypes
  <2>4. ChanType' /\ syncs' \in [Connections -> Seq(Sync)]
    BY <1>0, <2>1, SameTypes, RequestCloseTypes
  <2>5. pump' \in [Connections -> {"off", "on", "stopping"}]
    BY <1>0, <2>1
  <2> QED
    BY <1>1, <1>h, <2>2, <2>3, <2>4, <2>5
<1>6. CASE RevokedOver(c, sent)
  <2>1. UNCHANGED <<results, syncs, admitted, pump>>
    BY <1>6 DEF RevokedOver
  <2> QED
    BY <1>0, <1>1, <1>6, <1>h, <2>1, RevokedOverChan
<1> QED
  BY <1>2, <1>3, <1>4, <1>5, <1>6, Zenon DEF SendOver

\* Cancel leaves every variable of its side in its type.
LEMMA CancelTypes ==
  ASSUME TypeInv, NEW c \in Connections, Cancel(c), UNCHANGED admitted
  PROVE  /\ ChanType' /\ syncs' \in [Connections -> Seq(Sync)]
         /\ pump' \in [Connections -> {"off", "on", "stopping"}] /\ sending' \in [Connections -> Sending]
         /\ CompletionHeld'
<1> DEFINE ch == [chan[c] EXCEPT !.disconnecting = TRUE]
<1>0. /\ syncs \in [Connections -> Seq(Sync)] /\ pump \in [Connections -> {"off", "on", "stopping"}]
      /\ sending \in [Connections -> Sending] /\ CompletionHeld
      /\ chan[c].awaits \in Nat /\ chan[c].rev \in Nat
  BY DEF TypeInv, ChildType, ChanType
<1>h. (\A d \in Connections : sending'[d] = sending[d] \/ sending'[d] = Nobody) => CompletionHeld'
  <2> SUFFICES ASSUME NEW d \in Connections, sending'[d] = sending[d] \/ sending'[d] = Nobody,
                      sending'[d].kind = "completion"
               PROVE  admitted'[d] # <<>>
    BY DEF CompletionHeld
  <2> QED
    BY <1>0 DEF CompletionHeld, Nobody
<1>f. ASSUME NEW kind, Forget(c, kind)
      PROVE  sending' \in [Connections -> Sending] /\ CompletionHeld'
  <2>1. \A d \in Connections : sending'[d] = sending[d] \/ sending'[d] = Nobody
    BY <1>0, <1>f DEF Forget
  <2> QED
    BY <1>f, <1>h, <2>1, ForgetTypes
<1>p. ASSUME NEW n \in Nat, NEW place, CancelPublication(c, n, place)
      PROVE  syncs' \in [Connections -> Seq(Sync)]
  <2>1. syncs' = [syncs EXCEPT ![c] = Before(c, n)]
    BY <1>p DEF CancelPublication
  <2> QED
    BY <1>0, <2>1, BeforeTypes
<1>1. CASE CancelLoop(c, ch)
  <2>1. StopPump(c) /\ Forget(c, "message") /\ UNCHANGED syncs
    BY <1>1 DEF CancelLoop
  <2> QED
    BY <1>0, <1>1, <1>f, <2>1, StopPumpTypes, CancelLoopChan
<1>2. CASE CancelSync(c, ch)
  <2>1. StopPump(c) /\ UNCHANGED sending /\ CancelPublication(c, chan[c].awaits, Finally(c, ch))
    BY <1>2 DEF CancelSync
  <2>2. syncs' \in [Connections -> Seq(Sync)]
    BY <1>0, <1>p, <2>1
  <2> QED
    BY <1>0, <1>2, <1>h, <2>1, <2>2, StopPumpTypes, CancelSyncChan
<1>3. CASE CancelUnbind(c, ch)
  <2>1. Forget(c, "revoked") /\ UNCHANGED <<syncs, pump>>
    BY <1>3 DEF CancelUnbind
  <2> QED
    BY <1>0, <1>3, <1>f, <2>1, CancelUnbindChan
<1>4. CASE CancelPumpWait(c, ch)
  <2>1. UNCHANGED <<syncs, pump, sending>>
    BY <1>4 DEF CancelPumpWait
  <2> QED
    BY <1>0, <1>4, <1>h, <2>1, CancelPumpWaitChan
<1>5. CASE CancelWaiting(c, ch)
  <2>1. PICK n \in IF CloseSync(c) = {} THEN {chan[c].rev + 1} ELSE CloseSync(c) :
               CancelPublication(c, n, [ch EXCEPT !.at = "finalizing"])
    BY <1>5, Zenon DEF CancelWaiting
  <2>2. n \in Nat
    <3>1. ASSUME NEW i \in DOMAIN syncs[c]
          PROVE  syncs[c][i].n \in Nat
      <4>1. syncs[c] \in Seq(Sync)
        BY <1>0
      <4>2. syncs[c][i] \in Sync
        BY <4>1
      <4> QED
        BY <4>2 DEF Sync
    <3>2. CASE CloseSync(c) = {}
      BY <1>0, <2>1, <3>2
    <3>3. CASE CloseSync(c) # {}
      BY <2>1, <3>1, <3>3, Zenon DEF CloseSync
    <3> QED
      BY <3>2, <3>3
  <2>3. UNCHANGED <<pump, sending>>
    BY <1>5 DEF CancelWaiting
  <2>4. syncs' \in [Connections -> Seq(Sync)]
    BY <1>p, <2>1, <2>2
  <2>5. ChanType'
    BY <2>1, CancelPublicationChan
  <2> QED
    BY <1>0, <1>h, <2>3, <2>4, <2>5
<1> QED
  BY <1>1, <1>2, <1>3, <1>4, <1>5, Zenon DEF Cancel

\* The child takes a command: it is a command, and what stays behind is a
\* sequence of them.
LEMMA TakenTypes ==
  ASSUME TypeInv, commands # <<>>, commands' = Tail(commands)
  PROVE  /\ commands' \in Seq(Command) /\ Head(commands) \in Command
         /\ Head(commands).seq \in Nat /\ Head(commands).c \in Connections /\ Head(commands).rev \in Nat
<1>1. commands \in Seq(Command)
  BY DEF TypeInv, ChannelsType
<1>2. Head(commands) \in Command /\ commands' \in Seq(Command)
  BY <1>1
<1>3. \A m \in Command : m.seq \in Nat /\ m.c \in Connections /\ m.rev \in Nat
  BY DEF Command
<1> QED
  BY <1>2, <1>3

\* An answer is a report.
LEMMA AnswerType ==
  ASSUME NEW n \in Nat, NEW ok \in BOOLEAN
  PROVE  Answer(n, ok) \in Result
BY DEF Answer, Result

\* ReceiveRefused leaves every variable of its side in its type.
LEMMA ReceiveRefusedTypes ==
  ASSUME TypeInv, ReceiveRefused
  PROVE  ChannelsType' /\ ChildType' /\ CompletionHeld'
<1>1. /\ commands # <<>> /\ commands' = Tail(commands) /\ last' = Head(commands).seq
      /\ credit' \in {credit, credit + 1} /\ Emit(<<Answer(Head(commands).seq, FALSE)>>)
      /\ phase' \in {phase, "draining"}
      /\ UNCHANGED <<controls, notifications, childAlive, target, dropped, sessionVars, owner>>
  BY DEF ReceiveRefused, RefusedPermit, TypeInv, ChannelsType
<1>2. Answer(Head(commands).seq, FALSE) \in Result
  BY <1>1, TakenTypes, AnswerType
<1>3. results' \in Seq(Result)
  BY <1>1, <1>2, EmitOneTypes
<1>4. ChannelsType'
  BY <1>1, <1>3, TakenTypes DEF TypeInv, ChannelsType
<1>5. ChildType' /\ CompletionHeld'
  BY <1>1, TakenTypes, SameTypes DEF TypeInv, ChildType, CompletionHeld, sessionVars
<1> QED
  BY <1>4, <1>5

\* ReceiveConnect leaves every variable of its side in its type.
LEMMA ReceiveConnectTypes ==
  ASSUME TypeInv, ReceiveConnect
  PROVE  ChannelsType' /\ ChildType' /\ CompletionHeld'
<1>1. /\ commands # <<>> /\ commands' = Tail(commands) /\ last' = Head(commands).seq
      /\ \E ok \in BOOLEAN : Emit(<<Answer(Head(commands).seq, ok)>>)
      /\ dropped' \in {dropped, dropped \ {Head(commands).c}}
      /\ UNCHANGED <<controls, notifications, credit, childAlive>>
      /\ UNCHANGED <<phase, target, syncs, admitted, pump, sending, owner>>
  BY DEF ReceiveConnect, Receiving
<1>2. PICK ok \in BOOLEAN : Emit(<<Answer(Head(commands).seq, ok)>>)
  BY <1>1
<1>3. Answer(Head(commands).seq, ok) \in Result
  BY <1>1, TakenTypes, AnswerType
<1>4. results' \in Seq(Result)
  BY <1>2, <1>3, EmitOneTypes
<1>5. ChannelsType'
  BY <1>1, <1>4, TakenTypes DEF TypeInv, ChannelsType
<1>6. ChildType' /\ CompletionHeld'
  BY <1>1, TakenTypes, ReceiveConnectChan DEF TypeInv, ChildType, CompletionHeld
<1> QED
  BY <1>5, <1>6

\* ReceiveEnvelope leaves every variable of its side in its type.
LEMMA ReceiveEnvelopeTypes ==
  ASSUME TypeInv, ReceiveEnvelope
  PROVE  ChannelsType' /\ ChildType' /\ CompletionHeld'
<1>1. /\ commands # <<>> /\ commands' = Tail(commands) /\ last' = Head(commands).seq
      /\ Emit(<<Answer(Head(commands).seq, Exists(Head(commands).c))>>)
      /\ UNCHANGED <<controls, notifications, credit, childAlive>>
      /\ UNCHANGED <<phase, target, dropped, syncs, admitted, pump, sending, owner>>
  BY DEF ReceiveEnvelope, Receiving
<1>2. Exists(Head(commands).c) \in BOOLEAN
  BY DEF Exists
<1>3. Answer(Head(commands).seq, Exists(Head(commands).c)) \in Result
  BY <1>1, <1>2, TakenTypes, AnswerType
<1>4. results' \in Seq(Result)
  BY <1>1, <1>3, EmitOneTypes
<1>5. ChannelsType'
  BY <1>1, <1>4, TakenTypes DEF TypeInv, ChannelsType
<1>6. ChildType' /\ CompletionHeld'
  BY <1>1, TakenTypes, ReceiveEnvelopeChan DEF TypeInv, ChildType, CompletionHeld
<1> QED
  BY <1>5, <1>6

\* The permit of an enqueue goes to the owner's queue, or back.
Accepted(m) ==
    /\ Exists(m.c) /\ chan[m.c].at # "finalizing" /\ ~chan[m.c].disconnecting
    /\ ~ \E i \in DOMAIN admitted[m.c] : admitted[m.c][i].q = m.q
    /\ Len(admitted[m.c]) < Capacity
NewAdmission(m) == [q |-> m.q, seq |-> m.seq, rev |-> m.rev, done |-> FALSE]
CommandWork(m) == [c |-> m.c, what |-> "command", seq |-> m.seq]
\* ReceiveEnqueue leaves every variable of its side in its type.
LEMMA ReceiveEnqueueTypes ==
  ASSUME TypeInv, ReceiveEnqueue
  PROVE  /\ ChannelsType' /\ ChildType' /\ CompletionHeld'
         /\ \/ /\ Accepted(Head(commands)) /\ UNCHANGED credit
               /\ admitted' = [admitted EXCEPT ![Head(commands).c] = Append(@, NewAdmission(Head(commands)))]
               /\ owner' = Append(owner, CommandWork(Head(commands)))
               /\ pump' = [pump EXCEPT ![Head(commands).c] = IF @ = "off" THEN "on" ELSE @]
               /\ Emit(<<Answer(Head(commands).seq, TRUE)>>)
            \/ /\ ~Accepted(Head(commands)) /\ credit' = credit + 1
               /\ UNCHANGED <<admitted, owner, pump>>
               /\ Emit(<<Answer(Head(commands).seq, FALSE)>>)
<1> DEFINE m == Head(commands)
<1>1. /\ commands # <<>> /\ commands' = Tail(commands) /\ last' = m.seq /\ m.op = "enqueue"
      /\ UNCHANGED <<controls, notifications, childAlive>>
      /\ UNCHANGED <<phase, target, dropped, chan, syncs, sending>>
  BY DEF ReceiveEnqueue, Receiving
<1>2. m \in Command /\ m.seq \in Nat /\ m.c \in Connections /\ m.rev \in Nat /\ commands' \in Seq(Command)
  BY <1>1, TakenTypes
<1>3. m.q \in RequestIds
  BY <1>1, <1>2 DEF Command
<1>4. /\ admitted \in [Connections -> Seq(Admission)] /\ owner \in Seq(Work)
      /\ pump \in [Connections -> {"off", "on", "stopping"}] /\ credit \in Nat /\ CompletionHeld
  BY DEF TypeInv, ChannelsType, ChildType
<1>5. NewAdmission(m) \in Admission /\ CommandWork(m) \in Work
  BY <1>2, <1>3 DEF NewAdmission, CommandWork, Admission, Work
<1>6. CASE Accepted(m)
  <2>1. /\ admitted' = [admitted EXCEPT ![m.c] = Append(admitted[m.c], NewAdmission(m))]
        /\ owner' = Append(owner, CommandWork(m))
        /\ pump' = [pump EXCEPT ![m.c] = IF @ = "off" THEN "on" ELSE @]
        /\ UNCHANGED credit /\ Emit(<<Answer(m.seq, TRUE)>>)
    <3>1. \E ok \in BOOLEAN : ok = Accepted(m) /\ Emit(<<Answer(m.seq, ok)>>)
      BY DEF ReceiveEnqueue, Accepted
    <3>2. /\ admitted' = [admitted EXCEPT ![m.c] = Append(admitted[m.c], NewAdmission(m))]
          /\ owner' = Append(owner, CommandWork(m))
          /\ pump' = [pump EXCEPT ![m.c] = IF @ = "off" THEN "on" ELSE @]
          /\ UNCHANGED credit
      BY <1>6 DEF ReceiveEnqueue, Accepted, NewAdmission, CommandWork
    <3> QED
      BY <1>6, <3>1, <3>2
  <2> HIDE DEF m
  <2>2. admitted' \in [Connections -> Seq(Admission)] /\ owner' \in Seq(Work)
        /\ pump' \in [Connections -> {"off", "on", "stopping"}]
    BY <1>2, <1>4, <1>5, <2>1
  <2>3. Answer(m.seq, TRUE) \in Result
    BY <1>2, AnswerType
  <2>4. results' \in Seq(Result)
    BY <2>1, <2>3, EmitOneTypes
  <2>5. Append(admitted[m.c], NewAdmission(m)) # <<>>
    <3>1. admitted[m.c] \in Seq(Admission)
      BY <1>2, <1>4
    <3> QED
      BY <1>5, <3>1, AppendProperties
  <2>6. CompletionHeld'
    BY <1>1, <1>2, <1>4, <2>1, <2>5 DEF CompletionHeld
  <2> QED
    BY <1>1, <1>2, <1>4, <1>6, <2>1, <2>2, <2>4, <2>6, SameTypes DEF TypeInv, ChannelsType, ChildType, m
<1>7. CASE ~Accepted(m)
  <2>1. UNCHANGED <<admitted, owner, pump>> /\ credit' = credit + 1 /\ Emit(<<Answer(m.seq, FALSE)>>)
    <3>1. \E ok \in BOOLEAN : ok = Accepted(m) /\ Emit(<<Answer(m.seq, ok)>>)
      BY DEF ReceiveEnqueue, Accepted
    <3>2. UNCHANGED <<admitted, owner, pump>> /\ credit' = credit + 1
      BY <1>7 DEF ReceiveEnqueue, Accepted
    <3> QED
      BY <1>7, <3>1, <3>2
  <2> HIDE DEF m
  <2>2. Answer(m.seq, FALSE) \in Result
    BY <1>2, AnswerType
  <2>3. results' \in Seq(Result)
    BY <2>1, <2>2, EmitOneTypes
  <2> QED
    BY <1>1, <1>2, <1>4, <1>7, <2>1, <2>3, SameTypes DEF TypeInv, ChannelsType, ChildType, CompletionHeld, m
<1> QED
  BY <1>6, <1>7

\* TakeEnvelope leaves every variable of its side in its type.
LEMMA TakeEnvelopeTypes ==
  ASSUME TypeInv, NEW c \in Connections, TakeEnvelope(c)
  PROVE  ChannelsType' /\ ChildType' /\ CompletionHeld'
<1>1. /\ UNCHANGED <<commands, controls, notifications, credit, childAlive>>
      /\ UNCHANGED <<phase, last, target, dropped, syncs, admitted, pump, sending, owner>>
      /\ chan[c].inbox # <<>>
      /\ Emit(<<Processed(c, Head(chan[c].inbox), TRUE)>>) \/ UNCHANGED results
  BY DEF TakeEnvelope
<1>2. chan[c].inbox \in Seq(Nat)
  BY DEF TypeInv, ChildType, ChanType
<1>3. Processed(c, Head(chan[c].inbox), TRUE) \in Result
  BY <1>1, <1>2 DEF Processed, Result
<1>4. results' \in Seq(Result)
  BY <1>1, <1>3, EmitOneTypes DEF TypeInv, ChannelsType
<1> QED
  BY <1>1, <1>4, TakeEnvelopeChan DEF TypeInv, ChannelsType, ChildType, CompletionHeld

\* CallOwner leaves every variable of its side in its type.
LEMMA CallOwnerTypes ==
  ASSUME TypeInv, NEW c \in Connections, CallOwner(c)
  PROVE  /\ ChannelsType' /\ ChildType' /\ CompletionHeld'
         /\ credit' = credit - 1 /\ credit > 0
         /\ \E w \in Work : w.what # "command" /\ owner' = Append(owner, w)
<1>1. /\ UNCHANGED <<queues, childAlive>> /\ credit > 0 /\ credit' = credit - 1
      /\ UNCHANGED <<phase, last, target, dropped, syncs, admitted, pump, sending>>
  BY DEF CallOwner
<1> DEFINE e == [c |-> c, what |-> "envelope", seq |-> chan[c].current]
           u == [c |-> c, what |-> "unbind", seq |-> 0]
<1>2. owner' = Append(owner, e) \/ owner' = Append(owner, u)
  BY Zenon DEF CallOwner
<1>3. e \in Work /\ u \in Work /\ e.what # "command" /\ u.what # "command"
  BY DEF Work, TypeInv, ChildType, ChanType
<1> HIDE DEF e, u
<1>4. owner' \in Seq(Work) /\ credit' \in Nat
  <2>1. owner \in Seq(Work) /\ credit \in Nat
    BY DEF TypeInv, ChannelsType, ChildType
  <2>2. owner' \in Seq(Work)
    BY <1>2, <1>3, <2>1
  <2> QED
    BY <1>1, <2>1, <2>2
<1> QED
  BY <1>1, <1>2, <1>3, <1>4, CallOwnerChan DEF TypeInv, ChannelsType, ChildType, CompletionHeld, queues

\* The owner thread ends what is first in its queue.
LEMMA OwnerRunTypes ==
  ASSUME TypeInv, OwnerRun
  PROVE  /\ ChannelsType' /\ ChildType' /\ CompletionHeld'
         /\ owner # <<>> /\ owner \in Seq(Work) /\ owner' = Tail(owner) /\ credit' = credit + 1
         /\ Head(owner) \in Work
<1> DEFINE m == Head(owner)
<1>1. /\ owner # <<>> /\ owner' = Tail(owner) /\ credit' = credit + 1
      /\ UNCHANGED <<queues, childAlive, phase, last, target, dropped, pump>>
      /\ \/ m.what = "command" /\ EndCommand(m.c, m.seq)
         \/ m.what = "envelope" /\ EndEnvelope(m.c, m.seq)
         \/ m.what = "unbind" /\ EndUnbind(m.c)
         \/ m.what # "command" /\ EndForNobody(m.c, m.what, m.seq)
  BY Zenon DEF OwnerRun
<1>2. /\ owner \in Seq(Work) /\ credit \in Nat /\ syncs \in [Connections -> Seq(Sync)]
      /\ admitted \in [Connections -> Seq(Admission)] /\ sending \in [Connections -> Sending]
      /\ CompletionHeld
  BY DEF TypeInv, ChannelsType, ChildType
<1>3. m \in Work /\ owner' \in Seq(Work) /\ credit' \in Nat
  BY <1>1, <1>2
<1>4. m.c \in Connections /\ m.seq \in Nat
  BY <1>3 DEF Work
<1> HIDE DEF m
<1>5. CASE EndCommand(m.c, m.seq)
  <2> DEFINE ended == [i \in DOMAIN admitted[m.c] |-> Ended(admitted[m.c][i], m.seq)]
  <2>1. admitted' = [admitted EXCEPT ![m.c] = ended] /\ UNCHANGED <<chan, syncs, sending>>
    BY <1>5 DEF EndCommand
  <2>2. admitted[m.c] \in Seq(Admission)
    BY <1>2, <1>4
  <2>3. ASSUME NEW i \in DOMAIN admitted[m.c]
        PROVE  Ended(admitted[m.c][i], m.seq) \in Admission
    <3>1. admitted[m.c][i] \in Admission
      BY <2>2
    <3> QED
      BY <3>1 DEF Admission, Ended
  <2>4. ended \in Seq(Admission) /\ (admitted[m.c] # <<>> => ended # <<>>)
    <3>1. Len(admitted[m.c]) \in Nat /\ DOMAIN admitted[m.c] = 1..Len(admitted[m.c])
      BY <2>2
    <3>2. ended \in Seq(Admission) /\ Len(ended) = Len(admitted[m.c])
      BY <2>3, <3>1
    <3>3. admitted[m.c] # <<>> => Len(admitted[m.c]) # 0
      BY <2>2, EmptySeq
    <3> QED
      BY <3>2, <3>3, EmptySeq
  <2> HIDE DEF ended
  <2>5. admitted' \in [Connections -> Seq(Admission)] /\ CompletionHeld'
    BY <1>2, <1>4, <2>1, <2>4 DEF CompletionHeld
  <2> QED
    BY <1>1, <1>2, <1>3, <2>1, <2>5, SameTypes DEF TypeInv, ChannelsType, ChildType, queues, m
<1>6. CASE EndEnvelope(m.c, m.seq)
  <2>1. UNCHANGED <<admitted, sending>> /\ (Rebind(m.c) \/ KeepBinding(m.c))
    BY <1>6 DEF EndEnvelope
  <2>2. ChanType' /\ syncs' \in [Connections -> Seq(Sync)]
    <3>1. CASE KeepBinding(m.c)
      <4>1. UNCHANGED syncs
        BY <3>1 DEF KeepBinding
      <4> QED
        BY <1>2, <1>4, <3>1, <4>1, KeepBindingChan
    <3> QED
      BY <1>4, <2>1, <3>1, RebindTypes
  <2> QED
    BY <1>1, <1>2, <1>3, <2>1, <2>2 DEF TypeInv, ChannelsType, ChildType, CompletionHeld, queues, m
<1>7. CASE EndUnbind(m.c)
  <2>1. Forget(m.c, "revoked") /\ UNCHANGED <<admitted, syncs>>
    BY <1>7 DEF EndUnbind
  <2>2. CompletionHeld'
    BY <1>2, <2>1 DEF CompletionHeld, Forget, Nobody
  <2> QED
    BY <1>1, <1>2, <1>3, <1>4, <1>7, <2>1, <2>2, ForgetTypes, EndUnbindChan
    DEF TypeInv, ChannelsType, ChildType, queues, m
<1>8. CASE EndForNobody(m.c, m.what, m.seq)
  <2>1. UNCHANGED <<admitted, syncs, sending>>
    BY <1>8 DEF EndForNobody
  <2> QED
    BY <1>1, <1>2, <1>3, <1>4, <1>8, <2>1, EndForNobodyChan
    DEF TypeInv, ChannelsType, ChildType, CompletionHeld, queues, m
<1> QED
  BY <1>1, <1>5, <1>6, <1>7, <1>8 DEF m

\* AfterSync leaves every variable of its side in its type.
LEMMA AfterSyncTypes ==
  ASSUME TypeInv, NEW c \in Connections, AfterSync(c)
  PROVE  ChannelsType' /\ ChildType' /\ CompletionHeld'
<1>1. /\ UNCHANGED <<queues, credit, childAlive>>
      /\ UNCHANGED <<phase, last, target, dropped, syncs, admitted, sending, owner>>
      /\ UNCHANGED pump \/ StopPump(c)
  BY DEF AfterSync
<1>2. pump' \in [Connections -> {"off", "on", "stopping"}]
  BY <1>1, StopPumpTypes DEF TypeInv, ChildType
<1> QED
  BY <1>1, <1>2, AfterSyncChan DEF TypeInv, ChannelsType, ChildType, CompletionHeld, queues

\* PublishBinding leaves every variable of its side in its type.
LEMMA PublishBindingTypes ==
  ASSUME TypeInv, NEW c \in Connections, PublishBinding(c)
  PROVE  /\ ChannelsType' /\ ChildType' /\ CompletionHeld'
         /\ Head(syncs[c]) \in Sync
<1> DEFINE s == Head(syncs[c])
           r == [kind |-> "state", c |-> c, n |-> s.n, bound |-> s.bound, revoked |-> s.revoked]
<1>1. /\ syncs[c] # <<>> /\ Emit(<<r>>) /\ syncs' = [syncs EXCEPT ![c][1].out = TRUE]
      /\ UNCHANGED <<commands, controls, notifications, credit, childAlive>>
      /\ UNCHANGED <<phase, last, target, dropped, chan, admitted, pump, sending, owner>>
  BY DEF PublishBinding
<1>2. syncs \in [Connections -> Seq(Sync)] /\ syncs[c] \in Seq(Sync)
  BY DEF TypeInv, ChildType
<1>3. s \in Sync /\ 1 \in 1..Len(syncs[c]) /\ syncs[c][1] \in Sync
  BY <1>1, <1>2
<1>4. r \in Result
  BY <1>3 DEF Sync, Result
<1>5. results' \in Seq(Result)
  <2> HIDE DEF r
  <2> QED
    BY <1>1, <1>4, EmitOneTypes
<1>6. syncs' \in [Connections -> Seq(Sync)]
  <2>1. [syncs[c][1] EXCEPT !.out = TRUE] \in Sync
    BY <1>3 DEF Sync
  <2>2. [syncs[c] EXCEPT ![1] = [syncs[c][1] EXCEPT !.out = TRUE]] \in Seq(Sync)
    BY <1>2, <1>3, <2>1, ExceptSeq
  <2>3. syncs' = [syncs EXCEPT ![c] = [syncs[c] EXCEPT ![1] = [syncs[c][1] EXCEPT !.out = TRUE]]]
    BY <1>1
  <2> QED
    BY <1>2, <2>2, <2>3
<1> QED
  BY <1>1, <1>3, <1>5, <1>6, SameTypes DEF TypeInv, ChannelsType, ChildType, CompletionHeld

\* StartSend leaves every variable of its side in its type.
LEMMA StartSendTypes ==
  ASSUME TypeInv, NEW c \in Connections, StartSend(c)
  PROVE  ChannelsType' /\ ChildType' /\ CompletionHeld'
<1>1. /\ UNCHANGED <<queues, credit, childAlive>>
      /\ UNCHANGED <<phase, last, target, dropped, chan, syncs, admitted, pump, owner>>
      /\ \/ Lock(c, "message", chan[c].current, "none")
         \/ FirstDone(c) /\ Lock(c, "completion", Head(admitted[c]).seq, Head(admitted[c]).q)
         \/ Lock(c, "revoked", 0, "none")
  BY DEF StartSend
<1>2. /\ chan[c].current \in Nat /\ chan[c].rev \in Nat /\ sending \in [Connections -> Sending]
      /\ admitted[c] \in Seq(Admission) /\ CompletionHeld
  BY DEF TypeInv, ChildType, ChanType
<1>3. ASSUME NEW kind \in {"message", "revoked"}, NEW n \in Nat, Lock(c, kind, n, "none")
      PROVE  sending' \in [Connections -> Sending] /\ CompletionHeld'
  <2> DEFINE e == [kind |-> kind, n |-> n, q |-> "none", rev |-> chan[c].rev, out |-> FALSE]
  <2>1. sending' = [sending EXCEPT ![c] = e]
    BY <1>3 DEF Lock
  <2>2. e \in Sending /\ e.kind # "completion"
    BY <1>2 DEF Sending
  <2> HIDE DEF e
  <2> QED
    BY <1>1, <1>2, <2>1, <2>2 DEF CompletionHeld
<1>4. ASSUME FirstDone(c), Lock(c, "completion", Head(admitted[c]).seq, Head(admitted[c]).q)
      PROVE  sending' \in [Connections -> Sending] /\ CompletionHeld'
  <2> DEFINE e == [kind |-> "completion", n |-> Head(admitted[c]).seq, q |-> Head(admitted[c]).q,
                   rev |-> chan[c].rev, out |-> FALSE]
  <2>1. sending' = [sending EXCEPT ![c] = e] /\ admitted[c] # <<>>
    BY <1>4 DEF Lock, FirstDone
  <2>2. e \in Sending
    <3>1. Head(admitted[c]) \in Admission
      BY <1>2, <2>1
    <3> QED
      BY <1>2, <3>1 DEF Sending, Admission
  <2> HIDE DEF e
  <2> QED
    BY <1>1, <1>2, <2>1, <2>2 DEF CompletionHeld
<1>5. sending' \in [Connections -> Sending] /\ CompletionHeld'
  BY <1>1, <1>2, <1>3, <1>4
<1> QED
  BY <1>1, <1>5, SameTypes DEF TypeInv, ChannelsType, ChildType, queues

\* Withhold leaves every variable of its side in its type.
LEMMA WithholdTypes ==
  ASSUME TypeInv, NEW c \in Connections, Withhold(c)
  PROVE  ChannelsType' /\ ChildType' /\ CompletionHeld'
<1>1. /\ UNCHANGED <<commands, controls, notifications, credit, childAlive>>
      /\ UNCHANGED <<phase, last, target, dropped, chan, syncs, sending, owner>>
      /\ admitted[c] # <<>> /\ sending[c].kind # "completion" /\ FinishFirst(c)
  BY DEF Withhold, FirstDone
<1>2. CompletionHeld'
  BY <1>1 DEF CompletionHeld, FinishFirst, TypeInv, ChildType
<1> QED
  BY <1>1, <1>2, FinishFirstTypes, SameTypes DEF TypeInv, ChannelsType, ChildType

\* The message that the child puts for the parent.
Notice(c) == [id |-> <<c, sending[c].kind, sending[c].n>>, c |-> c, kind |-> sending[c].kind,
              rev |-> sending[c].rev, q |-> sending[c].q, seq |-> sending[c].n]
\* PutNotification leaves every variable of its side in its type.
LEMMA PutNotificationTypes ==
  ASSUME TypeInv, NEW c \in Connections, PutNotification(c)
  PROVE  /\ ChannelsType' /\ ChildType' /\ CompletionHeld'
         /\ Heard(c) /\ ~sending[c].out
         /\ \/ /\ chan[c].synced >= sending[c].rev /\ chan[c].rev = sending[c].rev
               /\ Notice(c) \in Message /\ notifications' = Append(notifications, Notice(c))
               /\ sending' = [sending EXCEPT ![c].out = TRUE]
               /\ UNCHANGED <<results, chan, syncs, admitted, pump>>
            \/ SendOver(c, FALSE) /\ UNCHANGED notifications
<1>1. /\ UNCHANGED <<commands, controls, credit, childAlive>>
      /\ UNCHANGED <<phase, last, target, dropped, owner>>
      /\ Heard(c) /\ ~sending[c].out
  BY DEF PutNotification
<1>2. \/ /\ chan[c].synced >= sending[c].rev /\ chan[c].rev = sending[c].rev
         /\ notifications' = Append(notifications, Notice(c))
         /\ sending' = [sending EXCEPT ![c].out = TRUE]
         /\ UNCHANGED <<results, chan, syncs, admitted, pump>>
      \/ SendOver(c, FALSE) /\ UNCHANGED notifications
  BY DEF PutNotification, Notice
<1>3. sending \in [Connections -> Sending] /\ sending[c] \in Sending /\ sending[c].kind # "none"
      /\ notifications \in Seq(Message) /\ CompletionHeld
  <2>1. sending \in [Connections -> Sending] /\ notifications \in Seq(Message) /\ CompletionHeld
    BY DEF TypeInv, ChannelsType, ChildType
  <2>2. sending[c] \in Sending /\ sending[c] # Nobody
    BY <1>1, <2>1 DEF Heard
  <2> QED
    BY <2>1, <2>2 DEF Sending
<1>4. CASE SendOver(c, FALSE) /\ UNCHANGED notifications
  BY <1>1, <1>2, <1>4, SendOverTypes DEF TypeInv, ChannelsType, ChildType
<1>5. CASE /\ chan[c].synced >= sending[c].rev /\ chan[c].rev = sending[c].rev
           /\ notifications' = Append(notifications, Notice(c))
           /\ sending' = [sending EXCEPT ![c].out = TRUE]
           /\ UNCHANGED <<results, chan, syncs, admitted, pump>>
  <2>1. sending[c].n \in Nat /\ sending[c].kind \in {"message", "completion", "revoked"}
    BY <1>3 DEF Sending, Nobody
  <2>2. <<c, sending[c].kind, sending[c].n>> \in Ids
    BY <2>1 DEF Ids
  <2>3. Notice(c) \in Message
    <3>1. CASE sending[c].kind = "completion"
      <4>1. sending[c].q \in RequestIds /\ sending[c].rev \in Nat
        BY <1>3, <3>1 DEF Sending, Nobody
      <4> QED
        BY <2>1, <2>2, <3>1, <4>1 DEF Notice, Message
    <3>2. CASE sending[c].kind # "completion"
      <4>1. sending[c].q = "none" /\ sending[c].rev \in Nat
        BY <1>3, <3>2 DEF Sending, Nobody
      <4> QED
        BY <2>1, <2>2, <3>2, <4>1 DEF Notice, Message
    <3> QED
      BY <3>1, <3>2
  <2>4. notifications' \in Seq(Message)
    BY <1>3, <1>5, <2>3
  <2>5. [sending[c] EXCEPT !.out = TRUE] \in Sending
        /\ [sending[c] EXCEPT !.out = TRUE].kind = sending[c].kind
    <3>1. \/ sending[c] \in [kind : {"completion"}, n : Nat, q : RequestIds, rev : Nat, out : BOOLEAN]
          \/ sending[c] \in [kind : {"message", "revoked"}, n : Nat, q : {"none"}, rev : Nat, out : BOOLEAN]
      BY <1>3 DEF Sending, Nobody
    <3> QED
      BY <3>1 DEF Sending
  <2>6. sending' = [sending EXCEPT ![c] = [sending[c] EXCEPT !.out = TRUE]]
    BY <1>5
  <2>7. sending' \in [Connections -> Sending] /\ CompletionHeld'
    BY <1>3, <1>5, <2>5, <2>6 DEF CompletionHeld
  <2> QED
    BY <1>1, <1>2, <1>5, <2>3, <2>4, <2>7, SameTypes DEF TypeInv, ChannelsType, ChildType
<1> QED
  BY <1>2, <1>4, <1>5

\* CloseSession leaves every variable of its side in its type.
LEMMA CloseSessionTypes ==
  ASSUME TypeInv, NEW c \in Connections, CloseSession(c)
  PROVE  ChannelsType' /\ ChildType' /\ CompletionHeld'
<1>1. /\ UNCHANGED <<commands, controls, notifications, credit, childAlive>>
      /\ UNCHANGED <<phase, last, target, dropped, syncs, admitted, pump, sending, owner>>
      /\ Emit(<<Report("close", c, 0)>>)
  BY DEF CloseSession
<1>2. Report("close", c, 0) \in Result
  BY DEF Report, Result
<1> QED
  BY <1>1, <1>2, EmitOneTypes, CloseSessionChan DEF TypeInv, ChannelsType, ChildType, CompletionHeld

\* Revoke leaves every variable of its side in its type.
LEMMA RevokeTypes ==
  ASSUME TypeInv, NEW c \in Connections, Revoke(c)
  PROVE  ChannelsType' /\ ChildType' /\ CompletionHeld'
<1>1. /\ UNCHANGED <<queues, credit, childAlive>> /\ RequestClose(c)
      /\ UNCHANGED <<phase, last, target, dropped, admitted, pump, sending, owner>>
  BY DEF Revoke
<1> QED
  BY <1>1, RequestCloseTypes DEF TypeInv, ChannelsType, ChildType, CompletionHeld, queues

\* PumpStopped leaves every variable of its side in its type.
LEMMA PumpStoppedTypes ==
  ASSUME TypeInv, NEW c \in Connections, PumpStopped(c)
  PROVE  ChannelsType' /\ ChildType' /\ CompletionHeld'
<1>1. /\ UNCHANGED <<commands, controls, notifications, credit, childAlive>>
      /\ UNCHANGED <<phase, last, target, dropped, syncs, owner>>
      /\ Emit(Terminals(c)) /\ Forget(c, "completion")
      /\ admitted' = [admitted EXCEPT ![c] = <<>>] /\ pump' = [pump EXCEPT ![c] = "off"]
  BY DEF PumpStopped
<1>2. results' \in Seq(Result)
  BY <1>1, TerminalsTypes, EmitTypes
<1>3. /\ admitted \in [Connections -> Seq(Admission)] /\ sending \in [Connections -> Sending]
      /\ pump \in [Connections -> {"off", "on", "stopping"}] /\ CompletionHeld
  BY DEF TypeInv, ChildType
<1>4. /\ admitted' \in [Connections -> Seq(Admission)] /\ pump' \in [Connections -> {"off", "on", "stopping"}]
      /\ CompletionHeld'
  BY <1>1, <1>3 DEF CompletionHeld, Forget, Nobody
<1> QED
  BY <1>1, <1>2, <1>4, ForgetTypes, PumpStoppedChan DEF TypeInv, ChannelsType, ChildType

\* EndSession leaves every variable of its side in its type.
LEMMA EndSessionTypes ==
  ASSUME TypeInv, NEW c \in Connections, EndSession(c)
  PROVE  ChannelsType' /\ ChildType' /\ CompletionHeld'
<1>1. /\ UNCHANGED <<queues, credit, childAlive>>
      /\ UNCHANGED <<phase, last, target, dropped, syncs, admitted, pump, sending, owner>>
  BY DEF EndSession
<1> QED
  BY <1>1, EndSessionChan DEF TypeInv, ChannelsType, ChildType, CompletionHeld, queues

\* What a session that ends has not answered, with the report that it is over.
Open(c) == (IF chan[c].current = 0 THEN <<>> ELSE <<chan[c].current>>) \o chan[c].inbox
Failures(c) == [i \in DOMAIN Open(c) |-> Processed(c, Open(c)[i], FALSE)]
\* FinishConnection leaves every variable of its side in its type.
LEMMA FinishConnectionTypes ==
  ASSUME TypeInv, NEW c \in Connections, FinishConnection(c)
  PROVE  /\ ChannelsType' /\ ChildType' /\ CompletionHeld'
         /\ Failures(c) \in Seq(Result) /\ \A r \in Items(Failures(c)) : r.kind = "processed"
         /\ results' = results \o (Failures(c) \o <<Report("disconnected", c, 0)>>)
<1>1. /\ UNCHANGED <<commands, controls, notifications, credit, childAlive>>
      /\ UNCHANGED <<phase, last, target, dropped, syncs, admitted, pump, sending, owner>>
      /\ Emit(Failures(c) \o <<Report("disconnected", c, 0)>>)
  BY DEF FinishConnection, Failures, Open
<1>2. Report("disconnected", c, 0) \in Result
  BY DEF Report, Result
<1>3. Open(c) \in Seq(Nat)
  BY DEF Open, TypeInv, ChildType, ChanType
<1>4. ASSUME NEW i \in DOMAIN Open(c)
      PROVE  Processed(c, Open(c)[i], FALSE) \in Result
  BY <1>3 DEF Processed, Result
<1>5. Failures(c) \in Seq(Result)
  <2>1. Len(Open(c)) \in Nat /\ DOMAIN Open(c) = 1..Len(Open(c))
    BY <1>3
  <2>2. Failures(c) = [i \in 1..Len(Open(c)) |-> Processed(c, Open(c)[i], FALSE)]
    BY <2>1 DEF Failures
  <2>3. Failures(c) \in [1..Len(Open(c)) -> Result]
    BY <1>4, <2>1, <2>2
  <2> QED
    BY <2>1, <2>3, SeqDef
<1>6. \A r \in Items(Failures(c)) : r.kind = "processed"
  BY DEF Items, Failures, Processed
<1>7. Failures(c) \o <<Report("disconnected", c, 0)>> \in Seq(Result)
  BY <1>2, <1>5
<1>8. results' \in Seq(Result) /\ results' = results \o (Failures(c) \o <<Report("disconnected", c, 0)>>)
  BY <1>1, <1>7, EmitTypes
<1> QED
  BY <1>1, <1>5, <1>6, <1>8, FinishConnectionChan DEF TypeInv, ChannelsType, ChildType, CompletionHeld

\* DrainSession leaves every variable of its side in its type.
LEMMA DrainSessionTypes ==
  ASSUME TypeInv, NEW c \in Connections, DrainSession(c)
  PROVE  ChannelsType' /\ ChildType' /\ CompletionHeld'
<1>1. /\ UNCHANGED <<queues, credit, childAlive>> /\ Cancel(c)
      /\ UNCHANGED <<phase, last, target, dropped, admitted, owner>>
  BY DEF DrainSession
<1> QED
  BY <1>1, CancelTypes DEF TypeInv, ChannelsType, ChildType, queues

\* A control is taken.
LEMMA ControlTypes ==
  ASSUME TypeInv, NEW kind, Control(kind)
  PROVE  /\ controls # <<>> /\ controls' = Tail(controls) /\ controls' \in Seq(ControlMsg)
         /\ Head(controls) \in ControlMsg /\ Head(controls).kind = kind
<1>1. controls \in Seq(ControlMsg)
  BY DEF TypeInv, ChannelsType
<1> QED
  BY <1>1 DEF Control

\* The receipt that comes first in the controls.
Rcpt == Head(controls)
\* ControlReceipt leaves every variable of its side in its type.
LEMMA ControlReceiptTypes ==
  ASSUME TypeInv, ControlReceipt
  PROVE  /\ ChannelsType' /\ ChildType' /\ CompletionHeld'
         /\ Rcpt.id \in Ids /\ Rcpt.sent \in BOOLEAN
<1> DEFINE c == Rcpt.id[1]
           kind == Rcpt.id[2]
           n == Rcpt.id[3]
<1>1. /\ UNCHANGED <<commands, notifications, credit, childAlive>>
      /\ UNCHANGED <<phase, last, target, dropped, owner>>
      /\ Control("receipt")
      /\ \/ PublicationAcked(c, n) /\ ReceiptOfState(c, n, Rcpt.sent)
         \/ SendAcked(c, kind, n) /\ SendOver(c, Rcpt.sent)
         \/ UNCHANGED <<results, sessionVars>>
  BY DEF ControlReceipt, Rcpt
<1>2. Rcpt \in ControlMsg /\ Rcpt.kind = "receipt" /\ controls' \in Seq(ControlMsg)
  BY <1>1, ControlTypes DEF Rcpt
<1>3. Rcpt.id \in Ids /\ Rcpt.sent \in BOOLEAN
  BY <1>2 DEF ControlMsg
<1>4. c \in Connections /\ n \in Nat
  BY <1>3 DEF Ids
<1> HIDE DEF c, n, kind
<1>5. CASE PublicationAcked(c, n) /\ ReceiptOfState(c, n, Rcpt.sent)
  <2>1. /\ UNCHANGED <<results, admitted, pump, sending>>
        /\ syncs' = [syncs EXCEPT ![c] = Tail(@)] \/ syncs' = [syncs EXCEPT ![c] = <<>>]
    BY <1>5 DEF ReceiptOfState
  <2>2. syncs[c] # <<>> /\ syncs \in [Connections -> Seq(Sync)]
    BY <1>5 DEF PublicationAcked, TypeInv, ChildType
  <2>3. syncs' \in [Connections -> Seq(Sync)]
    <3>1. Tail(syncs[c]) \in Seq(Sync) /\ <<>> \in Seq(Sync)
      BY <1>4, <2>2, HeadTailProperties
    <3> QED
      BY <1>4, <2>1, <2>2, <3>1
  <2> QED
    BY <1>1, <1>2, <1>3, <1>4, <1>5, <2>1, <2>3, ReceiptOfStateChan
    DEF TypeInv, ChannelsType, ChildType, CompletionHeld
<1>6. CASE SendOver(c, Rcpt.sent)
  BY <1>1, <1>2, <1>3, <1>4, <1>6, SendOverTypes DEF TypeInv, ChannelsType, ChildType
<1>7. CASE UNCHANGED <<results, sessionVars>>
  BY <1>1, <1>2, <1>3, <1>7, SameTypes DEF TypeInv, ChannelsType, ChildType, CompletionHeld, sessionVars
<1> QED
  BY <1>1, <1>5, <1>6, <1>7

\* ControlDisconnect leaves every variable of its side in its type.
LEMMA ControlDisconnectTypes ==
  ASSUME TypeInv, ControlDisconnect
  PROVE  /\ ChannelsType' /\ ChildType' /\ CompletionHeld'
         /\ Head(controls) \in ControlMsg /\ Head(controls).c \in Connections /\ Head(controls).seq \in Nat
<1> DEFINE c == Head(controls).c
<1>1. /\ UNCHANGED <<commands, notifications, credit, childAlive>>
      /\ UNCHANGED <<phase, last, target, admitted, owner>> /\ Control("disconnect")
      /\ \/ Cancel(c) /\ UNCHANGED <<results, dropped>>
         \/ UNCHANGED <<chan, syncs, pump, sending>> /\ UNCHANGED <<results, dropped>>
         \/ /\ dropped' \in {dropped, dropped \cup {c}} /\ Emit(<<Report("disconnected", c, 0)>>)
            /\ UNCHANGED <<chan, syncs, pump, sending>>
  BY DEF ControlDisconnect, Remembered
<1>2. Head(controls) \in ControlMsg /\ Head(controls).kind = "disconnect" /\ controls' \in Seq(ControlMsg)
  BY <1>1, ControlTypes
<1>3. c \in Connections /\ Head(controls).seq \in Nat
  BY <1>2 DEF ControlMsg
<1>4. Report("disconnected", c, 0) \in Result
  BY <1>3 DEF Report, Result
<1> HIDE DEF c
<1>5. CASE Cancel(c) /\ UNCHANGED <<results, dropped>>
  BY <1>1, <1>2, <1>3, <1>5, CancelTypes DEF TypeInv, ChannelsType, ChildType, c
<1>6. CASE UNCHANGED <<chan, syncs, pump, sending>> /\ UNCHANGED <<results, dropped>>
  BY <1>1, <1>2, <1>3, <1>6, SameTypes DEF TypeInv, ChannelsType, ChildType, CompletionHeld, c
<1>7. CASE /\ dropped' \in {dropped, dropped \cup {c}} /\ Emit(<<Report("disconnected", c, 0)>>)
           /\ UNCHANGED <<chan, syncs, pump, sending>>
  BY <1>1, <1>2, <1>3, <1>4, <1>7, SameTypes, EmitOneTypes
  DEF TypeInv, ChannelsType, ChildType, CompletionHeld, c
<1> QED
  BY <1>1, <1>5, <1>6, <1>7

\* ControlShutdown leaves every variable of its side in its type.
LEMMA ControlShutdownTypes ==
  ASSUME TypeInv, ControlShutdown
  PROVE  ChannelsType' /\ ChildType' /\ CompletionHeld'
<1>1. /\ UNCHANGED <<commands, results, notifications, credit, childAlive>>
      /\ UNCHANGED <<last, dropped, sessionVars, owner>>
      /\ Control("shutdown") /\ target' = Head(controls).seq /\ phase' \in {"draining", "refusing"}
  BY DEF ControlShutdown
<1>2. Head(controls) \in ControlMsg /\ Head(controls).kind = "shutdown" /\ controls' \in Seq(ControlMsg)
  BY <1>1, ControlTypes
<1>3. Head(controls).seq \in Nat
  BY <1>2 DEF ControlMsg
<1> QED
  BY <1>1, <1>2, <1>3, SameTypes DEF TypeInv, ChannelsType, ChildType, CompletionHeld, sessionVars

\* StopOwner leaves every variable of its side in its type.
LEMMA StopOwnerTypes ==
  ASSUME TypeInv, StopOwner
  PROVE  ChannelsType' /\ ChildType' /\ CompletionHeld'
<1>1. /\ UNCHANGED <<queues, credit, childAlive>>
      /\ UNCHANGED <<last, target, dropped, sessionVars, owner>> /\ phase' = "closing"
  BY DEF StopOwner
<1> QED
  BY <1>1, SameTypes DEF TypeInv, ChannelsType, ChildType, CompletionHeld, sessionVars, queues

\* Stopped leaves every variable of its side in its type.
LEMMA StoppedTypes ==
  ASSUME TypeInv, Stopped
  PROVE  ChannelsType' /\ ChildType' /\ CompletionHeld'
<1>1. /\ UNCHANGED <<commands, controls, notifications, credit>>
      /\ UNCHANGED <<last, target, dropped, sessionVars, owner>> /\ phase' = "stopped"
      /\ childAlive' = FALSE /\ Emit(<<[kind |-> "stopped"]>>)
  BY DEF Stopped
<1>2. [kind |-> "stopped"] \in Result
  BY DEF Result
<1> QED
  BY <1>1, <1>2, EmitOneTypes, SameTypes DEF TypeInv, ChannelsType, ChildType, CompletionHeld, sessionVars

\* A channel of which nothing is known.
LEMMA NoSessionTypes ==
  ASSUME chan' = Each(NoSession)
  PROVE  ChanType' /\ \A c \in Connections : chan'[c] = NoSession
<1>1. DOMAIN chan' = Connections /\ \A c \in Connections : chan'[c] = NoSession
  BY DEF Each
<1>2. /\ DOMAIN NoSession = ChanFields /\ NoSession.at \in ChanPlaces /\ NoSession.inbox \in Seq(Nat)
      /\ NoSession.rev \in Nat /\ NoSession.current \in Nat /\ NoSession.synced \in Nat /\ NoSession.awaits \in Nat
      /\ NoSession.bound \in BOOLEAN /\ NoSession.revoked \in BOOLEAN
  BY DEF NoSession, ChanFields, ChanPlaces
<1> QED
  BY <1>1, <1>2 DEF ChanType

\* ChildLost leaves every variable of its side in its type.
LEMMA ChildLostTypes ==
  ASSUME TypeInv, ChildLost
  PROVE  ChildType' /\ CompletionHeld' /\ childAlive' = FALSE
<1>1. /\ childAlive' = FALSE /\ phase' = "lost" /\ last' = 0 /\ target' = 0 /\ dropped' = {}
      /\ owner' = <<>> /\ chan' = Each(NoSession)
      /\ syncs' = [c \in Connections |-> <<>>] /\ admitted' = [c \in Connections |-> <<>>]
      /\ pump' = [c \in Connections |-> "off"] /\ sending' = [c \in Connections |-> Nobody]
  BY DEF ChildLost, Each
<1>2. CompletionHeld'
  BY <1>1 DEF CompletionHeld, Nobody
<1> QED
  BY <1>1, <1>2, NoSessionTypes, NobodyType DEF ChildType

\* ChildDies leaves every variable of its side in its type.
LEMMA ChildDiesTypes ==
  ASSUME TypeInv, ChildDies
  PROVE  /\ ChannelsType' /\ ChildType' /\ CompletionHeld'
         /\ \E i \in 0..Len(results) : results' = SubSeq(results, 1, i)
         /\ \E j \in 0..Len(notifications) : notifications' = SubSeq(notifications, 1, j)
<1>1. /\ UNCHANGED <<commands, controls, credit>> /\ ChildLost
      /\ \E i \in 0..Len(results) : results' = SubSeq(results, 1, i)
      /\ \E j \in 0..Len(notifications) : notifications' = SubSeq(notifications, 1, j)
  BY DEF ChildDies
<1>2. results \in Seq(Result) /\ notifications \in Seq(Message)
  BY DEF TypeInv, ChannelsType
<1>3. results' \in Seq(Result)
  BY <1>1, <1>2
<1>4. notifications' \in Seq(Message)
  BY <1>1, <1>2
<1> QED
  BY <1>1, <1>3, <1>4, ChildLostTypes DEF TypeInv, ChannelsType

\* The first state has its types.
LEMMA InitTypes == Init => TypeInv
<1> SUFFICES ASSUME Init PROVE TypeInv
  OBVIOUS
<1>1. ChannelsType
  BY ChannelsAssumption DEF Init, ChannelsInit, ChannelsType
<1>2. ConnType
  BY DEF Init, ParentInit, ConnType, ConnFields
<1>3. WorkerType
  BY DEF Init, ParentInit, WorkerType, WorkerFields, Places, Names
<1>4. None \in Entry
  BY DEF None, Entry
<1>5. ParentType
  <2>1. wire \in [Connections -> Seq(Written)] /\ running \in [Connections -> [RequestIds -> Entry]]
        /\ frames \in [Connections -> Nat]
    BY <1>4 DEF Init, ParentInit
  <2> QED
    BY <1>2, <1>3, <2>1 DEF Init, ParentInit, ParentType
<1>6. ChanType
  <2>1. DOMAIN chan = Connections /\ \A c \in Connections : chan[c] = NoSession
    BY DEF Init, ChildInit, Each
  <2>2. /\ DOMAIN NoSession = ChanFields /\ NoSession.at \in ChanPlaces /\ NoSession.inbox \in Seq(Nat)
        /\ NoSession.rev \in Nat /\ NoSession.current \in Nat /\ NoSession.synced \in Nat /\ NoSession.awaits \in Nat
        /\ NoSession.bound \in BOOLEAN /\ NoSession.revoked \in BOOLEAN
    BY DEF NoSession, ChanFields, ChanPlaces
  <2> QED
    BY <2>1, <2>2 DEF ChanType
<1>7. ChildType /\ CompletionHeld
  BY <1>6, NobodyType DEF Init, ChildInit, ChildType, CompletionHeld, Each, Nobody
<1> QED
  BY <1>1, <1>5, <1>7 DEF TypeInv

\* Every step of the two processes keeps the types.
LEMMA ParentTypes ==
  ASSUME TypeInv, ParentStep \/ ClientSends
  PROVE  ChannelsType' /\ ParentType'
BY Zenon, ConnectTypes, SendEnvelopeTypes, TakeRequestTypes, EnqueueTypes, AdmittedTypes, EndWorkerTypes,
   DisconnectStartTypes, DisconnectEndTypes, BeginWriteTypes, WriteTypes, FinishDeliveryTypes,
   ReadNotificationTypes, ReadAnswerTypes, ReadTerminalTypes, ReadProcessedTypes, ReadStateTypes,
   ReadSocketCloseTypes, ReadDisconnectedTypes, ChildEndedTypes, EndCloseTypes
DEF ParentStep, ClientSends
\* A step of the child keeps the types.
LEMMA ChildTypes ==
  ASSUME TypeInv, ChildStep
  PROVE  ChannelsType' /\ ChildType' /\ CompletionHeld'
BY Zenon, ReceiveRefusedTypes, ReceiveConnectTypes, ReceiveEnvelopeTypes, ReceiveEnqueueTypes,
   TakeEnvelopeTypes, CallOwnerTypes, OwnerRunTypes, AfterSyncTypes, PublishBindingTypes, StartSendTypes,
   WithholdTypes, PutNotificationTypes, CloseSessionTypes, PumpStoppedTypes, EndSessionTypes,
   FinishConnectionTypes, DrainSessionTypes, ControlReceiptTypes, ControlDisconnectTypes,
   ControlShutdownTypes, StopOwnerTypes, StoppedTypes
DEF ChildStep
\* The types of the parent depend on the parent's variables alone.
LEMMA SameParentTypes ==
  ASSUME TypeInv, UNCHANGED parentVars
  PROVE  ParentType'
BY SameTypes DEF TypeInv, ParentType, parentVars, connVars, tableVars

\* A step keeps the types.
LEMMA TypesStep ==
  ASSUME TypeInv, [Next]_vars
  PROVE  TypeInv'
<1>0. TypeInv
  OBVIOUS
<1>c. UNCHANGED childVars => ChildType' /\ CompletionHeld'
  BY SameTypes DEF TypeInv, CompletionHeld, childVars, sessionVars
<1>1. CASE Parent
  BY <1>1, <1>c, ParentTypes DEF Parent, TypeInv
<1>2. CASE Child
  BY <1>2, ChildTypes, SameParentTypes DEF Child, TypeInv
<1>3. CASE ClientSends /\ UNCHANGED <<childVars, faults>>
  BY <1>3, <1>c, ParentTypes DEF TypeInv
<1>4. CASE CloseTimeout /\ ChildLost /\ UNCHANGED faults
  <2>1. UNCHANGED <<queues, credit>>
    BY <1>4 DEF CloseTimeout
  <2>2. ParentType' /\ ChildType' /\ CompletionHeld' /\ childAlive' = FALSE
    BY <1>4, CloseTimeoutTypes, ChildLostTypes
  <2>3. ChannelsType
    BY DEF TypeInv
  <2>4. ChannelsType'
    BY <2>1, <2>2, <2>3 DEF ChannelsType, queues
  <2> QED
    BY <2>2, <2>4 DEF TypeInv
<1>5. CASE Disturbance
  <2>1. ASSUME NEW c \in Connections, ClientLost(c), UNCHANGED childVars PROVE TypeInv'
    BY <1>c, <2>1, ClientLostTypes DEF TypeInv
  <2>2. ASSUME NEW c \in Connections, Revoke(c), UNCHANGED parentVars PROVE TypeInv'
    BY <2>2, RevokeTypes, SameParentTypes DEF TypeInv
  <2>3. CASE ChildDies /\ UNCHANGED parentVars
    BY <2>3, ChildDiesTypes, SameParentTypes DEF TypeInv
  <2>4. CASE StartClose /\ UNCHANGED childVars
    BY <1>c, <2>4, StartCloseTypes DEF TypeInv
  <2> QED
    BY <1>5, <2>1, <2>2, <2>3, <2>4 DEF Disturbance
<1>6. CASE UNCHANGED vars
  <2>1. UNCHANGED <<queues, credit, childAlive, parentVars, childVars>>
    BY <1>6 DEF vars
  <2> QED
    BY <1>c, <2>1, SameParentTypes DEF TypeInv, ChannelsType, queues
<1> QED
  BY <1>1, <1>2, <1>3, <1>4, <1>5, <1>6 DEF Next, Environment
------------------------------------------------------------------------------
\* What is in a sequence after Append, Tail, \o and SubSeq.
LEMMA ItemsOf ==
  ASSUME NEW S, NEW s \in Seq(S)
  PROVE  /\ Items(s) \subseteq S
         /\ \A e \in S : Items(Append(s, e)) = Items(s) \cup {e}
         /\ s # <<>> => /\ Items(Tail(s)) \subseteq Items(s) /\ Head(s) \in Items(s)
                        /\ Items(s) = Items(Tail(s)) \cup {Head(s)}
         /\ \A t \in Seq(S) : Items(s \o t) = Items(s) \cup Items(t)
         /\ \A k \in 0..Len(s) : Items(SubSeq(s, 1, k)) \subseteq Items(s)
         /\ \A m \in Items(s) : \E i \in 1..Len(s) : m = s[i]
         /\ \A i \in 1..Len(s) : s[i] \in Items(s)
<1>1. DOMAIN s = 1..Len(s) /\ Len(s) \in Nat /\ \A i \in 1..Len(s) : s[i] \in S
  OBVIOUS
<1>2. Items(s) \subseteq S /\ (\A m \in Items(s) : \E i \in 1..Len(s) : m = s[i])
      /\ \A i \in 1..Len(s) : s[i] \in Items(s)
  BY <1>1 DEF Items
<1>3. ASSUME NEW e \in S
      PROVE  Items(Append(s, e)) = Items(s) \cup {e}
  <2>1. /\ Append(s, e) \in Seq(S) /\ Len(Append(s, e)) = Len(s) + 1
        /\ \A i \in 1..Len(s) : Append(s, e)[i] = s[i]
        /\ Append(s, e)[Len(s) + 1] = e
    BY AppendProperties
  <2>2. DOMAIN Append(s, e) = 1..(Len(s) + 1)
    BY <2>1
  <2>3. \A i : i \in 1..(Len(s) + 1) <=> i \in 1..Len(s) \/ i = Len(s) + 1
    BY <1>1
  <2> HIDE DEF Items
  <2>4. Items(Append(s, e)) = {Append(s, e)[i] : i \in 1..(Len(s) + 1)}
    BY <2>2 DEF Items
  <2>5. Items(s) = {s[i] : i \in 1..Len(s)}
    BY <1>1 DEF Items
  <2> QED
    BY <2>1, <2>3, <2>4, <2>5
<1>4. ASSUME s # <<>>
      PROVE  /\ Items(Tail(s)) \subseteq Items(s) /\ Head(s) \in Items(s)
             /\ Items(s) = Items(Tail(s)) \cup {Head(s)}
  <2>1. /\ Tail(s) \in Seq(S) /\ Len(Tail(s)) = Len(s) - 1 /\ Len(s) >= 1
        /\ \A i \in 1..(Len(s) - 1) : Tail(s)[i] = s[i + 1]
    BY <1>4, HeadTailProperties, EmptySeq
  <2>2. Head(s) = s[1]
    BY <1>4
  <2>3. DOMAIN Tail(s) = 1..(Len(s) - 1)
    BY <2>1
  <2>4. Items(Tail(s)) = {Tail(s)[i] : i \in 1..(Len(s) - 1)} /\ Items(s) = {s[i] : i \in 1..Len(s)}
    BY <1>1, <2>3 DEF Items
  <2>5. Items(Tail(s)) \subseteq Items(s) /\ Head(s) \in Items(s)
    BY <1>1, <2>1, <2>2, <2>4
  <2>6. ASSUME NEW i \in 1..Len(s)
        PROVE  s[i] \in Items(Tail(s)) \cup {Head(s)}
    <3>1. i = 1 \/ (i - 1 \in 1..(Len(s) - 1) /\ (i - 1) + 1 = i)
      BY <1>1
    <3> QED
      BY <2>1, <2>2, <2>4, <3>1
  <2> QED
    BY <2>4, <2>5, <2>6
<1>5. ASSUME NEW t \in Seq(S)
      PROVE  Items(s \o t) = Items(s) \cup Items(t)
  <2> DEFINE n == Len(s)
             k == Len(t)
  <2>1. /\ s \o t \in Seq(S) /\ Len(s \o t) = n + k /\ n \in Nat /\ k \in Nat
        /\ \A i \in 1..(n + k) : (s \o t)[i] = IF i <= n THEN s[i] ELSE t[i - n]
    BY ConcatProperties
  <2>2. Items(s \o t) = {(s \o t)[i] : i \in 1..(n + k)} /\ Items(s) = {s[i] : i \in 1..n}
        /\ Items(t) = {t[i] : i \in 1..k}
    BY <1>1, <2>1 DEF Items
  <2> HIDE DEF n, k
  <2>3. ASSUME NEW i \in 1..(n + k)
        PROVE  (s \o t)[i] \in Items(s) \cup Items(t)
    <3>1. i \in 1..n \/ (~(i <= n) /\ i - n \in 1..k)
      BY <2>1
    <3> QED
      BY <2>1, <2>2, <3>1
  <2>4. ASSUME NEW i \in 1..n
        PROVE  s[i] \in Items(s \o t)
    <3>1. i \in 1..(n + k) /\ i <= n
      BY <2>1
    <3> QED
      BY <2>1, <2>2, <3>1
  <2>5. ASSUME NEW i \in 1..k
        PROVE  t[i] \in Items(s \o t)
    <3>1. n + i \in 1..(n + k) /\ ~(n + i <= n) /\ (n + i) - n = i
      BY <2>1
    <3> QED
      BY <2>1, <2>2, <3>1
  <2> QED
    BY <2>2, <2>3, <2>4, <2>5
<1>6. ASSUME NEW k \in 0..Len(s)
      PROVE  Items(SubSeq(s, 1, k)) \subseteq Items(s)
  <2>1. /\ k \in Nat /\ 1 \in Int /\ k \in Int /\ \A i \in 1..k : i \in 1..Len(s) /\ s[i] \in S
        /\ k - 1 + 1 = k /\ \A i \in 1..k : 1 + i - 1 = i
    BY <1>1
  <2>2. /\ SubSeq(s, 1, k) \in Seq(S) /\ Len(SubSeq(s, 1, k)) = IF 1 <= k THEN k - 1 + 1 ELSE 0
        /\ \A i \in 1..(k - 1 + 1) : SubSeq(s, 1, k)[i] = s[1 + i - 1]
    BY <2>1, SubSeqProperties
  <2>3. Len(SubSeq(s, 1, k)) = k /\ \A i \in 1..k : SubSeq(s, 1, k)[i] = s[i]
    BY <2>1, <2>2
  <2>4. DOMAIN SubSeq(s, 1, k) = 1..k
    BY <2>2, <2>3
  <2>5. Items(SubSeq(s, 1, k)) = {SubSeq(s, 1, k)[i] : i \in 1..k}
    BY <2>4 DEF Items
  <2> QED
    BY <1>2, <2>1, <2>3, <2>5
<1> QED
  BY <1>2, <1>3, <1>4, <1>5, <1>6

\* The steps of the system, by what they leave alone.
FromParent == Parent \/ (ClientSends /\ UNCHANGED <<childVars, faults>>)
\* The kinds of a step: of the parent, one of its tasks, its reader, the child, the
\* channels, a fault, a stutter.
LEMMA StepCases ==
  ASSUME [Next]_vars
  PROVE  \/ FromParent
         \/ Child
         \/ CloseTimeout /\ ChildLost
         \/ (\E c \in Connections : ClientLost(c)) /\ UNCHANGED childVars
         \/ childAlive /\ (\E c \in Connections : Revoke(c)) /\ UNCHANGED parentVars
         \/ ChildDies /\ UNCHANGED parentVars
         \/ StartClose /\ UNCHANGED childVars
         \/ UNCHANGED vars
BY DEF Next, Environment, Disturbance, FromParent

------------------------------------------------------------------------------
\* The numbers of the commands: they grow along the queue, the child has
\* received up to last, and none is beyond sequence.
CommandsOrdered ==
    /\ \A i, j \in 1..Len(commands) : i < j => commands[i].seq < commands[j].seq
    /\ \A m \in Items(commands) : 0 < m.seq /\ m.seq <= sequence /\ (childAlive => last < m.seq)
    /\ last <= sequence

\* What the steps do to the commands and to the permits.
Queues(m) ==
    /\ m \in Command /\ m.seq = sequence + 1
    /\ commands' = Append(commands, m) /\ sequence' = sequence + 1
Takes ==
    /\ commands # <<>> /\ commands' = Tail(commands) /\ last' = Head(commands).seq
    /\ childAlive /\ UNCHANGED childAlive

\* A handler that submits a command appends it, and registers what it awaits.
LEMMA SubmitQueues ==
  ASSUME TypeInv, NEW c \in Connections, NEW op, NEW q, NEW rev \in Nat,
         \/ op = "enqueue" /\ q \in RequestIds
         \/ op \in {"connect", "envelope"} /\ q = "none",
         Submit(op, c, q, rev)
  PROVE  /\ Queues(NewCommand(op, c, q, rev))
         /\ NewCommand(op, c, q, rev).op = op /\ NewCommand(op, c, q, rev).c = c
         /\ NewCommand(op, c, q, rev).rev = rev
<1>1. /\ NewCommand(op, c, q, rev).op = op /\ NewCommand(op, c, q, rev).c = c
      /\ NewCommand(op, c, q, rev).rev = rev /\ NewCommand(op, c, q, rev).seq = sequence + 1
  BY DEF NewCommand
<1> QED
  BY <1>1, SubmitTypes DEF Queues

\* The parent's calls: a command is queued, or nothing is.
LEMMA ConnectQueues ==
  ASSUME TypeInv, NEW c \in Connections, Connect(c)
  PROVE  /\ UNCHANGED <<credit, childAlive>>
         /\ \/ Admits(c) /\ childAlive /\ Queues(NewCommand("connect", c, "none", 0))
            \/ ~Admits(c) /\ UNCHANGED <<commands, sequence>>
<1>1. UNCHANGED <<credit, childAlive>>
  BY DEF Connect
<1>2. CASE Admits(c)
  <2>1. Submit("connect", c, "none", 0) /\ childAlive
    BY <1>2, Zenon DEF Connect, Admits, MaySubmit
  <2> QED
    BY <1>1, <1>2, <2>1, SubmitQueues
<1>3. CASE ~Admits(c)
  BY <1>1, <1>3, Zenon DEF Connect, Admits
<1> QED
  BY <1>2, <1>3

Takable(c) == ~conn[c].closed /\ Table < Capacity /\ MaySubmit
\* An envelope is queued with the next number, or nothing is.
LEMMA SendEnvelopeQueues ==
  ASSUME TypeInv, NEW c \in Connections, SendEnvelope(c)
  PROVE  /\ UNCHANGED <<credit, childAlive>>
         /\ \/ Takable(c) /\ childAlive /\ Queues(NewCommand("envelope", c, "none", 0))
            \/ ~Takable(c) /\ UNCHANGED <<commands, sequence>>
<1>1. UNCHANGED <<credit, childAlive>>
  BY DEF SendEnvelope
<1>2. CASE Takable(c)
  <2>1. Submit("envelope", c, "none", 0) /\ childAlive
    BY <1>2, Zenon DEF SendEnvelope, Takable, MaySubmit
  <2> QED
    BY <1>1, <1>2, <2>1, SubmitQueues
<1>3. CASE ~Takable(c)
  BY <1>1, <1>3, Zenon DEF SendEnvelope, Takable
<1> QED
  BY <1>2, <1>3

Permitted(c) ==
    /\ running[c][worker[c].q] = None /\ Table < Capacity
    /\ conn[c].bound /\ ~conn[c].revoked
    /\ credit > 0 /\ MaySubmit
\* An admission takes a permit and is queued with the next number.
LEMMA EnqueueQueues ==
  ASSUME TypeInv, NEW c \in Connections, Enqueue(c)
  PROVE  /\ UNCHANGED childAlive
         /\ \/ /\ Permitted(c) /\ ~conn[c].broken /\ childAlive /\ credit > 0 /\ credit' = credit - 1
               /\ Queues(NewCommand("enqueue", c, worker[c].q, conn[c].rev))
            \/ UNCHANGED <<commands, sequence, credit>>
<1>1. UNCHANGED childAlive
  BY DEF Enqueue
<1>2. CASE ~conn[c].broken /\ Permitted(c)
  <2>1. /\ Submit("enqueue", c, worker[c].q, conn[c].rev) /\ childAlive
        /\ credit' = credit - 1 /\ credit > 0
    BY <1>2, Zenon DEF Enqueue, Permitted, MaySubmit
  <2>2. worker[c].q \in RequestIds /\ conn[c].rev \in Nat
    BY DEF Enqueue, TypeInv, ParentType, WorkerType, ConnType
  <2> QED
    BY <1>1, <1>2, <2>1, <2>2, SubmitQueues
<1>3. CASE conn[c].broken \/ ~Permitted(c)
  BY <1>1, <1>3, Zenon DEF Enqueue, Permitted
<1> QED
  BY <1>2, <1>3

\* The other steps leave the commands, their numbers and the permits alone,
\* but for the steps of the owner thread and of those who wait for it.
LEMMA OtherParentSteps ==
  ASSUME FromParent
  PROVE  \/ UNCHANGED <<commands, sequence, credit, childAlive, childVars>>
         \/ (\E c \in Connections : Connect(c) \/ Enqueue(c) \/ SendEnvelope(c)) /\ UNCHANGED childVars
<1> USE DEF queues, parentVars, connVars, tableVars
<1>1. ASSUME NEW c \in Connections, Admitted(c) \/ EndWorker(c) \/ DisconnectStart(c) \/ DisconnectEnd(c)
      PROVE  UNCHANGED <<commands, sequence, credit, childAlive>>
  BY <1>1 DEF Admitted, EndWorker, DisconnectStart, DisconnectEnd
<1>2. ASSUME NEW s \in sends, BeginWrite(s) \/ Write(s) \/ FinishDelivery(s)
      PROVE  UNCHANGED <<commands, sequence, credit, childAlive>>
  BY <1>2 DEF BeginWrite, Write, FinishDelivery
<1>3. ASSUME \/ ReadNotification \/ ReadAnswer \/ ReadTerminal \/ ReadProcessed \/ ReadState
             \/ ReadSocketClose \/ ReadDisconnected \/ ChildEnded \/ EndClose
      PROVE  UNCHANGED <<commands, sequence, credit, childAlive>>
  BY <1>3 DEF ReadNotification, ReadAnswer, ReadTerminal, ReadProcessed, ReadState, ReadSocketClose,
              ReadDisconnected, ChildEnded, EndClose
<1>4. ASSUME NEW c \in Connections, NEW q \in RequestIds, TakeRequest(c, q)
      PROVE  UNCHANGED <<commands, sequence, credit, childAlive>>
  BY <1>4 DEF TakeRequest
<1> QED
  BY <1>1, <1>2, <1>3, <1>4, Zenon DEF FromParent, Parent, ParentStep, ClientSends
\* So do the other steps of the child.
LEMMA OtherChildSteps ==
  ASSUME Child
  PROVE  \/ UNCHANGED <<commands, last, credit, childAlive, owner, parentVars>>
         \/ (\/ ReceiveRefused \/ ReceiveConnect \/ ReceiveEnvelope \/ ReceiveEnqueue
             \/ OwnerRun \/ Stopped \/ \E c \in Connections : CallOwner(c)) /\ UNCHANGED parentVars
<1> USE DEF queues
<1>1. ASSUME ControlReceipt \/ ControlDisconnect \/ ControlShutdown \/ StopOwner
      PROVE  UNCHANGED <<commands, last, credit, childAlive, owner>>
  BY <1>1 DEF ControlReceipt, ControlDisconnect, ControlShutdown, StopOwner
<1>2. ASSUME NEW c \in Connections,
             \/ TakeEnvelope(c) \/ AfterSync(c)
             \/ PublishBinding(c) \/ StartSend(c) \/ Withhold(c) \/ PutNotification(c)
             \/ CloseSession(c) \/ PumpStopped(c) \/ EndSession(c)
             \/ FinishConnection(c) \/ DrainSession(c)
      PROVE  UNCHANGED <<commands, last, credit, childAlive, owner>>
  BY <1>2 DEF TakeEnvelope, AfterSync, PublishBinding, StartSend, Withhold, PutNotification, CloseSession,
              PumpStopped, EndSession, FinishConnection, DrainSession
<1> QED
  BY <1>1, <1>2, Zenon DEF Child, ChildStep

\* A queued command is the last one, and a received one was the first.
LEMMA QueuesOrdered ==
  ASSUME TypeInv, CommandsOrdered, NEW m, Queues(m), UNCHANGED <<last, childAlive>>
  PROVE  CommandsOrdered' /\ m \notin Items(commands)
<1>1. /\ commands \in Seq(Command) /\ m \in Command /\ sequence \in Nat /\ last \in Nat
      /\ m.seq = sequence + 1 /\ commands' = Append(commands, m) /\ sequence' = sequence + 1
  BY DEF TypeInv, ChannelsType, ParentType, ChildType, Queues
<1>2. /\ Len(commands) \in Nat /\ Len(commands') = Len(commands) + 1
      /\ \A i \in 1..Len(commands) : commands'[i] = commands[i]
      /\ commands'[Len(commands) + 1] = m
  BY <1>1, AppendProperties
<1>3. /\ Items(commands') = Items(commands) \cup {m}
      /\ \A i \in 1..Len(commands) : commands[i] \in Items(commands)
      /\ Items(commands) \subseteq Command
  BY <1>1, ItemsOf
<1>4. \A k \in Command : k.seq \in Nat
  BY DEF Command
<1>5. ASSUME NEW k \in Items(commands)
      PROVE  k.seq \in Nat /\ 0 < k.seq /\ k.seq < m.seq /\ k.seq <= sequence /\ (childAlive => last < k.seq)
  BY <1>1, <1>3, <1>4, <1>5 DEF CommandsOrdered
<1>6. ASSUME NEW i \in 1..Len(commands'), NEW j \in 1..Len(commands'), i < j
      PROVE  commands'[i].seq < commands'[j].seq
  <2>1. i \in 1..Len(commands) /\ (j \in 1..Len(commands) \/ j = Len(commands) + 1)
    BY <1>2, <1>6
  <2> QED
    BY <1>2, <1>3, <1>5, <1>6, <2>1 DEF CommandsOrdered
<1>7. ASSUME NEW k \in Items(commands')
      PROVE  0 < k.seq /\ k.seq <= sequence' /\ (childAlive' => last' < k.seq)
  <2>1. CASE k = m
    BY <1>1, <2>1 DEF CommandsOrdered
  <2>2. CASE k \in Items(commands)
    BY <1>1, <1>5, <2>2
  <2> QED
    BY <1>3, <2>1, <2>2
<1>8. last' <= sequence'
  BY <1>1 DEF CommandsOrdered
<1>9. m \notin Items(commands)
  BY <1>1, <1>5
<1> QED
  BY <1>6, <1>7, <1>8, <1>9 DEF CommandsOrdered
\* Taking the first command leaves the rest in order.
LEMMA TakesOrdered ==
  ASSUME TypeInv, CommandsOrdered, Takes, UNCHANGED sequence
  PROVE  CommandsOrdered' /\ Head(commands) \notin Items(Tail(commands))
<1>1. /\ commands \in Seq(Command) /\ sequence \in Nat /\ last \in Nat /\ commands # <<>>
      /\ commands' = Tail(commands) /\ last' = Head(commands).seq /\ childAlive /\ childAlive'
  BY DEF TypeInv, ChannelsType, ParentType, ChildType, Takes
<1>2. /\ Tail(commands) \in Seq(Command) /\ Len(Tail(commands)) = Len(commands) - 1 /\ Len(commands) >= 1
      /\ Len(commands) \in Nat
      /\ \A i \in 1..(Len(commands) - 1) : Tail(commands)[i] = commands[i + 1]
      /\ Head(commands) = commands[1]
  BY <1>1, HeadTailProperties, EmptySeq
<1>3. /\ Items(Tail(commands)) \subseteq Items(commands) /\ Head(commands) \in Items(commands)
      /\ \A k \in Items(Tail(commands)) : \E i \in 1..Len(Tail(commands)) : k = Tail(commands)[i]
      /\ Items(commands) \subseteq Command
  BY <1>1, <1>2, ItemsOf
<1>4. \A k \in Command : k.seq \in Nat
  BY DEF Command
<1>5. ASSUME NEW i \in 1..Len(commands'), NEW j \in 1..Len(commands'), i < j
      PROVE  commands'[i].seq < commands'[j].seq
  <2>1. /\ i + 1 \in 1..Len(commands) /\ j + 1 \in 1..Len(commands) /\ i + 1 < j + 1
        /\ i \in 1..(Len(commands) - 1) /\ j \in 1..(Len(commands) - 1)
    BY <1>1, <1>2, <1>5
  <2> QED
    BY <1>1, <1>2, <2>1 DEF CommandsOrdered
<1>6. ASSUME NEW k \in Items(Tail(commands))
      PROVE  Head(commands).seq < k.seq /\ k.seq \in Nat
  <2>1. PICK i \in 1..Len(Tail(commands)) : k = Tail(commands)[i]
    BY <1>3, <1>6
  <2>2. i + 1 \in 1..Len(commands) /\ 1 \in 1..Len(commands) /\ 1 < i + 1 /\ i \in 1..(Len(commands) - 1)
    BY <1>2
  <2>3. k = commands[i + 1]
    BY <1>2, <2>1, <2>2
  <2> QED
    BY <1>2, <1>3, <1>4, <1>6, <2>2, <2>3 DEF CommandsOrdered
<1>7. \A k \in Items(commands') : 0 < k.seq /\ k.seq <= sequence' /\ (childAlive' => last' < k.seq)
  BY <1>1, <1>3, <1>6 DEF CommandsOrdered
<1>8. last' <= sequence' /\ Head(commands) \notin Items(Tail(commands))
  BY <1>1, <1>3, <1>4, <1>6 DEF CommandsOrdered
<1> QED
  BY <1>5, <1>7, <1>8 DEF CommandsOrdered
\* Without new commands it makes no difference that the child is lost.
LEMMA LostOrdered ==
  ASSUME TypeInv, CommandsOrdered, UNCHANGED <<commands, sequence>>,
         UNCHANGED <<last, childAlive>> \/ (~childAlive' /\ last' \in {0, last})
  PROVE  CommandsOrdered'
BY DEF TypeInv, ParentType, CommandsOrdered, Items

\* What every step is to the commands: nothing, a new one, or one received.
QuietCommands ==
    /\ UNCHANGED <<commands, sequence>>
    /\ UNCHANGED <<last, childAlive>> \/ (~childAlive' /\ last' \in {0, last})
CommandsMove ==
    \/ QuietCommands
    \/ (\E m : Queues(m)) /\ childAlive /\ UNCHANGED <<last, childAlive>>
    \/ Takes /\ UNCHANGED sequence
\* Connecting and enqueueing are the parent's, with the child as it was.
LEMMA CommandsStep ==
  ASSUME TypeInv, [Next]_vars
  PROVE  CommandsMove
<1>1. CASE FromParent
  <2>1. UNCHANGED childVars
    BY <1>1 DEF Parent, FromParent
  <2>2. CASE UNCHANGED <<commands, sequence, credit, childAlive, childVars>>
    BY <2>2 DEF QuietCommands, CommandsMove, childVars
  <2>3. CASE \E c \in Connections : Connect(c) \/ Enqueue(c) \/ SendEnvelope(c)
    <3>1. UNCHANGED last
      BY <2>1 DEF QuietCommands, CommandsMove, childVars
    <3>2. UNCHANGED childAlive /\ (UNCHANGED <<commands, sequence>> \/ (childAlive /\ \E m : Queues(m)))
      BY <2>3, ConnectQueues, EnqueueQueues, SendEnvelopeQueues
    <3> QED
      BY <3>1, <3>2 DEF QuietCommands, CommandsMove
  <2> QED
    BY <1>1, <2>2, <2>3, OtherParentSteps
<1>2. CASE Child
  <2>1. UNCHANGED sequence /\ childAlive
    BY <1>2 DEF Child, ChildStep, parentVars
  <2>2. CASE UNCHANGED <<commands, last, credit, childAlive, owner, parentVars>>
    BY <2>1, <2>2 DEF QuietCommands, CommandsMove
  <2>3. CASE ReceiveRefused \/ ReceiveConnect \/ ReceiveEnvelope \/ ReceiveEnqueue
    BY <2>1, <2>3 DEF QuietCommands, CommandsMove, ReceiveRefused, ReceiveConnect, ReceiveEnvelope, ReceiveEnqueue, Receiving, Takes
  <2>4. CASE OwnerRun \/ \E c \in Connections : CallOwner(c)
    BY <2>1, <2>4 DEF QuietCommands, CommandsMove, OwnerRun, CallOwner, queues
  <2>5. CASE Stopped
    BY <2>1, <2>5 DEF QuietCommands, CommandsMove, Stopped
  <2> QED
    BY <1>2, <2>2, <2>3, <2>4, <2>5, OtherChildSteps
<1>3. CASE CloseTimeout /\ ChildLost
  BY <1>3 DEF QuietCommands, CommandsMove, CloseTimeout, ChildLost, queues
<1>4. ASSUME NEW c \in Connections, ClientLost(c), UNCHANGED childVars PROVE CommandsMove
  BY <1>4 DEF QuietCommands, CommandsMove, ClientLost, queues, childVars
<1>5. ASSUME NEW c \in Connections, Revoke(c), UNCHANGED parentVars PROVE CommandsMove
  BY <1>5 DEF QuietCommands, CommandsMove, Revoke, queues, parentVars
<1>6. CASE ChildDies /\ UNCHANGED parentVars
  BY <1>6 DEF QuietCommands, CommandsMove, ChildDies, ChildLost, parentVars
<1>7. CASE StartClose /\ UNCHANGED childVars
  BY <1>7 DEF QuietCommands, CommandsMove, StartClose, childVars
<1>8. CASE UNCHANGED vars
  BY <1>8 DEF QuietCommands, CommandsMove, vars, queues, parentVars, childVars
<1> QED
  BY <1>1, <1>2, <1>3, <1>4, <1>5, <1>6, <1>7, <1>8, StepCases

\* The order of the commands is kept.
LEMMA CommandsOrderedStep ==
  ASSUME TypeInv, CommandsOrdered, [Next]_vars
  PROVE  CommandsOrdered'
BY CommandsStep, QueuesOrdered, TakesOrdered, LostOrdered DEF QuietCommands, CommandsMove

\* The permits: what is free, with a request on its way, or with the owner.
Enqueues == {m \in Items(commands) : m.op = "enqueue"}
Accounted == credit + Cardinality(Enqueues) + Len(owner) = Capacity
PermitsInv ==
    /\ IsFiniteSet(Items(commands))
    /\ childAlive \/ phase = "stopped" => Accounted
    /\ credit <= Capacity

\* A queued command holds a permit if it is a request.
LEMMA QueuesPermits ==
  ASSUME TypeInv, CommandsOrdered, IsFiniteSet(Items(commands)), NEW m, Queues(m), UNCHANGED <<last, childAlive>>
  PROVE  /\ IsFiniteSet(Items(commands)) /\ IsFiniteSet(Items(commands)') /\ Cardinality(Enqueues) \in Nat
         /\ Cardinality(Enqueues') = Cardinality(Enqueues) + (IF m.op = "enqueue" THEN 1 ELSE 0)
<1>1. m \notin Items(commands)
  BY QueuesOrdered
<1>2. Items(commands)' = Items(commands) \cup {m}
  <2>1. commands \in Seq(Command) /\ m \in Command /\ commands' = Append(commands, m)
    BY DEF TypeInv, ChannelsType, Queues
  <2>2. Items(Append(commands, m)) = Items(commands) \cup {m}
    BY <2>1, ItemsOf
  <2> QED
    BY <2>1, <2>2
<1>3. IsFiniteSet(Enqueues) /\ Cardinality(Enqueues) \in Nat
  BY FS_Subset, FS_CardinalityType DEF Enqueues
<1>4. IsFiniteSet(Items(commands)')
  BY <1>2, FS_AddElement
<1>5. Enqueues' = IF m.op = "enqueue" THEN Enqueues \cup {m} ELSE Enqueues
  BY <1>2 DEF Enqueues
<1>6. m \notin Enqueues
  BY <1>1 DEF Enqueues
<1>7. Cardinality(Enqueues') = Cardinality(Enqueues) + (IF m.op = "enqueue" THEN 1 ELSE 0)
  <2>1. Cardinality(Enqueues \cup {m}) = Cardinality(Enqueues) + 1
    BY <1>3, <1>6, FS_AddElement
  <2>2. CASE m.op = "enqueue"
    BY <1>5, <2>1, <2>2
  <2>3. CASE m.op # "enqueue"
    BY <1>3, <1>5, <2>3
  <2> QED
    BY <2>2, <2>3
<1> QED
  BY <1>3, <1>4, <1>7
\* Taking a command that is no admission leaves the permits accounted for.
LEMMA TakesPermits ==
  ASSUME TypeInv, CommandsOrdered, IsFiniteSet(Items(commands)), Takes, UNCHANGED sequence
  PROVE  /\ IsFiniteSet(Items(commands)') /\ Cardinality(Enqueues) \in Nat /\ Cardinality(Enqueues') \in Nat
         /\ Cardinality(Enqueues) = Cardinality(Enqueues') + (IF Head(commands).op = "enqueue" THEN 1 ELSE 0)
<1> DEFINE m == Head(commands)
<1>1. m \notin Items(Tail(commands)) /\ commands' = Tail(commands)
  BY TakesOrdered DEF Takes
<1>2. Items(commands) = Items(commands)' \cup {m}
  <2>1. commands \in Seq(Command) /\ commands # <<>>
    BY DEF TypeInv, ChannelsType, Takes
  <2> QED
    BY <1>1, <2>1, ItemsOf
<1>3. m \notin Items(commands)'
  BY <1>1
<1> HIDE DEF m
<1>4. IsFiniteSet(Items(commands)')
  BY <1>2, FS_Subset
<1>5. /\ IsFiniteSet(Enqueues) /\ Cardinality(Enqueues) \in Nat
      /\ IsFiniteSet(Enqueues') /\ Cardinality(Enqueues') \in Nat
  BY <1>4, FS_Subset, FS_CardinalityType DEF Enqueues
<1>6. Enqueues = (IF m.op = "enqueue" THEN Enqueues' \cup {m} ELSE Enqueues') /\ m \notin Enqueues'
  BY <1>2, <1>3 DEF Enqueues
<1>7. Cardinality(Enqueues) = Cardinality(Enqueues') + (IF m.op = "enqueue" THEN 1 ELSE 0)
  BY <1>5, <1>6, FS_AddElement
<1> QED
  BY <1>4, <1>5, <1>7 DEF m

\* The permits are untouched, but the child may be lost.
QuietPermits ==
    /\ UNCHANGED <<commands, credit>>
    /\ \/ UNCHANGED <<owner, phase, childAlive>>
       \/ UNCHANGED owner /\ childAlive
       \/ ~childAlive' /\ phase' # "stopped"
\* A step that leaves the three queues and the credit alone keeps the accounting.
LEMMA QuietPermitsKept ==
  ASSUME PermitsInv, QuietPermits
  PROVE  PermitsInv'
<1>1. Enqueues' = Enqueues /\ Items(commands)' = Items(commands)
  BY DEF QuietPermits, Enqueues, Items
<1> QED
  BY <1>1 DEF QuietPermits, PermitsInv, Accounted

Granted(m) ==
    /\ Queues(m) /\ childAlive
    /\ \/ m.op = "enqueue" /\ credit' = credit - 1 /\ credit > 0
       \/ m.op # "enqueue" /\ credit' = credit
\* Taking a connect leaves the permits accounted for.
LEMMA ConnectPermits ==
  ASSUME TypeInv, CommandsOrdered, PermitsInv, UNCHANGED childVars,
         \E c \in Connections : Connect(c) \/ Enqueue(c) \/ SendEnvelope(c)
  PROVE  PermitsInv'
<1>1. UNCHANGED <<last, owner, phase>>
  BY DEF childVars
<1>2. PICK c \in Connections : Connect(c) \/ Enqueue(c) \/ SendEnvelope(c)
  OBVIOUS
<1>3. UNCHANGED childAlive
  BY <1>2, ConnectQueues, EnqueueQueues, SendEnvelopeQueues
<1>4. UNCHANGED <<commands, credit>> \/ \E m : Granted(m)
  <2>1. CASE Connect(c)
    <3>1. NewCommand("connect", c, "none", 0).op # "enqueue"
      BY DEF NewCommand
    <3> QED
      BY <2>1, <3>1, ConnectQueues DEF Granted
  <2>2. CASE Enqueue(c)
    <3>1. NewCommand("enqueue", c, worker[c].q, conn[c].rev).op = "enqueue"
      BY DEF NewCommand
    <3> QED
      BY <2>2, <3>1, EnqueueQueues DEF Granted
  <2>3. CASE SendEnvelope(c)
    <3>1. NewCommand("envelope", c, "none", 0).op # "enqueue"
      BY DEF NewCommand
    <3> QED
      BY <2>3, <3>1, SendEnvelopeQueues DEF Granted
  <2> QED
    BY <1>2, <2>1, <2>2, <2>3
<1>5. CASE UNCHANGED <<commands, credit>>
  BY <1>1, <1>3, <1>5, QuietPermitsKept DEF QuietPermits
<1>6. ASSUME NEW m, Granted(m)
      PROVE  PermitsInv'
  <2>1. credit \in Nat /\ owner \in Seq(Work) /\ Len(owner) \in Nat /\ Capacity \in Nat
    BY ChannelsAssumption DEF TypeInv, ChannelsType, ChildType
  <2>2. /\ IsFiniteSet(Items(commands)') /\ Cardinality(Enqueues) \in Nat
        /\ Cardinality(Enqueues') = Cardinality(Enqueues) + (IF m.op = "enqueue" THEN 1 ELSE 0)
    BY <1>1, <1>3, <1>6, QueuesPermits DEF PermitsInv, Granted
  <2>3. credit + Cardinality(Enqueues) + Len(owner) = Capacity
    BY <1>6 DEF PermitsInv, Accounted, Granted
  <2>4. credit' + Cardinality(Enqueues') + Len(owner) = Capacity /\ credit' <= Capacity
    BY <1>6, <2>1, <2>2, <2>3 DEF Granted
  <2> QED
    BY <1>1, <2>2, <2>4 DEF PermitsInv, Accounted
<1> QED
  BY <1>4, <1>5, <1>6

\* The child takes a request's permit with it, or gives it back.
LEMMA ReceivePermits ==
  ASSUME TypeInv, CommandsOrdered, PermitsInv, UNCHANGED sequence, childAlive, UNCHANGED childAlive,
         ReceiveRefused \/ ReceiveConnect \/ ReceiveEnvelope \/ ReceiveEnqueue
  PROVE  PermitsInv'
<1>1. Takes
  BY DEF ReceiveRefused, ReceiveConnect, ReceiveEnvelope, ReceiveEnqueue, Receiving, Takes
<1>2. /\ IsFiniteSet(Items(commands)') /\ Cardinality(Enqueues) \in Nat /\ Cardinality(Enqueues') \in Nat
      /\ Cardinality(Enqueues) = Cardinality(Enqueues') + (IF Head(commands).op = "enqueue" THEN 1 ELSE 0)
  BY <1>1, TakesPermits DEF PermitsInv
<1>3. credit \in Nat /\ owner \in Seq(Work) /\ Len(owner) \in Nat /\ Capacity \in Nat
  BY ChannelsAssumption DEF TypeInv, ChannelsType, ChildType
<1>4. credit + Cardinality(Enqueues) + Len(owner) = Capacity
  BY DEF PermitsInv, Accounted
<1>5. credit' + Len(owner') = credit + Len(owner) + (IF Head(commands).op = "enqueue" THEN 1 ELSE 0)
      /\ credit' \in Nat /\ Len(owner') \in Nat
  <2>1. CASE ReceiveRefused
    <3>1. owner' = owner /\ credit' = credit + RefusedPermit(Head(commands).op)
      BY <2>1, Zenon DEF ReceiveRefused
    <3> QED
      BY <1>3, <3>1 DEF RefusedPermit
  <2>2. CASE ReceiveConnect \/ ReceiveEnvelope
    <3>1. Head(commands).op # "enqueue" /\ credit' = credit /\ owner' = owner
      BY <2>2 DEF ReceiveConnect, ReceiveEnvelope, Receiving
    <3> QED
      BY <1>3, <3>1
  <2>3. CASE ReceiveEnqueue
    <3>1. Head(commands).op = "enqueue"
      BY <2>3 DEF ReceiveEnqueue, Receiving
    <3>2. \/ credit' = credit + 1 /\ owner' = owner
          \/ credit' = credit /\ owner' = Append(owner, [c |-> Head(commands).c, what |-> "command", seq |-> Head(commands).seq])
      BY <2>3, Zenon DEF ReceiveEnqueue
    <3>3. ASSUME NEW w
          PROVE  Len(Append(owner, w)) = Len(owner) + 1
      BY <1>3
    <3> QED
      BY <1>3, <3>1, <3>2, <3>3
  <2> QED
    BY <2>1, <2>2, <2>3
<1>6. credit' + Cardinality(Enqueues') + Len(owner') = Capacity /\ credit' <= Capacity
  <2> DEFINE left == credit'
  <2> DEFINE before == Cardinality(Enqueues)
  <2> DEFINE after == Cardinality(Enqueues')
  <2> DEFINE works == Len(owner)
  <2> DEFINE works2 == Len(owner')
  <2> DEFINE taken == IF Head(commands).op = "enqueue" THEN 1 ELSE 0
  <2>1. /\ taken \in Nat /\ before \in Nat /\ after \in Nat /\ works \in Nat /\ works2 \in Nat
        /\ left \in Nat /\ credit \in Nat /\ Capacity \in Nat
    BY <1>2, <1>3, <1>5
  <2>2. before = after + taken /\ left + works2 = credit + works + taken
    BY <1>2, <1>5
  <2>3. credit + before + works = Capacity
    BY <1>4
  <2> HIDE DEF left, before, after, works, works2, taken
  <2>4. left + after + works2 = Capacity /\ left <= Capacity
    BY <2>1, <2>2, <2>3
  <2> QED
    BY <2>4 DEF left, after, works2
<1> QED
  BY <1>2, <1>6 DEF PermitsInv, Accounted

\* A call takes a permit to the owner thread, which gives it back.
LEMMA OwnerPermits ==
  ASSUME TypeInv, PermitsInv, childAlive, OwnerRun \/ \E c \in Connections : CallOwner(c)
  PROVE  PermitsInv'
<1>1. credit \in Nat /\ owner \in Seq(Work) /\ Len(owner) \in Nat /\ Capacity \in Nat
  BY ChannelsAssumption DEF TypeInv, ChannelsType, ChildType
<1>2. UNCHANGED <<commands, childAlive, phase>>
  BY DEF OwnerRun, CallOwner, queues
<1>3. Enqueues' = Enqueues /\ Items(commands)' = Items(commands) /\ Cardinality(Enqueues) \in Nat
  <2>1. Enqueues' = Enqueues /\ Items(commands)' = Items(commands)
    BY <1>2 DEF Enqueues, Items
  <2>2. Cardinality(Enqueues) \in Nat
    BY FS_Subset, FS_CardinalityType DEF Enqueues, PermitsInv
  <2> QED
    BY <2>1, <2>2
<1>4. credit' + Len(owner') = credit + Len(owner) /\ credit' \in Nat /\ Len(owner') \in Nat
  <2>1. CASE OwnerRun
    <3>1. owner # <<>> /\ owner' = Tail(owner) /\ credit' = credit + 1
      BY <2>1, Zenon DEF OwnerRun
    <3>2. Len(Tail(owner)) = Len(owner) - 1 /\ Len(owner) >= 1
      BY <1>1, <3>1, EmptySeq, HeadTailProperties
    <3> QED
      BY <1>1, <3>1, <3>2
  <2>2. ASSUME NEW c \in Connections, CallOwner(c)
        PROVE  credit' + Len(owner') = credit + Len(owner) /\ credit' \in Nat /\ Len(owner') \in Nat
    <3>1. credit > 0 /\ credit' = credit - 1 /\ \E w : owner' = Append(owner, w)
      BY <2>2, Zenon DEF CallOwner
    <3>2. ASSUME NEW w
          PROVE  Len(Append(owner, w)) = Len(owner) + 1
      BY <1>1
    <3> QED
      BY <1>1, <3>1, <3>2
  <2> QED
    BY <2>1, <2>2
<1>5. credit + Cardinality(Enqueues) + Len(owner) = Capacity
  BY DEF PermitsInv, Accounted
<1>6. credit' + Cardinality(Enqueues) + Len(owner') = Capacity /\ credit' <= Capacity
  BY <1>1, <1>3, <1>4, <1>5
<1> QED
  BY <1>3, <1>6 DEF PermitsInv, Accounted

\* Every step keeps the permits accounted for.
LEMMA PermitsStep ==
  ASSUME TypeInv, CommandsOrdered, PermitsInv, [Next]_vars
  PROVE  PermitsInv'
<1>1. CASE FromParent
  <2>1. UNCHANGED childVars
    BY <1>1 DEF Parent, FromParent
  <2>2. CASE UNCHANGED <<commands, sequence, credit, childAlive, childVars>>
    BY <2>2, QuietPermitsKept DEF QuietPermits, childVars
  <2>3. CASE \E c \in Connections : Connect(c) \/ Enqueue(c) \/ SendEnvelope(c)
    BY <2>1, <2>3, ConnectPermits
  <2> QED
    BY <1>1, <2>2, <2>3, OtherParentSteps
<1>2. CASE Child
  <2>1. UNCHANGED sequence /\ childAlive
    BY <1>2 DEF Child, ChildStep, parentVars
  <2>2. CASE UNCHANGED <<commands, last, credit, childAlive, owner, parentVars>>
    BY <2>1, <2>2, QuietPermitsKept DEF QuietPermits
  <2>3. CASE ReceiveRefused \/ ReceiveConnect \/ ReceiveEnvelope \/ ReceiveEnqueue
    <3>1. UNCHANGED childAlive
      BY <2>3 DEF ReceiveRefused, ReceiveConnect, ReceiveEnvelope, ReceiveEnqueue
    <3> QED
      BY <2>1, <2>3, <3>1, ReceivePermits
  <2>4. CASE OwnerRun \/ \E c \in Connections : CallOwner(c)
    BY <2>1, <2>4, OwnerPermits
  <2>5. CASE Stopped
    BY <2>1, <2>5, QuietPermitsKept DEF Stopped, QuietPermits
  <2> QED
    BY <1>2, <2>2, <2>3, <2>4, <2>5, OtherChildSteps
<1>3. CASE CloseTimeout /\ ChildLost
  BY <1>3, QuietPermitsKept DEF QuietPermits, CloseTimeout, ChildLost, queues
<1>4. ASSUME NEW c \in Connections, ClientLost(c), UNCHANGED childVars PROVE PermitsInv'
  BY <1>4, QuietPermitsKept DEF QuietPermits, ClientLost, queues, childVars
<1>5. ASSUME NEW c \in Connections, Revoke(c), UNCHANGED parentVars PROVE PermitsInv'
  BY <1>5, QuietPermitsKept DEF QuietPermits, Revoke, queues, parentVars
<1>6. CASE ChildDies /\ UNCHANGED parentVars
  BY <1>6, QuietPermitsKept DEF QuietPermits, ChildDies, ChildLost
<1>7. CASE StartClose /\ UNCHANGED childVars
  BY <1>7, QuietPermitsKept DEF QuietPermits, StartClose, childVars
<1>8. CASE UNCHANGED vars
  BY <1>8, QuietPermitsKept DEF QuietPermits, vars, queues, childVars
<1> QED
  BY <1>1, <1>2, <1>3, <1>4, <1>5, <1>6, <1>7, <1>8, StepCases

\* The three invariants hold together.
ProcessInv == TypeInv /\ CommandsOrdered /\ PermitsInv
\* Types, order and permits hold in every state.
LEMMA ProcessInvariant == Spec => []ProcessInv
<1>1. Init => CommandsOrdered /\ PermitsInv
  <2> SUFFICES ASSUME Init PROVE CommandsOrdered /\ PermitsInv
    OBVIOUS
  <2>1. commands = <<>> /\ owner = <<>> /\ credit = Capacity /\ sequence = 0 /\ last = 0 /\ Capacity \in Nat
    BY ChannelsAssumption DEF Init, ChannelsInit, ParentInit, ChildInit
  <2>2. Items(commands) = {} /\ Enqueues = {}
    BY <2>1 DEF Items, Enqueues
  <2>3. CommandsOrdered
    BY <2>1, <2>2 DEF CommandsOrdered
  <2>4. PermitsInv
    BY <2>1, <2>2, FS_EmptySet DEF PermitsInv, Accounted
  <2> QED
    BY <2>3, <2>4
<1>2. ProcessInv /\ [Next]_vars => ProcessInv'
  BY TypesStep, CommandsOrderedStep, PermitsStep DEF ProcessInv
<1>3. Init => ProcessInv
  BY <1>1, InitTypes DEF ProcessInv
<1> QED
  BY <1>2, <1>3, PTL DEF Spec

\* The types hold in every reachable state: commands are never received
\* ahead of their numbering, and the permits stay within the credit.
THEOREM TypesCorrect == Spec => []TypeOK
<1>1. ProcessInv => TypeOK
  BY DEF ProcessInv, TypeInv, ChannelsType, ParentType, ChildType, WorkerType, ChanType, Places, ChanPlaces,
         CommandsOrdered, PermitsInv, TypeOK
<1> QED
  BY <1>1, ProcessInvariant, PTL

\* Every permit is accounted for, whatever refuses, disconnects, crashes or
\* shuts down in between.
THEOREM PermitsAreAccounted == Spec => []PermitsAccounted
<1>1. ProcessInv => PermitsAccounted
  BY DEF ProcessInv, PermitsInv, Accounted, Enqueues, PermitsAccounted
<1> QED
  BY <1>1, ProcessInvariant, PTL

\* Only the report of a binding changes what the parent holds of it.
LEMMA ParentBinding ==
  ASSUME TypeInv, FromParent
  PROVE  (ReadState /\ ~StateRefused) \/ \A d \in Connections : SameBinding(d)
<1> DEFINE Same == \A d \in Connections : SameBinding(d)
<1>0. SUFFICES ASSUME ~(ReadState /\ ~StateRefused)
                 PROVE  Same
  OBVIOUS
<1>1. ASSUME UNCHANGED conn
      PROVE  Same
  BY <1>1 DEF SameBinding
<1>2. ASSUME NEW reason, Fail(reason)
      PROVE  Same
  BY <1>2, FailConn
<1>3. ASSUME NEW c \in Connections, Connect(c) \/ EndWorker(c) \/ DisconnectStart(c) \/ DisconnectEnd(c)
      PROVE  Same
  BY <1>3, ConnectConn, EndWorkerConn, DisconnectStartConn, DisconnectEndConn
<1>4. ASSUME NEW c \in Connections, Enqueue(c) \/ Admitted(c)
      PROVE  Same
  BY <1>4, EnqueueConn, AdmittedConn DEF BeginsToEnd
<1>5. ASSUME NEW c \in Connections, SendEnvelope(c)
      PROVE  Same
  BY <1>5, SendEnvelopeConn
<1>6. ASSUME NEW c \in Connections, NEW q \in RequestIds, TakeRequest(c, q)
      PROVE  Same
  BY <1>1, <1>6 DEF TakeRequest
<1>7. ASSUME NEW s \in sends, BeginWrite(s) \/ Write(s) \/ FinishDelivery(s)
      PROVE  Same
  BY <1>1, <1>7, Zenon DEF BeginWrite, Write, FinishDelivery, connVars
<1>8. CASE ReadNotification
  BY <1>1, <1>2, <1>8, Zenon DEF Reject, ReadNotification
<1>9. CASE ReadAnswer
  <2>1. \/ Fail("protocol")
        \/ \E p \in pending : AnswerAccepted(p) \/ CallRefused(p) \/ EnqueueRefused(p)
    BY <1>9, Zenon DEF Reject, ReadAnswer
  <2>2. ASSUME NEW p \in pending, AnswerAccepted(p)
        PROVE  Same
    BY <1>1, <2>2, Zenon DEF AnswerAccepted
  <2>3. ASSUME NEW p \in pending, CallRefused(p) \/ EnqueueRefused(p)
        PROVE  Same
    BY <2>3, CallRefusedConn, EnqueueRefusedConn
  <2> QED
    BY <1>2, <2>1, <2>2, <2>3
<1>10. CASE ReadTerminal
  BY <1>1, <1>10 DEF ReadTerminal, connVars
<1>11. CASE ReadProcessed \/ ReadSocketClose \/ ReadDisconnected
  BY <1>11, ReadProcessedConn, ReadSocketCloseConn, ReadDisconnectedConn
<1>12. CASE ReadState
  <2>1. StateRefused
    BY <1>0, <1>12
  <2> QED
    BY <1>2, <1>12, <2>1, Zenon DEF Reject, ReadState, StateRefused
<1>13. CASE ChildEnded \/ EndClose
  BY <1>2, <1>13, Zenon DEF ChildEnded, EndClose
<1> HIDE DEF Same
<1> QED
  BY <1>3, <1>4, <1>5, <1>6, <1>7, <1>8, <1>9, <1>10, <1>11, <1>12, <1>13, Zenon
  DEF FromParent, Parent, ParentStep, ClientSends

\* A send task comes from one there was, from an enqueue or from the child.
Named(m) == m.id[1] = m.c /\ m.id[2] = m.kind
Arrived(t, m) == t.id = m.id /\ t.c = m.c /\ t.kind = m.kind
SendComes(t) ==
    \/ \E s \in sends : Kept(s, t) /\ (t.at = "sending" => s.at = "sending" \/ t.rev = conn[t.c].rev)
    \/ t.at # "sending" /\ t.kind = "admission" /\ Named(t)
    \/ /\ t.at # "sending" /\ ReadNotification /\ Arrived(t, Head(notifications))
       /\ \A s \in sends : s.id # t.id
\* A send the parent keeps was there before.
LEMMA KeptComes ==
  ASSUME NEW t \in sends
  PROVE  SendComes(t)
BY DEF SendComes, Kept
\* A cancelled send was there before, in another stage.
LEMMA CancelledComes ==
  ASSUME TypeInv, NEW S, NEW t \in Cancelled(S)
  PROVE  SendComes(t)
<1>1. PICK s \in sends : t = s \/ (t.at = "failed" /\ Kept(s, t))
  BY CancelledSends DEF TypeInv, ParentType
<1>2. CASE t = s
  BY <1>2, KeptComes
<1>3. CASE t.at = "failed" /\ Kept(s, t)
  BY <1>3 DEF SendComes
<1> QED
  BY <1>1, <1>2, <1>3

\* Enqueue adds at most the send of its admission, which waits.
LEMMA EnqueueComes ==
  ASSUME TypeInv, NEW c \in Connections, Enqueue(c), NEW t \in sends'
  PROVE  SendComes(t)
<1>1. \/ sends' = sends
      \/ \E n : sends' = sends \cup {[id |-> <<c, "admission", frames[c]>>, c |-> c, kind |-> "admission",
                                       rev |-> conn[c].rev, q |-> worker[c].q, seq |-> n, at |-> "waiting"]}
  BY Zenon DEF Enqueue
<1>2. CASE t \in sends
  BY <1>2, KeptComes
<1>3. CASE t \notin sends
  <2>1. \E n : t = [id |-> <<c, "admission", frames[c]>>, c |-> c, kind |-> "admission",
                    rev |-> conn[c].rev, q |-> worker[c].q, seq |-> n, at |-> "waiting"]
    BY <1>1, <1>3
  <2>2. t.at = "waiting" /\ t.kind = "admission" /\ t.c = c /\ t.id = <<c, "admission", frames[c]>>
    BY <2>1
  <2> QED
    BY <2>2 DEF SendComes, Named
<1> QED
  BY <1>2, <1>3

\* A notification read becomes a send of the binding it names.
LEMMA ReadNotificationComes ==
  ASSUME TypeInv, ReadNotification, NEW t \in sends'
  PROVE  SendComes(t)
<1> DEFINE m == Head(notifications)
           stage == IF m.kind = "completion" /\ \/ running[m.c][m.q].seq # m.seq
                                                \/ running[m.c][m.q].rev # m.rev
                    THEN "failed" ELSE "waiting"
           send == [id |-> m.id, c |-> m.c, kind |-> m.kind, rev |-> m.rev, q |-> m.q, seq |-> m.seq,
                    at |-> stage]
<1>1. \/ sends' = Cancelled(Registered)
      \/ sends' = sends \cup {send} /\ \A s \in sends : s.id # m.id
  BY Zenon DEF Reject, ReadNotification, Fail
<1>2. CASE t \in Cancelled(Registered)
  BY <1>2, CancelledComes
<1>3. CASE t \in sends
  BY <1>3, KeptComes
<1>4. CASE t = send /\ \A s \in sends : s.id # m.id
  BY <1>4 DEF SendComes, Arrived
<1> QED
  BY <1>1, <1>2, <1>3, <1>4

\* A send that only changes its stage was there before.
LEMMA StageComes ==
  ASSUME TypeInv, NEW s \in sends, BeginWrite(s) \/ Write(s) \/ FinishDelivery(s), NEW t \in sends'
  PROVE  SendComes(t)
<1>0. s \in Send
  BY DEF TypeInv, ParentType
<1>1. \/ sends' \subseteq sends
      \/ \E place \in {"failed", "sent"} : sends' = (sends \ {s}) \cup {[s EXCEPT !.at = place]}
      \/ sends' = (sends \ {s}) \cup {[s EXCEPT !.at = "sending"]} /\ conn[s.c].rev = s.rev
  <2>1. CASE BeginWrite(s)
    BY <2>1, Zenon DEF BeginWrite
  <2>2. CASE Write(s)
    BY <2>2, WriteTypes
  <2>3. CASE FinishDelivery(s)
    BY <2>3 DEF FinishDelivery
  <2> QED
    BY <2>1, <2>2, <2>3
<1>2. CASE t \in sends
  BY <1>2, KeptComes
<1>3. ASSUME NEW place \in {"failed", "sent"}, t = [s EXCEPT !.at = place]
      PROVE  SendComes(t)
  <2>1. t.at = place /\ Kept(s, t)
    BY <1>0, <1>3, SendStage DEF Stages
  <2> QED
    BY <1>3, <2>1 DEF SendComes
<1>4. ASSUME t = [s EXCEPT !.at = "sending"], conn[s.c].rev = s.rev
      PROVE  SendComes(t)
  <2>1. t.at = "sending" /\ Kept(s, t)
    BY <1>0, <1>4, SendStage DEF Stages
  <2>2. t.rev = conn[t.c].rev
    BY <1>4, <2>1 DEF Kept
  <2> QED
    BY <2>1, <2>2 DEF SendComes
<1> QED
  BY <1>1, <1>2, <1>3, <1>4

\* Where the sends of the next state come from, for each step of the parent.
LEMMA ParentSends ==
  ASSUME TypeInv, FromParent, NEW t \in sends'
  PROVE  SendComes(t)
<1>1. ASSUME sends' \subseteq sends
      PROVE  SendComes(t)
  BY <1>1, KeptComes
<1>2. ASSUME NEW S, sends' = Cancelled(S)
      PROVE  SendComes(t)
  BY <1>2, CancelledComes
<1>3. ASSUME NEW reason, Fail(reason)
      PROVE  SendComes(t)
  BY <1>2, <1>3, Zenon DEF Fail
<1>4. ASSUME NEW c \in Connections, Connect(c) \/ DisconnectEnd(c) \/ SendEnvelope(c)
      PROVE  SendComes(t)
  BY <1>1, <1>4 DEF Connect, DisconnectEnd, SendEnvelope
<1>5. ASSUME NEW c \in Connections, Admitted(c) \/ EndWorker(c)
      PROVE  SendComes(t)
  <2>1. sends' \subseteq sends
    BY <1>5 DEF Admitted, EndWorker
  <2> QED
    BY <1>1, <2>1
<1>6. ASSUME NEW c \in Connections, DisconnectStart(c)
      PROVE  SendComes(t)
  BY <1>2, <1>6 DEF DisconnectStart
<1>7. ASSUME NEW c \in Connections, NEW q \in RequestIds, TakeRequest(c, q)
      PROVE  SendComes(t)
  BY <1>1, <1>7 DEF TakeRequest, tableVars
<1>8. CASE ReadAnswer
  <2>1. \/ Fail("protocol")
        \/ \E p \in pending : AnswerAccepted(p) \/ CallRefused(p) \/ EnqueueRefused(p)
    BY <1>8, Zenon DEF Reject, ReadAnswer
  <2>2. ASSUME NEW p \in pending, AnswerAccepted(p) \/ CallRefused(p) \/ EnqueueRefused(p)
        PROVE  SendComes(t)
    BY <1>1, <1>2, <2>2, Zenon DEF AnswerAccepted, CallRefused, EnqueueRefused
  <2> QED
    BY <1>3, <2>1, <2>2
<1>9. CASE ReadTerminal \/ ReadProcessed \/ ReadDisconnected
  BY <1>1, <1>9 DEF ReadTerminal, ReadProcessed, ReadDisconnected, tableVars
<1>10. CASE ReadSocketClose
  BY <1>1, <1>2, <1>10, Zenon DEF ReadSocketClose
<1>11. CASE ReadState
  BY <1>1, <1>2, <1>3, <1>11, Zenon DEF Reject, ReadState, AfterState
<1>12. CASE ChildEnded \/ EndClose
  BY <1>3, <1>12, Zenon DEF ChildEnded, EndClose
<1> QED
  BY <1>4, <1>5, <1>6, <1>7, <1>8, <1>9, <1>10, <1>11, <1>12, EnqueueComes, ReadNotificationComes, StageComes, Zenon
  DEF FromParent, Parent, ParentStep, ClientSends

\* A control comes from the end of a connection, the end of a send, the
\* report of a binding or the close.
ControlComes(k) ==
    \/ k \in Items(controls)
    \/ \E c \in Connections : DisconnectStart(c) /\ k = [kind |-> "disconnect", c |-> c, seq |-> conn[c].start]
    \/ \E s \in sends : FinishDelivery(s) /\ k = Receipt(s.id, s.at = "sent")
    \/ ReadState /\ ~StateRefused /\ k = ReceiptOf(conn[Head(results).c].registered /\ ~conn[Head(results).c].closed)
    \/ StartClose /\ k.kind = "shutdown"
\* A control message more, and nothing else of the queue.
LEMMA ControlAppended ==
  ASSUME TypeInv, NEW k, k \in ControlMsg, controls' = Append(controls, k), NEW e \in Items(controls)'
  PROVE  e \in Items(controls) \/ e = k
<1>1. controls \in Seq(ControlMsg)
  BY DEF TypeInv, ChannelsType
<1>2. Items(Append(controls, k)) = Items(controls) \cup {k}
  BY <1>1, ItemsOf
<1>3. Items(controls)' = Items(controls')
  BY DEF Items
<1> QED
  BY <1>2, <1>3
\* Where the control messages of the next state come from, for each step of the parent.
LEMMA ParentControls ==
  ASSUME TypeInv, FromParent, NEW k \in Items(controls)'
  PROVE  ControlComes(k)
<1>1. ASSUME UNCHANGED controls
      PROVE  ControlComes(k)
  BY <1>1 DEF ControlComes, Items
<1>2. ASSUME NEW c \in Connections,
             Connect(c) \/ Enqueue(c) \/ SendEnvelope(c) \/ Admitted(c) \/ EndWorker(c) \/ DisconnectEnd(c)
      PROVE  UNCHANGED controls
  BY <1>2 DEF Connect, Enqueue, SendEnvelope, Admitted, EndWorker, DisconnectEnd, queues
<1>3. ASSUME NEW c \in Connections, NEW q \in RequestIds, TakeRequest(c, q)
      PROVE  UNCHANGED controls
  BY <1>3 DEF TakeRequest, queues
<1>4. ASSUME NEW c \in Connections, DisconnectStart(c)
      PROVE  ControlComes(k)
  <2> DEFINE e == [kind |-> "disconnect", c |-> c, seq |-> conn[c].start]
  <2>1. controls' = controls \/ controls' = Append(controls, e)
    BY <1>4, Zenon DEF DisconnectStart
  <2>2. e \in ControlMsg
    <3>1. conn[c].start \in Nat
      BY DEF TypeInv, ParentType, ConnType
    <3> QED
      BY <3>1 DEF ControlMsg
  <2>3. k \in Items(controls) \/ k = e \/ UNCHANGED controls
    <3> HIDE DEF e
    <3> QED
      BY <2>1, <2>2, ControlAppended
  <2> QED
    BY <1>1, <1>4, <2>3 DEF ControlComes
<1>5. ASSUME NEW s \in sends, BeginWrite(s) \/ Write(s)
      PROVE  UNCHANGED controls
  BY <1>5 DEF BeginWrite, Write, queues
<1>6. ASSUME NEW s \in sends, FinishDelivery(s)
      PROVE  ControlComes(k)
  <2> DEFINE e == Receipt(s.id, s.at = "sent")
  <2>1. controls' = controls \/ controls' = Append(controls, e)
    BY <1>6, Zenon DEF FinishDelivery
  <2>2. e \in ControlMsg
    <3>1. s.id \in Ids /\ (s.at = "sent") \in BOOLEAN
      BY DEF TypeInv, ParentType, Send
    <3> QED
      BY <3>1 DEF ControlMsg, Receipt
  <2>3. k \in Items(controls) \/ k = e \/ UNCHANGED controls
    <3> HIDE DEF e
    <3> QED
      BY <2>1, <2>2, ControlAppended
  <2> QED
    BY <1>1, <1>6, <2>3 DEF ControlComes
<1>7. CASE ReadNotification \/ ReadAnswer \/ ReadTerminal \/ ReadProcessed \/ ReadSocketClose \/ ReadDisconnected
           \/ ChildEnded \/ EndClose
  <2>1. UNCHANGED controls
    BY <1>7 DEF ReadNotification, ReadAnswer, ReadTerminal, ReadProcessed, ReadSocketClose, ReadDisconnected,
                ChildEnded, EndClose, queues
  <2> QED
    BY <1>1, <2>1
<1>8. CASE ReadState
  <2>1. CASE StateRefused
    <3>1. UNCHANGED controls
      BY <1>8, <2>1, Zenon DEF Reject, ReadState, StateRefused
    <3> QED
      BY <1>1, <3>1
  <2>2. CASE ~StateRefused
    <3> DEFINE sent == conn[Head(results).c].registered /\ ~conn[Head(results).c].closed
    <3>1. controls' = controls \/ controls' = Append(controls, ReceiptOf(sent))
      BY <1>8, <2>2, Zenon DEF Reject, ReadState, StateRefused, ReceiptOf
    <3>2. ReceiptOf(sent) \in ControlMsg
      <4>1. Head(results) \in Result /\ Head(results).kind = "state"
        BY <1>8, ReadingTypes DEF ReadState
      <4>2. Head(results).c \in Connections /\ Head(results).n \in Nat
        BY <4>1 DEF Result
      <4>3. sent \in BOOLEAN
        OBVIOUS
      <4> HIDE DEF sent
      <4> QED
        BY <4>2, <4>3 DEF ReceiptOf, Receipt, ControlMsg, Ids
    <3>3. k \in Items(controls) \/ k = ReceiptOf(sent) \/ UNCHANGED controls
      <4> HIDE DEF sent
      <4> QED
        BY <3>1, <3>2, ControlAppended
    <3> QED
      BY <1>1, <1>8, <2>2, <3>3 DEF ControlComes
  <2> QED
    BY <2>1, <2>2
<1> QED
  BY <1>1, <1>2, <1>3, <1>4, <1>5, <1>6, <1>7, <1>8, Zenon DEF FromParent, Parent, ParentStep, ClientSends

\* A revision becomes known with the receipt of its report, and with nothing else.
Acked(d, n) == Control("receipt") /\ Rcpt.id[1] = d /\ Rcpt.id[2] = "state" /\ Rcpt.id[3] = n /\ Rcpt.sent
\* Cancelling a session's task leaves the revision it has synchronised.
LEMMA CancelSynced ==
  ASSUME TypeInv, NEW c \in Connections, Cancel(c), NEW d \in Connections
  PROVE  chan'[d].synced = chan[d].synced
<1> DEFINE ch == [chan[c] EXCEPT !.disconnecting = TRUE]
<1>1. CancelLoop(c, ch) \/ CancelSync(c, ch) \/ CancelUnbind(c, ch) \/ CancelPumpWait(c, ch)
      \/ \E n : CancelPublication(c, n, [ch EXCEPT !.at = "finalizing"])
  BY Zenon DEF Cancel, CancelWaiting
<1> QED
  BY <1>1, CancelLoopChan, CancelSyncChan, CancelUnbindChan, CancelPumpWaitChan, CancelPublicationChan DEF SameSynced
\* So does the end of a send.
LEMMA SendOverSynced ==
  ASSUME TypeInv, NEW c \in Connections, NEW sent, SendOver(c, sent), NEW d \in Connections
  PROVE  chan'[d].synced = chan[d].synced
<1>1. MessageSent(c) \/ MessageLost(c) \/ UNCHANGED chan \/ RequestClose(c) \/ RevokedOver(c, sent)
  BY Zenon DEF SendOver, CompletionLost
<1> QED
  BY <1>1, MessageSentChan, MessageLostChan, RequestCloseChan, RevokedOverChan DEF SameSynced
\* The only step that moves a session's synchronised revision is the receipt of its state.
LEMMA ChildSynced ==
  ASSUME TypeInv, ChildStep, NEW d \in Connections
  PROVE  chan'[d].synced = chan[d].synced \/ Acked(d, chan'[d].synced)
<1> DEFINE Goal == chan'[d].synced = chan[d].synced \/ Acked(d, chan'[d].synced)
<1>0. SUFFICES Goal
  OBVIOUS
<1>1. ASSUME UNCHANGED chan
      PROVE  Goal
  BY <1>1
<1>2. ASSUME NEW c \in Connections, Cancel(c) \/ SendOver(c, FALSE)
      PROVE  Goal
  BY <1>2, CancelSynced, SendOverSynced
<1>3. CASE ReceiveRefused \/ ReceiveEnqueue \/ ControlShutdown \/ StopOwner \/ Stopped
  BY <1>1, <1>3 DEF ReceiveRefused, ReceiveEnqueue, ControlShutdown, StopOwner, Stopped, sessionVars
<1>4. CASE ReceiveConnect \/ ReceiveEnvelope
  BY <1>4, ReceiveConnectChan, ReceiveEnvelopeChan DEF SameSynced
<1>5. CASE ControlReceipt
  <2>1. \/ Rcpt.id[2] = "state" /\ ReceiptOfState(Rcpt.id[1], Rcpt.id[3], Rcpt.sent)
        \/ SendOver(Rcpt.id[1], Rcpt.sent)
        \/ UNCHANGED sessionVars
    BY <1>5, Zenon DEF ControlReceipt, Rcpt
  <2>2. Rcpt.id \in Ids /\ Rcpt.sent \in BOOLEAN /\ Control("receipt")
    BY <1>5, ControlReceiptTypes DEF ControlReceipt
  <2>3. Rcpt.id[1] \in Connections /\ Rcpt.id[3] \in Nat
    BY <2>2 DEF Ids
  <2>4. CASE Rcpt.id[2] = "state" /\ ReceiptOfState(Rcpt.id[1], Rcpt.id[3], Rcpt.sent)
    <3>1. chan'[d].synced = IF d = Rcpt.id[1] /\ Rcpt.sent THEN Rcpt.id[3] ELSE chan[d].synced
      BY <2>2, <2>3, <2>4, ReceiptOfStateChan
    <3> QED
      BY <2>2, <2>4, <3>1 DEF Acked
  <2>5. CASE SendOver(Rcpt.id[1], Rcpt.sent)
    BY <2>2, <2>3, <2>5, SendOverSynced
  <2>6. CASE UNCHANGED sessionVars
    BY <1>1, <2>6 DEF sessionVars
  <2> QED
    BY <2>1, <2>4, <2>5, <2>6
<1>6. CASE ControlDisconnect
  <2>1. Head(controls).c \in Connections
    BY <1>6, ControlDisconnectTypes
  <2>2. Cancel(Head(controls).c) \/ UNCHANGED chan
    BY <1>6, Zenon DEF ControlDisconnect
  <2> QED
    BY <1>1, <1>2, <2>1, <2>2
<1>7. CASE OwnerRun
  <2>1. \E c \in Connections : \/ EndUnbind(c) \/ Rebind(c) \/ KeepBinding(c)
                               \/ \E what, n : EndForNobody(c, what, n)
                               \/ UNCHANGED chan
    <3>1. Head(owner).c \in Connections
      <4>1. Head(owner) \in Work
        BY <1>7, OwnerRunTypes
      <4> QED
        BY <4>1 DEF Work
    <3>2. \/ EndCommand(Head(owner).c, Head(owner).seq)
          \/ EndEnvelope(Head(owner).c, Head(owner).seq)
          \/ EndUnbind(Head(owner).c)
          \/ EndForNobody(Head(owner).c, Head(owner).what, Head(owner).seq)
      BY <1>7, Zenon DEF OwnerRun
    <3> QED
      BY <3>1, <3>2, Zenon DEF EndCommand, EndEnvelope
  <2> QED
    BY <1>1, <2>1, EndUnbindChan, RebindChan, KeepBindingChan, EndForNobodyChan DEF SameSynced
<1>8. ASSUME NEW c \in Connections, PublishBinding(c) \/ StartSend(c) \/ Withhold(c)
      PROVE  Goal
  BY <1>1, <1>8 DEF PublishBinding, StartSend, Withhold
<1>9. ASSUME NEW c \in Connections, TakeEnvelope(c) \/ CallOwner(c) \/ AfterSync(c)
      PROVE  Goal
  BY <1>9, TakeEnvelopeChan, CallOwnerChan, AfterSyncChan DEF SameSynced
<1>10. ASSUME NEW c \in Connections, CloseSession(c) \/ PumpStopped(c) \/ EndSession(c) \/ FinishConnection(c)
      PROVE  Goal
  BY <1>10, CloseSessionChan, PumpStoppedChan, EndSessionChan, FinishConnectionChan DEF SameSynced
<1>11. ASSUME NEW c \in Connections, PutNotification(c)
      PROVE  Goal
  BY <1>1, <1>2, <1>11, PutNotificationTypes
<1>12. ASSUME NEW c \in Connections, DrainSession(c)
      PROVE  Goal
  BY <1>2, <1>12 DEF DrainSession
<1> HIDE DEF Goal
<1> QED
  BY <1>3, <1>4, <1>5, <1>6, <1>7, <1>8, <1>9, <1>10, <1>11, <1>12, Zenon DEF ChildStep

\* What is in flight between the processes belongs to a binding the parent
\* holds, or held: a write that began has the revision in force, a receipt
\* and what the child knows are not ahead of it.
FenceInv ==
    /\ \A s \in sends : Named(s) /\ (s.at = "sending" => s.rev = conn[s.c].rev)
    /\ \A m \in Items(notifications) : Named(m)
    /\ \A m \in Items(controls) :
          m.kind = "receipt" /\ m.id[2] = "state" /\ m.sent => m.id[3] <= conn[m.id[1]].rev
    /\ \A c \in Connections : chan[c].synced <= conn[c].rev

\* The notifications are the child's, first in, first out.
LEMMA NoticesStep ==
  ASSUME TypeInv, [Next]_vars, NEW m \in Items(notifications)'
  PROVE  m \in Items(notifications) \/ \E c \in Connections : PutNotification(c) /\ m = Notice(c)
<1> DEFINE Goal == m \in Items(notifications) \/ \E c \in Connections : PutNotification(c) /\ m = Notice(c)
<1>0. notifications \in Seq(Message) /\ Items(notifications)' = Items(notifications')
  BY DEF TypeInv, ChannelsType, Items
<1>1. ASSUME UNCHANGED notifications PROVE Goal
  BY <1>1 DEF Items
<1>2. CASE FromParent
  <2>1. CASE ReadNotification
    <3>1. notifications # <<>> /\ notifications' = Tail(notifications)
      BY <2>1, ReadNotificationTypes
    <3>2. Items(Tail(notifications)) \subseteq Items(notifications)
      BY <1>0, <3>1, ItemsOf
    <3> QED
      BY <1>0, <3>1, <3>2
  <2>2. CASE ~ReadNotification
    <3>1. ASSUME NEW c \in Connections, \/ Connect(c) \/ Enqueue(c) \/ SendEnvelope(c) \/ Admitted(c) \/ EndWorker(c)
                                        \/ DisconnectStart(c) \/ DisconnectEnd(c)
          PROVE  UNCHANGED notifications
      BY <3>1 DEF Connect, Enqueue, SendEnvelope, Admitted, EndWorker, DisconnectStart, DisconnectEnd, queues
    <3>2. ASSUME NEW c \in Connections, NEW q \in RequestIds, TakeRequest(c, q)
          PROVE  UNCHANGED notifications
      BY <3>2 DEF TakeRequest, queues
    <3>3. ASSUME NEW s \in sends, BeginWrite(s) \/ Write(s) \/ FinishDelivery(s)
          PROVE  UNCHANGED notifications
      BY <3>3 DEF BeginWrite, Write, FinishDelivery, queues
    <3>4. ASSUME ReadAnswer \/ ReadTerminal \/ ReadProcessed \/ ReadState \/ ReadSocketClose \/ ReadDisconnected
                 \/ ChildEnded \/ EndClose
          PROVE  UNCHANGED notifications
      BY <3>4 DEF ReadAnswer, ReadTerminal, ReadProcessed, ReadState, ReadSocketClose, ReadDisconnected,
                  ChildEnded, EndClose, queues
    <3>5. UNCHANGED notifications
      BY <1>2, <2>2, <3>1, <3>2, <3>3, <3>4, Zenon DEF FromParent, Parent, ParentStep, ClientSends
    <3> QED
      BY <1>1, <3>5
  <2> QED
    BY <2>1, <2>2
<1>3. CASE Child
  <2>1. ASSUME \/ ReceiveRefused \/ ReceiveConnect \/ ReceiveEnvelope \/ ReceiveEnqueue
               \/ ControlReceipt \/ ControlDisconnect \/ ControlShutdown
               \/ OwnerRun \/ StopOwner \/ Stopped
        PROVE  UNCHANGED notifications
    BY <2>1 DEF ReceiveRefused, ReceiveConnect, ReceiveEnvelope, ReceiveEnqueue, ControlReceipt, ControlDisconnect,
                ControlShutdown, OwnerRun, StopOwner, Stopped, queues
  <2>2. ASSUME NEW c \in Connections,
               \/ TakeEnvelope(c) \/ CallOwner(c) \/ AfterSync(c) \/ PublishBinding(c) \/ StartSend(c) \/ Withhold(c)
               \/ CloseSession(c) \/ PumpStopped(c) \/ EndSession(c) \/ FinishConnection(c) \/ DrainSession(c)
        PROVE  UNCHANGED notifications
    BY <2>2 DEF TakeEnvelope, CallOwner, AfterSync, PublishBinding, StartSend, Withhold, CloseSession, PumpStopped,
                EndSession, FinishConnection, DrainSession, queues
  <2>3. ASSUME NEW c \in Connections, PutNotification(c)
        PROVE  Goal
    <3>1. UNCHANGED notifications \/ (notifications' = Append(notifications, Notice(c)) /\ Notice(c) \in Message)
      BY <2>3, PutNotificationTypes
    <3>2. Notice(c) \in Message => Items(Append(notifications, Notice(c))) = Items(notifications) \cup {Notice(c)}
      BY <1>0, ItemsOf
    <3>3. UNCHANGED notifications \/ m \in Items(notifications) \/ m = Notice(c)
      BY <1>0, <3>1, <3>2
    <3> QED
      BY <1>1, <2>3, <3>3
  <2> QED
    BY <1>1, <1>3, <2>1, <2>2, <2>3, Zenon DEF Child, ChildStep
<1>4. CASE CloseTimeout /\ ChildLost
  BY <1>1, <1>4 DEF CloseTimeout, queues
<1>5. ASSUME NEW c \in Connections, ClientLost(c) PROVE Goal
  BY <1>1, <1>5 DEF ClientLost, queues
<1>6. ASSUME NEW c \in Connections, Revoke(c) PROVE Goal
  BY <1>1, <1>6 DEF Revoke, queues
<1>7. CASE ChildDies
  <2>1. PICK j \in 0..Len(notifications) : notifications' = SubSeq(notifications, 1, j)
    BY <1>7, ChildDiesTypes
  <2>2. Items(SubSeq(notifications, 1, j)) \subseteq Items(notifications)
    BY <1>0, ItemsOf
  <2> QED
    BY <1>0, <2>1, <2>2
<1>8. CASE StartClose
  BY <1>1, <1>8 DEF StartClose
<1>9. CASE UNCHANGED vars
  BY <1>1, <1>9 DEF vars, queues
<1> QED
  BY <1>2, <1>3, <1>4, <1>5, <1>6, <1>7, <1>8, <1>9, StepCases

\* A cancelled send does not go on.
LEMMA CancelledStops ==
  ASSUME TypeInv, NEW S, NEW t \in Cancelled(S), t.c \in S
  PROVE  t.at \notin {"waiting", "sending"}
<1>1. PICK s \in sends : t = IF s.c \in S /\ s.at \in {"waiting", "sending"}
                             THEN [s EXCEPT !.at = "failed"] ELSE s
  BY DEF Cancelled
<1>2. s \in Send
  BY DEF TypeInv, ParentType
<1>3. CASE s.c \in S /\ s.at \in {"waiting", "sending"}
  <2>1. t.at = "failed"
    BY <1>1, <1>2, <1>3, SendStage DEF Stages
  <2> QED
    BY <2>1
<1>4. CASE ~(s.c \in S /\ s.at \in {"waiting", "sending"})
  BY <1>1, <1>4
<1> QED
  BY <1>3, <1>4

\* The revision of a binding that is taken over is the next one.
LEMMA StateTaken ==
  ASSUME TypeInv, ReadState, ~StateRefused
  PROVE  /\ Head(results) \in Result /\ Head(results).kind = "state"
         /\ Head(results).c \in Connections /\ Head(results).n \in Nat
         /\ \A d \in Connections :
              \/ conn'[d].rev = conn[d].rev /\ (d = Head(results).c => ~(conn[d].registered /\ ~conn[d].closed))
              \/ /\ d = Head(results).c /\ conn[d].registered /\ ~conn[d].closed
                 /\ conn'[d].rev = conn[d].rev + 1 /\ Head(results).n = conn[d].rev + 1
                 /\ sends' = Cancelled({d})
<1>1. Head(results) \in Result /\ Head(results).kind = "state"
  BY ReadingTypes DEF ReadState
<1>2. Head(results).c \in Connections /\ Head(results).n \in Nat
  BY <1>1 DEF Result
<1>3. \A d \in Connections : conn'[d].rev = IF /\ d = Head(results).c /\ conn[Head(results).c].registered
                                               /\ ~conn[Head(results).c].closed
                                            THEN Head(results).n ELSE conn[d].rev
  BY ReadStateConn
<1>4. conn[Head(results).c].registered /\ ~conn[Head(results).c].closed
        => Head(results).n = conn[Head(results).c].rev + 1 /\ sends' = Cancelled({Head(results).c})
  BY Zenon DEF Reject, ReadState, StateRefused, AfterState
<1> QED
  BY <1>1, <1>2, <1>3, <1>4

\* The revision the parent holds for a connection never falls.
LEMMA RevisionsGrow ==
  ASSUME TypeInv, FromParent, NEW d \in Connections
  PROVE  conn'[d].rev >= conn[d].rev /\ conn'[d].rev \in Nat /\ conn[d].rev \in Nat
<1>1. conn[d].rev \in Nat
  BY DEF TypeInv, ParentType, ConnType
<1>2. CASE ReadState /\ ~StateRefused
  <2>1. conn'[d].rev = conn[d].rev \/ conn'[d].rev = conn[d].rev + 1
    BY <1>2, StateTaken
  <2> QED
    BY <1>1, <2>1
<1>3. CASE SameBinding(d)
  BY <1>1, <1>3 DEF SameBinding
<1> QED
  BY <1>2, <1>3, ParentBinding

\* The parent's steps: a write begins under the binding in force, and a new
\* binding stops the writes of the one before.
LEMMA FenceParent ==
  ASSUME TypeInv, FenceInv, FromParent, UNCHANGED childVars, [Next]_vars
  PROVE  FenceInv'
<1>1. ASSUME NEW t \in sends'
      PROVE  Named(t) /\ (t.at = "sending" => t.rev = conn'[t.c].rev)
  <2>1. SendComes(t)
    BY ParentSends
  <2>2. t.at = "sending" => t.rev = conn[t.c].rev
    <3>1. ASSUME NEW s \in sends, Kept(s, t), t.at = "sending", s.at = "sending"
          PROVE  t.rev = conn[t.c].rev
      BY <3>1 DEF FenceInv, Kept
    <3> QED
      BY <2>1, <3>1 DEF SendComes
  <2>3. Named(t)
    <3>1. ASSUME NEW s \in sends, Kept(s, t)
          PROVE  Named(t)
      BY <3>1 DEF FenceInv, Kept, Named
    <3>2. ASSUME ReadNotification, Arrived(t, Head(notifications))
          PROVE  Named(t)
      <4>1. notifications # <<>> /\ notifications \in Seq(Message)
        BY <3>2, ReadNotificationTypes DEF TypeInv, ChannelsType
      <4>2. Head(notifications) \in Items(notifications)
        BY <4>1, ItemsOf
      <4> QED
        BY <3>2, <4>2 DEF FenceInv, Named, Arrived
    <3> QED
      BY <2>1, <3>1, <3>2 DEF SendComes
  <2>4. t.at = "sending" => t.rev = conn'[t.c].rev
    <3>0. ParentType'
      BY ParentTypes DEF FromParent, Parent
    <3>1. t.c \in Connections
      BY <3>0 DEF ParentType, Send
    <3>2. CASE SameBinding(t.c)
      BY <2>2, <3>2 DEF SameBinding
    <3>3. CASE ReadState /\ ~StateRefused
      <4>1. CASE conn'[t.c].rev = conn[t.c].rev
        BY <2>2, <4>1
      <4>2. CASE sends' = Cancelled({t.c})
        BY <4>2, CancelledStops
      <4> QED
        BY <3>1, <3>3, <4>1, <4>2, StateTaken
    <3> QED
      BY <3>1, <3>2, <3>3, ParentBinding
  <2> QED
    BY <2>3, <2>4
<1>2. ASSUME NEW m \in Items(notifications)'
      PROVE  Named(m)
  <2>1. ASSUME NEW c \in Connections, m = Notice(c)
        PROVE  Named(m)
    BY <2>1 DEF Named, Notice
  <2> QED
    BY <1>2, <2>1, NoticesStep DEF FenceInv
<1>3. ASSUME NEW k \in Items(controls)', k.kind = "receipt", k.id[2] = "state", k.sent
      PROVE  k.id[3] <= conn'[k.id[1]].rev
  <2>1. controls \in Seq(ControlMsg) /\ ChannelsType'
    BY ParentTypes DEF TypeInv, ChannelsType, FromParent, Parent
  <2>2. k \in ControlMsg
    <3>1. controls' \in Seq(ControlMsg) /\ Items(controls)' = Items(controls')
      BY <2>1 DEF ChannelsType, Items
    <3>2. Items(controls') \subseteq ControlMsg
      BY <3>1, ItemsOf
    <3> QED
      BY <3>1, <3>2
  <2>3. k.id[1] \in Connections /\ k.id[3] \in Nat
    BY <1>3, <2>2 DEF ControlMsg, Ids
  <2>4. conn'[k.id[1]].rev >= conn[k.id[1]].rev /\ conn'[k.id[1]].rev \in Nat /\ conn[k.id[1]].rev \in Nat
    BY <2>3, RevisionsGrow
  <2>5. CASE k \in Items(controls)
    BY <1>3, <2>3, <2>4, <2>5 DEF FenceInv
  <2>6. ASSUME NEW s \in sends, FinishDelivery(s), k = Receipt(s.id, s.at = "sent")
        PROVE  FALSE
    <3>1. s.id[2] = s.kind /\ s \in Send /\ k.id = s.id
      BY <2>6 DEF FenceInv, Named, TypeInv, ParentType, Receipt
    <3>2. s.kind # "state"
      BY <3>1 DEF Send
    <3> QED
      BY <1>3, <3>1, <3>2
  <2>7. ASSUME ReadState, ~StateRefused,
               k = ReceiptOf(conn[Head(results).c].registered /\ ~conn[Head(results).c].closed)
        PROVE  k.id[3] <= conn'[k.id[1]].rev
    <3>1. /\ k.id[1] = Head(results).c /\ k.id[3] = Head(results).n
          /\ conn[Head(results).c].registered /\ ~conn[Head(results).c].closed
      BY <1>3, <2>7 DEF ReceiptOf, Receipt
    <3>2. conn'[k.id[1]].rev = conn[k.id[1]].rev + 1 /\ Head(results).n = conn[k.id[1]].rev + 1
      BY <2>3, <2>7, <3>1, StateTaken
    <3> QED
      BY <2>3, <2>4, <3>1, <3>2
  <2>8. ASSUME NEW c \in Connections, k = [kind |-> "disconnect", c |-> c, seq |-> conn[c].start]
        PROVE  FALSE
    BY <1>3, <2>8
  <2> QED
    BY <1>3, <2>5, <2>6, <2>7, <2>8, ParentControls DEF ControlComes
<1>4. ASSUME NEW c \in Connections
      PROVE  chan'[c].synced <= conn'[c].rev
  <2>1. chan' = chan /\ chan[c].synced \in Nat
    BY DEF childVars, sessionVars, TypeInv, ChildType, ChanType
  <2> QED
    BY <2>1, RevisionsGrow DEF FenceInv
<1> QED
  BY <1>1, <1>2, <1>3, <1>4, Zenon DEF FenceInv

\* The child takes the controls, first in, first out.
LEMMA ChildTakesControls ==
  ASSUME Child
  PROVE  UNCHANGED controls \/ (controls # <<>> /\ controls' = Tail(controls))
<1>1. ASSUME ControlReceipt \/ ControlDisconnect \/ ControlShutdown
      PROVE  controls # <<>> /\ controls' = Tail(controls)
  BY <1>1 DEF ControlReceipt, ControlDisconnect, ControlShutdown, Control
<1>2. ASSUME \/ ReceiveRefused \/ ReceiveConnect \/ ReceiveEnvelope \/ ReceiveEnqueue
             \/ OwnerRun \/ StopOwner \/ Stopped
      PROVE  UNCHANGED controls
  BY <1>2 DEF ReceiveRefused, ReceiveConnect, ReceiveEnvelope, ReceiveEnqueue, OwnerRun, StopOwner, Stopped, queues
<1>3. ASSUME NEW c \in Connections,
             \/ TakeEnvelope(c) \/ CallOwner(c) \/ AfterSync(c) \/ PublishBinding(c) \/ StartSend(c) \/ Withhold(c)
             \/ PutNotification(c) \/ CloseSession(c) \/ PumpStopped(c) \/ EndSession(c) \/ FinishConnection(c)
             \/ DrainSession(c)
      PROVE  UNCHANGED controls
  BY <1>3 DEF TakeEnvelope, CallOwner, AfterSync, PublishBinding, StartSend, Withhold, PutNotification,
              CloseSession, PumpStopped, EndSession, FinishConnection, DrainSession, queues
<1> QED
  BY <1>1, <1>2, <1>3, Zenon DEF Child, ChildStep
\* And adds none.
LEMMA ChildControls ==
  ASSUME TypeInv, Child
  PROVE  Items(controls)' \subseteq Items(controls)
<1>0. controls \in Seq(ControlMsg)
  BY DEF TypeInv, ChannelsType
<1>2. controls # <<>> => Items(Tail(controls)) \subseteq Items(controls)
  BY <1>0, ItemsOf
<1>3. Items(controls)' = Items(controls')
  BY DEF Items
<1> QED
  BY <1>2, <1>3, ChildTakesControls

\* The child's steps: it knows what a receipt says.
LEMMA FenceChild ==
  ASSUME TypeInv, FenceInv, Child, [Next]_vars
  PROVE  FenceInv'
<1>1. UNCHANGED parentVars
  BY DEF Child
<1>2. UNCHANGED <<conn, sends>>
  BY <1>1 DEF parentVars, connVars, tableVars
<1>3. ASSUME NEW m \in Items(notifications)'
      PROVE  Named(m)
  <2>1. ASSUME NEW c \in Connections, m = Notice(c)
        PROVE  Named(m)
    BY <2>1 DEF Named, Notice
  <2> QED
    BY <1>3, <2>1, NoticesStep DEF FenceInv
<1>4. Items(controls)' \subseteq Items(controls)
  BY ChildControls
<1>5. ASSUME NEW c \in Connections
      PROVE  chan'[c].synced <= conn[c].rev
  <2>1. CASE chan'[c].synced = chan[c].synced
    BY <2>1 DEF FenceInv
  <2>2. CASE Acked(c, chan'[c].synced)
    <3>1. controls # <<>> /\ controls \in Seq(ControlMsg) /\ Head(controls).kind = "receipt"
      BY <2>2 DEF Acked, Control, TypeInv, ChannelsType
    <3>2. Head(controls) \in Items(controls)
      BY <3>1, ItemsOf
    <3> QED
      BY <2>2, <3>1, <3>2 DEF FenceInv, Acked, Rcpt
  <2> QED
    BY <2>1, <2>2, ChildSynced DEF Child
<1> QED
  BY <1>2, <1>3, <1>4, <1>5 DEF FenceInv, Named

\* A step keeps the invariant of the fence.
LEMMA FenceStep ==
  ASSUME TypeInv, FenceInv, [Next]_vars
  PROVE  FenceInv'
<1>0. controls \in Seq(ControlMsg) /\ \A c \in Connections : conn[c].rev \in Nat /\ chan[c].synced \in Nat
  BY DEF TypeInv, ChannelsType, ParentType, ConnType, ChildType, ChanType
<1>n. \A m \in Items(notifications)' : Named(m)
  <2>1. ASSUME NEW c \in Connections, NEW m, m = Notice(c)
        PROVE  Named(m)
    BY <2>1 DEF Named, Notice
  <2> QED
    BY <2>1, NoticesStep DEF FenceInv
<1>l. ASSUME ChildLost, UNCHANGED controls, \A d \in Connections : SameBinding(d),
             \A t \in sends' : (Named(t) /\ t.at # "sending") \/ t \in sends, sends' \in SUBSET Send
      PROVE  FenceInv'
  <2>1. \A c \in Connections : chan'[c].synced = 0
    BY <1>l DEF ChildLost, Each, NoSession
  <2>2. \A m \in Items(controls)' : m \in ControlMsg /\ m \in Items(controls)
    BY <1>0, <1>l, ItemsOf DEF Items
  <2>3. \A t \in sends' : t.c \in Connections
    BY <1>l DEF Send
  <2>4. \A m \in ControlMsg : m.kind = "receipt" => m.id[1] \in Connections
    BY DEF ControlMsg, Ids
  <2> QED
    BY <1>0, <1>l, <1>n, <2>1, <2>2, <2>3, <2>4 DEF FenceInv, SameBinding
<1>1. CASE FromParent
  <2>1. UNCHANGED childVars
    BY <1>1 DEF FromParent, Parent
  <2> QED
    BY <1>1, <2>1, FenceParent
<1>2. CASE Child
  BY <1>2, FenceChild
<1>3. CASE CloseTimeout /\ ChildLost
  <2>1. Fail("unknown") /\ UNCHANGED controls
    BY <1>3 DEF CloseTimeout, queues
  <2>2. sends' = Cancelled(Registered) /\ \A d \in Connections : SameBinding(d)
    BY <2>1, FailConn DEF Fail
  <2>3. \A t \in sends' : (Named(t) /\ t.at # "sending") \/ t \in sends
    <3>1. ASSUME NEW t \in sends', t \notin sends
          PROVE  Named(t) /\ t.at # "sending"
      <4>1. PICK s \in sends : t.at = "failed" /\ Kept(s, t)
        BY <2>2, <3>1, CancelledSends DEF TypeInv, ParentType
      <4> QED
        BY <4>1 DEF FenceInv, Named, Kept
    <3> QED
      BY <3>1
  <2>4. sends' \in SUBSET Send
    BY <2>2, CancelledSends DEF TypeInv, ParentType
  <2> QED
    BY <1>3, <1>l, <2>1, <2>2, <2>3, <2>4
<1>4. ASSUME NEW c \in Connections, ClientLost(c), UNCHANGED childVars PROVE FenceInv'
  <2>1. UNCHANGED <<controls, sends, chan>> /\ \A d \in Connections : SameBinding(d)
    BY <1>4, ClientLostConn DEF ClientLost, queues, tableVars, childVars, sessionVars
  <2>2. \A m \in Items(controls)' : m \in ControlMsg /\ m \in Items(controls)
    BY <1>0, <2>1, ItemsOf DEF Items
  <2>3. \A t \in sends : t.c \in Connections
    BY DEF TypeInv, ParentType, Send
  <2>4. \A m \in ControlMsg : m.kind = "receipt" => m.id[1] \in Connections
    BY DEF ControlMsg, Ids
  <2> QED
    BY <1>n, <2>1, <2>2, <2>3, <2>4 DEF FenceInv, SameBinding
<1>5. ASSUME NEW c \in Connections, Revoke(c), UNCHANGED parentVars PROVE FenceInv'
  <2>1. UNCHANGED <<controls, sends, conn>> /\ RequestClose(c)
    BY <1>5 DEF Revoke, queues, parentVars, connVars, tableVars
  <2>2. \A d \in Connections : chan'[d].synced = chan[d].synced
    BY <2>1, RequestCloseChan DEF SameSynced
  <2>3. Items(controls)' = Items(controls)
    BY <2>1 DEF Items
  <2> QED
    BY <1>n, <2>1, <2>2, <2>3 DEF FenceInv
<1>6. CASE ChildDies /\ UNCHANGED parentVars
  <2>1. ChildLost /\ UNCHANGED <<controls, sends, conn>>
    BY <1>6 DEF ChildDies, parentVars, connVars, tableVars
  <2>2. sends' \in SUBSET Send
    BY <2>1 DEF TypeInv, ParentType
  <2> QED
    BY <1>l, <2>1, <2>2 DEF SameBinding
<1>7. CASE StartClose /\ UNCHANGED childVars
  <2>1. UNCHANGED conn /\ (sends' = sends \/ sends' = Cancelled(Connections)) /\ UNCHANGED chan
        /\ (controls' = controls \/ controls' = Append(controls, [kind |-> "shutdown", seq |-> sequence]))
    BY <1>7 DEF StartClose, connVars, childVars, sessionVars
  <2>2. ASSUME NEW t \in sends'
        PROVE  Named(t) /\ (t.at = "sending" => t.rev = conn'[t.c].rev)
    <3>1. PICK s \in sends : t = s \/ (t.at = "failed" /\ Kept(s, t))
      BY <2>1, CancelledSends DEF TypeInv, ParentType
    <3> QED
      BY <2>1, <3>1 DEF FenceInv, Named, Kept
  <2>3. [kind |-> "shutdown", seq |-> sequence] \in ControlMsg
    BY DEF TypeInv, ParentType, ControlMsg
  <2>4. \A k \in Items(controls)' : k \in Items(controls) \/ k.kind = "shutdown"
    <3>1. UNCHANGED controls => Items(controls)' = Items(controls)
      BY DEF Items
    <3> QED
      BY <2>1, <2>3, <3>1, ControlAppended
  <2> QED
    BY <1>n, <2>1, <2>2, <2>4 DEF FenceInv
<1>8. CASE UNCHANGED vars
  <2>1. UNCHANGED <<controls, sends, conn, chan>>
    BY <1>8 DEF vars, queues, parentVars, connVars, tableVars, childVars, sessionVars
  <2>2. Items(controls)' = Items(controls)
    BY <2>1 DEF Items
  <2> QED
    BY <1>n, <2>1, <2>2 DEF FenceInv
<1> QED
  BY <1>1, <1>2, <1>3, <1>4, <1>5, <1>6, <1>7, <1>8, StepCases

\* Only a send task writes on a socket.
LEMMA OnlyWrites ==
  ASSUME TypeInv, [Next]_vars, NEW c \in Connections, wire'[c] # wire[c]
  PROVE  \E s \in sends : Write(s)
<1>1. CASE FromParent
  <2>1. ASSUME NEW d \in Connections,
               \/ Connect(d) \/ Enqueue(d) \/ SendEnvelope(d) \/ Admitted(d) \/ EndWorker(d)
               \/ DisconnectStart(d) \/ DisconnectEnd(d)
        PROVE  UNCHANGED wire
    BY <2>1 DEF Connect, Enqueue, SendEnvelope, Admitted, EndWorker, DisconnectStart, DisconnectEnd
  <2>2. ASSUME NEW d \in Connections, NEW q \in RequestIds, TakeRequest(d, q)
        PROVE  UNCHANGED wire
    BY <2>2 DEF TakeRequest
  <2>3. ASSUME NEW s \in sends, BeginWrite(s) \/ FinishDelivery(s)
        PROVE  UNCHANGED wire
    BY <2>3 DEF BeginWrite, FinishDelivery
  <2>4. ASSUME ReadNotification \/ ReadAnswer \/ ReadTerminal \/ ReadProcessed \/ ReadState \/ ReadSocketClose
               \/ ReadDisconnected \/ ChildEnded \/ EndClose
        PROVE  UNCHANGED wire
    BY <2>4 DEF ReadNotification, ReadAnswer, ReadTerminal, ReadProcessed, ReadState, ReadSocketClose,
                ReadDisconnected, ChildEnded, EndClose
  <2>5. UNCHANGED wire \/ \E s \in sends : Write(s)
    BY <1>1, <2>1, <2>2, <2>3, <2>4, Zenon DEF FromParent, Parent, ParentStep, ClientSends
  <2> QED
    BY <2>5
<1>2. ASSUME NEW d \in Connections, ClientLost(d) PROVE UNCHANGED wire
  BY <1>2 DEF ClientLost
<1>3. UNCHANGED parentVars => UNCHANGED wire
  BY DEF parentVars
<1>4. Child \/ CloseTimeout \/ StartClose \/ UNCHANGED vars => UNCHANGED wire
  BY DEF Child, CloseTimeout, StartClose, parentVars, vars
<1> QED
  BY <1>1, <1>2, <1>3, <1>4, StepCases

\* What is written was admitted to the socket under the revision in force,
\* and the child knows of no later one.
LEMMA WireStep ==
  ASSUME TypeInv, FenceInv, [Next]_vars, NEW c \in Connections, wire'[c] # wire[c]
  PROVE  wire'[c][Len(wire'[c])].rev >= chan[c].synced
<1>1. \E s \in sends : Write(s)
  BY OnlyWrites
<1>2. PICK s \in sends : Write(s)
  BY <1>1
<1> DEFINE out == [kind |-> s.kind, seq |-> s.seq, rev |-> s.rev]
<1>3. wire' = [wire EXCEPT ![s.c] = Append(wire[s.c], out)] /\ wire \in [Connections -> Seq(Written)]
  BY <1>2, WriteTypes DEF TypeInv, ParentType
<1>4. out.rev = s.rev /\ out \in Written
  BY DEF TypeInv, ParentType, Send, Written
<1>5. s.c = c /\ s.at = "sending"
  <2> HIDE DEF out
  <2> QED
    BY <1>2, <1>3 DEF Write
<1>6. wire'[c][Len(wire'[c])] = out
  <2> HIDE DEF out
  <2>1. wire'[c] = Append(wire[c], out) /\ wire[c] \in Seq(Written)
    BY <1>3, <1>5
  <2>2. Len(wire'[c]) = Len(wire[c]) + 1 /\ Append(wire[c], out)[Len(wire[c]) + 1] = out
    BY <1>4, <2>1, AppendProperties
  <2> QED
    BY <2>1, <2>2
<1>7. s.rev = conn[c].rev /\ chan[c].synced <= conn[c].rev /\ conn[c].rev \in Nat /\ chan[c].synced \in Nat
  BY <1>2, <1>5 DEF FenceInv, TypeInv, ParentType, ConnType, ChildType, ChanType
<1> QED
  BY <1>4, <1>6, <1>7

\* The invariant of the fence holds in every state.
LEMMA FenceInvariant == Spec => [](TypeInv /\ FenceInv)
<1>1. Init => FenceInv
  BY DEF Init, ChannelsInit, ParentInit, ChildInit, Each, NoSession, FenceInv, Items
<1>2. Init => TypeInv /\ FenceInv
  BY <1>1, InitTypes
<1>3. TypeInv /\ FenceInv /\ [Next]_vars => (TypeInv /\ FenceInv)'
  BY TypesStep, FenceStep
<1> QED
  BY <1>2, <1>3, PTL DEF Spec

\* Once the child knows a revision of the binding to be in force, nothing of
\* an older one is written on the socket.
THEOREM OldBindingsAreFenced == Spec => FenceHolds
<1> DEFINE Fence == \A c \in Connections :
                      wire'[c] # wire[c] => wire'[c][Len(wire'[c])].rev >= chan[c].synced
<1>1. TypeInv /\ FenceInv /\ [Next]_vars => [Fence]_vars
  BY WireStep
<1>2. FenceHolds <=> [][Fence]_vars
  BY DEF FenceHolds
<1> HIDE DEF Fence
<1> QED
  BY <1>1, <1>2, FenceInvariant, PTL DEF Spec

------------------------------------------------------------------------------
\* A connection's life at the parent: its worker begins with nothing, and is
\* over only without a registration.
Life(d) ==
    /\ worker[d].at = "new" =>
          conn[d].start = 0 /\ ~conn[d].registered /\ ~conn[d].gone /\ conn[d].ending = "no"
    /\ worker[d].at = "ended" => ~conn[d].registered
    /\ conn[d].start <= sequence
LivesInv == \A d \in Connections : Life(d)

\* A connection is given up when the child told that its session is gone,
\* refused its connect, or is no more.
GivenUp(d) == conn[d].gone \/ ~conn[d].registered
Told(d) == ReadDisconnected /\ Head(results).c = d
Refused(d) ==
    /\ ReadAnswer /\ ~Head(results).ok
    /\ \E p \in pending : p.seq = Head(results).n /\ p.op = "connect" /\ p.c = d
Lives(d) ==
    /\ worker'[d].at = "new" => worker[d].at = "new"
    /\ conn'[d].start = conn[d].start \/ (Connect(d) /\ Admits(d))
    /\ GivenUp(d)' => GivenUp(d) \/ failure' # "none" \/ ~childAlive \/ Told(d) \/ Refused(d)
    /\ Life(d)'

\* The numbers of the commands only grow.
LEMMA SequenceGrows ==
  ASSUME TypeInv, FromParent
  PROVE  sequence \in Nat /\ sequence' \in Nat /\ sequence <= sequence'
<1>1. sequence \in Nat
  BY DEF TypeInv, ParentType
<1>2. ASSUME NEW m, Queues(m)
      PROVE  sequence' = sequence + 1
  BY <1>2 DEF Queues
<1>3. sequence' = sequence \/ sequence' = sequence + 1
  BY <1>2, OtherParentSteps, ConnectQueues, SendEnvelopeQueues, EnqueueQueues
<1> QED
  BY <1>1, <1>3

\* A step that leaves the registrations alone leaves the lives alone.
LEMMA SameLives ==
  ASSUME TypeInv, LivesInv, NEW d \in Connections, sequence <= sequence', sequence \in Nat, sequence' \in Nat,
         conn'[d].start = conn[d].start, conn'[d].registered = conn[d].registered,
         conn'[d].gone = conn[d].gone,
         worker[d].at = "new" => conn'[d].ending = conn[d].ending,
         worker'[d].at = worker[d].at \/ worker'[d].at \notin {"new", "ended"}
  PROVE  Lives(d)
<1>1. conn[d].start \in Nat /\ conn[d].start <= sequence
  BY DEF TypeInv, ParentType, ConnType, LivesInv, Life
<1> QED
  BY <1>1 DEF Lives, LivesInv, Life, GivenUp

\* The parent's steps.
LEMMA ConnectLives ==
  ASSUME TypeInv, LivesInv, NEW c \in Connections, Connect(c), NEW d \in Connections,
         sequence <= sequence', sequence \in Nat, sequence' \in Nat
  PROVE  Lives(d)
<1>1. conn[d].start \in Nat /\ Life(d) /\ worker[c].at = "new"
  BY DEF TypeInv, ParentType, ConnType, LivesInv, Connect
<1>2. Admits(c) => sequence' = sequence + 1
  BY ConnectQueues DEF Queues
<1>3. /\ conn'[d].start = IF d = c /\ Admits(c) THEN sequence + 1 ELSE conn[d].start
      /\ (conn'[d].registered <=> (conn[d].registered \/ (d = c /\ Admits(c))))
      /\ conn'[d].ending = conn[d].ending /\ conn'[d].gone = conn[d].gone
      /\ worker'[d].at = IF d # c THEN worker[d].at ELSE IF Admits(c) THEN "connecting" ELSE "failed"
  BY ConnectConn, ConnectWorker
<1>4. Life(d)'
  BY <1>1, <1>2, <1>3 DEF Life
<1>5. GivenUp(d)' => GivenUp(d)
  BY <1>1, <1>3 DEF GivenUp, Life
<1> QED
  BY <1>1, <1>3, <1>4, <1>5 DEF Lives
\* Fail takes registrations away, and gives a reason.
LEMMA FailLives ==
  ASSUME TypeInv, LivesInv, NEW reason, Fail(reason), reason # "none", NEW d \in Connections,
         sequence' = sequence
  PROVE  Lives(d)
<1>1. Life(d) /\ failure' # "none"
  BY DEF LivesInv, Fail
<1>2. /\ conn'[d].start = conn[d].start /\ conn'[d].ending = conn[d].ending
      /\ (conn'[d].registered => conn[d].registered)
      /\ (conn'[d].gone <=> (conn[d].gone \/ conn[d].registered))
      /\ worker'[d].at = worker[d].at \/ worker'[d].at = "failed"
  BY FailConn, FailWorker DEF SameStart
<1> QED
  BY <1>1, <1>2 DEF Lives, Life
\* A worker that ends without a registration is over.
LEMMA EndWorkerLives ==
  ASSUME TypeInv, LivesInv, NEW c \in Connections, EndWorker(c), NEW d \in Connections,
         sequence' = sequence
  PROVE  Lives(d)
<1>1. Life(d)
  BY DEF LivesInv
<1>2. /\ conn'[d].start = conn[d].start /\ conn'[d].registered = conn[d].registered
      /\ conn'[d].gone = conn[d].gone /\ (d # c => conn'[d].ending = conn[d].ending)
      /\ worker'[d].at = IF d # c THEN worker[d].at ELSE IF conn[c].registered THEN "closing" ELSE "ended"
  BY EndWorkerConn, EndWorkerWorker DEF SameStart
<1> QED
  BY <1>1, <1>2 DEF Lives, Life, GivenUp
\* The registration goes when the child has told that the session is gone.
LEMMA DisconnectLives ==
  ASSUME TypeInv, LivesInv, NEW c \in Connections, DisconnectStart(c) \/ DisconnectEnd(c), NEW d \in Connections,
         sequence' = sequence
  PROVE  Lives(d)
<1>1. Life(d)
  BY DEF LivesInv
<1>2. CASE DisconnectStart(c)
  <2>1. /\ conn'[d].start = conn[d].start /\ conn'[d].registered = conn[d].registered
        /\ conn'[d].ending = IF d = c THEN "waiting" ELSE conn[d].ending
        /\ (conn'[d].gone <=> (conn[d].gone \/ (d = c /\ ~(failure = "none" /\ childAlive))))
        /\ worker'[d].at = worker[d].at /\ failure' = failure /\ conn[c].ending = "begun"
    BY <1>2, DisconnectStartConn DEF SameStart, DisconnectStart
  <2> QED
    BY <1>1, <2>1 DEF Lives, Life, GivenUp
<1>3. CASE DisconnectEnd(c)
  <2>1. /\ conn'[d].start = conn[d].start /\ (conn'[d].registered <=> (d # c /\ conn[d].registered))
        /\ conn'[d].ending = IF d = c THEN "done" ELSE conn[d].ending
        /\ conn'[d].gone = conn[d].gone
    BY <1>3, DisconnectEndConn DEF SameStart
  <2>2. worker'[d].at = IF d = c /\ worker[c].at = "closing" THEN "ended" ELSE worker[d].at
    BY <1>3, DisconnectEndWorker
  <2>3. conn[c].gone /\ conn[c].ending = "waiting"
    BY <1>3 DEF DisconnectEnd
  <2> QED
    BY <1>1, <2>1, <2>2, <2>3 DEF Lives, Life, GivenUp
<1> QED
  BY <1>2, <1>3
\* The end of a session is told.
LEMMA ReadDisconnectedLives ==
  ASSUME TypeInv, LivesInv, ReadDisconnected, NEW d \in Connections, sequence' = sequence
  PROVE  Lives(d)
<1>1. Life(d)
  BY DEF LivesInv
<1>2. /\ conn'[d].start = conn[d].start /\ conn'[d].registered = conn[d].registered
      /\ conn'[d].ending = conn[d].ending
      /\ (conn'[d].gone <=> (conn[d].gone \/ (d = Head(results).c /\ conn[d].registered)))
      /\ worker'[d].at = worker[d].at
  BY ReadDisconnectedConn DEF SameStart, ReadDisconnected
<1> QED
  BY <1>1, <1>2 DEF Lives, Life, GivenUp, Told
\* A refused connect takes the registration away.
LEMMA ReadAnswerLives ==
  ASSUME TypeInv, LivesInv, ReadAnswer, NEW d \in Connections, sequence' = sequence, sequence \in Nat
  PROVE  Lives(d)
<1>0. Life(d)
  BY DEF LivesInv
<1>1. \/ Fail("protocol")
      \/ \E p \in pending : AnswerAccepted(p)
      \/ \E p \in pending : /\ p.seq = Head(results).n /\ ~Head(results).ok
                            /\ CallRefused(p) \/ EnqueueRefused(p)
  <2>1. \/ Fail("protocol")
        \/ \E p \in {e \in pending : e.seq = Head(results).n} :
              IF Head(results).ok THEN AnswerAccepted(p) ELSE CallRefused(p) \/ EnqueueRefused(p)
    BY Zenon DEF Reject, ReadAnswer
  <2> QED
    BY <2>1, Zenon
<1>2. CASE Fail("protocol")
  BY <1>2, FailLives
<1>3. ASSUME NEW p \in pending, AnswerAccepted(p)
      PROVE  Lives(d)
  <2>1. conn' = conn /\ Woken(p, "reading")
    BY <1>3 DEF AnswerAccepted
  <2>2. worker'[d].at = worker[d].at \/ worker'[d].at = "reading"
    BY <2>1, WokenWorker
  <2> QED
    BY <2>1, <2>2, SameLives
<1>4. ASSUME NEW p \in pending, p.seq = Head(results).n, ~Head(results).ok, CallRefused(p)
      PROVE  Lives(d)
  <2>1. Woken(p, "failed")
    BY <1>4, Zenon DEF CallRefused
  <2>2. /\ worker'[d].at = IF d = p.c /\ Awaited(p) THEN "failed" ELSE worker[d].at
        /\ conn'[d].start = conn[d].start /\ conn'[d].ending = conn[d].ending /\ conn'[d].gone = conn[d].gone
        /\ (conn'[d].registered <=> (conn[d].registered /\ ~(d = p.c /\ Awaited(p) /\ p.op = "connect")))
    BY <1>4, <2>1, WokenWorker, CallRefusedConn DEF SameStart
  <2>3. d = p.c /\ p.op = "connect" => Refused(d)
    BY <1>4 DEF Refused
  <2> HIDE DEF Awaited
  <2> QED
    BY <1>0, <2>2, <2>3 DEF Lives, Life, GivenUp
<1>5. ASSUME NEW p \in pending, EnqueueRefused(p)
      PROVE  Lives(d)
  <2>1. /\ conn'[d].start = conn[d].start /\ conn'[d].ending = conn[d].ending /\ conn'[d].gone = conn[d].gone
        /\ conn'[d].registered = conn[d].registered
    BY <1>5, EnqueueRefusedConn DEF SameStart
  <2>2. worker' = worker
    BY <1>5, Zenon DEF EnqueueRefused
  <2> QED
    BY <2>1, <2>2, SameLives
<1> QED
  BY <1>1, <1>2, <1>3, <1>4, <1>5

\* What the parent does to the lives, for each of its steps.
LEMMA ParentLives ==
  ASSUME TypeInv, LivesInv, FromParent, NEW d \in Connections
  PROVE  Lives(d)
<1>0. sequence \in Nat /\ sequence' \in Nat /\ sequence <= sequence'
  BY SequenceGrows
<1>1. ASSUME conn' = conn, worker' = worker
      PROVE  Lives(d)
  BY <1>0, <1>1, SameLives
<1>2. ASSUME NEW c \in Connections, Connect(c)
      PROVE  Lives(d)
  BY <1>0, <1>2, ConnectLives
<1>3. ASSUME NEW c \in Connections, EndWorker(c)
      PROVE  Lives(d)
  <2>1. sequence' = sequence
    BY <1>3 DEF EndWorker
  <2> QED
    BY <1>3, <2>1, EndWorkerLives
<1>4. ASSUME NEW c \in Connections, DisconnectStart(c) \/ DisconnectEnd(c)
      PROVE  Lives(d)
  <2>1. sequence' = sequence
    BY <1>4 DEF DisconnectStart, DisconnectEnd
  <2> QED
    BY <1>4, <2>1, DisconnectLives
<1>5. ASSUME NEW c \in Connections, Enqueue(c)
      PROVE  Lives(d)
  <2>1. worker[c].at = "barrier" /\ BeginsToEnd(c, d)
    BY <1>5, EnqueueConn DEF Enqueue
  <2>2. d # c => SameAt(d)
    BY <1>5, EnqueueWorker
  <2>3. d = c => worker'[d].at \in {"failed", "admitting"}
    BY <1>5, EnqueueWorker
  <2>4. worker'[d].at = worker[d].at \/ worker'[d].at \notin {"new", "ended"}
    BY <2>2, <2>3 DEF SameAt
  <2> QED
    BY <1>0, <2>1, <2>4, SameLives DEF BeginsToEnd, SameStart
<1>6. ASSUME NEW c \in Connections, Admitted(c)
      PROVE  Lives(d)
  <2>1. worker[c].at = "admitting" /\ BeginsToEnd(c, d)
    BY <1>6, AdmittedConn DEF Admitted
  <2>2. (d # c => SameAt(d)) /\ (d = c => worker'[d].at \in {"reading", "failed"})
    BY <1>6, AdmittedWorker
  <2>4. worker'[d].at = worker[d].at \/ worker'[d].at \notin {"new", "ended"}
    BY <2>2 DEF SameAt
  <2> QED
    BY <1>0, <2>1, <2>4, SameLives DEF BeginsToEnd, SameStart
<1>7. ASSUME NEW c \in Connections, SendEnvelope(c)
      PROVE  Lives(d)
  <2>1. SameStart(d) /\ SameLife(d)
    BY <1>7, SendEnvelopeConn
  <2>2. worker'[d].at = worker[d].at \/ worker'[d].at \in {"enveloping", "failed"}
    BY <1>7, SendEnvelopeWorker
  <2> QED
    BY <1>0, <2>1, <2>2, SameLives DEF SameStart, SameLife
<1>8. ASSUME NEW c \in Connections, NEW q \in RequestIds, TakeRequest(c, q)
      PROVE  Lives(d)
  <2>1. conn' = conn
    BY <1>8 DEF TakeRequest
  <2>2. worker'[d].at = worker[d].at \/ worker'[d].at \in {"failed", "barrier"}
    BY <1>8, TakeRequestWorker
  <2> QED
    BY <1>0, <2>1, <2>2, SameLives
<1>9. ASSUME NEW s \in sends, BeginWrite(s) \/ Write(s) \/ FinishDelivery(s)
      PROVE  Lives(d)
  BY <1>1, <1>9 DEF BeginWrite, Write, FinishDelivery, connVars
<1>10. ASSUME NEW reason \in {"protocol", "exited", "stopped"}, Fail(reason), sequence' = sequence
       PROVE  Lives(d)
  BY <1>10, FailLives
<1>11. CASE ReadNotification
  <2>1. sequence' = sequence /\ (Fail("protocol") \/ (conn' = conn /\ worker' = worker))
    BY <1>11, Zenon DEF Reject, ReadNotification
  <2> QED
    BY <1>1, <1>10, <2>1
<1>12. CASE ReadAnswer
  <2>1. sequence' = sequence
    BY <1>12 DEF ReadAnswer
  <2> QED
    BY <1>0, <1>12, <2>1, ReadAnswerLives
<1>13. CASE ReadTerminal
  BY <1>1, <1>13 DEF ReadTerminal, connVars
<1>14. CASE ReadProcessed \/ ReadSocketClose
  <2>1. worker' = worker
    BY <1>14 DEF ReadProcessed, ReadSocketClose
  <2>2. /\ conn'[d].start = conn[d].start /\ conn'[d].ending = conn[d].ending /\ conn'[d].gone = conn[d].gone
        /\ conn'[d].registered = conn[d].registered
    BY <1>14, ReadProcessedConn, ReadSocketCloseConn DEF SameStart, SameLife
  <2> QED
    BY <1>0, <2>1, <2>2, SameLives
<1>15. CASE ReadState
  <2>1. CASE StateRefused
    <3>1. Fail("protocol") /\ sequence' = sequence
      BY <1>15, <2>1, Zenon DEF Reject, ReadState, StateRefused
    <3> QED
      BY <1>10, <3>1
  <2>2. CASE ~StateRefused
    <3>1. worker' = worker
      BY <1>15, <2>2, Zenon DEF Reject, ReadState, StateRefused
    <3>2. SameStart(d) /\ SameLife(d)
      BY <1>15, <2>2, ReadStateConn
    <3> QED
      BY <1>0, <3>1, <3>2, SameLives DEF SameStart, SameLife
  <2> QED
    BY <2>1, <2>2
<1>16. CASE ReadDisconnected
  <2>1. sequence' = sequence
    BY <1>16 DEF ReadDisconnected
  <2> QED
    BY <1>16, <2>1, ReadDisconnectedLives
<1>17. CASE ChildEnded
  <2>1. sequence' = sequence /\ (Fail("stopped") \/ Fail("exited"))
    BY <1>17, Zenon DEF ChildEnded
  <2> QED
    BY <1>10, <2>1
<1>18. CASE EndClose
  <2>1. sequence' = sequence /\ failure # "none" /\ Fail(failure)
    BY <1>18 DEF EndClose
  <2> QED
    BY <2>1, FailLives
<1> HIDE DEF Lives
<1> QED
  BY <1>2, <1>3, <1>4, <1>5, <1>6, <1>7, <1>8, <1>9, <1>11, <1>12, <1>13, <1>14, <1>15, <1>16, <1>17, <1>18, Zenon
  DEF FromParent, Parent, ParentStep, ClientSends

\* While the session sends the answer to an envelope, it waits for nothing else.
MessagesPlaced == \A c \in Connections : sending[c].kind = "message" => chan[c].at = "send"

\* A session that is not there stays away, and the answers keep their place.
Away(d) == chan[d].at \in {"none", "gone"}
Still(d) ==
    /\ Away(d) => chan'[d].at = chan[d].at
    /\ sending'[d].kind = "message" => chan'[d].at = "send"
\* A step that moves no absent session and sends no answer leaves both still.
LEMMA SameStill ==
  ASSUME MessagesPlaced, NEW d \in Connections,
         sending'[d].kind = "message" => sending[d].kind = "message",
         chan'[d].at = chan[d].at \/ chan[d].at \notin {"none", "gone", "send"}
  PROVE  Still(d)
BY DEF Still, Away, MessagesPlaced
\* Forgetting a message adds none.
LEMMA ForgetKind ==
  ASSUME TypeInv, NEW c \in Connections, NEW kind, Forget(c, kind), NEW d \in Connections
  PROVE  sending'[d].kind = "message" => sending[d].kind = "message" /\ ~(d = c /\ kind = "message")
<1>1. sending \in [Connections -> Sending]
  BY DEF TypeInv, ChildType
<1>2. sending' = IF sending[c].kind = kind THEN [sending EXCEPT ![c] = Nobody] ELSE sending
  BY Zenon DEF Forget
<1>3. sending'[d] = IF d = c /\ sending[c].kind = kind THEN Nobody ELSE sending[d]
  BY <1>1, <1>2
<1>4. Nobody.kind = "none"
  BY DEF Nobody
<1> QED
  BY <1>3, <1>4
\* Cancelling a session forgets the answer it was sending.
LEMMA CancelStill ==
  ASSUME TypeInv, MessagesPlaced, NEW c \in Connections, Cancel(c), NEW d \in Connections
  PROVE  Still(d)
<1> DEFINE ch == [chan[c] EXCEPT !.disconnecting = TRUE]
<1>1. CASE CancelLoop(c, ch)
  <2>1. /\ chan[c].at \in {"receive", "join", "ownerWait", "send"} /\ Forget(c, "message")
    BY <1>1 DEF CancelLoop
  <2>2. d # c => chan'[d].at = chan[d].at
    BY <1>1, CancelLoopChan
  <2>3. sending'[d].kind = "message" => sending[d].kind = "message" /\ d # c
    BY <2>1, ForgetKind
  <2> QED
    BY <2>1, <2>2, <2>3 DEF Still, Away, MessagesPlaced
<1>2. CASE CancelSync(c, ch)
  <2>1. chan[c].at = "sync" /\ UNCHANGED sending
    BY <1>2, Zenon DEF CancelSync
  <2>2. d # c => chan'[d].at = chan[d].at
    BY <1>2, CancelSyncChan
  <2> QED
    BY <2>1, <2>2, SameStill
<1>3. CASE CancelUnbind(c, ch)
  <2>1. chan[c].at = "unbinding" /\ Forget(c, "revoked")
    BY <1>3, Zenon DEF CancelUnbind
  <2>2. d # c => chan'[d].at = chan[d].at
    BY <1>3, CancelUnbindChan
  <2>3. sending'[d].kind = "message" => sending[d].kind = "message"
    BY <2>1, ForgetKind
  <2> QED
    BY <2>1, <2>2, <2>3, SameStill
<1>4. CASE CancelPumpWait(c, ch)
  <2>1. chan[c].at = "pumpWait" /\ UNCHANGED sending
    BY <1>4, Zenon DEF CancelPumpWait
  <2>2. d # c => chan'[d].at = chan[d].at
    BY <1>4, CancelPumpWaitChan
  <2> QED
    BY <2>1, <2>2, SameStill
<1>5. CASE CancelWaiting(c, ch)
  <2>1. chan[c].at = "waiting" /\ UNCHANGED sending
    BY <1>5, Zenon DEF CancelWaiting
  <2>2. \E n : CancelPublication(c, n, [ch EXCEPT !.at = "finalizing"])
    BY <1>5, Zenon DEF CancelWaiting
  <2>3. d # c => chan'[d].at = chan[d].at
    BY <2>2, CancelPublicationChan
  <2> QED
    BY <2>1, <2>3, SameStill
<1> HIDE DEF ch
<1> QED
  BY <1>1, <1>2, <1>3, <1>4, <1>5, Zenon DEF Cancel, ch
\* The end of a send frees the lock.
LEMMA SendOverStill ==
  ASSUME TypeInv, MessagesPlaced, NEW c \in Connections, NEW sent \in BOOLEAN, SendOver(c, sent),
         NEW d \in Connections
  PROVE  Still(d)
<1>1. /\ sending' = [sending EXCEPT ![c] = Nobody]
      /\ \/ sending[c].kind = "message" /\ (MessageSent(c) \/ MessageLost(c))
         \/ UNCHANGED chan \/ RequestClose(c) \/ RevokedOver(c, sent)
  BY Zenon DEF SendOver, CompletionLost
<1>2. sending \in [Connections -> Sending]
  BY DEF TypeInv, ChildType
<1>3. sending'[d] = IF d = c THEN Nobody ELSE sending[d]
  BY <1>1, <1>2
<1>4. sending'[d].kind = "message" => d # c /\ sending[d].kind = "message"
  BY <1>3 DEF Nobody
<1>5. CASE sending[c].kind = "message" /\ (MessageSent(c) \/ MessageLost(c))
  <2>1. d # c => chan'[d].at = chan[d].at
    BY <1>5, MessageSentChan, MessageLostChan
  <2> QED
    BY <1>4, <1>5, <2>1 DEF Still, Away, MessagesPlaced
<1>6. CASE UNCHANGED chan \/ RequestClose(c) \/ RevokedOver(c, sent)
  <2>1. chan'[d].at = chan[d].at
    BY <1>6, RequestCloseChan, RevokedOverChan DEF SamePlace
  <2> QED
    BY <1>4, <2>1, SameStill
<1> QED
  BY <1>1, <1>5, <1>6

\* A session begins with its connect, and with nothing else.
Opens(d) == ReceiveConnect /\ d = Head(commands).c /\ ~Exists(d) /\ d \notin dropped /\ chan'[d].at = "receive"
\* The owner thread moves only the session that waits for it.
LEMMA OwnerRunStill ==
  ASSUME TypeInv, MessagesPlaced, OwnerRun, NEW d \in Connections
  PROVE  Still(d)
<1> DEFINE m == Head(owner)
<1>1. m.c \in Connections
  <2>1. m \in Work
    BY OwnerRunTypes
  <2> QED
    BY <2>1 DEF Work
<1>2. \/ EndCommand(m.c, m.seq) \/ EndEnvelope(m.c, m.seq) \/ EndUnbind(m.c) \/ EndForNobody(m.c, m.what, m.seq)
  BY Zenon DEF OwnerRun
<1> HIDE DEF m
<1>3. CASE EndCommand(m.c, m.seq)
  BY <1>3, SameStill DEF EndCommand
<1>4. CASE EndEnvelope(m.c, m.seq)
  <2>1. /\ chan[m.c].at = "ownerWait" /\ UNCHANGED sending
        /\ Rebind(m.c) \/ KeepBinding(m.c)
    BY <1>4, Zenon DEF EndEnvelope, AwaitsOwner
  <2>2. d # m.c => chan'[d].at = chan[d].at
    BY <1>1, <2>1, RebindChan, KeepBindingChan
  <2> QED
    BY <2>1, <2>2, SameStill
<1>5. CASE EndUnbind(m.c)
  <2>1. chan[m.c].at = "unbinding" /\ Forget(m.c, "revoked")
    BY <1>5, Zenon DEF EndUnbind
  <2>2. d # m.c => chan'[d].at = chan[d].at
    BY <1>1, <1>5, EndUnbindChan
  <2>3. sending'[d].kind = "message" => sending[d].kind = "message"
    BY <1>1, <2>1, ForgetKind
  <2> QED
    BY <2>1, <2>2, <2>3, SameStill
<1>6. CASE EndForNobody(m.c, m.what, m.seq)
  <2>1. UNCHANGED sending
    BY <1>6, Zenon DEF EndForNobody
  <2>2. chan'[d].at = chan[d].at
    BY <1>1, <1>6, EndForNobodyChan DEF SamePlace
  <2> QED
    BY <2>1, <2>2, SameStill
<1> QED
  BY <1>2, <1>3, <1>4, <1>5, <1>6
\* The steps of a session move only that session, which is there.
LEMMA SessionStill ==
  ASSUME TypeInv, MessagesPlaced, NEW c \in Connections, NEW d \in Connections,
         \/ TakeEnvelope(c) \/ CallOwner(c) \/ AfterSync(c)
         \/ CloseSession(c) \/ EndSession(c) \/ FinishConnection(c) \/ Revoke(c)
  PROVE  Still(d)
<1>1. UNCHANGED sending
  BY DEF TakeEnvelope, CallOwner, AfterSync, CloseSession, EndSession, FinishConnection, Revoke
<1>2. CASE TakeEnvelope(c)
  <2>1. chan[c].at = "receive" /\ (d # c => chan'[d].at = chan[d].at)
    BY <1>2, TakeEnvelopeChan DEF TakeEnvelope
  <2> QED
    BY <1>1, <2>1, SameStill
<1>3. CASE CallOwner(c)
  <2>1. chan'[d].at = chan[d].at \/ chan[d].at = "join"
    BY <1>3, CallOwnerChan
  <2> QED
    BY <1>1, <2>1, SameStill
<1>4. CASE AfterSync(c)
  <2>1. chan'[d].at = chan[d].at \/ chan[d].at = "sync"
    BY <1>4, AfterSyncChan
  <2> QED
    BY <1>1, <2>1, SameStill
<1>5. CASE CloseSession(c) \/ Revoke(c)
  <2>1. RequestClose(c) => chan'[d].at = chan[d].at
    BY RequestCloseChan DEF SamePlace
  <2>2. chan'[d].at = chan[d].at
    BY <1>5, <2>1, CloseSessionChan DEF SamePlace, Revoke
  <2> QED
    BY <1>1, <2>2, SameStill
<1>6. CASE EndSession(c)
  <2>1. chan[c].at = "waiting" /\ (d # c => chan'[d].at = chan[d].at)
    BY <1>6, EndSessionChan DEF EndSession
  <2> QED
    BY <1>1, <2>1, SameStill
<1>7. CASE FinishConnection(c)
  <2>1. chan[c].at = "finalizing" /\ (d # c => chan'[d].at = chan[d].at)
    BY <1>7, FinishConnectionChan DEF FinishConnection
  <2> QED
    BY <1>1, <2>1, SameStill
<1> QED
  BY <1>2, <1>3, <1>4, <1>5, <1>6, <1>7
\* An answer is sent from its place.
LEMMA SenderStill ==
  ASSUME TypeInv, MessagesPlaced, NEW c \in Connections, NEW d \in Connections,
         StartSend(c) \/ PumpStopped(c) \/ PutNotification(c)
  PROVE  Still(d)
<1>0. sending \in [Connections -> Sending]
  BY DEF TypeInv, ChildType
<1>1. CASE StartSend(c)
  <2>1. UNCHANGED chan
    BY <1>1, Zenon DEF StartSend
  <2>2. \/ chan[c].at = "send" /\ Lock(c, "message", chan[c].current, "none")
        \/ Lock(c, "completion", Head(admitted[c]).seq, Head(admitted[c]).q)
        \/ Lock(c, "revoked", 0, "none")
    BY <1>1, Zenon DEF StartSend
  <2>3. ASSUME NEW kind, NEW n, NEW q, Lock(c, kind, n, q)
        PROVE  sending'[d].kind = IF d = c THEN kind ELSE sending[d].kind
    BY <1>0, <2>3 DEF Lock
  <2>4. sending'[d].kind = "message" => sending[d].kind = "message" \/ chan[d].at = "send"
    BY <2>2, <2>3
  <2> QED
    BY <2>1, <2>4 DEF Still, MessagesPlaced
<1>2. CASE PumpStopped(c)
  <2>1. Forget(c, "completion")
    BY <1>2, Zenon DEF PumpStopped
  <2>2. sending'[d].kind = "message" => sending[d].kind = "message"
    BY <2>1, ForgetKind
  <2>3. chan'[d].at = chan[d].at \/ chan[d].at = "pumpWait"
    BY <1>2, PumpStoppedChan
  <2> QED
    BY <2>2, <2>3, SameStill
<1>3. CASE PutNotification(c)
  <2>1. (sending' = [sending EXCEPT ![c].out = TRUE] /\ UNCHANGED chan) \/ SendOver(c, FALSE)
    BY <1>3, PutNotificationTypes
  <2>2. CASE sending' = [sending EXCEPT ![c].out = TRUE] /\ UNCHANGED chan
    <3>1. sending'[d].kind = sending[d].kind
      BY <1>0, <2>2
    <3> QED
      BY <2>2, <3>1, SameStill
  <2> QED
    BY <2>1, <2>2, SendOverStill
<1> QED
  BY <1>1, <1>2, <1>3
\* A session that is absent stays so, but for the connect of its connection.
LEMMA ChildPlaces ==
  ASSUME TypeInv, MessagesPlaced, ChildStep, NEW d \in Connections
  PROVE  Still(d) \/ (Opens(d) /\ sending'[d].kind # "message")
<1> DEFINE Goal == Still(d) \/ (Opens(d) /\ sending'[d].kind # "message")
<1>0. SUFFICES Goal
  OBVIOUS
<1>1. ASSUME UNCHANGED <<chan, sending>>
      PROVE  Still(d)
  BY <1>1, SameStill
<1>2. CASE ReceiveRefused \/ ReceiveEnqueue \/ ControlShutdown \/ StopOwner \/ Stopped
  <2>1. UNCHANGED <<chan, sending>>
    BY <1>2 DEF ReceiveRefused, ReceiveEnqueue, ControlShutdown, StopOwner, Stopped, sessionVars
  <2> QED
    BY <1>1, <2>1
<1>3. CASE ReceiveConnect
  <2>1. UNCHANGED sending
    BY <1>3 DEF ReceiveConnect
  <2>2. \/ chan'[d].at = chan[d].at
        \/ d = Head(commands).c /\ chan'[d].at = "receive" /\ ~Exists(d) /\ d \notin dropped
    BY <1>3, ReceiveConnectChan
  <2>3. ~Exists(d) => sending[d].kind # "message"
    BY DEF Exists, MessagesPlaced
  <2> QED
    BY <1>3, <2>1, <2>2, <2>3, SameStill DEF Opens
<1>4. CASE ReceiveEnvelope
  <2>1. UNCHANGED sending
    BY <1>4 DEF ReceiveEnvelope
  <2>2. chan'[d].at = chan[d].at
    BY <1>4, ReceiveEnvelopeChan DEF SamePlace
  <2> QED
    BY <2>1, <2>2, SameStill
<1>5. CASE ControlReceipt
  <2>1. \/ ReceiptOfState(Rcpt.id[1], Rcpt.id[3], Rcpt.sent)
        \/ SendOver(Rcpt.id[1], Rcpt.sent)
        \/ UNCHANGED sessionVars
    BY <1>5, Zenon DEF ControlReceipt, Rcpt
  <2>2. Rcpt.id \in Ids /\ Rcpt.sent \in BOOLEAN
    BY <1>5, ControlReceiptTypes
  <2>3. Rcpt.id[1] \in Connections /\ Rcpt.id[3] \in Nat
    BY <2>2 DEF Ids
  <2>4. CASE ReceiptOfState(Rcpt.id[1], Rcpt.id[3], Rcpt.sent)
    <3>1. UNCHANGED sending
      BY <2>4, Zenon DEF ReceiptOfState
    <3>2. chan'[d].at = chan[d].at
      BY <2>2, <2>3, <2>4, ReceiptOfStateChan DEF SamePlace
    <3> QED
      BY <3>1, <3>2, SameStill
  <2>5. CASE SendOver(Rcpt.id[1], Rcpt.sent)
    BY <2>2, <2>3, <2>5, SendOverStill
  <2>6. CASE UNCHANGED sessionVars
    BY <1>1, <2>6 DEF sessionVars
  <2> QED
    BY <2>1, <2>4, <2>5, <2>6
<1>6. CASE ControlDisconnect
  <2>1. Head(controls).c \in Connections
    BY <1>6, ControlDisconnectTypes
  <2>2. Cancel(Head(controls).c) \/ UNCHANGED <<chan, sending>>
    BY <1>6, Zenon DEF ControlDisconnect
  <2> QED
    BY <1>1, <2>1, <2>2, CancelStill
<1>7. ASSUME NEW c \in Connections, PublishBinding(c) \/ Withhold(c)
      PROVE  Goal
  BY <1>1, <1>7 DEF PublishBinding, Withhold
<1>8. ASSUME NEW c \in Connections, DrainSession(c)
      PROVE  Goal
  BY <1>8, CancelStill DEF DrainSession
<1>9. ASSUME NEW c \in Connections,
             \/ TakeEnvelope(c) \/ CallOwner(c) \/ AfterSync(c)
             \/ CloseSession(c) \/ EndSession(c) \/ FinishConnection(c)
      PROVE  Goal
  BY <1>9, SessionStill
<1>10. ASSUME NEW c \in Connections, StartSend(c) \/ PumpStopped(c) \/ PutNotification(c)
       PROVE  Goal
  BY <1>10, SenderStill
<1> HIDE DEF Goal
<1> QED
  BY <1>2, <1>3, <1>4, <1>5, <1>6, <1>7, <1>8, <1>9, <1>10, OwnerRunStill, Zenon DEF ChildStep, Goal

\* What the child reports besides the answers and the ends of the sessions.
Plain(r) == r.kind \in {"processed", "terminal", "state", "close", "stopped"}
ResultComes(r) ==
    \/ r \in Items(results) \/ Plain(r)
    \/ /\ Takes /\ \E ok \in BOOLEAN : r = Answer(Head(commands).seq, ok)
       /\ Head(commands).op = "connect" /\ ~r.ok => UNCHANGED chan
    \/ \E c \in Connections : FinishConnection(c) /\ r = Report("disconnected", c, 0)
    \/ ControlDisconnect /\ ~Exists(Head(controls).c) /\ r = Report("disconnected", Head(controls).c, 0)

\* The parent takes the reports, first in, first out.
LEMMA ParentResults ==
  ASSUME TypeInv, FromParent
  PROVE  Items(results)' \subseteq Items(results)
<1>0. results \in Seq(Result) /\ Items(results)' = Items(results')
  BY DEF TypeInv, ChannelsType, Items
<1>1. ASSUME NEW kind, Reading(kind)
      PROVE  results # <<>> /\ results' = Tail(results)
  BY <1>1 DEF Reading
<1>2. ASSUME ReadAnswer \/ ReadTerminal \/ ReadProcessed \/ ReadState \/ ReadSocketClose \/ ReadDisconnected
      PROVE  results # <<>> /\ results' = Tail(results)
  BY <1>1, <1>2, Zenon DEF ReadAnswer, ReadTerminal, ReadProcessed, ReadState, ReadSocketClose, ReadDisconnected
<1>3. ASSUME NEW c \in Connections, \/ Connect(c) \/ Enqueue(c) \/ SendEnvelope(c) \/ Admitted(c) \/ EndWorker(c)
                                    \/ DisconnectStart(c) \/ DisconnectEnd(c)
      PROVE  UNCHANGED results
  BY <1>3 DEF Connect, Enqueue, SendEnvelope, Admitted, EndWorker, DisconnectStart, DisconnectEnd, queues
<1>4. ASSUME NEW c \in Connections, NEW q \in RequestIds, TakeRequest(c, q)
      PROVE  UNCHANGED results
  BY <1>4 DEF TakeRequest, queues
<1>5. ASSUME NEW s \in sends, BeginWrite(s) \/ Write(s) \/ FinishDelivery(s)
      PROVE  UNCHANGED results
  BY <1>5 DEF BeginWrite, Write, FinishDelivery, queues
<1>6. ASSUME ReadNotification \/ ChildEnded \/ EndClose
      PROVE  UNCHANGED results
  BY <1>6 DEF ReadNotification, ChildEnded, EndClose, queues
<1>7. UNCHANGED results \/ (results # <<>> /\ results' = Tail(results))
  BY <1>2, <1>3, <1>4, <1>5, <1>6, Zenon DEF FromParent, Parent, ParentStep, ClientSends
<1>8. results # <<>> => Items(Tail(results)) \subseteq Items(results)
  BY <1>0, ItemsOf
<1> QED
  BY <1>0, <1>7, <1>8

\* The child appends its reports.
LEMMA EmitItems ==
  ASSUME TypeInv, NEW reports \in Seq(Result), Emit(reports), NEW r \in Items(results)'
  PROVE  r \in Items(results) \/ r \in Items(reports)
<1>1. results \in Seq(Result) /\ Items(results)' = Items(results')
  BY DEF TypeInv, ChannelsType, Items
<1>2. results' = results \o reports
  BY EmitTypes
<1>3. Items(results \o reports) = Items(results) \cup Items(reports)
  BY <1>1, ItemsOf
<1> QED
  BY <1>1, <1>2, <1>3
\* The case of a single report.
LEMMA EmitOneItem ==
  ASSUME TypeInv, NEW e \in Result, Emit(<<e>>), NEW r \in Items(results)'
  PROVE  r \in Items(results) \/ r = e
<1>1. <<e>> \in Seq(Result)
  OBVIOUS
<1>2. Items(<<e>>) = {e}
  BY DEF Items
<1> QED
  BY <1>1, <1>2, EmitItems
\* The reports of the commands given up.
LEMMA EmitTerminals ==
  ASSUME TypeInv, NEW c \in Connections, Emit(Terminals(c)), NEW r \in Items(results)'
  PROVE  r \in Items(results) \/ Plain(r)
<1>1. Terminals(c) \in Seq(Result)
  BY TerminalsTypes
<1>2. ASSUME NEW e \in Items(Terminals(c))
      PROVE  Plain(e)
  <2>1. DOMAIN Terminals(c) = DOMAIN admitted[c]
    BY DEF Terminals
  <2>2. PICK i \in DOMAIN admitted[c] : e = Terminals(c)[i]
    BY <2>1 DEF Items
  <2>3. e = [kind |-> "terminal", c |-> c, q |-> admitted[c][i].q, n |-> admitted[c][i].seq]
    BY <2>2, TerminalsTypes
  <2> QED
    BY <2>3 DEF Plain
<1> QED
  BY <1>1, <1>2, EmitItems
\* The report of the first command.
LEMMA FinishFirstItems ==
  ASSUME TypeInv, NEW c \in Connections, admitted[c] # <<>>, FinishFirst(c), NEW r \in Items(results)'
  PROVE  r \in Items(results) \/ Plain(r)
<1> DEFINE e == [kind |-> "terminal", c |-> c, q |-> Head(admitted[c]).q, n |-> Head(admitted[c]).seq]
<1>1. Emit(<<e>>)
  BY FinishFirstTypes DEF Emit
<1>2. Head(admitted[c]) \in Admission
  BY DEF TypeInv, ChildType
<1>3. e \in Result
  BY <1>2 DEF Admission, Result
<1>4. Plain(e)
  BY DEF Plain
<1> HIDE DEF e
<1> QED
  BY <1>1, <1>3, <1>4, EmitOneItem
\* The reports at the end of a send.
LEMMA SendOverItems ==
  ASSUME TypeInv, NEW c \in Connections, NEW sent \in BOOLEAN, SendOver(c, sent), NEW r \in Items(results)'
  PROVE  r \in Items(results) \/ Plain(r)
<1>1. \/ MessageSent(c)
      \/ UNCHANGED results
      \/ sending[c].kind = "completion" /\ (FinishFirst(c) \/ Emit(Terminals(c)))
  BY Zenon DEF SendOver, MessageLost, RevokedOver, CompletionLost
<1>2. CASE MessageSent(c)
  <2>1. chan[c].current \in Nat
    BY DEF TypeInv, ChildType, ChanType
  <2>2. Processed(c, chan[c].current, TRUE) \in Result /\ Plain(Processed(c, chan[c].current, TRUE))
    BY <2>1 DEF Processed, Result, Plain
  <2> QED
    BY <1>2, <2>2, EmitOneItem DEF MessageSent
<1>3. CASE UNCHANGED results
  BY <1>3 DEF Items
<1>4. CASE sending[c].kind = "completion" /\ (FinishFirst(c) \/ Emit(Terminals(c)))
  BY <1>4, FinishFirstItems, EmitTerminals DEF TypeInv, CompletionHeld
<1> QED
  BY <1>1, <1>2, <1>3, <1>4

\* A command is answered when it is received.
LEMMA ReceiveResults ==
  ASSUME TypeInv, childAlive, ReceiveRefused \/ ReceiveConnect \/ ReceiveEnvelope \/ ReceiveEnqueue,
         NEW r \in Items(results)'
  PROVE  ResultComes(r)
<1> DEFINE m == Head(commands)
<1>1. Takes
  BY DEF ReceiveRefused, ReceiveConnect, ReceiveEnvelope, ReceiveEnqueue, Receiving, Takes
<1>2. m.seq \in Nat
  BY <1>1, TakenTypes DEF Takes
<1>3. \E ok \in BOOLEAN : /\ Emit(<<Answer(m.seq, ok)>>)
                          /\ m.op = "connect" /\ ~ok => UNCHANGED chan
  <2>1. CASE ReceiveRefused
    BY <2>1, Zenon DEF ReceiveRefused, sessionVars
  <2>2. CASE ReceiveConnect
    <3> DEFINE full == Exists(m.c) \/ Cardinality({c \in Connections : Exists(c)}) >= Capacity
    <3>1. Emit(<<Answer(m.seq, ~full)>>) /\ (full \/ m.c \in dropped => chan' = chan)
      BY <2>2 DEF ReceiveConnect
    <3>2. (~full) \in {TRUE, FALSE}
      BY DEF Exists
    <3> HIDE DEF full
    <3>3. (~full) = TRUE \/ (~full) = FALSE
      BY <3>2
    <3>4. CASE (~full) = TRUE
      <4>1. Emit(<<Answer(m.seq, TRUE)>>) /\ TRUE \in BOOLEAN
        BY <3>1, <3>4
      <4> QED
        BY <4>1, Zenon
    <3>5. CASE (~full) = FALSE
      <4>1. Emit(<<Answer(m.seq, FALSE)>>) /\ UNCHANGED chan /\ FALSE \in BOOLEAN
        BY <3>1, <3>5
      <4> QED
        BY <4>1, Zenon
    <3> QED
      BY <3>3, <3>4, <3>5
  <2>3. CASE ReceiveEnvelope
    <3>1. Emit(<<Answer(m.seq, Exists(m.c))>>) /\ m.op = "envelope" /\ Exists(m.c) \in BOOLEAN
      BY <2>3, Zenon DEF ReceiveEnvelope, Receiving, Exists
    <3>2. m.op # "connect"
      BY <3>1
    <3> QED
      BY <3>1, <3>2, Zenon
  <2>4. CASE ReceiveEnqueue
    <3>1. m.op = "enqueue" /\ \E ok \in BOOLEAN : Emit(<<Answer(m.seq, ok)>>)
      BY <2>4, ReceiveEnqueueTypes DEF ReceiveEnqueue, Receiving
    <3>2. m.op # "connect"
      BY <3>1
    <3> QED
      BY <3>1, <3>2, Zenon
  <2> QED
    BY <2>1, <2>2, <2>3, <2>4
<1>4. PICK ok \in BOOLEAN : Emit(<<Answer(m.seq, ok)>>) /\ (m.op = "connect" /\ ~ok => UNCHANGED chan)
  BY <1>3
<1>5. r \in Items(results) \/ r = Answer(m.seq, ok)
  BY <1>2, <1>4, AnswerType, EmitOneItem
<1>6. r = Answer(m.seq, ok) => r.ok = ok
  BY DEF Answer
<1> QED
  BY <1>1, <1>4, <1>5, <1>6 DEF ResultComes

\* The reports of the control task.
LEMMA ControlResults ==
  ASSUME TypeInv, ControlReceipt \/ ControlDisconnect \/ ControlShutdown, NEW r \in Items(results)'
  PROVE  ResultComes(r)
<1>1. UNCHANGED results => ResultComes(r)
  BY DEF ResultComes, Items
<1>2. CASE ControlReceipt
  <2>1. SendOver(Rcpt.id[1], Rcpt.sent) \/ UNCHANGED results
    BY <1>2, Zenon DEF ControlReceipt, Rcpt, ReceiptOfState
  <2>2. Rcpt.id \in Ids /\ Rcpt.sent \in BOOLEAN
    BY <1>2, ControlReceiptTypes
  <2>3. Rcpt.id[1] \in Connections
    BY <2>2 DEF Ids
  <2>4. SendOver(Rcpt.id[1], Rcpt.sent) => r \in Items(results) \/ Plain(r)
    BY <2>2, <2>3, SendOverItems
  <2> QED
    BY <1>1, <2>1, <2>4 DEF ResultComes
<1>3. CASE ControlDisconnect
  <2> DEFINE c == Head(controls).c
  <2>1. c \in Connections
    BY <1>3, ControlDisconnectTypes
  <2>2. Report("disconnected", c, 0) \in Result
    BY <2>1 DEF Report, Result
  <2>3. UNCHANGED results \/ (~Exists(c) /\ Emit(<<Report("disconnected", c, 0)>>))
    BY <1>3, Zenon DEF ControlDisconnect
  <2>4. UNCHANGED results \/ (~Exists(c) /\ (r \in Items(results) \/ r = Report("disconnected", c, 0)))
    BY <2>2, <2>3, EmitOneItem
  <2> QED
    BY <1>1, <1>3, <2>4 DEF ResultComes
<1>4. CASE ControlShutdown
  BY <1>1, <1>4 DEF ControlShutdown
<1> QED
  BY <1>2, <1>3, <1>4

\* The reports of one session.
LEMMA SessionResults ==
  ASSUME TypeInv, NEW c \in Connections,
         \/ TakeEnvelope(c) \/ PublishBinding(c) \/ Withhold(c) \/ PutNotification(c)
         \/ CloseSession(c) \/ PumpStopped(c) \/ FinishConnection(c),
         NEW r \in Items(results)'
  PROVE  ResultComes(r)
<1> DEFINE Goal == r \in Items(results) \/ Plain(r) \/ ResultComes(r)
<1>0. SUFFICES Goal
  BY DEF ResultComes
<1>1. UNCHANGED results => Goal
  BY DEF Items
<1>2. CASE TakeEnvelope(c)
  <2> DEFINE e == Processed(c, Head(chan[c].inbox), TRUE)
  <2>1. Head(chan[c].inbox) \in Nat
    BY <1>2 DEF TakeEnvelope, TypeInv, ChildType, ChanType
  <2>2. e \in Result /\ Plain(e)
    BY <2>1 DEF Processed, Result, Plain
  <2>3. UNCHANGED results \/ Emit(<<e>>)
    BY <1>2, Zenon DEF TakeEnvelope
  <2> HIDE DEF e
  <2> QED
    BY <1>1, <2>2, <2>3, EmitOneItem
<1>3. CASE PublishBinding(c)
  <2> DEFINE s == Head(syncs[c])
             e == [kind |-> "state", c |-> c, n |-> s.n, bound |-> s.bound, revoked |-> s.revoked]
  <2>1. s \in Sync /\ Emit(<<e>>)
    BY <1>3, PublishBindingTypes, Zenon DEF PublishBinding
  <2>2. e \in Result /\ Plain(e)
    BY <2>1 DEF Sync, Result, Plain
  <2> HIDE DEF e
  <2> QED
    BY <2>1, <2>2, EmitOneItem
<1>4. CASE Withhold(c)
  BY <1>4, FinishFirstItems DEF Withhold, FirstDone
<1>5. CASE PutNotification(c)
  BY <1>1, <1>5, PutNotificationTypes, SendOverItems
<1>6. CASE CloseSession(c)
  <2>1. Report("close", c, 0) \in Result /\ Plain(Report("close", c, 0))
    BY DEF Report, Result, Plain
  <2> QED
    BY <1>6, <2>1, EmitOneItem DEF CloseSession
<1>7. CASE PumpStopped(c)
  BY <1>7, EmitTerminals DEF PumpStopped
<1>8. CASE FinishConnection(c)
  <2> DEFINE e == Report("disconnected", c, 0)
  <2>1. /\ Failures(c) \in Seq(Result) /\ \A f \in Items(Failures(c)) : f.kind = "processed"
        /\ results' = results \o (Failures(c) \o <<e>>)
    BY <1>8, FinishConnectionTypes
  <2>2. e \in Result /\ <<e>> \in Seq(Result)
    BY DEF Report, Result
  <2>3. Failures(c) \o <<e>> \in Seq(Result) /\ Items(Failures(c) \o <<e>>) = Items(Failures(c)) \cup Items(<<e>>)
    <3> DEFINE fails == Failures(c)
               end == <<e>>
    <3>1. fails \in Seq(Result) /\ end \in Seq(Result)
      BY <2>1, <2>2
    <3> HIDE DEF e, fails, end
    <3>2. fails \o end \in Seq(Result)
      BY <3>1, ConcatProperties
    <3>3. Items(fails \o end) = Items(fails) \cup Items(end)
      BY <3>1, ItemsOf
    <3> QED
      BY <3>2, <3>3 DEF fails, end
  <2>4. Items(<<e>>) = {e}
    BY DEF Items
  <2>5. r \in Items(results) \/ r \in Items(Failures(c)) \/ r = e
    <3> HIDE DEF e
    <3>1. Emit(Failures(c) \o <<e>>)
      BY <2>1 DEF Emit
    <3> QED
      BY <2>3, <2>4, <3>1, EmitItems
  <2> QED
    BY <1>8, <2>1, <2>5 DEF Plain, ResultComes
<1> HIDE DEF Goal
<1> QED
  BY <1>2, <1>3, <1>4, <1>5, <1>6, <1>7, <1>8
\* Where the reports of the next state come from, for each step of the child.
LEMMA ChildResults ==
  ASSUME TypeInv, Child, NEW r \in Items(results)'
  PROVE  ResultComes(r)
<1>0. childAlive
  BY DEF Child, ChildStep
<1>1. UNCHANGED results => ResultComes(r)
  BY DEF ResultComes, Items
<1>2. CASE OwnerRun \/ StopOwner
  BY <1>1, <1>2 DEF OwnerRun, StopOwner, queues
<1>3. CASE Stopped
  <2>1. Emit(<<[kind |-> "stopped"]>>)
    BY <1>3 DEF Stopped
  <2>2. [kind |-> "stopped"] \in Result /\ Plain([kind |-> "stopped"])
    BY DEF Result, Plain
  <2> QED
    BY <2>1, <2>2, EmitOneItem DEF ResultComes
<1>4. ASSUME NEW c \in Connections,
             CallOwner(c) \/ AfterSync(c) \/ StartSend(c) \/ EndSession(c) \/ DrainSession(c)
      PROVE  ResultComes(r)
  BY <1>1, <1>4 DEF CallOwner, AfterSync, StartSend, EndSession, DrainSession, queues
<1> QED
  BY <1>0, <1>2, <1>3, <1>4, ReceiveResults, ControlResults, SessionResults, Zenon DEF Child, ChildStep

\* No session of the connection is there, nor comes later.
NoneComes(c) ==
    /\ ~Exists(c)
    /\ \A m \in Items(commands) : m.op = "connect" /\ m.c = c => c \in dropped

\* A connect has a number of its own, and the disconnect of its session too.
StartOf(n, c) == n = conn[c].start /\ worker[c].at # "new"
ConnectsNumbered ==
    /\ \A m \in Items(commands) :
          /\ m.op = "connect" => StartOf(m.seq, m.c)
          /\ \A c \in Connections : StartOf(m.seq, c) => m.op = "connect" /\ m.c = c
    /\ \A p \in pending : p.op = "connect" => StartOf(p.seq, p.c)
    /\ \A k \in Items(controls) : k.kind = "disconnect" => k.c \in Connections /\ StartOf(k.seq, k.c)

\* A session begins once.
BeginsOnce ==
    childAlive =>
        /\ \A c \in Connections : worker[c].at = "new" => chan[c].at = "none"
        /\ \A m \in Items(commands) : m.op = "connect" => chan[m.c].at = "none"
        /\ MessagesPlaced

\* A refused connect and a reported end are final.
ReportsTrue ==
    \A r \in Items(results) :
        /\ r.kind = "result" =>
              /\ 0 < r.n /\ r.n <= sequence
              /\ childAlive /\ ~r.ok => \A c \in Connections : StartOf(r.n, c) => NoneComes(c)
        /\ r.kind = "disconnected" => worker[r.c].at # "new" /\ (childAlive => NoneComes(r.c))

\* What the parent has given up does not come back.
GoneForGood == childAlive /\ failure = "none" => \A c \in Connections : GivenUp(c) => NoneComes(c)

OrphanInv == LivesInv /\ ConnectsNumbered /\ BeginsOnce /\ ReportsTrue /\ GoneForGood

\* What the parent's steps, and those that end the child, do to all this.
CommandComes(m) ==
    \/ m \in Items(commands)
    \/ /\ m.seq = sequence + 1
       /\ m.op = "connect" => m.c \in Connections /\ Connect(m.c) /\ Admits(m.c)
       /\ \A c \in Connections : conn'[c].start = sequence + 1 => m.op = "connect" /\ m.c = c
ParentMoves ==
    /\ sequence \in Nat /\ sequence' \in Nat /\ sequence <= sequence'
    /\ \A c \in Connections : Lives(c)
    /\ \A m \in Items(commands)' : CommandComes(m)
    /\ \A p \in pending' :
          p \in pending \/ (p.op = "connect" => /\ p.c \in Connections /\ Connect(p.c) /\ Admits(p.c)
                                              /\ p.seq = sequence + 1)
    /\ \A k \in Items(controls)' : k.kind = "disconnect" => k \in Items(controls) \/ (k.c \in Connections /\ StartOf(k.seq, k.c))
    /\ Items(results)' \subseteq Items(results)
    /\ failure' = "none" => failure = "none"
    /\ childAlive' => childAlive /\ UNCHANGED <<chan, sending, dropped>>

\* The number of a connect stays, and no other command gets it.
LEMMA StartStays ==
  ASSUME TypeInv, LivesInv, ParentMoves, NEW c \in Connections, NEW n
  PROVE  /\ StartOf(n, c) => StartOf(n, c)'
         /\ n \in Nat /\ 0 < n /\ n <= sequence /\ StartOf(n, c)' => StartOf(n, c)
<1>1. /\ worker'[c].at = "new" => worker[c].at = "new"
      /\ conn'[c].start = conn[c].start \/ (Connect(c) /\ Admits(c))
      /\ worker[c].at = "new" => conn[c].start = 0
  BY DEF ParentMoves, Lives, LivesInv, Life
<1>2. Connect(c) => worker[c].at = "new"
  BY DEF Connect
<1>3. Connect(c) /\ Admits(c) => conn'[c].start = sequence + 1
  BY ConnectConn
<1>4. sequence \in Nat
  BY DEF TypeInv, ParentType
<1> QED
  BY <1>1, <1>2, <1>3, <1>4 DEF StartOf
\* An admitted connect is registered under the next number.
LEMMA NewStart ==
  ASSUME TypeInv, LivesInv, NEW c \in Connections, Connect(c), Admits(c)
  PROVE  /\ conn'[c].start = sequence + 1 /\ worker[c].at = "new" /\ worker'[c].at # "new"
         /\ ~GivenUp(c)'
<1>1. worker[c].at = "new" /\ ~conn[c].gone
  BY DEF Connect, LivesInv, Life
<1>2. worker'[c].at = "connecting"
  BY ConnectWorker
<1>3. conn'[c].start = sequence + 1 /\ conn'[c].registered /\ conn'[c].gone = conn[c].gone
  BY ConnectConn
<1> QED
  BY <1>1, <1>2, <1>3 DEF GivenUp

\* Only the connect of a connection brings its session.
LEMMA ParentComes ==
  ASSUME TypeInv, OrphanInv, ParentMoves, childAlive', NEW c \in Connections, NoneComes(c),
         ~(Connect(c) /\ Admits(c))
  PROVE  NoneComes(c)'
<1>1. chan' = chan /\ dropped' = dropped
  BY DEF ParentMoves
<1>2. ~Exists(c)'
  BY <1>1 DEF NoneComes, Exists
<1>3. ASSUME NEW m \in Items(commands)', m.op = "connect", m.c = c
      PROVE  c \in dropped'
  <2>1. m \in Items(commands)
    BY <1>3 DEF ParentMoves, CommandComes
  <2> QED
    BY <1>1, <1>3, <2>1 DEF NoneComes
<1> QED
  BY <1>2, <1>3 DEF NoneComes
\* The numbers keep their meaning.
LEMMA ParentNumbers ==
  ASSUME TypeInv, CommandsOrdered, OrphanInv, ParentMoves
  PROVE  ConnectsNumbered'
<1>0. LivesInv
  BY DEF OrphanInv
<1>1. ASSUME NEW m \in Items(commands)'
      PROVE  /\ m.op = "connect" => StartOf(m.seq, m.c)'
             /\ \A c \in Connections : StartOf(m.seq, c)' => m.op = "connect" /\ m.c = c
  <2>0. commands \in Seq(Command)
    BY DEF TypeInv, ChannelsType
  <2>1. CASE m \in Items(commands)
    <3>1. m.seq \in Nat /\ 0 < m.seq /\ m.seq <= sequence /\ m.c \in Connections
      <4>1. Items(commands) \subseteq Command
        BY <2>0, ItemsOf
      <4> QED
        BY <2>1, <4>1 DEF Command, CommandsOrdered
    <3>2. ASSUME m.op = "connect" PROVE StartOf(m.seq, m.c)'
      BY <1>0, <2>1, <3>1, <3>2, StartStays DEF OrphanInv, ConnectsNumbered
    <3>3. ASSUME NEW c \in Connections, StartOf(m.seq, c)' PROVE m.op = "connect" /\ m.c = c
      <4>1. StartOf(m.seq, c)
        BY <1>0, <3>1, <3>3, StartStays
      <4> QED
        BY <2>1, <4>1 DEF OrphanInv, ConnectsNumbered
    <3> QED
      BY <3>2, <3>3
  <2>2. CASE m \notin Items(commands)
    <3>1. /\ m.seq = sequence + 1
          /\ m.op = "connect" => Connect(m.c) /\ Admits(m.c)
          /\ \A c \in Connections : conn'[c].start = sequence + 1 => m.op = "connect" /\ m.c = c
      BY <2>2 DEF ParentMoves, CommandComes
    <3>2. ASSUME m.op = "connect" PROVE StartOf(m.seq, m.c)'
      <4>1. m.c \in Connections /\ Connect(m.c) /\ Admits(m.c)
        BY <2>2, <3>2 DEF ParentMoves, CommandComes
      <4> QED
        BY <1>0, <3>1, <4>1, NewStart DEF StartOf
    <3>3. ASSUME NEW c \in Connections, StartOf(m.seq, c)' PROVE m.op = "connect" /\ m.c = c
      BY <3>1, <3>3 DEF StartOf
    <3> QED
      BY <3>2, <3>3
  <2> QED
    BY <2>1, <2>2
<1>2. ASSUME NEW p \in pending', p.op = "connect"
      PROVE  StartOf(p.seq, p.c)'
  <2>1. CASE p \in pending
    <3>1. StartOf(p.seq, p.c) /\ p.c \in Connections
      BY <1>2, <2>1 DEF OrphanInv, ConnectsNumbered, TypeInv, ParentType
    <3> QED
      BY <1>0, <3>1, StartStays
  <2>2. CASE p \notin pending
    <3>1. p.c \in Connections /\ Connect(p.c) /\ Admits(p.c) /\ p.seq = sequence + 1
      BY <1>2, <2>2 DEF ParentMoves
    <3> QED
      BY <1>0, <3>1, NewStart DEF StartOf
  <2> QED
    BY <2>1, <2>2
<1>3. ASSUME NEW k \in Items(controls)', k.kind = "disconnect"
      PROVE  k.c \in Connections /\ StartOf(k.seq, k.c)'
  <2>1. k.c \in Connections /\ StartOf(k.seq, k.c)
    BY <1>3 DEF OrphanInv, ConnectsNumbered, ParentMoves
  <2> QED
    BY <1>0, <1>3, <2>1, StartStays
<1> QED
  BY <1>1, <1>2, <1>3 DEF ConnectsNumbered
\* The parent does not touch the sessions.
LEMMA ParentBegins ==
  ASSUME TypeInv, OrphanInv, ParentMoves, CommandsOrdered
  PROVE  BeginsOnce'
<1> SUFFICES ASSUME childAlive' PROVE BeginsOnce'
  BY DEF BeginsOnce
<1>1. chan' = chan /\ sending' = sending /\ childAlive
  BY DEF ParentMoves
<1>2. ASSUME NEW c \in Connections, worker'[c].at = "new"
      PROVE  chan'[c].at = "none"
  BY <1>1, <1>2 DEF ParentMoves, Lives, OrphanInv, BeginsOnce
<1>3. ASSUME NEW m \in Items(commands)', m.op = "connect"
      PROVE  chan'[m.c].at = "none"
  <2>1. CASE m \in Items(commands)
    BY <1>1, <1>3, <2>1 DEF OrphanInv, BeginsOnce
  <2>2. CASE m \notin Items(commands)
    <3>1. m.c \in Connections /\ Connect(m.c)
      BY <1>3, <2>2 DEF ParentMoves, CommandComes
    <3>2. worker[m.c].at = "new"
      BY <3>1 DEF Connect
    <3> QED
      BY <1>1, <3>1, <3>2 DEF OrphanInv, BeginsOnce
  <2> QED
    BY <2>1, <2>2
<1>4. MessagesPlaced'
  BY <1>1 DEF OrphanInv, BeginsOnce, MessagesPlaced
<1> QED
  BY <1>2, <1>3, <1>4 DEF BeginsOnce
\* The reports stay true while the parent moves.
LEMMA ParentReports ==
  ASSUME TypeInv, OrphanInv, ParentMoves, CommandsOrdered
  PROVE  ReportsTrue'
<1>0. LivesInv /\ sequence \in Nat /\ sequence' \in Nat /\ sequence <= sequence'
  BY DEF OrphanInv, ParentMoves
<1>1. ASSUME NEW r \in Items(results)', NEW c \in Connections, childAlive', NoneComes(c), worker[c].at # "new"
      PROVE  NoneComes(c)'
  <2>1. ~Connect(c)
    BY <1>1 DEF Connect
  <2> QED
    BY <1>1, <2>1, ParentComes
<1>2. ASSUME NEW r \in Items(results)'
      PROVE  r \in Result /\ r \in Items(results)
  <2>1. results \in Seq(Result) /\ r \in Items(results)
    BY DEF TypeInv, ChannelsType, ParentMoves
  <2> QED
    BY <2>1, ItemsOf
<1>3. ASSUME NEW r \in Items(results)', r.kind = "result"
      PROVE  /\ 0 < r.n /\ r.n <= sequence'
             /\ childAlive' /\ ~r.ok => \A c \in Connections : StartOf(r.n, c)' => NoneComes(c)'
  <2>1. r.n \in Nat /\ 0 < r.n /\ r.n <= sequence
    BY <1>2, <1>3 DEF Result, OrphanInv, ReportsTrue
  <2>2. ASSUME childAlive', ~r.ok, NEW c \in Connections, StartOf(r.n, c)'
        PROVE  NoneComes(c)'
    <3>1. StartOf(r.n, c)
      BY <1>0, <2>1, <2>2, StartStays
    <3>2. childAlive
      BY <2>2 DEF ParentMoves
    <3>3. NoneComes(c) /\ worker[c].at # "new"
      BY <1>2, <1>3, <2>2, <3>1, <3>2 DEF OrphanInv, ReportsTrue, StartOf
    <3> QED
      BY <1>1, <2>2, <3>3
  <2> QED
    BY <1>0, <2>1, <2>2
<1>4. ASSUME NEW r \in Items(results)', r.kind = "disconnected"
      PROVE  worker'[r.c].at # "new" /\ (childAlive' => NoneComes(r.c)')
  <2>1. r.c \in Connections /\ worker[r.c].at # "new" /\ (childAlive => NoneComes(r.c))
    BY <1>2, <1>4 DEF Result, OrphanInv, ReportsTrue
  <2>2. worker'[r.c].at # "new"
    BY <2>1 DEF ParentMoves, Lives
  <2>3. childAlive' => childAlive
    BY DEF ParentMoves
  <2> QED
    BY <1>1, <2>1, <2>2, <2>3
<1> QED
  BY <1>3, <1>4 DEF ReportsTrue
\* The parent gives a connection up only for a reason that is final.
LEMMA ParentGone ==
  ASSUME TypeInv, OrphanInv, ParentMoves, CommandsOrdered
  PROVE  GoneForGood'
<1> SUFFICES ASSUME childAlive', failure' = "none", NEW c \in Connections, GivenUp(c)'
             PROVE  NoneComes(c)'
  BY DEF GoneForGood
<1>0. childAlive /\ failure = "none" /\ results \in Seq(Result)
  BY DEF ParentMoves, TypeInv, ChannelsType
<1>1. ~(Connect(c) /\ Admits(c))
  BY NewStart DEF OrphanInv
<1>2. NoneComes(c) => NoneComes(c)'
  BY <1>1, ParentComes
<1>3. GivenUp(c) \/ Told(c) \/ Refused(c)
  BY <1>0 DEF ParentMoves, Lives
<1>4. CASE GivenUp(c)
  BY <1>0, <1>2, <1>4 DEF OrphanInv, GoneForGood
<1>5. CASE Told(c)
  <2>1. results # <<>> /\ Head(results).kind = "disconnected" /\ Head(results).c = c
    BY <1>5 DEF Told, ReadDisconnected, Reading
  <2>2. Head(results) \in Items(results)
    BY <1>0, <2>1, ItemsOf
  <2> QED
    BY <1>0, <1>2, <2>1, <2>2 DEF OrphanInv, ReportsTrue
<1>6. CASE Refused(c)
  <2>1. results # <<>> /\ Head(results).kind = "result" /\ ~Head(results).ok
    BY <1>6 DEF Refused, ReadAnswer, Reading
  <2>2. Head(results) \in Items(results)
    BY <1>0, <2>1, ItemsOf
  <2>3. StartOf(Head(results).n, c)
    BY <1>6 DEF Refused, OrphanInv, ConnectsNumbered
  <2> QED
    BY <1>0, <1>2, <2>1, <2>2, <2>3 DEF OrphanInv, ReportsTrue
<1> QED
  BY <1>3, <1>4, <1>5, <1>6
\* A step that moves like the parent keeps the invariant.
LEMMA ParentKeeps ==
  ASSUME TypeInv, CommandsOrdered, OrphanInv, ParentMoves
  PROVE  OrphanInv'
<1>1. LivesInv'
  BY DEF ParentMoves, Lives, LivesInv
<1> QED
  BY <1>1, ParentNumbers, ParentBegins, ParentReports, ParentGone DEF OrphanInv

\* The parent's steps, one kind of change after the other.
LEMMA ParentCommands ==
  ASSUME TypeInv, LivesInv, FromParent, NEW m \in Items(commands)'
  PROVE  CommandComes(m)
<1>0. /\ commands \in Seq(Command) /\ sequence \in Nat /\ Items(commands)' = Items(commands')
      /\ \A d \in Connections : conn[d].start \in Nat /\ conn[d].start <= sequence
  BY DEF TypeInv, ChannelsType, ParentType, ConnType, Items, LivesInv, Life
<1>1. ASSUME NEW n, Queues(n)
      PROVE  m \in Items(commands) \/ (m = n /\ m.seq = sequence + 1)
  <2>1. n \in Command /\ n.seq = sequence + 1 /\ commands' = Append(commands, n)
    BY <1>1 DEF Queues
  <2>2. Items(Append(commands, n)) = Items(commands) \cup {n}
    BY <1>0, <2>1, ItemsOf
  <2> QED
    BY <1>0, <2>1, <2>2
<1>2. CASE UNCHANGED commands
  BY <1>0, <1>2 DEF CommandComes
<1>3. ASSUME NEW c \in Connections, Connect(c), Admits(c)
      PROVE  CommandComes(m)
  <2> DEFINE n == NewCommand("connect", c, "none", 0)
  <2>1. Queues(n)
    BY <1>3, ConnectQueues
  <2>2. n.op = "connect" /\ n.c = c
    BY DEF NewCommand
  <2>3. ASSUME NEW d \in Connections, conn'[d].start = sequence + 1
        PROVE  d = c
    <3>1. d # c => conn'[d].start = conn[d].start
      BY <1>3, ConnectConn
    <3> QED
      BY <1>0, <2>3, <3>1
  <2> HIDE DEF n
  <2> QED
    BY <1>1, <1>3, <2>1, <2>2, <2>3 DEF CommandComes
<1>4. ASSUME NEW c \in Connections, SendEnvelope(c) \/ Enqueue(c), NEW n, Queues(n), n.op # "connect"
      PROVE  CommandComes(m)
  <2>1. ASSUME NEW d \in Connections, conn'[d].start = sequence + 1
        PROVE  FALSE
    <3>1. conn'[d].start = conn[d].start
      BY <1>4, SendEnvelopeConn, EnqueueConn DEF SameStart, BeginsToEnd
    <3> QED
      BY <1>0, <2>1, <3>1
  <2> QED
    BY <1>1, <1>4, <2>1 DEF CommandComes
<1>5. \A c, q, rev : /\ NewCommand("envelope", c, q, rev).op # "connect"
                     /\ NewCommand("enqueue", c, q, rev).op # "connect"
  BY DEF NewCommand
<1>6. ASSUME NEW c \in Connections, Connect(c) \/ Enqueue(c) \/ SendEnvelope(c)
      PROVE  CommandComes(m)
  <2>1. CASE Connect(c)
    BY <1>2, <1>3, <2>1, ConnectQueues
  <2>2. CASE Enqueue(c)
    BY <1>2, <1>4, <1>5, <2>2, EnqueueQueues
  <2>3. CASE SendEnvelope(c)
    BY <1>2, <1>4, <1>5, <2>3, SendEnvelopeQueues
  <2> QED
    BY <1>6, <2>1, <2>2, <2>3
<1> QED
  BY <1>2, <1>6, OtherParentSteps

ConnectPending(p) ==
    p \in pending \/ (p.op = "connect" => /\ p.c \in Connections /\ Connect(p.c) /\ Admits(p.c)
                                        /\ p.seq = sequence + 1)
\* A call that is new among the pending ones.
LEMMA ParentPending ==
  ASSUME TypeInv, FromParent, NEW p \in pending'
  PROVE  ConnectPending(p)
<1>1. ASSUME pending' \subseteq pending
      PROVE  ConnectPending(p)
  BY <1>1 DEF ConnectPending
<1>2. ASSUME NEW reason, Fail(reason)
      PROVE  ConnectPending(p)
  BY <1>2 DEF Fail
<1>3. ASSUME NEW c \in Connections, Connect(c)
      PROVE  ConnectPending(p)
  <2>1. CASE Admits(c)
    <3>1. pending' = pending \cup {[seq |-> sequence + 1, op |-> "connect", c |-> c]}
      BY <1>3, <2>1, Zenon DEF Connect, Admits, Submit
    <3> QED
      BY <1>3, <2>1, <3>1 DEF ConnectPending
  <2>2. CASE ~Admits(c)
    <3>1. pending' = pending
      BY <1>3, <2>2, Zenon DEF Connect, Admits
    <3> QED
      BY <1>1, <3>1
  <2> QED
    BY <2>1, <2>2
<1>4. ASSUME NEW c \in Connections, SendEnvelope(c) \/ Enqueue(c)
      PROVE  ConnectPending(p)
  <2>1. \/ pending' = pending
        \/ pending' = pending \cup {[seq |-> sequence + 1, op |-> "envelope", c |-> c]}
        \/ pending' = pending \cup {[seq |-> sequence + 1, op |-> "enqueue", c |-> c]}
    BY <1>4, Zenon DEF SendEnvelope, Enqueue, Submit
  <2> QED
    BY <2>1 DEF ConnectPending
<1>5. ASSUME NEW c \in Connections, Admitted(c) \/ EndWorker(c) \/ DisconnectStart(c) \/ DisconnectEnd(c)
      PROVE  ConnectPending(p)
  BY <1>1, <1>5 DEF Admitted, EndWorker, AfterCancel, DisconnectStart, DisconnectEnd
<1>6. ASSUME NEW s \in sends, BeginWrite(s) \/ Write(s) \/ FinishDelivery(s)
      PROVE  ConnectPending(p)
  BY <1>1, <1>6 DEF BeginWrite, Write, FinishDelivery
<1>7. ASSUME ReadTerminal \/ ReadProcessed \/ ReadSocketClose \/ ReadDisconnected
      PROVE  ConnectPending(p)
  BY <1>1, <1>7 DEF ReadTerminal, ReadProcessed, ReadSocketClose, ReadDisconnected, tableVars
<1>8. CASE ReadNotification \/ ReadState \/ ChildEnded \/ EndClose
  <2>1. pending' = pending \/ \E reason : Fail(reason)
    BY <1>8, Zenon DEF Reject, ReadNotification, ReadState, ChildEnded, EndClose
  <2> QED
    BY <1>1, <1>2, <2>1
<1>9. CASE ReadAnswer
  <2>1. Fail("protocol") \/ \E a \in pending : pending' = pending \ {a}
    <3>1. Fail("protocol") \/ \E a \in {e \in pending : e.seq = Head(results).n} : pending' = pending \ {a}
      BY <1>9, Zenon DEF Reject, ReadAnswer
    <3> QED
      BY <3>1
  <2> QED
    BY <1>1, <1>2, <2>1
<1>10. ASSUME NEW c \in Connections, NEW q \in RequestIds, TakeRequest(c, q)
       PROVE  ConnectPending(p)
  BY <1>1, <1>10 DEF TakeRequest, tableVars
<1> HIDE DEF ConnectPending
<1> QED
  BY <1>3, <1>4, <1>5, <1>6, <1>7, <1>8, <1>9, <1>10, Zenon DEF FromParent, Parent, ParentStep, ClientSends

FailureStays == failure' = "none" => failure = "none"
\* A failure stays.
LEMMA ParentFailure ==
  ASSUME FromParent
  PROVE  FailureStays
<1>1. failure' = failure => FailureStays
  BY DEF FailureStays
<1>2. ASSUME NEW reason \in {"protocol", "exited", "stopped"}, Fail(reason)
      PROVE  FailureStays
  BY <1>2 DEF Fail, FailureStays
<1>3. ASSUME NEW c \in Connections, \/ Connect(c) \/ Enqueue(c) \/ SendEnvelope(c) \/ Admitted(c) \/ EndWorker(c)
                                    \/ DisconnectStart(c) \/ DisconnectEnd(c)
      PROVE  FailureStays
  BY <1>1, <1>3 DEF Connect, Enqueue, SendEnvelope, Admitted, EndWorker, DisconnectStart, DisconnectEnd
<1>4. ASSUME NEW s \in sends, BeginWrite(s) \/ Write(s) \/ FinishDelivery(s)
      PROVE  FailureStays
  BY <1>1, <1>4 DEF BeginWrite, Write, FinishDelivery
<1>5. ASSUME ReadTerminal \/ ReadProcessed \/ ReadSocketClose \/ ReadDisconnected
      PROVE  FailureStays
  BY <1>1, <1>5 DEF ReadTerminal, ReadProcessed, ReadSocketClose, ReadDisconnected
<1>6. CASE ReadNotification \/ ReadState \/ ReadAnswer \/ ChildEnded
  <2>1. failure' = failure \/ Fail("protocol") \/ Fail("stopped") \/ Fail("exited")
    BY <1>6, Zenon DEF Reject, ReadNotification, ReadState, ReadAnswer, ChildEnded
  <2> QED
    BY <1>1, <1>2, <2>1
<1>7. ASSUME NEW c \in Connections, NEW q \in RequestIds, TakeRequest(c, q)
      PROVE  FailureStays
  BY <1>1, <1>7 DEF TakeRequest
<1>8. CASE EndClose
  <2>1. failure' = failure
    BY <1>8 DEF EndClose, Fail
  <2> QED
    BY <1>1, <2>1
<1> HIDE DEF FailureStays
<1> QED
  BY <1>3, <1>4, <1>5, <1>6, <1>7, <1>8, Zenon DEF FromParent, Parent, ParentStep, ClientSends

\* Every step of the parent moves like the parent.
LEMMA ParentMovesOn ==
  ASSUME TypeInv, LivesInv, FromParent
  PROVE  ParentMoves
<1>1. UNCHANGED childVars
  BY DEF FromParent, Parent
<1>2. childAlive' = childAlive
  <2>1. ASSUME NEW c \in Connections, Connect(c) \/ Enqueue(c) \/ SendEnvelope(c)
        PROVE  childAlive' = childAlive
    BY <2>1, ConnectQueues, EnqueueQueues, SendEnvelopeQueues
  <2> QED
    BY <2>1, OtherParentSteps
<1>3. ASSUME NEW k \in Items(controls)', k.kind = "disconnect"
      PROVE  k \in Items(controls) \/ (k.c \in Connections /\ StartOf(k.seq, k.c))
  <2>1. ASSUME NEW c \in Connections, DisconnectStart(c), k = [kind |-> "disconnect", c |-> c, seq |-> conn[c].start]
        PROVE  k.c \in Connections /\ StartOf(k.seq, k.c)
    BY <2>1 DEF DisconnectStart, LivesInv, Life, StartOf
  <2> QED
    BY <1>3, <2>1, ParentControls DEF ControlComes, ReceiptOf, Receipt
<1>4. UNCHANGED <<chan, sending, dropped>>
  BY <1>1 DEF childVars, sessionVars
<1> QED
  BY <1>2, <1>3, <1>4, SequenceGrows, ParentLives, ParentCommands, ParentPending, ParentResults, ParentFailure
  DEF ParentMoves, ConnectPending, FailureStays

\* The disturbances that only touch the parent, or end the child.
LEMMA QuietMoves ==
  ASSUME TypeInv, LivesInv, UNCHANGED <<commands, pending, sequence, failure>>,
         \A d \in Connections : Lives(d),
         Items(results)' \subseteq Items(results),
         \A k \in Items(controls)' : k \in Items(controls) \/ k.kind # "disconnect",
         childAlive' => childAlive /\ UNCHANGED <<chan, sending, dropped>>
  PROVE  ParentMoves
<1>1. sequence \in Nat
  BY DEF TypeInv, ParentType
<1>2. Items(commands)' = Items(commands)
  BY DEF Items
<1> QED
  BY <1>1, <1>2 DEF ParentMoves, CommandComes
\* Nothing happens to the lives while connections and workers stay.
LEMMA SameConnLives ==
  ASSUME TypeInv, LivesInv, UNCHANGED <<conn, worker, sequence>>, NEW d \in Connections
  PROVE  Lives(d)
BY SameLives DEF TypeInv, ParentType
\* A lost client, the close and the crash of the child move like the parent.
LEMMA DisturbedMoves ==
  ASSUME TypeInv, LivesInv,
         \/ (\E c \in Connections : ClientLost(c)) /\ UNCHANGED childVars
         \/ StartClose /\ UNCHANGED childVars
         \/ ChildDies /\ UNCHANGED parentVars
         \/ UNCHANGED vars
  PROVE  ParentMoves
<1>0. results \in Seq(Result) /\ sequence \in Nat
  BY DEF TypeInv, ChannelsType, ParentType
<1>1. ASSUME NEW c \in Connections, ClientLost(c), UNCHANGED childVars
      PROVE  ParentMoves
  <2>1. UNCHANGED <<commands, controls, results, pending, sequence, failure, worker, childAlive, chan, sending, dropped>>
    BY <1>1 DEF ClientLost, queues, tableVars, childVars, sessionVars
  <2>2. ASSUME NEW d \in Connections
        PROVE  Lives(d)
    <3>1. /\ conn'[d].start = conn[d].start /\ conn'[d].ending = conn[d].ending /\ conn'[d].gone = conn[d].gone
          /\ conn'[d].registered = conn[d].registered
      BY <1>1, ClientLostConn DEF SameStart
    <3> QED
      BY <1>0, <2>1, <3>1, SameLives
  <2>3. Items(results)' = Items(results) /\ Items(controls)' = Items(controls)
    BY <2>1 DEF Items
  <2> QED
    BY <2>1, <2>2, <2>3, QuietMoves
<1>2. CASE StartClose /\ UNCHANGED childVars
  <2>1. UNCHANGED <<commands, results, pending, sequence, failure, conn, worker, childAlive, chan, sending, dropped>>
    BY <1>2 DEF StartClose, connVars, childVars, sessionVars
  <2>2. \A d \in Connections : Lives(d)
    BY <2>1, SameConnLives
  <2> DEFINE e == [kind |-> "shutdown", seq |-> sequence]
  <2>3. controls' = controls \/ controls' = Append(controls, e)
    BY <1>2, Zenon DEF StartClose
  <2>4. e \in ControlMsg /\ e.kind = "shutdown"
    BY <1>0 DEF ControlMsg
  <2> HIDE DEF e
  <2>5. ASSUME NEW k \in Items(controls)'
        PROVE  k \in Items(controls) \/ k.kind # "disconnect"
    <3>1. CASE controls' = controls
      BY <2>5, <3>1 DEF Items
    <3>2. CASE controls' = Append(controls, e)
      BY <2>4, <2>5, <3>2, ControlAppended
    <3> QED
      BY <2>3, <3>1, <3>2
  <2>6. Items(results)' = Items(results)
    BY <2>1 DEF Items
  <2> QED
    BY <2>1, <2>2, <2>5, <2>6, QuietMoves
<1>3. CASE ChildDies /\ UNCHANGED parentVars
  <2>1. UNCHANGED <<commands, controls, pending, sequence, failure, conn, worker>> /\ ~childAlive'
    BY <1>3 DEF ChildDies, ChildLost, parentVars, connVars, tableVars
  <2>2. \E i \in 0 .. Len(results) : results' = SubSeq(results, 1, i)
    BY <1>3, Zenon DEF ChildDies
  <2>3. \A i \in 0 .. Len(results) : Items(SubSeq(results, 1, i)) \subseteq Items(results)
    BY <1>0, ItemsOf
  <2>4. Items(results)' = Items(results') /\ Items(controls)' = Items(controls)
    BY <2>1 DEF Items
  <2>5. \A d \in Connections : Lives(d)
    BY <2>1, SameConnLives
  <2> QED
    BY <2>1, <2>2, <2>3, <2>4, <2>5, QuietMoves
<1>4. CASE UNCHANGED vars
  <2>1. /\ UNCHANGED <<commands, controls, results, pending, sequence, failure, conn, worker>>
        /\ UNCHANGED <<childAlive, chan, sending, dropped>>
    BY <1>4 DEF vars, queues, parentVars, connVars, tableVars, childVars, sessionVars
  <2>2. Items(results)' = Items(results) /\ Items(controls)' = Items(controls)
    BY <2>1 DEF Items
  <2>3. \A d \in Connections : Lives(d)
    BY <2>1, SameConnLives
  <2> QED
    BY <2>1, <2>2, <2>3, QuietMoves
<1> QED
  BY <1>1, <1>2, <1>3, <1>4
\* The child is terminated: its memory is gone.
LEMMA TimeoutKeeps ==
  ASSUME TypeInv, OrphanInv, CloseTimeout /\ ChildLost
  PROVE  OrphanInv'
<1>1. /\ UNCHANGED <<commands, controls, results, sequence>> /\ Fail("unknown") /\ pending' = {}
      /\ failure' = "unknown" /\ ~childAlive'
  BY DEF CloseTimeout, ChildLost, Fail, queues
<1>2. ASSUME NEW d \in Connections PROVE Lives(d)
  BY <1>1, <1>2, FailLives DEF OrphanInv
<1>3. /\ Items(commands)' = Items(commands) /\ Items(controls)' = Items(controls)
      /\ Items(results)' = Items(results)
  BY <1>1 DEF Items
<1>4. ASSUME NEW c \in Connections, NEW n
      PROVE  StartOf(n, c)' <=> StartOf(n, c)
  <2>1. worker'[c].at = worker[c].at \/ (worker'[c].at = "failed" /\ worker[c].at # "new")
    BY <1>1, FailWorker
  <2>2. conn'[c].start = conn[c].start
    BY <1>1, FailConn DEF SameStart
  <2> QED
    BY <2>1, <2>2 DEF StartOf
<1>5. LivesInv'
  BY <1>2 DEF Lives, LivesInv
<1>6. ConnectsNumbered'
  <2>1. \A m \in Items(commands) : m.c \in Connections
    <3>1. commands \in Seq(Command)
      BY DEF TypeInv, ChannelsType
    <3>2. Items(commands) \subseteq Command
      BY <3>1, ItemsOf
    <3> QED
      BY <3>2 DEF Command
  <2> QED
    BY <1>1, <1>3, <1>4, <2>1 DEF OrphanInv, ConnectsNumbered
<1>7. ReportsTrue'
  <2>1. ASSUME NEW r \in Items(results), r.kind = "disconnected"
        PROVE  worker'[r.c].at # "new"
    <3>1. results \in Seq(Result)
      BY DEF TypeInv, ChannelsType
    <3>2. r \in Result
      BY <2>1, <3>1, ItemsOf
    <3>3. r.c \in Connections
      BY <2>1, <3>2 DEF Result
    <3> QED
      BY <1>2, <2>1, <3>3 DEF Lives, OrphanInv, ReportsTrue
  <2> QED
    BY <1>1, <1>3, <2>1 DEF OrphanInv, ReportsTrue
<1> QED
  BY <1>1, <1>5, <1>6, <1>7 DEF OrphanInv, BeginsOnce, GoneForGood
\* A revocation touches neither the places of the sessions nor the queues.
LEMMA RevokeKeeps ==
  ASSUME TypeInv, OrphanInv, childAlive, NEW c \in Connections, Revoke(c), UNCHANGED parentVars
  PROVE  OrphanInv'
<1>1. UNCHANGED <<commands, controls, results, sequence, pending, failure, conn, worker, childAlive, dropped, sending>>
  BY DEF Revoke, queues, parentVars, connVars, tableVars
<1>2. ASSUME NEW d \in Connections
      PROVE  chan'[d].at = chan[d].at
  BY <1>2, RequestCloseChan DEF Revoke, SamePlace
<1>3. /\ Items(commands)' = Items(commands) /\ Items(controls)' = Items(controls)
      /\ Items(results)' = Items(results)
  BY <1>1 DEF Items
<1>4. ASSUME NEW d \in Connections
      PROVE  NoneComes(d)' <=> NoneComes(d)
  BY <1>1, <1>2, <1>3 DEF NoneComes, Exists
<1>5. /\ \A m \in Items(commands) : m.c \in Connections
      /\ \A r \in Items(results) : r.kind = "disconnected" => r.c \in Connections
  <2>1. commands \in Seq(Command) /\ results \in Seq(Result)
    BY DEF TypeInv, ChannelsType
  <2>2. Items(commands) \subseteq Command
    BY <2>1, ItemsOf
  <2>3. Items(results) \subseteq Result
    BY <2>1, ItemsOf
  <2> QED
    BY <2>2, <2>3 DEF Command, Result
<1>6. LivesInv'
  BY <1>1 DEF OrphanInv, LivesInv, Life
<1>7. ConnectsNumbered'
  BY <1>1, <1>3 DEF OrphanInv, ConnectsNumbered, StartOf
<1>8. BeginsOnce'
  BY <1>1, <1>2, <1>3, <1>5 DEF OrphanInv, BeginsOnce, MessagesPlaced
<1>9. ReportsTrue'
  BY <1>1, <1>3, <1>4, <1>5 DEF OrphanInv, ReportsTrue, StartOf
<1>10. GoneForGood'
  BY <1>1, <1>4 DEF OrphanInv, GoneForGood, GivenUp
<1> QED
  BY <1>6, <1>7, <1>8, <1>9, <1>10 DEF OrphanInv

\* The child takes the commands, first in, first out, and forgets that a
\* connection was given up only with its connect.
LEMMA ChildCommands ==
  ASSUME TypeInv, Child
  PROVE  (UNCHANGED commands \/ Takes) /\ Items(commands)' \subseteq Items(commands)
<1>0. commands \in Seq(Command) /\ childAlive
  BY DEF TypeInv, ChannelsType, Child, ChildStep
<1>1. ASSUME OwnerRun \/ Stopped \/ \E c \in Connections : CallOwner(c)
      PROVE  UNCHANGED commands
  BY <1>1 DEF OwnerRun, Stopped, CallOwner, queues
<1>2. ASSUME ReceiveRefused \/ ReceiveConnect \/ ReceiveEnvelope \/ ReceiveEnqueue
      PROVE  Takes
  BY <1>0, <1>2 DEF ReceiveRefused, ReceiveConnect, ReceiveEnvelope, ReceiveEnqueue, Receiving, Takes
<1>3. UNCHANGED commands \/ Takes
  BY <1>1, <1>2, OtherChildSteps
<1>4. commands # <<>> => Items(Tail(commands)) \subseteq Items(commands)
  BY <1>0, ItemsOf
<1>5. Items(commands)' = Items(commands')
  BY DEF Items
<1> QED
  BY <1>3, <1>4, <1>5 DEF Takes
\* A connection remembered as given up is forgotten with its connect alone.
LEMMA ChildDropped ==
  ASSUME TypeInv, Child, NEW c \in dropped
  PROVE  c \in dropped' \/ (ReceiveConnect /\ c = Head(commands).c)
<1>1. CASE ReceiveConnect
  <2>1. dropped' = dropped \/ dropped' = dropped \ {Head(commands).c}
    BY <1>1, Zenon DEF ReceiveConnect
  <2> QED
    BY <1>1, <2>1
<1>2. CASE ControlDisconnect
  <2>1. dropped' = dropped \/ dropped' = Remembered(Head(controls))
    BY <1>2, Zenon DEF ControlDisconnect
  <2> QED
    BY <2>1 DEF Remembered
<1>3. ASSUME \/ ReceiveRefused \/ ReceiveEnvelope \/ ReceiveEnqueue
             \/ ControlReceipt \/ ControlShutdown
             \/ OwnerRun \/ StopOwner \/ Stopped
      PROVE  dropped' = dropped
  BY <1>3 DEF ReceiveRefused, ReceiveEnvelope, ReceiveEnqueue, ControlReceipt, ControlShutdown, OwnerRun, StopOwner, Stopped
<1>4. ASSUME NEW d \in Connections,
             \/ TakeEnvelope(d) \/ CallOwner(d) \/ AfterSync(d)
             \/ PublishBinding(d) \/ StartSend(d) \/ Withhold(d) \/ PutNotification(d)
             \/ CloseSession(d) \/ PumpStopped(d) \/ EndSession(d)
             \/ FinishConnection(d) \/ DrainSession(d)
      PROVE  dropped' = dropped
  BY <1>4 DEF TakeEnvelope, CallOwner, AfterSync, PublishBinding, StartSend, Withhold, PutNotification,
              CloseSession, PumpStopped, EndSession, FinishConnection, DrainSession
<1> QED
  BY <1>1, <1>2, <1>3, <1>4, Zenon DEF Child, ChildStep

\* Behind the connect of a connection no second one follows.
LEMMA ConnectOnce ==
  ASSUME TypeInv, CommandsOrdered, CommandsOrdered', ConnectsNumbered, Takes, childAlive',
         Head(commands).op = "connect", NEW m \in Items(commands)', m.op = "connect"
  PROVE  m.c # Head(commands).c
<1>1. commands \in Seq(Command) /\ commands # <<>> /\ Items(commands)' = Items(commands')
      /\ commands' = Tail(commands)
  BY DEF TypeInv, ChannelsType, Takes, Items
<1>2. m \in Items(commands) /\ Head(commands) \in Items(commands) /\ Items(commands) \subseteq Command
  BY <1>1, ItemsOf
<1>3. m.seq = conn[m.c].start /\ Head(commands).seq = conn[Head(commands).c].start
  BY <1>2 DEF ConnectsNumbered, StartOf
<1>4. Head(commands).seq < m.seq /\ m.seq \in Nat /\ Head(commands).seq \in Nat
  BY <1>2 DEF CommandsOrdered, Takes, Command
<1> QED
  BY <1>3, <1>4

\* The child's steps.
ChildMoves == TypeInv /\ CommandsOrdered /\ CommandsOrdered' /\ OrphanInv /\ Child
\* A session that is excluded stays excluded.
LEMMA NoneStays ==
  ASSUME ChildMoves, childAlive', NEW c \in Connections, NoneComes(c)
  PROVE  NoneComes(c)'
<1>0. TypeInv /\ CommandsOrdered /\ CommandsOrdered' /\ OrphanInv /\ Child /\ ChildStep /\ childAlive
  BY DEF ChildMoves, Child, ChildStep
<1>1. ConnectsNumbered /\ MessagesPlaced /\ commands \in Seq(Command)
  BY <1>0 DEF OrphanInv, BeginsOnce, TypeInv, ChannelsType
<1>2. ASSUME ReceiveConnect
      PROVE  Takes /\ Head(commands).op = "connect" /\ Head(commands) \in Items(commands)
  <2>1. Takes /\ Head(commands).op = "connect"
    BY <1>0, <1>2 DEF ReceiveConnect, Receiving, Takes
  <2> QED
    BY <1>1, <2>1, ItemsOf DEF Takes
<1>3. Still(c)
  <2>1. Still(c) \/ Opens(c)
    BY <1>0, <1>1, ChildPlaces
  <2>2. ~Opens(c)
    BY <1>2 DEF Opens, NoneComes
  <2> QED
    BY <2>1, <2>2
<1>4. ~Exists(c)'
  BY <1>3 DEF NoneComes, Exists, Still, Away
<1>5. ASSUME NEW m \in Items(commands)', m.op = "connect", m.c = c
      PROVE  c \in dropped'
  <2>1. m \in Items(commands)
    BY <1>0, ChildCommands
  <2>2. c \in dropped
    BY <1>5, <2>1 DEF NoneComes
  <2>3. ASSUME ReceiveConnect, c = Head(commands).c
        PROVE  FALSE
    BY <1>0, <1>1, <1>2, <1>5, <2>3, ConnectOnce
  <2> QED
    BY <1>0, <2>2, <2>3, ChildDropped
<1> QED
  BY <1>4, <1>5 DEF NoneComes
\* A session begins with the one connect of its connection.
LEMMA ChildBegins ==
  ASSUME ChildMoves
  PROVE  BeginsOnce'
<1> SUFFICES ASSUME childAlive' PROVE BeginsOnce'
  BY DEF BeginsOnce
<1>0. TypeInv /\ CommandsOrdered /\ CommandsOrdered' /\ OrphanInv /\ Child /\ ChildStep /\ childAlive
  BY DEF ChildMoves, Child, ChildStep
<1>1. ConnectsNumbered /\ MessagesPlaced /\ BeginsOnce /\ commands \in Seq(Command)
  BY <1>0 DEF OrphanInv, BeginsOnce, TypeInv, ChannelsType
<1>2. worker' = worker
  BY <1>0 DEF Child, parentVars, connVars
<1>3. ASSUME NEW c \in Connections, Opens(c)
      PROVE  /\ Takes /\ Head(commands).op = "connect" /\ Head(commands) \in Items(commands)
             /\ Head(commands).c = c
  <2>1. Takes /\ Head(commands).op = "connect" /\ Head(commands).c = c
    BY <1>0, <1>3 DEF Opens, ReceiveConnect, Receiving, Takes
  <2> QED
    BY <1>1, <2>1, ItemsOf DEF Takes
<1>4. ASSUME NEW c \in Connections, chan[c].at = "none", ~Opens(c)
      PROVE  chan'[c].at = "none"
  BY <1>0, <1>1, <1>4, ChildPlaces DEF Still, Away
<1>5. ASSUME NEW c \in Connections, worker'[c].at = "new"
      PROVE  chan'[c].at = "none"
  <2>1. ~Opens(c)
    BY <1>1, <1>2, <1>3, <1>5 DEF ConnectsNumbered, StartOf
  <2> QED
    BY <1>0, <1>1, <1>2, <1>4, <1>5, <2>1 DEF BeginsOnce
<1>6. ASSUME NEW m \in Items(commands)', m.op = "connect"
      PROVE  chan'[m.c].at = "none"
  <2>1. m \in Items(commands)
    BY <1>0, ChildCommands
  <2>2. Items(commands) \subseteq Command
    BY <1>1, ItemsOf
  <2>3. m.c \in Connections /\ chan[m.c].at = "none"
    BY <1>0, <1>1, <1>6, <2>1, <2>2 DEF Command, BeginsOnce
  <2>4. ~Opens(m.c)
    BY <1>0, <1>1, <1>3, <1>6, <2>3, ConnectOnce
  <2> QED
    BY <1>4, <2>3, <2>4
<1>7. MessagesPlaced'
  <2>1. ASSUME NEW d \in Connections, sending'[d].kind = "message"
        PROVE  chan'[d].at = "send"
    BY <1>0, <1>1, <2>1, ChildPlaces DEF Still
  <2> QED
    BY <2>1 DEF MessagesPlaced
<1> QED
  BY <1>5, <1>6, <1>7 DEF BeginsOnce

\* A refused connect excludes the session, and so does the end that is reported.
LEMMA ChildReports ==
  ASSUME ChildMoves
  PROVE  ReportsTrue'
<1>0. TypeInv /\ CommandsOrdered /\ CommandsOrdered' /\ OrphanInv /\ Child /\ ChildStep /\ childAlive
  BY DEF ChildMoves, Child, ChildStep
<1>1. /\ ConnectsNumbered /\ BeginsOnce /\ ReportsTrue
      /\ commands \in Seq(Command) /\ controls \in Seq(ControlMsg) /\ results \in Seq(Result)
  BY <1>0 DEF OrphanInv, TypeInv, ChannelsType
<1>2. worker' = worker /\ conn' = conn /\ sequence' = sequence
  BY <1>0 DEF Child, parentVars, connVars
<1>3. ASSUME NEW c \in Connections, NEW n PROVE StartOf(n, c)' <=> StartOf(n, c)
  BY <1>2 DEF StartOf
<1>4. Items(commands) \subseteq Command /\ (Takes => Head(commands) \in Items(commands))
  BY <1>1, ItemsOf DEF Takes
<1>5. ASSUME NEW r, r \in Items(results)
      PROVE  /\ r.kind = "result" =>
                   /\ 0 < r.n /\ r.n <= sequence'
                   /\ childAlive' /\ ~r.ok => \A c \in Connections : StartOf(r.n, c)' => NoneComes(c)'
             /\ r.kind = "disconnected" => worker'[r.c].at # "new" /\ (childAlive' => NoneComes(r.c)')
  <2>1. r \in Result
    BY <1>1, <1>5, ItemsOf
  <2>2. ASSUME r.kind = "result", childAlive', ~r.ok, NEW c \in Connections, StartOf(r.n, c)'
        PROVE  NoneComes(c)'
    <3>1. NoneComes(c)
      BY <1>0, <1>1, <1>3, <1>5, <2>2 DEF ReportsTrue
    <3> QED
      BY <2>2, <3>1, NoneStays
  <2>3. ASSUME r.kind = "disconnected"
        PROVE  worker'[r.c].at # "new" /\ (childAlive' => NoneComes(r.c)')
    <3>1. r.c \in Connections /\ worker[r.c].at # "new" /\ NoneComes(r.c)
      BY <1>0, <1>1, <1>5, <2>1, <2>3 DEF Result, ReportsTrue
    <3> QED
      BY <1>2, <3>1, NoneStays
  <2>4. r.kind = "result" => 0 < r.n /\ r.n <= sequence'
    BY <1>1, <1>2, <1>5 DEF ReportsTrue
  <2> QED
    BY <2>2, <2>3, <2>4
<1>6. ASSUME Takes, NEW r, NEW ok \in BOOLEAN, r = Answer(Head(commands).seq, ok),
             Head(commands).op = "connect" /\ ~r.ok => UNCHANGED chan
      PROVE  /\ r.kind = "result" /\ 0 < r.n /\ r.n <= sequence'
             /\ childAlive' /\ ~r.ok => \A c \in Connections : StartOf(r.n, c)' => NoneComes(c)'
  <2>1. r.kind = "result" /\ r.n = Head(commands).seq
    BY <1>6 DEF Answer
  <2>2. 0 < r.n /\ r.n <= sequence
    BY <1>0, <1>4, <1>6, <2>1 DEF CommandsOrdered
  <2>3. ASSUME childAlive', ~r.ok, NEW c \in Connections, StartOf(r.n, c)'
        PROVE  NoneComes(c)'
    <3>1. Head(commands).op = "connect" /\ Head(commands).c = c
      BY <1>1, <1>3, <1>4, <1>6, <2>1, <2>3 DEF ConnectsNumbered
    <3>2. chan[c].at = "none" /\ chan' = chan
      BY <1>0, <1>1, <1>4, <1>6, <2>3, <3>1 DEF BeginsOnce
    <3>3. ~Exists(c)'
      BY <3>2 DEF Exists
    <3>4. \A m \in Items(commands)' : m.op = "connect" => m.c # c
      BY <1>0, <1>1, <1>6, <2>3, <3>1, ConnectOnce
    <3> QED
      BY <3>3, <3>4 DEF NoneComes
  <2> QED
    BY <1>2, <2>1, <2>2, <2>3
<1>7. ASSUME NEW c \in Connections, FinishConnection(c)
      PROVE  worker'[c].at # "new" /\ NoneComes(c)'
  <2>1. chan[c].at = "finalizing" /\ commands' = commands
    BY <1>7 DEF FinishConnection
  <2>2. chan'[c].at = "gone"
    BY <1>0, <1>7, FinishConnectionChan
  <2>3. \A m \in Items(commands) : m.op = "connect" => m.c # c
    BY <1>0, <1>1, <2>1 DEF BeginsOnce
  <2>4. worker[c].at # "new"
    BY <1>0, <1>1, <2>1 DEF BeginsOnce
  <2>5. Items(commands)' = Items(commands)
    BY <2>1 DEF Items
  <2> QED
    BY <1>2, <2>2, <2>3, <2>4, <2>5 DEF NoneComes, Exists
<1>8. ASSUME ControlDisconnect, NEW c, c = Head(controls).c, ~Exists(c)
      PROVE  worker'[c].at # "new" /\ NoneComes(c)'
  <2> DEFINE k == Head(controls)
  <2>1. controls # <<>> /\ k.kind = "disconnect" /\ commands' = commands /\ last \in Nat
    BY <1>0, <1>8 DEF ControlDisconnect, Control, TypeInv, ChildType
  <2>2. k \in Items(controls)
    BY <1>1, <2>1, ItemsOf
  <2>3. c = k.c /\ c \in Connections /\ k.seq = conn[c].start /\ worker[c].at # "new"
    BY <1>1, <1>8, <2>1, <2>2 DEF ConnectsNumbered, StartOf
  <2>4. dropped' = Remembered(k) /\ chan' = chan
    BY <1>8, Zenon DEF ControlDisconnect
  <2> HIDE DEF k
  <2>5. ASSUME NEW m \in Items(commands), m.op = "connect", m.c = c
        PROVE  c \in dropped'
    <3>1. m.seq = k.seq /\ last < m.seq /\ m.seq \in Nat
      BY <1>0, <1>1, <1>4, <2>3, <2>5 DEF ConnectsNumbered, StartOf, CommandsOrdered, Command
    <3>2. k.seq > last
      BY <2>1, <3>1
    <3> QED
      BY <2>3, <2>4, <3>2 DEF Remembered
  <2>6. Items(commands)' = Items(commands)
    BY <2>1 DEF Items
  <2>7. ~Exists(c)'
    BY <1>8, <2>4 DEF Exists
  <2> QED
    BY <1>2, <2>3, <2>5, <2>6, <2>7 DEF NoneComes
<1>9. ASSUME NEW r \in Items(results)'
      PROVE  /\ r.kind = "result" =>
                   /\ 0 < r.n /\ r.n <= sequence'
                   /\ childAlive' /\ ~r.ok => \A c \in Connections : StartOf(r.n, c)' => NoneComes(c)'
             /\ r.kind = "disconnected" => worker'[r.c].at # "new" /\ (childAlive' => NoneComes(r.c)')
  <2>1. CASE r \in Items(results)
    BY <1>5, <2>1
  <2>2. CASE Plain(r)
    BY <2>2 DEF Plain
  <2>3. CASE Takes /\ (\E ok \in BOOLEAN : r = Answer(Head(commands).seq, ok))
             /\ (Head(commands).op = "connect" /\ ~r.ok => UNCHANGED chan)
    BY <1>6, <2>3
  <2>4. ASSUME NEW c \in Connections, FinishConnection(c), r = Report("disconnected", c, 0)
        PROVE  r.kind = "disconnected" /\ worker'[r.c].at # "new" /\ NoneComes(r.c)'
    <3>1. r.kind = "disconnected" /\ r.c = c
      BY <2>4 DEF Report
    <3> QED
      BY <1>7, <2>4, <3>1
  <2>5. ASSUME ControlDisconnect, ~Exists(Head(controls).c), r = Report("disconnected", Head(controls).c, 0)
        PROVE  r.kind = "disconnected" /\ worker'[r.c].at # "new" /\ NoneComes(r.c)'
    <3>1. r.kind = "disconnected" /\ r.c = Head(controls).c /\ ~Exists(r.c)
      BY <2>5 DEF Report
    <3> QED
      BY <1>8, <2>5, <3>1
  <2>6. ResultComes(r)
    BY <1>0, ChildResults
  <2> QED
    BY <2>1, <2>2, <2>3, <2>4, <2>5, <2>6 DEF ResultComes
<1> QED
  BY <1>9 DEF ReportsTrue
\* A step of the child keeps the invariant.
LEMMA ChildKeeps ==
  ASSUME ChildMoves
  PROVE  OrphanInv'
<1>0. TypeInv /\ OrphanInv /\ Child /\ childAlive
  BY DEF ChildMoves, Child, ChildStep
<1>1. UNCHANGED <<worker, conn, sequence, pending, failure>>
  BY <1>0 DEF Child, parentVars, connVars, tableVars
<1>2. LivesInv'
  BY <1>0, <1>1 DEF OrphanInv, LivesInv, Life
<1>3. ConnectsNumbered'
  <2>1. Items(commands)' \subseteq Items(commands) /\ Items(controls)' \subseteq Items(controls)
    BY <1>0, ChildCommands, ChildControls
  <2> QED
    BY <1>0, <1>1, <2>1 DEF OrphanInv, ConnectsNumbered, StartOf
<1>4. GoneForGood'
  <2> SUFFICES ASSUME childAlive', failure' = "none", NEW c \in Connections, GivenUp(c)'
               PROVE  NoneComes(c)'
    BY DEF GoneForGood
  <2>1. NoneComes(c)
    BY <1>0, <1>1 DEF OrphanInv, GoneForGood, GivenUp
  <2> QED
    BY <2>1, NoneStays
<1> QED
  BY <1>2, <1>3, <1>4, ChildBegins, ChildReports DEF OrphanInv

\* A step keeps the invariant of the sessions.
LEMMA OrphanStep ==
  ASSUME TypeInv, CommandsOrdered, CommandsOrdered', OrphanInv, [Next]_vars
  PROVE  OrphanInv'
<1>0. LivesInv
  BY DEF OrphanInv
<1>1. CASE FromParent
  BY <1>0, <1>1, ParentMovesOn, ParentKeeps
<1>2. CASE Child
  BY <1>2, ChildKeeps DEF ChildMoves
<1>3. CASE CloseTimeout /\ ChildLost
  BY <1>3, TimeoutKeeps
<1>4. CASE childAlive /\ (\E c \in Connections : Revoke(c)) /\ UNCHANGED parentVars
  BY <1>4, RevokeKeeps
<1>5. CASE \/ (\E c \in Connections : ClientLost(c)) /\ UNCHANGED childVars
           \/ StartClose /\ UNCHANGED childVars
           \/ ChildDies /\ UNCHANGED parentVars
           \/ UNCHANGED vars
  BY <1>0, <1>5, DisturbedMoves, ParentKeeps
<1> QED
  BY <1>1, <1>2, <1>3, <1>4, <1>5, StepCases

\* The invariants hold together.
SessionInv == ProcessInv /\ OrphanInv
\* It holds in every state, with the types, the order and the permits.
LEMMA SessionInvariant == Spec => []SessionInv
<1>1. Init => OrphanInv
  <2> SUFFICES ASSUME Init PROVE OrphanInv
    OBVIOUS
  <2>1. /\ commands = <<>> /\ controls = <<>> /\ results = <<>> /\ pending = {} /\ sequence = 0
        /\ \A c \in Connections : /\ worker[c].at = "new" /\ conn[c].start = 0 /\ ~conn[c].registered
                                 /\ ~conn[c].gone /\ conn[c].ending = "no"
                                 /\ chan[c].at = "none" /\ sending[c].kind = "none"
    BY DEF Init, ChannelsInit, ParentInit, ChildInit, Each, NoSession, Nobody
  <2>2. Items(commands) = {} /\ Items(controls) = {} /\ Items(results) = {}
    BY <2>1 DEF Items
  <2>3. LivesInv
    BY <2>1 DEF LivesInv, Life
  <2>4. \A c \in Connections : NoneComes(c)
    BY <2>1, <2>2 DEF NoneComes, Exists
  <2>5. ConnectsNumbered /\ ReportsTrue
    BY <2>1, <2>2 DEF ConnectsNumbered, ReportsTrue
  <2>6. BeginsOnce
    BY <2>1, <2>2 DEF BeginsOnce, MessagesPlaced
  <2>7. GoneForGood
    BY <2>4 DEF GoneForGood
  <2> QED
    BY <2>3, <2>5, <2>6, <2>7 DEF OrphanInv
<1>2. ProcessInv /\ ProcessInv' /\ OrphanInv /\ [Next]_vars => OrphanInv'
  BY OrphanStep DEF ProcessInv
<1> QED
  BY <1>1, <1>2, ProcessInvariant, PTL DEF Spec, SessionInv

\* A websocket that is over leaves no session behind in the child, and none
\* appears later, though its disconnect may overtake its connect.
THEOREM NoSessionIsOrphaned == Spec => []NoOrphanSession
<1>1. OrphanInv => NoOrphanSession
  BY DEF OrphanInv, LivesInv, Life, GoneForGood, GivenUp, NoneComes, NoOrphanSession
<1>2. SessionInv => NoOrphanSession
  BY <1>1 DEF SessionInv
<1> QED
  BY <1>2, SessionInvariant, PTL

------------------------------------------------------------------------------
\* The envelopes of a connection that the parent sent and has not heard the end
\* of: queued, in the session's inbox, worked at, or reported.
Processes(r, c) == r.kind = "processed" /\ r.c = c
Envelope(m, c) == m.op = "envelope" /\ m.c = c
Carries(c, n) == (n # 0 /\ n = chan[c].current) \/ n \in Items(chan[c].inbox)
Unprocessed(n, c) ==
    \/ Carries(c, n)
    \/ \E r \in Items(results) : Processes(r, c) /\ r.n = n
    \/ \E m \in Items(commands) : Envelope(m, c) /\ m.seq = n
\* They are handled, and reported, in the order of their numbers.
InOrder(s) ==
    \A i, j \in 1..Len(s) : i < j /\ s[i].kind = "processed" /\ s[j].kind = "processed" /\ s[i].c = s[j].c
                               => s[i].n < s[j].n
WorkInOrder(c) ==
    /\ \A i, j \in 1..Len(chan[c].inbox) : i < j => chan[c].inbox[i] < chan[c].inbox[j]
    /\ \A x \in Items(chan[c].inbox) : 0 < x /\ x <= last /\ (chan[c].current # 0 => chan[c].current < x)
    /\ chan[c].current <= last
    /\ \A r \in Items(results) : Processes(r, c) =>
          r.n <= last /\ \A x \in Nat : Carries(c, x) => r.n < x
EnvelopesInOrder == childAlive => InOrder(results) /\ \A c \in Connections : WorkInOrder(c)

\* Where the envelope at hand is, and the publication of the binding: at most one
\* is in flight, while the session rebinds; otherwise the one in force is known.
Works == {"join", "ownerWait", "sync", "send"}
WorkPlaced(c) ==
    /\ chan[c].at \in Works => chan[c].current # 0
    /\ chan[c].at \in {"none", "receive"} => chan[c].current = 0
    /\ Away(c) => chan[c].inbox = <<>>
Settles(c) ==
    \/ chan[c].at \in {"none", "receive", "join", "ownerWait", "send"}
    \/ chan[c].current = 0 /\ chan[c].at # "gone"
InFlight(c) ==
    ~chan[c].revoked =>
        /\ Len(syncs[c]) <= 1
        /\ syncs[c] # <<>> => Head(syncs[c]).n = chan[c].rev /\ chan[c].synced < chan[c].rev
        /\ chan[c].synced <= chan[c].rev
        /\ chan[c].at = "sync" => chan[c].awaits = chan[c].rev
        /\ Settles(c) => chan[c].synced = chan[c].rev
SessionsPlaced == childAlive => \A c \in Connections : WorkPlaced(c) /\ InFlight(c)
\* The parent's revision is not ahead of the session's.
StateOf(r, c) == r.kind = "state" /\ r.c = c
Behind(c) ==
    ~chan[c].revoked =>
        /\ conn[c].rev <= chan[c].rev
        /\ \A r \in Items(results) : StateOf(r, c) => r.n <= chan[c].rev
RevisionsBehind == childAlive => \A c \in Connections : Behind(c)

\* While the worker lives, its newest envelope stands for those before it.
Active(c) == worker[c].at \notin {"failed", "closing", "ended"}
Barred(n, c) == <<c, conn[c].barrier>> \in barriers /\ n <= conn[c].barrier
BarriersHold ==
    childAlive /\ failure = "none" =>
        \A c \in Connections : Active(c) => \A n \in Nat : Unprocessed(n, c) => Barred(n, c)
\* A request waits for the envelopes before it, and they for the requests.
Requested(m, c) == m.op = "enqueue" /\ m.c = c
NoneBehind(c) ==
    \A m \in Items(commands) : Requested(m, c) =>
        /\ chan[c].current = 0 /\ chan[c].inbox = <<>>
        /\ \A e \in Items(commands) : Envelope(e, c) => m.seq < e.seq
RequestsWait ==
    childAlive => \A c \in Connections : NoneBehind(c) /\ (chan[c].at = "ownerWait" => admitted[c] = <<>>)
\* What BindingKept says, also before the session is there.
SameRev(c) ==
    chan[c].at # "gone" /\ ~chan[c].revoked =>
        /\ \A m \in Items(commands) : Requested(m, c) => m.rev = chan[c].rev
        /\ \A m \in Items(admitted[c]) : m.rev = chan[c].rev
RevisionKept == childAlive => \A c \in Connections : SameRev(c)

BindingInv ==
    /\ EnvelopesInOrder /\ SessionsPlaced /\ RevisionsBehind
    /\ BarriersHold /\ RequestsWait /\ RevisionKept

------------------------------------------------------------------------------
\* What a step of the parent is to all this.
TakesReport == results # <<>> /\ results' = Tail(results)
Resumes(d) == TakesReport /\ Processes(Head(results), d) /\ Head(results).n = conn[d].barrier
BarrierMoves(d) ==
    \/ /\ conn'[d].barrier = sequence + 1 /\ <<d, sequence + 1>> \in barriers'
       /\ sequence' = sequence + 1
    \/ /\ conn'[d].barrier = conn[d].barrier
       /\ <<d, conn[d].barrier>> \in barriers => <<d, conn[d].barrier>> \in barriers' \/ Resumes(d)
       /\ \A m \in Items(commands)' : Envelope(m, d) => m \in Items(commands)
Passes(m) == /\ Active(m.c) /\ failure = "none" /\ <<m.c, conn[m.c].barrier>> \notin barriers
             /\ m.rev = conn[m.c].rev
ParentBinds ==
    /\ UNCHANGED <<childVars, childAlive>>
    /\ UNCHANGED results \/ TakesReport
    /\ \A d \in Connections :
          \/ conn'[d].rev = conn[d].rev
          \/ TakesReport /\ StateOf(Head(results), d) /\ conn'[d].rev = Head(results).n
    /\ \/ UNCHANGED <<commands, sequence>>
       \/ \E m : Queues(m) /\ (m.op = "enqueue" => Passes(m))
    /\ failure' = "none" =>
          failure = "none" /\ \A d \in Connections : (Active(d))' => Active(d) /\ BarrierMoves(d)

\* The parent reads one report, or none.
LEMMA ParentReads ==
  ASSUME FromParent
  PROVE  UNCHANGED results \/ TakesReport
<1>1. ASSUME NEW kind, Reading(kind)
      PROVE  TakesReport
  BY <1>1 DEF Reading, TakesReport
<1>2. ASSUME ReadAnswer \/ ReadTerminal \/ ReadProcessed \/ ReadState \/ ReadSocketClose \/ ReadDisconnected
      PROVE  TakesReport
  BY <1>1, <1>2, Zenon DEF ReadAnswer, ReadTerminal, ReadProcessed, ReadState, ReadSocketClose, ReadDisconnected
<1>3. ASSUME NEW c \in Connections, \/ Connect(c) \/ Enqueue(c) \/ SendEnvelope(c) \/ Admitted(c) \/ EndWorker(c)
                                    \/ DisconnectStart(c) \/ DisconnectEnd(c)
      PROVE  UNCHANGED results
  BY <1>3 DEF Connect, Enqueue, SendEnvelope, Admitted, EndWorker, DisconnectStart, DisconnectEnd, queues
<1>4. ASSUME NEW c \in Connections, NEW q \in RequestIds, TakeRequest(c, q)
      PROVE  UNCHANGED results
  BY <1>4 DEF TakeRequest, queues
<1>5. ASSUME NEW s \in sends, BeginWrite(s) \/ Write(s) \/ FinishDelivery(s)
      PROVE  UNCHANGED results
  BY <1>5 DEF BeginWrite, Write, FinishDelivery, queues
<1>6. ASSUME ReadNotification \/ ChildEnded \/ EndClose
      PROVE  UNCHANGED results
  BY <1>6 DEF ReadNotification, ChildEnded, EndClose, queues
<1> QED
  BY <1>2, <1>3, <1>4, <1>5, <1>6, Zenon DEF FromParent, Parent, ParentStep, ClientSends

\* The revision of a connection is what the child reported.
LEMMA ParentRevisions ==
  ASSUME TypeInv, FromParent, NEW d \in Connections
  PROVE  \/ conn'[d].rev = conn[d].rev
         \/ TakesReport /\ StateOf(Head(results), d) /\ conn'[d].rev = Head(results).n
<1>1. CASE SameBinding(d)
  BY <1>1 DEF SameBinding
<1>2. CASE ReadState /\ ~StateRefused
  <2>1. conn'[d].rev = conn[d].rev \/ (d = Head(results).c /\ conn'[d].rev = Head(results).n)
    BY <1>2, ReadStateConn
  <2>2. TakesReport /\ Head(results).kind = "state"
    BY <1>2, Zenon DEF ReadState, Reading, TakesReport
  <2> QED
    BY <2>1, <2>2 DEF StateOf
<1> QED
  BY <1>1, <1>2, ParentBinding

\* A worker that has ended stays so, and the newest barrier of one that lives is
\* replaced by a newer one or lifted by its report alone.
LEMMA BarriersKept ==
  ASSUME NEW d \in Connections, conn'[d].barrier = conn[d].barrier, UNCHANGED <<barriers, commands>>
  PROVE  BarrierMoves(d)
BY DEF BarrierMoves, Items
\* The answer to a command.
LEMMA AnswerBarriers ==
  ASSUME TypeInv, NEW p \in pending, UNCHANGED commands,
         AnswerAccepted(p) \/ CallRefused(p) \/ EnqueueRefused(p),
         NEW d \in Connections, (Active(d))'
  PROVE  Active(d) /\ BarrierMoves(d)
<1>0. worker'[d].at \notin {"failed", "closing", "ended"}
  BY DEF Active
<1>1. CASE AnswerAccepted(p)
  <2>1. Woken(p, "reading") /\ UNCHANGED <<conn, barriers>>
    BY <1>1, Zenon DEF AnswerAccepted
  <2>2. worker'[d].at = IF d = p.c /\ Awaited(p) THEN "reading" ELSE worker[d].at
    BY <2>1, WokenWorker
  <2>3. Active(d)
    BY <1>0, <2>2 DEF Active, Awaited
  <2> QED
    BY <2>1, <2>3, BarriersKept
<1>2. CASE CallRefused(p)
  <2>1. /\ Woken(p, "failed")
        /\ barriers' = IF Awaited(p) THEN barriers \ {<<p.c, p.seq>>} ELSE barriers
    BY <1>2, Zenon DEF CallRefused
  <2>2. worker'[d].at = IF d = p.c /\ Awaited(p) THEN "failed" ELSE worker[d].at
    BY <2>1, WokenWorker
  <2>3. Active(d) /\ ~(d = p.c /\ Awaited(p))
    BY <1>0, <2>2 DEF Active
  <2>4. conn'[d].barrier = conn[d].barrier
    BY <1>2, CallRefusedConn
  <2>5. <<d, conn[d].barrier>> \in barriers => <<d, conn[d].barrier>> \in barriers'
    BY <2>1, <2>3
  <2>6. Items(commands)' = Items(commands)
    BY DEF Items
  <2> QED
    BY <2>3, <2>4, <2>5, <2>6 DEF BarrierMoves
<1>3. CASE EnqueueRefused(p)
  <2>1. UNCHANGED <<worker, barriers>>
    BY <1>3, Zenon DEF EnqueueRefused
  <2>2. conn'[d].barrier = conn[d].barrier
    BY <1>3, EnqueueRefusedConn DEF SameBarrier
  <2>3. Active(d)
    BY <1>0, <2>1 DEF Active
  <2> QED
    BY <2>1, <2>2, <2>3, BarriersKept
<1> QED
  BY <1>1, <1>2, <1>3
\* The reports of the child, but for its answers.
LEMMA ReportBarriers ==
  ASSUME TypeInv, ReadTerminal \/ ReadProcessed \/ ReadState \/ ReadSocketClose \/ ReadDisconnected,
         failure' = "none", failure = "none", NEW d \in Connections, (Active(d))'
  PROVE  Active(d) /\ BarrierMoves(d)
<1>0. UNCHANGED commands
  BY DEF ReadTerminal, ReadProcessed, ReadState, ReadSocketClose, ReadDisconnected
<1>1. CASE ReadTerminal
  BY <1>0, <1>1, BarriersKept DEF ReadTerminal, connVars, Active
<1>2. CASE ReadProcessed
  <2>1. /\ UNCHANGED worker /\ barriers' = barriers \ {<<Head(results).c, Head(results).n>>}
        /\ TakesReport /\ Head(results).kind = "processed"
    BY <1>2, Zenon DEF ReadProcessed, Reading, TakesReport
  <2>2. conn'[d].barrier = conn[d].barrier
    BY <1>2, ReadProcessedConn
  <2>3. Items(commands)' = Items(commands)
    BY <1>0 DEF Items
  <2>4. <<d, conn[d].barrier>> \in barriers => <<d, conn[d].barrier>> \in barriers' \/ Resumes(d)
    BY <2>1 DEF Resumes, Processes
  <2> QED
    BY <2>1, <2>2, <2>3, <2>4 DEF BarrierMoves, Active
<1>3. CASE ReadState
  <2>1. ~StateRefused
    BY <1>3, Zenon DEF Reject, ReadState, StateRefused, Fail
  <2>2. conn'[d].barrier = conn[d].barrier
    BY <1>3, <2>1, ReadStateConn DEF SameBarrier
  <2>3. UNCHANGED <<worker, barriers>>
    BY <1>3, <2>1, Zenon DEF Reject, ReadState, StateRefused
  <2> QED
    BY <1>0, <2>2, <2>3, BarriersKept DEF Active
<1>4. CASE ReadSocketClose \/ ReadDisconnected
  <2>1. UNCHANGED <<worker, barriers>>
    BY <1>4 DEF ReadSocketClose, ReadDisconnected, tableVars
  <2>2. conn'[d].barrier = conn[d].barrier
    BY <1>4, ReadSocketCloseConn, ReadDisconnectedConn DEF SameBarrier
  <2> QED
    BY <1>0, <2>1, <2>2, BarriersKept DEF Active
<1> QED
  BY <1>1, <1>2, <1>3, <1>4
\* The steps of the worker and of the disconnect.
LEMMA WorkerBarriers ==
  ASSUME TypeInv, NEW c \in Connections, NEW d \in Connections, (Active(d))',
         \/ Connect(c) \/ Enqueue(c) \/ Admitted(c) \/ EndWorker(c) \/ DisconnectStart(c) \/ DisconnectEnd(c)
         \/ \E q \in RequestIds : TakeRequest(c, q)
  PROVE  Active(d) /\ BarrierMoves(d)
<1>0. worker'[d].at \notin {"failed", "closing", "ended"} /\ UNCHANGED barriers
  BY DEF Active, Connect, Enqueue, Admitted, EndWorker, DisconnectStart, DisconnectEnd, TakeRequest, tableVars
<1>1. ASSUME NEW m, Queues(m), m.op # "envelope", conn'[d].barrier = conn[d].barrier
      PROVE  BarrierMoves(d)
  <2>1. commands \in Seq(Command) /\ Items(commands)' = Items(commands') /\ m \in Command
        /\ commands' = Append(commands, m)
    BY <1>1 DEF TypeInv, ChannelsType, Items, Queues
  <2>2. Items(commands)' = Items(commands) \cup {m}
    BY <2>1, ItemsOf
  <2> QED
    BY <1>0, <1>1, <2>2 DEF BarrierMoves, Envelope
<1>2. \A q, rev : /\ NewCommand("connect", c, q, rev).op # "envelope"
                  /\ NewCommand("enqueue", c, q, rev).op # "envelope"
  BY DEF NewCommand
<1>3. CASE Connect(c)
  <2>1. conn'[d].barrier = conn[d].barrier
    BY <1>3, ConnectConn DEF SameBarrier
  <2>2. BarrierMoves(d)
    BY <1>0, <1>1, <1>2, <1>3, <2>1, ConnectQueues, BarriersKept
  <2>3. d # c => worker'[d].at = worker[d].at
    BY <1>3, ConnectWorker
  <2> QED
    BY <1>0, <1>3, <2>2, <2>3 DEF Active, Connect
<1>4. CASE Enqueue(c)
  <2>1. conn'[d].barrier = conn[d].barrier
    BY <1>4, EnqueueConn DEF SameBarrier, BeginsToEnd
  <2>2. BarrierMoves(d)
    BY <1>0, <1>1, <1>2, <1>4, <2>1, EnqueueQueues, BarriersKept
  <2>3. d # c => worker'[d].at = worker[d].at
    BY <1>4, EnqueueWorker DEF SameAt
  <2> QED
    BY <1>0, <1>4, <2>2, <2>3 DEF Active, Enqueue
<1>5. CASE Admitted(c)
  <2>1. conn'[d].barrier = conn[d].barrier /\ UNCHANGED commands
    BY <1>5, AdmittedConn DEF SameBarrier, BeginsToEnd, Admitted, queues
  <2>2. d # c => worker'[d].at = worker[d].at
    BY <1>5, AdmittedWorker DEF SameAt
  <2> QED
    BY <1>0, <1>5, <2>1, <2>2, BarriersKept DEF Active, Admitted
<1>6. CASE EndWorker(c)
  <2>1. conn'[d].barrier = conn[d].barrier /\ UNCHANGED commands
    BY <1>6, EndWorkerConn DEF SameBarrier, EndWorker, queues
  <2>2. worker'[d].at = worker[d].at \/ worker'[d].at \in {"closing", "ended"}
    BY <1>6, EndWorkerWorker
  <2> QED
    BY <1>0, <2>1, <2>2, BarriersKept DEF Active
<1>7. CASE DisconnectStart(c)
  <2>1. conn'[d].barrier = conn[d].barrier /\ UNCHANGED <<commands, worker>>
    BY <1>7, DisconnectStartConn DEF SameBarrier, DisconnectStart
  <2> QED
    BY <1>0, <2>1, BarriersKept DEF Active
<1>8. CASE DisconnectEnd(c)
  <2>1. conn'[d].barrier = conn[d].barrier /\ UNCHANGED commands
    BY <1>8, DisconnectEndConn DEF SameBarrier, DisconnectEnd, queues
  <2>2. worker'[d].at = worker[d].at \/ worker'[d].at = "ended"
    BY <1>8, DisconnectEndWorker
  <2> QED
    BY <1>0, <2>1, <2>2, BarriersKept DEF Active
<1>9. ASSUME NEW q \in RequestIds, TakeRequest(c, q)
      PROVE  Active(d) /\ BarrierMoves(d)
  <2>1. UNCHANGED <<conn, commands>> /\ worker[c].at = "reading"
    BY <1>9 DEF TakeRequest, queues
  <2>2. d # c => worker'[d].at = worker[d].at
    BY <1>9, TakeRequestWorker
  <2> QED
    BY <1>0, <2>1, <2>2, BarriersKept DEF Active
<1> QED
  BY <1>3, <1>4, <1>5, <1>6, <1>7, <1>8, <1>9
\* A new envelope is the newest barrier of its connection.
LEMMA EnvelopeBarriers ==
  ASSUME TypeInv, NEW c \in Connections, NEW d \in Connections, (Active(d))', SendEnvelope(c)
  PROVE  Active(d) /\ BarrierMoves(d)
<1>0. /\ worker'[d].at \notin {"failed", "closing", "ended"} /\ worker[c].at = "reading"
      /\ commands \in Seq(Command) /\ Items(commands)' = Items(commands')
  BY DEF Active, SendEnvelope, TypeInv, ChannelsType, Items
<1>1. Active(d)
  <2>1. d # c => worker'[d].at = worker[d].at
    BY SendEnvelopeWorker
  <2> QED
    BY <1>0, <2>1 DEF Active
<1>2. CASE Takable(c)
  <2> DEFINE m == NewCommand("envelope", c, "none", 0)
  <2>1. Queues(m) /\ m.c = c
    BY <1>2, SendEnvelopeQueues DEF NewCommand
  <2>2. barriers' = barriers \cup {<<c, sequence + 1>>}
    BY <1>2, Zenon DEF SendEnvelope, Takable
  <2>3. conn'[d].barrier = IF d = c THEN sequence + 1 ELSE conn[d].barrier
    BY <1>2, SendEnvelopeConn DEF Takable
  <2>4. sequence' = sequence + 1 /\ m \in Command /\ commands' = Append(commands, m)
    BY <2>1 DEF Queues
  <2> HIDE DEF m
  <2>5. Items(commands)' = Items(commands) \cup {m}
    BY <1>0, <2>4, ItemsOf
  <2> QED
    BY <1>1, <2>1, <2>2, <2>3, <2>4, <2>5 DEF BarrierMoves, Envelope
<1>3. CASE ~Takable(c)
  <2>1. UNCHANGED <<commands, barriers>>
    BY <1>3, Zenon DEF SendEnvelope, Takable
  <2>2. conn'[d].barrier = conn[d].barrier
    BY <1>3, SendEnvelopeConn DEF Takable
  <2> QED
    BY <1>1, <2>1, <2>2, BarriersKept
<1> QED
  BY <1>2, <1>3

\* All steps of the parent.
LEMMA ParentBarriers ==
  ASSUME TypeInv, FromParent, failure' = "none", NEW d \in Connections, (Active(d))'
  PROVE  failure = "none" /\ Active(d) /\ BarrierMoves(d)
<1>0. failure = "none"
  BY ParentFailure DEF FailureStays
<1> DEFINE Goal == Active(d) /\ BarrierMoves(d)
<1> SUFFICES Goal
  BY <1>0
<1>1. ASSUME NEW reason \in {"protocol", "stopped", "exited"}, Fail(reason)
      PROVE  FALSE
  BY <1>1 DEF Fail
<1>2. ASSUME UNCHANGED <<conn, worker, barriers, commands>>
      PROVE  Goal
  BY <1>2, BarriersKept DEF Active
<1>3. ASSUME NEW s \in sends, BeginWrite(s) \/ Write(s) \/ FinishDelivery(s)
      PROVE  Goal
  BY <1>2, <1>3 DEF BeginWrite, Write, FinishDelivery, connVars, queues
<1>4. CASE ReadNotification
  BY <1>1, <1>2, <1>4 DEF Reject, ReadNotification
<1>5. CASE ReadAnswer
  <2>1. UNCHANGED commands
    BY <1>5 DEF ReadAnswer
  <2>2. \/ Fail("protocol")
        \/ \E p \in pending : AnswerAccepted(p) \/ CallRefused(p) \/ EnqueueRefused(p)
    BY <1>5, Zenon DEF Reject, ReadAnswer
  <2>3. ASSUME NEW p \in pending, AnswerAccepted(p) \/ CallRefused(p) \/ EnqueueRefused(p)
        PROVE  Goal
    BY <2>1, <2>3, AnswerBarriers
  <2>4. ~Fail("protocol")
    BY <1>1
  <2> HIDE DEF Goal
  <2> QED
    BY <2>2, <2>3, <2>4
<1>6. CASE ChildEnded
  BY <1>1, <1>6 DEF ChildEnded
<1>11. ~EndClose
  BY <1>0 DEF EndClose
<1> HIDE DEF Goal
<1>7. ASSUME NEW c \in Connections, SendEnvelope(c)
      PROVE  Goal
  BY <1>7, EnvelopeBarriers DEF Goal
<1>8. ASSUME NEW c \in Connections,
             \/ Connect(c) \/ Enqueue(c) \/ Admitted(c) \/ EndWorker(c) \/ DisconnectStart(c) \/ DisconnectEnd(c)
      PROVE  Goal
  BY <1>8, WorkerBarriers DEF Goal
<1>9. ASSUME ReadTerminal \/ ReadProcessed \/ ReadState \/ ReadSocketClose \/ ReadDisconnected
      PROVE  Goal
  BY <1>0, <1>9, ReportBarriers DEF Goal
<1>10. ASSUME NEW c \in Connections, NEW q \in RequestIds, TakeRequest(c, q)
       PROVE  Goal
  BY <1>10, WorkerBarriers DEF Goal
<1> QED
  BY <1>10, <1>11, <1>3, <1>4, <1>5, <1>6, <1>7, <1>8, <1>9, Zenon DEF FromParent, Parent, ParentStep, ClientSends

\* What the parent queues: a request only past the newest barrier.
LEMMA ParentQueues ==
  ASSUME TypeInv, FromParent
  PROVE  \/ UNCHANGED <<commands, sequence>>
         \/ \E m : Queues(m) /\ (m.op = "enqueue" => Passes(m))
<1> DEFINE Goal == \/ UNCHANGED <<commands, sequence>>
                   \/ \E m : Queues(m) /\ (m.op = "enqueue" => Passes(m))
<1>1. \A c, q, rev : /\ NewCommand("connect", c, q, rev).op # "enqueue"
                     /\ NewCommand("envelope", c, q, rev).op # "enqueue"
  BY DEF NewCommand
<1>2. ASSUME NEW c \in Connections, Connect(c)
      PROVE  Goal
  BY <1>1, <1>2, ConnectQueues
<1>3. ASSUME NEW c \in Connections, SendEnvelope(c)
      PROVE  Goal
  BY <1>1, <1>3, SendEnvelopeQueues
<1>4. ASSUME NEW c \in Connections, Enqueue(c)
      PROVE  Goal
  <2> DEFINE m == NewCommand("enqueue", c, worker[c].q, conn[c].rev)
  <2>1. CASE Permitted(c) /\ Queues(m)
    <3>1. m.c = c /\ m.rev = conn[c].rev
      BY DEF NewCommand
    <3>2. Active(c) /\ <<c, conn[c].barrier>> \notin barriers
      BY <1>4 DEF Enqueue, BarrierPassed, Active
    <3>3. failure = "none"
      BY <2>1 DEF Permitted, MaySubmit
    <3>4. Passes(m)
      BY <3>1, <3>2, <3>3 DEF Passes
    <3> HIDE DEF m
    <3> QED
      BY <2>1, <3>4
  <2> QED
    BY <1>4, <2>1, EnqueueQueues
<1> HIDE DEF Goal
<1>5. UNCHANGED <<commands, sequence>> => Goal
  BY DEF Goal
<1>6. Goal
  BY <1>2, <1>3, <1>4, <1>5, OtherParentSteps
<1> QED
  BY <1>6 DEF Goal

\* The parent's steps together, and the others that leave the child as it is.
LEMMA ParentBindings ==
  ASSUME TypeInv, FromParent
  PROVE  ParentBinds
<1>1. UNCHANGED <<childVars, childAlive>>
  <2>1. UNCHANGED childVars
    BY DEF FromParent, Parent
  <2>2. UNCHANGED childAlive
    BY OtherParentSteps, ConnectQueues, EnqueueQueues, SendEnvelopeQueues
  <2> QED
    BY <2>1, <2>2
<1>2. \A d \in Connections : \/ conn'[d].rev = conn[d].rev
                             \/ TakesReport /\ StateOf(Head(results), d) /\ conn'[d].rev = Head(results).n
  BY ParentRevisions
<1>3. failure' = "none" =>
          failure = "none" /\ \A d \in Connections : (Active(d))' => Active(d) /\ BarrierMoves(d)
  BY ParentBarriers, ParentFailure DEF FailureStays
<1> QED
  BY <1>1, <1>2, <1>3, ParentReads, ParentQueues DEF ParentBinds
\* A socket lost or a close asked for changes none of it.
LEMMA DisturbedBindings ==
  ASSUME TypeInv, \/ (\E c \in Connections : ClientLost(c)) /\ UNCHANGED childVars
                  \/ StartClose /\ UNCHANGED childVars
                  \/ UNCHANGED vars
  PROVE  ParentBinds
<1>1. /\ UNCHANGED <<childVars, childAlive, results, commands, sequence, failure, worker, barriers>>
      /\ \A d \in Connections : conn'[d].rev = conn[d].rev /\ conn'[d].barrier = conn[d].barrier
  <2>1. ASSUME NEW c \in Connections, ClientLost(c)
        PROVE  /\ UNCHANGED <<childAlive, results, commands, sequence, failure, worker, barriers>>
               /\ \A d \in Connections : conn'[d].rev = conn[d].rev /\ conn'[d].barrier = conn[d].barrier
    BY <2>1, ClientLostConn DEF ClientLost, SameBinding, SameBarrier, queues, tableVars
  <2>2. StartClose => UNCHANGED <<childAlive, results, commands, sequence, failure, worker, barriers, conn>>
    BY DEF StartClose, connVars
  <2>3. UNCHANGED vars => UNCHANGED <<childVars, childAlive, results, commands, sequence, failure, worker, barriers, conn>>
    BY DEF vars, queues, parentVars, connVars, tableVars
  <2> QED
    BY <2>1, <2>2, <2>3
<1>2. \A d \in Connections : (Active(d))' => Active(d) /\ BarrierMoves(d)
  BY <1>1, BarriersKept DEF Active
<1> QED
  BY <1>1, <1>2 DEF ParentBinds

\* What the parent's steps keep of the order, the sessions and the revisions.
LEMMA TailInOrder ==
  ASSUME results \in Seq(Result), results # <<>>, InOrder(results)
  PROVE  /\ InOrder(Tail(results)) /\ Items(Tail(results)) \subseteq Items(results)
         /\ \A c : Processes(Head(results), c) => \A r \in Items(Tail(results)) : Processes(r, c) => Head(results).n < r.n
<1>1. /\ Tail(results) \in Seq(Result) /\ Len(Tail(results)) = Len(results) - 1 /\ Len(results) >= 1 /\ Len(results) \in Nat
      /\ \A i \in 1..(Len(results) - 1) : Tail(results)[i] = results[i + 1]
      /\ Head(results) = results[1]
  OBVIOUS
<1>2. Items(Tail(results)) \subseteq Items(results) /\ \A r \in Items(Tail(results)) : \E i \in 1..Len(Tail(results)) : r = Tail(results)[i]
  BY <1>1, ItemsOf
<1>3. \A i \in 1..(Len(results) - 1) : i + 1 \in 1..Len(results) /\ 1 < i + 1
  BY <1>1
<1>4. 1 \in 1..Len(results)
  BY <1>1
<1>5. \A i, j \in 1..(Len(results) - 1) : i < j => i + 1 < j + 1
  BY <1>1
<1>6. InOrder(Tail(results))
  <2> SUFFICES ASSUME NEW i \in 1..(Len(results) - 1), NEW j \in 1..(Len(results) - 1), i < j,
                      Tail(results)[i].kind = "processed", Tail(results)[j].kind = "processed",
                      Tail(results)[i].c = Tail(results)[j].c
               PROVE  Tail(results)[i].n < Tail(results)[j].n
    BY <1>1 DEF InOrder
  <2>1. /\ i + 1 \in 1..Len(results) /\ j + 1 \in 1..Len(results) /\ i + 1 < j + 1
        /\ Tail(results)[i] = results[i + 1] /\ Tail(results)[j] = results[j + 1]
    BY <1>1, <1>3, <1>5
  <2> QED
    BY <2>1 DEF InOrder
<1>7. ASSUME NEW c, Processes(Head(results), c), NEW r \in Items(Tail(results)), Processes(r, c)
      PROVE  Head(results).n < r.n
  <2>1. PICK i \in 1..(Len(results) - 1) : r = results[i + 1]
    BY <1>1, <1>2
  <2>2. i + 1 \in 1..Len(results) /\ 1 < i + 1
    BY <1>3
  <2> QED
    BY <1>1, <1>4, <1>7, <2>1, <2>2 DEF InOrder, Processes
<1> QED
  BY <1>2, <1>6, <1>7

ParentKept == TypeInv /\ TypeInv' /\ CommandsOrdered /\ FenceInv /\ BindingInv /\ ParentBinds /\ childAlive'
\* The types this rests on.
LEMMA BindingTypes ==
  ASSUME TypeInv
  PROVE  /\ commands \in Seq(Command) /\ results \in Seq(Result) /\ Items(commands) \subseteq Command
         /\ sequence \in Nat /\ last \in Nat
         /\ \A m \in Command : m.seq \in Nat /\ m.c \in Connections
         /\ \A c \in Connections :
               /\ chan[c].current \in Nat /\ chan[c].inbox \in Seq(Nat) /\ Items(chan[c].inbox) \subseteq Nat
               /\ chan[c].rev \in Nat /\ chan[c].synced \in Nat /\ chan[c].awaits \in Nat
               /\ conn[c].rev \in Nat /\ conn[c].barrier \in Nat
               /\ syncs[c] \in Seq(Sync) /\ admitted[c] \in Seq(Admission)
               /\ \A n : Carries(c, n) => n \in Nat
<1>1. /\ commands \in Seq(Command) /\ results \in Seq(Result) /\ sequence \in Nat /\ last \in Nat
      /\ \A c \in Connections :
               /\ chan[c].current \in Nat /\ chan[c].inbox \in Seq(Nat)
               /\ chan[c].rev \in Nat /\ chan[c].synced \in Nat /\ chan[c].awaits \in Nat
               /\ conn[c].rev \in Nat /\ conn[c].barrier \in Nat
               /\ syncs[c] \in Seq(Sync) /\ admitted[c] \in Seq(Admission)
  BY DEF TypeInv, ChannelsType, ParentType, ConnType, ChildType, ChanType
<1>2. Items(commands) \subseteq Command /\ \A c \in Connections : Items(chan[c].inbox) \subseteq Nat
  BY <1>1, ItemsOf
<1>3. \A m \in Command : m.seq \in Nat /\ m.c \in Connections
  BY DEF Command
<1> QED
  BY <1>1, <1>2, <1>3 DEF Carries

\* Reading a report keeps the order, and none but the reports is touched.
LEMMA ParentOrder ==
  ASSUME ParentKept
  PROVE  /\ EnvelopesInOrder' /\ SessionsPlaced' /\ RevisionsBehind'
         /\ childAlive /\ UNCHANGED <<chan, syncs, admitted, last>>
         /\ Items(results)' \subseteq Items(results)
         /\ \A c \in Connections : \A n : Carries(c, n)' <=> Carries(c, n)
<1>0. /\ TypeInv /\ BindingInv /\ ParentBinds /\ results \in Seq(Result) /\ childAlive
      /\ UNCHANGED <<chan, syncs, admitted, last>> /\ Items(results)' = Items(results')
  BY BindingTypes DEF ParentKept, ParentBinds, childVars, sessionVars, Items
<1>1. InOrder(results) /\ (UNCHANGED results \/ TakesReport)
  BY <1>0 DEF BindingInv, EnvelopesInOrder, ParentBinds
<1>2. InOrder(results') /\ Items(results') \subseteq Items(results)
  BY <1>0, <1>1, TailInOrder DEF TakesReport
<1>3. \A c \in Connections : \A n : Carries(c, n)' <=> Carries(c, n)
  BY <1>0 DEF Carries, Items
<1>4. EnvelopesInOrder'
  <2>1. InOrder(results)'
    BY <1>2 DEF InOrder
  <2>2. ASSUME NEW c \in Connections PROVE WorkInOrder(c)'
    <3>1. WorkInOrder(c)
      BY <1>0 DEF BindingInv, EnvelopesInOrder
    <3>2. Items(chan[c].inbox)' = Items(chan[c].inbox)
      BY <1>0 DEF Items
    <3> QED
      BY <1>0, <1>2, <1>3, <3>1, <3>2 DEF WorkInOrder, Processes
  <2> QED
    BY <2>1, <2>2 DEF EnvelopesInOrder
<1>5. SessionsPlaced'
  BY <1>0 DEF BindingInv, SessionsPlaced, WorkPlaced, InFlight, Settles, Away
<1>6. RevisionsBehind'
  <2> SUFFICES ASSUME NEW c \in Connections, ~chan'[c].revoked
               PROVE  /\ conn'[c].rev <= chan'[c].rev
                      /\ \A r \in Items(results)' : StateOf(r, c) => r.n <= chan'[c].rev
    BY DEF RevisionsBehind, Behind, StateOf
  <2>1. Behind(c) /\ ~chan[c].revoked
    BY <1>0 DEF BindingInv, RevisionsBehind
  <2>2. \/ conn'[c].rev = conn[c].rev
        \/ TakesReport /\ StateOf(Head(results), c) /\ conn'[c].rev = Head(results).n
    BY <1>0 DEF ParentBinds
  <2>3. TakesReport => Head(results) \in Items(results)
    BY <1>0, ItemsOf DEF TakesReport
  <2> QED
    BY <1>0, <1>2, <2>1, <2>2, <2>3 DEF Behind
<1> QED
  BY <1>0, <1>2, <1>3, <1>4, <1>5, <1>6

\* A new command is the last, and only it is new.
LEMMA ParentNew ==
  ASSUME ParentKept
  PROVE  \/ Items(commands)' = Items(commands)
         \/ \E m : /\ Items(commands)' = Items(commands) \cup {m} /\ m \in Command
                   /\ m.seq = sequence + 1 /\ (m.op = "enqueue" => Passes(m))
<1>0. commands \in Seq(Command) /\ Items(commands)' = Items(commands')
  BY BindingTypes DEF ParentKept, Items
<1>1. CASE UNCHANGED commands
  BY <1>0, <1>1
<1>2. ASSUME NEW m, Queues(m), m.op = "enqueue" => Passes(m)
      PROVE  /\ Items(commands)' = Items(commands) \cup {m} /\ m \in Command
             /\ m.seq = sequence + 1 /\ (m.op = "enqueue" => Passes(m))
  <2>1. m \in Command /\ m.seq = sequence + 1 /\ commands' = Append(commands, m)
    BY <1>2 DEF Queues
  <2>2. Items(Append(commands, m)) = Items(commands) \cup {m}
    BY <1>0, <2>1, ItemsOf
  <2> QED
    BY <1>0, <1>2, <2>1, <2>2
<1>3. UNCHANGED commands \/ \E m : Queues(m) /\ (m.op = "enqueue" => Passes(m))
  BY DEF ParentKept, ParentBinds
<1> QED
  BY <1>1, <1>2, <1>3
\* No envelope is beyond the last number.
LEMMA UnprocessedBounded ==
  ASSUME TypeInv, CommandsOrdered, EnvelopesInOrder, childAlive,
         NEW c \in Connections, NEW n \in Nat, Unprocessed(n, c)
  PROVE  n <= sequence
<1>0. WorkInOrder(c) /\ last <= sequence /\ sequence \in Nat /\ last \in Nat
  BY BindingTypes DEF EnvelopesInOrder, CommandsOrdered
<1>1. Carries(c, n) => n <= last
  BY <1>0 DEF WorkInOrder, Carries
<1>2. (\E r \in Items(results) : Processes(r, c) /\ r.n = n) => n <= last
  BY <1>0 DEF WorkInOrder
<1>3. (\E m \in Items(commands) : Envelope(m, c) /\ m.seq = n) => n <= sequence
  BY DEF CommandsOrdered
<1> QED
  BY <1>0, <1>1, <1>2, <1>3 DEF Unprocessed
\* The parent keeps the barriers before what is not processed.
LEMMA ParentHolds ==
  ASSUME ParentKept
  PROVE  BarriersHold'
<1> SUFFICES ASSUME failure' = "none", NEW c \in Connections, (Active(c))', NEW n \in Nat, (Unprocessed(n, c))'
             PROVE  (Barred(n, c))'
  BY DEF BarriersHold
<1>0. /\ TypeInv /\ CommandsOrdered /\ BindingInv /\ ParentBinds /\ childAlive /\ EnvelopesInOrder
      /\ commands \in Seq(Command) /\ results \in Seq(Result)
      /\ sequence \in Nat /\ last \in Nat /\ conn[c].barrier \in Nat
      /\ \A d \in Connections : \A x : Carries(d, x)' <=> Carries(d, x)
      /\ Items(results)' \subseteq Items(results) /\ Items(results)' = Items(results')
  BY ParentOrder, BindingTypes DEF ParentKept, BindingInv, Items
<1>1. failure = "none" /\ Active(c) /\ BarrierMoves(c)
  BY <1>0 DEF ParentBinds
<1>2. Unprocessed(n, c) => n <= sequence
  BY <1>0, UnprocessedBounded
<1>3. Unprocessed(n, c) => Barred(n, c)
  BY <1>0, <1>1 DEF BindingInv, BarriersHold
<1>4. \/ Carries(c, n)
      \/ \E r \in Items(results') : Processes(r, c) /\ r.n = n
      \/ \E m \in Items(commands)' : Envelope(m, c) /\ m.seq = n
  BY <1>0 DEF Unprocessed, Processes, Envelope
<1>5. CASE /\ conn'[c].barrier = sequence + 1 /\ <<c, sequence + 1>> \in barriers'
  <2>1. \A m \in Items(commands)' : m \in Items(commands) \/ m.seq = sequence + 1
    BY ParentNew
  <2>2. Unprocessed(n, c) \/ n = sequence + 1
    BY <1>0, <1>4, <2>1 DEF Unprocessed
  <2> QED
    BY <1>0, <1>2, <1>5, <2>2 DEF Barred
<1>6. CASE /\ conn'[c].barrier = conn[c].barrier
           /\ <<c, conn[c].barrier>> \in barriers => <<c, conn[c].barrier>> \in barriers' \/ Resumes(c)
           /\ \A m \in Items(commands)' : Envelope(m, c) => m \in Items(commands)
  <2>1. Unprocessed(n, c)
    BY <1>0, <1>4, <1>6 DEF Unprocessed
  <2>2. Barred(n, c)
    BY <1>3, <2>1
  <2>3. ASSUME Resumes(c)
        PROVE  FALSE
    <3> DEFINE h == Head(results)
    <3>1. results # <<>> /\ results' = Tail(results) /\ Processes(h, c) /\ h.n = conn[c].barrier /\ n <= h.n
      BY <2>2, <2>3 DEF Resumes, TakesReport, Barred
    <3>2. h \in Items(results)
      BY <1>0, <3>1, ItemsOf
    <3>3. WorkInOrder(c) /\ InOrder(results)
      BY <1>0 DEF EnvelopesInOrder
    <3>4. h.n \in Nat /\ h.n <= last /\ ~Carries(c, n)
      BY <1>0, <3>1, <3>2, <3>3 DEF WorkInOrder
    <3>5. \A r \in Items(results') : Processes(r, c) => h.n < r.n
      BY <1>0, <3>1, <3>3, TailInOrder
    <3>6. \A m \in Items(commands)' : Envelope(m, c) => last < m.seq
      BY <1>0, <1>6 DEF CommandsOrdered
    <3> HIDE DEF h
    <3> QED
      BY <1>0, <1>4, <3>1, <3>4, <3>5, <3>6
  <2> QED
    BY <1>6, <2>2, <2>3 DEF Barred
<1> QED
  BY <1>1, <1>5, <1>6 DEF BarrierMoves
\* A request passes only when nothing of its connection is unprocessed.
LEMMA PassesAlone ==
  ASSUME ParentKept, NEW m, m \in Command, Passes(m)
  PROVE  /\ chan[m.c].current = 0 /\ chan[m.c].inbox = <<>>
         /\ \A e \in Items(commands) : ~Envelope(e, m.c)
         /\ chan[m.c].at # "gone" /\ ~chan[m.c].revoked => m.rev = chan[m.c].rev
<1> DEFINE c == m.c
<1>0. /\ TypeInv /\ BindingInv /\ FenceInv /\ childAlive
      /\ c \in Connections /\ chan[c].current \in Nat /\ chan[c].inbox \in Seq(Nat) /\ Items(chan[c].inbox) \subseteq Nat
      /\ Items(commands) \subseteq Command /\ \A k \in Command : k.seq \in Nat
      /\ conn[c].rev \in Nat /\ chan[c].rev \in Nat /\ chan[c].synced \in Nat
  BY ParentOrder, BindingTypes DEF ParentKept
<1> HIDE DEF c
<1>1. Active(c) /\ failure = "none" /\ <<c, conn[c].barrier>> \notin barriers /\ m.rev = conn[c].rev
  BY DEF Passes, c
<1>2. \A n \in Nat : ~Unprocessed(n, c)
  BY <1>0, <1>1 DEF BindingInv, BarriersHold, Barred
<1>3. chan[c].current = 0
  BY <1>0, <1>2 DEF Unprocessed, Carries
<1>4. chan[c].inbox = <<>>
  <2>1. chan[c].inbox # <<>> => Head(chan[c].inbox) \in Items(chan[c].inbox)
    BY <1>0, ItemsOf
  <2> QED
    BY <1>0, <1>2, <2>1 DEF Unprocessed, Carries
<1>5. \A e \in Items(commands) : ~Envelope(e, c)
  BY <1>0, <1>2 DEF Unprocessed
<1>6. ASSUME chan[c].at # "gone", ~chan[c].revoked
      PROVE  m.rev = chan[c].rev
  <2>1. chan[c].synced = chan[c].rev
    BY <1>0, <1>3, <1>6 DEF BindingInv, SessionsPlaced, InFlight, Settles
  <2>2. chan[c].synced <= conn[c].rev /\ conn[c].rev <= chan[c].rev
    BY <1>0, <1>6 DEF FenceInv, BindingInv, RevisionsBehind, Behind
  <2> QED
    BY <1>0, <1>1, <2>1, <2>2
<1> QED
  BY <1>3, <1>4, <1>5, <1>6 DEF c
\* The parent keeps the requests apart from the envelopes, and their revision.
LEMMA ParentWaits ==
  ASSUME ParentKept
  PROVE  RequestsWait' /\ RevisionKept'
<1>0. /\ TypeInv /\ CommandsOrdered /\ BindingInv /\ childAlive /\ UNCHANGED <<chan, syncs, admitted>>
      /\ sequence \in Nat /\ Items(commands) \subseteq Command
  BY ParentOrder, BindingTypes DEF ParentKept
<1>1. ASSUME NEW c \in Connections
      PROVE  NoneBehind(c) /\ (chan[c].at = "ownerWait" => admitted[c] = <<>>) /\ SameRev(c)
  BY <1>0 DEF BindingInv, RequestsWait, RevisionKept
<1>2. ASSUME NEW c \in Connections
      PROVE  /\ NoneBehind(c)'
             /\ chan[c].at # "gone" /\ ~chan[c].revoked =>
                   \A m \in Items(commands)' : Requested(m, c) => m.rev = chan[c].rev
  <2>1. CASE Items(commands)' = Items(commands)
    BY <1>0, <1>1, <2>1 DEF NoneBehind, SameRev, Requested, Envelope
  <2>2. ASSUME NEW m, Items(commands)' = Items(commands) \cup {m}, m \in Command,
               m.seq = sequence + 1, m.op = "enqueue" => Passes(m)
        PROVE  /\ NoneBehind(c)'
               /\ chan[c].at # "gone" /\ ~chan[c].revoked =>
                     \A k \in Items(commands)' : Requested(k, c) => k.rev = chan[c].rev
    <3>1. Requested(m, c) => /\ chan[c].current = 0 /\ chan[c].inbox = <<>>
                             /\ \A e \in Items(commands) : ~Envelope(e, c)
                             /\ chan[c].at # "gone" /\ ~chan[c].revoked => m.rev = chan[c].rev
      BY <2>2, PassesAlone DEF Requested
    <3>2. \A k \in Items(commands) : k.seq < m.seq
      BY <1>0, <2>2 DEF CommandsOrdered, Command
    <3>3. Requested(m, c) => ~Envelope(m, c)
      BY DEF Requested, Envelope
    <3> QED
      BY <1>0, <1>1, <2>2, <3>1, <3>2, <3>3 DEF NoneBehind, SameRev, Requested, Envelope
  <2> QED
    BY <2>1, <2>2, ParentNew
<1>3. RequestsWait'
  BY <1>0, <1>1, <1>2 DEF RequestsWait
<1>4. RevisionKept'
  <2>1. ASSUME NEW c \in Connections PROVE SameRev(c)'
    <3>1. Items(admitted[c])' = Items(admitted[c])
      BY <1>0 DEF Items
    <3> QED
      BY <1>0, <1>1, <1>2, <3>1 DEF SameRev, Requested
  <2> QED
    BY <2>1 DEF RevisionKept
<1> QED
  BY <1>3, <1>4

------------------------------------------------------------------------------
\* The child's steps on the sessions.  Most leave the revision and what is known
\* of it alone, and move a session only towards its end or to its next wait.
Placed(d) == WorkPlaced(d) /\ InFlight(d)
Endings == {"pumpWait", "unbinding", "waiting", "finalizing"}
FewerSyncs(d) ==
    /\ Len(syncs'[d]) <= Len(syncs[d])
    /\ syncs'[d] # <<>> => syncs[d] # <<>> /\ Head(syncs'[d]).n = Head(syncs[d]).n
QuietSession(d) ==
    /\ SameRevision(d) /\ chan'[d].synced = chan[d].synced /\ SameAwaits(d)
    /\ chan'[d].current = chan[d].current
    /\ chan'[d].inbox = chan[d].inbox \/ ~Away(d)
    /\ FewerSyncs(d)
    /\ \/ chan'[d].at = chan[d].at
       \/ ~Away(d) /\ chan'[d].at \in Endings
       \/ chan[d].at = "none" /\ chan'[d].at = "receive"
       \/ chan[d].at = "join" /\ chan'[d].at = "ownerWait"
\* Such a step keeps the session placed.
LEMMA QuietPlaced ==
  ASSUME TypeInv, TypeInv', NEW d \in Connections, Placed(d), QuietSession(d)
  PROVE  Placed(d)'
<1>0. /\ syncs[d] \in Seq(Sync) /\ syncs'[d] \in Seq(Sync) /\ Len(syncs[d]) \in Nat /\ Len(syncs'[d]) \in Nat
  BY BindingTypes DEF TypeInv, ChildType
<1>1. WorkPlaced(d)'
  BY DEF Placed, WorkPlaced, QuietSession, Away, Endings, Works
<1>2. InFlight(d)'
  <2> SUFFICES ASSUME ~chan'[d].revoked
               PROVE  /\ Len(syncs'[d]) <= 1
                      /\ syncs'[d] # <<>> => Head(syncs'[d]).n = chan'[d].rev /\ chan'[d].synced < chan'[d].rev
                      /\ chan'[d].synced <= chan'[d].rev
                      /\ chan'[d].at = "sync" => chan'[d].awaits = chan'[d].rev
                      /\ (Settles(d))' => chan'[d].synced = chan'[d].rev
    BY DEF InFlight
  <2>1. ~chan[d].revoked /\ chan'[d].rev = chan[d].rev /\ chan'[d].synced = chan[d].synced /\ chan'[d].awaits = chan[d].awaits
    BY DEF QuietSession, SameRevision, SameAwaits
  <2>2. /\ Len(syncs[d]) <= 1
        /\ syncs[d] # <<>> => Head(syncs[d]).n = chan[d].rev /\ chan[d].synced < chan[d].rev
        /\ chan[d].synced <= chan[d].rev
        /\ chan[d].at = "sync" => chan[d].awaits = chan[d].rev
        /\ Settles(d) => chan[d].synced = chan[d].rev
    BY <2>1 DEF Placed, InFlight
  <2>3. /\ Len(syncs'[d]) <= 1
        /\ syncs'[d] # <<>> => Head(syncs'[d]).n = chan'[d].rev /\ chan'[d].synced < chan'[d].rev
    BY <1>0, <2>1, <2>2 DEF QuietSession, FewerSyncs
  <2>4. chan'[d].at = "sync" => chan[d].at = "sync"
    BY DEF QuietSession, Endings
  <2>5. (Settles(d))' => Settles(d)
    BY DEF QuietSession, Endings, Settles, Away
  <2> QED
    BY <2>1, <2>2, <2>3, <2>4, <2>5
<1> QED
  BY <1>1, <1>2 DEF Placed
\* A step that leaves the publications of a session alone, or drops some.
LEMMA SameSyncs ==
  ASSUME TypeInv, NEW d \in Connections, syncs'[d] = syncs[d]
  PROVE  FewerSyncs(d)
<1>1. Len(syncs[d]) \in Nat
  BY BindingTypes
<1> QED
  BY <1>1 DEF FewerSyncs
\* Cancelling a publication drops it and those behind it.
LEMMA DropSyncs ==
  ASSUME TypeInv, NEW c \in Connections, NEW n \in Nat, syncs' = [syncs EXCEPT ![c] = Before(c, n)],
         NEW d \in Connections
  PROVE  FewerSyncs(d)
<1>0. syncs \in [Connections -> Seq(Sync)]
  BY DEF TypeInv, ChildType
<1>1. CASE d # c
  BY <1>0, <1>1, SameSyncs
<1>2. CASE d = c
  <2>1. PICK k \in 0..Len(syncs[c]) : Before(c, n) = SubSeq(syncs[c], 1, k)
    BY <1>0, BeforeIsPrefix
  <2>2. syncs[c] \in Seq(Sync) /\ Len(syncs[c]) \in Nat /\ k \in Nat /\ k <= Len(syncs[c]) /\ syncs'[c] = SubSeq(syncs[c], 1, k)
    BY <1>0, <2>1
  <2> DEFINE s == syncs[c]
             t == SubSeq(s, 1, k)
  <2>3. t \in Seq(Sync) /\ Len(t) = k /\ \A i \in 1..k : t[i] = s[i]
    BY <2>2
  <2>4. t # <<>> => k >= 1 /\ Head(t) = t[1] /\ t[1] = s[1] /\ s # <<>> /\ Head(s) = s[1]
    BY <2>2, <2>3
  <2>5. Len(t) <= Len(s) /\ (t # <<>> => s # <<>> /\ Head(t).n = Head(s).n)
    BY <2>2, <2>3, <2>4
  <2>6. syncs'[d] = t /\ syncs[d] = s
    BY <1>2, <2>2
  <2> HIDE DEF s, t
  <2> QED
    BY <2>5, <2>6 DEF FewerSyncs
<1> QED
  BY <1>1, <1>2
\* Cancelling a session.
LEMMA CancelQuiet ==
  ASSUME TypeInv, NEW c \in Connections, Cancel(c), NEW d \in Connections
  PROVE  QuietSession(d)
<1> DEFINE ch == [chan[c] EXCEPT !.disconnecting = TRUE]
<1>0. \A e \in Connections : chan[e].awaits \in Nat /\ chan[e].rev \in Nat /\ syncs[e] \in Seq(Sync)
  BY BindingTypes
<1>1. CASE CancelLoop(c, ch)
  <2>1. chan[c].at \in {"receive", "join", "ownerWait", "send"} /\ UNCHANGED syncs
    BY <1>1, Zenon DEF CancelLoop
  <2>2. FewerSyncs(d)
    BY <2>1, SameSyncs
  <2> QED
    BY <1>1, <2>1, <2>2, CancelLoopChan DEF QuietSession, Endings, Away, SameSynced, SameWork
<1>2. CASE CancelSync(c, ch)
  <2>1. chan[c].at = "sync" /\ CancelPublication(c, chan[c].awaits, Finally(c, ch))
    BY <1>2, Zenon DEF CancelSync
  <2>2. syncs' = [syncs EXCEPT ![c] = Before(c, chan[c].awaits)]
    BY <2>1, Zenon DEF CancelPublication
  <2>3. FewerSyncs(d)
    BY <1>0, <2>2, DropSyncs
  <2> QED
    BY <1>2, <2>1, <2>3, CancelSyncChan DEF QuietSession, Endings, Away, SameWork
<1>3. CASE CancelUnbind(c, ch)
  <2>1. chan[c].at = "unbinding" /\ UNCHANGED syncs
    BY <1>3, Zenon DEF CancelUnbind
  <2>2. FewerSyncs(d)
    BY <2>1, SameSyncs
  <2> QED
    BY <1>3, <2>1, <2>2, CancelUnbindChan DEF QuietSession, Endings, Away, SameSynced, SameWork
<1>4. CASE CancelPumpWait(c, ch)
  <2>1. chan[c].at = "pumpWait" /\ UNCHANGED syncs
    BY <1>4, Zenon DEF CancelPumpWait
  <2>2. FewerSyncs(d)
    BY <2>1, SameSyncs
  <2> QED
    BY <1>4, <2>1, <2>2, CancelPumpWaitChan DEF QuietSession, Endings, Away, SameSynced, SameWork
<1>5. CASE CancelWaiting(c, ch)
  <2>1. chan[c].at = "waiting"
    BY <1>5, Zenon DEF CancelWaiting
  <2>2. PICK n \in (IF CloseSync(c) = {} THEN {chan[c].rev + 1} ELSE CloseSync(c)) :
             CancelPublication(c, n, [ch EXCEPT !.at = "finalizing"])
    BY <1>5, Zenon DEF CancelWaiting
  <2>3. n \in Nat
    <3>1. CloseSync(c) \subseteq Nat
      <4>1. \A i \in DOMAIN syncs[c] : syncs[c][i] \in Sync
        BY <1>0
      <4>2. \A i \in DOMAIN syncs[c] : syncs[c][i].n \in Nat
        BY <4>1 DEF Sync
      <4> QED
        BY <4>2 DEF CloseSync
    <3> QED
      BY <1>0, <2>2, <3>1
  <2>4. syncs' = [syncs EXCEPT ![c] = Before(c, n)]
    BY <2>2, Zenon DEF CancelPublication
  <2>5. FewerSyncs(d)
    BY <2>3, <2>4, DropSyncs
  <2> QED
    BY <2>1, <2>2, <2>5, CancelPublicationChan DEF QuietSession, Endings, Away, SameWork
<1> HIDE DEF ch
<1> QED
  BY <1>1, <1>2, <1>3, <1>4, <1>5, Zenon DEF Cancel, ch

\* A session the step does not touch.
Untouched(d) ==
    /\ SamePlace(d) /\ SameWork(d) /\ SameRevision(d) /\ SameAwaits(d)
    /\ chan'[d].synced = chan[d].synced /\ syncs'[d] = syncs[d]
\* So does a step that leaves it untouched.
LEMMA UntouchedPlaced ==
  ASSUME TypeInv, TypeInv', NEW d \in Connections, Placed(d), Untouched(d)
  PROVE  Placed(d)'
<1>1. FewerSyncs(d)
  BY SameSyncs DEF Untouched
<1>2. QuietSession(d)
  BY <1>1 DEF QuietSession, Untouched, SamePlace, SameWork
<1> QED
  BY <1>2, QuietPlaced
\* A session that is revoked has its close published; its binding is over.
LEMMA RequestClosePlaced ==
  ASSUME TypeInv, TypeInv', NEW c \in Connections, RequestClose(c), NEW d \in Connections, Placed(d)
  PROVE  Placed(d)'
<1>1. d # c => syncs'[d] = syncs[d]
  BY DEF RequestClose, TypeInv, ChildType
<1>2. CASE d # c
  <2>1. /\ SamePlace(d) /\ SameWork(d) /\ SameAwaits(d) /\ SameSynced(d)
        /\ chan'[d].rev = chan[d].rev /\ chan'[d].bound = chan[d].bound /\ (chan'[d].revoked <=> chan[d].revoked)
    BY <1>2, RequestCloseChan
  <2>2. chan[d].revoked \in BOOLEAN /\ chan'[d].revoked \in BOOLEAN
    BY DEF TypeInv, ChildType, ChanType
  <2>3. Untouched(d)
    BY <1>1, <1>2, <2>1, <2>2 DEF Untouched, SameRevision, SameSynced
  <2> QED
    BY <2>3, UntouchedPlaced
<1>3. CASE d = c
  <2>1. chan'[d].revoked /\ SamePlace(d) /\ SameWork(d)
    BY <1>3, RequestCloseChan
  <2> QED
    BY <2>1 DEF Placed, WorkPlaced, InFlight, SamePlace, SameWork, Away
<1> QED
  BY <1>2, <1>3
\* The end of a send: after the answer, the session waits for the next envelope.
LEMMA SendOverPlaced ==
  ASSUME TypeInv, TypeInv', MessagesPlaced, NEW c \in Connections, NEW sent \in BOOLEAN, SendOver(c, sent),
         NEW d \in Connections, Placed(d)
  PROVE  Placed(d)'
<1>1. \/ sending[c].kind = "message" /\ MessageSent(c)
      \/ sending[c].kind = "message" /\ MessageLost(c)
      \/ UNCHANGED <<chan, syncs>>
      \/ RequestClose(c)
      \/ RevokedOver(c, sent)
  BY Zenon DEF SendOver, CompletionLost
<1>2. UNCHANGED syncs => FewerSyncs(d)
  BY SameSyncs
<1>3. CASE sending[c].kind = "message" /\ MessageSent(c)
  <2>1. UNCHANGED syncs /\ chan[c].at = "send"
    BY <1>3, Zenon DEF MessageSent, MessagesPlaced
  <2>2. CASE d # c
    <3>1. QuietSession(d)
      BY <1>2, <1>3, <2>1, <2>2, MessageSentChan DEF QuietSession, SameSynced
    <3> QED
      BY <3>1, QuietPlaced
  <2>3. CASE d = c
    <3>1. /\ chan'[d].at = "receive" /\ chan'[d].current = 0 /\ syncs'[d] = syncs[d]
          /\ SameRevision(d) /\ SameSynced(d)
      BY <1>3, <2>1, <2>3, MessageSentChan
    <3>2. WorkPlaced(d)'
      BY <3>1 DEF WorkPlaced, Works, Away
    <3>3. Settles(d)
      BY <2>1, <2>3 DEF Settles
    <3>4. InFlight(d)'
      BY <3>1, <3>3 DEF Placed, InFlight, SameRevision, SameSynced
    <3> QED
      BY <3>2, <3>4 DEF Placed
  <2> QED
    BY <2>2, <2>3
<1>4. CASE sending[c].kind = "message" /\ MessageLost(c)
  <2>1. UNCHANGED syncs /\ chan[c].at = "send"
    BY <1>4, Zenon DEF MessageLost, MessagesPlaced
  <2>2. QuietSession(d)
    BY <1>2, <1>4, <2>1, MessageLostChan DEF QuietSession, SameSynced, SameWork, Endings, Away
  <2> QED
    BY <2>2, QuietPlaced
<1>5. CASE UNCHANGED <<chan, syncs>>
  BY <1>5 DEF Placed, WorkPlaced, InFlight, Settles, Away
<1>6. CASE RequestClose(c)
  BY <1>6, RequestClosePlaced
<1>7. CASE RevokedOver(c, sent)
  <2>1. UNCHANGED syncs
    BY <1>7, Zenon DEF RevokedOver
  <2>2. QuietSession(d)
    BY <1>2, <1>7, <2>1, RevokedOverChan DEF QuietSession, SameSynced, SameWork, SamePlace
  <2> QED
    BY <2>2, QuietPlaced
<1> QED
  BY <1>1, <1>3, <1>4, <1>5, <1>6, <1>7
\* The call of an envelope: the session rebinds with nothing in flight, or keeps
\* its binding.
LEMMA RebindPlaced ==
  ASSUME TypeInv, TypeInv', NEW c \in Connections, chan[c].at = "ownerWait", Rebind(c),
         NEW d \in Connections, Placed(d)
  PROVE  Placed(d)'
<1> DEFINE ch == [chan[c] EXCEPT !.at = "sync", !.rev = @ + 1, !.awaits = chan[c].rev + 1, !.bound = TRUE]
           s == [n |-> ch.rev, bound |-> ch.bound, revoked |-> ch.revoked, close |-> FALSE, out |-> FALSE]
<1>0. /\ syncs \in [Connections -> Seq(Sync)] /\ chan[c].rev \in Nat /\ chan[c].synced \in Nat /\ ChanType
      /\ syncs[d] \in Seq(Sync)
  BY BindingTypes DEF TypeInv, ChildType
<1>1. syncs' = [syncs EXCEPT ![c] = IF ch.syncLost THEN syncs[c] ELSE Append(syncs[c], s)]
  BY DEF Rebind, Synced
<1>2. ch.rev = chan[c].rev + 1 /\ s.n = ch.rev
  BY <1>0 DEF ChanType, ChanFields
<1> HIDE DEF ch, s
<1>3. CASE d # c
  <2>1. /\ chan'[d].at = chan[d].at /\ SameWork(d) /\ SameAwaits(d) /\ SameSynced(d)
        /\ chan'[d].rev = chan[d].rev /\ (chan'[d].bound <=> chan[d].bound) /\ chan'[d].revoked = chan[d].revoked
    BY <1>3, RebindChan DEF SameAwaits
  <2>2. chan[d].bound \in BOOLEAN /\ chan'[d].bound \in BOOLEAN
    BY DEF TypeInv, ChildType, ChanType
  <2>3. Untouched(d)
    BY <1>0, <1>1, <1>3, <2>1, <2>2 DEF Untouched, SameRevision, SameSynced, SamePlace
  <2> QED
    BY <2>3, UntouchedPlaced
<1>4. CASE d = c
  <2>1. /\ chan'[d].at = "sync" /\ SameWork(d) /\ chan'[d].awaits = chan[d].rev + 1 /\ chan'[d].rev = chan[d].rev + 1
        /\ chan'[d].revoked = chan[d].revoked /\ chan'[d].synced = chan[d].synced
    BY <1>4, RebindChan DEF SameSynced
  <2>2. WorkPlaced(d)'
    BY <1>4, <2>1 DEF Placed, WorkPlaced, Works, Away, SameWork
  <2>3. chan[d].current # 0
    BY <1>4 DEF Placed, WorkPlaced, Works
  <2>4. InFlight(d)'
    <3> SUFFICES ASSUME ~chan'[d].revoked
                 PROVE  InFlight(d)'
      BY DEF InFlight
    <3>1. chan[d].synced = chan[d].rev /\ syncs[d] = <<>>
      BY <1>0, <1>4, <2>1 DEF Placed, InFlight, Settles
    <3>2. syncs'[d] = <<>> \/ syncs'[d] = <<s>>
      BY <1>0, <1>1, <1>4, <3>1
    <3>3. Len(syncs'[d]) <= 1 /\ (syncs'[d] # <<>> => Head(syncs'[d]) = s)
      <4>1. Len(<<>>) = 0 /\ Len(<<s>>) = 1 /\ Head(<<s>>) = s
        OBVIOUS
      <4> DEFINE t == syncs'[d]
      <4>2. t = <<>> \/ t = <<s>>
        BY <3>2
      <4> HIDE DEF t
      <4>3. CASE t = <<>>
        <5>1. Len(t) = 0
          BY <4>1, <4>3
        <5> QED
          BY <4>3, <5>1 DEF t
      <4>4. CASE t = <<s>>
        <5>1. Len(t) = 1 /\ Head(t) = s
          BY <4>1, <4>4
        <5> QED
          BY <5>1 DEF t
      <4> QED
        BY <4>2, <4>3, <4>4
    <3>4. ~(Settles(d))'
      BY <2>1, <2>3 DEF Settles, SameWork
    <3> QED
      BY <1>0, <1>2, <1>4, <2>1, <3>1, <3>3, <3>4 DEF InFlight
  <2> QED
    BY <2>2, <2>4 DEF Placed
<1> QED
  BY <1>3, <1>4
\* The case of a session that keeps its binding.
LEMMA KeepBindingPlaced ==
  ASSUME TypeInv, TypeInv', NEW c \in Connections, chan[c].at = "ownerWait", KeepBinding(c),
         NEW d \in Connections, Placed(d)
  PROVE  Placed(d)'
<1>1. syncs'[d] = syncs[d] /\ UNCHANGED syncs
  BY DEF KeepBinding
<1>2. CASE d # c
  <2>1. chan'[d].at = chan[d].at /\ SameWork(d) /\ SameAwaits(d) /\ SameSynced(d) /\ SameRevision(d)
    BY <1>2, KeepBindingChan DEF SameAwaits
  <2>2. Untouched(d)
    BY <1>1, <2>1 DEF Untouched, SameSynced, SamePlace
  <2> QED
    BY <2>2, UntouchedPlaced
<1>3. CASE d = c
  <2>1. /\ chan'[d].at = "sync" /\ SameWork(d) /\ chan'[d].awaits = chan[d].rev /\ SameRevision(d) /\ SameSynced(d)
    BY <1>3, KeepBindingChan
  <2>2. WorkPlaced(d)'
    BY <1>3, <2>1 DEF Placed, WorkPlaced, Works, Away, SameWork
  <2>3. Settles(d)
    BY <1>3 DEF Settles
  <2>4. InFlight(d)'
    BY <1>1, <2>1, <2>3 DEF Placed, InFlight, SameRevision, SameSynced
  <2> QED
    BY <2>2, <2>4 DEF Placed
<1> QED
  BY <1>2, <1>3

\* Steps that leave the sessions and their publications alone.
LEMMA UnchangedPlaced ==
  ASSUME NEW d \in Connections, Placed(d), UNCHANGED <<chan, syncs>>
  PROVE  Placed(d)'
BY DEF Placed, WorkPlaced, InFlight, Settles, Away
\* What the owner thread ends.
LEMMA OwnerRunPlaced ==
  ASSUME TypeInv, TypeInv', OwnerRun, NEW d \in Connections, Placed(d)
  PROVE  Placed(d)'
<1> DEFINE m == Head(owner)
<1>1. m.c \in Connections
  <2>1. m \in Work
    BY OwnerRunTypes
  <2> QED
    BY <2>1 DEF Work
<1>2. \/ EndCommand(m.c, m.seq) \/ EndEnvelope(m.c, m.seq) \/ EndUnbind(m.c) \/ EndForNobody(m.c, m.what, m.seq)
  BY Zenon DEF OwnerRun
<1> HIDE DEF m
<1>3. CASE EndCommand(m.c, m.seq)
  BY <1>3, UnchangedPlaced DEF EndCommand
<1>4. CASE EndEnvelope(m.c, m.seq)
  <2>1. chan[m.c].at = "ownerWait" /\ (Rebind(m.c) \/ KeepBinding(m.c))
    BY <1>4, Zenon DEF EndEnvelope, AwaitsOwner
  <2> QED
    BY <1>1, <2>1, RebindPlaced, KeepBindingPlaced
<1>5. CASE EndUnbind(m.c)
  <2>1. chan[m.c].at = "unbinding" /\ UNCHANGED syncs
    BY <1>5, Zenon DEF EndUnbind
  <2>2. /\ SameWork(d) /\ SameRevision(d) /\ SameSynced(d) /\ SameAwaits(d)
        /\ chan'[d].at = chan[d].at \/ (chan[d].at = "unbinding" /\ chan'[d].at = "waiting")
    BY <1>1, <1>5, <2>1, EndUnbindChan
  <2>3. FewerSyncs(d)
    BY <2>1, SameSyncs
  <2>4. QuietSession(d)
    BY <2>2, <2>3 DEF QuietSession, SameSynced, SameWork, Endings, Away
  <2> QED
    BY <2>4, QuietPlaced
<1>6. CASE EndForNobody(m.c, m.what, m.seq)
  <2>1. UNCHANGED syncs
    BY <1>6, Zenon DEF EndForNobody
  <2>2. SamePlace(d) /\ SameWork(d) /\ SameRevision(d) /\ SameSynced(d) /\ SameAwaits(d)
    BY <1>1, <1>6, EndForNobodyChan
  <2>3. Untouched(d)
    BY <2>1, <2>2 DEF Untouched, SameSynced
  <2> QED
    BY <2>3, UntouchedPlaced
<1> QED
  BY <1>2, <1>3, <1>4, <1>5, <1>6
\* The session takes its next envelope: all before it are settled.
LEMMA TakeEnvelopePlaced ==
  ASSUME TypeInv, TypeInv', NEW c \in Connections, TakeEnvelope(c), WorkInOrder(c),
         NEW d \in Connections, Placed(d)
  PROVE  Placed(d)'
<1>0. /\ chan[c].at = "receive" /\ chan[c].inbox # <<>> /\ UNCHANGED syncs /\ chan[c].inbox \in Seq(Nat)
      /\ chan[c].rev \in Nat /\ chan[c].synced \in Nat
  BY BindingTypes DEF TakeEnvelope
<1>1. /\ SameAwaits(d) /\ SameRevision(d) /\ SameSynced(d)
      /\ chan'[d].at = IF d = c /\ ~chan[c].revoked THEN "join" ELSE chan[d].at
      /\ chan'[d].current = IF d = c /\ ~chan[c].revoked THEN Head(chan[d].inbox) ELSE chan[d].current
      /\ chan'[d].inbox = IF d = c THEN Tail(chan[d].inbox) ELSE chan[d].inbox
  BY TakeEnvelopeChan
<1>2. FewerSyncs(d)
  BY <1>0, SameSyncs
<1>3. CASE d # c \/ chan[c].revoked
  <2>1. QuietSession(d)
    BY <1>0, <1>1, <1>2, <1>3 DEF QuietSession, SameSynced, Away
  <2> QED
    BY <2>1, QuietPlaced
<1>4. CASE d = c /\ ~chan[c].revoked
  <2>1. Head(chan[c].inbox) # 0
    BY <1>0, ItemsOf DEF WorkInOrder
  <2>2. chan'[d].at = "join" /\ chan'[d].current # 0 /\ syncs'[d] = syncs[d]
    BY <1>0, <1>1, <1>4, <2>1
  <2>3. WorkPlaced(d)'
    BY <2>2 DEF WorkPlaced, Works, Away
  <2>4. Settles(d)
    BY <1>0, <1>4 DEF Settles
  <2>5. InFlight(d)'
    BY <1>1, <2>2, <2>4 DEF Placed, InFlight, SameRevision, SameSynced
  <2> QED
    BY <2>3, <2>5 DEF Placed
<1> QED
  BY <1>3, <1>4
\* The other steps of a session.
LEMMA SessionPlaced ==
  ASSUME TypeInv, TypeInv', NEW c \in Connections, NEW d \in Connections, Placed(d),
         \/ CallOwner(c) \/ AfterSync(c) \/ CloseSession(c) \/ EndSession(c) \/ PumpStopped(c) \/ FinishConnection(c)
  PROVE  Placed(d)'
<1>0. UNCHANGED syncs
  BY DEF CallOwner, AfterSync, CloseSession, EndSession, PumpStopped, FinishConnection
<1>1. FewerSyncs(d)
  BY <1>0, SameSyncs
<1>2. CASE CallOwner(c)
  <2>1. /\ SameWork(d) /\ SameAwaits(d) /\ SameRevision(d) /\ SameSynced(d)
        /\ chan'[d].at = chan[d].at \/ (chan[d].at = "join" /\ chan'[d].at = "ownerWait")
    BY <1>2, CallOwnerChan
  <2>2. QuietSession(d)
    BY <1>1, <2>1 DEF QuietSession, SameSynced, SameWork
  <2> QED
    BY <2>2, QuietPlaced
<1>3. CASE AfterSync(c)
  <2>1. /\ SameWork(d) /\ SameAwaits(d) /\ SameRevision(d) /\ SameSynced(d)
        /\ \/ d # c /\ chan'[d].at = chan[d].at
           \/ chan[d].at = "sync" /\ chan'[d].at = "send" /\ chan[d].synced >= chan[d].awaits
           \/ chan[d].at = "sync" /\ chan'[d].at = IF pump[d] = "off" THEN "unbinding" ELSE "pumpWait"
    BY <1>3, AfterSyncChan
  <2>2. CASE chan[d].at = "sync" /\ chan'[d].at = "send" /\ chan[d].synced >= chan[d].awaits
    <3>1. chan'[d].current = chan[d].current /\ syncs'[d] = syncs[d]
      BY <1>0, <2>1 DEF SameWork
    <3>2. WorkPlaced(d)'
      BY <2>2, <3>1 DEF Placed, WorkPlaced, Works, Away
    <3>3. chan[d].synced \in Nat /\ chan[d].rev \in Nat
      BY BindingTypes
    <3>4. ~chan[d].revoked => chan[d].synced = chan[d].rev
      BY <2>2, <3>3 DEF Placed, InFlight
    <3>5. InFlight(d)'
      BY <2>1, <2>2, <3>1, <3>4 DEF Placed, InFlight, SameRevision, SameSynced
    <3> QED
      BY <3>2, <3>5 DEF Placed
  <2>3. CASE \/ d # c /\ chan'[d].at = chan[d].at
             \/ chan[d].at = "sync" /\ chan'[d].at = IF pump[d] = "off" THEN "unbinding" ELSE "pumpWait"
    <3>1. QuietSession(d)
      BY <1>1, <2>1, <2>3 DEF QuietSession, SameSynced, SameWork, Endings, Away
    <3> QED
      BY <3>1, QuietPlaced
  <2> QED
    BY <2>1, <2>2, <2>3
<1>4. CASE CloseSession(c)
  <2>1. SamePlace(d) /\ SameWork(d) /\ SameAwaits(d) /\ SameRevision(d) /\ SameSynced(d)
    BY <1>4, CloseSessionChan
  <2>2. Untouched(d)
    BY <1>0, <2>1 DEF Untouched, SameSynced
  <2> QED
    BY <2>2, UntouchedPlaced
<1>5. CASE EndSession(c)
  <2>1. chan[c].at = "waiting"
    BY <1>5 DEF EndSession
  <2>2. /\ SameWork(d) /\ SameAwaits(d) /\ SameRevision(d) /\ SameSynced(d)
        /\ chan'[d].at = IF d = c THEN "finalizing" ELSE chan[d].at
    BY <1>5, EndSessionChan
  <2>3. QuietSession(d)
    BY <1>1, <2>1, <2>2 DEF QuietSession, SameSynced, SameWork, Endings, Away
  <2> QED
    BY <2>3, QuietPlaced
<1>6. CASE PumpStopped(c)
  <2>1. /\ SameWork(d) /\ SameAwaits(d) /\ SameRevision(d) /\ SameSynced(d)
        /\ chan'[d].at = IF d = c /\ chan[c].at = "pumpWait" THEN "unbinding" ELSE chan[d].at
    BY <1>6, PumpStoppedChan
  <2>2. QuietSession(d)
    BY <1>1, <2>1 DEF QuietSession, SameSynced, SameWork, Endings, Away
  <2> QED
    BY <2>2, QuietPlaced
<1>7. CASE FinishConnection(c)
  <2>1. /\ SameAwaits(d) /\ SameRevision(d) /\ SameSynced(d) /\ syncs'[d] = syncs[d]
        /\ chan'[d].at = IF d = c THEN "gone" ELSE chan[d].at
        /\ chan'[d].current = IF d = c THEN 0 ELSE chan[d].current
        /\ chan'[d].inbox = IF d = c THEN <<>> ELSE chan[d].inbox
    BY <1>0, <1>7, FinishConnectionChan
  <2>2. CASE d = c
    <3>1. WorkPlaced(d)'
      BY <2>1, <2>2 DEF WorkPlaced, Works, Away
    <3>2. InFlight(d)'
      BY <2>1, <2>2 DEF Placed, InFlight, Settles, SameRevision, SameSynced
    <3> QED
      BY <3>1, <3>2 DEF Placed
  <2>3. CASE d # c
    <3>1. Untouched(d)
      BY <2>1, <2>3 DEF Untouched, SameSynced, SamePlace, SameWork
    <3> QED
      BY <3>1, UntouchedPlaced
  <2> QED
    BY <2>2, <2>3
<1> QED
  BY <1>2, <1>3, <1>4, <1>5, <1>6, <1>7

\* A publication leaves with its number.
LEMMA PublishPlaced ==
  ASSUME TypeInv, TypeInv', NEW c \in Connections, PublishBinding(c), NEW d \in Connections, Placed(d)
  PROVE  Placed(d)'
<1>0. /\ syncs \in [Connections -> Seq(Sync)] /\ syncs[c] # <<>> /\ UNCHANGED chan
      /\ syncs' = [syncs EXCEPT ![c][1].out = TRUE]
  BY DEF PublishBinding, TypeInv, ChildType
<1>1. CASE d # c
  <2>1. Untouched(d)
    BY <1>0, <1>1 DEF Untouched, SamePlace, SameWork, SameRevision, SameAwaits
  <2> QED
    BY <2>1, UntouchedPlaced
<1>2. CASE d = c
  <2> DEFINE s == syncs[c]
             t == syncs'[c]
  <2>1. s \in Seq(Sync) /\ s # <<>> /\ t = [s EXCEPT ![1].out = TRUE]
    BY <1>0
  <2> HIDE DEF s, t
  <2>2. Len(s) \in Nat /\ 1 \in 1..Len(s) /\ s[1] \in Sync /\ DOMAIN t = 1..Len(s)
    BY <2>1
  <2>3. t \in Seq(Sync)
    <3>1. syncs'[c] \in Seq(Sync)
      BY DEF TypeInv, ChildType
    <3> QED
      BY <3>1 DEF t
  <2>4. Len(t) = Len(s) /\ Head(t) = t[1] /\ Head(s) = s[1] /\ t[1].n = s[1].n
    BY <2>1, <2>2, <2>3 DEF Sync
  <2>5. FewerSyncs(d)
    <3>1. Len(t) <= Len(s) /\ s # <<>> /\ Head(t).n = Head(s).n
      <4>1. Len(t) <= Len(s)
        BY <2>2, <2>4
      <4>2. s # <<>>
        BY <2>1
      <4>3. Head(t).n = Head(s).n
        BY <2>4
      <4> QED
        BY <4>1, <4>2, <4>3
    <3>2. syncs'[d] = t /\ syncs[d] = s
      BY <1>2 DEF s, t
    <3> QED
      BY <3>1, <3>2 DEF FewerSyncs
  <2>6. QuietSession(d)
    BY <1>0, <2>5 DEF QuietSession, SameRevision, SameAwaits
  <2> QED
    BY <2>6, QuietPlaced
<1> QED
  BY <1>1, <1>2
\* Its receipt settles the revision, or gives the publications up.
LEMMA ReceiptPlaced ==
  ASSUME TypeInv, TypeInv', NEW c \in Connections, NEW n \in Nat, NEW sent \in BOOLEAN,
         PublicationAcked(c, n), ReceiptOfState(c, n, sent), NEW d \in Connections, Placed(d)
  PROVE  Placed(d)'
<1>0. /\ syncs \in [Connections -> Seq(Sync)] /\ syncs[c] # <<>> /\ Head(syncs[c]).n = n
      /\ syncs' = IF sent THEN [syncs EXCEPT ![c] = Tail(@)] ELSE [syncs EXCEPT ![c] = <<>>]
  BY DEF ReceiptOfState, PublicationAcked, TypeInv, ChildType
<1>1. /\ SamePlace(d) /\ SameWork(d) /\ SameAwaits(d) /\ SameRevision(d)
      /\ chan'[d].synced = IF d = c /\ sent THEN n ELSE chan[d].synced
  BY ReceiptOfStateChan
<1>2. CASE d # c
  <2>1. Untouched(d)
    BY <1>0, <1>1, <1>2 DEF Untouched
  <2> QED
    BY <2>1, UntouchedPlaced
<1>3. CASE d = c /\ ~sent
  <2>1. syncs'[d] = <<>> /\ Len(<<>>) = 0 /\ Len(syncs[d]) \in Nat
    BY <1>0, <1>3
  <2>2. FewerSyncs(d)
    BY <2>1 DEF FewerSyncs
  <2>3. QuietSession(d)
    BY <1>1, <1>3, <2>2 DEF QuietSession, SamePlace, SameWork
  <2> QED
    BY <2>3, QuietPlaced
<1>4. CASE d = c /\ sent
  <2>1. WorkPlaced(d)'
    BY <1>1 DEF Placed, WorkPlaced, SamePlace, SameWork, Away
  <2>2. InFlight(d)'
    <3> SUFFICES ASSUME ~chan'[d].revoked
                 PROVE  InFlight(d)'
      BY DEF InFlight
    <3> DEFINE s == syncs[d]
    <3>1. ~chan[d].revoked /\ chan'[d].rev = chan[d].rev /\ chan'[d].awaits = chan[d].awaits /\ chan'[d].at = chan[d].at
      BY <1>1 DEF SameRevision, SameAwaits, SamePlace
    <3>2. Len(s) <= 1 /\ Head(s).n = chan[d].rev /\ (chan[d].at = "sync" => chan[d].awaits = chan[d].rev)
      BY <1>0, <1>4, <3>1 DEF Placed, InFlight
    <3>3. s \in Seq(Sync) /\ s # <<>> /\ syncs'[d] = Tail(s) /\ Head(s).n = n
      BY <1>0, <1>4
    <3> HIDE DEF s
    <3>4. Tail(s) = <<>>
      BY <3>2, <3>3
    <3>5. syncs'[d] = <<>> /\ Len(<<>>) = 0
      BY <3>3, <3>4
    <3>6. chan'[d].synced = chan'[d].rev /\ chan'[d].rev \in Nat
      BY <1>1, <1>4, <3>1, <3>2, <3>3
    <3> QED
      BY <3>1, <3>2, <3>5, <3>6 DEF InFlight
  <2> QED
    BY <2>1, <2>2 DEF Placed
<1> QED
  BY <1>2, <1>3, <1>4
\* A session opens, or is handed an envelope.
LEMMA ReceivePlaced ==
  ASSUME TypeInv, TypeInv', childAlive, BeginsOnce, ReceiveConnect \/ ReceiveEnvelope, NEW d \in Connections, Placed(d)
  PROVE  Placed(d)'
<1>0. UNCHANGED syncs /\ commands # <<>> /\ commands \in Seq(Command)
  BY DEF ReceiveConnect, ReceiveEnvelope, Receiving, TypeInv, ChannelsType
<1>1. FewerSyncs(d)
  BY <1>0, SameSyncs
<1>2. CASE ReceiveConnect
  <2>1. /\ SameWork(d) /\ SameAwaits(d) /\ SameRevision(d) /\ SameSynced(d)
        /\ chan'[d].at = chan[d].at \/ (d = Head(commands).c /\ chan'[d].at = "receive")
    BY <1>2, ReceiveConnectChan
  <2>2. Head(commands) \in Items(commands) /\ Head(commands).op = "connect"
    BY <1>0, <1>2, ItemsOf DEF ReceiveConnect, Receiving
  <2>3. d = Head(commands).c => chan[d].at = "none"
    BY <2>2 DEF BeginsOnce
  <2>4. QuietSession(d)
    BY <1>1, <2>1, <2>3 DEF QuietSession, SameSynced, SameWork
  <2> QED
    BY <2>4, QuietPlaced
<1>3. CASE ReceiveEnvelope
  <2>1. /\ SamePlace(d) /\ chan'[d].current = chan[d].current /\ SameAwaits(d) /\ SameRevision(d) /\ SameSynced(d)
        /\ chan'[d].inbox = IF d = Head(commands).c /\ Exists(d) THEN Append(chan[d].inbox, Head(commands).seq) ELSE chan[d].inbox
    BY <1>3, ReceiveEnvelopeChan
  <2>2. QuietSession(d)
    BY <1>1, <2>1 DEF QuietSession, SameSynced, SamePlace, Exists, Away
  <2> QED
    BY <2>2, QuietPlaced
<1> QED
  BY <1>2, <1>3

\* All the child's steps keep the sessions placed.
LEMMA ChildPlaced ==
  ASSUME TypeInv, TypeInv', ChildStep, BeginsOnce, EnvelopesInOrder, NEW d \in Connections, Placed(d)
  PROVE  Placed(d)'
<1> DEFINE Goal == Placed(d)'
<1>0. SUFFICES Goal
  OBVIOUS
<1>1. MessagesPlaced /\ childAlive /\ \A c \in Connections : WorkInOrder(c)
  BY DEF ChildStep, BeginsOnce, EnvelopesInOrder
<1>2. UNCHANGED <<chan, syncs>> => Goal
  BY UnchangedPlaced
<1>3. ASSUME NEW c \in Connections, Cancel(c)
      PROVE  Goal
  BY <1>3, CancelQuiet, QuietPlaced
<1>4. CASE ReceiveRefused \/ ReceiveEnqueue \/ ControlShutdown \/ StopOwner \/ Stopped
  BY <1>2, <1>4 DEF ReceiveRefused, ReceiveEnqueue, ControlShutdown, StopOwner, Stopped, sessionVars
<1>5. CASE ReceiveConnect \/ ReceiveEnvelope
  BY <1>1, <1>5, ReceivePlaced
<1>6. CASE ControlReceipt
  <2>1. \/ PublicationAcked(Rcpt.id[1], Rcpt.id[3]) /\ ReceiptOfState(Rcpt.id[1], Rcpt.id[3], Rcpt.sent)
        \/ SendOver(Rcpt.id[1], Rcpt.sent)
        \/ UNCHANGED sessionVars
    BY <1>6, Zenon DEF ControlReceipt, Rcpt
  <2>2. Rcpt.id \in Ids /\ Rcpt.sent \in BOOLEAN
    BY <1>6, ControlReceiptTypes
  <2>3. Rcpt.id[1] \in Connections /\ Rcpt.id[3] \in Nat
    BY <2>2 DEF Ids
  <2>4. CASE PublicationAcked(Rcpt.id[1], Rcpt.id[3]) /\ ReceiptOfState(Rcpt.id[1], Rcpt.id[3], Rcpt.sent)
    BY <2>2, <2>3, <2>4, ReceiptPlaced
  <2>5. CASE SendOver(Rcpt.id[1], Rcpt.sent)
    BY <1>1, <2>2, <2>3, <2>5, SendOverPlaced
  <2>6. CASE UNCHANGED sessionVars
    BY <1>2, <2>6 DEF sessionVars
  <2> QED
    BY <2>1, <2>4, <2>5, <2>6
<1>7. CASE ControlDisconnect
  <2>1. Head(controls).c \in Connections
    BY <1>7, ControlDisconnectTypes
  <2>2. Cancel(Head(controls).c) \/ UNCHANGED <<chan, syncs>>
    BY <1>7, Zenon DEF ControlDisconnect
  <2> QED
    BY <1>2, <1>3, <2>1, <2>2
<1>8. CASE OwnerRun
  BY <1>8, OwnerRunPlaced
<1>9. ASSUME NEW c \in Connections, StartSend(c) \/ Withhold(c)
      PROVE  Goal
  BY <1>2, <1>9 DEF StartSend, Withhold
<1>10. ASSUME NEW c \in Connections, TakeEnvelope(c) \/ PublishBinding(c)
       PROVE  Goal
  BY <1>1, <1>10, TakeEnvelopePlaced, PublishPlaced
<1>11. ASSUME NEW c \in Connections,
              \/ CallOwner(c) \/ AfterSync(c) \/ CloseSession(c) \/ EndSession(c) \/ PumpStopped(c) \/ FinishConnection(c)
       PROVE  Goal
  BY <1>11, SessionPlaced
<1>12. ASSUME NEW c \in Connections, PutNotification(c)
       PROVE  Goal
  BY <1>1, <1>2, <1>12, PutNotificationTypes, SendOverPlaced
<1>13. ASSUME NEW c \in Connections, DrainSession(c)
       PROVE  Goal
  BY <1>3, <1>13 DEF DrainSession
<1> HIDE DEF Goal
<1> QED
  BY <1>4, <1>5, <1>6, <1>7, <1>8, <1>9, <1>10, <1>11, <1>12, <1>13, Zenon DEF ChildStep

=============================================================================
