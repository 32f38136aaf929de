--------------------------- MODULE RuntimeProcess ---------------------------
(***************************************************************************)
(* The websocket transport of the server: the parent process with its      *)
(* sockets (RuntimeParent), the child with the sessions and the owner      *)
(* thread (RuntimeChild), and the queues between them.                     *)
(***************************************************************************)
EXTENDS RuntimeParent, RuntimeChild

CONSTANT MaxFaults          \* disturbances of a behaviour, all kinds together

VARIABLE faults             \* disturbances so far

vars == <<queues, credit, childAlive, parentVars, childVars, faults>>

Init == ChannelsInit /\ ParentInit /\ ChildInit /\ faults = 0

Parent == ParentStep /\ UNCHANGED <<childVars, faults>>
Child == ChildStep /\ UNCHANGED <<parentVars, faults>>

(* A client goes away, a session is revoked, the child dies or the server is *)
(* closed.                                                                   *)
Disturbance ==
    /\ faults < MaxFaults /\ faults' = faults + 1
    /\ \/ (\E c \in Connections : ClientLost(c)) /\ UNCHANGED childVars
       \/ childAlive /\ (\E c \in Connections : Revoke(c)) /\ UNCHANGED parentVars
       \/ ChildDies /\ UNCHANGED parentVars
       \/ StartClose /\ UNCHANGED childVars

Environment ==
    \/ ClientSends /\ UNCHANGED <<childVars, faults>>
    \/ CloseTimeout /\ ChildLost /\ UNCHANGED faults
    \/ Disturbance

Next == Parent \/ Child \/ Environment

Spec == Init /\ [][Next]_vars

(* Both event loops, the owner thread and the queues' feeder threads run;    *)
(* clients, revocations, the crash, the close and its time limit need not    *)
(* happen.                                                                   *)
FairSpec == Spec /\ WF_vars(Parent \/ Child)

------------------------------------------------------------------------------
TypeOK ==
    /\ sequence \in Nat /\ credit \in 0 .. Capacity /\ last <= sequence
    /\ \A c \in Connections :
          /\ worker[c].at \in {"new", "connecting", "reading", "enveloping", "barrier",
                               "admitting", "failed", "closing", "ended"}
          /\ chan[c].at \in {"none", "receive", "join", "ownerWait", "sync", "send",
                             "pumpWait", "unbinding", "waiting", "finalizing", "gone"}
          /\ pump[c] \in {"off", "on", "stopping"}
    /\ phase \in {"up", "refusing", "draining", "closing", "stopped", "lost"}
    /\ failure \in {"none", "protocol", "exited", "stopped", "unknown"}
    /\ readers \subseteq {"results", "notifications"}

Items(s) == {s[i] : i \in DOMAIN s}

(* Every permit is free, or with a request on its way to the child, or with  *)
(* something the owner thread has not ended: the parent acquires, the child  *)
(* gives back, whatever refuses, disconnects or shuts down in between; a     *)
(* child that stopped leaves none behind.                                    *)
PermitsAccounted ==
    childAlive \/ phase = "stopped" =>
        credit + Cardinality({m \in Items(commands) : m.op = "enqueue"}) + Len(owner) = Capacity

(* A request is executed under the binding it was admitted with: from the    *)
(* parent's table to the end of the command, the session keeps the binding,  *)
(* unless it is revoked or over.                                             *)
BindingKept ==
    \A c \in Connections :
        childAlive /\ Exists(c) /\ ~chan[c].revoked =>
            /\ \A m \in Items(commands) : m.op = "enqueue" /\ m.c = c => m.rev = chan[c].rev
            /\ \A m \in Items(admitted[c]) : m.rev = chan[c].rev

(* What a client reads: a completion only after its accepted admission, at   *)
(* most one each, in the order of the admissions.                            *)
CompletionsInOrder ==
    \A c \in Connections : \A i \in DOMAIN wire[c] :
        wire[c][i].kind = "completion" =>
            /\ \E j \in 1 .. i - 1 : wire[c][j].kind = "admission" /\ wire[c][j].seq = wire[c][i].seq
            /\ \A j \in 1 .. i - 1 : wire[c][j].kind = "completion" => wire[c][j].seq < wire[c][i].seq

(* A websocket that is over leaves no session behind in the child, and none  *)
(* appears later, though the disconnect may overtake the connect.            *)
NoOrphanSession ==
    \A c \in Connections :
        worker[c].at = "ended" /\ failure = "none" /\ childAlive => ~Exists(c)

(* A report of its own child is never what makes the parent fail: as long as *)
(* nothing has failed, the readers find the answer awaited, the revision the *)
(* next and the message new.  (Once the futures are cleared by a failure, an *)
(* answer still queued is taken for an unknown one.)                         *)
NoProtocolFailure == [][failure = "none" => failure' # "protocol"]_vars

(* Once the child knows a revision of the binding to be in force, nothing of *)
(* an older one is written on the socket.                                    *)
FenceHolds ==
    [][\A c \in Connections :
          wire'[c] # wire[c] => wire'[c][Len(wire'[c])].rev >= chan[c].synced]_vars

(* When neither process has anything left to do, nothing is held: every      *)
(* permit is free, every command answered, no request keeps its place in the *)
(* table, nor an envelope of a websocket that lives, and a websocket that is *)
(* lost is over, with its session.                                           *)
Quiet == ~ENABLED (Parent \/ Child)
QuietMeansReleased ==
    childAlive /\ ~closing /\ Quiet =>
        /\ credit = Capacity
        /\ pending = {} /\ Requests = {}
        /\ \A b \in barriers : worker[b[1]].at = "ended"
        /\ \A c \in Connections : conn[c].lost => worker[c].at = "ended" /\ ~Exists(c)
=============================================================================
