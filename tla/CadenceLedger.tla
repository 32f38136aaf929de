--------------------------- MODULE CadenceLedger ---------------------------
(***************************************************************************)
(* What the publication of population windows promises, without crashes,   *)
(* retries, checkpoints or a bus: windows 1, 2, 3, ... are admitted,       *)
(* delivered and confirmed, one at a time and in this order; a domain      *)
(* message admitted with a window is delivered after that window is        *)
(* confirmed, and before another one is admitted.                          *)
(***************************************************************************)
EXTENDS Naturals

VARIABLES admitted,     \* windows in the cadence stream
          done,         \* windows whose public message is delivered
          confirmed,    \* windows with a durable receipt
          open          \* windows whose domain message is not delivered yet

ledgerVars == <<admitted, done, confirmed, open>>

Init == admitted = {} /\ done = {} /\ confirmed = {} /\ open = {}

(* The next window, once everything before it is confirmed.                 *)
Admit(w) ==
    /\ admitted = confirmed
    /\ w \notin admitted
    /\ \A v \in 1 .. (w - 1) : v \in admitted
    /\ admitted' = admitted \cup {w}
    /\ \/ open' = open
       \/ open = {} /\ open' = {w}
    /\ UNCHANGED <<done, confirmed>>

Deliver(w) ==
    /\ w \notin done
    /\ done' = done \cup {w}
    /\ UNCHANGED <<admitted, confirmed, open>>

Confirm(w) ==
    /\ w \notin confirmed
    /\ confirmed' = confirmed \cup {w}
    /\ UNCHANGED <<admitted, done, open>>

Close(w) ==
    /\ w \in confirmed
    /\ open' = open \ {w}
    /\ UNCHANGED <<admitted, done, confirmed>>

Next ==
    \/ \E w \in admitted' : Admit(w)
    \/ \E w \in admitted : Deliver(w)
    \/ \E w \in done : Confirm(w)
    \/ \E w \in open : Close(w)

Spec == Init /\ [][Next]_ledgerVars
=============================================================================
