----------------------- MODULE PopulationCadenceProofs -----------------------
(***************************************************************************)
(* Proofs about PopulationCadence, for any bounds, subscribers, due        *)
(* windows, checkpoint interval and number of faults: the store implements *)
(* CadenceLedger, every subscriber sees the windows in order, a bus stores *)
(* none of them twice, and the catch-up never counts paused time.          *)
(*                                                                         *)
(* The first two rest on where a call stands: what the publisher read      *)
(* before a step still holds when the step is taken, over failures that    *)
(* leave an effect durable, over retries and over restored processes; the  *)
(* third on what can still be published beside a window that is not        *)
(* delivered; the last on when the origin and the target of a catch-up     *)
(* still mean anything.                                                    *)
(***************************************************************************)
EXTENDS PopulationCadence, FiniteSetTheorems, SequenceTheorems, TLAPS

Newest == Len(log)

\* The cadence stream holds the windows 1, 2, 3, ... at these revisions.
Ordered ==
    /\ log \in Seq([window : Nat, domain : BOOLEAN])
    /\ \A i \in 1 .. Newest : log[i].window = i

\* Only the newest window may be undelivered or unconfirmed, and at most one
\* domain message is not delivered.
Rows ==
    /\ delivered \subseteq 1 .. Newest /\ receipts \subseteq delivered
    /\ \A v \in 1 .. Newest - 1 : v \in receipts
    /\ domainDone \subseteq 1 .. Newest
    /\ \A v, w \in OpenDomains : v = w

\* The confirmed tick of a live process is at most one window behind.
Ticks ==
    /\ clock \in Nat /\ window \in Nat /\ confirmed \in Nat
    /\ loop \notin {"down", "refused"} =>
          /\ confirmed = Newest \/ confirmed = Newest - 1
          /\ \A v \in 1 .. confirmed : v \in receipts

\* What the call knows where it stands.
Stands ==
    /\ step \in {"domains", "admit", "publish", "mark", "confirm", "save"} =>
          /\ window = confirmed + 1
          /\ loop = "called"
    /\ step = "admit" => window = Newest + 1 /\ (ready => OpenDomains = {})
    /\ step \in {"publish", "mark"} => window = Newest /\ window \notin delivered
    /\ step \in {"confirm", "save"} => window = Newest /\ window \in delivered

\* A window is known to every subscriber when its row is about to be marked.
Seen ==
    /\ seen \in [Subscribers -> SUBSET Nat]
    /\ step = "mark" => \A s \in Subscribers : window \in seen[s]

IInv == Ordered /\ Rows /\ Ticks /\ Stands /\ Seen /\ SeenInOrder

LedgerStep == [Ledger!Next]_(Ledger!ledgerVars)

-----------------------------------------------------------------------------
\* The sets the ledger is made of, in terms of the stream's length.
LEMMA Shape ==
    ASSUME Ordered
    PROVE  /\ Newest \in Nat
           /\ Admitted = 1 .. Newest
           /\ WithDomain \subseteq 1 .. Newest
<1>1. Newest \in Nat /\ DOMAIN log = 1 .. Newest
  BY DEF Ordered, Newest
<1> QED
  BY <1>1 DEF Ordered, Admitted, WithDomain

\* Appending the next window keeps the stream ordered (_admit's append_batch).
LEMMA Appended ==
    ASSUME Ordered, NEW d \in BOOLEAN, window = Newest + 1,
           log' = Append(log, [window |-> window, domain |-> d])
    PROVE  /\ Ordered' /\ Newest' = Newest + 1
           /\ Admitted' = Admitted \cup {window}
           /\ WithDomain' = WithDomain \cup (IF d THEN {window} ELSE {})
<1>1. Newest \in Nat /\ DOMAIN log = 1 .. Newest
  BY DEF Ordered, Newest
<1> DEFINE r == [window |-> window, domain |-> d]
<1>2. r \in [window : Nat, domain : BOOLEAN] /\ r.window = window /\ r.domain = d
  BY <1>1
<1>3. /\ log' \in Seq([window : Nat, domain : BOOLEAN])
      /\ Len(log') = Newest + 1 /\ DOMAIN log' = 1 .. Newest + 1
      /\ \A i \in 1 .. Newest : log'[i] = log[i]
      /\ log'[Newest + 1] = r
  <2> HIDE DEF r
  <2> QED
    BY <1>1, <1>2 DEF Ordered, Newest, r
<1>4. Newest' = Newest + 1
  BY <1>3 DEF Newest
<1>5. Ordered'
  BY <1>1, <1>2, <1>3, <1>4 DEF Ordered
<1>6. DOMAIN log' = DOMAIN log \cup {Newest + 1}
  BY <1>1, <1>3
<1>7. Admitted' = Admitted \cup {window}
  <2>1. \A x : x \in Admitted' <=> x \in Admitted \/ x = window
    BY <1>1, <1>2, <1>3, <1>6 DEF Admitted
  <2> QED
    BY <2>1
<1>8. WithDomain' = WithDomain \cup (IF d THEN {window} ELSE {})
  <2>1. \A x : x \in WithDomain' <=> x \in WithDomain \/ (d /\ x = window)
    BY <1>1, <1>2, <1>3, <1>6 DEF WithDomain
  <2> QED
    BY <2>1
<1> QED
  BY <1>4, <1>5, <1>7, <1>8

\* A step that leaves the rows alone is a stutter of the ledger.
LEMMA Stutter ==
    ASSUME UNCHANGED <<log, delivered, domainDone, receipts>>
    PROVE  LedgerStep
BY DEF LedgerStep, Ledger!ledgerVars, Admitted, OpenDomains, WithDomain

\* The row an undelivered window has (dispatch_pending with limit 1).
LEMMA Undelivered ==
    ASSUME IInv, step \in {"publish", "mark"}
    PROVE  /\ UndeliveredPublic = {window} /\ Earliest(UndeliveredPublic) = window
           /\ window = Newest /\ window \in Admitted /\ window \in Nat
<1>1. UndeliveredPublic = {window}
  BY Shape DEF IInv, Rows, Stands, Ticks, UndeliveredPublic
<1>2. window \in Nat
  BY DEF IInv, Ticks
<1> QED
  BY <1>1, <1>2, Shape DEF IInv, Stands, Earliest, UndeliveredPublic

-----------------------------------------------------------------------------
\* The call is answered from its record, refused, or goes on (__call__).
LEMMA BeginSteps == ASSUME IInv, loop = "called", Begin, UNCHANGED driverVars
                    PROVE  IInv' /\ LedgerStep
<1>1. UNCHANGED <<log, delivered, domainDone, receipts, window, confirmed, ready, seen, loop, clock>>
  BY DEF Begin, durable, bus, driverVars
<1>2. LedgerStep
  BY <1>1, Stutter
<1>3. Ordered' /\ Rows' /\ Ticks' /\ SeenInOrder'
  BY <1>1 DEF IInv, Ordered, Rows, Ticks, SeenInOrder, Newest, OpenDomains, WithDomain
<1>4. step' = "domains" => window = confirmed + 1
  BY Shape DEF Begin, IInv, Ticks
<1>5. step' \in {"returned", "raised", "domains"}
  BY DEF Begin
<1>6. Stands' /\ Seen'
  BY <1>1, <1>4, <1>5 DEF Stands, IInv, Seen
<1> QED
  BY <1>2, <1>3, <1>6 DEF IInv

\* Where a call stands after the domains: the new window, or the newest one.
LEMMA AfterDomainsStands ==
    ASSUME IInv, step \in {"domains", "after"}
    PROVE  /\ AfterDomains \in {"returned", "admit", "confirm", "publish"}
           /\ AfterDomains = "admit" => window = Newest + 1
           /\ AfterDomains = "publish" => window = Newest /\ window \notin delivered
           /\ AfterDomains = "confirm" => window = Newest /\ window \in delivered
           /\ AfterDomains # "returned" => loop = "called" /\ window = confirmed + 1
<1>1. CASE step = "after"
  BY <1>1 DEF AfterDomains
<1>2. CASE step = "domains"
  <2>1. window = confirmed + 1 /\ loop = "called" /\ confirmed \in Nat
    BY <1>2 DEF IInv, Stands, Ticks
  <2>2. confirmed = Newest \/ confirmed = Newest - 1
    BY <2>1 DEF IInv, Ticks
  <2>3. window \in Admitted <=> window = Newest
    BY <2>1, <2>2, Shape DEF IInv
  <2> QED
    BY <1>2, <2>1, <2>2, <2>3, Shape DEF AfterDomains, IInv
<1> QED
  BY <1>1, <1>2

\* Going on without a domain message is a stutter of the ledger.
LEMMA NoDomainDueSteps == ASSUME IInv, NoDomainDue, UNCHANGED driverVars
                          PROVE  IInv' /\ LedgerStep
<1>1. UNCHANGED <<log, delivered, domainDone, receipts, window, confirmed, seen, loop, clock>>
  BY DEF NoDomainDue, durable, bus, driverVars
<1>2. LedgerStep
  BY <1>1, Stutter
<1>3. Ordered' /\ Rows' /\ Ticks' /\ SeenInOrder' /\ Newest' = Newest /\ OpenDomains' = OpenDomains
  BY <1>1 DEF IInv, Ordered, Rows, Ticks, SeenInOrder, Newest, OpenDomains, WithDomain
<1>4. /\ step' = AfterDomains \/ step' = "raised"
      /\ ready' = (OpenDomains = {} \/ AfterDomains = "confirm")
      /\ step \in {"domains", "after"}
  BY DEF NoDomainDue, StoreCall
<1>5. Stands'
  BY <1>1, <1>3, <1>4, AfterDomainsStands DEF Stands
<1>6. Seen'
  BY <1>1, <1>4, AfterDomainsStands DEF Seen, IInv
<1> QED
  BY <1>2, <1>3, <1>5, <1>6 DEF IInv

\* The one open domain message is delivered, or stays open (_dispatch_domains).
LEMMA DispatchDomainSteps == ASSUME IInv, DispatchDomain, UNCHANGED driverVars
                             PROVE  IInv' /\ LedgerStep
<1> DEFINE w == Earliest(OpenDomains)
<1>1. UNCHANGED <<log, delivered, receipts, window, confirmed, seen, loop, clock>>
  BY DEF DispatchDomain, driverVars
<1>2. /\ OpenDomains = {w} /\ w \in receipts
      /\ domainDone' = domainDone \/ domainDone' = domainDone \cup {w}
  <2>1. PICK x \in OpenDomains : TRUE
    BY DEF DispatchDomain
  <2>2. OpenDomains = {x} /\ x \in Nat
    BY <2>1, Shape DEF IInv, Rows, OpenDomains
  <2>3. w = x
    BY <2>2 DEF Earliest
  <2>4. domainDone' = domainDone \/ domainDone' = domainDone \cup {w}
    BY DEF DispatchDomain, StoreCall
  <2>5. w \in receipts
    BY DEF DispatchDomain
  <2> QED
    BY <2>2, <2>3, <2>4, <2>5
<1> HIDE DEF w
<1>3. OpenDomains' = OpenDomains \/ OpenDomains' = OpenDomains \ {w}
  BY <1>1, <1>2 DEF OpenDomains, WithDomain
<1>4. LedgerStep
  <2>1. CASE OpenDomains' = OpenDomains
    BY <1>1, <2>1 DEF LedgerStep, Ledger!ledgerVars, Admitted
  <2>2. CASE OpenDomains' = OpenDomains \ {w}
    BY <1>1, <1>2, <2>2 DEF LedgerStep, Ledger!Next, Ledger!Close, Admitted
  <2> QED
    BY <1>3, <2>1, <2>2
<1>5. Ordered' /\ Ticks' /\ SeenInOrder' /\ Newest' = Newest
  BY <1>1 DEF IInv, Ordered, Ticks, SeenInOrder, Newest
<1>6. Rows'
  <2>1. w \in 1 .. Newest
    BY <1>2, Shape DEF IInv, Rows
  <2> QED
    BY <1>1, <1>2, <1>3, <1>5, <2>1 DEF IInv, Rows
<1>7. /\ step' = AfterDomains \/ step' = "raised"
      /\ ready' => OpenDomains' = {} \/ AfterDomains = "confirm" \/ step' = "raised"
      /\ step \in {"domains", "after"}
  <2>1. step \in {"domains", "after"} /\ (step' = AfterDomains \/ step' = "raised")
    BY DEF DispatchDomain, StoreCall
  <2>2. \/ ready' = (AfterDomains = "confirm")
        \/ step' = "raised"
        \/ domainDone' = domainDone \cup {w}
    BY DEF DispatchDomain, StoreCall, w
  <2>3. domainDone' = domainDone \cup {w} => OpenDomains' = {}
    BY <1>1, <1>2 DEF OpenDomains, WithDomain
  <2> QED
    BY <2>1, <2>2, <2>3
<1>8. Stands' /\ Seen'
  BY <1>1, <1>5, <1>7, AfterDomainsStands DEF Stands, Seen, IInv
<1> QED
  BY <1>4, <1>5, <1>6, <1>8 DEF IInv

\* The next window is admitted, with a domain message when none is open (_admit).
LEMMA AdmitSteps == ASSUME IInv, Admit, UNCHANGED driverVars
                    PROVE  IInv' /\ LedgerStep
<1>1. UNCHANGED <<delivered, domainDone, receipts, window, ready, confirmed, seen, loop, clock>>
  BY DEF Admit, bus, driverVars
<1>2. /\ step = "admit" /\ window = Newest + 1 /\ window = confirmed + 1 /\ loop = "called"
      /\ ready => OpenDomains = {}
  BY DEF Admit, IInv, Stands
<1>3. receipts = 1 .. Newest /\ delivered = 1 .. Newest
  <2>1. \A v \in 1 .. confirmed : v \in receipts
    BY <1>2 DEF IInv, Ticks
  <2>2. confirmed = Newest
    BY <1>2, Shape DEF IInv, Ticks
  <2>3. 1 .. Newest \subseteq receipts
    BY <2>1, <2>2
  <2> QED
    BY <2>3 DEF IInv, Rows
<1>4. step' \in {"publish", "raised"}
  BY DEF Admit, StoreCall
<1>5. CASE log' = log /\ step' = "raised"
  <2>0. UNCHANGED <<log, delivered, domainDone, receipts>>
    BY <1>1, <1>5
  <2>1. LedgerStep
    BY <2>0, Stutter
  <2>2. Ordered' /\ Ticks' /\ SeenInOrder'
    BY <2>0, <1>1 DEF IInv, Ordered, Ticks, SeenInOrder, Newest
  <2>4. Rows'
    BY <2>0 DEF IInv, Rows, Newest, OpenDomains, WithDomain
  <2>3. Seen' /\ Stands'
    BY <1>1, <1>5 DEF IInv, Seen, Stands
  <2> QED
    BY <2>1, <2>2, <2>3, <2>4 DEF IInv
<1>6. ASSUME NEW d \in BOOLEAN, d => ready,
             log' = Append(log, [window |-> window, domain |-> d])
      PROVE  IInv' /\ LedgerStep
  <2>1. /\ Ordered' /\ Newest' = Newest + 1
        /\ Admitted' = Admitted \cup {window}
        /\ WithDomain' = WithDomain \cup (IF d THEN {window} ELSE {})
    BY <1>2, <1>6, Appended DEF IInv
  <2>2. Newest \in Nat /\ window \notin 1 .. Newest /\ Admitted = 1 .. Newest
    BY <1>2, Shape DEF IInv
  <2>3. OpenDomains' = OpenDomains \cup (IF d THEN {window} ELSE {})
    BY <1>1, <2>1, <2>2 DEF OpenDomains, IInv, Rows
  <2>4. LedgerStep
    <3>1. OpenDomains' = OpenDomains \/ (OpenDomains = {} /\ OpenDomains' = {window})
      <4>1. CASE d
        BY <1>2, <1>6, <2>3, <4>1
      <4>2. CASE ~d
        BY <2>3, <4>2
      <4> QED
        BY <4>1, <4>2
    <3>2. \A v \in 1 .. window - 1 : v \in Admitted
      BY <1>2, <2>2
    <3>3. Ledger!Admit(window) /\ window \in Admitted'
      BY <1>1, <1>3, <2>1, <2>2, <3>1, <3>2 DEF Ledger!Admit
    <3> QED
      BY <3>3 DEF LedgerStep, Ledger!Next
  <2>5. Rows'
    <3>1. \A v, x \in OpenDomains' : v = x
      BY <1>2, <1>6, <2>3 DEF IInv, Rows
    <3> QED
      BY <1>1, <1>3, <2>1, <2>2, <3>1 DEF IInv, Rows
  <2>6. Ticks'
    BY <1>1, <1>2, <1>3, <2>1, <2>2 DEF IInv, Ticks
  <2>7. Stands' /\ Seen' /\ SeenInOrder'
    BY <1>1, <1>2, <1>3, <1>4, <2>1, <2>2 DEF IInv, Stands, Seen, SeenInOrder
  <2> QED
    BY <2>1, <2>4, <2>5, <2>6, <2>7 DEF IInv
<1> QED
  BY <1>5, <1>6 DEF Admit, StoreCall

\* The newest window is shown to some subscribers, or to all of them before it is
\* marked (_publish of the bus, the only row dispatch_pending finds).
LEMMA PublishSteps == ASSUME IInv, Publish, UNCHANGED driverVars
                      PROVE  IInv' /\ LedgerStep
<1>1. UNCHANGED <<log, delivered, domainDone, receipts, window, confirmed, ready, loop, clock>>
  BY DEF Publish, durable, driverVars
<1>2. LedgerStep
  BY <1>1, Stutter
<1>3. Ordered' /\ Rows' /\ Ticks' /\ Newest' = Newest /\ OpenDomains' = OpenDomains
  BY <1>1 DEF IInv, Ordered, Rows, Ticks, Newest, OpenDomains, WithDomain
<1>4. step = "publish" /\ Earliest(UndeliveredPublic) = window /\ window = Newest /\ window \in Nat
  BY Undelivered DEF Publish
<1>5. \/ step' = "raised" /\ seen' = seen
      \/ \E n \in 0 .. NSubscribers : FanOut(window, n) /\ AfterFanOut(n)
  BY <1>4 DEF Publish, bus
<1>6. CASE step' = "raised" /\ seen' = seen
  BY <1>1, <1>2, <1>3, <1>6 DEF IInv, Stands, Seen, SeenInOrder
<1>7. ASSUME NEW n \in 0 .. NSubscribers, FanOut(window, n), AfterFanOut(n)
      PROVE  IInv'
  <2>1. /\ seen' \in [Subscribers -> SUBSET Nat]
        /\ \A s \in Subscribers : seen'[s] = seen[s] \/ seen'[s] = seen[s] \cup {window}
        /\ n = NSubscribers => \A s \in Subscribers : window \in seen'[s]
    <3>1. \A s \in Subscribers : seen[s] \subseteq Nat
      BY DEF IInv, Seen
    <3>2. \A s \in Subscribers : seen'[s] = seen[s] \cup IF s <= n THEN {window} ELSE {}
      BY <1>7 DEF FanOut
    <3>3. n = NSubscribers => \A s \in Subscribers : s <= n
      BY PublicationAssumption DEF Subscribers
    <3>4. seen' = [s \in Subscribers |-> seen'[s]]
      BY <1>7 DEF FanOut
    <3>5. \A s \in Subscribers : seen'[s] = seen[s] \/ seen'[s] = seen[s] \cup {window}
      BY <3>2
    <3> QED
      BY <1>4, <3>1, <3>2, <3>3, <3>4, <3>5
  <2>2. step' = "raised" \/ (step' = "mark" /\ n = NSubscribers)
    BY <1>7 DEF AfterFanOut
  <2>3. Stands'
    BY <1>1, <1>3, <1>4, <2>2 DEF IInv, Stands
  <2>4. Seen'
    BY <1>1, <2>1, <2>2 DEF Seen
  <2>5. SeenInOrder'
    <3>1. ASSUME NEW s \in Subscribers, NEW w \in seen'[s], NEW v \in 1 .. (w - 1)
          PROVE  v \in seen'[s]
      <4>1. CASE w \in seen[s]
        BY <2>1, <3>1, <4>1 DEF IInv, SeenInOrder
      <4>2. CASE w = window
        <5>1. v \in 1 .. Newest - 1
          BY <1>4, <3>1, <4>2
        <5> QED
          BY <2>1, <5>1 DEF IInv, SeenInOrder, Rows
      <4> QED
        BY <2>1, <3>1, <4>1, <4>2
    <3>2. \A s \in Subscribers : delivered' \subseteq seen'[s]
      BY <1>1, <2>1 DEF IInv, SeenInOrder
    <3> QED
      BY <3>1, <3>2 DEF SeenInOrder
  <2> QED
    BY <1>3, <2>3, <2>4, <2>5 DEF IInv
<1> QED
  BY <1>2, <1>5, <1>6, <1>7

\* The newest window's row is marked, or not although the call raises.
LEMMA MarkSteps == ASSUME IInv, MarkDelivered, UNCHANGED driverVars
                   PROVE  IInv' /\ LedgerStep
<1>1. UNCHANGED <<log, domainDone, receipts, window, confirmed, ready, seen, loop, clock>>
  BY DEF MarkDelivered, bus, driverVars
<1>2. /\ step = "mark" /\ Earliest(UndeliveredPublic) = window
      /\ window = Newest /\ window \in Admitted /\ window \in Nat
      /\ window = confirmed + 1 /\ loop = "called" /\ window \notin delivered
  BY Undelivered DEF MarkDelivered, IInv, Stands
<1>3. \/ delivered' = delivered \cup {window} /\ step' \in {"confirm", "raised"}
      \/ delivered' = delivered /\ step' = "raised"
  BY <1>2 DEF MarkDelivered, StoreCall
<1>4. LedgerStep
  <2>1. CASE delivered' = delivered
    <3>1. UNCHANGED <<log, delivered, domainDone, receipts>>
      BY <1>1, <2>1
    <3> QED
      BY <3>1, Stutter
  <2>2. CASE delivered' = delivered \cup {window}
    <3>1. Ledger!Deliver(window)
      BY <1>1, <1>2, <2>2 DEF Ledger!Deliver, Admitted, OpenDomains, WithDomain
    <3> QED
      BY <1>2, <3>1 DEF LedgerStep, Ledger!Next
  <2> QED
    BY <1>3, <2>1, <2>2
<1>5. Ordered' /\ Ticks' /\ Newest' = Newest /\ OpenDomains' = OpenDomains
  BY <1>1 DEF IInv, Ordered, Ticks, Newest, OpenDomains, WithDomain
<1>6. Rows'
  BY <1>1, <1>2, <1>3, <1>5, Shape DEF IInv, Rows
<1>7. Stands' /\ Seen'
  BY <1>1, <1>2, <1>3, <1>5 DEF Stands, IInv, Seen
<1>8. SeenInOrder'
  BY <1>1, <1>2, <1>3 DEF IInv, Seen, SeenInOrder
<1> QED
  BY <1>4, <1>5, <1>6, <1>7, <1>8 DEF IInv

\* Advancing the hot table is a stutter of the ledger.
LEMMA ConfirmHotSteps == ASSUME IInv, ConfirmHot, UNCHANGED driverVars
                         PROVE  IInv' /\ LedgerStep
<1>1. /\ UNCHANGED <<log, delivered, domainDone, receipts, window, confirmed, ready, seen, loop, clock>>
      /\ step = "confirm" /\ step' \in {"save", "raised"}
  BY DEF ConfirmHot, durable, bus, driverVars
<1>2. LedgerStep
  BY <1>1, Stutter
<1>3. Ordered' /\ Rows' /\ Ticks' /\ SeenInOrder' /\ Newest' = Newest
  BY <1>1 DEF IInv, Ordered, Rows, Ticks, SeenInOrder, Newest, OpenDomains, WithDomain
<1>4. Stands' /\ Seen'
  BY <1>1, <1>3 DEF Stands, IInv, Seen
<1> QED
  BY <1>2, <1>3, <1>4 DEF IInv

\* The receipt of the newest window, with the confirmed tick or without it when
\* the call raises (_confirm).
LEMMA SaveSteps == ASSUME IInv, SaveReceipt, UNCHANGED driverVars
                   PROVE  IInv' /\ LedgerStep
<1>1. UNCHANGED <<log, delivered, domainDone, window, ready, seen, loop, clock>>
  BY DEF SaveReceipt, bus, driverVars
<1>2. /\ step = "save" /\ window = Newest /\ window \in delivered /\ window = confirmed + 1
      /\ loop = "called" /\ confirmed \in Nat /\ window \in Nat
  BY DEF SaveReceipt, IInv, Stands, Ticks
<1>3. \/ /\ receipts' = receipts \cup {window} /\ step' \in {"after", "returned"}
         /\ confirmed' = window
      \/ /\ receipts' = receipts \cup {window} \/ receipts' = receipts
         /\ step' = "raised" /\ confirmed' = confirmed
  BY DEF SaveReceipt, StoreCall
<1>4. LedgerStep
  <2>1. CASE receipts' = receipts
    <3>1. UNCHANGED <<log, delivered, domainDone, receipts>>
      BY <1>1, <2>1
    <3> QED
      BY <3>1, Stutter
  <2>2. CASE receipts' = receipts \cup {window} /\ window \notin receipts
    <3>1. Ledger!Confirm(window)
      BY <1>1, <2>2 DEF Ledger!Confirm, Admitted, OpenDomains, WithDomain
    <3> QED
      BY <1>2, <3>1 DEF LedgerStep, Ledger!Next
  <2>3. receipts' = receipts \cup {window} /\ window \in receipts => receipts' = receipts
    OBVIOUS
  <2> QED
    BY <1>3, <2>1, <2>2, <2>3
<1>5. Ordered' /\ SeenInOrder' /\ Newest' = Newest /\ OpenDomains' = OpenDomains
  BY <1>1 DEF IInv, Ordered, SeenInOrder, Newest, OpenDomains, WithDomain
<1>6. receipts \subseteq receipts' /\ receipts' \subseteq delivered'
  BY <1>1, <1>2, <1>3 DEF IInv, Rows
<1>7. Rows'
  BY <1>1, <1>5, <1>6 DEF IInv, Rows
<1>8. Ticks'
  <2>1. CASE confirmed' = confirmed
    BY <1>1, <1>5, <1>6, <2>1 DEF IInv, Ticks
  <2>2. CASE confirmed' = window /\ receipts' = receipts \cup {window}
    <3>1. \A v \in 1 .. window : v \in receipts'
      BY <1>2, <2>2 DEF IInv, Rows
    <3> QED
      BY <1>1, <1>2, <1>5, <2>2, <3>1 DEF IInv, Ticks
  <2> QED
    BY <1>3, <2>1, <2>2
<1>9. Stands' /\ Seen'
  BY <1>1, <1>2, <1>3 DEF Stands, IInv, Seen
<1> QED
  BY <1>4, <1>5, <1>7, <1>8, <1>9 DEF IInv

-----------------------------------------------------------------------------
\* The checkpoint a start begins with is of a confirmed window, if any.
LEMMA Restored ==
    ASSUME IInv
    PROVE  /\ RestoredRevision \in 0 .. Newest /\ RestoredTick = RestoredRevision
           /\ RestoredRevision # 0 => RestoredRevision \in receipts
<1>1. Newest \in Nat /\ DOMAIN log = 1 .. Newest /\ \A i \in 1 .. Newest : log[i].window = i
  BY DEF IInv, Ordered, Newest
<1>2. \A g \in Usable : g \in {0, 1} /\ slots[g].rev \in 1 .. Newest /\ slots[g].rev \in receipts
  BY <1>1 DEF Usable, Anchored, Written, Generations
<1>3. CASE Usable = {}
  BY <1>1, <1>3 DEF RestoredRevision, RestoredTick
<1>4. CASE Usable # {}
  <2> DEFINE Revs == {slots[g].rev : g \in Usable}
             Newer(r) == \A g \in Usable : slots[g].rev <= r
  <2>1. \E r \in Revs : Newer(r)
    <3>1. PICK h \in Usable : TRUE
      BY <1>4
    <3>2. CASE Newer(slots[h].rev)
      BY <3>1, <3>2
    <3>3. CASE ~Newer(slots[h].rev)
      <4>1. PICK g \in Usable : ~(slots[g].rev <= slots[h].rev)
        BY <3>3
      <4>2. \A x \in Usable : x = g \/ x = h
        BY <1>2, <3>1, <4>1
      <4>3. Newer(slots[g].rev)
        BY <1>2, <3>1, <4>1, <4>2
      <4> QED
        BY <4>1, <4>3
    <3> QED
      BY <3>2, <3>3
  <2>2. RestoredRevision = CHOOSE r \in Revs : Newer(r)
    BY <1>4 DEF RestoredRevision
  <2>3. RestoredRevision \in Revs
    <3> HIDE DEF Revs, Newer
    <3> QED
      BY <2>1, <2>2
  <2>4. RestoredRevision \in 1 .. Newest /\ RestoredRevision \in receipts
    BY <1>2, <2>3
  <2> QED
    BY <1>1, <2>4 DEF RestoredTick
<1> QED
  BY <1>3, <1>4

\* The tail that follows it is delivered up to the newest window or the one before.
LEMMA Tails ==
    ASSUME IInv
    PROVE  /\ \A i \in 1 .. Newest - RestoredRevision : Suffix[i].window = RestoredRevision + i
           /\ Cardinality(SuffixDelivered) \in Nat
           /\ Cardinality(SuffixDelivered) <= Newest - RestoredRevision
           /\ Newest - RestoredRevision - 1 <= Cardinality(SuffixDelivered)
           /\ \A i \in 1 .. Cardinality(SuffixDelivered) : RestoredRevision + i \in delivered
<1> DEFINE R == RestoredRevision
           m == Newest - R
<1>1. Newest \in Nat /\ DOMAIN log = 1 .. Newest /\ \A i \in 1 .. Newest : log[i].window = i
  BY DEF IInv, Ordered, Newest
<1>2. R \in 0 .. Newest
  BY Restored
<1>3. DOMAIN Suffix = 1 .. m /\ \A i \in 1 .. m : Suffix[i] = log[R + i]
  <2>1. /\ Len(Suffix) = Newest - (R + 1) + 1 /\ DOMAIN Suffix = 1 .. Len(Suffix)
        /\ \A i \in 1 .. Newest - (R + 1) + 1 : Suffix[i] = log[(R + 1) + i - 1]
    <3> DEFINE Row == [window : Nat, domain : BOOLEAN]
    <3>1. \A i \in R + 1 .. Newest : log[i] \in Row
      <4>1. log \in Seq(Row) /\ Newest = Len(log)
        BY DEF IInv, Ordered, Newest
      <4> HIDE DEF Row, R
      <4>2. \A i \in 1 .. Newest : log[i] \in Row
        BY <4>1
      <4> QED
        BY <1>1, <1>2, <4>2
    <3>2. Suffix = SubSeq(log, R + 1, Newest)
      BY DEF Suffix, Newest
    <3>3. /\ Suffix \in Seq(Row)
          /\ Len(Suffix) = IF R + 1 <= Newest THEN Newest - (R + 1) + 1 ELSE 0
          /\ \A i \in 1 .. Newest - (R + 1) + 1 : Suffix[i] = log[(R + 1) + i - 1]
      <4> HIDE DEF Row
      <4> QED
        BY <1>1, <1>2, <3>1, <3>2, SubSeqProperties
    <3> QED
      BY <1>1, <1>2, <3>3
  <2> QED
    BY <1>1, <1>2, <2>1
<1> HIDE DEF R
<1>4. \A i \in 1 .. m : Suffix[i].window = R + i
  BY <1>1, <1>2, <1>3
<1>5. SuffixDelivered = {i \in 1 .. m : R + i \in delivered}
  BY <1>3, <1>4 DEF SuffixDelivered
<1>6. \A v \in 1 .. Newest - 1 : v \in delivered
  BY DEF IInv, Rows
<1>7. PICK k \in Nat : /\ SuffixDelivered = 1 .. k /\ k <= m /\ m - 1 <= k
  <2>1. CASE m = 0
    <3>1. SuffixDelivered = 1 .. 0
      BY <1>5, <2>1
    <3> QED
      BY <2>1, <3>1
  <2>2. CASE m # 0 /\ Newest \in delivered
    <3>1. SuffixDelivered = 1 .. m
      BY <1>1, <1>2, <1>5, <1>6, <2>2
    <3> QED
      BY <1>1, <1>2, <3>1
  <2>3. CASE m # 0 /\ Newest \notin delivered
    <3>1. SuffixDelivered = 1 .. m - 1
      BY <1>1, <1>2, <1>5, <1>6, <2>3
    <3> QED
      BY <1>1, <1>2, <2>3, <3>1
  <2> QED
    BY <2>1, <2>2, <2>3
<1>8. Cardinality(SuffixDelivered) = k
  BY <1>7, FS_Interval
<1> QED
  BY <1>4, <1>5, <1>7, <1>8 DEF R

\* Replaying part of the delivered tail confirms at most the newest window.
LEMMA ReplaySteps ==
    ASSUME IInv, NEW n \in 0 .. Cardinality(SuffixDelivered), Replayed(n)
    PROVE  /\ LedgerStep /\ Ordered' /\ Rows' /\ Newest' = Newest
           /\ \A v \in 1 .. RestoredRevision + n : v \in receipts'
<1> DEFINE R == RestoredRevision
           more == {Suffix[i].window : i \in 1 .. n}
<1>1. /\ receipts' = receipts \cup more
      /\ UNCHANGED <<log, delivered, domainDone>>
  BY DEF Replayed
<1>2. Newest \in Nat /\ R \in 0 .. Newest
  BY Restored, Shape DEF IInv
<1>3. \A v : v \in more <=> v \in R + 1 .. R + n
  <2>1. \A i \in 1 .. n : Suffix[i].window = R + i
    BY <1>2, Tails
  <2>2. \A v \in R + 1 .. R + n : v - R \in 1 .. n /\ v = R + (v - R)
    BY <1>2, Tails
  <2> QED
    BY <1>2, <2>1, <2>2, Tails
<1>4. R + n <= Newest /\ more \subseteq delivered
  <2>1. \A v \in more : v - R \in 1 .. Cardinality(SuffixDelivered) /\ v = R + (v - R)
    BY <1>2, <1>3, Tails
  <2> QED
    BY <1>2, <2>1, Tails
<1> HIDE DEF more, R
<1>5. \A v \in more : v \in receipts \/ v = Newest
  BY <1>2, <1>3, <1>4 DEF IInv, Rows
<1>6. Ordered' /\ Newest' = Newest /\ OpenDomains' = OpenDomains /\ Admitted' = Admitted
  BY <1>1 DEF IInv, Ordered, Newest, OpenDomains, WithDomain, Admitted
<1>7. Rows'
  BY <1>1, <1>4, <1>6 DEF IInv, Rows
<1>8. LedgerStep
  <2>1. CASE receipts' = receipts
    <3>1. UNCHANGED <<log, delivered, domainDone, receipts>>
      BY <1>1, <2>1
    <3> QED
      BY <3>1, Stutter
  <2>2. CASE receipts' # receipts
    <3>1. Newest \in more /\ Newest \notin receipts /\ receipts' = receipts \cup {Newest}
      BY <1>1, <1>5, <2>2
    <3>2. Ledger!Confirm(Newest) /\ Newest \in delivered
      BY <1>1, <1>4, <1>6, <3>1 DEF Ledger!Confirm
    <3> QED
      BY <3>2 DEF LedgerStep, Ledger!Next
  <2> QED
    BY <2>1, <2>2
<1>9. \A v \in 1 .. R + n : v \in receipts'
  <2>1. \A v \in 1 .. R : v \in receipts
    <3>1. R # 0 => R \in receipts
      BY Restored DEF R
    <3> QED
      BY <1>2, <3>1 DEF IInv, Rows
  <2> QED
    BY <1>1, <1>2, <1>3, <2>1
<1> QED
  BY <1>6, <1>7, <1>8, <1>9 DEF R

-----------------------------------------------------------------------------
\* Every step of a call of the publisher.
LEMMA CallSteps == ASSUME IInv, Publishing PROVE IInv' /\ LedgerStep
<1>1. loop = "called" /\ UNCHANGED driverVars /\ PublisherStep
  BY DEF Publishing
<1> QED
  BY <1>1, BeginSteps, NoDomainDueSteps, DispatchDomainSteps, AdmitSteps, PublishSteps,
     MarkSteps, ConfirmHotSteps, SaveSteps DEF PublisherStep

\* What leaves the rows alone and is no step of a call: it begins or ends one,
\* happens between calls, or ends the process.
LEMMA OutsideSteps ==
    ASSUME IInv,
           UNCHANGED <<log, delivered, domainDone, receipts, seen>>,
           clock' \in Nat, window' \in Nat, confirmed' \in Nat,
           step' \in {"idle", "begin"} \/ (step' = step /\ loop # "called"),
           loop' \in {"down", "refused"} \/ (confirmed' = confirmed /\ loop \notin {"down", "refused"})
    PROVE  IInv' /\ LedgerStep
<1>1. UNCHANGED <<log, delivered, domainDone, receipts>>
  OBVIOUS
<1>2. Ordered' /\ Rows' /\ SeenInOrder' /\ Newest' = Newest
  <2>1. Newest' = Newest /\ OpenDomains' = OpenDomains
    BY <1>1 DEF Newest, OpenDomains, WithDomain
  <2>2. Ordered' /\ SeenInOrder'
    BY <2>1 DEF IInv, Ordered, SeenInOrder
  <2> QED
    BY <2>1, <2>2 DEF IInv, Rows
<1>3. Ticks'
  BY <1>2 DEF IInv, Ticks
<1>4. step' \notin {"domains", "admit", "publish", "mark", "confirm", "save"}
  BY DEF IInv, Stands
<1>5. Stands' /\ Seen'
  BY <1>4 DEF Stands, IInv, Seen
<1> QED
  BY <1>1, <1>2, <1>3, <1>5, Stutter DEF IInv

\* A restore confirms the stored tail again, each window at most once.
LEMMA RestoreSteps == ASSUME IInv, Restore PROVE IInv' /\ LedgerStep
<1> DEFINE n == Cardinality(SuffixDelivered)
<1>1. /\ Replayed(n) /\ confirmed' = RestoredTick + n /\ clock' = confirmed'
      /\ step' = "idle" /\ window' = 0 /\ seen' = seen /\ loop' = "start"
      /\ delivered' = delivered
  BY DEF Restore, RestorePublisher, Volatile, NoCall, Replayed
<1>2. n \in 0 .. n
  BY Tails
<1>3. /\ LedgerStep /\ Ordered' /\ Rows' /\ Newest' = Newest
      /\ \A v \in 1 .. RestoredRevision + n : v \in receipts'
  BY <1>1, <1>2, ReplaySteps
<1>4. Ticks'
  <2>1. confirmed' = RestoredRevision + n /\ Newest \in Nat
    BY <1>1, Restored, Shape DEF IInv
  <2>2. confirmed' \in Nat /\ (confirmed' = Newest \/ confirmed' = Newest - 1)
    BY <2>1, Restored, Tails
  <2> QED
    BY <1>1, <1>3, <2>1, <2>2 DEF Ticks
<1>5. Stands' /\ Seen' /\ SeenInOrder'
  BY <1>1 DEF Stands, IInv, Seen, SeenInOrder
<1> QED
  BY <1>3, <1>4, <1>5 DEF IInv

\* A restore that dies has confirmed the first part of that tail.
LEMMA RestoreFailsSteps == ASSUME IInv, RestoreFails PROVE IInv' /\ LedgerStep
<1>1. PICK n \in 1 .. Cardinality(SuffixDelivered) : Replayed(n)
  BY DEF RestoreFails, RestoreDies
<1>2. /\ confirmed' = 0 /\ clock' = clock /\ loop' = "down"
      /\ step' = "idle" /\ window' = 0 /\ seen' = seen /\ delivered' = delivered
  BY <1>1 DEF RestoreFails, RestoreDies, Volatile, NoCall, Replayed, driverVars
<1>3. LedgerStep /\ Ordered' /\ Rows'
  BY <1>1, Tails, ReplaySteps
<1>4. Ticks' /\ Stands' /\ Seen' /\ SeenInOrder'
  BY <1>2 DEF Ticks, Stands, IInv, Seen, SeenInOrder
<1> QED
  BY <1>3, <1>4 DEF IInv

\* Every step keeps the invariant and is a step or a stutter of the ledger.
LEMMA Steps == ASSUME IInv, [Next]_vars PROVE IInv' /\ LedgerStep
<1> USE DEF publisherVars, durable, bus, driverVars, world, plan
<1>1. clock \in Nat /\ window \in Nat /\ confirmed \in Nat
  BY DEF IInv, Ticks
<1>2. CASE Start \/ Observe \/ DropTarget \/ NothingDue \/ Rest \/ Wake \/ StartAgain
  BY <1>1, <1>2, OutsideSteps
  DEF Start, Observe, DropTarget, NothingDue, Rest, Wake, StartAgain
<1>3. CASE Retry \/ Notify
  BY <1>1, <1>3, OutsideSteps DEF Retry, Notify
<1>4. CASE SetMode \/ RestoreRefuses
  BY <1>1, <1>4, OutsideSteps DEF SetMode, RestoreRefuses, BetweenCommands
<1>5. CASE TimePasses
  BY <1>1, <1>5, OutsideSteps DEF TimePasses, BetweenCommands
<1>6. CASE CallPublisher
  BY <1>1, <1>6, OutsideSteps DEF CallPublisher
<1>7. CASE Advance \/ Reject
  BY <1>1, <1>7, OutsideSteps DEF Advance, Reject, NoCall
<1>8. CASE Crash
  BY <1>1, <1>8, OutsideSteps DEF Crash, CrashPublisher, Volatile, NoCall
<1>9. CASE Damage
  BY <1>1, <1>9, OutsideSteps DEF Damage, DamageSlot
<1>10. CASE UNCHANGED vars
  <2>1. UNCHANGED <<log, delivered, domainDone, receipts>> /\ UNCHANGED vars
    BY <1>10 DEF vars
  <2>2. Ordered' /\ Rows' /\ Ticks'
    BY <2>1 DEF IInv, Ordered, Rows, Ticks, Newest, OpenDomains, WithDomain, vars
  <2>3. Stands' /\ Seen' /\ SeenInOrder'
    BY <2>1 DEF IInv, Stands, Seen, SeenInOrder, Newest, OpenDomains, WithDomain, vars
  <2> QED
    BY <2>1, <2>2, <2>3, Stutter DEF IInv
<1> QED
  BY <1>2, <1>3, <1>4, <1>5, <1>6, <1>7, <1>8, <1>9, <1>10,
     CallSteps, RestoreSteps, RestoreFailsSteps DEF Next

\* An empty stream satisfies the invariant and is an empty ledger.
LEMMA Initial == Init => IInv /\ Ledger!Init
<1> SUFFICES ASSUME Init PROVE IInv /\ Ledger!Init
  OBVIOUS
<1>1. /\ log = <<>> /\ delivered = {} /\ domainDone = {} /\ receipts = {}
      /\ step = "idle" /\ window = 0 /\ confirmed = 0 /\ clock = 0 /\ loop = "start"
      /\ seen = [s \in Subscribers |-> {}]
  BY DEF Init, PublisherInit
<1>2. Newest = 0 /\ Admitted = {} /\ WithDomain = {} /\ OpenDomains = {}
  BY <1>1 DEF Newest, Admitted, WithDomain, OpenDomains
<1>3. Ordered /\ Rows /\ Ticks
  BY <1>1, <1>2 DEF Ordered, Rows, Ticks
<1>4. Stands /\ Seen /\ SeenInOrder
  BY <1>1 DEF Stands, Seen, SeenInOrder
<1> QED
  BY <1>1, <1>2, <1>3, <1>4 DEF IInv, Ledger!Init

\* The inductive invariant holds in every reachable state.
THEOREM Invariance == Spec => []IInv
<1>1. IInv /\ [Next]_vars => IInv'
  BY Steps
<1> QED
  BY Initial, <1>1, PTL DEF Spec

\* The publication of population windows, with its crashes, retries, checkpoints and
\* restored processes, is the ledger of CadenceLedger: windows are admitted,
\* delivered and confirmed one at a time and in order, and a domain message is
\* delivered after its window is confirmed and before the next one is admitted.
THEOREM CadenceImplementsLedger == Spec => ImplementsCadenceLedger
<1>1. IInv /\ [Next]_vars => LedgerStep
  BY Steps
<1>2. Init => Ledger!Init
  BY Initial
<1> QED
  BY <1>1, <1>2, Invariance, PTL DEF Spec, ImplementsCadenceLedger, Ledger!Spec, LedgerStep

\* Over all processes every subscriber is given every delivered window, and never
\* one before all earlier ones (the fan-out of the bus, redelivered after failures).
THEOREM SubscribersSeeInOrder == Spec => []SeenInOrder
<1>1. IInv => SeenInOrder
  BY DEF IInv
<1> QED
  BY Invariance, <1>1, PTL

-----------------------------------------------------------------------------
PublicOf(w) == <<"public", w>>
Id == {"public", "domain"} \X Nat

\* The bus still remembers the newest window: it stored that identity last, or
\* after it the one of the only domain message that can be due.
Recent ==
    \/ history # <<>> /\ history[Len(history)] = PublicOf(Newest)
    \/ /\ Len(history) > 1 /\ history[Len(history) - 1] = PublicOf(Newest)
       /\ \A x \in OpenDomains \cap receipts : history[Len(history)] = <<"domain", x>>

\* A window that a bus has stored is remembered until it is delivered.
BusInv ==
    /\ history \in Seq(Id) /\ stored \in Seq(Id)
    /\ \A i \in 1 .. Len(stored) : stored[i][1] = "public" => stored[i][2] <= Newest
    /\ Newest \notin delivered /\ (\E i \in 1 .. Len(stored) : stored[i] = PublicOf(Newest)) => Recent
    /\ StoredOncePerBus

\* Posting an identity that is not remembered keeps the one stored before it.
LEMMA Posted ==
    ASSUME HistoryLimit >= 2, BusInv, NEW id \in Id, Post(id),
           \A i \in DOMAIN history : history[i] # id
    PROVE  /\ stored' = Append(stored, id)
           /\ history' \in Seq(Id) /\ history' # <<>> /\ history'[Len(history')] = id
           /\ history # <<>> =>
                Len(history') > 1 /\ history'[Len(history') - 1] = history[Len(history)]
<1> DEFINE longer == Append(history, id)
           excess == IF Len(longer) > HistoryLimit THEN Len(longer) - HistoryLimit ELSE 0
<1>1. stored' = Append(stored, id) /\ history' = SubSeq(longer, excess + 1, Len(longer))
  BY DEF Post
<1>2. history \in Seq(Id) /\ Len(history) \in Nat /\ HistoryLimit \in Nat
  BY PublicationAssumption DEF BusInv
<1> HIDE DEF Id
<1>3. /\ longer \in Seq(Id) /\ Len(longer) = Len(history) + 1
      /\ longer[Len(history) + 1] = id
      /\ \A i \in 1 .. Len(history) : longer[i] = history[i]
  BY <1>2
<1> HIDE DEF longer
<1>4. excess \in 0 .. Len(longer) - 1 /\ (history # <<>> => excess + 1 < Len(longer))
  BY <1>2, <1>3
<1> HIDE DEF excess
<1>5. \A i \in excess + 1 .. Len(longer) : longer[i] \in Id
  BY <1>3, <1>4
<1>6. /\ history' \in Seq(Id) /\ Len(history') = Len(longer) - excess
      /\ \A i \in 1 .. Len(longer) - excess : history'[i] = longer[excess + i]
  <2>1. /\ SubSeq(longer, excess + 1, Len(longer)) \in Seq(Id)
        /\ Len(SubSeq(longer, excess + 1, Len(longer))) =
             IF excess + 1 <= Len(longer) THEN Len(longer) - (excess + 1) + 1 ELSE 0
        /\ \A i \in 1 .. Len(longer) - (excess + 1) + 1 :
             SubSeq(longer, excess + 1, Len(longer))[i] = longer[(excess + 1) + i - 1]
    BY <1>3, <1>4, <1>5, SubSeqProperties
  <2> QED
    BY <1>1, <1>2, <1>3, <1>4, <2>1
<1>7. history'[Len(history')] = id /\ history' # <<>>
  BY <1>2, <1>3, <1>4, <1>6
<1>8. history # <<>> => Len(history') > 1 /\ history'[Len(history') - 1] = history[Len(history)]
  BY <1>2, <1>3, <1>4, <1>6
<1> QED
  BY <1>1, <1>6, <1>7, <1>8

\* What the bus remembers is enough as long as the newest window and what may be
\* published beside it stay the same.
LEMMA BusKept ==
    ASSUME BusInv, UNCHANGED <<history, stored>>, Newest' = Newest,
           Newest \notin delivered' =>
              /\ Newest \notin delivered
              /\ OpenDomains' \cap receipts' \subseteq OpenDomains \cap receipts
    PROVE  BusInv'
<1>1. Recent /\ Newest \notin delivered' => Recent'
  BY DEF Recent, PublicOf
<1> QED
  BY <1>1 DEF BusInv, StoredOncePerBus, PublicOf

\* A new process has a bus of its own.
LEMMA BusEmpty == ASSUME history = <<>>, stored = <<>> PROVE BusInv
BY DEF BusInv, StoredOncePerBus

\* A start, or the end of a process, leaves such a bus.
LEMMA Emptied == ASSUME history' = <<>>, stored' = <<>> PROVE BusInv'
BY DEF BusInv, StoredOncePerBus

\* An identity is stored once more: a public one only if no bus has stored it.
LEMMA BusAppended ==
    ASSUME BusInv, NEW id \in Id, stored' = Append(stored, id), history' \in Seq(Id),
           Newest' = Newest, Newest \in Nat,
           id[1] = "public" => id[2] <= Newest /\ \A i \in 1 .. Len(stored) : stored[i] # id,
           Newest' \notin delivered' /\ (\E i \in 1 .. Len(stored') : stored'[i] = PublicOf(Newest'))
              => Recent'
    PROVE  BusInv'
<1> HIDE DEF Id
<1>1. /\ stored' \in Seq(Id) /\ Len(stored') = Len(stored) + 1 /\ Len(stored) \in Nat
      /\ stored'[Len(stored) + 1] = id
      /\ \A i \in 1 .. Len(stored) : stored'[i] = stored[i]
      /\ DOMAIN stored' = 1 .. Len(stored) + 1 /\ DOMAIN stored = 1 .. Len(stored)
  BY DEF BusInv
<1>2. StoredOncePerBus'
  <2> SUFFICES ASSUME NEW i \in 1 .. Len(stored) + 1, NEW j \in 1 .. Len(stored) + 1,
                      i < j, stored'[i][1] = "public"
               PROVE  stored'[i] # stored'[j]
    BY <1>1 DEF StoredOncePerBus
  <2>1. i \in 1 .. Len(stored) /\ stored'[i] = stored[i]
    BY <1>1
  <2>2. CASE j \in 1 .. Len(stored)
    BY <1>1, <2>1, <2>2 DEF BusInv, StoredOncePerBus
  <2>3. CASE j = Len(stored) + 1
    BY <1>1, <2>1, <2>3
  <2>4. j \in 1 .. Len(stored) \/ j = Len(stored) + 1
    BY <1>1
  <2> QED
    BY <2>2, <2>3, <2>4
<1>3. \A i \in 1 .. Len(stored') : stored'[i][1] = "public" => stored'[i][2] <= Newest'
  BY <1>1 DEF BusInv
<1> QED
  BY <1>1, <1>2, <1>3 DEF BusInv

\* A domain message is published again or for the first time: while the newest
\* window is not delivered there is no second one after it.
LEMMA DispatchDomainBus ==
    ASSUME HistoryLimit >= 2, IInv, BusInv, DispatchDomain PROVE BusInv'
<1> DEFINE w == Earliest(OpenDomains)
<1>1. UNCHANGED <<log, delivered, receipts>> /\ Newest' = Newest
  BY DEF DispatchDomain, Newest
<1>2. /\ OpenDomains = {w} /\ w \in receipts /\ w \in Nat
      /\ domainDone' = domainDone \/ domainDone' = domainDone \cup {w}
  <2>1. PICK x \in OpenDomains : TRUE
    BY DEF DispatchDomain
  <2>2. OpenDomains = {x} /\ x \in Nat
    BY <2>1, Shape DEF IInv, Rows, OpenDomains
  <2>3. w = x
    BY <2>2 DEF Earliest
  <2>4. domainDone' = domainDone \/ domainDone' = domainDone \cup {w}
    BY DEF DispatchDomain, StoreCall
  <2>5. w \in receipts
    BY DEF DispatchDomain
  <2> QED
    BY <2>2, <2>3, <2>4, <2>5
<1>3. Post(<<"domain", w>>)
  BY DEF DispatchDomain
<1> HIDE DEF w
<1>4. OpenDomains' \subseteq {w}
  BY <1>1, <1>2 DEF OpenDomains, WithDomain
<1>5. CASE \E i \in DOMAIN history : history[i] = <<"domain", w>>
  <2>1. UNCHANGED <<history, stored>>
    BY <1>3, <1>5 DEF Post
  <2> QED
    BY <1>1, <1>2, <1>4, <2>1, BusKept
<1>6. CASE ~ \E i \in DOMAIN history : history[i] = <<"domain", w>>
  <2> DEFINE id == <<"domain", w>>
  <2>0. id \in Id /\ id[1] = "domain" /\ id # PublicOf(Newest) /\ Newest \in Nat
    BY <1>2, Shape DEF Id, PublicOf, IInv
  <2>1. /\ stored' = Append(stored, id)
        /\ history' \in Seq(Id) /\ history' # <<>> /\ history'[Len(history')] = id
        /\ history # <<>> =>
             Len(history') > 1 /\ history'[Len(history') - 1] = history[Len(history)]
    BY <1>3, <1>6, <2>0, Posted
  <2>2. ASSUME Newest \notin delivered, \E i \in 1 .. Len(stored') : stored'[i] = PublicOf(Newest)
        PROVE  Recent'
    <3>1. \E i \in 1 .. Len(stored) : stored[i] = PublicOf(Newest)
      <4>1. /\ stored \in Seq(Id) /\ Len(stored') = Len(stored) + 1 /\ Len(stored) \in Nat
            /\ stored'[Len(stored) + 1] = id /\ \A i \in 1 .. Len(stored) : stored'[i] = stored[i]
        <5> HIDE DEF Id, id
        <5> QED
          BY <2>0, <2>1 DEF BusInv
      <4>2. PICK i \in 1 .. Len(stored') : stored'[i] = PublicOf(Newest)
        BY <2>2
      <4>3. id # PublicOf(Newest)
        BY <2>0
      <4> HIDE DEF id
      <4>4. i # Len(stored) + 1
        BY <4>1, <4>2, <4>3
      <4>5. i \in 1 .. Len(stored)
        BY <4>1, <4>2, <4>4
      <4> QED
        BY <4>1, <4>2, <4>5
    <3>2. Recent
      BY <2>2, <3>1 DEF BusInv
    <3>3. history # <<>> /\ history[Len(history)] = PublicOf(Newest)
      <4>1. history \in Seq(Id)
        BY DEF BusInv
      <4>2. Len(history) > 1 => Len(history) \in DOMAIN history
        <5> HIDE DEF Id
        <5> QED
          BY <4>1
      <4>4. Len(history) > 1 => history[Len(history)] # <<"domain", w>>
        BY <1>6, <4>2
      <4>3. w \in OpenDomains \cap receipts
        BY <1>2
      <4> QED
        BY <3>2, <4>3, <4>4, Zenon DEF Recent
    <3> QED
      BY <1>1, <1>2, <1>4, <2>1, <3>3 DEF Recent, PublicOf
  <2>3. Newest' \notin delivered' /\ (\E i \in 1 .. Len(stored') : stored'[i] = PublicOf(Newest'))
              => Recent'
    BY <1>1, <2>2 DEF PublicOf
  <2> HIDE DEF id
  <2> QED
    BY <1>1, <2>0, <2>1, <2>3, BusAppended
<1> QED
  BY <1>5, <1>6

\* The newest window is published: it is remembered, or was never stored.
LEMMA PublishBus ==
    ASSUME HistoryLimit >= 2, IInv, BusInv, Publish PROVE BusInv'
<1>1. UNCHANGED <<log, delivered, domainDone, receipts>> /\ Newest' = Newest /\ OpenDomains' = OpenDomains
  BY DEF Publish, durable, Newest, OpenDomains, WithDomain
<1>2. Earliest(UndeliveredPublic) = window /\ window = Newest /\ Newest \in Nat /\ Newest \notin delivered
  BY Undelivered, Shape DEF Publish, IInv, Stands
<1>3. UNCHANGED <<history, stored>> \/ Post(PublicOf(Newest))
  BY <1>2 DEF Publish, bus, PublicOf
<1>4. CASE UNCHANGED <<history, stored>>
  BY <1>1, <1>4, BusKept
<1>5. CASE Post(PublicOf(Newest)) /\ \E i \in DOMAIN history : history[i] = PublicOf(Newest)
  <2>1. UNCHANGED <<history, stored>>
    BY <1>5 DEF Post
  <2> QED
    BY <1>4, <2>1
<1>6. CASE Post(PublicOf(Newest)) /\ \A i \in DOMAIN history : history[i] # PublicOf(Newest)
  <2>0. PublicOf(Newest) \in Id /\ PublicOf(Newest)[1] = "public" /\ PublicOf(Newest)[2] = Newest
    BY <1>2 DEF Id, PublicOf
  <2>1. /\ stored' = Append(stored, PublicOf(Newest))
        /\ history' \in Seq(Id) /\ history' # <<>> /\ history'[Len(history')] = PublicOf(Newest)
    BY <1>6, <2>0, Posted
  <2>2. \A i \in 1 .. Len(stored) : stored[i] # PublicOf(Newest)
    <3>1. history \in Seq(Id)
      BY DEF BusInv
    <3>2. ~Recent
      <4>1. Len(history) > 1 => Len(history) - 1 \in DOMAIN history
        <5> HIDE DEF Id
        <5> QED
          BY <3>1
      <4>2. history # <<>> => Len(history) \in DOMAIN history
        <5> HIDE DEF Id
        <5> QED
          BY <3>1
      <4> QED
        BY <1>6, <4>1, <4>2 DEF Recent
    <3> QED
      BY <1>2, <3>2 DEF BusInv
  <2>3. Recent'
    BY <1>1, <2>1 DEF Recent, PublicOf
  <2> QED
    BY <1>1, <1>2, <2>0, <2>1, <2>2, <2>3, BusAppended
<1> QED
  BY <1>3, <1>4, <1>5, <1>6

\* The next window is admitted: no bus has stored it.
LEMMA AdmitBus == ASSUME IInv, BusInv, Admit, UNCHANGED driverVars PROVE BusInv'
<1>1. UNCHANGED <<history, stored, delivered, domainDone, receipts>>
  BY DEF Admit, bus
<1>2. CASE log' = log
  <2>1. Newest' = Newest /\ OpenDomains' = OpenDomains
    BY <1>1, <1>2 DEF Newest, OpenDomains, WithDomain
  <2> QED
    BY <1>1, <2>1, BusKept
<1>3. CASE log' # log
  <2>1. PICK d \in BOOLEAN : log' = Append(log, [window |-> window, domain |-> d])
    BY <1>3 DEF Admit, StoreCall
  <2>2. Newest' = Newest + 1 /\ Newest \in Nat
    <3>1. window = Newest + 1
      BY DEF Admit, IInv, Stands
    <3> QED
      BY <2>1, <3>1, Appended, Shape DEF IInv
  <2>3. \A i \in 1 .. Len(stored) : stored[i] # PublicOf(Newest')
    BY <2>2 DEF BusInv, PublicOf
  <2>4. /\ Len(stored') = Len(stored) /\ history' \in Seq(Id) /\ stored' \in Seq(Id)
        /\ StoredOncePerBus'
    BY <1>1 DEF BusInv, StoredOncePerBus
  <2>5. \A i \in 1 .. Len(stored) : stored[i][1] = "public" => stored[i][2] <= Newest + 1
    <3>1. \A i \in 1 .. Len(stored) : stored[i] \in Id
      <4> HIDE DEF Id
      <4> QED
        BY DEF BusInv
    <3>2. \A i \in 1 .. Len(stored) : stored[i][2] \in Nat
      BY <3>1 DEF Id
    <3>3. \A i \in 1 .. Len(stored) : stored[i][1] = "public" => stored[i][2] <= Newest
      BY DEF BusInv
    <3> QED
      BY <2>2, <3>2, <3>3
  <2> QED
    BY <1>1, <2>2, <2>3, <2>4, <2>5 DEF BusInv
<1> QED
  BY <1>2, <1>3

\* Every step keeps what the bus remembers.
LEMMA BusSteps == ASSUME HistoryLimit >= 2, IInv, BusInv, [Next]_vars PROVE BusInv'
<1>1. ASSUME UNCHANGED <<log, delivered, domainDone, receipts, history, stored>> PROVE BusInv'
  <2>1. Newest' = Newest /\ OpenDomains' = OpenDomains
    BY <1>1 DEF Newest, OpenDomains, WithDomain
  <2> QED
    BY <1>1, <2>1, BusKept
<1>2. CASE Start \/ Observe \/ DropTarget \/ NothingDue \/ Rest \/ Wake \/ StartAgain
  BY <1>1, <1>2 DEF Start, Observe, DropTarget, NothingDue, Rest, Wake, StartAgain,
     publisherVars, durable, bus
<1>3. CASE Retry \/ Notify \/ SetMode \/ RestoreRefuses \/ TimePasses
  BY <1>1, <1>3 DEF Retry, Notify, SetMode, RestoreRefuses, TimePasses, publisherVars, durable, bus
<1>4. CASE CallPublisher \/ Advance \/ Reject \/ Damage
  BY <1>1, <1>4 DEF CallPublisher, Advance, Reject, Damage, DamageSlot, durable, bus
<1>5. CASE UNCHANGED vars
  BY <1>1, <1>5 DEF vars, publisherVars, durable, bus
<1>6. CASE Crash \/ Restore \/ RestoreFails
  <2>1. history' = <<>> /\ stored' = <<>>
    BY <1>6 DEF Crash, CrashPublisher, Restore, RestorePublisher, RestoreFails, RestoreDies, Volatile
  <2> QED
    BY <2>1, Emptied
<1>7. CASE Publishing
  <2>0. UNCHANGED driverVars
    BY <1>7 DEF Publishing
  <2>1. CASE Begin \/ NoDomainDue \/ ConfirmHot
    BY <1>1, <2>1 DEF Begin, NoDomainDue, ConfirmHot, durable, bus
  <2>2. CASE MarkDelivered
    <3>1. UNCHANGED <<log, domainDone, receipts, history, stored>> /\ delivered \subseteq delivered'
      BY <2>2 DEF MarkDelivered, bus, StoreCall
    <3>2. Newest' = Newest /\ OpenDomains' = OpenDomains
      BY <3>1 DEF Newest, OpenDomains, WithDomain
    <3> QED
      BY <3>1, <3>2, BusKept
  <2>3. CASE SaveReceipt
    <3>1. UNCHANGED <<log, domainDone, delivered, history, stored>> /\ Newest \in delivered
      BY <2>3 DEF SaveReceipt, bus, IInv, Stands
    <3>2. Newest' = Newest
      BY <3>1 DEF Newest
    <3> QED
      BY <3>1, <3>2, BusKept
  <2> QED
    BY <1>7, <2>0, <2>1, <2>2, <2>3, DispatchDomainBus, PublishBus, AdmitBus DEF Publishing, PublisherStep
<1> QED
  BY <1>2, <1>3, <1>4, <1>5, <1>6, <1>7 DEF Next

\* The bus of a process stores no window twice, whatever fails and is retried, when
\* it remembers at least two identities of the type (the limit of main.py is 2).
THEOREM WindowsStoredOnce ==
    ASSUME HistoryLimit >= 2
    PROVE  Spec => []StoredOncePerBus
<1>1. Init => BusInv
  BY BusEmpty DEF Init, PublisherInit
<1>2. IInv /\ BusInv /\ [Next]_vars => BusInv'
  BY BusSteps
<1>3. BusInv => StoredOncePerBus
  BY DEF BusInv
<1> QED
  BY <1>1, <1>2, <1>3, Invariance, PTL DEF Spec

-----------------------------------------------------------------------------
Running == loop \notin {"start", "failed", "down", "refused"}
InCatchUp == loop \in {"retry", "window", "called", "notify"}

\* The wall time of the windows run since the task was started, up to window w.
Spent(w) == (w - base) * Period

\* No pause and no resume since the task last looked at the world stream.
Steady == ~paused /\ modeRev = seenRev

\* The types of what the catch-up reckons with.
Reckoned ==
    /\ now \in Nat /\ modeRev \in Nat /\ seenRev \in Nat /\ base \in Nat /\ origin \in Nat
    /\ started \in Nat /\ target \in Nat /\ active \in Nat
    /\ started <= now /\ seenRev <= modeRev

\* What the clock, the origin of the catch-up and its target may claim of the
\* unpaused time: a claim of the origin and the target is only used while Steady.
Claims ==
    /\ Spent(clock) <= active
    /\ Steady /\ ~wasPaused => Spent(origin) + (now - started) <= active
    /\ Steady /\ InCatchUp => Spent(target) <= active
Budget ==
    wall => /\ Reckoned
            /\ loop = "called" => Steady /\ window <= target
            /\ Running => Claims

\* Whole periods take no more time than there is.
LEMMA WholePeriods ==
    ASSUME NEW d \in Nat PROVE (d \div Period) \in Nat /\ (d \div Period) * Period <= d
BY CadenceAssumption

\* More windows take more time.
LEMMA SpentGrows ==
    ASSUME Reckoned, NEW v \in Nat, NEW w \in Nat, v <= w
    PROVE  Spent(v) <= Spent(w) /\ Spent(v) \in Int /\ Spent(w) \in Int
<1>1. Period \in Nat /\ base \in Nat
  BY CadenceAssumption DEF Reckoned
<1>2. (w - base) * Period = (v - base) * Period + (w - v) * Period
  BY <1>1
<1>3. (w - v) * Period \in Nat /\ (v - base) * Period \in Int
  BY <1>1
<1> QED
  BY <1>2, <1>3 DEF Spent

\* The iteration is planned: what is due is at most the unpaused time, and after a
\* pause or a resume nothing of the time before counts (the comment at
\* population_driver.py 321).
LEMMA ObserveBudget == ASSUME IInv, Budget, wall, Observe PROVE Budget'
<1> DEFINE since == IF ModeMoved THEN now ELSE started
           from == IF ModeMoved THEN clock ELSE origin
           due == from + (now - since) \div Period
<1>0. Reckoned /\ clock \in Nat /\ loop = "observe" /\ Claims /\ Period \in Nat
  BY CadenceAssumption DEF Budget, Running, Observe, IInv, Ticks
<1>1. /\ UNCHANGED <<wall, now, paused, modeRev, clock, window, base, active>>
      /\ wasPaused' = paused /\ seenRev' = modeRev
      /\ loop' \in {"rest", "retry", "window"}
  BY DEF Observe, publisherVars, world
<1>2. /\ started' = since /\ origin' = from
      /\ target' = IF due > clock THEN due ELSE clock
  BY Zenon DEF Observe
<1>3. since \in Nat /\ from \in Nat /\ since <= now /\ now - since \in Nat
  BY <1>0 DEF Reckoned
<1>4. Spent(from) + (now - since) <= active
  <2>1. CASE ModeMoved
    <3>1. Spent(clock) \in Int
      BY <1>0, SpentGrows
    <3> QED
      BY <1>0, <2>1, <3>1 DEF Reckoned, Claims
  <2>2. CASE ~ModeMoved
    BY <1>0, <2>2 DEF ModeMoved, Claims, Steady
  <2> QED
    BY <2>1, <2>2
<1>5. due \in Nat /\ Spent(due) <= Spent(from) + (now - since)
  <2> HIDE DEF since, from
  <2> DEFINE k == (now - since) \div Period
  <2>1. k \in Nat /\ k * Period <= now - since
    BY <1>3, WholePeriods
  <2>4. due = from + k
    OBVIOUS
  <2> HIDE DEF k, due
  <2>2. (from + k - base) * Period = (from - base) * Period + k * Period
    BY <1>0, <1>3, <2>1 DEF Reckoned
  <2>3. (from - base) * Period \in Int /\ k * Period \in Int
    BY <1>0, <1>3, <2>1 DEF Reckoned
  <2> QED
    BY <1>0, <1>3, <2>1, <2>2, <2>3, <2>4 DEF Spent, Reckoned
<1> HIDE DEF since, from, due
<1>6. Reckoned'
  BY <1>0, <1>1, <1>2, <1>3, <1>5 DEF Reckoned
<1>7. Spent(clock) \in Int /\ Spent(from) \in Int /\ Spent(due) \in Int
  BY <1>0, <1>3, <1>5, SpentGrows
<1>8. Spent(target') <= active
  <2>1. Spent(due) <= active
    BY <1>0, <1>3, <1>4, <1>5, <1>7 DEF Reckoned
  <2> QED
    BY <1>0, <1>2, <2>1 DEF Claims
<1>9. Claims'
  BY <1>0, <1>1, <1>2, <1>4, <1>8 DEF Claims, Spent
<1> QED
  BY <1>1, <1>6, <1>9 DEF Budget

\* The steps that plan nothing and run no window.
LEMMA PlanKept ==
    ASSUME Budget, UNCHANGED <<now, paused, modeRev, seenRev, base, origin, started, active, wasPaused>>,
           clock' = clock \/ ~Running', target' \in {target, 0}, wall' = wall,
           loop' # "called" \/ (loop = "called" /\ window' = window /\ target' = target),
           InCatchUp' => InCatchUp /\ target' = target,
           Running' => Running
    PROVE  Budget'
<1> SUFFICES ASSUME wall PROVE Budget'
  BY DEF Budget
<1>1. Reckoned'
  BY DEF Budget, Reckoned
<1>2. Steady' <=> Steady
  BY DEF Steady
<1>3. Running' => Claims'
  BY <1>2 DEF Budget, Claims, Spent
<1>4. loop' = "called" => Steady' /\ window' <= target'
  BY <1>2 DEF Budget
<1> QED
  BY <1>1, <1>3, <1>4 DEF Budget

\* A step keeps the reckoning of the unpaused time.
LEMMA BudgetSteps == ASSUME IInv, Budget, [Next]_vars PROVE Budget'
<1> USE DEF publisherVars, durable, bus, driverVars, world, plan
<1>0. clock \in Nat /\ window \in Nat /\ wall' = wall
  <2>1. UNCHANGED driverVars => wall' = wall
    OBVIOUS
  <2>2. wall' = wall
    BY <2>1 DEF Next, Start, Observe, Retry, DropTarget, NothingDue, CallPublisher, Publishing,
       Advance, Notify, Reject, Rest, Wake, StartAgain, SetMode, TimePasses, Crash, Damage,
       Restore, RestoreFails, RestoreRefuses, vars
  <2> QED
    BY <2>2 DEF IInv, Ticks
<1> SUFFICES ASSUME wall PROVE Budget'
  BY <1>0 DEF Budget
<1>1. Reckoned
  BY DEF Budget
<1>2. CASE Start
  <2>1. /\ origin' = clock /\ started' = now /\ seenRev' = modeRev /\ base' = clock /\ active' = 0
        /\ loop' = "observe" /\ UNCHANGED <<now, paused, modeRev, clock, target>>
    BY <1>2 DEF Start
  <2>2. (clock - clock) * Period = 0
    BY <1>0, CadenceAssumption
  <2>3. Reckoned'
    BY <1>0, <1>1, <2>1 DEF Reckoned
  <2>4. Claims'
    BY <1>1, <2>1, <2>2 DEF Claims, Spent, InCatchUp, Reckoned
  <2> QED
    BY <2>1, <2>3, <2>4 DEF Budget
<1>3. CASE Observe
  BY <1>3, ObserveBudget
<1>4. CASE DropTarget
  <2>1. /\ started' = now /\ origin' = clock /\ seenRev' = modeRev /\ loop' = "rest" /\ loop = "window"
        /\ UNCHANGED <<now, paused, modeRev, clock, target, base, active>>
    BY <1>4 DEF DropTarget
  <2>2. Reckoned'
    BY <1>0, <1>1, <2>1 DEF Reckoned
  <2>3. Spent(clock) <= active /\ Spent(clock) \in Int
    BY <1>0, <1>1, <2>1, SpentGrows DEF Budget, Claims, Running
  <2>4. Claims'
    BY <1>1, <2>1, <2>3 DEF Claims, Spent, InCatchUp, Reckoned
  <2> QED
    BY <2>1, <2>2, <2>4 DEF Budget
<1>5. CASE NothingDue \/ StartAgain \/ RestoreRefuses
  BY <1>5, PlanKept DEF NothingDue, StartAgain, RestoreRefuses, Running, InCatchUp
<1>6. CASE Rest \/ Wake
  BY <1>6, PlanKept DEF Rest, Wake, Running, InCatchUp
<1>7. CASE Damage \/ UNCHANGED vars
  BY <1>7, PlanKept DEF Damage, DamageSlot, vars, Running, InCatchUp
<1>8. CASE CallPublisher
  <2>1. /\ loop = "window" /\ loop' = "called" /\ Steady /\ clock + 1 <= target /\ window' = clock + 1
        /\ UNCHANGED <<now, paused, modeRev, seenRev, base, origin, started, active, wasPaused, clock, target>>
    BY <1>8 DEF CallPublisher, Steady
  <2>2. Reckoned' /\ Claims' /\ Steady'
    BY <1>1, <2>1 DEF Budget, Reckoned, Claims, Steady, Spent, Running, InCatchUp
  <2> QED
    BY <2>1, <2>2 DEF Budget
<1>9. CASE Publishing
  <2>1. loop = "called" /\ UNCHANGED driverVars /\ window' = window
    BY <1>9 DEF Publishing, PublisherStep, Begin, NoDomainDue, DispatchDomain, Admit, Publish,
       MarkDelivered, ConfirmHot, SaveReceipt
  <2> QED
    BY <2>1, PlanKept DEF Running, InCatchUp
<1>10. CASE Advance
  <2>1. /\ loop = "called" /\ loop' = "notify" /\ clock' = window
        /\ UNCHANGED <<now, paused, modeRev, seenRev, base, origin, started, active, wasPaused, target>>
    BY <1>10 DEF Advance
  <2>2. Steady /\ window <= target /\ Claims
    BY <2>1 DEF Budget, Running
  <2>3. Spent(target) <= active
    BY <2>1, <2>2 DEF Claims, InCatchUp
  <2>4. Spent(window) <= active
    BY <1>0, <1>1, <2>2, <2>3, SpentGrows DEF Reckoned
  <2>5. Reckoned'
    BY <1>1, <2>1 DEF Reckoned
  <2>6. Claims'
    BY <2>1, <2>2, <2>4 DEF Claims, Spent, Steady, InCatchUp
  <2> QED
    BY <2>1, <2>5, <2>6 DEF Budget
<1>11. ASSUME Gone, loop' \notin {"called"}, ~Running', UNCHANGED world PROVE Budget'
  BY <1>1, <1>11 DEF Gone, Budget, Reckoned
<1>12. CASE Reject \/ Crash
  BY <1>11, <1>12 DEF Reject, Crash, Running
<1>13. CASE Restore \/ RestoreFails
  <2>1. UNCHANGED <<wall, now, paused, modeRev, seenRev, base, origin, started, active, wasPaused, target>>
        /\ loop' \in {"start", "down"}
    <3>1. CASE Restore
      BY <3>1 DEF Restore
    <3>2. CASE RestoreFails
      BY <3>2 DEF RestoreFails
    <3> QED
      BY <1>13, <3>1, <3>2
  <2> QED
    BY <1>1, <2>1 DEF Budget, Reckoned, Running
<1>14. CASE Retry \/ Notify
  <2>1. CASE loop' = "window"
    BY <1>14, <2>1, PlanKept DEF Retry, Notify, Running, InCatchUp
  <2>2. CASE loop' = "failed"
    <3>1. Gone /\ UNCHANGED world
      BY <1>14, <2>2 DEF Retry, Notify
    <3> QED
      BY <1>11, <2>2, <3>1 DEF Running
  <2> QED
    BY <1>14, <2>1, <2>2 DEF Retry, Notify
<1>15. CASE SetMode
  <2>1. /\ loop \notin {"called", "notify"} /\ modeRev' = modeRev + 1
        /\ UNCHANGED <<now, seenRev, base, origin, started, active, wasPaused, target, clock, loop, window>>
    BY <1>15 DEF SetMode, BetweenCommands
  <2>2. ~Steady' /\ Reckoned'
    BY <1>1, <2>1 DEF Steady, Reckoned
  <2>3. Running' => Claims'
    BY <2>1, <2>2 DEF Budget, Claims, Running, Spent
  <2> QED
    BY <2>1, <2>2, <2>3 DEF Budget
<1>16. CASE TimePasses
  <2>1. /\ loop \notin {"called", "notify"} /\ now' = now + 1
        /\ active' = IF paused \/ ~Running THEN active ELSE active + 1
        /\ UNCHANGED <<paused, modeRev, seenRev, base, origin, started, wasPaused, target, clock, loop, window>>
    BY <1>16 DEF TimePasses, BetweenCommands, Running
  <2>2. Reckoned' /\ (Steady' <=> Steady) /\ (Running' <=> Running) /\ (InCatchUp' <=> InCatchUp)
    BY <1>1, <2>1 DEF Steady, Reckoned, Running, InCatchUp
  <2>3. ASSUME Running PROVE Claims'
    <3>1. Spent(clock) \in Int /\ Spent(origin) \in Int /\ Spent(target) \in Int
      BY <1>0, <1>1, SpentGrows DEF Reckoned
    <3>2. UNCHANGED <<Spent(clock), Spent(origin), Spent(target)>>
      BY <2>1 DEF Spent
    <3>3. active \in Nat /\ active' \in Nat /\ active <= active' /\ (Steady => active' = active + 1)
      BY <1>1, <2>1, <2>3 DEF Reckoned, Steady
    <3>4. Claims
      BY <2>3 DEF Budget
    <3> QED
      BY <1>1, <2>1, <2>2, <3>1, <3>2, <3>3, <3>4 DEF Claims, Reckoned
  <2> QED
    BY <2>1, <2>2, <2>3 DEF Budget
<1> QED
  BY <1>2, <1>3, <1>4, <1>5, <1>6, <1>7, <1>8, <1>9, <1>10, <1>12, <1>13, <1>14, <1>15, <1>16 DEF Next

\* With a wall period the task never runs more windows than periods of unpaused time
\* since it was started, whatever is paused and resumed and whenever.
THEOREM PausedTimeNotCaughtUp == Spec => []CatchUpOnlyForActiveTime
<1>1. Init => Budget
  BY DEF Init, Budget, Reckoned, Running, PublisherInit
<1>2. IInv /\ Budget /\ [Next]_vars => Budget'
  BY BudgetSteps
<1>3. Budget => CatchUpOnlyForActiveTime
  BY DEF Budget, Claims, CatchUpOnlyForActiveTime, Running, Spent
<1> QED
  BY <1>1, <1>2, <1>3, Invariance, PTL DEF Spec

=============================================================================
