------------------------- MODULE OutboxDispatchProofs -------------------------
(***************************************************************************)
(* What the passes of the outbox dispatcher keep, for any transactions,    *)
(* entries, dispatchers, page size and faults: see the README.             *)
(***************************************************************************)
EXTENDS OutboxDispatch, FiniteSetTheorems, SequenceTheorems, TLAPS

\* The rank of a member among the members of a finite set of numbers orders them.
LEMMA RankOrders ==
  ASSUME NEW S \in SUBSET Nat, IsFiniteSet(S), NEW e \in S, NEW f \in S
  PROVE  LET Rank(g) == Cardinality({h \in S : h <= g})
         IN  /\ Rank(e) \in 1..Cardinality(S)
             /\ e < f => Rank(e) < Rank(f)
<1> DEFINE Below(g) == {h \in S : h <= g}
<1>1. \A g \in S : IsFiniteSet(Below(g)) /\ Cardinality(Below(g)) \in Nat /\ Cardinality(Below(g)) <= Cardinality(S)
  BY FS_Subset, FS_CardinalityType
<1>2. Cardinality(S) \in Nat
  BY FS_CardinalityType
<1>3. Cardinality(Below(e)) # 0
  <2>1. e \in Below(e)
    OBVIOUS
  <2> QED
    BY <1>1, <2>1, FS_EmptySet
<1>4. ASSUME e < f PROVE Cardinality(Below(e)) < Cardinality(Below(f))
  <2>1. Below(e) \in SUBSET Below(f)
    <3>1. \A h \in S : h <= e => h <= f
      BY <1>4
    <3> QED
      BY <3>1
  <2>2. f \in Below(f) /\ f \notin Below(e)
    BY <1>4
  <2> HIDE DEF Below
  <2>3. Cardinality(Below(e)) <= Cardinality(Below(f)) /\ Cardinality(Below(e)) # Cardinality(Below(f))
    BY <1>1, <2>1, <2>2, FS_Subset
  <2> QED
    BY <1>1, <2>3
<1> HIDE DEF Below
<1>5. Cardinality(Below(e)) \in 1..Cardinality(S)
  BY <1>1, <1>2, <1>3
<1> QED
  BY <1>4, <1>5 DEF Below

\* Every rank up to the size of the set is the rank of one of its members.
LEMMA RankOnto ==
  ASSUME NEW S \in SUBSET Nat, IsFiniteSet(S)
  PROVE  \A i \in 1..Cardinality(S) : \E e \in S : Cardinality({h \in S : h <= e}) = i
<1> DEFINE Rank(e) == Cardinality({h \in S : h <= e})
           r == [e \in S |-> Rank(e)]
           K == Cardinality(S)
<1>1. K \in Nat
  BY FS_CardinalityType
<1>2. \A e, f \in S : Rank(e) \in 1..K /\ (e < f => Rank(e) < Rank(f))
  BY RankOrders
<1> HIDE DEF Rank, K
<1>3. r \in Injection(S, 1..K)
  <2>1. r \in [S -> 1..K]
    BY <1>2
  <2>2. ASSUME NEW e \in S, NEW f \in S, r[e] = r[f] PROVE e = f
    <3>1. Rank(e) = Rank(f) /\ e \in Nat /\ f \in Nat /\ Rank(e) \in Int /\ Rank(f) \in Int
      BY <1>2, <2>2
    <3>2. ~(e < f) /\ ~(f < e)
      BY <1>2, <3>1
    <3> QED
      BY <3>1, <3>2
  <2> QED
    BY <2>1, <2>2 DEF Injection, IsInjective
<1>4. IsFiniteSet(1..K) /\ Cardinality(1..K) = K
  BY <1>1, FS_Interval
<1>5. r \in Surjection(S, 1..K)
  BY <1>3, <1>4, FS_Injection DEF K
<1> QED
  BY <1>5 DEF Surjection, Rank, K


\* A page lists the members of its set in increasing order.
LEMMA PageIsOrdered ==
  ASSUME NEW S \in SUBSET Nat, IsFiniteSet(S), NEW n \in Int
  PROVE  /\ First(S, n) \in Seq(S)
         /\ \A i, j \in 1..Len(First(S, n)) : i < j => First(S, n)[i] < First(S, n)[j]
<1> DEFINE keep == {e \in S : Cardinality({g \in S : g <= e}) <= n}
           K == Cardinality(keep)
           Rank(e) == Cardinality({g \in keep : g <= e})
           page == [i \in 1..K |-> CHOOSE e \in keep : Rank(e) = i]
<1>1. keep \in SUBSET S /\ keep \in SUBSET Nat /\ IsFiniteSet(keep) /\ K \in Nat
  BY FS_Subset, FS_CardinalityType
<1>2. \A e, f \in keep : Rank(e) \in 1..K /\ (e < f => Rank(e) < Rank(f))
  BY <1>1, RankOrders
<1>3. \A i \in 1..K : \E e \in keep : Rank(e) = i
  BY <1>1, RankOnto
<1>4. First(S, n) = page
  BY DEF First
<1> HIDE DEF keep, Rank, K
<1>5. \A i \in 1..K : page[i] \in keep /\ Rank(page[i]) = i
  BY <1>3
<1>6. page \in Seq(S) /\ Len(page) = K
  <2>1. \A i \in 1..K : page[i] \in S
    BY <1>1, <1>5
  <2>2. page \in [1..K -> S]
    BY <2>1
  <2> QED
    BY <1>1, <2>2, SeqDef, LenProperties
<1>7. ASSUME NEW i \in 1..K, NEW j \in 1..K, i < j PROVE page[i] < page[j]
  <2>1. page[i] \in Nat /\ page[j] \in Nat
    BY <1>1, <1>5
  <2>2. ~(page[j] < page[i]) /\ page[i] # page[j]
    BY <1>2, <1>5, <1>7
  <2> QED
    BY <2>1, <2>2
<1> QED
  BY <1>4, <1>6, <1>7
------------------------------------------------------------------------------
Frames == [by : Dispatchers, high : Nat, cursor : Nat, page : Seq(Nat), left : Int \cup {NoLimit},
           tried : SUBSET Nat, asked : SUBSET Nat, at : {"deliver", "publishing", "published", "refresh", "refreshing"}]

Types ==
    /\ committed \in Nat
    /\ state \in [Entries -> {"absent", "pending", "retryable", "delivered"}]
    /\ refresh \in [Txs -> {"absent", "none", "pending", "done"}]
    /\ stack \in Seq(Frames)

\* An entry is marked delivered only behind a publication that succeeded, and a
\* transaction done only when all of its entries were.
Published ==
    /\ \A e \in Entries : state[e] = "delivered" => e \in sent
    /\ \A i \in 1..Len(stack) : stack[i].at = "published" => stack[i].cursor \in sent
    /\ DoneWasPublishedAndRefreshed

\* What changing the innermost pass does to the passes.
LEMMA Becomes ==
  ASSUME Types, stack # <<>>, NEW f \in Frames, Become(f)
  PROVE  /\ stack' \in Seq(Frames) /\ Len(stack') = Len(stack) /\ Len(stack) \in Nat \ {0}
         /\ Top' = f
         /\ \A i \in 1..Len(stack) : stack'[i] = IF i = Len(stack) THEN f ELSE stack[i]
<1>1. Len(stack) \in Nat \ {0} /\ Len(stack) \in 1..Len(stack)
  BY EmptySeq DEF Types
<1> QED
  BY <1>1, ExceptSeq DEF Types, Become, Top

\* What the end of the innermost pass does to the passes.
LEMMA Pops ==
  ASSUME Types, stack # <<>>, Pop
  PROVE  /\ stack' \in Seq(Frames) /\ Len(stack') = Len(stack) - 1 /\ Len(stack) \in Nat \ {0}
         /\ \A i \in 1..Len(stack') : stack'[i] = stack[i]
<1>1. Len(stack) \in Nat \ {0}
  BY EmptySeq DEF Types
<1>2. \A i \in 1..(Len(stack) - 1) : stack[i] \in Frames
  BY <1>1, ElementOfSeq DEF Types
<1> DEFINE n == Len(stack) - 1
<1>3. n \in Int /\ stack' = SubSeq(stack, 1, n)
  BY <1>1 DEF Pop
<1> HIDE DEF n
<1>4. /\ SubSeq(stack, 1, n) \in Seq(Frames)
      /\ Len(SubSeq(stack, 1, n)) = IF 1 <= n THEN n - 1 + 1 ELSE 0
      /\ \A i \in 1..(n - 1 + 1) : SubSeq(stack, 1, n)[i] = stack[1 + i - 1]
  BY <1>2, <1>3, SubSeqProperties DEF n
<1>5. n >= 0 /\ n = Len(stack) - 1
  BY <1>1 DEF n
<1>6. Len(stack') = n
  BY <1>3, <1>4, <1>5
<1>7. \A i \in 1..n : 1 + i - 1 = i /\ n - 1 + 1 = n
  BY <1>3
<1>8. \A i \in 1..n : stack'[i] = stack[i]
  BY <1>3, <1>4, <1>7
<1> QED
  BY <1>1, <1>3, <1>4, <1>5, <1>6, <1>8

\* The innermost pass is one of them.
LEMMA TopIsFrame ==
  ASSUME Types, stack # <<>>
  PROVE  /\ Top \in Frames /\ Len(stack) \in Nat \ {0} /\ Len(stack) \in 1..Len(stack)
<1>1. Len(stack) \in Nat \ {0} /\ Len(stack) \in 1..Len(stack)
  BY EmptySeq DEF Types
<1> QED
  BY <1>1, ElementOfSeq DEF Types, Top

\* What is left of a limit stays a limit, and a page has room for some number.
LEMMA LimitsAreNumbers ==
  ASSUME NEW f \in Frames
  PROVE  Spend(f.left) \in Int \cup {NoLimit} /\ Room(f) \in Int
<1>1. f.left \in Int \cup {NoLimit} /\ PageSize \in Int
  BY OutboxAssumption DEF Frames
<1>2. f.left # NoLimit => Min({PageSize, f.left}) \in Int
  BY <1>1 DEF Min
<1> QED
  BY <1>1, <1>2 DEF Spend, Room

\* The pages that are read list members of their sets, in order.
LEMMA PagesListed ==
  ASSUME NEW f \in Frames
  PROVE  /\ ListOutbox(f) \in Seq(Nat) /\ ListReady(f) \in Seq(Nat)
         /\ \A i \in 1..Len(ListOutbox(f)) :
               LET e == ListOutbox(f)[i]
               IN  e \in Entries /\ TxOf[e] <= committed /\ e > f.cursor /\ state[e] # "delivered"
         /\ \A i, j \in 1..Len(ListOutbox(f)) : i < j => ListOutbox(f)[i] < ListOutbox(f)[j]
<1> DEFINE S == {e \in Entries : /\ TxOf[e] <= committed /\ TxOf[e] <= f.high /\ e > f.cursor
                                /\ state[e] # "delivered"
                                /\ f.by.topic \in {AnyTopic, TopicOf[e]}}
           R == {t \in Txs : /\ t <= committed /\ t <= f.high /\ t > f.cursor
                            /\ refresh[t] = "pending" /\ Delivered(t)}
<1>1. S \in SUBSET Nat /\ IsFiniteSet(S)
  BY OutboxAssumption, FS_Subset
<1>2. R \in SUBSET Nat /\ IsFiniteSet(R)
  <2>1. IsFiniteSet(Txs) /\ Txs \in SUBSET Nat
    BY OutboxAssumption, FS_Interval DEF Txs
  <2> QED
    BY <2>1, FS_Subset
<1>3. ListOutbox(f) = First(S, Room(f)) /\ ListReady(f) = First(R, Room(f)) /\ Room(f) \in Int
  BY LimitsAreNumbers DEF ListOutbox, ListReady
<1> HIDE DEF R
<1>4. /\ ListOutbox(f) \in Seq(S) /\ ListReady(f) \in Seq(R)
      /\ \A i, j \in 1..Len(ListOutbox(f)) : i < j => ListOutbox(f)[i] < ListOutbox(f)[j]
  BY <1>1, <1>2, <1>3, PageIsOrdered
<1>5. \A i \in 1..Len(ListOutbox(f)) : ListOutbox(f)[i] \in S
  BY <1>4, ElementOfSeq
<1>6. ListOutbox(f) \in Seq(Nat) /\ ListReady(f) \in Seq(Nat)
  BY <1>1, <1>2, <1>4, SeqMonotonic
<1> QED
  BY <1>4, <1>5, <1>6
------------------------------------------------------------------------------
\* A pass that starts is added on top of the others.
LEMMA Starts ==
  ASSUME Types, NEW d \in Dispatchers, StartPass(d)
  PROVE  /\ Types' /\ Len(stack') = Len(stack) + 1 /\ Len(stack) \in Nat
         /\ stack'[Len(stack) + 1] = Frame(d)
         /\ \A i \in 1..Len(stack) : stack'[i] = stack[i]
<1>1. stack' = Append(stack, Frame(d)) /\ UNCHANGED <<committed, state, refresh>>
  BY DEF StartPass
<1>2. Frame(d) \in Frames
  <2>1. d.limit \in Int \cup {NoLimit} /\ committed \in Nat /\ <<>> \in Seq(Nat)
    BY OutboxAssumption DEF Types
  <2> QED
    BY <2>1 DEF Frame, Frames
<1>3. /\ Append(stack, Frame(d)) \in Seq(Frames) /\ Len(Append(stack, Frame(d))) = Len(stack) + 1
      /\ Append(stack, Frame(d))[Len(stack) + 1] = Frame(d)
      /\ \A i \in 1..Len(stack) : Append(stack, Frame(d))[i] = stack[i]
      /\ Len(stack) \in Nat
  BY <1>2, AppendProperties, LenProperties DEF Types
<1> QED
  BY <1>1, <1>3 DEF Types

\* The steps of a pass make a pass of the innermost one, or end it.
LEMMA StepsTyped ==
  ASSUME Types, Step
  PROVE  /\ Types' /\ stack # <<>>
         /\ Pop \/ \E f \in Frames : Become(f) /\ (f.at = "published" => f.cursor \in sent')
<1> USE DEF Types, Running
<1>1. stack # <<>> /\ Top \in Frames
  BY TopIsFrame DEF Step, ReadPage, TakeEntry, Publish, PublishFails, MarkDelivered, StoreFails,
                    ReadReadyPage, TakeTransaction, Refresh, RefreshFails
<1>2. Spend(Top.left) \in Int \cup {NoLimit} /\ Top.by.limit \in Int \cup {NoLimit}
  <2>1. Top.by \in Dispatchers
    BY <1>1 DEF Frames
  <2>2. Top.by.limit = NoLimit \/ Top.by.limit \in Nat
    BY <2>1, OutboxAssumption
  <2>3. Spend(Top.left) \in Int \cup {NoLimit}
    BY <1>1, LimitsAreNumbers
  <2> QED
    BY <2>2, <2>3
<1>3. Top.page # <<>> => Head(Top.page) \in Nat /\ Tail(Top.page) \in Seq(Nat)
  BY <1>1, HeadTailProperties DEF Frames
<1>4. ListOutbox(Top) \in Seq(Nat) /\ ListReady(Top) \in Seq(Nat) /\ <<>> \in Seq(Nat)
  BY <1>1, PagesListed
<1>5. ASSUME NEW f \in Frames, Become(f), f.at = "published" => f.cursor \in sent', committed' = committed,
             state' \in [Entries -> {"absent", "pending", "retryable", "delivered"}],
             refresh' \in [Txs -> {"absent", "none", "pending", "done"}]
      PROVE  Types' /\ \E g \in Frames : Become(g) /\ (g.at = "published" => g.cursor \in sent')
  BY <1>5, <1>1, Becomes
<1>6. ASSUME Pop, UNCHANGED <<committed, state, refresh>> PROVE Types'
  BY <1>1, <1>6, Pops
<1>7. CASE ReadPage
  <2>1. PICK page \in Seq(Nat) :
            Become(IF page # <<>> THEN [Top EXCEPT !.page = page]
                   ELSE [Top EXCEPT !.at = "refresh", !.cursor = 0, !.left = Top.by.limit])
    BY <1>4, <1>7 DEF ReadPage
  <2>2. [Top EXCEPT !.page = page] \in Frames /\ [Top EXCEPT !.page = page].at = "deliver"
    BY <1>1, <1>7 DEF Frames, ReadPage
  <2>3. /\ [Top EXCEPT !.at = "refresh", !.cursor = 0, !.left = Top.by.limit] \in Frames
        /\ [Top EXCEPT !.at = "refresh", !.cursor = 0, !.left = Top.by.limit].at = "refresh"
    BY <1>1, <1>2 DEF Frames
  <2>4. UNCHANGED <<committed, state, refresh>>
    BY <1>7 DEF ReadPage
  <2>5. PICK f \in Frames : Become(f) /\ f.at # "published"
    BY <2>1, <2>2, <2>3
  <2> QED
    BY <1>1, <1>5, <2>4, <2>5
<1>8. CASE TakeEntry
  <2>1. Head(Top.page) \in Nat /\ Tail(Top.page) \in Seq(Nat)
    BY <1>3, <1>8 DEF TakeEntry
  <2> DEFINE next == [Top EXCEPT !.cursor = Head(Top.page), !.page = Tail(@)]
  <2>2. next \in Frames /\ next.at = "deliver"
    BY <1>1, <1>8, <2>1 DEF Frames, TakeEntry
  <2>3. [next EXCEPT !.at = "publishing"] \in Frames /\ [next EXCEPT !.at = "publishing"].at = "publishing"
    BY <2>2 DEF Frames
  <2>4. UNCHANGED <<committed, state, refresh>> /\ (Become(next) \/ Become([next EXCEPT !.at = "publishing"]))
    BY <1>8 DEF TakeEntry
  <2>5. PICK f \in Frames : Become(f) /\ f.at # "published"
    BY <2>2, <2>3, <2>4
  <2> QED
    BY <1>1, <1>5, <2>4, <2>5
<1>9. CASE Publish
  <2> DEFINE f == [Top EXCEPT !.at = "published"]
  <2>1. f \in Frames /\ f.cursor = Top.cursor
    BY <1>1 DEF Frames
  <2>2. Become(f) /\ Top.cursor \in sent' /\ UNCHANGED <<committed, state, refresh>>
    BY <1>9 DEF Publish
  <2> HIDE DEF f
  <2> QED
    BY <1>1, <1>5, <2>1, <2>2
<1>10. CASE PublishFails \/ MarkDelivered
  <2> DEFINE f == Attempted(Top)
  <2>1. f \in Frames /\ f.at = "deliver"
    BY <1>1, <1>2 DEF Frames, Attempted
  <2>2. /\ Become(f) /\ UNCHANGED <<committed, refresh>>
        /\ state' \in [Entries -> {"absent", "pending", "retryable", "delivered"}]
    BY <1>10 DEF PublishFails, MarkDelivered
  <2> HIDE DEF f
  <2> QED
    BY <1>1, <1>5, <2>1, <2>2
<1>11. CASE StoreFails
  <2>1. Pop /\ UNCHANGED <<committed, refresh>>
        /\ state' \in [Entries -> {"absent", "pending", "retryable", "delivered"}]
    BY <1>11 DEF StoreFails
  <2> QED
    BY <1>1, <2>1, Pops
<1>12. CASE ReadReadyPage
  <2>1. PICK page \in Seq(Nat) : IF page = <<>> THEN Pop ELSE Become([Top EXCEPT !.page = page])
    BY <1>4, <1>12 DEF ReadReadyPage
  <2>2. [Top EXCEPT !.page = page] \in Frames /\ [Top EXCEPT !.page = page].at = "refresh"
    BY <1>1, <1>12 DEF Frames, ReadReadyPage
  <2>3. UNCHANGED <<committed, state, refresh>>
    BY <1>12 DEF ReadReadyPage
  <2>4. CASE Pop
    BY <1>1, <1>6, <2>3, <2>4
  <2>5. CASE Become([Top EXCEPT !.page = page])
    BY <1>1, <1>5, <2>2, <2>3, <2>5
  <2> QED
    BY <2>1, <2>4, <2>5
<1>13. CASE TakeTransaction
  <2> DEFINE f == [Top EXCEPT !.at = "refreshing", !.cursor = Head(Top.page), !.page = Tail(@), !.left = Spend(@),
                              !.asked = @ \cup {Head(Top.page)}]
  <2>1. f \in Frames /\ f.at = "refreshing"
    BY <1>1, <1>2, <1>3, <1>13 DEF TakeTransaction, Frames
  <2>2. Become(f) /\ UNCHANGED <<committed, state, refresh>>
    BY <1>13 DEF TakeTransaction
  <2> HIDE DEF f
  <2> QED
    BY <1>1, <1>5, <2>1, <2>2
<1>14. CASE Refresh \/ RefreshFails
  <2> DEFINE f == [Top EXCEPT !.at = "refresh"]
  <2>1. f \in Frames /\ f.at = "refresh"
    BY <1>1 DEF Frames
  <2>2. /\ Become(f) /\ UNCHANGED <<committed, state>>
        /\ refresh' \in [Txs -> {"absent", "none", "pending", "done"}]
    BY <1>14 DEF Refresh, RefreshFails, MarkRefreshed
  <2> HIDE DEF f
  <2> QED
    BY <1>1, <1>5, <2>1, <2>2
<1> QED
  BY <1>7, <1>8, <1>9, <1>10, <1>11, <1>12, <1>13, <1>14 DEF Step
\* No step of a pass breaks what a delivery or a finished refresh stands for.
LEMMA PublishedKeptByStep ==
  ASSUME Types, Published, Step PROVE Published'
<1> USE DEF Published, Running, DoneWasPublishedAndRefreshed, EntriesOf
<1>1. Types' /\ stack # <<>> /\ sent \subseteq sent' /\ refreshed \subseteq refreshed'
  BY StepsTyped DEF Step, ReadPage, TakeEntry, Publish, PublishFails, MarkDelivered, StoreFails,
                    ReadReadyPage, TakeTransaction, Refresh, RefreshFails, MarkRefreshed
<1>2. \A i \in 1..Len(stack') : stack'[i].at = "published" => stack'[i].cursor \in sent'
  <2>1. CASE Pop
    BY <1>1, <2>1, Pops
  <2>2. ASSUME NEW f \in Frames, Become(f), f.at = "published" => f.cursor \in sent'
        PROVE  \A i \in 1..Len(stack') : stack'[i].at = "published" => stack'[i].cursor \in sent'
    BY <1>1, <2>2, Becomes
  <2> QED
    BY <2>1, <2>2, StepsTyped
<1>3. \A e \in Entries : state'[e] = "delivered" => e \in sent'
  <2>1. CASE UNCHANGED state
    BY <1>1, <2>1
  <2>2. CASE PublishFails
    BY <1>1, <2>2 DEF PublishFails, Types
  <2>3. CASE MarkDelivered
    <3>1. Top.cursor \in sent
      BY <2>3, TopIsFrame DEF MarkDelivered, Top
    <3> QED
      BY <1>1, <2>3, <3>1 DEF MarkDelivered, Types
  <2>4. CASE StoreFails
    <3>1. Top.at = "published" => Top.cursor \in sent
      BY <1>1, TopIsFrame DEF Top
    <3> QED
      BY <1>1, <2>4, <3>1 DEF StoreFails, Types
  <2> QED
    BY <2>1, <2>2, <2>3, <2>4 DEF Step, ReadPage, TakeEntry, Publish,
                            ReadReadyPage, TakeTransaction, Refresh, RefreshFails
<1>4. DoneWasPublishedAndRefreshed'
  <2>1. CASE UNCHANGED refresh
    BY <1>1, <2>1
  <2>2. CASE MarkRefreshed
    <3>1. ASSUME NEW t \in Txs, refresh'[t] = "done", refresh[t] # "done"
          PROVE  t = Top.cursor /\ Delivered(t)
      BY <2>2, <3>1 DEF MarkRefreshed, Types
    <3>2. ASSUME NEW t \in Txs, refresh'[t] = "done"
          PROVE  t \in refreshed' /\ EntriesOf(t) \subseteq sent'
      BY <1>1, <2>2, <3>1, <3>2 DEF MarkRefreshed, Delivered
    <3> QED
      BY <3>2
  <2> QED
    BY <2>1, <2>2 DEF Step, ReadPage, TakeEntry, Publish, PublishFails, MarkDelivered, StoreFails,
                      ReadReadyPage, TakeTransaction, Refresh, RefreshFails
<1> QED
  BY <1>2, <1>3, <1>4

\* Nor does a commit, a pass that starts, or a crash.
LEMMA PublishedKept == Types /\ Published /\ [Next]_vars => Types' /\ Published'
<1> SUFFICES ASSUME Types, Published, [Next]_vars PROVE Types' /\ Published'
  OBVIOUS
<1>1. CASE Step
  BY <1>1, StepsTyped, PublishedKeptByStep
<1>2. CASE CommitTransaction
  <2>1. /\ committed' = committed + 1 /\ UNCHANGED <<stack, sent, refreshed>>
        /\ state' = [e \in Entries |-> IF TxOf[e] = committed' THEN "pending" ELSE state[e]]
        /\ \/ refresh' = [refresh EXCEPT ![committed'] = "pending"]
           \/ refresh' = [refresh EXCEPT ![committed'] = "none"]
    BY <1>2 DEF CommitTransaction
  <2>2. Types'
    BY <2>1 DEF Types
  <2>3. \A t \in Txs : refresh'[t] = "done" => refresh[t] = "done"
    BY <2>1 DEF Types
  <2> QED
    BY <2>1, <2>2, <2>3 DEF Published, DoneWasPublishedAndRefreshed, EntriesOf, Types
<1>3. ASSUME NEW d \in Dispatchers, StartPass(d) PROVE Types' /\ Published'
  <2>1. Frame(d).at = "deliver" /\ UNCHANGED <<state, refresh, sent, refreshed>>
    BY <1>3 DEF Frame, StartPass
  <2>2. \A i \in 1..Len(stack') : stack'[i].at = "published" => stack'[i].cursor \in sent'
    BY <1>3, <2>1, Starts DEF Published
  <2> QED
    BY <1>3, <2>1, <2>2, Starts DEF Published, DoneWasPublishedAndRefreshed, EntriesOf
<1>4. CASE Crash
  <2>1. stack' = <<>> /\ UNCHANGED <<committed, state, refresh, sent, refreshed>> /\ <<>> \in Seq(Frames) /\ Len(<<>>) = 0
    BY <1>4, EmptySeq DEF Crash
  <2> QED
    BY <2>1 DEF Types, Published, DoneWasPublishedAndRefreshed, EntriesOf
<1>5. CASE UNCHANGED vars
  BY <1>5 DEF vars, Types, Published, DoneWasPublishedAndRefreshed, EntriesOf
<1> QED
  BY <1>1, <1>2, <1>3, <1>4, <1>5 DEF Next

\* Before the first commit nothing is marked.
LEMMA InitiallyPublished == Init => Types /\ Published
BY OutboxAssumption, EmptySeq DEF Init, Types, Published, DoneWasPublishedAndRefreshed, EntriesOf

\* A refresh is marked done only after its callback ran and every entry of the
\* transaction was published, however passes nest, fail, repeat and crash
\* (_refresh_pending and mark_projection_refreshed, dispatcher.py).
THEOREM DoneNeedsPublication == Spec => []DoneWasPublishedAndRefreshed
<1>1. Published => DoneWasPublishedAndRefreshed
  BY DEF Published
<1> QED
  BY InitiallyPublished, PublishedKept, <1>1, PTL DEF Spec
------------------------------------------------------------------------------
(* What holds besides when no subscriber starts a pass of its own.           *)

Due(e, marks) == e \in Entries /\ marks[e] \in {"pending", "retryable"}

\* The store knows the committed transactions, and none is done before it is delivered.
Stored ==
    /\ \A e \in Entries : state[e] = "absent" <=> TxOf[e] > committed
    /\ \A t \in Txs : /\ refresh[t] = "absent" <=> t > committed
                      /\ refresh[t] = "none" => EntriesOf(t) = {}
                      /\ refresh[t] = "done" => Delivered(t)

\* What the pass has taken or read ahead is still to be delivered, in the order of the
\* outbox: nobody else delivers.
Ahead(f, marks) ==
    /\ f.at \in {"publishing", "published"} => Due(f.cursor, marks)
    /\ f.at \in {"deliver", "publishing", "published"} =>
          /\ \A i \in 1..Len(f.page) : Due(f.page[i], marks) /\ f.page[i] > f.cursor
          /\ \A i, j \in 1..Len(f.page) : i < j => f.page[i] < f.page[j]

Alone == Len(stack) <= 1 /\ (stack # <<>> => Ahead(Top, state))

AloneInv == Types /\ Stored /\ Alone

\* The facts of a step that makes f of the only pass.
LEMMA BecomesAlone ==
  ASSUME Types, Alone, stack # <<>>, NEW f \in Frames, Become(f), Ahead(f, state') PROVE Alone'
<1>1. Top' = f /\ Len(stack') = Len(stack)
  BY Becomes
<1> QED
  BY <1>1 DEF Alone

\* The end of the only pass leaves none.
LEMMA PopsAlone == ASSUME Types, Alone, stack # <<>>, Pop PROVE Alone'
<1>1. stack' \in Seq(Frames) /\ Len(stack') = Len(stack) - 1 /\ Len(stack) \in Nat \ {0}
  BY Pops
<1>2. Len(stack') = 0
  BY <1>1 DEF Alone
<1>3. stack' = <<>>
  BY <1>1, <1>2, EmptySeq
<1> QED
  BY <1>2, <1>3 DEF Alone

\* Deliveries: the cursor moves along the page, and only its entry changes.
LEMMA DeliveryAlone ==
  ASSUME AloneInv, ReadPage \/ TakeEntry \/ Publish \/ PublishFails \/ MarkDelivered
  PROVE  Stored' /\ Alone'
<1> USE DEF AloneInv, Running
<1>1. stack # <<>> /\ Top \in Frames /\ Ahead(Top, state) /\ committed' = committed /\ refresh' = refresh
  BY TopIsFrame DEF Alone, ReadPage, TakeEntry, Publish, PublishFails, MarkDelivered
<1>2. Top.page \in Seq(Nat) /\ Top.cursor \in Nat /\ Len(Top.page) \in Nat
  BY <1>1, LenProperties DEF Frames
<1>3. CASE ReadPage
  <2>1. UNCHANGED <<committed, state, refresh>>
    BY <1>3 DEF ReadPage
  <2>2. Stored'
    BY <2>1 DEF Stored, Delivered, EntriesOf
  <2>3. CASE Become([Top EXCEPT !.at = "refresh", !.cursor = 0, !.left = Top.by.limit])
    <3> DEFINE f == [Top EXCEPT !.at = "refresh", !.cursor = 0, !.left = Top.by.limit]
    <3>1. f.at = "refresh"
      BY <1>1 DEF Frames
    <3>2. f \in Frames
      <4>1. Top.by \in Dispatchers
        BY <1>1 DEF Frames
      <4>2. Top.by.limit = NoLimit \/ Top.by.limit \in Nat
        BY <4>1, OutboxAssumption
      <4>3. Top.by.limit \in Int \cup {NoLimit} /\ 0 \in Nat
        BY <4>2
      <4> QED
        BY <1>1, <4>3 DEF Frames
    <3> HIDE DEF f
    <3>3. Ahead(f, state')
      BY <3>1 DEF Ahead
    <3> QED
      BY <1>1, <2>2, <2>3, <3>2, <3>3, BecomesAlone DEF f
  <2>4. CASE Become([Top EXCEPT !.page = ListOutbox(Top)])
    <3> DEFINE f == [Top EXCEPT !.page = ListOutbox(Top)]
    <3>1. ListOutbox(Top) \in Seq(Nat) /\ Top.at = "deliver"
      BY <1>1, <1>3, PagesListed DEF ReadPage
    <3>2. f \in Frames /\ f.at = "deliver" /\ f.page = ListOutbox(Top) /\ f.cursor = Top.cursor
      BY <1>1, <3>1 DEF Frames
    <3> HIDE DEF f
    <3>3. \A i \in 1..Len(f.page) : Due(f.page[i], state) /\ f.page[i] > f.cursor
      <4> SUFFICES ASSUME NEW i \in 1..Len(f.page) PROVE Due(f.page[i], state) /\ f.page[i] > f.cursor
        OBVIOUS
      <4> DEFINE e == f.page[i]
      <4>1. e \in Entries /\ TxOf[e] <= committed /\ e > Top.cursor /\ state[e] # "delivered"
        BY <1>1, <3>2, PagesListed
      <4>2. state[e] # "absent"
        <5>1. TxOf[e] \in Nat /\ committed \in Nat
          <6>1. TxOf[e] \in Txs
            BY <4>1, OutboxAssumption
          <6> QED
            BY <6>1, OutboxAssumption DEF Types, Txs
        <5>2. ~(TxOf[e] > committed)
          BY <4>1, <5>1
        <5> QED
          BY <4>1, <5>2 DEF Stored
      <4> QED
        BY <3>2, <4>1, <4>2 DEF Due, Types
    <3>4. \A i, j \in 1..Len(f.page) : i < j => f.page[i] < f.page[j]
      BY <1>1, <3>2, PagesListed
    <3>5. Ahead(f, state')
      BY <2>1, <3>2, <3>3, <3>4 DEF Ahead, Due
    <3> QED
      BY <1>1, <2>2, <2>4, <3>2, <3>5, BecomesAlone DEF f
  <2> QED
    BY <1>3, <2>3, <2>4 DEF ReadPage
<1>4. CASE TakeEntry
  <2> DEFINE next == [Top EXCEPT !.cursor = Head(Top.page), !.page = Tail(@)]
             go == [next EXCEPT !.at = "publishing"]
  <2>1. UNCHANGED <<committed, state, refresh>> /\ Top.at = "deliver" /\ Top.page # <<>>
    BY <1>4 DEF TakeEntry
  <2>2. Stored'
    BY <2>1 DEF Stored, Delivered, EntriesOf
  <2>3. /\ Head(Top.page) = Top.page[1] /\ Head(Top.page) \in Nat
        /\ Tail(Top.page) \in Seq(Nat) /\ Len(Tail(Top.page)) = Len(Top.page) - 1 /\ Len(Top.page) \in Nat \ {0}
        /\ \A i \in 1..Len(Tail(Top.page)) : Tail(Top.page)[i] = Top.page[i + 1]
    BY <1>2, <2>1, HeadTailProperties, EmptySeq
  <2>4. /\ next \in Frames /\ next.at = "deliver"
        /\ go \in Frames /\ go.at = "publishing" /\ go.cursor = Top.page[1] /\ next.cursor = Top.page[1]
        /\ next.page = Tail(Top.page) /\ go.page = Tail(Top.page)
    BY <1>1, <2>1, <2>3 DEF Frames
  <2>5. Become(next) \/ Become(go)
    BY <1>4 DEF TakeEntry
  <2> HIDE DEF next, go
  <2>6. Due(Top.page[1], state')
    BY <1>1, <2>1, <2>3 DEF Ahead, Due
  <2>7. \A i \in 1..Len(Tail(Top.page)) : Due(Tail(Top.page)[i], state') /\ Tail(Top.page)[i] > Top.page[1]
    <3>1. /\ \A i \in 1..Len(Top.page) : Due(Top.page[i], state)
          /\ \A i, j \in 1..Len(Top.page) : i < j => Top.page[i] < Top.page[j]
      BY <1>1, <2>1 DEF Ahead
    <3>2. \A i \in 1..Len(Top.page) : Due(Top.page[i], state') /\ Top.page[i] \in Nat
      BY <1>2, <2>1, <3>1 DEF Due
    <3> SUFFICES ASSUME NEW i \in 1..Len(Tail(Top.page))
                 PROVE  Due(Tail(Top.page)[i], state') /\ Tail(Top.page)[i] > Top.page[1]
      OBVIOUS
    <3>3. i + 1 \in 1..Len(Top.page) /\ 1 \in 1..Len(Top.page) /\ 1 < i + 1
      BY <2>3
    <3>4. Top.page[1] < Top.page[i + 1] /\ Top.page[1] \in Nat /\ Top.page[i + 1] \in Nat
      BY <3>1, <3>2, <3>3
    <3> QED
      BY <2>3, <3>2, <3>3, <3>4
  <2>8. \A i, j \in 1..Len(Tail(Top.page)) : i < j => Tail(Top.page)[i] < Tail(Top.page)[j]
    BY <1>1, <1>2, <2>1, <2>3 DEF Ahead
  <2>9. Ahead(next, state') /\ Ahead(go, state')
    BY <2>4, <2>6, <2>7, <2>8 DEF Ahead
  <2> QED
    BY <1>1, <2>2, <2>4, <2>5, <2>9, BecomesAlone
<1>5. CASE Publish
  <2> DEFINE f == [Top EXCEPT !.at = "published"]
  <2>1. UNCHANGED <<committed, state, refresh>> /\ Top.at = "publishing" /\ Become(f)
    BY <1>5 DEF Publish
  <2>2. f \in Frames /\ f.at = "published" /\ f.cursor = Top.cursor /\ f.page = Top.page
    BY <1>1 DEF Frames
  <2> HIDE DEF f
  <2>3. Ahead(f, state')
    BY <1>1, <2>1, <2>2 DEF Ahead, Due
  <2>4. Stored'
    BY <2>1 DEF Stored, Delivered, EntriesOf
  <2> QED
    BY <1>1, <2>1, <2>2, <2>3, <2>4, BecomesAlone
<1>6. CASE PublishFails \/ MarkDelivered
  <2> DEFINE f == Attempted(Top)
  <2>1. /\ Top.at \in {"publishing", "published"} /\ Become(f) /\ Due(Top.cursor, state)
        /\ \E mark \in {"retryable", "delivered"} : state' = [state EXCEPT ![Top.cursor] = mark]
    BY <1>1, <1>6 DEF PublishFails, MarkDelivered, Ahead
  <2>2. f \in Frames /\ f.at = "deliver" /\ f.cursor = Top.cursor /\ f.page = Top.page
    <3>1. Spend(Top.left) \in Int \cup {NoLimit}
      BY <1>1, LimitsAreNumbers
    <3> QED
      BY <1>1, <1>2, <3>1 DEF Frames, Attempted
  <2> HIDE DEF f
  <2>3. \A e \in Entries : e # Top.cursor => state'[e] = state[e]
    BY <2>1 DEF Types
  <2>4. Ahead(f, state')
    <3>1. \A i \in 1..Len(Top.page) : Due(Top.page[i], state') /\ Top.page[i] > Top.cursor
      BY <1>1, <1>2, <2>1, <2>3 DEF Ahead, Due
    <3> QED
      BY <1>1, <2>1, <2>2, <3>1 DEF Ahead
  <2>5. Stored'
    <3>1. \A e \in Entries : state'[e] = "absent" <=> TxOf[e] > committed'
      BY <1>1, <2>1, <2>3 DEF Stored, Due, Types
    <3>2. \A t \in Txs : refresh'[t] = "done" => Delivered(t)'
      BY <1>1, <2>1, <2>3 DEF Stored, Delivered, EntriesOf, Due
    <3> QED
      BY <1>1, <3>1, <3>2 DEF Stored, EntriesOf
  <2> QED
    BY <1>1, <2>1, <2>2, <2>4, <2>5, BecomesAlone
<1> QED
  BY <1>3, <1>4, <1>5, <1>6
\* A store that raises ends the pass; the mark it was asked for may be durable.
LEMMA StoreFailsAlone == ASSUME AloneInv, StoreFails PROVE Stored' /\ Alone'
<1> USE DEF AloneInv
<1>1. stack # <<>> /\ Pop /\ UNCHANGED <<committed, refresh>>
  BY DEF StoreFails
<1>2. Alone'
  BY <1>1, PopsAlone
<1>3. CASE UNCHANGED state
  BY <1>1, <1>2, <1>3 DEF Stored, Delivered, EntriesOf
<1>4. ASSUME NEW mark \in {"retryable", "delivered"}, state' = [state EXCEPT ![Top.cursor] = mark],
             Due(Top.cursor, state)
      PROVE  Stored'
  <2>1. \A e \in Entries : e # Top.cursor => state'[e] = state[e]
    BY <1>4 DEF Types
  <2>2. \A e \in Entries : state'[e] = "absent" <=> TxOf[e] > committed'
    BY <1>1, <1>4, <2>1 DEF Stored, Due, Types
  <2>3. \A t \in Txs : refresh'[t] = "done" => Delivered(t)'
    BY <1>1, <1>4, <2>1 DEF Stored, Delivered, EntriesOf, Due
  <2> QED
    BY <1>1, <2>2, <2>3 DEF Stored, EntriesOf
<1>5. Top.at \in {"publishing", "published"} => Due(Top.cursor, state)
  BY <1>1 DEF Alone, Ahead
<1> QED
  BY <1>2, <1>3, <1>4, <1>5 DEF StoreFails

\* The steps of a pass that deliver nothing.
LEMMA RefreshingAlone ==
  ASSUME AloneInv, ReadReadyPage \/ TakeTransaction \/ Refresh \/ RefreshFails
  PROVE  Stored' /\ Alone'
<1> USE DEF AloneInv, Running
<1>1. stack # <<>> /\ Top \in Frames /\ committed' = committed /\ state' = state
  BY TopIsFrame DEF ReadReadyPage, TakeTransaction, Refresh, RefreshFails
<1>2. Stored'
  <2>1. CASE UNCHANGED refresh
    BY <1>1, <2>1 DEF Stored, Delivered, EntriesOf
  <2>2. CASE /\ refresh[Top.cursor] = "pending" /\ Delivered(Top.cursor)
             /\ refresh' = [refresh EXCEPT ![Top.cursor] = "done"]
    BY <1>1, <2>2 DEF Stored, Delivered, EntriesOf, Types
  <2> QED
    BY <2>1, <2>2 DEF ReadReadyPage, TakeTransaction, Refresh, RefreshFails, MarkRefreshed
<1>3. Alone'
  <2>1. CASE Pop
    BY <1>1, <2>1, PopsAlone
  <2>2. ASSUME NEW f \in Frames, Become(f), f.at \in {"refresh", "refreshing"} PROVE Alone'
    <3>1. Ahead(f, state')
      BY <2>2 DEF Ahead
    <3> QED
      BY <1>1, <2>2, <3>1, BecomesAlone
  <2>3. Pop \/ \E f \in Frames : Become(f) /\ f.at \in {"refresh", "refreshing"}
    <3>1. Spend(Top.left) \in Int \cup {NoLimit} /\ Top.page \in Seq(Nat)
      BY <1>1, LimitsAreNumbers DEF Frames
    <3>3. CASE ReadReadyPage
      <4>1. ListReady(Top) \in Seq(Nat) /\ Top.at = "refresh"
        BY <1>1, <3>3, PagesListed DEF ReadReadyPage
      <4>2. Pop \/ Become([Top EXCEPT !.page = ListReady(Top)])
        BY <3>3 DEF ReadReadyPage
      <4>3. [Top EXCEPT !.page = ListReady(Top)] \in Frames /\ [Top EXCEPT !.page = ListReady(Top)].at = "refresh"
        BY <1>1, <4>1 DEF Frames
      <4> QED
        BY <4>2, <4>3
    <3>4. CASE TakeTransaction
      <4> DEFINE f == [Top EXCEPT !.at = "refreshing", !.cursor = Head(Top.page), !.page = Tail(@), !.left = Spend(@),
                              !.asked = @ \cup {Head(Top.page)}]
      <4>1. Become(f) /\ Top.page # <<>>
        BY <3>4 DEF TakeTransaction
      <4>2. Head(Top.page) \in Nat /\ Tail(Top.page) \in Seq(Nat)
        BY <3>1, <4>1, HeadTailProperties
      <4>3. f \in Frames /\ f.at = "refreshing"
        BY <1>1, <3>1, <4>2 DEF Frames
      <4> HIDE DEF f
      <4> QED
        BY <4>1, <4>3
    <3>5. CASE Refresh \/ RefreshFails
      <4> DEFINE f == [Top EXCEPT !.at = "refresh"]
      <4>1. Become(f)
        BY <3>5 DEF Refresh, RefreshFails
      <4>2. f \in Frames /\ f.at = "refresh"
        BY <1>1 DEF Frames
      <4> HIDE DEF f
      <4> QED
        BY <4>1, <4>2
    <3> QED
      BY <3>3, <3>4, <3>5
  <2> QED
    BY <2>1, <2>2, <2>3
<1> QED
  BY <1>2, <1>3

\* Every step, when passes do not nest.
LEMMA AloneKept == MaxDepth = 1 => (AloneInv /\ [Next]_vars => AloneInv')
<1> SUFFICES ASSUME MaxDepth = 1, AloneInv, [Next]_vars PROVE AloneInv'
  OBVIOUS
<1> USE DEF AloneInv
<1>1. CASE Step
  BY <1>1, StepsTyped, DeliveryAlone, RefreshingAlone, StoreFailsAlone DEF Step
<1>2. CASE CommitTransaction
  <2>1. /\ committed' = committed + 1 /\ committed < NumTxs /\ UNCHANGED stack
        /\ state' = [e \in Entries |-> IF TxOf[e] = committed + 1 THEN "pending" ELSE state[e]]
        /\ refresh' = [refresh EXCEPT ![committed + 1] =
                         IF committed + 1 \in Hinted \/ EntriesOf(committed + 1) # {} THEN "pending" ELSE "none"]
    BY <1>2 DEF CommitTransaction
  <2>2. Types'
    <3>1. \/ refresh' = [refresh EXCEPT ![committed + 1] = "pending"]
          \/ refresh' = [refresh EXCEPT ![committed + 1] = "none"]
      BY <2>1
    <3>2. refresh' \in [Txs -> {"absent", "none", "pending", "done"}]
      BY <3>1 DEF Types
    <3>3. committed' \in Nat /\ state' \in [Entries -> {"absent", "pending", "retryable", "delivered"}]
      BY <2>1 DEF Types
    <3> QED
      BY <2>1, <3>2, <3>3 DEF Types
  <2>3. committed \in Nat /\ committed + 1 \in Txs /\ NumTxs \in Nat /\ \A e \in Entries : TxOf[e] \in Txs
    BY <2>1, OutboxAssumption DEF Types, Txs
  <2>4. \A e \in Entries : state'[e] = "absent" <=> TxOf[e] > committed'
    <3> SUFFICES ASSUME NEW e \in Entries PROVE state'[e] = "absent" <=> TxOf[e] > committed'
      OBVIOUS
    <3>1. TxOf[e] \in Nat /\ (state[e] = "absent" <=> TxOf[e] > committed)
      BY <2>3 DEF Stored, Txs
    <3>2. state'[e] = IF TxOf[e] = committed + 1 THEN "pending" ELSE state[e]
      BY <2>1
    <3> QED
      BY <2>1, <2>3, <3>1, <3>2
  <2>5. ASSUME NEW t \in Txs
        PROVE  /\ refresh'[t] = "absent" <=> t > committed'
               /\ refresh'[t] = "none" => EntriesOf(t) = {}
               /\ refresh'[t] = "done" => Delivered(t)'
    <3>1. t \in Nat
      BY DEF Txs
    <3>2. CASE t = committed + 1
      BY <2>1, <2>3, <3>1, <3>2 DEF Types
    <3>3. CASE t # committed + 1
      <4>1. refresh'[t] = refresh[t] /\ \A e \in EntriesOf(t) : state'[e] = state[e]
        BY <2>1, <3>3 DEF EntriesOf, Types
      <4>2. t > committed' <=> t > committed
        BY <2>1, <2>3, <3>1, <3>3
      <4> QED
        BY <4>1, <4>2 DEF Stored, Delivered, EntriesOf
    <3> QED
      BY <3>2, <3>3
  <2>6. Stored'
    BY <2>4, <2>5 DEF Stored, EntriesOf
  <2>7. Alone'
    <3>1. \A e : Due(e, state) => Due(e, state')
      BY <2>1 DEF Due
    <3>2. stack # <<>> => Ahead(Top, state')
      BY <3>1 DEF Alone, Ahead
    <3>3. Top' = Top
      BY <2>1 DEF Top
    <3> QED
      BY <2>1, <3>2, <3>3 DEF Alone
  <2> QED
    BY <2>2, <2>6, <2>7
<1>3. ASSUME NEW d \in Dispatchers, StartPass(d) PROVE AloneInv'
  <2>1. Types' /\ Len(stack') = Len(stack) + 1 /\ Len(stack) \in Nat /\ stack'[Len(stack) + 1] = Frame(d)
    BY <1>3, Starts
  <2>2. Len(stack) = 0 /\ UNCHANGED <<committed, state, refresh>>
    BY <1>3, <2>1, EmptySeq DEF StartPass, Types
  <2>3. Len(stack') = 1 /\ Top' = Frame(d)
    BY <2>1, <2>2 DEF Top
  <2>4. Frame(d).at = "deliver" /\ Frame(d).page = <<>> /\ Len(<<>>) = 0
    BY EmptySeq DEF Frame
  <2> HIDE DEF Top
  <2>5. Ahead(Top', state')
    BY <2>3, <2>4 DEF Ahead
  <2> QED
    BY <2>1, <2>2, <2>3, <2>5 DEF Alone, Stored, Delivered, EntriesOf
<1>4. CASE Crash
  <2>1. stack' = <<>> /\ UNCHANGED <<committed, state, refresh>> /\ <<>> \in Seq(Frames) /\ Len(<<>>) = 0
    BY <1>4, EmptySeq DEF Crash
  <2> QED
    BY <2>1 DEF Types, Stored, Delivered, EntriesOf, Alone
<1>5. CASE UNCHANGED vars
  BY <1>5 DEF vars, Types, Stored, Delivered, EntriesOf, Alone, Top
<1> QED
  BY <1>1, <1>2, <1>3, <1>4, <1>5 DEF Next

\* Before the first commit no pass runs.
LEMMA InitiallyAlone == Init => AloneInv
<1> SUFFICES ASSUME Init PROVE AloneInv
  OBVIOUS
<1>1. Types /\ stack = <<>> /\ Len(<<>>) = 0 /\ committed = 0
  BY InitiallyPublished, EmptySeq DEF Init
<1>2. \A e \in Entries : TxOf[e] \in Nat /\ TxOf[e] > 0
  BY OutboxAssumption DEF Txs
<1> QED
  BY <1>1, <1>2 DEF Init, AloneInv, Stored, Alone, Txs

\* A snapshot may be taken at any moment: an undelivered entry's transaction is still
\* waiting for its refresh, provided no subscriber starts a pass (event_store.py 785).
THEOREM SnapshotIsAccepted == MaxDepth = 1 => (Spec => []UndeliveredMeansRefreshPending)
<1> SUFFICES ASSUME MaxDepth = 1 PROVE Spec => []UndeliveredMeansRefreshPending
  OBVIOUS
<1>1. AloneInv => UndeliveredMeansRefreshPending
  <2> SUFFICES ASSUME AloneInv, NEW e \in Entries, state[e] \in {"pending", "retryable"}
               PROVE  refresh[TxOf[e]] = "pending"
    BY DEF UndeliveredMeansRefreshPending
  <2>1. TxOf[e] \in Txs /\ e \in EntriesOf(TxOf[e])
    BY OutboxAssumption DEF EntriesOf
  <2>2. ~(TxOf[e] > committed) /\ ~Delivered(TxOf[e])
    BY <2>1 DEF AloneInv, Stored, Delivered
  <2> QED
    BY <2>1, <2>2 DEF AloneInv, Stored, Types
<1>2. AloneInv /\ [Next]_vars => AloneInv'
  BY AloneKept
<1> QED
  BY InitiallyAlone, <1>1, <1>2, PTL DEF Spec

\* And a delivered entry is not published again, although pages are read ahead
\* (dispatch_pending, dispatcher.py).
THEOREM PublishedOnce == MaxDepth = 1 => (Spec => []DeliveredNotPublishedAgain)
<1> SUFFICES ASSUME MaxDepth = 1 PROVE Spec => []DeliveredNotPublishedAgain
  OBVIOUS
<1>1. AloneInv => DeliveredNotPublishedAgain
  <2> SUFFICES ASSUME AloneInv, NEW i \in DOMAIN stack, stack[i].at = "publishing"
               PROVE  state[stack[i].cursor] # "delivered"
    BY DEF DeliveredNotPublishedAgain
  <2>1. i \in 1..Len(stack) /\ Len(stack) \in Nat /\ Len(stack) <= 1 /\ (Len(stack) # 0 => stack # <<>>)
    BY LenProperties, EmptySeq DEF AloneInv, Types, Alone
  <2>2. stack[i] = Top /\ stack # <<>>
    BY <2>1 DEF Top
  <2> QED
    BY <2>2 DEF AloneInv, Alone, Ahead, Due
<1>2. AloneInv /\ [Next]_vars => AloneInv'
  BY AloneKept
<1> QED
  BY InitiallyAlone, <1>1, <1>2, PTL DEF Spec
=============================================================================
