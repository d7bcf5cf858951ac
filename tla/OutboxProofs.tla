---------------------------- MODULE OutboxProofs ----------------------------
(***************************************************************************)
(* No event is marked published that the broker did not accept, and one    *)
(* publisher delivers the events of an aggregate in order, for any number  *)
(* of events, failures and restarts and any batch size; processes that     *)
(* start, stop and die keep it so, and nobody is up on half a schema.      *)
(***************************************************************************)
EXTENDS Processes, FiniteSetTheorems, TLAPS

-----------------------------------------------------------------------------
LEMMA WrittenFinite == IsFiniteSet(Written) /\ Cardinality(Written) \in Nat
<1>1. IsFiniteSet({1, 2})
  <2>1. IsFiniteSet({1} \cup {2})
    BY FS_Singleton, FS_AddElement
  <2>2. {1} \cup {2} = {1, 2}
    OBVIOUS
  <2>3. QED BY <2>1, <2>2
<1>2. IsFiniteSet(Events)
  BY <1>1, FiniteAssumption, FS_Product, Zenon DEF Events
<1>3. Written \in SUBSET Events
  BY DEF Written
<1>4. QED BY <1>2, <1>3, FS_Subset, FS_CardinalityType

\* The message a publisher is about to mark was accepted, and the
\* created_at of an aggregate's events are in their order.
RankInv ==
    \A a \in Aggregates :
        evStatus[<<a, 2>>] # "none"
           => /\ evStatus[<<a, 1>>] # "none"
              /\ createdAt[<<a, 1>>] < createdAt[<<a, 2>>]

MarkInv ==
    /\ PublishedWasAccepted
    /\ \A p \in Publishers : pc[p] = "mark" => accepted[current[p]] > 0
    /\ \A p \in Publishers :
          pc[p] \in {"idle", "fetching", "next"} => current[p] = NoEvent

\* The events in the hands of a publisher are in the table.
HandInv ==
    \A p \in Publishers :
        /\ todo[p] \subseteq Written
        /\ current[p] # NoEvent => current[p] \in Written

\* What one publisher has still to do with the second event of a is backed
\* by the first.
Settled(a) == accepted[<<a, 1>>] > 0 \/ evStatus[<<a, 1>>] = "dead"

OrderInv ==
    \A p \in Publishers, a \in Aggregates :
        /\ <<a, 2>> \in todo[p] =>
              \/ Settled(a)
              \/ <<a, 1>> \in todo[p]
              \/ pc[p] = "bury" /\ current[p] = <<a, 1>>
        /\ current[p] = <<a, 2>> => Settled(a)

LEMMA EventParts ==
  ASSUME NEW a \in Aggregates
  PROVE  /\ <<a, 1>> \in Events /\ <<a, 2>> \in Events
         /\ <<a, 1>> # <<a, 2>>
  BY DEF Events

-----------------------------------------------------------------------------
LEMMA InitMark == Init => TypeOK /\ MarkInv /\ RankInv
<1> SUFFICES ASSUME Init PROVE TypeOK /\ MarkInv /\ RankInv
  OBVIOUS
<1>1. TypeOK
  BY DEF Init, TypeOK
<1>2. MarkInv
  BY DEF Init, MarkInv, PublishedWasAccepted
<1>3. RankInv
  BY WrittenFinite, EventParts DEF Init, RankInv
<1>4. QED BY <1>1, <1>2, <1>3

LEMMA TryType ==
  ASSUME TypeOK, NEW p \in Publishers, NEW e \in Events,
         NEW st \in {"mark", "bury"}, Try(p, e, st), Accept(e) \/ UNCHANGED accepted
  PROVE  TypeOK'
  BY DEF TypeOK, Try, Accept, IsNext, tableVars

LEMMA NextType ==
  ASSUME TypeOK, [Next]_vars
  PROVE  TypeOK'
<1>1. CASE UNCHANGED vars
  BY <1>1 DEF vars, tableVars, roundVars, TypeOK
<1>2. CASE \E e \in Events : Emit(e)
  BY <1>2, WrittenFinite DEF Emit, roundVars, TypeOK
<1>3. ASSUME NEW p \in Publishers, Round(p) \/ RoundCut(p)
      PROVE  TypeOK'
  <2>1. CASE Fetch(p)
    <3>1. PICK S \in SUBSET Available : todo' = [todo EXCEPT ![p] = S]
      BY <2>1 DEF Fetch
    <3>2. S \in SUBSET Events
      BY DEF Available
    <3>3. QED BY <2>1, <3>1, <3>2 DEF Fetch, tableVars, TypeOK
  <2>2. CASE Publish(p)
    <3>1. PICK e \in Events, st \in {"mark", "bury"} :
            Try(p, e, st) /\ (Accept(e) \/ UNCHANGED accepted)
      BY <2>2 DEF Publish, PublishConfirmed, PublishUnconfirmed, PublishRefused
    <3>2. QED BY <3>1, TryType
  <2>3. CASE MarkPublished(p) \/ MarkDead(p)
    BY <2>3 DEF MarkPublished, MarkDead, Settle, TypeOK
  <2>4. CASE Fetched(p) \/ MarkFails(p) \/ Done(p)
    BY <2>4 DEF Fetched, MarkFails, Done, tableVars, TypeOK
  <2>5. CASE RoundCut(p)
    BY <2>5 DEF RoundCut, tableVars, TypeOK
  <2>6. QED BY <1>3, <2>1, <2>2, <2>3, <2>4, <2>5 DEF Round
<1>4. QED BY <1>1, <1>2, <1>3 DEF Next

LEMMA NextMark ==
  ASSUME TypeOK, MarkInv, [Next]_vars
  PROVE  MarkInv'
<1>1. CASE UNCHANGED vars
  BY <1>1 DEF vars, tableVars, roundVars, MarkInv, PublishedWasAccepted
<1>2. CASE \E e \in Events : Emit(e)
  BY <1>2 DEF Emit, roundVars, TypeOK, MarkInv, PublishedWasAccepted
<1>3. ASSUME NEW p \in Publishers, Round(p) \/ RoundCut(p)
      PROVE  MarkInv'
  <2>1. CASE Fetch(p) \/ Fetched(p) \/ Done(p)
    BY <2>1 DEF Fetch, Fetched, Done, tableVars, TypeOK, MarkInv,
                PublishedWasAccepted
  <2>2. CASE \E e \in Events : PublishConfirmed(p, e)
    BY <2>2 DEF PublishConfirmed, Try, Accept, tableVars, TypeOK, MarkInv,
                PublishedWasAccepted
  <2>3. CASE \E e \in Events : PublishUnconfirmed(p, e) \/ PublishRefused(p, e)
    BY <2>3 DEF PublishUnconfirmed, PublishRefused, Try, Accept, tableVars,
                TypeOK, MarkInv, PublishedWasAccepted
  <2>4. CASE MarkPublished(p)
    BY <2>4 DEF MarkPublished, Settle, TypeOK, MarkInv, PublishedWasAccepted
  <2>5. CASE MarkDead(p)
    BY <2>5 DEF MarkDead, Settle, TypeOK, MarkInv, PublishedWasAccepted
  <2>6. CASE MarkFails(p) \/ RoundCut(p)
    BY <2>6 DEF MarkFails, RoundCut, tableVars, TypeOK, MarkInv,
                PublishedWasAccepted
  <2>7. QED BY <1>3, <2>1, <2>2, <2>3, <2>4, <2>5, <2>6 DEF Round, Publish
<1>4. QED BY <1>1, <1>2, <1>3 DEF Next

\* An event marked published was accepted by the broker, whatever the number
\* of publishers.
THEOREM Accepted == Spec => []PublishedWasAccepted
<1>1. MarkInv => PublishedWasAccepted
  BY DEF MarkInv
<1>2. QED BY <1>1, InitMark, NextType, NextMark, PTL DEF Spec

-----------------------------------------------------------------------------
LEMMA InitHand == Init => HandInv
  BY DEF Init, HandInv

LEMMA NextHand ==
  ASSUME TypeOK, MarkInv, HandInv, [Next]_vars
  PROVE  HandInv'
<1>1. \A e \in Events : evStatus[e] # "none" => evStatus'[e] # "none"
  BY DEF Next, Emit, Round, RoundCut, Fetch, Fetched, Publish, PublishConfirmed,
         PublishUnconfirmed, PublishRefused, Try, MarkPublished, MarkDead,
         Settle, MarkFails, Done, vars, tableVars, TypeOK
<1>2. Written \subseteq Written'
  BY <1>1 DEF Written
<1>3. CASE UNCHANGED vars \/ \E e \in Events : Emit(e)
  BY <1>2, <1>3 DEF vars, roundVars, Emit, HandInv
<1>4. ASSUME NEW p \in Publishers, Round(p) \/ RoundCut(p)
      PROVE  HandInv'
  <2>1. CASE Fetch(p)
    <3>1. PICK S \in SUBSET Available : todo' = [todo EXCEPT ![p] = S]
      BY <2>1 DEF Fetch
    <3>2. S \subseteq Written
      BY DEF Available, Written
    <3>3. QED BY <1>2, <2>1, <3>1, <3>2 DEF Fetch, HandInv, TypeOK
  <2>2. CASE Publish(p)
    <3>1. PICK e \in Events, st \in {"mark", "bury"} : Try(p, e, st)
      BY <2>2 DEF Publish, PublishConfirmed, PublishUnconfirmed, PublishRefused
    <3>2. e \in todo[p]
      BY <3>1 DEF Try, IsNext
    <3>3. QED BY <1>2, <3>1, <3>2 DEF Try, HandInv, TypeOK
  <2>3. CASE MarkPublished(p) \/ MarkDead(p)
    BY <1>2, <2>3 DEF MarkPublished, MarkDead, Settle, HandInv, TypeOK
  <2>4. CASE Fetched(p) \/ MarkFails(p) \/ Done(p) \/ RoundCut(p)
    BY <1>2, <2>4 DEF Fetched, MarkFails, Done, RoundCut, HandInv, TypeOK
  <2>5. QED BY <1>4, <2>1, <2>2, <2>3, <2>4 DEF Round
<1>5. QED BY <1>3, <1>4 DEF Next

\* The table changes by Emit and by a mark; a mark keeps who is written.
LEMMA NextRank ==
  ASSUME TypeOK, HandInv, RankInv, [Next]_vars
  PROVE  RankInv'
<1>1. CASE \E e \in Events : Emit(e)
  <2>1. PICK e \in Events : Emit(e)
    BY <1>1
  <2>2. PICK t \in 1..Cardinality(Written) + 1 :
          /\ e[2] = 2 => evStatus[<<e[1], 1>>] # "none" /\ createdAt[<<e[1], 1>>] < t
          /\ createdAt' = [f \in Events |->
                              CASE f = e -> t
                                [] f # e /\ createdAt[f] < t -> createdAt[f]
                                [] f # e /\ createdAt[f] >= t -> createdAt[f] + 1]
    BY <2>1 DEF Emit
  <2>3. evStatus[e] = "none" /\ evStatus' = [evStatus EXCEPT ![e] = "pending"]
    BY <2>1 DEF Emit
  <2>4. t \in Nat /\ \A f \in Events : createdAt[f] \in Nat
    BY WrittenFinite DEF TypeOK
  <2>5. createdAt'[e] = t
    BY <2>2
  <2>6. \A f \in Events \ {e} :
           createdAt'[f] = IF createdAt[f] < t THEN createdAt[f] ELSE createdAt[f] + 1
    BY <2>2, <2>4
  <2>7. ASSUME NEW a \in Aggregates, evStatus'[<<a, 2>>] # "none"
        PROVE  /\ evStatus'[<<a, 1>>] # "none"
               /\ createdAt'[<<a, 1>>] < createdAt'[<<a, 2>>]
    <3>1. CASE e = <<a, 2>>
      <4>1. evStatus[<<a, 1>>] # "none" /\ createdAt[<<a, 1>>] < t
        BY <3>1, <2>2
      <4>2. QED BY <3>1, <4>1, <2>3, <2>4, <2>5, <2>6, EventParts DEF TypeOK
    <3>2. CASE e # <<a, 2>>
      <4>1. evStatus[<<a, 2>>] # "none"
        BY <3>2, <2>3, <2>7, EventParts DEF TypeOK
      <4>2. /\ evStatus[<<a, 1>>] # "none"
            /\ createdAt[<<a, 1>>] < createdAt[<<a, 2>>]
        BY <4>1 DEF RankInv
      <4>3. e # <<a, 1>>
        BY <4>2, <2>3
      <4>4. createdAt'[<<a, 1>>] < createdAt'[<<a, 2>>]
        BY <3>2, <4>2, <4>3, <2>4, <2>6, EventParts
      <4>5. QED BY <4>2, <4>3, <4>4, <2>3, EventParts DEF TypeOK
    <3>3. QED BY <3>1, <3>2
  <2>8. QED BY <2>7 DEF RankInv
<1>2. ASSUME UNCHANGED createdAt,
             \A e \in Events : evStatus'[e] = "none" <=> evStatus[e] = "none"
      PROVE  RankInv'
  <2>1. Written' = Written
    BY <1>2 DEF Written
  <2>2. QED BY <1>2, <2>1, EventParts DEF RankInv
<1>3. CASE UNCHANGED vars
  BY <1>2, <1>3 DEF vars, tableVars
<1>4. ASSUME NEW p \in Publishers, Round(p) \/ RoundCut(p)
      PROVE  RankInv'
  <2>1. CASE MarkPublished(p) \/ MarkDead(p)
    <3>1. /\ UNCHANGED createdAt
          /\ \/ evStatus' = [evStatus EXCEPT ![current[p]] = "published"]
             \/ evStatus' = [evStatus EXCEPT ![current[p]] = "dead"]
      BY <2>1 DEF MarkPublished, MarkDead, Settle
    <3>2. current[p] \in Events
      BY <2>1 DEF MarkPublished, MarkDead, TypeOK
    <3>c. evStatus[current[p]] # "none"
      BY <3>2, NoEventAssumption DEF HandInv, Written
    <3>3. QED BY <1>2, <3>1, <3>2, <3>c DEF TypeOK
  <2>2. CASE ~ (MarkPublished(p) \/ MarkDead(p))
    BY <1>2, <1>4, <2>2
       DEF Round, Fetch, Fetched, Publish, PublishConfirmed, PublishUnconfirmed,
           PublishRefused, Try, MarkFails, Done, RoundCut, tableVars
  <2>3. QED BY <2>1, <2>2
<1>5. QED BY <1>1, <1>3, <1>4 DEF Next

-----------------------------------------------------------------------------
\* One publisher

\* The first event of an aggregate, once settled, stays so.
LEMMA SettledStays ==
  ASSUME TypeOK, MarkInv, NEW a \in Aggregates, Settled(a), [Next]_vars
  PROVE  Settled(a)'
<1>e. <<a, 1>> \in Events
  BY EventParts
<1>1. CASE UNCHANGED vars \/ \E e \in Events : Emit(e)
  BY <1>e, <1>1 DEF vars, tableVars, Emit, Settled, TypeOK
<1>2. ASSUME NEW p \in Publishers, Round(p) \/ RoundCut(p)
      PROVE  Settled(a)'
  <2>1. CASE Publish(p)
    BY <1>e, <2>1 DEF Publish, PublishConfirmed, PublishUnconfirmed,
                      PublishRefused, Try, Accept, tableVars, Settled, TypeOK
  <2>2. CASE MarkPublished(p)
    <3>1. accepted[current[p]] > 0 /\ current[p] \in Events
      BY <2>2 DEF MarkPublished, MarkInv, TypeOK
    <3>2. QED BY <1>e, <2>2, <3>1 DEF MarkPublished, Settle, Settled, TypeOK
  <2>3. CASE MarkDead(p)
    BY <1>e, <2>3 DEF MarkDead, Settle, Settled, TypeOK
  <2>4. CASE Fetch(p) \/ Fetched(p) \/ MarkFails(p) \/ Done(p) \/ RoundCut(p)
    BY <2>4 DEF Fetch, Fetched, MarkFails, Done, RoundCut, tableVars, Settled
  <2>5. QED BY <1>2, <2>1, <2>2, <2>3, <2>4 DEF Round
<1>3. QED BY <1>1, <1>2 DEF Next

LEMMA InitOrder == Init => OrderInv /\ AcceptedInOrder
<1> SUFFICES ASSUME Init PROVE OrderInv /\ AcceptedInOrder
  OBVIOUS
<1>1. OrderInv
  BY NoEventAssumption, EventParts DEF Init, OrderInv
<1>2. AcceptedInOrder
  BY EventParts DEF Init, AcceptedInOrder
<1>3. QED BY <1>1, <1>2

\* A fetch that takes the second event takes the first, unless it is settled.
LEMMA FetchInOrder ==
  ASSUME TypeOK, MarkInv, RankInv, \A p, q \in Publishers : p = q,
         NEW p \in Publishers, pc[p] = "idle",
         NEW S \in SUBSET Available, OldestOf(S, Available),
         NEW a \in Aggregates, <<a, 2>> \in S
  PROVE  Settled(a) \/ <<a, 1>> \in S
<1>1. Locked = {}
  BY DEF Locked
<1>2. /\ evStatus[<<a, 1>>] # "none"
      /\ createdAt[<<a, 1>>] < createdAt[<<a, 2>>]
  BY EventParts DEF Available, RankInv
<1>3. createdAt[<<a, 1>>] \in Nat /\ createdAt[<<a, 2>>] \in Nat
  BY EventParts DEF TypeOK
<1>4. CASE evStatus[<<a, 1>>] = "pending"
  <2>1. <<a, 1>> \in Available
    BY <1>1, <1>4, EventParts DEF Available
  <2>2. ~ (createdAt[<<a, 2>>] < createdAt[<<a, 1>>])
    BY <1>2, <1>3
  <2>3. QED BY <2>1, <2>2 DEF OldestOf
<1>5. CASE evStatus[<<a, 1>>] = "published"
  BY <1>5, EventParts DEF MarkInv, PublishedWasAccepted, Settled
<1>6. CASE evStatus[<<a, 1>>] = "dead"
  BY <1>6 DEF Settled
<1>7. evStatus[<<a, 1>>] \in {"none", "pending", "published", "dead"}
  BY EventParts DEF TypeOK
<1>8. QED BY <1>2, <1>4, <1>5, <1>6, <1>7

\* The next event to try is not a second one whose first is still to come.
LEMMA TryInOrder ==
  ASSUME TypeOK, MarkInv, HandInv, RankInv, OrderInv,
         NEW p \in Publishers, NEW a \in Aggregates, IsNext(p, <<a, 2>>)
  PROVE  Settled(a)
<1>1. <<a, 2>> \in todo[p] /\ pc[p] = "next"
  BY DEF IsNext
<1>2. evStatus[<<a, 2>>] # "none"
  BY <1>1 DEF HandInv, Written
<1>3. createdAt[<<a, 1>>] < createdAt[<<a, 2>>]
  BY <1>2 DEF RankInv
<1>4. createdAt[<<a, 1>>] \in Nat /\ createdAt[<<a, 2>>] \in Nat
  BY EventParts DEF TypeOK
<1>5. <<a, 1>> \notin todo[p]
  BY <1>3, <1>4 DEF IsNext
<1>6. QED BY <1>1, <1>5 DEF OrderInv

LEMMA NextOrder ==
  ASSUME TypeOK, MarkInv, HandInv, RankInv, OrderInv, AcceptedInOrder,
         \A p, q \in Publishers : p = q, [Next]_vars
  PROVE  OrderInv' /\ AcceptedInOrder'
<1>s. \A a \in Aggregates : Settled(a) => Settled(a)'
  BY SettledStays
<1>1. CASE UNCHANGED vars \/ \E e \in Events : Emit(e)
  <2>1. UNCHANGED <<accepted, pc, todo, current>>
    BY <1>1 DEF vars, roundVars, Emit
  <2>2. OrderInv'
    BY <1>s, <2>1 DEF OrderInv
  <2>3. AcceptedInOrder'
    BY <1>s, <2>1 DEF AcceptedInOrder, Settled
  <2>4. QED BY <2>2, <2>3
<1>2. ASSUME NEW p \in Publishers, Round(p) \/ RoundCut(p)
      PROVE  OrderInv' /\ AcceptedInOrder'
  <2>0. Publishers = {p}
    OBVIOUS
  <2>1. CASE Fetch(p)
    <3>1. PICK S \in SUBSET Available :
            OldestOf(S, Available) /\ todo' = [todo EXCEPT ![p] = S]
      BY <2>1 DEF Fetch
    <3>2. \A a \in Aggregates : <<a, 2>> \in S => Settled(a) \/ <<a, 1>> \in S
      BY <2>1, <3>1, FetchInOrder DEF Fetch
    <3>3. todo'[p] = S /\ UNCHANGED <<accepted, current>>
      BY <2>1, <3>1 DEF Fetch, TypeOK
    <3>4. OrderInv'
      BY <1>s, <2>0, <3>2, <3>3 DEF OrderInv
    <3>5. QED BY <1>s, <3>3, <3>4 DEF AcceptedInOrder, Settled
  <2>2. CASE Publish(p)
    <3>1. PICK e \in Events, st \in {"mark", "bury"} :
            /\ Try(p, e, st)
            /\ Accept(e) \/ (st = "bury" /\ UNCHANGED accepted)
      BY <2>2 DEF Publish, PublishConfirmed, PublishUnconfirmed, PublishRefused
    <3>2. /\ todo'[p] = todo[p] \ {e} /\ current'[p] = e /\ pc'[p] = st
          /\ IsNext(p, e) /\ evStatus' = evStatus
      BY <3>1 DEF Try, TypeOK, tableVars
    <3>3. ASSUME NEW a \in Aggregates, e = <<a, 2>>
          PROVE  Settled(a)
      BY <3>2, <3>3, TryInOrder
    <3>4. ASSUME NEW a \in Aggregates, e = <<a, 1>>
          PROVE  Settled(a)' \/ st = "bury"
      BY <3>1, <3>4 DEF Accept, Settled, TypeOK
    <3>5. OrderInv'
      <4>1. pc[p] # "bury"
        BY <3>2 DEF IsNext
      <4>2. ASSUME NEW a \in Aggregates, <<a, 2>> \in todo'[p]
            PROVE  \/ Settled(a)'
                   \/ <<a, 1>> \in todo'[p]
                   \/ pc'[p] = "bury" /\ current'[p] = <<a, 1>>
        <5>1. Settled(a) \/ <<a, 1>> \in todo[p]
          BY <3>2, <4>1, <4>2 DEF OrderInv
        <5>2. QED BY <1>s, <3>2, <3>4, <5>1
      <4>3. \A a \in Aggregates : current'[p] = <<a, 2>> => Settled(a)'
        BY <1>s, <3>2, <3>3
      <4>4. QED BY <2>0, <4>2, <4>3 DEF OrderInv
    <3>6. AcceptedInOrder'
      <4>1. ASSUME NEW a \in Aggregates, accepted'[<<a, 2>>] > 0
            PROVE  Settled(a)'
        <5>1. CASE e = <<a, 2>>
          BY <1>s, <3>3, <5>1
        <5>2. CASE e # <<a, 2>>
          <6>1. accepted[<<a, 2>>] > 0
            BY <3>1, <4>1, <5>2, EventParts DEF Accept, TypeOK
          <6>2. QED BY <1>s, <6>1 DEF AcceptedInOrder, Settled
        <5>3. QED BY <5>1, <5>2
      <4>2. QED BY <4>1 DEF AcceptedInOrder, Settled
    <3>7. QED BY <3>5, <3>6
  <2>3. CASE MarkPublished(p) \/ MarkDead(p)
    <3>1. /\ current' = [current EXCEPT ![p] = NoEvent]
          /\ UNCHANGED <<accepted, todo>>
          /\ pc[p] = "bury" => evStatus' = [evStatus EXCEPT ![current[p]] = "dead"]
      BY <2>3 DEF MarkPublished, MarkDead, Settle
    <3>2. \A a \in Aggregates :
             pc[p] = "bury" /\ current[p] = <<a, 1>> => Settled(a)'
      BY <3>1, EventParts DEF Settled, TypeOK
    <3>3. \A a \in Aggregates : NoEvent # <<a, 2>>
      BY NoEventAssumption, EventParts
    <3>4. OrderInv'
      BY <1>s, <2>0, <3>1, <3>2, <3>3 DEF OrderInv, TypeOK
    <3>5. QED BY <1>s, <3>1, <3>4 DEF AcceptedInOrder, Settled
  <2>4. CASE Fetched(p) \/ MarkFails(p) \/ Done(p)
    <3>1. /\ UNCHANGED <<accepted, todo, current>>
          /\ pc[p] # "bury"
      BY <2>4 DEF Fetched, MarkFails, Done
    <3>2. OrderInv'
      BY <1>s, <2>0, <3>1 DEF OrderInv
    <3>3. QED BY <1>s, <3>1, <3>2 DEF AcceptedInOrder, Settled
  <2>5. CASE RoundCut(p)
    <3>1. /\ todo'[p] = {} /\ current'[p] = NoEvent /\ UNCHANGED accepted
      BY <2>5 DEF RoundCut, TypeOK
    <3>2. \A a \in Aggregates : NoEvent # <<a, 2>>
      BY NoEventAssumption, EventParts
    <3>3. OrderInv'
      BY <2>0, <3>1, <3>2 DEF OrderInv
    <3>4. QED BY <1>s, <3>1, <3>3 DEF AcceptedInOrder, Settled
  <2>6. QED BY <1>2, <2>1, <2>2, <2>3, <2>4, <2>5 DEF Round
<1>3. QED BY <1>1, <1>2 DEF Next

\* A single worker process delivers the events of an enrollment in order,
\* whatever the batch size, the failures and the restarts.
THEOREM InOrder ==
  ASSUME \A p, q \in Publishers : p = q
  PROVE  Spec => []AcceptedInOrder
<1> DEFINE Inv == /\ TypeOK /\ MarkInv /\ HandInv /\ RankInv
                  /\ OrderInv /\ AcceptedInOrder
<1>1. Init => Inv
  BY InitMark, InitHand, InitOrder
<1>2. Inv /\ [Next]_vars => Inv'
  BY NextType, NextMark, NextHand, NextRank, NextOrder
<1>3. Inv => AcceptedInOrder
  OBVIOUS
<1>4. QED BY <1>1, <1>2, <1>3, PTL DEF Spec

-----------------------------------------------------------------------------
\* Duplicates

\* What one publisher has fetched is pending still; what is neither settled
\* nor in its hands was accepted at most once for each round cut short.
FreshInv ==
    /\ \A p \in Publishers : \A e \in todo[p] : evStatus[e] = "pending" /\ current[p] # e
    /\ \A e \in Events :
          evStatus[e] \in {"none", "pending"} /\ (\A p \in Publishers : current[p] # e)
              => accepted[e] <= deaths

LEMMA InitFresh == Init => FreshInv /\ DuplicatesNeedDeaths
  BY DEF Init, FreshInv, DuplicatesNeedDeaths

LEMMA NextFresh ==
  ASSUME TypeOK, MarkInv, FreshInv, DuplicatesNeedDeaths,
         \A p, q \in Publishers : p = q, [Next]_vars
  PROVE  FreshInv' /\ DuplicatesNeedDeaths'
<1>t. deaths \in Nat /\ \A e \in Events : accepted[e] \in Nat
  BY DEF TypeOK
<1>1. CASE UNCHANGED vars
  BY <1>1 DEF vars, tableVars, roundVars, FreshInv, DuplicatesNeedDeaths
<1>2. ASSUME NEW e \in Events, Emit(e)
      PROVE  FreshInv' /\ DuplicatesNeedDeaths'
  <2>1. /\ evStatus[e] = "none" /\ evStatus' = [evStatus EXCEPT ![e] = "pending"]
        /\ UNCHANGED <<accepted, todo, current, deaths>>
    BY <1>2 DEF Emit, roundVars
  <2>2. \A f \in Events : evStatus'[f] = IF f = e THEN "pending" ELSE evStatus[f]
    BY <2>1 DEF TypeOK
  <2>3. \A p \in Publishers : todo[p] \subseteq Events
    BY DEF TypeOK
  <2>4. QED BY <2>1, <2>2, <2>3 DEF FreshInv, DuplicatesNeedDeaths
<1>3. ASSUME NEW p \in Publishers, Round(p) \/ RoundCut(p)
      PROVE  FreshInv' /\ DuplicatesNeedDeaths'
  <2>0. Publishers = {p} /\ todo[p] \subseteq Events
    BY DEF TypeOK
  <2>1. CASE Fetch(p)
    <3>1. PICK S \in SUBSET Available : todo' = [todo EXCEPT ![p] = S]
      BY <2>1 DEF Fetch
    <3>2. /\ todo'[p] = S /\ current[p] = NoEvent
          /\ \A e \in S : e \in Events /\ evStatus[e] = "pending"
      BY <2>1, <3>1 DEF Fetch, TypeOK, MarkInv, Available
    <3>3. UNCHANGED <<evStatus, accepted, current, deaths>>
      BY <2>1 DEF Fetch, tableVars
    <3>4. QED BY <2>0, <3>2, <3>3, NoEventAssumption DEF FreshInv, DuplicatesNeedDeaths
  <2>2. CASE Publish(p)
    <3>1. PICK e \in Events, st \in {"mark", "bury"} :
            Try(p, e, st) /\ (Accept(e) \/ UNCHANGED accepted)
      BY <2>2 DEF Publish, PublishConfirmed, PublishUnconfirmed, PublishRefused
    <3>2. /\ e \in todo[p] /\ pc[p] = "next"
          /\ todo'[p] = todo[p] \ {e} /\ current'[p] = e
          /\ UNCHANGED <<evStatus, deaths>>
      BY <3>1 DEF Try, IsNext, TypeOK, tableVars
    <3>3. \A f \in Events \ {e} : accepted'[f] = accepted[f]
      BY <3>1 DEF Accept, TypeOK
    <3>4. accepted'[e] <= accepted[e] + 1
      BY <1>t, <3>1 DEF Accept, TypeOK
    <3>5. current[p] = NoEvent
      BY <3>2 DEF MarkInv
    <3>6. accepted[e] <= deaths
      BY <2>0, <3>2, <3>5, NoEventAssumption DEF FreshInv
    <3>a. accepted'[e] \in Nat
      BY <1>t, <3>1 DEF Accept, TypeOK
    <3>7. accepted'[e] <= 1 + deaths
      BY <1>t, <3>4, <3>6, <3>a
    <3>8. DuplicatesNeedDeaths'
      BY <3>2, <3>3, <3>7 DEF DuplicatesNeedDeaths
    <3>9. FreshInv'
      BY <2>0, <3>2, <3>3, <3>5, NoEventAssumption DEF FreshInv
    <3>b. QED BY <3>8, <3>9
  <2>3. CASE MarkPublished(p) \/ MarkDead(p)
    <3>1. PICK st \in {"published", "dead"} : Settle(p, st)
      BY <2>3 DEF MarkPublished, MarkDead
    <3>2. current[p] \in Events
      BY <2>3 DEF MarkPublished, MarkDead, TypeOK
    <3>3. /\ UNCHANGED <<accepted, todo, deaths>> /\ current'[p] = NoEvent
          /\ \A f \in Events : evStatus'[f] = IF f = current[p] THEN st ELSE evStatus[f]
      BY <3>1, <3>2 DEF Settle, TypeOK
    <3>4. QED BY <2>0, <3>2, <3>3, NoEventAssumption DEF FreshInv, DuplicatesNeedDeaths
  <2>4. CASE Fetched(p) \/ MarkFails(p) \/ Done(p)
    BY <2>4 DEF Fetched, MarkFails, Done, tableVars, FreshInv, DuplicatesNeedDeaths
  <2>5. CASE RoundCut(p)
    <3>1. /\ todo'[p] = {} /\ UNCHANGED accepted /\ deaths' = deaths + 1
      BY <2>5 DEF RoundCut, TypeOK
    <3>2. \A e \in Events : accepted'[e] <= deaths'
      BY <1>t, <3>1 DEF DuplicatesNeedDeaths
    <3>3. \A e \in Events : accepted'[e] <= 1 + deaths'
      BY <1>t, <3>1, <3>2
    <3>4. QED BY <2>0, <3>1, <3>2, <3>3 DEF FreshInv, DuplicatesNeedDeaths
  <2>6. QED BY <1>3, <2>1, <2>2, <2>3, <2>4, <2>5 DEF Round
<1>4. QED BY <1>1, <1>2, <1>3 DEF Next

\* A single worker process sends no event twice but for a round that was cut
\* short between the publish and the mark (publish_outbox.py): a lost confirm
\* or a failed mark buries the event, it is not sent again.
THEOREM FewDuplicates ==
  ASSUME \A p, q \in Publishers : p = q
  PROVE  Spec => []DuplicatesNeedDeaths
<1> DEFINE Inv == TypeOK /\ MarkInv /\ FreshInv /\ DuplicatesNeedDeaths
<1>1. Init => Inv
  BY InitMark, InitFresh
<1>2. Inv /\ [Next]_vars => Inv'
  BY NextType, NextMark, NextFresh
<1>3. Inv => DuplicatesNeedDeaths
  OBVIOUS
<1>4. QED BY <1>1, <1>2, <1>3, PTL DEF Spec

(***************************************************************************)
(* Processes implement the publisher, so that what is proved of it carries *)
(* over.                                                                   *)
(***************************************************************************)
-----------------------------------------------------------------------------
LEMMA StepRefines ==
  ASSUME [ProcNext]_pvars
  PROVE  [Next]_vars
<1>1. CASE UNCHANGED pvars
  BY <1>1 DEF pvars
<1>2. CASE \E p \in Procs : Lifecycle(p)
  BY <1>2 DEF Lifecycle
<1>3. CASE \E p \in Procs : Stop(p) \/ Die(p)
  <2>1. PICK p \in Procs : EndsRound(p)
    BY <1>3 DEF Stop, Die
  <2>2. QED BY <2>1 DEF EndsRound, Next
<1>4. CASE \E p \in Publishers : Work(p)
  BY <1>4 DEF Work, Next
<1>5. CASE Write
  BY <1>5, SentAssumption DEF Write, Next
<1>6. QED BY <1>1, <1>2, <1>3, <1>4, <1>5 DEF ProcNext

\* The processes of run_api and run_worker, started, stopped and killed at any
\* moment, do nothing to the outbox that publish_pending and the write path
\* do not: a death is a round cut short.
THEOREM ProcessesRefine == ProcSpec => Spec
<1>1. ProcInit => Init
  BY DEF ProcInit
<1>2. [ProcNext]_pvars => [Next]_vars
  BY StepRefines
<1>3. QED BY <1>1, <1>2, PTL DEF ProcSpec, Spec

\* No start, stop or death of a process makes publish_pending mark an event
\* the broker does not have.
THEOREM AcceptedByProcesses == ProcSpec => []PublishedWasAccepted
BY ProcessesRefine, Accepted, PTL

\* However often the one worker is restarted, the broker gets the events of
\* an enrollment in order.
THEOREM InOrderByProcesses ==
  ASSUME \A p, q \in Publishers : p = q
  PROVE  ProcSpec => []AcceptedInOrder
<1>1. Spec => []AcceptedInOrder
  BY InOrder
<1>2. QED BY <1>1, ProcessesRefine, PTL

\* However often the one worker is restarted, an event is sent again only for
\* a round that a stop or a death has cut short.
THEOREM FewDuplicatesByProcesses ==
  ASSUME \A p, q \in Publishers : p = q
  PROVE  ProcSpec => []DuplicatesNeedDeaths
<1>1. Spec => []DuplicatesNeedDeaths
  BY FewDuplicates
<1>2. QED BY <1>1, ProcessesRefine, PTL

-----------------------------------------------------------------------------
\* Whoever is past the check of the schema, or opens on after it, has found
\* or made the whole of it.
SchemaInv ==
    /\ schema \in {{}, Tables}
    /\ \A p \in Procs : life[p] = "down" => opened[p] = 0
    /\ \A p \in Procs : life[p] = "start" /\ opened[p] > 0 => schema = Tables
    /\ UpOnWholeSchema

LEMMA InitSchema == ProcInit => ProcTypeOK /\ SchemaInv
BY DEF ProcInit, ProcTypeOK, SchemaInv, UpOnWholeSchema, Resources

LEMMA ResourceList ==
  /\ Len(Resources) = 4
  /\ Resources[1] = "pool"
  /\ Resources[2] # "pool" /\ Resources[3] # "pool" /\ Resources[4] # "pool"
BY DEF Resources

LEMMA ProcNextType ==
  ASSUME ProcTypeOK, [ProcNext]_pvars
  PROVE  ProcTypeOK'
<1>1. CASE UNCHANGED pvars
  BY <1>1 DEF pvars, procVars, ProcTypeOK
<1>2. ASSUME NEW p \in Procs, Lifecycle(p)
      PROVE  ProcTypeOK'
  <2>1. UNCHANGED restarts
    BY <1>2 DEF Lifecycle
  <2>2. CASE OpenNext(p) \/ CloseNext(p)
    BY <2>1, <2>2, ResourceList DEF OpenNext, CloseNext, Moves, ProcTypeOK
  <2>3. CASE Launch(p) \/ CheckSchema(p) \/ RunScript(p) \/ ScriptFails(p)
             \/ CommitScript(p) \/ Serve(p)
    BY <2>1, <2>3, ResourceList
       DEF Launch, CheckSchema, RunScript, ScriptFails, CommitScript, Serve,
           Moves, ProcTypeOK
  <2>4. QED BY <1>2, <2>2, <2>3 DEF Lifecycle
<1>3. ASSUME NEW p \in Procs, Stop(p) \/ Die(p)
      PROVE  ProcTypeOK'
  BY <1>3, ResourceList DEF Stop, Die, EndsRound, Moves, ProcTypeOK
<1>4. CASE (\E p \in Publishers : Work(p)) \/ Write
  BY <1>4 DEF Work, Write, procVars, ProcTypeOK
<1>5. QED BY <1>1, <1>2, <1>3, <1>4 DEF ProcNext

LEMMA NextSchema ==
  ASSUME ProcTypeOK, SchemaInv, [ProcNext]_pvars
  PROVE  SchemaInv'
<1>1. CASE UNCHANGED procVars
  BY <1>1 DEF procVars, SchemaInv, UpOnWholeSchema
<1>2. ASSUME NEW p \in Procs, Lifecycle(p)
      PROVE  SchemaInv'
  <2>1. CASE Launch(p) \/ ScriptFails(p) \/ RunScript(p)
    BY <2>1 DEF Launch, ScriptFails, RunScript, Moves, ProcTypeOK, SchemaInv,
                UpOnWholeSchema
  <2>2. CASE OpenNext(p)
    <3>1. opened[p] \in 0..3
      BY <2>2, ResourceList DEF OpenNext, ProcTypeOK
    <3>2. opened[p] = 0 => life'[p] = "check"
      BY <2>2, <3>1, ResourceList DEF OpenNext, Moves, ProcTypeOK
    <3>3. life[p] = "start" /\ life'[p] \in {"check", "start"}
      BY <2>2 DEF OpenNext, Moves, ProcTypeOK
    <3>4. /\ \A q \in Procs \ {p} : life'[q] = life[q] /\ opened'[q] = opened[q]
          /\ UNCHANGED schema
      BY <2>2 DEF OpenNext, Moves, ProcTypeOK
    <3>5. QED BY <3>1, <3>2, <3>3, <3>4 DEF SchemaInv, UpOnWholeSchema
  <2>3. CASE CheckSchema(p)
    BY <2>3 DEF CheckSchema, Moves, ProcTypeOK, SchemaInv, UpOnWholeSchema
  <2>4. CASE CommitScript(p)
    BY <2>4 DEF CommitScript, Moves, ProcTypeOK, SchemaInv, UpOnWholeSchema
  <2>5. CASE Serve(p)
    BY <2>5, ResourceList DEF Serve, Moves, ProcTypeOK, SchemaInv, UpOnWholeSchema
  <2>6. CASE CloseNext(p)
    BY <2>6, ResourceList DEF CloseNext, Moves, ProcTypeOK, SchemaInv, UpOnWholeSchema
  <2>7. QED BY <1>2, <2>1, <2>2, <2>3, <2>4, <2>5, <2>6 DEF Lifecycle
<1>3. ASSUME NEW p \in Procs, Stop(p) \/ Die(p)
      PROVE  SchemaInv'
  BY <1>3 DEF Stop, Die, Moves, ProcTypeOK, SchemaInv, UpOnWholeSchema
<1>4. CASE (\E p \in Publishers : Work(p)) \/ Write
  BY <1>1, <1>4 DEF Work, Write
<1>5. QED BY <1>1, <1>2, <1>3, <1>4 DEF ProcNext, pvars

\* No process serves requests or publishes unless the whole migration of
\* app/core/db.py is committed, with any number of processes started on one
\* empty database and any number of deaths on the way.
THEOREM UpOnWholeSchemaAlways == ProcSpec => []UpOnWholeSchema
<1>1. ProcTypeOK /\ SchemaInv /\ [ProcNext]_pvars => (ProcTypeOK /\ SchemaInv)'
  BY ProcNextType, NextSchema
<1>2. SchemaInv => UpOnWholeSchema
  BY DEF SchemaInv
<1>3. QED BY <1>1, <1>2, InitSchema, PTL DEF ProcSpec

=============================================================================
