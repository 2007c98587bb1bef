--------------------------- MODULE MailboxProofs ---------------------------
(***************************************************************************)
(* Proofs about the two lock-free mailboxes between threads.               *)
(*                                                                         *)
(* LatestHandoff, for every ring size and every number of pushes.  The     *)
(* handoff is correct because of three facts kept together: the generation *)
(* is odd exactly while a replacement may move the consumer cursor, a      *)
(* claim freezes that cursor, and a claim verified against an unchanged    *)
(* generation names a published slot (IInv).  What it delivers and counts  *)
(* rests on the order of the values between the two cursors and on where   *)
(* each pushed value is (DeliveryInv), and with both the two endpoints     *)
(* together are NewestQueue.                                               *)
(*                                                                         *)
(* StationUpdate, for every set of plans and every number of updates and   *)
(* outstanding preparations.  The argument is that at every moment each    *)
(* callback stands in one of four relations to the owner that was last     *)
(* published: not yet offered, offered, borrowed, or answered.  An answer  *)
(* of 1 means the ports run that owner, so an owner is retired only when   *)
(* neither direction can still reach it.                                   *)
(***************************************************************************)
EXTENDS LatestHandoff, StationUpdate, SequenceTheorems, TLAPS
\* push() is between its two increments of the generation.
Replacing ==
    \/ ppc \in {"reload", "cas", "count", "finish", "dropCount", "dropFinish"}
    \/ ppc \in {"write", "store"} /\ replacing

\* The parity of the generation says whether a replacement is under way.
ParityInv ==
    /\ Replacing <=> generation % 2 = 1
    /\ ppc = "count" => replacing

\* The slot push() is about to publish is not the one after which the
\* cursors would meet.
RoomInv == ppc \in {"count", "write", "store"} => NextIndex(producer) # consumer

\* A claim holds the READING bit and freezes the cursor it claimed.
ClaimInv ==
    cpc \in {"verify", "restore", "copy", "release"} =>
        reading /\ claimed = consumer

\* What pop() loaded is still true while the generation has not moved.
SnapshotInv ==
    /\ cpc # "idle" => cgen % 2 = 0 /\ cgen <= generation
    /\ cpc = "compare" /\ generation = cgen => cseen = consumer
    /\ cpc \in {"claim", "verify"} /\ generation = cgen => consumer # producer
    /\ cpc \in {"copy", "release"} => consumer # producer

\* The inductive invariant.
IInv == TypeOK /\ ParityInv /\ RoomInv /\ ClaimInv /\ SnapshotInv

\* A replacement has thrown the backlog away and not yet published its own value.
EmptiedInv == replacing /\ ppc \in {"count", "write", "store"} => consumer = producer

\* The number of the latest push whose fate is settled; NewestQueue's newest.
Settled ==
    IF ppc \in {"idle", "finish", "dropCount", "dropFinish"} THEN pushed ELSE pushed - 1

\* The slots from the consumer's cursor up to the producer's.
Waiting(j) == Distance(consumer, j) < Distance(consumer, producer)

\* Values wait in the order they were pushed, behind everything delivered.
OrderInv ==
    /\ \A j \in Indexes : Waiting(j) =>
           /\ slots[j] > 0 /\ slots[j] <= Settled
           /\ \A n \in 1 .. Len(taken) : taken[n] < slots[j]
    /\ \A i, j \in Indexes :
           Waiting(j) /\ Distance(consumer, i) < Distance(consumer, j)
               => slots[i] < slots[j]
    /\ \A n \in 1 .. Len(taken) : taken[n] <= Settled
    /\ ppc = "store" => slots[producer] = pushed
    /\ ppc # "idle" => pushed > 0
    /\ cpc = "release" => cvalue = slots[claimed]
    /\ DeliveredInOrder

\* Where every pushed value is, at each point of push().
AccountInv ==
    LET counted == Len(taken) + discarded
        waiting == Distance(consumer, producer)
    IN  /\ ppc \in {"idle", "finish", "dropFinish"} => pushed = counted + waiting
        /\ ppc \in {"write", "store", "bump", "reload", "cas", "dropCount"}
               => pushed = counted + waiting + 1
        /\ ppc = "count" => pushed = counted + Distance(pseen, producer) + 1

\* The invariant for what is delivered and counted; IInv holds beside it.
DeliveryInv == EmptiedInv /\ OrderInv /\ AccountInv

-----------------------------------------------------------------------------
(* The successor of a cursor, without the remainder.                       *)
LEMMA NextIndexValue ==
    ASSUME NEW i \in Indexes
    PROVE  NextIndex(i) = IF i + 1 = SlotCount THEN 0 ELSE i + 1
  <1>1. i + 1 = SlotCount => (i + 1) % SlotCount = 0
    BY SlotCountAssumption DEF Indexes
  <1>2. i + 1 < SlotCount => (i + 1) % SlotCount = i + 1
    BY SlotCountAssumption DEF Indexes
  <1> QED
    BY <1>1, <1>2, SlotCountAssumption DEF NextIndex, Indexes

(* next_index() stays inside the ring, moves, and never merges two cursors. *)
LEMMA NextIndexFacts ==
    /\ \A i \in Indexes : NextIndex(i) \in Indexes /\ NextIndex(i) # i
    /\ \A i, j \in Indexes : NextIndex(i) = NextIndex(j) => i = j
  BY NextIndexValue, SlotCountAssumption DEF Indexes

(* distance() is a count of slots.                                         *)
LEMMA DistanceType ==
    ASSUME NEW i \in Indexes, NEW j \in Indexes
    PROVE  Distance(i, j) \in Nat
  BY SlotCountAssumption DEF Distance, Indexes

(* Incrementing the generation flips its parity.                           *)
LEMMA Parity == ASSUME NEW n \in Nat PROVE (n + 1) % 2 = 1 <=> n % 2 # 1
  OBVIOUS

-----------------------------------------------------------------------------
(* LatestHandoff::split establishes the invariant.                         *)
LEMMA InitIInv == Init => IInv
  <1> SUFFICES ASSUME Init PROVE IInv
    OBVIOUS
  <1>1. taken \in Seq(Nat)
    BY DEF Init
  <1>2. 0 \in Indexes
    BY SlotCountAssumption DEF Indexes
  <1>3. slots \in [Indexes -> Nat]
    BY DEF Init
  <1>4. TypeOK
    BY <1>1, <1>2, <1>3 DEF Init, TypeOK, ProducerPoints, ConsumerPoints
  <1>5. ParityInv /\ RoomInv /\ ClaimInv /\ SnapshotInv
    BY DEF Init, ParityInv, Replacing, RoomInv, ClaimInv, SnapshotInv
  <1> QED
    BY <1>4, <1>5 DEF IInv

(* Every atomic access of push() and pop() keeps every variable in type.   *)
LEMMA TypeStep == TypeOK /\ [Next]_vars => TypeOK'
  <1> SUFFICES ASSUME TypeOK, [Next]_vars PROVE TypeOK'
    OBVIOUS
  <1> USE DEF TypeOK, ProducerPoints, ConsumerPoints, shared, pvars, cvars
  <1>1. CASE PushBegin
    <2>1. pushed' \in Nat
      BY <1>1 DEF PushBegin
    <2> QED BY <1>1, <2>1 DEF PushBegin
  <1>2. CASE PushWrite BY <1>2 DEF PushWrite
  <1>3. CASE PushStore BY <1>3, NextIndexFacts DEF PushStore
  <1>4. CASE PushBump BY <1>4 DEF PushBump
  <1>5. CASE PushReload BY <1>5 DEF PushReload
  <1>6. CASE PushCompareExchange BY <1>6 DEF PushCompareExchange
  <1>7. CASE PushCount
    <2>1. Distance(pseen, producer) \in Nat
      BY DistanceType
    <2> QED BY <1>7, <2>1 DEF PushCount
  <1>8. CASE PushFinish BY <1>8 DEF PushFinish
  <1>9. CASE PushDropCount BY <1>9 DEF PushDropCount
  <1>10. CASE PushDropFinish BY <1>10 DEF PushDropFinish
  <1>11. CASE PopGeneration BY <1>11 DEF PopGeneration
  <1>12. CASE PopState BY <1>12 DEF PopState
  <1>13. CASE PopCompare BY <1>13 DEF PopCompare
  <1>14. CASE PopClaim BY <1>14 DEF PopClaim
  <1>15. CASE PopVerify BY <1>15 DEF PopVerify
  <1>16. CASE PopRestore BY <1>16 DEF PopRestore
  <1>17. CASE PopCopy BY <1>17 DEF PopCopy
  <1>18. CASE PopRelease
    <2>1. taken' \in Seq(Nat)
      BY <1>18 DEF PopRelease
    <2> QED BY <1>18, <2>1, NextIndexFacts DEF PopRelease
  <1>19. CASE UNCHANGED vars BY <1>19 DEF vars
  <1> QED
    BY <1>1, <1>2, <1>3, <1>4, <1>5, <1>6, <1>7, <1>8, <1>9, <1>10, <1>11,
       <1>12, <1>13, <1>14, <1>15, <1>16, <1>17, <1>18, <1>19 DEF Next, Push, Pop

(* push() preserves the invariant, whatever pop() is doing.                *)
LEMMA PushStep == IInv /\ Push => IInv'
  <1> SUFFICES ASSUME IInv, Push PROVE IInv'
    OBVIOUS
  <1>0. TypeOK /\ TypeOK'
    BY TypeStep DEF IInv, Next
  <1> USE <1>0 DEF IInv, TypeOK, ParityInv, Replacing, RoomInv, ClaimInv,
                   SnapshotInv, shared, cvars
  <1>1. CASE PushBegin
    BY <1>1 DEF PushBegin
  <1>2. CASE PushWrite
    BY <1>2 DEF PushWrite
  <1>3. CASE PushStore
    <2>1. ParityInv' /\ RoomInv' /\ ClaimInv'
      BY <1>3 DEF PushStore
    <2>2. SnapshotInv'
      BY <1>3 DEF PushStore
    <2> QED BY <2>1, <2>2
  <1>4. CASE PushBump
    BY <1>4, Parity DEF PushBump
  <1>5. CASE PushReload
    BY <1>5 DEF PushReload
  <1>6. CASE PushCompareExchange
    <2>1. ParityInv'
      BY <1>6 DEF PushCompareExchange
    <2>2. RoomInv' /\ ClaimInv'
      BY <1>6, NextIndexFacts DEF PushCompareExchange
    \* The generation is odd here, so it differs from pop()'s snapshot.
    <2>3. generation % 2 = 1
      BY <1>6 DEF PushCompareExchange
    <2>4. SnapshotInv'
      BY <1>6, <2>3 DEF PushCompareExchange
    <2> QED BY <2>1, <2>2, <2>4
  <1>7. CASE PushCount
    BY <1>7 DEF PushCount
  <1>8. CASE PushFinish
    BY <1>8, Parity DEF PushFinish
  <1>9. CASE PushDropCount
    BY <1>9 DEF PushDropCount
  <1>10. CASE PushDropFinish
    BY <1>10, Parity DEF PushDropFinish
  <1> QED
    BY <1>1, <1>2, <1>3, <1>4, <1>5, <1>6, <1>7, <1>8, <1>9, <1>10 DEF Push

(* pop() preserves the invariant, whatever push() is doing.                *)
LEMMA PopStep == IInv /\ Pop => IInv'
  <1> SUFFICES ASSUME IInv, Pop PROVE IInv'
    OBVIOUS
  <1>0. TypeOK /\ TypeOK'
    BY TypeStep DEF IInv, Next
  <1> USE <1>0 DEF IInv, TypeOK, ParityInv, Replacing, RoomInv, ClaimInv,
                   SnapshotInv, shared, pvars
  <1>1. CASE PopGeneration BY <1>1 DEF PopGeneration
  <1>2. CASE PopState BY <1>2 DEF PopState
  <1>3. CASE PopCompare BY <1>3 DEF PopCompare
  <1>4. CASE PopClaim BY <1>4 DEF PopClaim
  <1>5. CASE PopVerify BY <1>5 DEF PopVerify
  <1>6. CASE PopRestore BY <1>6 DEF PopRestore
  <1>7. CASE PopCopy BY <1>7 DEF PopCopy
  <1>8. CASE PopRelease
    \* The released cursor moves at most up to the producer's.
    <2>1. RoomInv'
      BY <1>8, NextIndexFacts DEF PopRelease
    <2>2. ParityInv' /\ ClaimInv' /\ SnapshotInv'
      BY <1>8 DEF PopRelease
    <2> QED BY <2>1, <2>2
  <1> QED
    BY <1>1, <1>2, <1>3, <1>4, <1>5, <1>6, <1>7, <1>8 DEF Pop

\* A step that changes nothing, of either thread, keeps the invariant.
LEMMA StutterStep == IInv /\ UNCHANGED vars => IInv'
  BY DEF IInv, TypeOK, ParityInv, Replacing, RoomInv, ClaimInv, SnapshotInv,
         vars, shared, pvars, cvars

(* The invariant holds throughout.                                         *)
THEOREM InvariantHolds == Spec => []IInv
  <1>1. Init => IInv
    BY InitIInv
  <1>2. IInv /\ [Next]_vars => IInv'
    BY PushStep, PopStep, StutterStep DEF Next
  <1> QED
    BY <1>1, <1>2, PTL DEF Spec

(* Cursors, counters and delivered values keep their types.                *)
THEOREM TypeCorrect == Spec => []TypeOK
  <1>1. IInv => TypeOK
    BY DEF IInv
  <1> QED
    BY <1>1, InvariantHolds, PTL

(* The unsafe slot write of publish() and the unsafe slot read of pop()    *)
(* never meet in one slot, for any ring of at least two slots.             *)
THEOREM SlotRaceFreedom == Spec => []NoSlotRace
  <1>1. IInv => NoSlotRace
    BY DEF IInv, ClaimInv, SnapshotInv, NoSlotRace
  <1> QED
    BY <1>1, InvariantHolds, PTL

-----------------------------------------------------------------------------
(* What is delivered, and what the statistics count.                       *)

(* distance() without the remainder.                                       *)
LEMMA DistanceValue ==
    ASSUME NEW i \in Indexes, NEW j \in Indexes
    PROVE  Distance(i, j) = IF i <= j THEN j - i ELSE j - i + SlotCount
  <1> DEFINE d == j + SlotCount - i
  <1>1. i <= j => d % SlotCount = j - i
    <2> SUFFICES ASSUME i <= j PROVE d % SlotCount = j - i
      OBVIOUS
    <2>1. j - i \in 0 .. SlotCount - 1 /\ d = (j - i) + SlotCount
      BY SlotCountAssumption DEF Indexes
    <2> QED
      BY <2>1, SlotCountAssumption DEF Indexes
  <1>2. ~(i <= j) => d % SlotCount = d
    BY SlotCountAssumption DEF Indexes
  <1> QED
    BY <1>1, <1>2, SlotCountAssumption DEF Distance, Indexes

(* The distance from the consumer's cursor numbers the slots of the ring.  *)
LEMMA DistanceFacts ==
    ASSUME NEW c \in Indexes, NEW j \in Indexes
    PROVE  /\ Distance(c, j) \in 0 .. SlotCount - 1
           /\ Distance(c, j) = 0 <=> c = j
           /\ \A i \in Indexes : Distance(c, i) = Distance(c, j) => i = j
           /\ NextIndex(j) # c => Distance(c, NextIndex(j)) = Distance(c, j) + 1
           /\ NextIndex(j) = c => Distance(c, j) = SlotCount - 1
           /\ c # j => Distance(NextIndex(c), j) = Distance(c, j) - 1
           /\ Distance(NextIndex(c), c) = SlotCount - 1
  <1> USE SlotCountAssumption DEF Indexes
  <1>1. /\ NextIndex(c) \in Indexes /\ NextIndex(c) = IF c + 1 = SlotCount THEN 0 ELSE c + 1
        /\ NextIndex(j) \in Indexes /\ NextIndex(j) = IF j + 1 = SlotCount THEN 0 ELSE j + 1
    BY NextIndexValue, NextIndexFacts
  <1>2. Distance(c, j) = IF c <= j THEN j - c ELSE j - c + SlotCount
    BY DistanceValue
  <1>3. \A i \in Indexes : Distance(c, i) = Distance(c, j) => i = j
    <2> SUFFICES ASSUME NEW i \in Indexes, Distance(c, i) = Distance(c, j) PROVE i = j
      OBVIOUS
    <2>1. Distance(c, i) = IF c <= i THEN i - c ELSE i - c + SlotCount
      BY DistanceValue
    <2> QED
      BY <1>2, <2>1
  <1>4. NextIndex(j) # c => Distance(c, NextIndex(j)) = Distance(c, j) + 1
    <2>1. Distance(c, NextIndex(j))
            = IF c <= NextIndex(j) THEN NextIndex(j) - c ELSE NextIndex(j) - c + SlotCount
      BY <1>1, DistanceValue
    <2> QED
      BY <1>1, <1>2, <2>1
  <1>5. NextIndex(j) = c => Distance(c, j) = SlotCount - 1
    BY <1>1, <1>2
  <1>6. c # j => Distance(NextIndex(c), j) = Distance(c, j) - 1
    <2>1. Distance(NextIndex(c), j)
            = IF NextIndex(c) <= j THEN j - NextIndex(c) ELSE j - NextIndex(c) + SlotCount
      BY <1>1, DistanceValue
    <2> QED
      BY <1>1, <1>2, <2>1
  <1>7. Distance(NextIndex(c), c) = SlotCount - 1
    <2>1. Distance(NextIndex(c), c)
            = IF NextIndex(c) <= c THEN c - NextIndex(c) ELSE c - NextIndex(c) + SlotCount
      BY <1>1, DistanceValue
    <2> QED
      BY <1>1, <2>1
  <1> QED
    BY <1>2, <1>3, <1>4, <1>5, <1>6, <1>7

(* LatestHandoff::split delivers nothing and counts nothing.               *)
LEMMA InitDelivery == Init => DeliveryInv
  <1> SUFFICES ASSUME Init PROVE DeliveryInv
    OBVIOUS
  <1>1. 0 \in Indexes
    BY SlotCountAssumption DEF Indexes
  <1>2. Distance(consumer, producer) = 0
    BY <1>1, DistanceFacts DEF Init
  <1>3. \A j \in Indexes : Distance(consumer, j) \in Nat
    BY <1>1, DistanceFacts DEF Init
  <1>4. Len(taken) = 0 /\ discarded = 0 /\ pushed = 0
    BY DEF Init
  <1>5. OrderInv
    BY <1>2, <1>3, <1>4 DEF OrderInv, Waiting, DeliveredInOrder, Init
  <1> QED
    BY <1>2, <1>4, <1>5 DEF Init, DeliveryInv, EmptiedInv, AccountInv

(* push() loses no value and disturbs no value that waits.                 *)
LEMMA PushDelivery == IInv /\ DeliveryInv /\ Push => DeliveryInv'
  <1> SUFFICES ASSUME IInv, DeliveryInv, Push PROVE DeliveryInv'
    OBVIOUS
  <1>t. TypeOK /\ TypeOK' /\ RoomInv /\ ClaimInv /\ SnapshotInv /\ ParityInv
    BY TypeStep DEF IInv, Next
  <1>d. \A c, j \in Indexes : Distance(c, j) \in Nat
    BY DistanceType
  <1>i. EmptiedInv /\ OrderInv /\ AccountInv
    BY DEF DeliveryInv
  <1>c. /\ producer \in Indexes /\ consumer \in Indexes /\ pseen \in Indexes
        /\ claimed \in Indexes
    BY <1>t DEF TypeOK
  <1>n. discarded \in Nat /\ pushed \in Nat /\ Distance(consumer, producer) \in Nat
    BY <1>t, <1>c, <1>d DEF TypeOK
  <1>v. /\ \A j \in Indexes : slots[j] \in Nat
        /\ \A n \in 1 .. Len(taken) : taken[n] \in Nat
        /\ Len(taken) \in Nat
    <2>1. slots \in [Indexes -> Nat] /\ taken \in Seq(Nat)
      BY <1>t DEF TypeOK
    <2> QED
      BY <2>1
  <1>2. CASE PushWrite
    <2>1. ~Waiting(producer)
      BY <1>c, <1>d, DistanceFacts DEF Waiting
    <2>2. \A j \in Indexes : j # producer => slots'[j] = slots[j]
      BY <1>t, <1>2 DEF PushWrite, TypeOK
    <2>3. \A j \in Indexes : Waiting(j) => slots'[j] = slots[j]
      BY <2>1, <2>2
    <2>4. UNCHANGED <<producer, consumer, discarded, pushed, taken, replacing, claimed,
                      cpc, cvalue, pseen>> /\ ppc = "write" /\ ppc' = "store"
      BY <1>2 DEF PushWrite, cvars
    <2>5. EmptiedInv' /\ AccountInv' /\ DeliveredInOrder'
      BY <1>i, <2>4 DEF EmptiedInv, AccountInv, OrderInv, DeliveredInOrder
    <2>6. slots'[producer] = pushed
      BY <1>t, <1>2 DEF PushWrite, TypeOK
    <2>7. cpc = "release" => slots'[claimed] = slots[claimed]
      BY <1>t, <2>2 DEF ClaimInv, SnapshotInv, TypeOK
    <2>8. \A i, j \in Indexes :
             Waiting(j) /\ Distance(consumer, i) < Distance(consumer, j)
                 => slots'[i] < slots'[j]
      <3> SUFFICES ASSUME NEW i \in Indexes, NEW j \in Indexes, Waiting(j),
                          Distance(consumer, i) < Distance(consumer, j)
                   PROVE  slots'[i] < slots'[j]
        OBVIOUS
      <3>1. Waiting(i)
        BY <1>c, <1>d DEF Waiting
      <3> QED
        BY <1>i, <2>3, <3>1 DEF OrderInv
    <2>9. \A j \in Indexes : Waiting(j) =>
             /\ slots'[j] > 0 /\ slots'[j] <= Settled
             /\ \A n \in 1 .. Len(taken) : taken[n] < slots'[j]
      BY <1>i, <2>3 DEF OrderInv
    <2>10. Settled' = Settled
      BY <2>4 DEF Settled
    <2>11. OrderInv'
      BY <1>i, <2>4, <2>5, <2>6, <2>7, <2>8, <2>9, <2>10 DEF OrderInv, Waiting
    <2> QED
      BY <2>5, <2>11 DEF DeliveryInv
  <1>3. CASE PushStore
    <2> DEFINE d == Distance(consumer, producer)
    <2>1. /\ ppc = "store" /\ producer' = NextIndex(producer)
          /\ ppc' = IF replacing THEN "finish" ELSE "idle"
          /\ UNCHANGED <<slots, consumer, discarded, pushed, taken, cpc, claimed, cvalue>>
      BY <1>3 DEF PushStore, cvars
    <2>2. NextIndex(producer) # consumer
      BY <1>t, <2>1 DEF RoomInv
    <2>3. /\ d \in Nat /\ Distance(consumer, NextIndex(producer)) = d + 1
          /\ \A j \in Indexes : Distance(consumer, j) = d => j = producer
      BY <1>t, <2>2, DistanceFacts DEF TypeOK
    <2>4. \A j \in Indexes : Waiting(j)' <=> (Waiting(j) \/ j = producer)
      BY <1>c, <1>d, <2>1, <2>3 DEF Waiting
    <2>5. /\ slots[producer] = pushed /\ pushed > 0 /\ pushed \in Nat
          /\ Settled = pushed - 1 /\ Settled' = pushed
      BY <1>t, <1>i, <2>1 DEF OrderInv, Settled, TypeOK
    <2>6. \A j \in Indexes : Waiting(j)' =>
             /\ slots[j] > 0 /\ slots[j] <= pushed
             /\ \A n \in 1 .. Len(taken) : taken[n] < slots[j]
      BY <1>i, <1>v, <2>4, <2>5 DEF OrderInv
    <2>7. \A i, j \in Indexes :
             Waiting(j)' /\ Distance(consumer, i) < Distance(consumer, j)
                 => slots[i] < slots[j]
      <3> SUFFICES ASSUME NEW i \in Indexes, NEW j \in Indexes, Waiting(j)',
                          Distance(consumer, i) < Distance(consumer, j)
                   PROVE  slots[i] < slots[j]
        OBVIOUS
      <3>1. CASE Waiting(j) BY <1>i, <3>1 DEF OrderInv
      <3>2. CASE j = producer
        <4>1. Waiting(i)
          BY <3>2 DEF Waiting
        <4> QED
          BY <1>i, <1>v, <2>5, <3>2, <4>1 DEF OrderInv
      <3> QED
        BY <2>4, <3>1, <3>2
    <2>8. \A n \in 1 .. Len(taken) : taken[n] <= pushed
      BY <1>i, <1>v, <2>5 DEF OrderInv
    <2>9. OrderInv'
      BY <1>i, <2>1, <2>5, <2>6, <2>7, <2>8 DEF OrderInv, Waiting, DeliveredInOrder
    <2>10. EmptiedInv' /\ AccountInv'
      BY <1>t, <1>i, <1>v, <2>1, <2>3 DEF EmptiedInv, AccountInv, TypeOK
    <2> QED
      BY <2>9, <2>10 DEF DeliveryInv
  <1>6. CASE PushCompareExchange
    <2>1. CASE pseen = consumer /\ ~reading
      <3>1. Distance(producer, producer) = 0
        BY <1>t, DistanceFacts DEF TypeOK
      <3>2. /\ consumer' = producer /\ ppc = "cas" /\ ppc' = "count" /\ replacing' = TRUE
            /\ UNCHANGED <<slots, producer, discarded, pushed, taken, pseen, cpc, claimed,
                           cvalue>>
        BY <1>6, <2>1 DEF PushCompareExchange, cvars
      <3>3. \A j \in Indexes : ~Waiting(j)'
        BY <1>c, <1>d, <3>1, <3>2 DEF Waiting
      <3>4. OrderInv'
        BY <1>i, <3>2, <3>3 DEF OrderInv, Settled, DeliveredInOrder
      <3> QED
        BY <1>i, <2>1, <3>2, <3>4 DEF DeliveryInv, EmptiedInv, AccountInv
    <2>2. CASE ~(pseen = consumer /\ ~reading)
      <3>1. /\ ppc = "cas" /\ ppc' = "dropCount"
            /\ UNCHANGED <<slots, producer, consumer, discarded, pushed, taken, pseen, cpc,
                           claimed, cvalue, replacing>>
        BY <1>6, <2>2 DEF PushCompareExchange, cvars
      <3>2. Settled = pushed - 1 /\ Settled' = pushed /\ pushed \in Nat
        BY <1>t, <3>1 DEF Settled, TypeOK
      <3>3. \A j \in Indexes : Waiting(j)' <=> Waiting(j)
        BY <3>1 DEF Waiting
      <3>4. \A j \in Indexes : Waiting(j) =>
               /\ slots[j] > 0 /\ slots[j] <= pushed
               /\ \A n \in 1 .. Len(taken) : taken[n] < slots[j]
        BY <1>i, <1>v, <3>2 DEF OrderInv
      <3>5. \A n \in 1 .. Len(taken) : taken[n] <= pushed
        BY <1>i, <1>v, <3>2 DEF OrderInv
      <3>6. OrderInv'
        BY <1>i, <3>1, <3>2, <3>3, <3>4, <3>5 DEF OrderInv, DeliveredInOrder
      <3> QED
        BY <1>i, <3>1, <3>6 DEF DeliveryInv, EmptiedInv, AccountInv
    <2> QED
      BY <2>1, <2>2
  <1>7. CASE PushCount
    <2>1. Distance(consumer, producer) = 0
      BY <1>t, <1>i, <1>7, DistanceFacts DEF PushCount, ParityInv, EmptiedInv, TypeOK
    <2>2. /\ discarded' = discarded + Distance(pseen, producer)
          /\ ppc = "count" /\ ppc' = "write"
          /\ UNCHANGED <<slots, producer, consumer, pushed, taken, replacing, cpc, claimed,
                         cvalue>>
      BY <1>7 DEF PushCount, cvars
    <2>3. OrderInv' /\ EmptiedInv'
      BY <1>i, <2>2 DEF OrderInv, EmptiedInv, Waiting, Settled, DeliveredInOrder
    <2>4. AccountInv'
      <3>1. Distance(pseen, producer) \in Nat
        BY <1>c, <1>d
      <3>2. pushed = Len(taken) + discarded + Distance(pseen, producer) + 1
        BY <1>i, <2>2 DEF AccountInv
      <3>3. pushed' = Len(taken') + discarded' + Distance(consumer', producer') + 1
        BY <1>n, <1>v, <2>1, <2>2, <3>1, <3>2
      <3> QED
        BY <2>2, <3>3 DEF AccountInv
    <2> QED
      BY <2>3, <2>4 DEF DeliveryInv
  <1>9. CASE PushDropCount
    <2>1. /\ ppc = "dropCount" /\ ppc' = "dropFinish" /\ discarded' = discarded + 1
          /\ UNCHANGED <<slots, producer, consumer, pushed, taken, replacing, cpc, claimed,
                         cvalue>>
      BY <1>9 DEF PushDropCount, cvars
    <2>2. OrderInv' /\ EmptiedInv'
      BY <1>i, <2>1 DEF OrderInv, EmptiedInv, Waiting, Settled, DeliveredInOrder
    <2>3. AccountInv'
      BY <1>n, <1>v, <1>i, <2>1 DEF AccountInv
    <2> QED
      BY <2>2, <2>3 DEF DeliveryInv
  <1> USE <1>t, <1>d, <1>v
      DEF DeliveryInv, EmptiedInv, OrderInv, AccountInv, Settled, Waiting,
          DeliveredInOrder, TypeOK, shared, cvars
  <1>1. CASE PushBegin BY <1>1 DEF PushBegin
  <1>4. CASE PushBump BY <1>4 DEF PushBump
  <1>5. CASE PushReload BY <1>5 DEF PushReload
  <1>8. CASE PushFinish BY <1>8 DEF PushFinish
  <1>10. CASE PushDropFinish BY <1>10 DEF PushDropFinish
  <1> QED
    BY <1>1, <1>2, <1>3, <1>4, <1>5, <1>6, <1>7, <1>8, <1>9, <1>10 DEF Push

(* pop() delivers the oldest value that waits, once.                       *)
LEMMA PopDelivery == IInv /\ DeliveryInv /\ Pop => DeliveryInv'
  <1> SUFFICES ASSUME IInv, DeliveryInv, Pop PROVE DeliveryInv'
    OBVIOUS
  <1>t. TypeOK /\ TypeOK' /\ RoomInv /\ ClaimInv /\ SnapshotInv
    BY TypeStep DEF IInv, Next
  <1>d. \A c, j \in Indexes : Distance(c, j) \in Nat
    BY DistanceType
  <1>i. EmptiedInv /\ OrderInv /\ AccountInv
    BY DEF DeliveryInv
  <1>c. /\ producer \in Indexes /\ consumer \in Indexes /\ pseen \in Indexes
        /\ claimed \in Indexes
    BY <1>t DEF TypeOK
  <1>n. discarded \in Nat /\ pushed \in Nat /\ Distance(consumer, producer) \in Nat
    BY <1>t, <1>c, <1>d DEF TypeOK
  <1>v. /\ \A j \in Indexes : slots[j] \in Nat
        /\ \A n \in 1 .. Len(taken) : taken[n] \in Nat
        /\ Len(taken) \in Nat
    <2>1. slots \in [Indexes -> Nat] /\ taken \in Seq(Nat)
      BY <1>t DEF TypeOK
    <2> QED
      BY <2>1
  <1>8. CASE PopRelease
    <2> DEFINE d == Distance(consumer, producer)
    <2>1. consumer # producer /\ claimed = consumer /\ cvalue = slots[consumer]
      BY <1>t, <1>i, <1>8 DEF PopRelease, ClaimInv, SnapshotInv, OrderInv
    <2>2. /\ consumer' = NextIndex(consumer) /\ taken' = Append(taken, slots[consumer])
          /\ cpc' = "idle"
          /\ UNCHANGED <<slots, producer, discarded, ppc, pushed, replacing, pseen>>
      BY <1>8, <2>1 DEF PopRelease, pvars
    <2>3. /\ d \in 1 .. SlotCount - 1 /\ Distance(consumer', producer) = d - 1
          /\ Distance(consumer, consumer) = 0
          /\ Distance(consumer', consumer) = SlotCount - 1
      BY <1>c, <2>1, <2>2, DistanceFacts, SlotCountAssumption
    <2>4. \A j \in Indexes : j # consumer =>
             /\ Distance(consumer, j) \in 1 .. SlotCount - 1
             /\ Distance(consumer', j) = Distance(consumer, j) - 1
      <3> SUFFICES ASSUME NEW j \in Indexes, j # consumer
                   PROVE  /\ Distance(consumer, j) \in 1 .. SlotCount - 1
                          /\ Distance(NextIndex(consumer), j) = Distance(consumer, j) - 1
        BY <2>2
      <3>1. /\ Distance(consumer, j) \in 0 .. SlotCount - 1
            /\ Distance(consumer, j) # 0
            /\ Distance(NextIndex(consumer), j) = Distance(consumer, j) - 1
        BY <1>c, DistanceFacts
      <3> QED
        BY <3>1, SlotCountAssumption
    <2>5. Waiting(consumer)
      BY <2>3 DEF Waiting
    <2>6. \A j \in Indexes : Waiting(j)' => Waiting(j) /\ j # consumer
      BY <2>2, <2>3, <2>4, SlotCountAssumption DEF Waiting
    <2>7. /\ Len(taken') = Len(taken) + 1
          /\ \A n \in 1 .. Len(taken) : taken'[n] = taken[n]
          /\ taken'[Len(taken) + 1] = slots[consumer]
      BY <1>t, <2>2, AppendProperties DEF TypeOK
    <2>8. \A j \in Indexes : Waiting(j) /\ j # consumer => slots[consumer] < slots[j]
      <3> SUFFICES ASSUME NEW j \in Indexes, Waiting(j), j # consumer
                   PROVE  slots[consumer] < slots[j]
        OBVIOUS
      <3>1. Distance(consumer, consumer) < Distance(consumer, j)
        BY <2>3, <2>4
      <3> QED
        BY <1>t, <1>i, <3>1 DEF OrderInv, TypeOK
    <2>9. Settled' = Settled /\ Settled \in Int
      BY <1>t, <2>2 DEF Settled, TypeOK
    <2>10. \A j \in Indexes : Waiting(j)' =>
              /\ slots[j] > 0 /\ slots[j] <= Settled
              /\ \A n \in 1 .. Len(taken') : taken'[n] < slots[j]
      BY <1>i, <1>v, <2>6, <2>7, <2>8 DEF OrderInv
    <2>11. \A i, j \in Indexes :
              Waiting(j)' /\ Distance(consumer', i) < Distance(consumer', j)
                  => slots[i] < slots[j]
      <3> SUFFICES ASSUME NEW i \in Indexes, NEW j \in Indexes, Waiting(j)',
                          Distance(consumer', i) < Distance(consumer', j)
                   PROVE  slots[i] < slots[j]
        OBVIOUS
      <3>1. j # consumer /\ Waiting(j)
        BY <2>6
      <3>2. i # consumer
        BY <2>3, <2>4, <3>1, SlotCountAssumption
      <3>3. Distance(consumer, i) < Distance(consumer, j)
        BY <2>4, <3>1, <3>2
      <3> QED
        BY <1>i, <3>1, <3>3 DEF OrderInv
    <2>12. \A n \in 1 .. Len(taken') : taken'[n] > 0 /\ taken'[n] <= Settled
      <3>1. slots[consumer] > 0 /\ slots[consumer] <= Settled
        BY <1>t, <1>i, <2>5 DEF OrderInv, TypeOK
      <3>2. \A n \in 1 .. Len(taken) : taken[n] > 0 /\ taken[n] <= Settled
        BY <1>i DEF OrderInv, DeliveredInOrder
      <3> QED
        BY <1>v, <2>7, <3>1, <3>2
    <2>13. DeliveredInOrder'
      <3> SUFFICES ASSUME NEW n \in 1 .. Len(taken'), n > 1
                   PROVE  taken'[n - 1] < taken'[n]
        BY <2>12 DEF DeliveredInOrder
      <3>1. CASE n \in 1 .. Len(taken)
        BY <1>i, <1>v, <2>7, <3>1 DEF OrderInv, DeliveredInOrder
      <3>2. CASE n = Len(taken) + 1
        <4>1. taken[n - 1] < slots[consumer]
          BY <1>t, <1>i, <1>v, <2>5, <3>2 DEF OrderInv, TypeOK
        <4> QED
          BY <1>v, <2>7, <3>2, <4>1
      <3> QED
        BY <1>v, <2>7, <3>1, <3>2
    <2>14. OrderInv'
      BY <1>i, <2>2, <2>9, <2>10, <2>11, <2>12, <2>13 DEF OrderInv
    <2>15. EmptiedInv'
      BY <1>i, <2>1, <2>2 DEF EmptiedInv
    <2>16. AccountInv'
      <3>1. ppc # "count"
        BY <1>t, <1>i, <2>1 DEF EmptiedInv, IInv, ParityInv
      <3> QED
        BY <1>n, <1>i, <1>v, <2>2, <2>3, <2>7, <3>1 DEF AccountInv
    <2> QED
      BY <2>14, <2>15, <2>16 DEF DeliveryInv
  <1> USE <1>t, <1>d
      DEF DeliveryInv, EmptiedInv, OrderInv, AccountInv, Settled, Waiting,
          DeliveredInOrder, TypeOK, shared, pvars
  <1>1. CASE PopGeneration BY <1>1 DEF PopGeneration
  <1>2. CASE PopState BY <1>2 DEF PopState
  <1>3. CASE PopCompare BY <1>3 DEF PopCompare
  <1>4. CASE PopClaim BY <1>4 DEF PopClaim
  <1>5. CASE PopVerify BY <1>5 DEF PopVerify
  <1>6. CASE PopRestore BY <1>6 DEF PopRestore, ClaimInv
  <1>7. CASE PopCopy BY <1>7 DEF PopCopy
  <1> QED
    BY <1>1, <1>2, <1>3, <1>4, <1>5, <1>6, <1>7, <1>8 DEF Pop

(* A step that changes nothing keeps what is delivered and counted.        *)
LEMMA StutterDelivery == DeliveryInv /\ UNCHANGED vars => DeliveryInv'
  BY DEF DeliveryInv, EmptiedInv, OrderInv, AccountInv, Settled, Waiting,
         DeliveredInOrder, vars, shared, pvars, cvars

(* Both invariants hold throughout.                                        *)
THEOREM DeliveryHolds == Spec => [](IInv /\ DeliveryInv)
  <1>1. Init => IInv /\ DeliveryInv
    BY InitIInv, InitDelivery
  <1>2. IInv /\ DeliveryInv /\ [Next]_vars => (IInv /\ DeliveryInv)'
    BY PushStep, PopStep, StutterStep, PushDelivery, PopDelivery, StutterDelivery
       DEF Next
  <1> QED
    BY <1>1, <1>2, PTL DEF Spec

(* For any ring of at least two slots and any number of pushes: pop()      *)
(* hands values out once and in order, and between pushes the statistics   *)
(* account for every value pushed.                                         *)
THEOREM ValuesAccounted == Spec => []EveryValueAccounted
  <1>1. IInv /\ DeliveryInv => EveryValueAccounted
    BY DEF DeliveryInv, OrderInv, AccountInv, EveryValueAccounted
  <1> QED
    BY <1>1, DeliveryHolds, PTL

-----------------------------------------------------------------------------
(* The refinement of NewestQueue.                                          *)

\* The values of a ring between two cursors: Backlog, of any ring.
Contents(ring, c, p) ==
    [i \in 1 .. Distance(c, p) |-> ring[(c + i - 1) % SlotCount]]

(* The i-th slot from a cursor, without the remainder.                     *)
LEMMA SlotFrom ==
    ASSUME NEW c \in Indexes, NEW i \in 1 .. SlotCount
    PROVE  /\ (c + i - 1) % SlotCount \in Indexes
           /\ (c + i - 1) % SlotCount
                = IF c + i - 1 < SlotCount THEN c + i - 1 ELSE c + i - 1 - SlotCount
  <1>1. c + i - 1 < SlotCount => (c + i - 1) % SlotCount = c + i - 1
    BY SlotCountAssumption DEF Indexes
  <1>2. ~(c + i - 1 < SlotCount) => (c + i - 1) % SlotCount = c + i - 1 - SlotCount
    <2> DEFINE r == c + i - 1 - SlotCount
    <2> SUFFICES ASSUME ~(c + i - 1 < SlotCount) PROVE (c + i - 1) % SlotCount = r
      OBVIOUS
    <2>1. r \in 0 .. SlotCount - 1 /\ c + i - 1 = r + SlotCount
      BY SlotCountAssumption DEF Indexes
    <2> QED
      BY <2>1, SlotCountAssumption DEF Indexes
  <1> QED
    BY <1>1, <1>2, SlotCountAssumption DEF Indexes

(* The contents are a sequence as long as the distance of the cursors.     *)
LEMMA ContentsSeq ==
    ASSUME NEW ring \in [Indexes -> Nat], NEW c \in Indexes, NEW p \in Indexes
    PROVE  /\ Contents(ring, c, p) \in Seq(Nat)
           /\ Len(Contents(ring, c, p)) = Distance(c, p)
           /\ \A i \in 1 .. Distance(c, p) :
                  Contents(ring, c, p)[i] = ring[(c + i - 1) % SlotCount]
  <1>1. Distance(c, p) \in Nat /\ Distance(c, p) < SlotCount
    BY DistanceFacts, SlotCountAssumption
  <1>2. \A i \in 1 .. Distance(c, p) : ring[(c + i - 1) % SlotCount] \in Nat
    <2> SUFFICES ASSUME NEW i \in 1 .. Distance(c, p)
                 PROVE  ring[(c + i - 1) % SlotCount] \in Nat
      OBVIOUS
    <2>1. (c + i - 1) % SlotCount \in Indexes
      BY <1>1, SlotFrom, SlotCountAssumption
    <2> QED
      BY <2>1
  <1> QED
    BY <1>1, <1>2 DEF Contents

(* Cursors that meet have nothing between them.                            *)
LEMMA ContentsEmpty ==
    ASSUME NEW ring \in [Indexes -> Nat], NEW c \in Indexes
    PROVE  Contents(ring, c, c) = <<>>
  <1>1. Distance(c, c) = 0
    BY DistanceFacts
  <1> QED
    BY <1>1, ContentsSeq, EmptySeq

(* Publishing a slot appends its value.                                    *)
LEMMA ContentsAppend ==
    ASSUME NEW ring \in [Indexes -> Nat], NEW c \in Indexes, NEW p \in Indexes,
           NextIndex(p) # c
    PROVE  Contents(ring, c, NextIndex(p)) = Append(Contents(ring, c, p), ring[p])
  <1> DEFINE old == Contents(ring, c, p)
             new == Contents(ring, c, NextIndex(p))
             d == Distance(c, p)
  <1>1. d \in Nat /\ d < SlotCount /\ Distance(c, NextIndex(p)) = d + 1
    BY DistanceFacts, SlotCountAssumption
  <1>2. /\ old \in Seq(Nat) /\ Len(old) = d
        /\ \A i \in 1 .. d : old[i] = ring[(c + i - 1) % SlotCount]
    BY ContentsSeq
  <1>3. NextIndex(p) \in Indexes
    BY NextIndexFacts
  <1>4. /\ new \in Seq(Nat) /\ Len(new) = d + 1
        /\ \A i \in 1 .. d + 1 : new[i] = ring[(c + i - 1) % SlotCount]
    BY <1>1, <1>3, ContentsSeq
  <1>5. (c + (d + 1) - 1) % SlotCount = p
    <2>1. d + 1 \in 1 .. SlotCount
      BY <1>1, SlotCountAssumption
    <2>2. d = IF c <= p THEN p - c ELSE p - c + SlotCount
      BY DistanceValue
    <2>3. (c + (d + 1) - 1) % SlotCount
            = IF c + (d + 1) - 1 < SlotCount THEN c + (d + 1) - 1
              ELSE c + (d + 1) - 1 - SlotCount
      BY <2>1, SlotFrom
    <2> HIDE DEF d
    <2> QED
      BY <2>2, <2>3, SlotCountAssumption DEF Indexes
  <1>6. ring[p] \in Nat
    OBVIOUS
  <1> HIDE DEF old, new, d
  <1>7. new[d + 1] = ring[p]
    BY <1>1, <1>4, <1>5
  <1>8. /\ Append(old, ring[p]) \in Seq(Nat) /\ Len(Append(old, ring[p])) = d + 1
        /\ \A i \in 1 .. d : Append(old, ring[p])[i] = old[i]
        /\ Append(old, ring[p])[d + 1] = ring[p]
    BY <1>2, <1>6, AppendProperties
  <1>9. \A i \in 1 .. d + 1 : new[i] = Append(old, ring[p])[i]
    <2> SUFFICES ASSUME NEW i \in 1 .. d + 1 PROVE new[i] = Append(old, ring[p])[i]
      OBVIOUS
    <2>1. CASE i \in 1 .. d BY <1>2, <1>4, <1>8, <2>1
    <2>2. CASE i = d + 1 BY <1>7, <1>8, <2>2
    <2>3. i \in 1 .. d \/ i = d + 1
      BY <1>1
    <2> QED
      BY <2>1, <2>2, <2>3
  <1>10. new = Append(old, ring[p])
    BY <1>4, <1>8, <1>9, SeqEqual
  <1> QED
    BY <1>10 DEF old, new

(* Releasing the claimed slot takes the head.                              *)
LEMMA ContentsTail ==
    ASSUME NEW ring \in [Indexes -> Nat], NEW c \in Indexes, NEW p \in Indexes, c # p
    PROVE  /\ Contents(ring, c, p) # <<>>
           /\ Head(Contents(ring, c, p)) = ring[c]
           /\ Contents(ring, NextIndex(c), p) = Tail(Contents(ring, c, p))
  <1> DEFINE old == Contents(ring, c, p)
             new == Contents(ring, NextIndex(c), p)
             d == Distance(c, p)
  <1>1. d \in Nat \ {0} /\ d < SlotCount /\ Distance(NextIndex(c), p) = d - 1
    BY DistanceFacts, SlotCountAssumption
  <1>2. /\ old \in Seq(Nat) /\ Len(old) = d
        /\ \A i \in 1 .. d : old[i] = ring[(c + i - 1) % SlotCount]
    BY ContentsSeq
  <1>3. NextIndex(c) \in Indexes /\ NextIndex(c) = IF c + 1 = SlotCount THEN 0 ELSE c + 1
    BY NextIndexFacts, NextIndexValue
  <1>4. /\ new \in Seq(Nat) /\ Len(new) = d - 1
        /\ \A i \in 1 .. d - 1 : new[i] = ring[(NextIndex(c) + i - 1) % SlotCount]
    <2> HIDE DEF d
    <2>1. /\ new \in Seq(Nat) /\ Len(new) = Distance(NextIndex(c), p)
          /\ \A i \in 1 .. Distance(NextIndex(c), p) :
                 new[i] = ring[(NextIndex(c) + i - 1) % SlotCount]
      BY <1>3, ContentsSeq
    <2> QED
      BY <1>1, <2>1
  <1> HIDE DEF old, new, d
  <1>5. \A i \in 1 .. d - 1 :
           (NextIndex(c) + i - 1) % SlotCount = (c + (i + 1) - 1) % SlotCount
    <2> SUFFICES ASSUME NEW i \in 1 .. d - 1
                 PROVE  (NextIndex(c) + i - 1) % SlotCount = (c + (i + 1) - 1) % SlotCount
      OBVIOUS
    <2>1. i \in 1 .. SlotCount /\ i + 1 \in 1 .. SlotCount
      BY <1>1, SlotCountAssumption
    <2>2. (NextIndex(c) + i - 1) % SlotCount
            = IF NextIndex(c) + i - 1 < SlotCount THEN NextIndex(c) + i - 1
              ELSE NextIndex(c) + i - 1 - SlotCount
      BY <1>3, <2>1, SlotFrom
    <2>3. (c + (i + 1) - 1) % SlotCount
            = IF c + (i + 1) - 1 < SlotCount THEN c + (i + 1) - 1
              ELSE c + (i + 1) - 1 - SlotCount
      BY <2>1, SlotFrom
    <2> QED
      BY <1>1, <1>3, <2>1, <2>2, <2>3, SlotCountAssumption DEF Indexes
  <1>6. (c + 1 - 1) % SlotCount = c
    BY SlotFrom, SlotCountAssumption DEF Indexes
  <1>7. old # <<>> /\ Head(old) = ring[c]
    <2>1. old # <<>>
      BY <1>1, <1>2, EmptySeq
    <2>2. Head(old) = old[1]
      BY <1>2, <2>1
    <2> QED
      BY <1>1, <1>2, <1>6, <2>1, <2>2
  <1>8. /\ Tail(old) \in Seq(Nat) /\ Len(Tail(old)) = d - 1
        /\ \A i \in 1 .. d - 1 : Tail(old)[i] = old[i + 1]
    BY <1>2, <1>7, HeadTailProperties
  <1>9. \A i \in 1 .. d - 1 : new[i] = Tail(old)[i]
    <2> SUFFICES ASSUME NEW i \in 1 .. d - 1 PROVE new[i] = Tail(old)[i]
      OBVIOUS
    <2>1. i + 1 \in 1 .. d
      BY <1>1
    <2>2. new[i] = ring[(c + (i + 1) - 1) % SlotCount]
      BY <1>4, <1>5
    <2>3. old[i + 1] = ring[(c + (i + 1) - 1) % SlotCount]
      BY <1>2, <2>1
    <2> QED
      BY <1>8, <2>2, <2>3
  <1>10. new = Tail(old)
    BY <1>4, <1>8, <1>9, SeqEqual
  <1> QED
    BY <1>7, <1>10 DEF old, new

(* Filling the producer's slot changes nothing that waits.                 *)
LEMMA ContentsWrite ==
    ASSUME NEW ring \in [Indexes -> Nat], NEW c \in Indexes, NEW p \in Indexes,
           NEW v \in Nat
    PROVE  Contents([ring EXCEPT ![p] = v], c, p) = Contents(ring, c, p)
  <1>1. Distance(c, p) \in Nat /\ Distance(c, p) < SlotCount
        /\ Distance(c, p) = IF c <= p THEN p - c ELSE p - c + SlotCount
    BY DistanceFacts, DistanceValue, SlotCountAssumption
  <1>2. ASSUME NEW i \in 1 .. Distance(c, p)
        PROVE  [ring EXCEPT ![p] = v][(c + i - 1) % SlotCount]
                 = ring[(c + i - 1) % SlotCount]
    <2>1. /\ (c + i - 1) % SlotCount \in Indexes
          /\ (c + i - 1) % SlotCount
               = IF c + i - 1 < SlotCount THEN c + i - 1 ELSE c + i - 1 - SlotCount
      BY <1>1, SlotFrom, SlotCountAssumption
    <2>2. ASSUME NEW d \in Nat, d = IF c <= p THEN p - c ELSE p - c + SlotCount, i <= d
          PROVE  (IF c + i - 1 < SlotCount THEN c + i - 1 ELSE c + i - 1 - SlotCount) # p
      BY <2>2, SlotCountAssumption DEF Indexes
    <2>3. (c + i - 1) % SlotCount # p
      BY <1>1, <2>1, <2>2
    <2> QED
      BY <2>1, <2>3
  <1> QED
    BY <1>2 DEF Contents

(* A fresh ring is an empty queue.                                         *)
LEMMA RefineInit == Init => Abstract!Init
  <1> SUFFICES ASSUME Init PROVE Abstract!Init
    OBVIOUS
  <1>1. 0 \in Indexes /\ slots \in [Indexes -> Nat]
    BY SlotCountAssumption DEF Indexes, Init
  <1>2. Backlog = <<>>
    BY <1>1, ContentsEmpty DEF Init, Backlog, Contents
  <1> QED
    BY <1>2 DEF Init, Abstract!Init, AbstractPhase

(* Every access of push() is a step of the queue's producer, or none.      *)
LEMMA RefinePush ==
    IInv /\ DeliveryInv /\ Push => [Abstract!Next]_(Abstract!vars)
  <1> SUFFICES ASSUME IInv, DeliveryInv, Push PROVE [Abstract!Next]_(Abstract!vars)
    OBVIOUS
  <1>t. /\ slots \in [Indexes -> Nat] /\ consumer \in Indexes /\ producer \in Indexes
        /\ pushed \in Nat
    BY DEF IInv, TypeOK
  <1>i. RoomInv /\ EmptiedInv /\ OrderInv /\ ParityInv
    BY DEF IInv, DeliveryInv
  <1>b. /\ Backlog = Contents(slots, consumer, producer)
        /\ Backlog' = Contents(slots', consumer', producer')
    BY DEF Backlog, Contents
  <1>l. Backlog \in Seq(Nat) /\ Len(Backlog) = Distance(consumer, producer)
    BY <1>t, <1>b, ContentsSeq
  <1>1. CASE PushBegin
    <2>1. /\ ppc = "idle" /\ pushed' = pushed + 1 /\ replacing' = FALSE
          /\ ppc' = IF NextIndex(producer) # consumer THEN "write" ELSE "bump"
          /\ UNCHANGED <<slots, consumer, producer, taken>>
      BY <1>1 DEF PushBegin, shared, cvars
    <2>2. Backlog' = Backlog
      BY <1>b, <2>1
    <2>3. Settled' = Settled /\ AbstractPhase = "idle"
      BY <1>t, <2>1 DEF Settled, AbstractPhase
    <2>4. CASE NextIndex(producer) # consumer
      <3>1. AbstractPhase' = "idle"
        BY <2>1, <2>4 DEF AbstractPhase
      <3> QED
        BY <2>1, <2>2, <2>3, <3>1 DEF Abstract!vars, Settled
    <2>5. CASE NextIndex(producer) = consumer
      <3>1. AbstractPhase' = "full"
        BY <2>1, <2>5 DEF AbstractPhase
      <3>2. Len(Backlog) = SlotCount - 1
        BY <1>t, <1>l, <2>5, DistanceFacts
      <3>3. Abstract!Overflow
        BY <2>1, <2>2, <2>3, <3>1, <3>2 DEF Abstract!Overflow, Settled
      <3> QED
        BY <3>3 DEF Abstract!Next
    <2> QED
      BY <2>4, <2>5
  <1>2. CASE PushWrite
    <2>1. /\ ppc = "write" /\ ppc' = "store" /\ slots' = [slots EXCEPT ![producer] = pushed]
          /\ UNCHANGED <<consumer, producer, taken, replacing, pushed>>
      BY <1>2 DEF PushWrite, cvars
    <2>2. Backlog' = Backlog
      BY <1>t, <1>b, <2>1, ContentsWrite
    <2> QED
      BY <2>1, <2>2 DEF Abstract!vars, AbstractPhase
  <1>3. CASE PushStore
    <2>1. /\ ppc = "store" /\ ppc' = IF replacing THEN "finish" ELSE "idle"
          /\ producer' = NextIndex(producer) /\ slots[producer] = pushed
          /\ UNCHANGED <<slots, consumer, taken, replacing, pushed>>
      BY <1>i, <1>3 DEF PushStore, cvars, OrderInv
    <2>2. NextIndex(producer) # consumer
      BY <1>i, <2>1 DEF RoomInv
    <2>3. Backlog' = Append(Backlog, pushed)
      BY <1>t, <1>b, <2>1, <2>2, ContentsAppend
    <2>4. Settled = pushed - 1 /\ Settled' = pushed /\ AbstractPhase' = "idle"
      BY <2>1 DEF Settled, AbstractPhase
    <2>5. Settled + 1 = pushed
      BY <1>t, <2>4
    <2>6. CASE replacing
      <3>1. Backlog = <<>>
        BY <1>t, <1>i, <1>b, <2>1, <2>6, ContentsEmpty DEF EmptiedInv
      <3>2. Backlog' = <<pushed>>
        BY <1>t, <2>3, <3>1
      <3>3. AbstractPhase = "evicted"
        BY <2>1, <2>6 DEF AbstractPhase
      <3>4. Abstract!Refill
        BY <2>1, <2>4, <2>5, <3>2, <3>3 DEF Abstract!Refill, Settled
      <3> QED
        BY <3>4 DEF Abstract!Next
    <2>7. CASE ~replacing
      <3>1. AbstractPhase = "idle"
        BY <2>1, <2>7 DEF AbstractPhase
      <3>2. Len(Backlog) < SlotCount - 1
        <4>1. NextIndex(producer) \in Indexes
          BY <1>t, NextIndexFacts
        <4>2. Distance(consumer, NextIndex(producer)) = Distance(consumer, producer) + 1
          BY <1>t, <2>2, DistanceFacts
        <4>3. /\ Distance(consumer, NextIndex(producer)) \in 0 .. SlotCount - 1
              /\ Distance(consumer, producer) \in 0 .. SlotCount - 1
          BY <1>t, <4>1, DistanceFacts
        <4> QED
          BY <1>l, <4>2, <4>3, SlotCountAssumption
      <3>3. Abstract!Offer
        BY <2>1, <2>3, <2>4, <2>5, <3>1, <3>2 DEF Abstract!Offer, Settled
      <3> QED
        BY <3>3 DEF Abstract!Next
    <2> QED
      BY <2>6, <2>7
  <1>4. CASE PushBump
    <2>1. Backlog' = Backlog
      BY <1>b, <1>4 DEF PushBump
    <2> QED
      BY <1>4, <2>1 DEF PushBump, cvars, Abstract!vars, AbstractPhase
  <1>5. CASE PushReload
    <2>1. Backlog' = Backlog
      BY <1>b, <1>5 DEF PushReload, shared
    <2> QED
      BY <1>5, <2>1 DEF PushReload, shared, cvars, Abstract!vars, AbstractPhase
  <1>6. CASE PushCompareExchange
    <2>0. ppc = "cas" /\ AbstractPhase = "full" /\ Settled = pushed - 1
          /\ UNCHANGED <<slots, producer, pushed, taken>>
      BY <1>6 DEF PushCompareExchange, cvars, AbstractPhase, Settled
    <2>1. CASE pseen = consumer /\ ~reading
      <3>1. consumer' = producer /\ ppc' = "count"
        BY <1>6, <2>1 DEF PushCompareExchange
      <3>2. Backlog' = <<>>
        BY <1>t, <1>b, <2>0, <3>1, ContentsEmpty
      <3>3. AbstractPhase' = "evicted" /\ Settled' = Settled
        BY <2>0, <3>1 DEF AbstractPhase, Settled
      <3>4. Abstract!Evict
        BY <2>0, <3>2, <3>3 DEF Abstract!Evict, Settled
      <3> QED
        BY <3>4 DEF Abstract!Next
    <2>2. CASE ~(pseen = consumer /\ ~reading)
      <3>1. consumer' = consumer /\ ppc' = "dropCount"
        BY <1>6, <2>2 DEF PushCompareExchange
      <3>2. Backlog' = Backlog
        BY <1>b, <2>0, <3>1
      <3>3. AbstractPhase' = "idle" /\ Settled' = Settled + 1
        BY <1>t, <2>0, <3>1 DEF AbstractPhase, Settled
      <3>4. Abstract!Refuse
        BY <2>0, <3>2, <3>3 DEF Abstract!Refuse, Settled
      <3> QED
        BY <3>4 DEF Abstract!Next
    <2> QED
      BY <2>1, <2>2
  <1>7. CASE PushCount
    <2>1. Backlog' = Backlog
      BY <1>b, <1>7 DEF PushCount
    <2> QED
      BY <1>i, <1>7, <2>1 DEF PushCount, cvars, Abstract!vars, AbstractPhase, ParityInv
  <1>8. CASE PushFinish
    <2>1. Backlog' = Backlog
      BY <1>b, <1>8 DEF PushFinish
    <2> QED
      BY <1>8, <2>1 DEF PushFinish, cvars, Abstract!vars, AbstractPhase
  <1>9. CASE PushDropCount
    <2>1. Backlog' = Backlog
      BY <1>b, <1>9 DEF PushDropCount
    <2> QED
      BY <1>9, <2>1 DEF PushDropCount, cvars, Abstract!vars, AbstractPhase
  <1>10. CASE PushDropFinish
    <2>1. Backlog' = Backlog
      BY <1>b, <1>10 DEF PushDropFinish
    <2> QED
      BY <1>10, <2>1 DEF PushDropFinish, cvars, Abstract!vars, AbstractPhase
  <1> QED
    BY <1>1, <1>2, <1>3, <1>4, <1>5, <1>6, <1>7, <1>8, <1>9, <1>10 DEF Push

(* Every access of pop() but the last leaves the queue alone; the release  *)
(* takes its head.                                                         *)
LEMMA RefinePop ==
    IInv /\ DeliveryInv /\ Pop => [Abstract!Next]_(Abstract!vars)
  <1> SUFFICES ASSUME IInv, DeliveryInv, Pop PROVE [Abstract!Next]_(Abstract!vars)
    OBVIOUS
  <1>t. slots \in [Indexes -> Nat] /\ consumer \in Indexes /\ producer \in Indexes
    BY DEF IInv, TypeOK
  <1>i. ClaimInv /\ SnapshotInv /\ OrderInv
    BY DEF IInv, DeliveryInv
  <1>b. /\ Backlog = Contents(slots, consumer, producer)
        /\ Backlog' = Contents(slots', consumer', producer')
    BY DEF Backlog, Contents
  <1>p. UNCHANGED <<ppc, replacing, pushed>> /\ UNCHANGED <<slots, producer>>
    BY DEF Pop, PopGeneration, PopState, PopCompare, PopClaim, PopVerify, PopRestore,
           PopCopy, PopRelease, shared, pvars
  <1>1. CASE PopRelease
    <2>1. /\ consumer # producer
          /\ consumer' = NextIndex(consumer) /\ taken' = Append(taken, slots[consumer])
      BY <1>i, <1>1 DEF PopRelease, ClaimInv, SnapshotInv, OrderInv
    <2>2. Backlog # <<>> /\ Head(Backlog) = slots[consumer] /\ Backlog' = Tail(Backlog)
      BY <1>t, <1>b, <1>p, <2>1, ContentsTail
    <2>3. Abstract!Take
      BY <1>p, <2>1, <2>2 DEF Abstract!Take, AbstractPhase
    <2> QED
      BY <2>3 DEF Abstract!Next
  <1>2. CASE ~PopRelease
    <2>1. UNCHANGED <<consumer, taken>>
      BY <1>i, <1>2 DEF Pop, PopGeneration, PopState, PopCompare, PopClaim, PopVerify,
                        PopRestore, PopCopy, shared, ClaimInv
    <2>2. Backlog' = Backlog
      BY <1>b, <1>p, <2>1
    <2> QED
      BY <1>p, <2>1, <2>2 DEF Abstract!vars, AbstractPhase
  <1> QED
    BY <1>1, <1>2

(* For any ring of at least two slots, the two lock-free endpoints         *)
(* implement NewestQueue: eviction is all or nothing, and only the head is *)
(* ever taken.                                                             *)
THEOREM NewestQueueImplemented == Spec => ImplementsNewestQueue
  <1>1. Init => Abstract!Init
    BY RefineInit
  <1>2. IInv /\ DeliveryInv /\ [Next]_vars => [Abstract!Next]_(Abstract!vars)
    <2>1. UNCHANGED vars => UNCHANGED Abstract!vars
      BY DEF vars, shared, pvars, cvars, Abstract!vars, Backlog, AbstractPhase
    <2> QED
      BY <2>1, RefinePush, RefinePop DEF Next
  <1> QED
    BY <1>1, <1>2, DeliveryHolds, PTL DEF Spec, ImplementsNewestQueue, Abstract!Spec

-----------------------------------------------------------------------------
(* The station update mailbox.                                             *)
\* What one callback and one half of the mailbox know of the published owner.
HalfInv(d) ==
    /\ meter[d] = port[d]
    /\ slot[d] # Null => slot[d] = Published /\ held[d] = Null /\ ack[d] = 0
    /\ held[d] # Null => held[d] = Published /\ ack[d] = 0
    /\ held[d] # Null /\ adopted[d] => port[d] = Published
    /\ ack[d] = 1 /\ InTransaction => port[d] = Published
    /\ IF InTransaction THEN port[d] \in {current, Forward(txn.id), Reverse(txn.id)}
       ELSE slot[d] = Null /\ held[d] = Null /\ port[d] = current

\* Both halves.
MailboxInv == \A d \in Directions : HalfInv(d)

Unpublished(d) == slot[d] = Null /\ held[d] = Null /\ ack[d] = 0

\* Where a control operation is, and what it has published so far.
ControlInv ==
    /\ ctl # "idle" => InTransaction
    /\ ctl = "settle" => txn.reversing
    /\ ctl = "publishReceive" => \A d \in Directions : Unpublished(d)
    /\ ctl = "publishTransmit" => Unpublished("transmit")
    /\ InTransaction => txn.id # 0

\* A preparation of the present revision started from the plan in force.
RevisionInv ==
    /\ IF InTransaction THEN txn.previous = currentPlan ELSE plan = currentPlan
    /\ \A t \in tokens : /\ t.revision <= revision
                         /\ t.revision = revision => t.previous = currentPlan

\* The inductive invariant.
UpdateInv ==
    UpdateTypeOK /\ MailboxInv /\ ControlInv /\ RevisionInv

-----------------------------------------------------------------------------
(* Owners are told apart by their kind.                                    *)
LEMMA OwnerFacts ==
    /\ Boot \in Owners /\ Null \notin Owners
    /\ \A u \in 0 .. MaxUpdate : Forward(u) \in Owners /\ Reverse(u) \in Owners
  BY BoundsAssumption DEF Owners, Boot, Null, Forward, Reverse

(* What is published is one of the two owners of the transaction.          *)
LEMMA PublishedFacts ==
    ASSUME UpdateTypeOK
    PROVE  /\ Published \in Owners
           /\ ~txn.reversing => Published = Forward(txn.id)
           /\ txn.reversing => Published = Reverse(txn.id)
  <1>1. txn.id \in 0 .. MaxUpdate
    BY DEF UpdateTypeOK
  <1> QED
    BY <1>1, OwnerFacts DEF Published

(* The absence of a transaction has a transaction's type.                  *)
LEMMA NoTransactionFacts ==
    /\ NoTransaction \in [id : 0 .. MaxUpdate, plan : Plans, previous : Plans,
                          reversing : BOOLEAN]
    /\ NoTransaction.id = 0
  BY PlansAssumption, BoundsAssumption DEF NoTransaction

(* Rolling back turns a transaction round and leaves the rest of it.       *)
LEMMA RollbackFacts ==
    ASSUME UpdateInv, Rollback
    PROVE  /\ txn'.id = txn.id /\ txn'.previous = txn.previous /\ txn'.reversing
           /\ InTransaction /\ InTransaction'
  <1>1. /\ txn'.id = txn.id /\ txn'.previous = txn.previous /\ txn'.reversing
        /\ ctl = "decide"
    BY DEF Rollback, UpdateInv, UpdateTypeOK
  <1>2. InTransaction /\ txn.id # 0
    BY <1>1 DEF UpdateInv, ControlInv
  <1> QED
    BY <1>1, <1>2, NoTransactionFacts DEF InTransaction

(* Every step keeps the types.                                             *)
LEMMA UpdateTypeStep == UpdateTypeOK /\ [UpdateNext]_updateVars => UpdateTypeOK'
  <1> SUFFICES ASSUME UpdateTypeOK, [UpdateNext]_updateVars PROVE UpdateTypeOK'
    OBVIOUS
  <1> USE PlansAssumption, BoundsAssumption, OwnerFacts
      DEF UpdateTypeOK, storage, prep, mailbox
  <1>1. ASSUME NEW d \in Directions, Take(d) PROVE UpdateTypeOK'
    BY <1>1 DEF Take
  <1>2. ASSUME NEW d \in Directions, Apply(d) PROVE UpdateTypeOK'
    BY <1>2 DEF Apply
  <1>3. ASSUME NEW d \in Directions, Acknowledge(d) PROVE UpdateTypeOK'
    BY <1>3 DEF Acknowledge
  <1>4. ASSUME NEW d \in Directions, Reject(d) PROVE UpdateTypeOK'
    BY <1>4 DEF Reject
  <1>5. CASE SnapshotUpdate
    <2>1. [id |-> nextId, ready |-> FALSE, plan |-> plan, previous |-> plan,
           revision |-> revision] \in Tokens
      BY <1>5 DEF SnapshotUpdate, Tokens
    <2>2. nextId' \in 1 .. MaxUpdate + 1
      BY <1>5 DEF SnapshotUpdate
    <2> QED
      BY <1>5, <2>1, <2>2 DEF SnapshotUpdate
  <1>6. ASSUME NEW t \in tokens, NEW p \in Plans, Prepare(t, p)
        PROVE  UpdateTypeOK'
    <2>1. [t EXCEPT !.ready = TRUE, !.plan = p] \in Tokens
      BY DEF Tokens
    <2> QED
      BY <1>6, <2>1 DEF Prepare
  <1>7. ASSUME NEW t \in tokens, Discard(t) PROVE UpdateTypeOK'
    BY <1>7 DEF Discard
  <1>8. ASSUME NEW t \in tokens, BeginUpdate(t) PROVE UpdateTypeOK'
    <2>1. t.id \in 0 .. MaxUpdate /\ t.plan \in Plans /\ t.previous \in Plans
      BY DEF Tokens
    <2>2. txn' \in [id : 0 .. MaxUpdate, plan : Plans, previous : Plans,
                    reversing : BOOLEAN]
      BY <1>8, <2>1 DEF BeginUpdate
    <2> QED
      BY <1>8, <2>2 DEF BeginUpdate
  <1>9. ASSUME NEW t \in tokens, RefuseUpdate(t) PROVE UpdateTypeOK'
    BY <1>9 DEF RefuseUpdate, Admissible
  <1>10. CASE PublishReceive
    BY <1>10, PublishedFacts DEF PublishReceive
  <1>11. CASE PublishTransmit
    BY <1>11, PublishedFacts DEF PublishTransmit
  <1>12. CASE AcceptUpdate
    BY <1>12 DEF AcceptUpdate
  <1>13. ASSUME NEW c \in BOOLEAN, FinishUpdate(c) PROVE UpdateTypeOK'
    BY <1>13 DEF FinishUpdate
  <1>14. CASE Drained
    BY <1>14 DEF Drained
  <1>15. CASE Commit
    <2>1. txn.id \in 0 .. MaxUpdate /\ txn.plan \in Plans
      OBVIOUS
    <2> QED
      BY <1>15, <2>1, NoTransactionFacts DEF Commit, Retire
  <1>16. CASE CommitRefused
    BY <1>16 DEF CommitRefused
  <1>17. CASE Rollback
    BY <1>17 DEF Rollback
  <1>18. CASE RollbackPending
    BY <1>18 DEF RollbackPending
  <1>19. CASE ResumeRollback
    BY <1>19 DEF ResumeRollback
  <1>20. CASE SettleRollback
    <2>1. txn.id \in 0 .. MaxUpdate /\ txn.previous \in Plans
      OBVIOUS
    <2> QED
      BY <1>20, <2>1, NoTransactionFacts DEF SettleRollback, Retire
  <1>21. CASE SettleRefused
    BY <1>21 DEF SettleRefused
  <1>22. CASE Start
    BY <1>22 DEF Start
  <1>23. CASE Stop
    BY <1>23 DEF Stop
  <1>24. CASE UNCHANGED updateVars
    BY <1>24 DEF updateVars
  <1> QED
    BY <1>1, <1>2, <1>3, <1>4, <1>5, <1>6, <1>7, <1>8, <1>9, <1>10, <1>11,
       <1>12, <1>13, <1>14, <1>15, <1>16, <1>17, <1>18, <1>19, <1>20,
       <1>21, <1>22, <1>23, <1>24 DEF UpdateNext, Callback, FinishSteps

(* Either callback, or the control side, keeps each half of the mailbox in *)
(* step with the owner last published.                                     *)
LEMMA HalfStep == UpdateInv /\ [UpdateNext]_updateVars => MailboxInv'
  <1> SUFFICES ASSUME UpdateInv, [UpdateNext]_updateVars PROVE MailboxInv'
    OBVIOUS
  <1> USE OwnerFacts DEF UpdateInv, UpdateTypeOK, MailboxInv, HalfInv, ControlInv,
              Unpublished, InTransaction, Published, storage, prep, mailbox
  <1>1. ASSUME NEW d \in Directions, Take(d) PROVE MailboxInv'
    BY <1>1 DEF Take
  <1>2. ASSUME NEW d \in Directions, Apply(d) PROVE MailboxInv'
    BY <1>2 DEF Apply
  <1>3. ASSUME NEW d \in Directions, Acknowledge(d) PROVE MailboxInv'
    BY <1>3 DEF Acknowledge
  <1>4. ASSUME NEW d \in Directions, Reject(d) PROVE MailboxInv'
    BY <1>4 DEF Reject
  <1>5. CASE SnapshotUpdate
    BY <1>5 DEF SnapshotUpdate
  <1>6. ASSUME NEW t \in tokens, NEW p \in Plans, Prepare(t, p)
        PROVE  MailboxInv'
    BY <1>6 DEF Prepare
  <1>7. ASSUME NEW t \in tokens, Discard(t) PROVE MailboxInv'
    BY <1>7 DEF Discard
  <1>8. ASSUME NEW t \in tokens, BeginUpdate(t) PROVE MailboxInv'
    BY <1>8 DEF BeginUpdate, Admissible
  <1>9. ASSUME NEW t \in tokens, RefuseUpdate(t) PROVE MailboxInv'
    BY <1>9 DEF RefuseUpdate, Admissible
  <1>10. CASE PublishReceive
    BY <1>10 DEF PublishReceive
  <1>11. CASE PublishTransmit
    BY <1>11 DEF PublishTransmit
  <1>12. CASE AcceptUpdate
    BY <1>12 DEF AcceptUpdate
  <1>13. ASSUME NEW c \in BOOLEAN, FinishUpdate(c) PROVE MailboxInv'
    BY <1>13 DEF FinishUpdate
  <1>14. CASE Drained
    BY <1>14 DEF Drained
  <1>15. CASE Commit
    <2>1. \A d \in Directions :
             slot[d] = Null /\ held[d] = Null /\ port[d] = Forward(txn.id)
      BY <1>15, PublishedFacts DEF Commit, Adopted
    <2> QED
      BY <1>15, <2>1 DEF Commit, Retire
  <1>16. CASE CommitRefused
    BY <1>16 DEF CommitRefused
  <1>17. CASE Rollback
    <2>1. \A d \in Directions : slot[d] = Null /\ held[d] = Null
      BY <1>17 DEF Rollback, Pending
    <2>2. UNCHANGED <<slot, held, port, meter, current>>
      BY <1>17 DEF Rollback
    <2>3. \A d \in Directions : ack'[d] = 0
      BY <1>17 DEF Rollback
    <2>4. \A d \in Directions : port[d] \in {current, Forward(txn'.id), Reverse(txn'.id)}
      BY <1>17, RollbackFacts
    <2> QED
      BY <1>17, <2>1, <2>2, <2>3, <2>4, RollbackFacts
  <1>18. CASE RollbackPending
    BY <1>18 DEF RollbackPending
  <1>19. CASE ResumeRollback
    BY <1>19 DEF ResumeRollback
  <1>20. CASE SettleRollback
    <2>1. \A d \in Directions :
             slot[d] = Null /\ held[d] = Null /\ port[d] = Reverse(txn.id)
      BY <1>20, PublishedFacts DEF SettleRollback, Adopted
    <2> QED
      BY <1>20, <2>1 DEF SettleRollback, Retire
  <1>21. CASE SettleRefused
    BY <1>21 DEF SettleRefused
  <1>22. CASE Start
    BY <1>22 DEF Start
  <1>23. CASE Stop
    BY <1>23 DEF Stop
  <1>24. CASE UNCHANGED updateVars
    BY <1>24 DEF updateVars
  <1> QED
    BY <1>1, <1>2, <1>3, <1>4, <1>5, <1>6, <1>7, <1>8, <1>9, <1>10, <1>11,
       <1>12, <1>13, <1>14, <1>15, <1>16, <1>17, <1>18, <1>19, <1>20,
       <1>21, <1>22, <1>23, <1>24 DEF UpdateNext, Callback, FinishSteps

(* A control operation publishes to one half after the other, inside a     *)
(* transaction.                                                            *)
LEMMA ControlStep == UpdateInv /\ [UpdateNext]_updateVars => ControlInv'
  <1> SUFFICES ASSUME UpdateInv, [UpdateNext]_updateVars PROVE ControlInv'
    OBVIOUS
  <1> USE OwnerFacts DEF UpdateInv, UpdateTypeOK, MailboxInv, HalfInv, ControlInv,
              Unpublished, InTransaction, Published, storage, prep, mailbox, Pending
  <1>1. ASSUME NEW d \in Directions, Take(d) PROVE ControlInv'
    BY <1>1 DEF Take
  <1>2. ASSUME NEW d \in Directions, Apply(d) PROVE ControlInv'
    BY <1>2 DEF Apply
  <1>3. ASSUME NEW d \in Directions, Acknowledge(d) PROVE ControlInv'
    BY <1>3 DEF Acknowledge
  <1>4. ASSUME NEW d \in Directions, Reject(d) PROVE ControlInv'
    BY <1>4 DEF Reject
  <1>5. CASE SnapshotUpdate
    BY <1>5 DEF SnapshotUpdate
  <1>6. ASSUME NEW t \in tokens, NEW p \in Plans, Prepare(t, p)
        PROVE  ControlInv'
    BY <1>6 DEF Prepare
  <1>7. ASSUME NEW t \in tokens, Discard(t) PROVE ControlInv'
    BY <1>7 DEF Discard
  <1>8. ASSUME NEW t \in tokens, BeginUpdate(t) PROVE ControlInv'
    <2>1. t.id # 0
      BY DEF Tokens
    <2>2. txn'.id # 0 /\ InTransaction'
      BY <1>8, <2>1, NoTransactionFacts DEF BeginUpdate
    <2>3. \A d \in Directions : Unpublished(d)'
      BY <1>8 DEF BeginUpdate, Admissible
    <2>4. ctl' = "publishReceive"
      BY <1>8 DEF BeginUpdate
    <2> QED
      BY <2>2, <2>3, <2>4
  <1>9. ASSUME NEW t \in tokens, RefuseUpdate(t) PROVE ControlInv'
    BY <1>9 DEF RefuseUpdate, Admissible
  <1>10. CASE PublishReceive
    BY <1>10 DEF PublishReceive, Directions
  <1>11. CASE PublishTransmit
    BY <1>11 DEF PublishTransmit
  <1>12. CASE AcceptUpdate
    BY <1>12 DEF AcceptUpdate
  <1>13. ASSUME NEW c \in BOOLEAN, FinishUpdate(c) PROVE ControlInv'
    BY <1>13 DEF FinishUpdate
  <1>14. CASE Drained
    BY <1>14 DEF Drained
  <1>15. CASE Commit
    BY <1>15, NoTransactionFacts DEF Commit, Retire
  <1>16. CASE CommitRefused
    BY <1>16 DEF CommitRefused
  <1>17. CASE Rollback
    <2>1. \A d \in Directions : Unpublished(d)'
      BY <1>17 DEF Rollback, Pending
    <2>2. ctl' = "publishReceive" /\ ctl = "decide"
      BY <1>17 DEF Rollback
    <2> QED
      BY <1>17, <2>1, <2>2, RollbackFacts
  <1>18. CASE RollbackPending
    BY <1>18 DEF RollbackPending
  <1>19. CASE ResumeRollback
    BY <1>19 DEF ResumeRollback
  <1>20. CASE SettleRollback
    BY <1>20, NoTransactionFacts DEF SettleRollback, Retire
  <1>21. CASE SettleRefused
    BY <1>21 DEF SettleRefused
  <1>22. CASE Start
    BY <1>22 DEF Start
  <1>23. CASE Stop
    BY <1>23 DEF Stop
  <1>24. CASE UNCHANGED updateVars
    BY <1>24 DEF updateVars
  <1> QED
    BY <1>1, <1>2, <1>3, <1>4, <1>5, <1>6, <1>7, <1>8, <1>9, <1>10, <1>11,
       <1>12, <1>13, <1>14, <1>15, <1>16, <1>17, <1>18, <1>19, <1>20,
       <1>21, <1>22, <1>23, <1>24 DEF UpdateNext, Callback, FinishSteps

(* Every end of a transaction outdates the preparations made before it.    *)
LEMMA RevisionStep == UpdateInv /\ [UpdateNext]_updateVars => RevisionInv'
  <1> SUFFICES ASSUME UpdateInv, [UpdateNext]_updateVars PROVE RevisionInv'
    OBVIOUS
  <1> USE DEF UpdateInv, UpdateTypeOK, RevisionInv, ControlInv, InTransaction,
              storage, prep, mailbox, Retire
  <1>1. ASSUME NEW d \in Directions, Take(d) PROVE RevisionInv'
    BY <1>1 DEF Take
  <1>2. ASSUME NEW d \in Directions, Apply(d) PROVE RevisionInv'
    BY <1>2 DEF Apply
  <1>3. ASSUME NEW d \in Directions, Acknowledge(d) PROVE RevisionInv'
    BY <1>3 DEF Acknowledge
  <1>4. ASSUME NEW d \in Directions, Reject(d) PROVE RevisionInv'
    BY <1>4 DEF Reject
  <1>5. CASE SnapshotUpdate
    BY <1>5 DEF SnapshotUpdate
  <1>6. ASSUME NEW t \in tokens, NEW p \in Plans, Prepare(t, p)
        PROVE  RevisionInv'
    <2> DEFINE r == [t EXCEPT !.ready = TRUE, !.plan = p]
    <2>1. r.revision = t.revision /\ r.previous = t.previous
      BY DEF Tokens
    <2>2. tokens' = (tokens \ {t}) \cup {r}
      BY <1>6 DEF Prepare
    <2> HIDE DEF r
    <2> QED
      BY <1>6, <2>1, <2>2 DEF Prepare
  <1>7. ASSUME NEW t \in tokens, Discard(t) PROVE RevisionInv'
    BY <1>7 DEF Discard
  <1>8. ASSUME NEW t \in tokens, BeginUpdate(t) PROVE RevisionInv'
    BY <1>8 DEF BeginUpdate, Admissible
  <1>9. ASSUME NEW t \in tokens, RefuseUpdate(t) PROVE RevisionInv'
    BY <1>9 DEF RefuseUpdate, Admissible
  <1>10. CASE PublishReceive
    BY <1>10 DEF PublishReceive
  <1>11. CASE PublishTransmit
    BY <1>11 DEF PublishTransmit
  <1>12. CASE AcceptUpdate
    BY <1>12 DEF AcceptUpdate
  <1>13. ASSUME NEW c \in BOOLEAN, FinishUpdate(c) PROVE RevisionInv'
    BY <1>13 DEF FinishUpdate
  <1>14. CASE Drained
    BY <1>14 DEF Drained
  <1>15. CASE Commit
    BY <1>15 DEF Commit, Tokens
  <1>16. CASE CommitRefused
    BY <1>16 DEF CommitRefused
  <1>17. CASE Rollback
    <2>1. UNCHANGED <<plan, currentPlan, revision, tokens>>
      BY <1>17 DEF Rollback
    <2> QED
      BY <1>17, <2>1, RollbackFacts
  <1>18. CASE RollbackPending
    BY <1>18 DEF RollbackPending
  <1>19. CASE ResumeRollback
    BY <1>19 DEF ResumeRollback
  <1>20. CASE SettleRollback
    BY <1>20 DEF SettleRollback, Tokens
  <1>21. CASE SettleRefused
    BY <1>21 DEF SettleRefused
  <1>22. CASE Start
    BY <1>22 DEF Start
  <1>23. CASE Stop
    BY <1>23 DEF Stop
  <1>24. CASE UNCHANGED updateVars
    BY <1>24 DEF updateVars
  <1> QED
    BY <1>1, <1>2, <1>3, <1>4, <1>5, <1>6, <1>7, <1>8, <1>9, <1>10, <1>11,
       <1>12, <1>13, <1>14, <1>15, <1>16, <1>17, <1>18, <1>19, <1>20,
       <1>21, <1>22, <1>23, <1>24 DEF UpdateNext, Callback, FinishSteps

(* A station that has just been opened runs its boot owner.                *)
LEMMA UpdateInitInv == UpdateInit => UpdateInv
  <1> SUFFICES ASSUME UpdateInit PROVE UpdateInv
    OBVIOUS
  <1>1. UpdateTypeOK
    <2>1. /\ slot \in [Directions -> Owners \cup {Null}]
          /\ held \in [Directions -> Owners \cup {Null}]
          /\ port \in [Directions -> Owners] /\ meter \in [Directions -> Owners]
      BY OwnerFacts DEF UpdateInit
    <2>2. ack \in [Directions -> {-1, 0, 1}] /\ adopted \in [Directions -> BOOLEAN]
      BY DEF UpdateInit
    <2>3. nextId \in 1 .. MaxUpdate + 1 /\ revision \in Nat
      BY BoundsAssumption DEF UpdateInit
    <2> QED
      BY <2>1, <2>2, <2>3, PlansAssumption, OwnerFacts, NoTransactionFacts
         DEF UpdateInit, UpdateTypeOK
  <1>2. ~InTransaction
    BY DEF UpdateInit, InTransaction
  <1>3. MailboxInv
    BY <1>2 DEF UpdateInit, MailboxInv, HalfInv
  <1> QED
    BY <1>1, <1>2, <1>3 DEF UpdateInit, UpdateInv, ControlInv, RevisionInv

(* The invariant holds throughout.                                         *)
THEOREM UpdateInvariant == UpdateSpec => []UpdateInv
  <1>1. UpdateInv /\ [UpdateNext]_updateVars => UpdateInv'
    <2>1. UpdateInv => UpdateTypeOK
      BY DEF UpdateInv
    <2> QED
      BY <2>1, UpdateTypeStep, HalfStep, ControlStep, RevisionStep DEF UpdateInv
  <1> QED
    BY <1>1, UpdateInitInv, PTL DEF UpdateSpec

(* Storage, mailbox and preparations keep their types.                     *)
THEOREM UpdateTypes == UpdateSpec => []UpdateTypeOK
  <1>1. UpdateInv => UpdateTypeOK
    BY DEF UpdateInv
  <1> QED
    BY <1>1, UpdateInvariant, PTL

(* For any plans, any number of updates and of preparations held at once:  *)
(* no storage a callback, the mailbox or a diagnostic reader can reach is  *)
(* dropped by commit or rollback, and a settled station runs, in both      *)
(* directions, the owner it retains and reports that owner's plan.         *)
THEOREM BorrowsAlwaysSettle == UpdateSpec => []BorrowsSettle
  <1>1. ASSUME UpdateInv PROVE BorrowsSettle
    <2>1. \A d \in Directions : HalfInv(d)
      BY <1>1 DEF UpdateInv, MailboxInv
    <2>2. InTransaction => Published \in {Forward(txn.id), Reverse(txn.id)}
      BY DEF Published
    <2>3. BorrowedStorageRetained
      BY <2>1, <2>2 DEF HalfInv, BorrowedStorageRetained, Retained
    <2>4. SettledAgreement
      BY <1>1, <2>1 DEF UpdateInv, HalfInv, RevisionInv, SettledAgreement
    <2> QED
      BY <2>3, <2>4 DEF BorrowsSettle
  <1> QED
    BY <1>1, UpdateInvariant, PTL

-----------------------------------------------------------------------------
(* The refinement of UpdateTransaction.                                    *)

\* A transaction as the control clients see it.
SeenAs(x) == [plan |-> x.plan, previous |-> x.previous, reversing |-> x.reversing,
              open |-> x # NoTransaction]

Seen == SeenAs(txn)

(* Clients see a transaction exactly while there is one.                   *)
LEMMA SeenFacts ==
    ASSUME NEW x
    PROVE  /\ (SeenAs(x) = Transaction!None) <=> x = NoTransaction
           /\ SeenAs(x).plan = x.plan /\ SeenAs(x).previous = x.previous
           /\ SeenAs(x).reversing = x.reversing
  <1>1. x # NoTransaction => SeenAs(x) # Transaction!None
    BY DEF SeenAs, Transaction!None
  <1>2. x = NoTransaction => SeenAs(x) = Transaction!None
    <2> SUFFICES SeenAs(NoTransaction) = Transaction!None
      OBVIOUS
    <2>1. (NoTransaction # NoTransaction) = FALSE
      OBVIOUS
    <2>2. NoTransaction.plan = BootPlan /\ NoTransaction.previous = BootPlan
          /\ NoTransaction.reversing = FALSE
      BY DEF NoTransaction
    <2> QED
      BY <2>1, <2>2, Zenon DEF SeenAs, Transaction!None
  <1> QED
    BY <1>1, <1>2 DEF SeenAs

Views == [plan : Plans, previous : Plans, reversing : BOOLEAN, open : BOOLEAN]

(* Two views are equal when their fields are.                              *)
LEMMA ViewEquality ==
    ASSUME NEW v \in Views, NEW w \in Views, v.plan = w.plan,
           v.previous = w.previous, v.reversing = w.reversing, v.open = w.open
    PROVE  v = w
  BY DEF Views

(* A step that leaves the transaction, the answers, the plan and the       *)
(* revision alone is none of the clients' business.                        *)
LEMMA UnseenStep ==
    ASSUME UNCHANGED <<plan, txn, ack, revision>>
    PROVE  UNCHANGED Transaction!vars
  BY DEF Transaction!vars, InTransaction, Outcome, Pending, Adopted

(* A callback's answer is the clients' answer when it is the last one.     *)
LEMMA AnswerStep ==
    ASSUME UpdateInv, NEW d \in Directions, NEW r \in {1, -1}, held[d] # Null,
           ack' = [ack EXCEPT ![d] = r], UNCHANGED <<plan, txn, revision>>
    PROVE  [Transaction!Next]_(Transaction!vars)
  <1>1. InTransaction /\ ack[d] = 0
    BY DEF UpdateInv, MailboxInv, HalfInv
  <1>2. InTransaction' /\ Outcome = "pending"
    BY <1>1 DEF InTransaction, Outcome, Pending
  <1>3. Outcome' \in {"pending", "adopted", "refused"}
    BY <1>2 DEF Outcome
  <1>4. CASE Outcome' = "pending"
    BY <1>2, <1>4 DEF Transaction!vars, InTransaction
  <1>5. CASE Outcome' \in {"adopted", "refused"}
    <2>1. Transaction!Answer(Outcome')
      BY <1>2 DEF Transaction!Answer, InTransaction
    <2> QED
      BY <1>5, <2>1 DEF Transaction!Next
  <1> QED
    BY <1>3, <1>4, <1>5

(* What the clients read once every half has adopted, and once it has not. *)
LEMMA OutcomeFacts ==
    /\ InTransaction /\ Adopted => Outcome = "adopted"
    /\ InTransaction /\ ~Pending => Outcome \in {"adopted", "refused"}
    /\ ~InTransaction => Outcome = "none"
  BY DEF Outcome, Pending, Adopted, Directions

(* Every step of the mailbox is a step of the transaction, or none.        *)
LEMMA TransactionStep ==
    UpdateInv /\ [UpdateNext]_updateVars => [Transaction!Next]_(Transaction!vars)
  <1> SUFFICES ASSUME UpdateInv, [UpdateNext]_updateVars
               PROVE  [Transaction!Next]_(Transaction!vars)
    OBVIOUS
  <1>1. ASSUME NEW d \in Directions, Acknowledge(d)
        PROVE  [Transaction!Next]_(Transaction!vars)
    BY <1>1, AnswerStep DEF Acknowledge, storage
  <1>2. ASSUME NEW d \in Directions, Reject(d)
        PROVE  [Transaction!Next]_(Transaction!vars)
    BY <1>2, AnswerStep DEF Reject, storage
  <1>3. ASSUME NEW t \in tokens, BeginUpdate(t)
        PROVE  [Transaction!Next]_(Transaction!vars)
    <2>1. /\ ~InTransaction /\ t.id # 0 /\ t.plan \in Plans /\ t.previous = plan
      BY <1>3 DEF BeginUpdate, Admissible, UpdateInv, UpdateTypeOK, RevisionInv, Tokens
    <2>2. /\ txn' = [id |-> t.id, plan |-> t.plan, previous |-> plan, reversing |-> FALSE]
          /\ ack' = [d \in Directions |-> 0] /\ UNCHANGED <<plan, revision>>
      BY <1>3, <2>1 DEF BeginUpdate
    <2>3. InTransaction'
      BY <2>1, <2>2, NoTransactionFacts DEF InTransaction
    <2>4. Outcome' = "pending"
      BY <2>2, <2>3 DEF Outcome, Pending, Directions
    <2>5. Transaction!Begin(t.plan)
      BY <2>1, <2>2, <2>3, <2>4, SeenFacts
         DEF Transaction!Begin, Seen, SeenAs, InTransaction
    <2> QED
      BY <2>1, <2>5 DEF Transaction!Next
  <1>4. CASE AcceptUpdate
    <2>1. Transaction!Accept
      <3>1. InTransaction /\ Adopted /\ ~txn.reversing /\ plan' = txn.plan
            /\ UNCHANGED <<txn, ack, revision>>
        BY <1>4 DEF AcceptUpdate, mailbox
      <3>2. Outcome = "adopted" /\ Outcome' = Outcome /\ Seen' = Seen
        BY <3>1, OutcomeFacts DEF Outcome, Pending, Adopted, InTransaction, Seen
      <3> QED
        BY <3>1, <3>2, SeenFacts DEF Transaction!Accept, Seen, SeenAs, InTransaction
    <2> QED
      BY <2>1 DEF Transaction!Next
  <1>5. CASE Commit
    <2>1. InTransaction /\ Adopted /\ ~txn.reversing
      BY <1>5 DEF Commit, UpdateInv, ControlInv
    <2>2. plan' = txn.plan /\ ~InTransaction' /\ revision' = revision + 1
      BY <1>5 DEF Commit, Retire, InTransaction
    <2>3. Seen' = Transaction!None /\ Outcome' = "none" /\ Outcome = "adopted"
      BY <2>1, <2>2, SeenFacts, OutcomeFacts DEF Outcome, Seen, InTransaction
    <2>4. Transaction!Commit
      BY <2>1, <2>2, <2>3, SeenFacts
         DEF Transaction!Commit, Transaction!End, Seen, SeenAs, InTransaction
    <2> QED
      BY <2>4 DEF Transaction!Next
  <1>6. CASE Rollback
    <2>1. InTransaction /\ InTransaction' /\ ~Pending /\ ~txn.reversing
          /\ UNCHANGED <<plan, revision>> /\ txn' = [txn EXCEPT !.reversing = TRUE]
      BY <1>6, RollbackFacts DEF Rollback
    <2>2. Outcome \in {"adopted", "refused"} /\ Outcome' = "pending"
      BY <1>6, <2>1, OutcomeFacts DEF Rollback, Outcome, Pending, Directions
    <2>3. Seen' = [Seen EXCEPT !.reversing = TRUE]
      <3>1. /\ txn'.plan = txn.plan /\ txn'.previous = txn.previous
            /\ txn'.reversing = TRUE
        BY <2>1 DEF UpdateInv, UpdateTypeOK
      <3>2. (txn # NoTransaction) = TRUE /\ (txn' # NoTransaction) = TRUE
        BY <2>1 DEF InTransaction
      <3>3. Seen' = [plan |-> txn.plan, previous |-> txn.previous, reversing |-> TRUE,
                     open |-> TRUE]
        BY <3>1, <3>2, Zenon DEF Seen, SeenAs
      <3>4. Seen = [plan |-> txn.plan, previous |-> txn.previous,
                    reversing |-> txn.reversing, open |-> TRUE]
        BY <3>2, Zenon DEF Seen, SeenAs
      <3>5. Seen \in Views /\ Seen' \in Views
        BY <3>3, <3>4 DEF Views, UpdateInv, UpdateTypeOK
      <3>6. [Seen EXCEPT !.reversing = TRUE] \in Views
        BY <3>5 DEF Views
      <3>7. /\ Seen'.plan = [Seen EXCEPT !.reversing = TRUE].plan
            /\ Seen'.previous = [Seen EXCEPT !.reversing = TRUE].previous
            /\ Seen'.reversing = [Seen EXCEPT !.reversing = TRUE].reversing
            /\ Seen'.open = [Seen EXCEPT !.reversing = TRUE].open
        BY <3>3, <3>4
      <3> QED
        BY <3>5, <3>6, <3>7, ViewEquality
    <2>4. Transaction!Reverse
      BY <2>1, <2>2, <2>3, SeenFacts DEF Transaction!Reverse, Seen, SeenAs, InTransaction
    <2> QED
      BY <2>4 DEF Transaction!Next
  <1>7. CASE SettleRollback
    <2>1. InTransaction /\ Adopted /\ txn.reversing
      BY <1>7 DEF SettleRollback, UpdateInv, ControlInv
    <2>2. plan' = txn.previous /\ ~InTransaction' /\ revision' = revision + 1
      BY <1>7 DEF SettleRollback, Retire, InTransaction
    <2>3. Seen' = Transaction!None /\ Outcome' = "none" /\ Outcome = "adopted"
      BY <2>1, <2>2, SeenFacts, OutcomeFacts DEF Outcome, Seen, InTransaction
    <2>4. Transaction!Settle
      BY <2>1, <2>2, <2>3, SeenFacts
         DEF Transaction!Settle, Transaction!End, Seen, SeenAs, InTransaction
    <2> QED
      BY <2>4 DEF Transaction!Next
  <1>8. CASE UNCHANGED <<plan, txn, ack, revision>>
    BY <1>8, UnseenStep
  <1>9. ASSUME NEW d \in Directions, Take(d) \/ Apply(d)
        PROVE  UNCHANGED <<plan, txn, ack, revision>>
    BY <1>9 DEF Take, Apply, storage
  <1>10. ASSUME NEW t \in tokens,
                Discard(t) \/ RefuseUpdate(t) \/ \E p \in Plans : Prepare(t, p)
         PROVE  UNCHANGED <<plan, txn, ack, revision>>
    BY <1>10 DEF Discard, RefuseUpdate, Prepare, storage, mailbox
  <1>11. ASSUME \/ SnapshotUpdate \/ PublishReceive \/ PublishTransmit \/ Drained
                \/ (\E c \in BOOLEAN : FinishUpdate(c)) \/ CommitRefused
                \/ RollbackPending \/ ResumeRollback \/ SettleRefused \/ Start \/ Stop
                \/ UNCHANGED updateVars
         PROVE  UNCHANGED <<plan, txn, ack, revision>>
    BY <1>11 DEF SnapshotUpdate, PublishReceive, PublishTransmit, Drained, FinishUpdate,
                 CommitRefused, RollbackPending, ResumeRollback, SettleRefused, Start,
                 Stop, updateVars, storage, mailbox
  <1> QED
    BY <1>1, <1>2, <1>3, <1>4, <1>5, <1>6, <1>7, <1>8, <1>9, <1>10, <1>11
       DEF UpdateNext, Callback, FinishSteps

(* For any plans and any number of updates, the two-sided mailbox          *)
(* implements the transaction its clients rely on: one at a time, started  *)
(* from the settings in force, answered once, ended forward or back.       *)
THEOREM TransactionImplemented == UpdateSpec => ImplementsUpdateTransaction
  <1>1. UpdateInit => Transaction!Init
    <2> SUFFICES ASSUME UpdateInit PROVE Transaction!Init
      OBVIOUS
    <2>1. ~InTransaction
      BY DEF UpdateInit, InTransaction
    <2> QED
      BY <2>1, SeenFacts, OutcomeFacts DEF UpdateInit, Transaction!Init, Seen,
                                                SeenAs, InTransaction
  <1> QED
    BY <1>1, TransactionStep, UpdateInvariant, PTL
       DEF UpdateSpec, ImplementsUpdateTransaction, Transaction!Spec

=============================================================================
