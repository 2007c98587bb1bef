--------------------------- MODULE LatestHandoff ---------------------------
(***************************************************************************)
(* The bounded newest-audio handoff between the real-time receive callback *)
(* (sole producer) and the Asterisk delivery owner (sole consumer).        *)
(*                                                                         *)
(* Every atomic load, store and read-modify-write of push() and pop() is   *)
(* one action, so the model interleaves the two threads where the hardware *)
(* can.  The interleaving is sequentially consistent: the acquire/release  *)
(* orderings the code asks for order every pair of accesses used here.     *)
(* consumer_state is one word holding an index and the READING bit; it is  *)
(* kept as the pair consumer, reading, always read or written together.    *)
(* A value is the number of the push that carried it.                      *)
(***************************************************************************)
EXTENDS Integers, Sequences

CONSTANTS SlotCount, \* slots in the ring, at least two
          MaxPush    \* bound on the number of pushes explored

\* LatestHandoff::split refuses fewer than two slots.
ASSUME SlotCountAssumption == SlotCount \in Nat /\ SlotCount >= 2
ASSUME MaxPushAssumption == MaxPush \in Nat

VARIABLES
    slots,      \* slot contents; 0 is uninitialised storage
    producer,   \* AtomicUsize producer: next slot to fill
    consumer,   \* index part of consumer_state
    reading,    \* READING bit of consumer_state
    generation, \* odd while a replacement is in progress
    discarded,  \* statistics counter
    ppc,        \* where push() is
    pseen,      \* push(): index loaded before the compare-exchange
    replacing,  \* push(): this push passed the compare-exchange
    cpc,        \* where pop() is
    cgen,       \* pop(): generation loaded first
    cseen,      \* pop(): index part of consumer_state loaded first
    claimed,    \* pop(): index returned by fetch_or
    cvalue,     \* pop(): value copied out of the claimed slot
    pushed,     \* history: number of push() calls begun
    outcome,    \* history: result of the latest completed push()
    taken       \* history: values released to the caller of pop()

shared == <<slots, producer, consumer, reading, generation, discarded>>
pvars == <<ppc, pseen, replacing, pushed, outcome>>
cvars == <<cpc, cgen, cseen, claimed, cvalue, taken>>
vars == <<shared, pvars, cvars>>

Indexes == 0 .. SlotCount - 1

NextIndex(index) == (index + 1) % SlotCount

Distance(first, second) == (second + SlotCount - first) % SlotCount

ProducerPoints == {"idle", "write", "store", "bump", "reload", "cas",
                   "count", "finish", "dropCount", "dropFinish"}
ConsumerPoints == {"idle", "state", "compare", "claim", "verify", "copy",
                   "release", "restore"}

Init ==
    /\ slots = [i \in Indexes |-> 0]
    /\ producer = 0
    /\ consumer = 0
    /\ reading = FALSE
    /\ generation = 0
    /\ discarded = 0
    /\ ppc = "idle"
    /\ pseen = 0
    /\ replacing = FALSE
    /\ cpc = "idle"
    /\ cgen = 0
    /\ cseen = 0
    /\ claimed = 0
    /\ cvalue = 0
    /\ pushed = 0
    /\ outcome = "None"
    /\ taken = <<>>

-----------------------------------------------------------------------------
(* push(): one real-time publication.                                      *)

\* Load consumer_state; publish at once unless the ring is full.
PushBegin ==
    /\ ppc = "idle"
    /\ pushed < MaxPush
    /\ pushed' = pushed + 1
    /\ replacing' = FALSE
    /\ ppc' = IF NextIndex(producer) # consumer THEN "write" ELSE "bump"
    /\ UNCHANGED <<shared, pseen, outcome, cvars>>

\* publish(): the plain write of the slot.
PushWrite ==
    /\ ppc = "write"
    /\ slots' = [slots EXCEPT ![producer] = pushed]
    /\ ppc' = "store"
    /\ UNCHANGED <<producer, consumer, reading, generation, discarded,
                   pseen, replacing, pushed, outcome, cvars>>

\* publish(): the release store that makes the slot visible.
PushStore ==
    /\ ppc = "store"
    /\ producer' = NextIndex(producer)
    /\ ppc' = IF replacing THEN "finish" ELSE "idle"
    /\ outcome' = IF replacing THEN outcome ELSE "Published"
    /\ UNCHANGED <<slots, consumer, reading, generation, discarded,
                   pseen, replacing, pushed, cvars>>

\* Overflow: make the generation odd.
PushBump ==
    /\ ppc = "bump"
    /\ generation' = generation + 1
    /\ ppc' = "reload"
    /\ UNCHANGED <<slots, producer, consumer, reading, discarded,
                   pseen, replacing, pushed, outcome, cvars>>

PushReload ==
    /\ ppc = "reload"
    /\ pseen' = consumer
    /\ ppc' = "cas"
    /\ UNCHANGED <<shared, replacing, pushed, outcome, cvars>>

\* Faulty variant: the comparison masks the READING bit away.
PushCompareExchange_Masked ==
    /\ ppc = "cas"
    /\ IF pseen = consumer
       THEN /\ consumer' = producer
            /\ reading' = FALSE
            /\ replacing' = TRUE
            /\ ppc' = "count"
       ELSE /\ ppc' = "dropCount"
            /\ UNCHANGED <<consumer, reading, replacing>>
    /\ UNCHANGED <<slots, producer, generation, discarded,
                   pseen, pushed, outcome, cvars>>

\* The expected word carries no READING bit, so a claim makes this fail.
PushCompareExchange ==
    /\ ppc = "cas"
    /\ IF pseen = consumer /\ ~reading
       THEN /\ consumer' = producer
            /\ replacing' = TRUE
            /\ ppc' = "count"
       ELSE /\ ppc' = "dropCount"
            /\ UNCHANGED <<consumer, replacing>>
    /\ UNCHANGED <<slots, producer, reading, generation, discarded,
                   pseen, pushed, outcome, cvars>>

\* Faulty variant: the evicted backlog is counted as one value.
PushCount_One ==
    /\ ppc = "count"
    /\ discarded' = discarded + 1
    /\ ppc' = "write"
    /\ UNCHANGED <<slots, producer, consumer, reading, generation,
                   pseen, replacing, pushed, outcome, cvars>>

PushCount ==
    /\ ppc = "count"
    /\ discarded' = discarded + Distance(pseen, producer)
    /\ ppc' = "write"
    /\ UNCHANGED <<slots, producer, consumer, reading, generation,
                   pseen, replacing, pushed, outcome, cvars>>

\* A replacement ends: the generation is even again.
PushFinish ==
    /\ ppc = "finish"
    /\ generation' = generation + 1
    /\ ppc' = "idle"
    /\ outcome' = "ReplacedStale"
    /\ UNCHANGED <<slots, producer, consumer, reading, discarded,
                   pseen, replacing, pushed, cvars>>

\* finish_drop(): count the value lost, then make the generation even.
PushDropCount ==
    /\ ppc = "dropCount"
    /\ discarded' = discarded + 1
    /\ ppc' = "dropFinish"
    /\ UNCHANGED <<slots, producer, consumer, reading, generation,
                   pseen, replacing, pushed, outcome, cvars>>

PushDropFinish ==
    /\ ppc = "dropFinish"
    /\ generation' = generation + 1
    /\ ppc' = "idle"
    /\ outcome' = "DroppedDuringRead"
    /\ UNCHANGED <<slots, producer, consumer, reading, discarded,
                   pseen, replacing, pushed, cvars>>

Push == \/ PushBegin \/ PushWrite \/ PushStore
        \/ PushBump \/ PushReload \/ PushCompareExchange \/ PushCount
        \/ PushFinish \/ PushDropCount \/ PushDropFinish

-----------------------------------------------------------------------------
(* pop(): one non-waiting delivery attempt.                                *)

\* Load the generation; an odd one returns None.
PopGeneration ==
    /\ cpc = "idle"
    /\ generation % 2 = 0
    /\ cgen' = generation
    /\ cpc' = "state"
    /\ UNCHANGED <<shared, pvars, cseen, claimed, cvalue, taken>>

PopState ==
    /\ cpc = "state"
    /\ cseen' = consumer
    /\ cpc' = "compare"
    /\ UNCHANGED <<shared, pvars, cgen, claimed, cvalue, taken>>

\* Faulty variant: the last waiting value is taken for an empty ring.
PopCompare_OneShort ==
    /\ cpc = "compare"
    /\ cpc' = IF NextIndex(cseen) = producer \/ cseen = producer
              THEN "idle" ELSE "claim"
    /\ UNCHANGED <<shared, pvars, cgen, cseen, claimed, cvalue, taken>>

\* Load producer; equal cursors return None.
PopCompare ==
    /\ cpc = "compare"
    /\ cpc' = IF cseen = producer THEN "idle" ELSE "claim"
    /\ UNCHANGED <<shared, pvars, cgen, cseen, claimed, cvalue, taken>>

\* fetch_or(READING) returns the index it claimed.
PopClaim ==
    /\ cpc = "claim"
    /\ reading' = TRUE
    /\ claimed' = consumer
    /\ cpc' = "verify"
    /\ UNCHANGED <<slots, producer, consumer, generation, discarded, pvars,
                   cgen, cseen, cvalue, taken>>

\* Faulty variant: the generation is not looked at again.
PopVerify_Trusting ==
    /\ cpc = "verify"
    /\ cpc' = "copy"
    /\ UNCHANGED <<shared, pvars, cgen, cseen, claimed, cvalue, taken>>

\* A replacement since the first load makes the claim worthless.
PopVerify ==
    /\ cpc = "verify"
    /\ cpc' = IF generation # cgen THEN "restore" ELSE "copy"
    /\ UNCHANGED <<shared, pvars, cgen, cseen, claimed, cvalue, taken>>

\* Give the claim back and start again (the continue of the loop).
PopRestore ==
    /\ cpc = "restore"
    /\ consumer' = claimed
    /\ reading' = FALSE
    /\ cpc' = "idle"
    /\ UNCHANGED <<slots, producer, generation, discarded, pvars,
                   cgen, cseen, claimed, cvalue, taken>>

\* assume_init_read(): the plain read of the claimed slot.
PopCopy ==
    /\ cpc = "copy"
    /\ cvalue' = slots[claimed]
    /\ cpc' = "release"
    /\ UNCHANGED <<shared, pvars, cgen, cseen, claimed, taken>>

\* release_claim(): one store clears READING and advances the cursor.
PopRelease ==
    /\ cpc = "release"
    /\ consumer' = NextIndex(claimed)
    /\ reading' = FALSE
    /\ taken' = Append(taken, cvalue)
    /\ cpc' = "idle"
    /\ UNCHANGED <<slots, producer, generation, discarded, pvars,
                   cgen, cseen, claimed, cvalue>>

Pop == \/ PopGeneration \/ PopState \/ PopCompare \/ PopClaim \/ PopVerify
       \/ PopRestore \/ PopCopy \/ PopRelease

Next == Push \/ Pop

Spec == Init /\ [][Next]_vars

\* The callback and the delivery owner both keep being scheduled.
FairSpec == Spec /\ WF_vars(Push) /\ WF_vars(Pop)

-----------------------------------------------------------------------------
(* Properties.                                                             *)

(* The type invariant.                                                     *)
TypeOK ==
    /\ slots \in [Indexes -> Nat]
    /\ producer \in Indexes
    /\ consumer \in Indexes
    /\ reading \in BOOLEAN
    /\ generation \in Nat
    /\ discarded \in Nat
    /\ ppc \in ProducerPoints
    /\ pseen \in Indexes
    /\ replacing \in BOOLEAN
    /\ cpc \in ConsumerPoints
    /\ cgen \in Nat
    /\ cseen \in Indexes
    /\ claimed \in Indexes
    /\ cvalue \in Nat
    /\ pushed \in Nat
    /\ outcome \in {"None", "Published", "ReplacedStale", "DroppedDuringRead"}
    /\ taken \in Seq(Nat)

(* The SAFETY comments of publish() and pop(): the producer's plain write  *)
(* and the consumer's plain read never touch one slot at the same time.    *)
NoSlotRace == ~(ppc = "write" /\ cpc = "copy" /\ producer = claimed)

(* pop() never hands out a value twice, out of order, or from storage that *)
(* was never written.                                                      *)
DeliveredInOrder ==
    \A i \in 1 .. Len(taken) :
        /\ taken[i] > 0
        /\ i > 1 => taken[i - 1] < taken[i]

(* Between pushes the statistics account for every value: it was delivered *)
(* (once, in order), counted as discarded, or is still waiting between the *)
(* two cursors.                                                            *)
EveryValueAccounted ==
    /\ DeliveredInOrder
    /\ ppc = "idle" =>
           pushed = Len(taken) + discarded + Distance(consumer, producer)

(* Once pushes stop, a consumer that keeps polling empties the ring: no    *)
(* value is stranded behind a stale claim or an odd generation.            *)
EventuallyDrained == <>[](pushed = MaxPush => consumer = producer)

\* The values between the cursors, oldest first.
Backlog == [i \in 1 .. Distance(consumer, producer) |->
               slots[(consumer + i - 1) % SlotCount]]

\* How far the current push has come, in NewestQueue's terms.
AbstractPhase ==
    CASE ppc \in {"bump", "reload", "cas"} -> "full"
      [] ppc = "count" \/ (ppc \in {"write", "store"} /\ replacing) -> "evicted"
      [] OTHER -> "idle"

Abstract == INSTANCE NewestQueue WITH
    Capacity <- SlotCount - 1,
    queue <- Backlog,
    newest <- IF ppc \in {"idle", "finish", "dropCount", "dropFinish"}
              THEN pushed ELSE pushed - 1,
    phase <- AbstractPhase,
    taken <- taken

(* The two lock-free endpoints together implement NewestQueue: eviction is *)
(* all or nothing, happens only to a push that met a full ring, and the    *)
(* consumer only ever takes the head.                                      *)
ImplementsNewestQueue == Abstract!Spec
=============================================================================
