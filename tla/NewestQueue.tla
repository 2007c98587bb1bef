---------------------------- MODULE NewestQueue ----------------------------
(***************************************************************************)
(* What LatestHandoff promises its two users: a bounded first-in first-out *)
(* queue whose producer never waits.  Values are numbered in the order     *)
(* they are pushed.  A push that finds room appends.  A push that finds    *)
(* the queue full resolves in one of two ways: it throws the whole         *)
(* undelivered backlog away and leaves itself as the only value, or it is  *)
(* itself thrown away and the backlog stays.  The consumer only ever takes *)
(* the head.                                                               *)
(***************************************************************************)
EXTENDS Naturals, Sequences

CONSTANT Capacity

VARIABLES queue,  \* undelivered values, oldest first
          newest, \* number of pushes that have taken effect
          phase,  \* "idle", or how far an overflowing push has come
          taken   \* values delivered, in order

vars == <<queue, newest, phase, taken>>

Init ==
    /\ queue = <<>>
    /\ newest = 0
    /\ phase = "idle"
    /\ taken = <<>>

Offer ==
    /\ phase = "idle"
    /\ Len(queue) < Capacity
    /\ queue' = Append(queue, newest + 1)
    /\ newest' = newest + 1
    /\ UNCHANGED <<phase, taken>>

Overflow ==
    /\ phase = "idle"
    /\ Len(queue) = Capacity
    /\ phase' = "full"
    /\ UNCHANGED <<queue, newest, taken>>

Evict ==
    /\ phase = "full"
    /\ queue' = <<>>
    /\ phase' = "evicted"
    /\ UNCHANGED <<newest, taken>>

Refill ==
    /\ phase = "evicted"
    /\ queue' = <<newest + 1>>
    /\ newest' = newest + 1
    /\ phase' = "idle"
    /\ UNCHANGED taken

Refuse ==
    /\ phase = "full"
    /\ newest' = newest + 1
    /\ phase' = "idle"
    /\ UNCHANGED <<queue, taken>>

Take ==
    /\ queue # <<>>
    /\ taken' = Append(taken, Head(queue))
    /\ queue' = Tail(queue)
    /\ UNCHANGED <<newest, phase>>

Next == Offer \/ Overflow \/ Evict \/ Refill \/ Refuse \/ Take

Spec == Init /\ [][Next]_vars
=============================================================================
