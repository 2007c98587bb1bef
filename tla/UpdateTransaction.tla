------------------------- MODULE UpdateTransaction -------------------------
(***************************************************************************)
(* What the station's update mailbox promises its control clients: at most *)
(* one settings transaction at a time, started from the settings in force, *)
(* answered once by the audio side, and ended either forward, with the     *)
(* candidate in force, or back, with the settings it started from.  Each   *)
(* end counts a revision.                                                  *)
(*                                                                         *)
(* StationUpdate implements this with two callbacks, four atomics and two  *)
(* generations of borrowed storage; RemoteDsp runs two clients on it.      *)
(***************************************************************************)
EXTENDS Naturals

CONSTANTS Plans, BootPlan

VARIABLES
    plan,     \* the settings plan reported to clients
    txn,      \* the transaction, or None
    outcome,  \* the audio side's answer to what was last published
    revision  \* ends so far

vars == <<plan, txn, outcome, revision>>

None == [plan |-> BootPlan, previous |-> BootPlan, reversing |-> FALSE,
         open |-> FALSE]
Transactions == [plan : Plans, previous : Plans, reversing : BOOLEAN,
                 open : {TRUE}]

Init ==
    /\ plan = BootPlan
    /\ txn = None
    /\ outcome = "none"
    /\ revision = 0

\* begin_update: publish the candidate to both callbacks.
Begin(p) ==
    /\ txn = None
    /\ txn' = [plan |-> p, previous |-> plan, reversing |-> FALSE,
               open |-> TRUE]
    /\ outcome' = "pending"
    /\ UNCHANGED <<plan, revision>>

\* Both callbacks have answered; one refusal makes the answer a refusal.
Answer(result) ==
    /\ outcome = "pending"
    /\ outcome' = result
    /\ UNCHANGED <<plan, txn, revision>>

\* accept_update: the adopted candidate is reported before it is committed.
Accept ==
    /\ txn # None
    /\ outcome = "adopted"
    /\ ~txn.reversing
    /\ plan' = txn.plan
    /\ UNCHANGED <<txn, outcome, revision>>

End(p) ==
    /\ plan' = p
    /\ txn' = None
    /\ outcome' = "none"
    /\ revision' = revision + 1

\* finish_update(true).
Commit ==
    /\ txn # None
    /\ outcome = "adopted"
    /\ ~txn.reversing
    /\ End(txn.plan)

\* finish_update(false) with every answer in: publish the way back.
Reverse ==
    /\ txn # None
    /\ outcome \in {"adopted", "refused"}
    /\ ~txn.reversing
    /\ txn' = [txn EXCEPT !.reversing = TRUE]
    /\ outcome' = "pending"
    /\ UNCHANGED <<plan, revision>>

\* finish_update(false) of a reversing transaction the callbacks adopted.
Settle ==
    /\ txn # None
    /\ outcome = "adopted"
    /\ txn.reversing
    /\ End(txn.previous)

Next ==
    \/ \E p \in Plans : Begin(p)
    \/ \E r \in {"adopted", "refused"} : Answer(r)
    \/ Accept \/ Commit \/ Reverse \/ Settle

Spec == Init /\ [][Next]_vars
=============================================================================
