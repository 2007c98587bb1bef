----------------------------- MODULE MCExchange -----------------------------
(***************************************************************************)
(* What a station exchanges between its real-time callbacks and the rest   *)
(* of the program, in three parts that share no state, side by side: the   *)
(* media handoff (LatestHandoff), the station's update mailbox             *)
(* (StationUpdate), and how the sound goes from one processing generation  *)
(* to the next in the updates the mailbox brings (ProcessingHandoff).      *)
(* `lane' says which of them a behaviour is of.                            *)
(*                                                                         *)
(* Handoff: three slots hold two values, so both the ordinary and the      *)
(* overflowing paths are met with the cursors at every relative position;  *)
(* six pushes take them round the ring twice.                              *)
(* Mailbox: three preparations, two of them outstanding at once, let one   *)
(* update overtake another between its snapshot and its admission, and let *)
(* two updates lead from the boot plan away and back to it meanwhile.      *)
(* Processing: a second update is prepared while the first one's graph is  *)
(* primed or faded in; blocks of one and two units end inside a frame of   *)
(* the noise reduction, inside the priming and inside the fade.  The plans *)
(* differ from the boot plan in the graph, or in noise reduction and gain. *)
(***************************************************************************)
EXTENDS LatestHandoff, StationUpdate, ProcessingHandoff

CONSTANTS boot, a

VARIABLE lane

MCBoot == [dynamics |-> 0, denoise |-> TRUE, gain |-> 0]
MCProcessing ==
    {MCBoot, [MCBoot EXCEPT !.dynamics = 1], [MCBoot EXCEPT !.denoise = FALSE, !.gain = 1]}

Handoff(A) == lane = "handoff" /\ A /\ UNCHANGED <<lane, updateVars, processingVars>>
Update(A)  == lane = "update"  /\ A /\ UNCHANGED <<lane, vars, processingVars>>
Process(A) == lane = "process" /\ A /\ UNCHANGED <<lane, vars, updateVars>>

allVars == <<lane, vars, updateVars, processingVars>>

SidesInit ==
    /\ Init /\ UpdateInit /\ ProcessingInit
    /\ lane \in {"handoff", "update", "process"}

\* The last update of the processing is done with; the other parts are never stuck.
SidesNext ==
    \/ Handoff(Next)
    \/ Update(UpdateNext)
    \/ Process(ProcessingNext)
    \/ lane = "process" /\ UNCHANGED allVars

\* The fairness of the handoff and of the mailbox.  A behaviour stays in its part, so
\* one condition serves an action of each.
SidesFairness ==
    /\ WF_allVars(Handoff(Push) \/ Update(PublishReceive))
    /\ WF_allVars(Handoff(Pop) \/ Update(PublishTransmit))
    /\ WF_allVars(Update(FinishSteps))
    /\ \A d \in Directions : SF_allVars(Update(Callback(d)))
    /\ SF_allVars(Update(FinishUpdate(FALSE)))

SidesSpec == SidesInit /\ [][SidesNext]_allVars /\ SidesFairness
=============================================================================
