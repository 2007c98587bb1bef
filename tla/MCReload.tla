------------------------------ MODULE MCReload ------------------------------
(***************************************************************************)
(* The reload and the channels, two parts that share no state, side by     *)
(* side: the transaction over all channels (ReloadTransaction), and how    *)
(* one channel is hosted while reloads come and go (ChannelHost).  `lane'  *)
(* says which of them a behaviour is of.                                   *)
(*                                                                         *)
(* Transaction: two channels and two settings: the move from a to b can be *)
(* adopted by a running station, the move back needs a replacement, so     *)
(* every path of the handlers is taken; reloads are not bounded.           *)
(* Host: one radio hosted twice in succession: every lock and thread the   *)
(* code has is per channel or global, and the reload, the hangup, the      *)
(* worker and the callbacks of one channel meet at all of them.            *)
(***************************************************************************)
EXTENDS ChannelHost, ReloadTransaction

CONSTANTS c1, a, b

VARIABLE lane

MCAdoptable == {<<a, b>>}

Transact(A) == lane = "reload" /\ A /\ UNCHANGED <<lane, vars>>
Host(A)     == lane = "host"   /\ A /\ UNCHANGED <<lane, reloadVars>>

allVars == <<lane, vars, reloadVars>>

SidesInit == lane \in {"reload", "host"} /\ Init /\ ReloadInit

SidesNext == Transact(ReloadNext) \/ Host(Next)

\* The fairness of the two parts.  A behaviour stays in its part, so one condition
\* serves an action of each.
SidesFairness ==
    /\ WF_allVars(Transact(Coordinator) \/ Host(ReloadStep))
    /\ \A c \in Channels :
          /\ WF_allVars(Host(HangupStep(c)))
          /\ WF_allVars(Host(CallbackStep(c)))
          /\ WF_allVars(Host(WorkerStep(c)))

SidesSpec == SidesInit /\ [][SidesNext]_allVars /\ SidesFairness
=============================================================================
