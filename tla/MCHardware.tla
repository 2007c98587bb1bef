----------------------------- MODULE MCHardware -----------------------------
(***************************************************************************)
(* Two parts that share no state, side by side: the hardware service and   *)
(* its owner (HardwareService), and the exchange of the remote base's      *)
(* operating state with the DSP (RemoteDsp).  `lane' says which of them a  *)
(* behaviour is of.                                                        *)
(*                                                                         *)
(* Service: three commands let a site bind, rebind or release under a      *)
(* request that is still queued, or snapshot a pin it owns; five tokens    *)
(* are exhausted by two bindings, or by a recovery or restart and one      *)
(* binding.                                                                *)
(* Exchange: two exchanges let a second retune start while the first one   *)
(* is still reversing; one target and one file setting besides the boot    *)
(* ones tell the two clients' changes apart.                               *)
(***************************************************************************)
EXTENDS HardwareService, RemoteDsp

CONSTANTS local, away, file1, file2

VARIABLE lane

MCBindings ==
    {[claim |-> FALSE, high |-> FALSE, safe |-> FALSE],
     [claim |-> TRUE, high |-> TRUE, safe |-> FALSE],
     [claim |-> TRUE, high |-> FALSE, safe |-> TRUE]}

Serve(A)    == lane = "service"  /\ A /\ UNCHANGED <<lane, exchangeVars>>
Exchange(A) == lane = "exchange" /\ A /\ UNCHANGED <<lane, vars>>

allVars == <<lane, vars, exchangeVars>>

\* A part that does not run stands in one of its initial states.
SidesInit ==
    /\ Init /\ ExchangeInit
    /\ lane \in {"service", "exchange"}
    /\ lane # "service" => ~native

\* The service is never stuck; an exchange may be the last one.
SidesNext ==
    \/ Serve(Next)
    \/ Exchange(ExchangeNext)
    \/ lane # "service" /\ UNCHANGED allVars

\* The fairness of the two parts.  A behaviour stays in its part, so one condition
\* serves an action of each.
SidesFairness ==
    /\ WF_allVars(Serve(Worker) \/ Exchange(Callbacks))
    /\ WF_allVars(Serve(Join) \/ Exchange(PhysicalWorker))
    /\ WF_allVars(Exchange(PumpStep)) /\ WF_allVars(Exchange(ReloadStep))
    /\ SF_allVars(Serve(ServiceCycle(TRUE)) \/ Exchange(PumpEnter))
    /\ SF_allVars(Serve(RetireDevices(TRUE)) \/ Exchange(ReloadFinish(FALSE)))
    /\ SF_allVars(Serve(OwnerRetires(TRUE)))

SidesSpec == SidesInit /\ [][SidesNext]_allVars /\ SidesFairness
=============================================================================
