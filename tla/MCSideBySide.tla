---------------------------- MODULE MCSideBySide ----------------------------
(***************************************************************************)
(* Four parts that share no state, side by side: the controller adapter's  *)
(* delivery (ControllerDelivery), the incoming-link host (LinkHost), the   *)
(* station's callbacks (StationCallbacks) and the native host's station    *)
(* (NativeStation).  `lane' says which of them a behaviour is of.          *)
(*                                                                         *)
(* Delivery: one channel whose handoff holds one packet and whose journal  *)
(* holds one event: a second packet overflows, a second event overwrites.  *)
(* Two callbacks complete a frame, so a frame may also end inside one.     *)
(* Any two of a reload, an operation and a second event meet in it.        *)
(* Links: two channels, one of which the scanner finds eligible, and two   *)
(* hooks, so a hook is installed again, bound next to another or moved.    *)
(* Either two reloads meet the scanner and a rate change, or an explicit   *)
(* binding meets the scanner and an unload; a failing load is in both.     *)
(* Callbacks: two tones, so that one is selected while the notice of the   *)
(* other is under way; unbounded.                                          *)
(* Native station: two mixers, so that a write may fail after another      *)
(* succeeded; three levels, the lowest of which no gain can name; requests *)
(* that change a gain, another setting, both or neither.                   *)
(***************************************************************************)
EXTENDS ControllerDelivery, LinkHost, StationCallbacks, NativeStation

CONSTANTS c1, c2, radio1

VARIABLE lane

MCDeliveryBudgets ==
    {[statuses |-> 2, ops |-> 1, reloads |-> 0],
     [statuses |-> 2, ops |-> 0, reloads |-> 1],
     [statuses |-> 1, ops |-> 1, reloads |-> 1]}

MCLinkBudgets ==
    {[loads |-> 1, unloads |-> 0, reloads |-> 2, binds |-> 0, rates |-> 1],
     [loads |-> 1, unloads |-> 1, reloads |-> 0, binds |-> 1, rates |-> 0]}

MCRequests ==
    {[gain |-> <<1, 1>>,     squelch |-> 0, eeprom |-> TRUE],
     [gain |-> <<2, Unset>>, squelch |-> 1, eeprom |-> TRUE],
     [gain |-> <<1, Unset>>, squelch |-> 0, eeprom |-> FALSE],
     [gain |-> <<2, Unset>>, squelch |-> 1, eeprom |-> FALSE]}

MCNativeBudgets == {[mixes |-> 1, saves |-> 1, updates |-> 1, starts |-> 2, faults |-> 1]}

Deliver(A) == lane = "delivery"  /\ A /\ UNCHANGED <<lane, linkVars, callbackVars, nativeVars>>
Link(A)    == lane = "link"      /\ A /\ UNCHANGED <<lane, vars, callbackVars, nativeVars>>
Call(A)    == lane = "callbacks" /\ A /\ UNCHANGED <<lane, vars, linkVars, nativeVars>>
Native(A)  == lane = "native"    /\ A /\ UNCHANGED <<lane, vars, linkVars, callbackVars>>

\* A part that does not run stands in one of its initial states.
SidesInit ==
    /\ Init /\ LinkInit /\ CallbackInit /\ NativeInit
    /\ lane \in {"delivery", "link", "callbacks", "native"}
    /\ lane # "delivery" => quota = [statuses |-> 2, ops |-> 1, reloads |-> 0]
    /\ lane # "link" => linkBudget.binds = 0
    /\ lane # "callbacks" => path = "ring" /\ policy = "off"

SidesNext == Deliver(Next) \/ Link(LinkNext) \/ Call(CallbackNext) \/ Native(NativeNext)

SidesSpec ==
    SidesInit /\ [][SidesNext]_<<lane, vars, linkVars, callbackVars, nativeVars>>
=============================================================================
