---------------------------- MODULE MCRemoteBase ----------------------------
(***************************************************************************)
(* A rig that keys itself, under the Asterisk service, with a setting that *)
(* waits in front of a tune request; and a parallel radio under the native *)
(* service, with a detached frame and an urgent stop.                      *)
(***************************************************************************)
EXTENDS RemoteBase

CONSTANTS first, second

MCSetups ==
    {[native |-> FALSE, rig |-> TRUE, ptt |-> "rig",
      kind |-> [t \in Tickets |-> IF t = first THEN "scalar" ELSE "core"]],
     [native |-> TRUE, rig |-> FALSE, ptt |-> "gpio",
      kind |-> [t \in Tickets |-> IF t = first THEN "urgent" ELSE "parallel"]]}
=============================================================================
