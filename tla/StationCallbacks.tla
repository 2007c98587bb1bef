-------------------------- MODULE StationCallbacks --------------------------
(***************************************************************************)
(* The receive and the transmit callback of one station and the atomic     *)
(* words they share with each other and with the threads that own the      *)
(* hardware, the remote base and the controller.  Every access to a shared *)
(* word is a step of its own; what a callback does between two of them     *)
(* touches only its own context.                                           *)
(*                                                                         *)
(* `path' is how program audio reaches the station: through app_rpt's ring *)
(* ("ring"), from an attached rpt_advanced ("direct"), or from the native  *)
(* host ("native").  The radio library is external: what it receives, and  *)
(* what a transmission still has to send once the request is withdrawn, is *)
(* any of its answers.  PCM, meters, counters, the receiver's squelch and  *)
(* the request bits that only shape what the radio renders (test tone,     *)
(* forced tone, inhibition of the tone, settling) are left out.            *)
(***************************************************************************)
EXTENDS Naturals

CONSTANTS
    Tones    \* CTCSS tones a transmission may select; 0 is none

ASSUME TonesAssumption == Tones \subseteq Nat \ {0}

VARIABLES
    path,      \* which endpoints the station was prepared with
    streaming, \* StationRuntime.running
    wanted,    \* ControllerRequests.transmit
    tune,      \* remote_tune
    policy,    \* remote_control
    intent,    \* remote_transmit: demand before inhibition
    outputs,   \* outputs: logical PTT and the tone selected
    ready,     \* transmit_ctcss_ready
    air,       \* external: what the radio still has to send
    tx,        \* the transmit callback and its context
    rx,        \* the receive callback and its context
    cut,       \* history: see TransmitEnds
    told       \* history: the controller was told of the selected tone

words == <<wanted, tune, policy, intent, outputs, ready>>
callbackVars == <<path, streaming, words, air, tx, rx, cut, told>>

Paths == {"ring", "direct", "native"}
Policies == {"off", "closed", "receive", "open"}

\* RemoteRadioControl: off is not enabled; closed is what every step of a retune
\* publishes; a published state permits receiving, or both.
TransmitPermitted(p) == p \notin {"closed", "receive"}

NoOutput == [ptt |-> FALSE, tone |-> 0]

IdleTx == [pc |-> "idle", demand |-> FALSE, failed |-> FALSE, burst |-> TRUE,
           last |-> "ok", barred |-> FALSE]

IdleRx == [pc |-> "idle", tone |-> 0]

\* open_endpoints, then a stopped stream; bind_remote publishes the closed policy
\* before anything starts.
CallbackInit ==
    /\ path \in Paths
    /\ streaming = FALSE
    /\ wanted = FALSE /\ tune = FALSE /\ intent = FALSE
    /\ policy \in {"off", "closed"}
    /\ outputs = NoOutput
    /\ ready = 0
    /\ air = "idle"
    /\ tx = IdleTx
    /\ rx = IdleRx
    /\ cut = FALSE
    /\ told = TRUE

(***************************************************************************)
(* The threads around the callbacks.                                       *)
(***************************************************************************)

\* publish_requests: the controller's, the tuner's or clear_manual_requests.
PublishRequests ==
    /\ wanted' = ~wanted
    /\ cut' = (cut /\ wanted)
    /\ UNCHANGED <<path, streaming, tune, policy, intent, outputs, ready,
                   air, tx, rx, told>>

\* publish_remote_tune.
PublishTune ==
    /\ policy # "off"
    /\ tune' = ~tune
    /\ cut' = (cut /\ tune)
    /\ UNCHANGED <<path, streaming, wanted, policy, intent, outputs, ready,
                   air, tx, rx, told>>

\* publish_remote_control: a station with a remote base keeps it enabled.
PublishPolicy(p) ==
    /\ policy # "off" /\ p \notin {"off", policy}
    /\ policy' = p
    /\ tx' = [tx EXCEPT !.barred = @ /\ ~TransmitPermitted(p)]
    /\ UNCHANGED <<path, streaming, wanted, tune, intent, outputs, ready,
                   air, rx, cut, told>>

\* StationRuntime::start.
StreamStarts ==
    /\ ~streaming
    /\ streaming' = TRUE
    /\ UNCHANGED <<path, words, air, tx, rx, cut, told>>

\* StationRuntime::stop returns when neither callback runs; the words keep their
\* last values.
StreamStops ==
    /\ streaming /\ tx.pc = "idle" /\ rx.pc = "idle"
    /\ streaming' = FALSE
    /\ UNCHANGED <<path, words, air, tx, rx, cut, told>>

(***************************************************************************)
(* The transmit callback.                                                  *)
(***************************************************************************)

TxStep(pc) == tx.pc = pc

\* The end of a callback.  A demand that was withdrawn before a callback that ran
\* under inhibition throughout ends has been cut off: nothing of it may be sent
\* later, whatever the radio still holds.
TransmitEnds(last) ==
    /\ tx' = [tx EXCEPT !.pc = "idle", !.last = last, !.demand = FALSE, !.failed = FALSE]
    /\ cut' = (cut \/ (last = "ok" /\ tx.barred /\ ~wanted /\ ~tune))

\* publish_transmit_fault, first store of three.
FaultOutputs ==
    /\ outputs' = NoOutput
    /\ told' = TRUE

\* A null or oversized block: refused; on the native path the outputs are released.
RefuseBlock ==
    /\ streaming /\ TxStep("idle")
    /\ IF path = "native"
       THEN /\ FaultOutputs
            /\ tx' = [tx EXCEPT !.pc = "faultReady", !.failed = TRUE,
                                !.barred = ~TransmitPermitted(policy)]
            /\ UNCHANGED cut
       ELSE /\ tx' = [tx EXCEPT !.last = "error", !.barred = ~TransmitPermitted(policy)]
            /\ UNCHANGED <<outputs, told, cut>>
    /\ UNCHANGED <<path, streaming, wanted, tune, policy, intent, ready,
                   air, rx>>

\* transmit_controls: the requests, and then the remote tune.
LoadRequests ==
    /\ streaming /\ TxStep("idle")
    /\ tx' = [tx EXCEPT !.pc = "tune", !.demand = wanted,
                        !.barred = ~TransmitPermitted(policy)]
    /\ UNCHANGED <<path, streaming, words, air, rx, cut, told>>

LoadTune ==
    /\ TxStep("tune")
    /\ tx' = [tx EXCEPT !.pc = IF path = "ring" THEN "intent" ELSE "direct",
                        !.demand = @ \/ tune]
    /\ UNCHANGED <<path, streaming, words, air, rx, cut, told>>

\* exchange_remote_metadata, the controller's transmit endpoint, and the exchange
\* again: a key from the controller joins the demand.
CallController(key) ==
    /\ TxStep("direct")
    /\ tx' = [tx EXCEPT !.pc = "mute", !.demand = @ \/ key]
    /\ cut' = (cut /\ ~key)
    /\ UNCHANGED <<path, streaming, words, air, rx, told>>

\* One of the three calls fails or answers out of range.
ControllerFails ==
    /\ TxStep("direct")
    /\ FaultOutputs
    /\ tx' = [tx EXCEPT !.pc = "faultReady", !.demand = FALSE, !.failed = TRUE]
    /\ UNCHANGED <<path, streaming, wanted, tune, policy, intent, ready,
                   air, rx, cut>>

FaultReady ==
    /\ TxStep("faultReady")
    /\ ready' = 0
    /\ tx' = [tx EXCEPT !.pc = "faultIntent"]
    /\ UNCHANGED <<path, streaming, wanted, tune, policy, intent, outputs,
                   air, rx, cut, told>>

\* The last store; the native callback returns here, the attached one still lets
\* the radio advance.
FaultIntent ==
    /\ TxStep("faultIntent")
    /\ intent' = FALSE
    /\ IF path = "native" THEN TransmitEnds("fault")
       ELSE tx' = [tx EXCEPT !.pc = "mute"] /\ UNCHANGED cut
    /\ UNCHANGED <<path, streaming, wanted, tune, policy, outputs, ready,
                   air, rx, told>>

\* Program audio is muted under inhibition and staged for the radio.
StageDirect ==
    /\ TxStep("mute")
    /\ tx' = [tx EXCEPT !.pc = "intent"]
    /\ UNCHANGED <<path, streaming, words, air, rx, cut, told>>

\* publish_transmit_intent.
PublishIntent ==
    /\ TxStep("intent")
    /\ intent' = tx.demand
    /\ tx' = [tx EXCEPT !.pc = "admit"]
    /\ UNCHANGED <<path, streaming, wanted, tune, policy, outputs, ready,
                   air, rx, cut, told>>

\* Admission, by the policy as it is now: inhibition withdraws the demand and ends
\* the burst; a demand, or no remote base at all, begins one.
BurstAfter(p, demand, burst) ==
    IF ~TransmitPermitted(p) THEN FALSE ELSE burst \/ demand \/ p = "off"

Admit ==
    /\ TxStep("admit")
    /\ tx' = [tx EXCEPT !.pc = "render",
                        !.demand = @ /\ TransmitPermitted(policy),
                        !.burst = BurstAfter(policy, tx.demand, @)]
    /\ UNCHANGED <<path, streaming, words, air, rx, cut, told>>

\* What the radio answers to a rendered block: keyed while asked to be, and for as
\* long as it has signalling to send afterwards.
Rendered ==
    IF tx.demand THEN [ptt : {TRUE}, tone : {0} \union Tones]
    ELSE {NoOutput} \union
         (IF air = "idle" THEN {} ELSE [ptt : {TRUE}, tone : {0} \union Tones])

AirAfter(result) == IF tx.demand THEN "keyed" ELSE IF result.ptt THEN "tail" ELSE "idle"

Published_AnyBurst(result) == result

\* publish_transmit_result: what a burst that was not admitted renders is dropped.
Published(result) == IF tx.burst THEN result ELSE NoOutput

RenderAndPublish(result) ==
    LET published == Published(result)
    IN  /\ TxStep("render") /\ ~tx.failed
        /\ air' = AirAfter(result)
        /\ outputs' = published
        /\ told' = IF published.tone = outputs.tone THEN told ELSE published.tone = 0
        /\ IF published.tone # outputs.tone
           THEN tx' = [tx EXCEPT !.pc = "ready"] /\ UNCHANGED cut
           ELSE TransmitEnds("ok")
        /\ UNCHANGED <<path, streaming, wanted, tune, policy, intent, ready,
                   rx>>

PublishReady ==
    /\ TxStep("ready")
    /\ ready' = outputs.tone
    /\ TransmitEnds("ok")
    /\ UNCHANGED <<path, streaming, wanted, tune, policy, intent, outputs,
                   air, rx, told>>

\* The radio renders after a controller fault: its answer is not published.
RenderAfterFault(result) ==
    /\ TxStep("render") /\ tx.failed
    /\ air' = AirAfter(result)
    /\ TransmitEnds("fault")
    /\ UNCHANGED <<path, streaming, words, rx, told>>

\* The radio refuses: released on the native path only.
RenderFails ==
    /\ TxStep("render")
    /\ IF path = "native"
       THEN /\ FaultOutputs
            /\ tx' = [tx EXCEPT !.pc = "faultReady", !.failed = TRUE]
            /\ UNCHANGED cut
       ELSE TransmitEnds(IF tx.failed THEN "fault" ELSE "error") /\ UNCHANGED <<outputs, told>>
    /\ UNCHANGED <<path, streaming, wanted, tune, policy, intent, ready,
                   air, rx>>

(***************************************************************************)
(* The receive callback.                                                   *)
(***************************************************************************)

RxStep(pc) == rx.pc = pc

\* A block the radio has processed, whatever it heard: receive_metadata's
\* take_transmit_ctcss empties the word.
TakeTone ==
    /\ streaming /\ RxStep("idle")
    /\ rx' = [rx EXCEPT !.pc = "publish", !.tone = ready]
    /\ ready' = 0
    /\ UNCHANGED <<path, streaming, wanted, tune, policy, intent, outputs,
                   air, tx, cut, told>>

\* The block and its metadata reach the controller.  Only the ring's publisher
\* carries the notice of a selected tone.
ControllerReceives ==
    /\ RxStep("publish")
    /\ told' = (told \/ (path = "ring" /\ rx.tone # 0 /\ rx.tone = outputs.tone))
    /\ rx' = IdleRx
    /\ UNCHANGED <<path, streaming, words, air, tx, cut>>

\* The controller does not take the block: the ring's publisher gives the notice back.
ControllerRefuses ==
    /\ RxStep("publish")
    /\ rx' = IF path = "ring" /\ rx.tone # 0 THEN [rx EXCEPT !.pc = "restore"] ELSE IdleRx
    /\ UNCHANGED <<path, streaming, words, air, tx, cut, told>>

Restored_Overwrites == rx.tone

\* restore_transmit_ctcss: only into an empty word.
Restored == IF ready = 0 THEN rx.tone ELSE ready

RestoreTone ==
    /\ RxStep("restore")
    /\ ready' = Restored
    /\ rx' = IdleRx
    /\ UNCHANGED <<path, streaming, wanted, tune, policy, intent, outputs,
                   air, tx, cut, told>>

CallbackNext ==
    \/ PublishRequests \/ PublishTune \/ (\E p \in Policies : PublishPolicy(p))
    \/ StreamStarts \/ StreamStops
    \/ RefuseBlock \/ LoadRequests \/ LoadTune
    \/ (\E key \in BOOLEAN : CallController(key)) \/ ControllerFails
    \/ FaultReady \/ FaultIntent \/ StageDirect \/ PublishIntent \/ Admit
    \/ (\E result \in Rendered : RenderAndPublish(result) \/ RenderAfterFault(result))
    \/ PublishReady \/ RenderFails
    \/ TakeTone \/ ControllerReceives \/ ControllerRefuses \/ RestoreTone

(***************************************************************************)
(* Properties.                                                             *)
(***************************************************************************)

\* Types of the words and of the two contexts.
CallbackTypeOK ==
    /\ path \in Paths /\ policy \in Policies
    /\ {streaming, wanted, tune, intent, cut, told} \subseteq BOOLEAN
    /\ outputs \in [ptt : BOOLEAN, tone : {0} \union Tones]
    /\ ready \in {0} \union Tones
    /\ air \in {"idle", "keyed", "tail"}
    /\ tx.last \in {"ok", "error", "fault"} /\ rx.tone \in {0} \union Tones

\* The remote base's inhibition holds on the transmitter.  Once a whole transmit
\* callback has run under it, no PTT is published until it is lifted; and when it is
\* lifted, a transmission that was asked for and withdrawn meanwhile, or was under
\* way when it came, is not resumed by the signalling the radio still has to send:
\* only a new demand keys (transmit_callback, remote_burst_admitted).  A block that
\* an Asterisk station's radio or adapter refuses publishes nothing and is excused
\* from the first part.
InhibitionHolds ==
    /\ tx.pc = "idle" /\ tx.barred /\ tx.last # "error" => ~outputs.ptt
    /\ cut => ~outputs.ptt

\* A controller that fails in the callback releases the transmitter at once: PTT,
\* selected tone, tone notice and published demand are all withdrawn when the
\* callback returns, and stay so until a later callback succeeds, whatever the radio
\* was still sending; on the native path so does every other failure
\* (publish_transmit_fault).
FaultReleases ==
    tx.pc = "idle" /\ tx.last = "fault"
        => outputs = NoOutput /\ ready = 0 /\ ~intent

\* Inhibition and failure both take the transmitter off the air.
TransmitterObeys == InhibitionHolds /\ FaultReleases

\* The notice that a transmit tone was selected reaches app_rpt: until it has been
\* delivered it is in the shared word or in the receive callback's hands, even when
\* the controller refuses the block that carried it while another tone is selected
\* (take_transmit_ctcss, restore_transmit_ctcss, publish_transmit_result).
ToneNoticeKept ==
    path = "ring" /\ ~told
        => ready = outputs.tone \/ rx.tone = outputs.tone \/ tx.pc = "ready"

CallbackSpec == CallbackInit /\ [][CallbackNext]_callbackVars
=============================================================================
