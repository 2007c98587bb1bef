---------------------------- MODULE StationProofs ----------------------------
(***************************************************************************)
(* Proofs about the sides of a station: what its audio callbacks publish   *)
(* (StationCallbacks, for every set of tones), what its native host makes  *)
(* of starts, stops and live updates (NativeStation, for every number of   *)
(* mixers, every level and every set of requests), and what its controller *)
(* adapter delivers (ControllerDelivery, for every frame size, every       *)
(* length of the status journal and of the handoff, and any number of      *)
(* status events, controller messages and reloads).                        *)
(*                                                                         *)
(* Both properties of the callbacks are about what a callback leaves       *)
(* behind, so their invariant says what it holds at each of its points:    *)
(* what a callback barred throughout has in its hands, what a failed one   *)
(* has already withdrawn, and which tone the shared word may carry while   *)
(* the receive callback holds another.  That of the native station says    *)
(* which request each owner of an update remembers, and at which levels    *)
(* the line, the open mixers and the retained levels are known to stand.   *)
(***************************************************************************)
EXTENDS StationCallbacks, NativeStation, ControllerDelivery, TLAPS


TxPoints == {"idle", "tune", "direct", "faultReady", "faultIntent", "mute",
             "intent", "admit", "render", "ready"}

RxPoints == {"idle", "publish", "restore"}

Notices == {0} \union Tones

Outputs == [ptt : BOOLEAN, tone : Notices]

TxContext == [pc : TxPoints, demand : BOOLEAN, failed : BOOLEAN, burst : BOOLEAN,
              last : {"ok", "error", "fault"}, barred : BOOLEAN]

RxContext == [pc : RxPoints, tone : Notices]

\* The types of everything: CallbackTypeOK, and the rest of the two contexts.
ContextsOK ==
    /\ path \in Paths /\ policy \in Policies
    /\ streaming \in BOOLEAN /\ wanted \in BOOLEAN /\ tune \in BOOLEAN
    /\ intent \in BOOLEAN /\ cut \in BOOLEAN /\ told \in BOOLEAN
    /\ outputs \in Outputs
    /\ ready \in Notices
    /\ air \in {"idle", "keyed", "tail"}
    /\ tx \in TxContext
    /\ rx \in RxContext

\* A callback that has been barred throughout rendered nothing it may publish.
BarredInv ==
    /\ tx.barred => ~TransmitPermitted(policy)
    /\ tx.barred /\ tx.pc \in {"render", "ready"} => ~tx.burst /\ ~tx.demand
    /\ tx.barred /\ tx.pc = "ready" => ~outputs.ptt
    /\ tx.barred /\ tx.pc = "idle" /\ tx.last # "error" => ~outputs.ptt

\* After a cut there is no demand anywhere and no burst to carry the tail.
CutInv ==
    cut => /\ ~wanted /\ ~tune /\ policy # "off"
           /\ ~tx.burst /\ ~tx.demand /\ ~outputs.ptt

\* What publish_transmit_fault has withdrawn, store by store.
FaultInv ==
    /\ tx.pc \in {"faultReady", "faultIntent"} => tx.failed
    /\ tx.pc \in {"idle", "tune", "direct", "ready"} => ~tx.failed
    /\ tx.pc = "direct" => path # "ring"
    /\ tx.failed => path # "ring" /\ outputs = NoOutput
    /\ tx.failed /\ path # "native" => ~tx.demand
    /\ tx.failed /\ path = "native" => tx.pc \in {"faultReady", "faultIntent"}
    /\ tx.failed /\ tx.pc # "faultReady" => ready = 0
    /\ tx.failed /\ tx.pc \in {"mute", "intent", "admit", "render"} => ~intent
    /\ tx.last = "fault" => path # "ring"
    /\ tx.last = "fault" /\ tx.pc = "idle"
           => outputs = NoOutput /\ ready = 0 /\ ~intent

\* A tone older than the selected one is in the word or in the receive callback's
\* hands, never in both.
NoticeInv ==
    /\ rx.pc = "idle" => rx.tone = 0
    /\ rx.pc = "restore" => path = "ring"
    /\ ~told => outputs.tone # 0
    /\ path = "ring" /\ rx.pc # "idle" /\ tx.pc # "ready"
           => ready \in {0, outputs.tone}
    /\ ToneNoticeKept

\* The inductive invariant.
CallbackInv == ContextsOK /\ BarredInv /\ CutInv /\ FaultInv /\ NoticeInv

-----------------------------------------------------------------------------
(* open_endpoints establishes the invariant.                               *)
LEMMA CallbackInitInv == CallbackInit => CallbackInv
  <1> SUFFICES ASSUME CallbackInit PROVE CallbackInv
    OBVIOUS
  <1> USE DEF CallbackInit, IdleTx, IdleRx, NoOutput
  <1>1. ContextsOK
    BY DEF ContextsOK, Outputs, TxContext, RxContext, TxPoints, RxPoints, Notices,
           Paths, Policies
  <1>2. BarredInv /\ CutInv /\ FaultInv /\ NoticeInv
    BY DEF BarredInv, CutInv, FaultInv, NoticeInv, ToneNoticeKept
  <1> QED
    BY <1>1, <1>2 DEF CallbackInv

(* An output that was withdrawn is an output.                              *)
LEMMA NoOutputType == NoOutput \in Outputs
  BY DEF NoOutput, Notices, Outputs

(* The radio answers with an output, whatever it still has to send.        *)
LEMMA RenderedType == ASSUME NEW result \in Rendered PROVE result \in Outputs
  <1>1. [ptt : {TRUE}, tone : {0} \union Tones] \subseteq Outputs
    BY DEF Outputs, Notices
  <1> QED
    BY <1>1, NoOutputType, Zenon DEF Rendered

(* The end of a transmit callback leaves a context.                        *)
LEMMA TransmitEndsType ==
    ASSUME tx \in TxContext, NEW last \in {"ok", "error", "fault"},
           TransmitEnds(last)
    PROVE  tx' \in TxContext /\ cut' \in BOOLEAN
  <1>1. tx' \in TxContext
    BY DEF TransmitEnds, TxContext, TxPoints
  <1>2. cut' \in BOOLEAN
    BY Zenon DEF TransmitEnds
  <1> QED
    BY <1>1, <1>2

(* Every step of either callback, or around them, keeps the types.         *)
LEMMA ContextsStep == ContextsOK /\ [CallbackNext]_callbackVars => ContextsOK'
  <1> SUFFICES ASSUME ContextsOK, [CallbackNext]_callbackVars PROVE ContextsOK'
    OBVIOUS
  <1>1. CASE PublishRequests BY <1>1 DEF PublishRequests, ContextsOK
  <1>2. CASE PublishTune BY <1>2 DEF PublishTune, ContextsOK
  <1>3. ASSUME NEW p \in Policies, PublishPolicy(p) PROVE ContextsOK'
    <2> DEFINE b == tx.barred /\ ~TransmitPermitted(p)
    <2>1. b \in BOOLEAN /\ tx' = [tx EXCEPT !.barred = b]
      BY <1>3, Zenon DEF PublishPolicy
    <2> HIDE DEF b
    <2>2. tx' \in TxContext
      BY <2>1 DEF ContextsOK, TxContext
    <2> QED
      BY <1>3, <2>2, Zenon DEF ContextsOK, PublishPolicy
  <1>4. CASE StreamStarts BY <1>4 DEF StreamStarts, ContextsOK, words
  <1>5. CASE StreamStops
    <2>1. streaming' \in BOOLEAN
      BY <1>5 DEF StreamStops
    <2> QED
      BY <1>5, <2>1 DEF ContextsOK, StreamStops, words
  <1>6. CASE RefuseBlock
    <2> DEFINE b == ~TransmitPermitted(policy)
    <2>1. b \in BOOLEAN
      BY Zenon
    <2>2. \/ tx' = [tx EXCEPT !.pc = "faultReady", !.failed = TRUE, !.barred = b]
          \/ tx' = [tx EXCEPT !.last = "error", !.barred = b]
      BY <1>6, Zenon DEF RefuseBlock
    <2> HIDE DEF b
    <2>3. tx' \in TxContext
      BY <2>1, <2>2 DEF ContextsOK, TxContext, TxPoints
    <2>4. outputs' \in Outputs
      BY <1>6, NoOutputType, Zenon DEF RefuseBlock, FaultOutputs, ContextsOK
    <2>5. told' \in BOOLEAN
      BY <1>6 DEF RefuseBlock, FaultOutputs, ContextsOK
    <2> QED
      BY <1>6, <2>3, <2>4, <2>5, Zenon DEF ContextsOK, RefuseBlock
  <1>7. CASE LoadRequests
    BY <1>7 DEF LoadRequests, ContextsOK, TxContext, TxPoints, words
  <1>8. CASE LoadTune
    BY <1>8 DEF LoadTune, ContextsOK, TxContext, TxPoints, words
  <1>9. ASSUME NEW key \in BOOLEAN, CallController(key) PROVE ContextsOK'
    BY <1>9 DEF CallController, ContextsOK, TxContext, TxPoints, words
  <1>10. CASE ControllerFails
    BY <1>10, NoOutputType DEF ControllerFails, FaultOutputs, ContextsOK, TxContext,
                               TxPoints
  <1>11. CASE FaultReady
    BY <1>11 DEF FaultReady, ContextsOK, TxContext, TxPoints, Notices
  <1>12. CASE FaultIntent
    <2>1. tx' \in TxContext /\ cut' \in BOOLEAN
      BY <1>12, TransmitEndsType DEF FaultIntent, ContextsOK, TxPoints, TxContext
    <2> QED
      BY <1>12, <2>1 DEF ContextsOK, FaultIntent
  <1>13. CASE StageDirect
    BY <1>13 DEF StageDirect, ContextsOK, TxContext, TxPoints, words
  <1>14. CASE PublishIntent
    BY <1>14 DEF PublishIntent, ContextsOK, TxContext, TxPoints
  <1>15. CASE Admit
    <2> DEFINE d == tx.demand /\ TransmitPermitted(policy)
               b == BurstAfter(policy, tx.demand, tx.burst)
    <2>1. d \in BOOLEAN /\ b \in BOOLEAN
      BY Zenon DEF BurstAfter, ContextsOK
    <2>2. tx' = [tx EXCEPT !.pc = "render", !.demand = d, !.burst = b]
      BY <1>15 DEF Admit, ContextsOK, TxContext
    <2> HIDE DEF b, d
    <2>3. tx' \in TxContext
      BY <2>1, <2>2 DEF ContextsOK, TxContext, TxPoints
    <2> QED
      BY <1>15, <2>3, Zenon DEF ContextsOK, Admit, words
  <1>16. ASSUME NEW result \in Rendered, RenderAndPublish(result) PROVE ContextsOK'
    <2>1. outputs' \in Outputs
      BY <1>16, RenderedType, NoOutputType, Zenon DEF RenderAndPublish, Published
    <2>2. tx' \in TxContext /\ cut' \in BOOLEAN
      BY <1>16, TransmitEndsType DEF RenderAndPublish, ContextsOK, TxPoints, TxContext
    <2>3. AirAfter(result) \in {"idle", "keyed", "tail"}
      BY Zenon DEF AirAfter
    <2>4. told' \in BOOLEAN
      BY <1>16, Zenon DEF RenderAndPublish, ContextsOK
    <2> QED
      BY <1>16, <2>1, <2>2, <2>3, <2>4, Zenon DEF ContextsOK, RenderAndPublish
  <1>17. ASSUME NEW result \in Rendered, RenderAfterFault(result) PROVE ContextsOK'
    <2>1. tx' \in TxContext /\ cut' \in BOOLEAN
      BY <1>17, TransmitEndsType DEF RenderAfterFault, ContextsOK
    <2>2. AirAfter(result) \in {"idle", "keyed", "tail"}
      BY Zenon DEF AirAfter
    <2> QED
      BY <1>17, <2>1, <2>2, Zenon DEF ContextsOK, RenderAfterFault, words
  <1>18. CASE PublishReady
    <2>1. tx' \in TxContext /\ cut' \in BOOLEAN
      BY <1>18, TransmitEndsType DEF PublishReady, ContextsOK
    <2>2. ready' \in Notices
      BY <1>18 DEF PublishReady, ContextsOK, Outputs
    <2> QED
      BY <1>18, <2>1, <2>2, Zenon DEF ContextsOK, PublishReady
  <1>19. CASE RenderFails
    <2>1. tx' \in TxContext /\ cut' \in BOOLEAN
      BY <1>19, TransmitEndsType DEF RenderFails, ContextsOK, TxPoints, TxContext
    <2>2. outputs' \in Outputs
      BY <1>19, NoOutputType, Zenon DEF RenderFails, FaultOutputs, ContextsOK
    <2>3. told' \in BOOLEAN
      BY <1>19 DEF RenderFails, FaultOutputs, ContextsOK
    <2> QED
      BY <1>19, <2>1, <2>2, <2>3, Zenon DEF ContextsOK, RenderFails
  <1>20. CASE TakeTone
    <2>1. rx' \in RxContext /\ ready' \in Notices
      BY <1>20 DEF ContextsOK, TakeTone, RxContext, RxPoints, Notices
    <2>2. streaming' \in BOOLEAN
      BY <1>20 DEF ContextsOK, TakeTone
    <2> QED
      BY <1>20, <2>1, <2>2 DEF ContextsOK, TakeTone
  <1>21. CASE ControllerReceives
    BY <1>21 DEF ControllerReceives, ContextsOK, RxContext, RxPoints, Notices, IdleRx,
                 words
  <1>22. CASE ControllerRefuses
    BY <1>22 DEF ControllerRefuses, ContextsOK, RxContext, RxPoints, Notices, IdleRx,
                 words
  <1>23. CASE RestoreTone
    BY <1>23 DEF RestoreTone, Restored, ContextsOK, RxContext, RxPoints, Notices, IdleRx
  <1>24. CASE UNCHANGED callbackVars
    BY <1>24 DEF callbackVars, words, ContextsOK
  <1> QED
    BY <1>1, <1>2, <1>3, <1>4, <1>5, <1>6, <1>7, <1>8, <1>9, <1>10, <1>11, <1>12,
       <1>13, <1>14, <1>15, <1>16, <1>17, <1>18, <1>19, <1>20, <1>21, <1>22, <1>23,
       <1>24 DEF CallbackNext

(* Inhibition that lasted a whole callback keeps PTT down.                 *)
LEMMA BarredStep == CallbackInv /\ [CallbackNext]_callbackVars => BarredInv'
  <1> SUFFICES ASSUME CallbackInv, [CallbackNext]_callbackVars PROVE BarredInv'
    OBVIOUS
  <1> USE DEF CallbackInv, ContextsOK, BarredInv, FaultInv, TransmitPermitted,
            Outputs, TxContext, RxContext, TxPoints, RxPoints, Notices, Paths,
            Policies, TxStep, RxStep, TransmitEnds, FaultOutputs, NoOutput,
            IdleRx, words
  <1>1. CASE PublishRequests BY <1>1 DEF PublishRequests
  <1>2. CASE PublishTune BY <1>2 DEF PublishTune
  <1>3. ASSUME NEW p \in Policies, PublishPolicy(p) PROVE BarredInv'
    BY <1>3 DEF PublishPolicy
  <1>4. CASE StreamStarts BY <1>4 DEF StreamStarts
  <1>5. CASE StreamStops BY <1>5 DEF StreamStops
  <1>6. CASE RefuseBlock BY <1>6 DEF RefuseBlock
  <1>7. CASE LoadRequests BY <1>7 DEF LoadRequests
  <1>8. CASE LoadTune BY <1>8 DEF LoadTune
  <1>9. ASSUME NEW key \in BOOLEAN, CallController(key) PROVE BarredInv'
    BY <1>9 DEF CallController
  <1>10. CASE ControllerFails BY <1>10 DEF ControllerFails
  <1>11. CASE FaultReady BY <1>11 DEF FaultReady
  <1>12. CASE FaultIntent
    <2>0. ~outputs.ptt
      BY <1>12 DEF FaultIntent
    <2>1. CASE path = "native" BY <1>12, <2>0, <2>1 DEF FaultIntent
    <2>2. CASE path # "native" BY <1>12, <2>2 DEF FaultIntent
    <2> QED
      BY <2>1, <2>2
  <1>13. CASE StageDirect BY <1>13 DEF StageDirect
  <1>14. CASE PublishIntent BY <1>14 DEF PublishIntent
  <1>15. CASE Admit BY <1>15 DEF Admit, BurstAfter
  <1>16. ASSUME NEW result \in Rendered, RenderAndPublish(result) PROVE BarredInv'
    BY <1>16 DEF RenderAndPublish, Rendered, AirAfter, Published
  <1>17. ASSUME NEW result \in Rendered, RenderAfterFault(result) PROVE BarredInv'
    BY <1>17 DEF RenderAfterFault, Rendered, AirAfter
  <1>18. CASE PublishReady BY <1>18 DEF PublishReady
  <1>19. CASE RenderFails
    <2>1. CASE path = "native" BY <1>19, <2>1 DEF RenderFails
    <2>0. tx.failed => ~outputs.ptt
      OBVIOUS
    <2>2. CASE path # "native"
      <3>1. CASE tx.failed BY <1>19, <2>0, <2>2, <3>1 DEF RenderFails
      <3>2. CASE ~tx.failed BY <1>19, <2>2, <3>2 DEF RenderFails
      <3> QED
        BY <3>1, <3>2
    <2> QED
      BY <2>1, <2>2
  <1>20. CASE TakeTone BY <1>20 DEF TakeTone
  <1>21. CASE ControllerReceives BY <1>21 DEF ControllerReceives
  <1>22. CASE ControllerRefuses BY <1>22 DEF ControllerRefuses
  <1>23. CASE RestoreTone BY <1>23 DEF RestoreTone, Restored
  <1>24. CASE UNCHANGED callbackVars BY <1>24 DEF callbackVars
  <1> QED
    BY <1>1, <1>2, <1>3, <1>4, <1>5, <1>6, <1>7, <1>8, <1>9, <1>10, <1>11,
       <1>12, <1>13, <1>14, <1>15, <1>16, <1>17, <1>18, <1>19, <1>20,
       <1>21, <1>22, <1>23, <1>24 DEF CallbackNext

(* No step revives a transmission that inhibition cut off.                 *)
LEMMA CutStep == CallbackInv /\ [CallbackNext]_callbackVars => CutInv'
  <1> SUFFICES ASSUME CallbackInv, [CallbackNext]_callbackVars PROVE CutInv'
    OBVIOUS
  <1> USE DEF CallbackInv, ContextsOK, BarredInv, CutInv, FaultInv,
            TransmitPermitted, Outputs, TxContext, RxContext, TxPoints,
            RxPoints, Notices, Paths, Policies, TxStep, RxStep, TransmitEnds,
            FaultOutputs, NoOutput, IdleRx, words
  <1>1. CASE PublishRequests BY <1>1 DEF PublishRequests
  <1>2. CASE PublishTune BY <1>2 DEF PublishTune
  <1>3. ASSUME NEW p \in Policies, PublishPolicy(p) PROVE CutInv'
    BY <1>3 DEF PublishPolicy
  <1>4. CASE StreamStarts BY <1>4 DEF StreamStarts
  <1>5. CASE StreamStops BY <1>5 DEF StreamStops
  <1>6. CASE RefuseBlock
    <2>1. CASE path = "native"
      <3>1. ~outputs'.ptt
        BY <1>6, <2>1 DEF RefuseBlock
      <3> QED
        BY <1>6, <2>1, <3>1 DEF RefuseBlock
    <2>2. CASE path # "native" BY <1>6, <2>2 DEF RefuseBlock
    <2> QED
      BY <2>1, <2>2
  <1>7. CASE LoadRequests BY <1>7 DEF LoadRequests
  <1>8. CASE LoadTune BY <1>8 DEF LoadTune
  <1>9. ASSUME NEW key \in BOOLEAN, CallController(key) PROVE CutInv'
    BY <1>9 DEF CallController
  <1>10. CASE ControllerFails BY <1>10 DEF ControllerFails
  <1>11. CASE FaultReady BY <1>11 DEF FaultReady
  <1>12. CASE FaultIntent BY <1>12 DEF FaultIntent
  <1>13. CASE StageDirect BY <1>13 DEF StageDirect
  <1>14. CASE PublishIntent BY <1>14 DEF PublishIntent
  <1>15. CASE Admit BY <1>15 DEF Admit, BurstAfter
  <1>16. ASSUME NEW result \in Rendered, RenderAndPublish(result) PROVE CutInv'
    BY <1>16 DEF RenderAndPublish, Rendered, AirAfter, Published
  <1>17. ASSUME NEW result \in Rendered, RenderAfterFault(result) PROVE CutInv'
    BY <1>17 DEF RenderAfterFault, Rendered, AirAfter
  <1>18. CASE PublishReady BY <1>18 DEF PublishReady
  <1>19. CASE RenderFails
    <2>1. CASE path = "native"
      <3>1. ~outputs'.ptt
        BY <1>19, <2>1 DEF RenderFails
      <3> QED
        BY <1>19, <2>1, <3>1 DEF RenderFails
    <2>2. CASE path # "native" BY <1>19, <2>2 DEF RenderFails
    <2> QED
      BY <2>1, <2>2
  <1>20. CASE TakeTone BY <1>20 DEF TakeTone
  <1>21. CASE ControllerReceives BY <1>21 DEF ControllerReceives
  <1>22. CASE ControllerRefuses BY <1>22 DEF ControllerRefuses
  <1>23. CASE RestoreTone BY <1>23 DEF RestoreTone, Restored
  <1>24. CASE UNCHANGED callbackVars BY <1>24 DEF callbackVars
  <1> QED
    BY <1>1, <1>2, <1>3, <1>4, <1>5, <1>6, <1>7, <1>8, <1>9, <1>10, <1>11,
       <1>12, <1>13, <1>14, <1>15, <1>16, <1>17, <1>18, <1>19, <1>20,
       <1>21, <1>22, <1>23, <1>24 DEF CallbackNext

(* What the fault path withdrew stays withdrawn until a callback succeeds. *)
LEMMA FaultStep == CallbackInv /\ [CallbackNext]_callbackVars => FaultInv'
  <1> SUFFICES ASSUME CallbackInv, [CallbackNext]_callbackVars PROVE FaultInv'
    OBVIOUS
  <1> USE DEF CallbackInv, ContextsOK, FaultInv, NoticeInv, Outputs,
            TxContext, RxContext, TxPoints, RxPoints, Notices, Paths,
            Policies, TxStep, RxStep, TransmitEnds, FaultOutputs, NoOutput,
            IdleRx, words
  <1>1. CASE PublishRequests BY <1>1 DEF PublishRequests
  <1>2. CASE PublishTune BY <1>2 DEF PublishTune
  <1>3. ASSUME NEW p \in Policies, PublishPolicy(p) PROVE FaultInv'
    BY <1>3 DEF PublishPolicy
  <1>4. CASE StreamStarts BY <1>4 DEF StreamStarts
  <1>5. CASE StreamStops BY <1>5 DEF StreamStops
  <1>6. CASE RefuseBlock BY <1>6 DEF RefuseBlock
  <1>7. CASE LoadRequests BY <1>7 DEF LoadRequests
  <1>8. CASE LoadTune BY <1>8 DEF LoadTune
  <1>9. ASSUME NEW key \in BOOLEAN, CallController(key) PROVE FaultInv'
    BY <1>9 DEF CallController
  <1>10. CASE ControllerFails BY <1>10 DEF ControllerFails
  <1>11. CASE FaultReady BY <1>11 DEF FaultReady
  <1>12. CASE FaultIntent BY <1>12 DEF FaultIntent
  <1>13. CASE StageDirect BY <1>13 DEF StageDirect
  <1>14. CASE PublishIntent BY <1>14 DEF PublishIntent
  <1>15. CASE Admit BY <1>15 DEF Admit, BurstAfter
  <1>16. ASSUME NEW result \in Rendered, RenderAndPublish(result) PROVE FaultInv'
    BY <1>16 DEF RenderAndPublish, Rendered, AirAfter, Published
  <1>17. ASSUME NEW result \in Rendered, RenderAfterFault(result) PROVE FaultInv'
    BY <1>17 DEF RenderAfterFault, Rendered, AirAfter
  <1>18. CASE PublishReady BY <1>18 DEF PublishReady
  <1>19. CASE RenderFails BY <1>19 DEF RenderFails
  <1>20. CASE TakeTone BY <1>20 DEF TakeTone
  <1>21. CASE ControllerReceives BY <1>21 DEF ControllerReceives
  <1>22. CASE ControllerRefuses BY <1>22 DEF ControllerRefuses
  <1>23. CASE RestoreTone BY <1>23 DEF RestoreTone, Restored
  <1>24. CASE UNCHANGED callbackVars BY <1>24 DEF callbackVars
  <1> QED
    BY <1>1, <1>2, <1>3, <1>4, <1>5, <1>6, <1>7, <1>8, <1>9, <1>10, <1>11,
       <1>12, <1>13, <1>14, <1>15, <1>16, <1>17, <1>18, <1>19, <1>20,
       <1>21, <1>22, <1>23, <1>24 DEF CallbackNext

(* A notice is never lost between the word and the receive callback.       *)
LEMMA NoticeStep == CallbackInv /\ [CallbackNext]_callbackVars => NoticeInv'
  <1> SUFFICES ASSUME CallbackInv, [CallbackNext]_callbackVars PROVE NoticeInv'
    OBVIOUS
  <1> USE TonesAssumption DEF CallbackInv, ContextsOK, FaultInv, NoticeInv,
            ToneNoticeKept, Outputs, TxContext, RxContext, TxPoints, RxPoints,
            Notices, Paths, Policies, TxStep, RxStep, TransmitEnds,
            FaultOutputs, NoOutput, IdleRx, words
  <1>1. CASE PublishRequests BY <1>1 DEF PublishRequests
  <1>2. CASE PublishTune BY <1>2 DEF PublishTune
  <1>3. ASSUME NEW p \in Policies, PublishPolicy(p) PROVE NoticeInv'
    BY <1>3 DEF PublishPolicy
  <1>4. CASE StreamStarts BY <1>4 DEF StreamStarts
  <1>5. CASE StreamStops BY <1>5 DEF StreamStops
  <1>6. CASE RefuseBlock BY <1>6 DEF RefuseBlock
  <1>7. CASE LoadRequests BY <1>7 DEF LoadRequests
  <1>8. CASE LoadTune BY <1>8 DEF LoadTune
  <1>9. ASSUME NEW key \in BOOLEAN, CallController(key) PROVE NoticeInv'
    BY <1>9 DEF CallController
  <1>10. CASE ControllerFails BY <1>10 DEF ControllerFails
  <1>11. CASE FaultReady BY <1>11 DEF FaultReady
  <1>12. CASE FaultIntent BY <1>12 DEF FaultIntent
  <1>13. CASE StageDirect BY <1>13 DEF StageDirect
  <1>14. CASE PublishIntent BY <1>14 DEF PublishIntent
  <1>15. CASE Admit BY <1>15 DEF Admit, BurstAfter
  <1>16. ASSUME NEW result \in Rendered, RenderAndPublish(result) PROVE NoticeInv'
    BY <1>16 DEF RenderAndPublish, Rendered, AirAfter, Published
  <1>17. ASSUME NEW result \in Rendered, RenderAfterFault(result) PROVE NoticeInv'
    BY <1>17 DEF RenderAfterFault, Rendered, AirAfter
  <1>18. CASE PublishReady BY <1>18 DEF PublishReady
  <1>19. CASE RenderFails BY <1>19 DEF RenderFails
  <1>20. CASE TakeTone BY <1>20 DEF TakeTone
  <1>21. CASE ControllerReceives BY <1>21 DEF ControllerReceives
  <1>22. CASE ControllerRefuses BY <1>22 DEF ControllerRefuses
  <1>23. CASE RestoreTone BY <1>23 DEF RestoreTone, Restored
  <1>24. CASE UNCHANGED callbackVars BY <1>24 DEF callbackVars
  <1> QED
    BY <1>1, <1>2, <1>3, <1>4, <1>5, <1>6, <1>7, <1>8, <1>9, <1>10, <1>11,
       <1>12, <1>13, <1>14, <1>15, <1>16, <1>17, <1>18, <1>19, <1>20,
       <1>21, <1>22, <1>23, <1>24 DEF CallbackNext

(* The invariant holds throughout.                                         *)
THEOREM CallbackInvariant == CallbackSpec => []CallbackInv
  <1>1. CallbackInit => CallbackInv
    BY CallbackInitInv
  <1>2. CallbackInv /\ [CallbackNext]_callbackVars => CallbackInv'
    BY ContextsStep, BarredStep, CutStep, FaultStep, NoticeStep DEF CallbackInv
  <1> QED
    BY <1>1, <1>2, PTL DEF CallbackSpec

(* Every shared word and both callbacks' contexts keep their types.        *)
THEOREM CallbackTypes == CallbackSpec => []CallbackTypeOK
  <1>1. CallbackInv => CallbackTypeOK
    BY DEF CallbackInv, ContextsOK, CallbackTypeOK, Outputs, TxContext, RxContext,
           Notices
  <1> QED
    BY <1>1, CallbackInvariant, PTL

(* For every set of tones: a station inhibited for a whole transmit        *)
(* callback, or whose controller failed in one, is off the air, and a      *)
(* transmission withdrawn under inhibition is not resumed by the tail the  *)
(* radio still holds.                                                      *)
THEOREM TransmitterAlwaysObeys == CallbackSpec => []TransmitterObeys
  <1>1. CallbackInv => TransmitterObeys
    BY DEF CallbackInv, BarredInv, CutInv, FaultInv, TransmitterObeys,
           InhibitionHolds, FaultReleases
  <1> QED
    BY <1>1, CallbackInvariant, PTL

(* For every set of tones: the notice of a selected tone is never lost on  *)
(* the ring path, however refusals and further selections interleave.      *)
THEOREM ToneNoticeNeverLost == CallbackSpec => []ToneNoticeKept
  <1>1. CallbackInv => ToneNoticeKept
    BY DEF CallbackInv, NoticeInv
  <1> QED
    BY <1>1, CallbackInvariant, PTL

-----------------------------------------------------------------------------
(***************************************************************************)
(* The native station.                                                     *)
(***************************************************************************)
\* What each owner may hold.
LevelMaps == [Mixers -> Levels]
Squelches == {r.squelch : r \in Requests}
Tunings == [level : LevelMaps, squelch : Squelches]

StationOwners == [made : BOOLEAN, running : BOOLEAN,
                  service : {"stopped", "running", "retired", "unsafe"},
                  eeprom : BOOLEAN, abandoned : BOOLEAN]

Updates == [to : Plans, file : Plans, gains : [Mixers -> Gains \union {Unset}],
            changed : SUBSET Mixers]

Answers == {"none", "pending", "adopted", "refused"}

\* The types of everything; the configuration of a station exists while it is made.
NativeTyped ==
    /\ owner \in StationOwners
    /\ txn \in [open : BOOLEAN, to : Plans \union {Nil}, from : Plans \union {Nil},
                reversing : BOOLEAN, answer : Answers]
    /\ txn.open => txn.to \in Plans /\ txn.from \in Plans
    /\ owner.made => plan \in Plans /\ settings \in Files
                     /\ setup \in [gains : [Mixers -> Levels \union {Unset}],
                                   tuning : Tunings \union {Blank}]
    /\ begun \in Files \union {Nil}
    /\ token \in Updates \union {Nil}
    /\ mixers \in LevelMaps \union {Closed}
    /\ retained \in LevelMaps \union {Closed}
    /\ image \in Tunings \union {Blank}
    /\ line \in LevelMaps
    /\ meant \in [now : LevelMaps, before : LevelMaps]
    /\ doubt \in [now : SUBSET Mixers, before : SUBSET Mixers]

\* A document and the gains it was resolved from.
Resolved(s) ==
    /\ s.gains = s.file.of.gain
    /\ \A m \in Mixers : s.file.gain[m] = ResolvedGain(s.gains[m])

\* Which request the plan, the file, the open transaction, the pending update and the
\* update not yet begun belong to; an update not begun moves no gain it does not list.
ConfigurationInv ==
    /\ owner.running => owner.made
    /\ ~owner.made => begun = Nil /\ token = Nil
    /\ owner.made => Resolved(settings)
    /\ begun = Nil => ~txn.open /\ retained = Closed
    /\ owner.made /\ ~txn.open => plan.of = settings.file.of
    /\ begun # Nil => token = Nil /\ Resolved(begun)
    /\ txn.open => txn.from.of = settings.file.of /\ txn.to.of = begun.file.of
    /\ txn.answer # "none" => txn.open
    /\ token # Nil =>
          /\ token.to.of = token.file.of
          /\ Resolved(token)
          /\ \A m \in Mixers : m \notin token.changed => token.to.gain[m] = plan.gain[m]

\* Levels known to be as the calls so far meant them.
Agree(levels, intended, doubtful) == \A m \in Mixers \ doubtful : levels[m] = intended[m]

\* The line and the open mixers stand where the calls so far put them, the retained
\* levels where those before the update did; with none retained there is nothing to undo.
MixerInv ==
    /\ Agree(line, meant.now, doubt.now)
    /\ mixers # Closed => Agree(mixers, meant.now, doubt.now)
    /\ retained # Closed => Agree(retained, meant.before, doubt.before)
    /\ begun # Nil /\ retained = Closed =>
          meant.before = meant.now /\ doubt.before = doubt.now

NativeInv == NativeTyped /\ ConfigurationInv /\ MixerInv

-----------------------------------------------------------------------------
(* Mixer levels and configurations.                                        *)

\* Mixers that are closed have no levels.
LEMMA ClosedIsNoMap == Closed \notin LevelMaps
<1>1. 1 \in Mixers
  BY NativeConstants DEF Mixers
<1>2. SUFFICES ASSUME Closed \in LevelMaps
               PROVE  FALSE
  OBVIOUS
<1>3. DOMAIN Closed = Mixers
  BY <1>2 DEF LevelMaps
<1>4. DOMAIN Closed = {}
  BY DEF Closed
<1> QED
  BY <1>1, <1>3, <1>4

\* What a write leaves: mixers outside the target as they were, and the others at
\* their target when it succeeded.
Written(target, levels, w) ==
    /\ w.line \in LevelMaps /\ w.levels \in LevelMaps
    /\ w.ok \in BOOLEAN
    /\ \A m \in Mixers \ DOMAIN target : w.line[m] = line[m] /\ w.levels[m] = levels[m]
    /\ w.ok => \A m \in DOMAIN target : w.line[m] = target[m] /\ w.levels[m] = target[m]

\* A function on mixers that names levels.
Target(target) == DOMAIN target \subseteq Mixers /\ \A m \in DOMAIN target : target[m] \in Levels

\* What a write of mixers leaves, whether it succeeds or fails half way.
LEMMA WriteFacts ==
    ASSUME line \in LevelMaps, NEW levels \in LevelMaps, NEW target, Target(target),
           NEW w \in Writes(target, levels)
    PROVE  Written(target, levels, w)
<1> DEFINE Upto(now, n) ==
        [m \in Mixers |-> IF m \in DOMAIN target /\ m <= n THEN target[m] ELSE now[m]]
<1>1. ASSUME NEW now \in LevelMaps, NEW n
      PROVE  /\ Upto(now, n) \in LevelMaps
             /\ \A m \in Mixers \ DOMAIN target : Upto(now, n)[m] = now[m]
  BY DEF Target, LevelMaps
<1>2. ASSUME NEW now \in LevelMaps, NEW m \in DOMAIN target
      PROVE  Upto(now, MixerCount)[m] = target[m]
  BY NativeConstants DEF Target, Mixers
<1>3. \/ w = [line |-> Upto(line, MixerCount), levels |-> Upto(levels, MixerCount), ok |-> TRUE]
      \/ \E m \in DOMAIN target : \E n \in {m - 1, m} :
            w = [line |-> Upto(line, n), levels |-> Upto(levels, m - 1), ok |-> FALSE]
  BY DEF Writes
<1> HIDE DEF Upto
<1>4. ASSUME NEW a, NEW b, NEW ok \in BOOLEAN, NEW x, x = [line |-> a, levels |-> b, ok |-> ok]
      PROVE  x.line = a /\ x.levels = b /\ x.ok \in BOOLEAN /\ (x.ok <=> ok)
  BY <1>4
<1>5. CASE w = [line |-> Upto(line, MixerCount), levels |-> Upto(levels, MixerCount), ok |-> TRUE]
  <2>1. w.line = Upto(line, MixerCount) /\ w.levels = Upto(levels, MixerCount) /\ w.ok \in BOOLEAN
    BY <1>4, <1>5, TRUE \in BOOLEAN, Zenon
  <2> QED
    BY <1>1, <1>2, <2>1 DEF Written
<1>6. CASE \E m \in DOMAIN target : \E n \in {m - 1, m} :
            w = [line |-> Upto(line, n), levels |-> Upto(levels, m - 1), ok |-> FALSE]
  <2>1. PICK i, j : w = [line |-> Upto(line, i), levels |-> Upto(levels, j), ok |-> FALSE]
    BY <1>6, Zenon
  <2>2. w.line = Upto(line, i) /\ w.levels = Upto(levels, j) /\ w.ok \in BOOLEAN /\ ~w.ok
    BY <1>4, <2>1, FALSE \in BOOLEAN, Zenon
  <2> QED
    BY <1>1, <2>2 DEF Written
<1> QED
  BY <1>3, <1>5, <1>6

\* Opening the mixers gives their levels.
LEMMA OpenedFacts ==
    ASSUME NativeTyped
    PROVE  Opened \in LevelMaps
  BY DEF NativeTyped, Opened

\* The gains a request can ask for, and the two special ones, are levels.
LEMMA GainFacts == Gains \subseteq Levels /\ DefaultGain \in Levels /\ LowestGain \in Levels
  BY NativeConstants DEF Gains

\* resolve_request gives a configuration, and the gains it came from.
LEMMA ResolveFacts ==
    ASSUME NEW r \in Requests
    PROVE  /\ r.gain \in [Mixers -> Gains \union {Unset}]
           /\ r.eeprom \in BOOLEAN
           /\ Resolve(r) \in Plans
           /\ Resolve(r).of = r
           /\ \A m \in Mixers : Resolve(r).gain[m] = ResolvedGain(r.gain[m])
<1>1. r.gain \in [Mixers -> Gains \union {Unset}] /\ r.eeprom \in BOOLEAN
  BY NativeConstants
<1>2. \A m \in Mixers : ResolvedGain(r.gain[m]) \in Levels
  BY <1>1, GainFacts DEF ResolvedGain
<1> QED
  BY <1>1, <1>2 DEF Resolve, Plans

\* EepromTuning::apply_to keeps the request.
LEMMA TuningFacts ==
    ASSUME NEW conf \in Plans, NEW t \in Tunings \union {Blank}
    PROVE  ApplyTuning(conf, t) \in Plans /\ ApplyTuning(conf, t).of = conf.of
<1>1. CASE t = Blank
  BY <1>1 DEF ApplyTuning
<1>2. CASE t # Blank
  <2>1. t \in Tunings
    BY <1>2
  <2>2. \A m \in Mixers : Decibels(t.level[m]) \in Levels
    BY <2>1, GainFacts DEF Decibels, Tunings, LevelMaps
  <2>3. ApplyTuning(conf, t) =
          [conf EXCEPT !.gain = [m \in Mixers |-> Decibels(t.level[m])], !.squelch = t.squelch]
    BY <1>2 DEF ApplyTuning
  <2> DEFINE g == [m \in Mixers |-> Decibels(t.level[m])]
  <2>4. g \in [Mixers -> Levels]
    BY <2>2
  <2>5. t.squelch \in {r.squelch : r \in Requests}
    BY <2>1 DEF Tunings, Squelches
  <2> HIDE DEF g
  <2>6. [conf EXCEPT !.gain = g, !.squelch = t.squelch] \in Plans
    BY <2>4, <2>5 DEF Plans
  <2>7. [conf EXCEPT !.gain = g, !.squelch = t.squelch].of = conf.of
    BY DEF Plans
  <2> QED
    BY <2>3, <2>6, <2>7 DEF g
<1> QED
  BY <1>1, <1>2

\* preserve_startup_tuning keeps what the operator did not change, and the request.
LEMMA PreserveFacts ==
    ASSUME NEW previous \in Plans, NEW current \in Plans, NEW asked \in Plans
    PROVE  /\ Preserve(previous, current, asked) \in Plans
           /\ Preserve(previous, current, asked).of = asked.of
           /\ \A m \in Mixers : asked.gain[m] = previous.gain[m] =>
                 Preserve(previous, current, asked).gain[m] = current.gain[m]
<1> DEFINE g == [m \in Mixers |-> IF asked.gain[m] = previous.gain[m]
                                  THEN current.gain[m] ELSE asked.gain[m]]
           q == IF asked.squelch = previous.squelch THEN current.squelch ELSE asked.squelch
<1>1. g \in [Mixers -> Levels] /\ q \in {r.squelch : r \in Requests}
  BY DEF Plans
<1>2. Preserve(previous, current, asked) = [asked EXCEPT !.gain = g, !.squelch = q]
  BY DEF Preserve
<1>3. \A m \in Mixers : asked.gain[m] = previous.gain[m] => g[m] = current.gain[m]
  OBVIOUS
<1> HIDE DEF g, q
<1>4. /\ [asked EXCEPT !.gain = g, !.squelch = q] \in Plans
      /\ [asked EXCEPT !.gain = g, !.squelch = q].of = asked.of
      /\ [asked EXCEPT !.gain = g, !.squelch = q].gain = g
  BY <1>1 DEF Plans
<1> QED
  BY <1>2, <1>3, <1>4

-----------------------------------------------------------------------------
(* Creation, destruction and start.                                        *)

\* Steps of the configurations only: no level moves, no update begins.
LEMMA MixersLeft ==
    ASSUME MixerInv, UNCHANGED <<mixers, retained, line, meant, doubt>>,
           begun' # Nil => begun # Nil
    PROVE  MixerInv'
  BY DEF MixerInv, Agree

\* Steps of the mixers only.
LEMMA ConfigurationsLeft ==
    ASSUME ConfigurationInv, UNCHANGED <<plan, settings, begun, token, txn, retained>>,
           owner'.made <=> owner.made, owner'.running => owner'.made
    PROVE  ConfigurationInv'
  BY DEF ConfigurationInv, Resolved

\* A station is created with one request in its plan and its settings, and nothing open.
LEMMA CreateKeeps ==
    ASSUME NativeInv, NEW r \in Requests, Create(r)
    PROVE  NativeInv'
<1> USE DEF NativeInv
<1>1. /\ ~owner.made
      /\ settings' = [file |-> Resolve(r), gains |-> r.gain]
      /\ mixers' = Closed /\ retained' = Closed
      /\ UNCHANGED <<begun, token, txn, image, line, meant, doubt>>
  BY Zenon DEF Create
<1>2. ~owner.running /\ begun = Nil /\ token = Nil /\ ~txn.open
  BY <1>1 DEF ConfigurationInv, NativeTyped, StationOwners
<1>3. PICK t \in Readings(r) :
        /\ plan' = ApplyTuning(Resolve(r), t)
        /\ setup' = [gains |-> r.gain, tuning |-> t]
  BY Zenon DEF Create
<1>4. t \in Tunings \union {Blank}
  BY <1>3, Zenon DEF Readings, NativeTyped
<1>5. /\ Resolve(r) \in Plans /\ Resolve(r).of = r
      /\ r.gain \in [Mixers -> Gains \union {Unset}]
      /\ \A m \in Mixers : Resolve(r).gain[m] = ResolvedGain(r.gain[m])
  BY ResolveFacts
<1>6. plan' \in Plans /\ plan'.of = r
  BY <1>3, <1>4, <1>5, TuningFacts
<1>7. setup' \in [gains : [Mixers -> Levels \union {Unset}], tuning : Tunings \union {Blank}]
  BY <1>3, <1>4, <1>5, GainFacts
<1>8. settings' \in Files
  BY <1>1, <1>5 DEF Files
<1>9. owner' \in StationOwners /\ owner'.made /\ (owner'.running <=> owner.running)
  <2>1. ASSUME NEW yes \in BOOLEAN, yes, NEW e \in BOOLEAN,
               owner' = [owner EXCEPT !.made = yes, !.eeprom = e]
        PROVE  owner' \in StationOwners /\ owner'.made /\ (owner'.running <=> owner.running)
    BY <2>1 DEF NativeTyped, StationOwners
  <2> QED
    BY <2>1, TRUE \in BOOLEAN, ResolveFacts, Zenon DEF Create
<1>10. NativeTyped'
  BY <1>1, <1>2, <1>6, <1>7, <1>8, <1>9 DEF NativeTyped
<1>11. Resolved(settings)'
  BY <1>1, <1>5 DEF Resolved
<1>12. ConfigurationInv'
  BY <1>1, <1>2, <1>5, <1>6, <1>9, <1>11 DEF ConfigurationInv
<1>13. MixerInv'
  BY <1>1, <1>2 DEF MixerInv, Agree
<1> QED
  BY <1>10, <1>12, <1>13

\* A stopped station that is destroyed takes its plan, its settings and its token with it.
LEMMA DestroyKeeps ==
    ASSUME NativeInv, Destroy
    PROVE  NativeInv'
<1> USE DEF NativeInv
<1>1. /\ owner.made /\ ~owner.running /\ begun = Nil
      /\ token' = Nil /\ mixers' = Closed
      /\ UNCHANGED <<begun, txn, retained, image, line, meant, doubt>>
  BY DEF Destroy, history
<1>2. owner' \in StationOwners /\ ~owner'.made /\ ~owner'.running
  <2>1. ASSUME NEW no \in BOOLEAN, ~no, owner' = [owner EXCEPT !.made = no]
        PROVE  owner' \in StationOwners /\ ~owner'.made /\ ~owner'.running
    BY <1>1, <2>1 DEF NativeTyped, StationOwners
  <2> QED
    BY <2>1, FALSE \in BOOLEAN, Zenon DEF Destroy
<1>3. NativeTyped'
  BY <1>1, <1>2 DEF NativeTyped
<1>4. ConfigurationInv'
  BY <1>1, <1>2 DEF ConfigurationInv
<1>5. MixerInv'
  BY <1>1 DEF MixerInv, Agree
<1> QED
  BY <1>3, <1>4, <1>5

\* The gains a start applies are levels of mixers.
LEMMA StartTargetFacts ==
    ASSUME NativeTyped, owner.made
    PROVE  Target(StartTargets)
<1>1. setup \in [gains : [Mixers -> Levels \union {Unset}], tuning : Tunings \union {Blank}]
  BY DEF NativeTyped
<1>2. CASE setup.tuning # Blank
  <2>1. StartTargets = setup.tuning.level /\ setup.tuning \in Tunings
    BY <1>1, <1>2 DEF StartTargets
  <2> QED
    BY <2>1 DEF Target, Tunings, LevelMaps
<1>3. CASE setup.tuning = Blank
  <2>1. StartTargets = [m \in {m \in Mixers : setup.gains[m] # Unset} |-> setup.gains[m]]
    BY <1>3 DEF StartTargets, Restrict
  <2> QED
    BY <1>1, <2>1 DEF Target
<1> QED
  BY <1>2, <1>3

\* A call's targets, put over what was meant before.
LEMMA Overlaid ==
    ASSUME NEW target, Target(target), NEW now \in LevelMaps
    PROVE  /\ Overlay(target, now) \in LevelMaps
           /\ \A m \in DOMAIN target : Overlay(target, now)[m] = target[m]
           /\ \A m \in Mixers \ DOMAIN target : Overlay(target, now)[m] = now[m]
  BY DEF Target, LevelMaps, Overlay

\* The levels and doubts of the history are those of mixers.
HistoryTyped ==
    /\ meant \in [now : LevelMaps, before : LevelMaps]
    /\ doubt \in [now : SUBSET Mixers, before : SUBSET Mixers]

\* A call outside an update, or one whose update has no levels to restore, changes both
\* histories; else only what is meant now.
LEMMA OutlastingFacts ==
    ASSUME NativeTyped, MixerInv, NEW to \in LevelMaps, NEW lost \in SUBSET Mixers,
           line' \in LevelMaps, Agree(line', to, lost),
           mixers' # Closed => Agree(mixers', to, lost),
           meant' = [now |-> to, before |-> Outlasting(to, meant.before)],
           doubt' = [now |-> lost, before |-> Outlasting(lost, doubt.before)],
           UNCHANGED <<begun, retained>>
    PROVE  MixerInv' /\ HistoryTyped'
<1>1. HistoryTyped
  BY DEF NativeTyped, HistoryTyped
<1>2. meant'.now = to /\ doubt'.now = lost
  OBVIOUS
<1>3. CASE retained = Closed
  <2>1. meant'.before = to /\ doubt'.before = lost
    BY <1>3 DEF Outlasting
  <2> QED
    BY <1>1, <1>2, <1>3, <2>1 DEF MixerInv, HistoryTyped, Outlasting
<1>4. CASE retained # Closed
  <2>1. meant'.before = meant.before /\ doubt'.before = doubt.before
    BY <1>4 DEF Outlasting
  <2>2. HistoryTyped'
    BY <1>1, <1>4 DEF Outlasting, HistoryTyped
  <2> QED
    BY <1>2, <1>4, <2>1, <2>2 DEF MixerInv
<1> QED
  BY <1>3, <1>4

\* The gains a start has written are what the operator means now.
LEMMA StartMoves ==
    ASSUME NativeInv, owner.made, GainsApplied, UNCHANGED <<begun, retained>>,
           NEW w \in StartWrites, w.ok, line' = w.line
    PROVE  MixerInv' /\ HistoryTyped' /\ line' \in LevelMaps
           /\ mixers' \in LevelMaps \union {Closed}
<1> USE DEF NativeInv
<1>1. CASE ~AppliesGains
  <2>1. UNCHANGED <<line, mixers, meant, doubt>>
    BY <1>1 DEF StartWrites, GainsApplied
  <2> QED
    BY <2>1, MixersLeft DEF NativeTyped, HistoryTyped
<1>2. CASE AppliesGains
  <2> DEFINE to == Overlay(StartTargets, meant.now)
             lost == doubt.now \ DOMAIN StartTargets
  <2>1. Target(StartTargets)
    BY StartTargetFacts
  <2>2. line \in LevelMaps /\ meant.now \in LevelMaps /\ doubt.now \in SUBSET Mixers
    BY DEF NativeTyped
  <2>3. Written(StartTargets, line, w)
    BY <1>2, <2>1, <2>2, WriteFacts DEF StartWrites
  <2>4. /\ to \in LevelMaps
        /\ \A m \in DOMAIN StartTargets : to[m] = StartTargets[m]
        /\ \A m \in Mixers \ DOMAIN StartTargets : to[m] = meant.now[m]
    BY <2>1, <2>2, Overlaid
  <2>5. /\ mixers' = Closed
        /\ meant' = [now |-> to, before |-> Outlasting(to, meant.before)]
        /\ doubt' = [now |-> lost, before |-> Outlasting(lost, doubt.before)]
    BY <1>2, Zenon DEF GainsApplied
  <2>6. Agree(line, meant.now, doubt.now)
    BY DEF MixerInv
  <2> HIDE DEF to
  <2>7. Agree(line', to, lost)
    BY <2>1, <2>3, <2>4, <2>6 DEF Agree, Written, Target
  <2>8. lost \in SUBSET Mixers /\ line' \in LevelMaps
    BY <2>2, <2>3 DEF Written
  <2> HIDE DEF lost
  <2>9. MixerInv' /\ HistoryTyped'
    BY <2>4, <2>5, <2>7, <2>8, OutlastingFacts
  <2> QED
    BY <2>5, <2>8, <2>9
<1> QED
  BY <1>1, <1>2

\* An owner record whose running flag or service has changed.
LEMMA OwnerChanged ==
    ASSUME NativeTyped, NEW up \in BOOLEAN, NEW s \in {"stopped", "running", "retired", "unsafe"},
           owner' = [owner EXCEPT !.running = up, !.service = s]
    PROVE  owner' \in StationOwners /\ (owner'.made <=> owner.made) /\ (owner'.running <=> up)
  BY DEF NativeTyped, StationOwners

\* A start writes its gains, or none where the callbacks never stopped.
LEMMA StartKeeps ==
    ASSUME NativeInv, Start
    PROVE  NativeInv'
<1> USE DEF NativeInv
<1>1. /\ owner.made /\ GainsApplied
      /\ UNCHANGED <<plan, settings, begun, token, txn, setup, retained, image>>
  BY Zenon DEF Start, StartCall
<1>2. PICK w \in StartWrites : w.ok /\ line' = w.line
  BY DEF Start
<1>3. /\ MixerInv' /\ HistoryTyped' /\ line' \in LevelMaps
      /\ mixers' \in LevelMaps \union {Closed}
  BY <1>1, <1>2, StartMoves
<1>4. owner' \in StationOwners /\ owner'.made
  BY <1>1, OwnerChanged, TRUE \in BOOLEAN, Zenon DEF Start
<1>5. NativeTyped'
  BY <1>1, <1>3, <1>4 DEF NativeTyped, HistoryTyped
<1>6. ConfigurationInv'
  BY <1>1, <1>4, ConfigurationsLeft
<1> QED
  BY <1>3, <1>5, <1>6

\* A start that fails after its gains has written them all the same.
LEMMA StartFailsKeeps ==
    ASSUME NativeInv, StartFails
    PROVE  NativeInv'
<1> USE DEF NativeInv
<1>1. /\ owner.made /\ GainsApplied
      /\ UNCHANGED <<plan, settings, begun, token, txn, setup, retained, image>>
  BY Zenon DEF StartFails, StartCall
<1>2. PICK w \in StartWrites : w.ok /\ line' = w.line
  BY DEF StartFails
<1>3. /\ MixerInv' /\ HistoryTyped' /\ line' \in LevelMaps
      /\ mixers' \in LevelMaps \union {Closed}
  BY <1>1, <1>2, StartMoves
<1>4. owner' \in StationOwners /\ owner'.made
  <2>1. PICK s \in {"stopped", "unsafe"} : owner' = [owner EXCEPT !.service = s]
    BY Zenon DEF StartFails
  <2> QED
    BY <1>1, <2>1 DEF NativeTyped, StationOwners
<1>5. NativeTyped'
  BY <1>1, <1>3, <1>4 DEF NativeTyped, HistoryTyped
<1>6. ConfigurationInv'
  BY <1>1, <1>4, ConfigurationsLeft
<1> QED
  BY <1>3, <1>5, <1>6

\* A start whose gains fail leaves the mixers it meant to write in doubt.
LEMMA StartGainsFailKeeps ==
    ASSUME NativeInv, StartGainsFail
    PROVE  NativeInv'
<1> USE DEF NativeInv
<1> DEFINE lost == doubt.now \union DOMAIN StartTargets
<1>1. /\ owner.made
      /\ doubt' = [now |-> lost, before |-> Outlasting(lost, doubt.before)]
      /\ UNCHANGED <<owner, plan, settings, begun, token, txn, setup, mixers, retained, image,
                     meant>>
  BY Zenon DEF StartGainsFail, StartCall, station
<1>2. PICK w \in StartWrites : ~w.ok /\ line' = w.line
  BY DEF StartGainsFail
<1>3. Target(StartTargets)
  BY <1>1, StartTargetFacts
<1>4. w \in Writes(StartTargets, line)
  BY <1>2 DEF StartWrites
<1>5. line \in LevelMaps /\ doubt \in [now : SUBSET Mixers, before : SUBSET Mixers]
  BY DEF NativeTyped
<1>6. Written(StartTargets, line, w)
  BY <1>3, <1>4, <1>5, WriteFacts
<1>7. lost \in SUBSET Mixers /\ doubt.now \subseteq lost
  BY <1>3, <1>5 DEF Target
<1>8. \A m \in Mixers \ lost : line'[m] = line[m]
  BY <1>2, <1>6 DEF Written
<1>9. line' \in LevelMaps
  BY <1>2, <1>6 DEF Written
<1> HIDE DEF lost
<1>10. /\ doubt'.now = lost /\ doubt'.before \in {lost, doubt.before}
       /\ doubt' \in [now : SUBSET Mixers, before : SUBSET Mixers]
       /\ (retained = Closed => doubt'.before = lost)
       /\ (retained # Closed => doubt'.before = doubt.before)
  BY <1>1, <1>5, <1>7 DEF Outlasting
<1>11. MixerInv'
  BY <1>1, <1>5, <1>7, <1>8, <1>10 DEF MixerInv, Agree
<1>12. NativeTyped'
  BY <1>1, <1>9, <1>10 DEF NativeTyped
<1>13. ConfigurationInv'
  BY <1>1, ConfigurationsLeft DEF ConfigurationInv
<1> QED
  BY <1>11, <1>12, <1>13

-----------------------------------------------------------------------------
(* Live updates.                                                           *)

\* A prepared update lists every mixer whose gain it moves, and changes nothing yet.
LEMMA PrepareUpdateKeeps ==
    ASSUME NativeInv, NEW r \in Requests, PrepareUpdate(r)
    PROVE  NativeInv'
<1> USE DEF NativeInv
<1> DEFINE to == Preserve(settings.file, plan, Resolve(r))
           changed == {m \in Mixers : settings.gains[m] # r.gain[m]}
<1>1. /\ owner.running /\ begun = Nil
      /\ token' = [to |-> to, file |-> Resolve(r), gains |-> r.gain, changed |-> changed]
      /\ UNCHANGED <<owner, plan, settings, begun, txn, setup, mixers, retained, image, line,
                     meant, doubt>>
  BY Zenon DEF PrepareUpdate, gear, history
<1>2. owner.made /\ Resolved(settings) /\ ~txn.open
  BY <1>1 DEF ConfigurationInv
<1>3. plan \in Plans /\ settings \in Files
  BY <1>2 DEF NativeTyped
<1>4. settings.file \in Plans
  BY <1>3 DEF Files
<1>5. /\ Resolve(r) \in Plans /\ Resolve(r).of = r
      /\ r.gain \in [Mixers -> Gains \union {Unset}]
      /\ \A m \in Mixers : Resolve(r).gain[m] = ResolvedGain(r.gain[m])
  BY ResolveFacts
<1>6. /\ to \in Plans /\ to.of = r
      /\ \A m \in Mixers : Resolve(r).gain[m] = settings.file.gain[m] => to.gain[m] = plan.gain[m]
  BY <1>3, <1>4, <1>5, PreserveFacts
<1>7. \A m \in Mixers : m \notin changed => Resolve(r).gain[m] = settings.file.gain[m]
  BY <1>2, <1>5 DEF Resolved
<1>8. \A m \in Mixers : m \notin changed => to.gain[m] = plan.gain[m]
  BY <1>6, <1>7
<1>9. changed \in SUBSET Mixers
  OBVIOUS
<1> HIDE DEF to, changed
<1>10. token' \in Updates
  BY <1>1, <1>5, <1>6, <1>9 DEF Updates
<1>11. /\ token'.to = to /\ token'.file = Resolve(r)
       /\ token'.changed = changed /\ token'.gains = r.gain
  BY <1>1
<1>12. Resolved(token)'
  BY <1>5, <1>11 DEF Resolved
<1>13. NativeTyped'
  BY <1>1, <1>10 DEF NativeTyped
<1>14. /\ token'.to.of = token'.file.of
       /\ \A m \in Mixers : m \notin token'.changed => token'.to.gain[m] = plan.gain[m]
  BY <1>5, <1>6, <1>8, <1>11
<1>15. UNCHANGED Resolved(settings)
  BY <1>1 DEF Resolved
<1>16. ConfigurationInv'
  BY <1>1, <1>2, <1>12, <1>14, <1>15 DEF ConfigurationInv
<1>17. MixerInv'
  BY <1>1, MixersLeft
<1> QED
  BY <1>13, <1>16, <1>17

\* An update that was not begun takes nothing with it.
LEMMA DestroyUpdateKeeps ==
    ASSUME NativeInv, DestroyUpdate
    PROVE  NativeInv'
<1> USE DEF NativeInv
<1>1. /\ token' = Nil
      /\ UNCHANGED <<owner, plan, settings, begun, txn, setup, mixers, retained, image, line,
                     meant, doubt>>
  BY Zenon DEF DestroyUpdate, gear, history
<1>2. NativeTyped'
  BY <1>1 DEF NativeTyped
<1>3. UNCHANGED <<Resolved(settings), Resolved(begun)>>
  BY <1>1 DEF Resolved
<1>4. ConfigurationInv'
  BY <1>1, <1>3 DEF ConfigurationInv
<1>5. MixerInv'
  BY <1>1, MixersLeft
<1> QED
  BY <1>2, <1>4, <1>5

\* What begin_update opens: the mailbox holds the candidate and the way back.
Opens ==
    /\ token' = Nil
    /\ txn' = [open |-> TRUE, to |-> token.to, from |-> plan, reversing |-> FALSE,
               answer |-> "pending"]
    /\ begun' = [file |-> token.file, gains |-> token.gains]
    /\ UNCHANGED <<plan, settings>>

\* A transaction opens from the plan in force to the one of the update.
LEMMA OpensKeeps ==
    ASSUME NativeInv, owner.running, begun = Nil, token # Nil, Opens,
           NEW off \in BOOLEAN, owner' = [owner EXCEPT !.abandoned = off]
    PROVE  /\ ConfigurationInv'
           /\ txn' \in [open : BOOLEAN, to : Plans \union {Nil}, from : Plans \union {Nil},
                        reversing : BOOLEAN, answer : Answers]
           /\ txn'.to \in Plans /\ txn'.from \in Plans
           /\ owner' \in StationOwners /\ (owner'.made <=> owner.made)
           /\ begun' \in Files /\ begun' # Nil
<1> USE DEF NativeInv
<1>1. /\ owner.made /\ Resolved(settings) /\ plan.of = settings.file.of
      /\ Resolved(token) /\ token.to.of = token.file.of
  BY DEF ConfigurationInv
<1>2. token \in Updates /\ plan \in Plans
  BY <1>1 DEF NativeTyped
<1>3. ASSUME NEW yes \in BOOLEAN, yes, NEW no \in BOOLEAN,
             txn' = [open |-> yes, to |-> token.to, from |-> plan, reversing |-> no,
                     answer |-> "pending"]
      PROVE  /\ txn'.open /\ txn'.to = token.to /\ txn'.from = plan
             /\ txn' \in [open : BOOLEAN, to : Plans \union {Nil}, from : Plans \union {Nil},
                          reversing : BOOLEAN, answer : Answers]
  BY <1>2, <1>3 DEF Updates, Answers
<1>4. /\ txn'.open /\ txn'.to = token.to /\ txn'.from = plan
      /\ txn' \in [open : BOOLEAN, to : Plans \union {Nil}, from : Plans \union {Nil},
                   reversing : BOOLEAN, answer : Answers]
  BY <1>3, TRUE \in BOOLEAN, FALSE \in BOOLEAN, Zenon DEF Opens
<1>5. begun' \in Files /\ begun'.file = token.file /\ begun'.gains = token.gains
  BY <1>2 DEF Opens, Updates, Files
<1>6. begun' # Nil
  BY <1>5, NilAssumption
<1>7. Resolved(begun)'
  BY <1>1, <1>5 DEF Resolved
<1>8. UNCHANGED Resolved(settings)
  BY DEF Opens, Resolved
<1>9. owner' \in StationOwners /\ (owner'.made <=> owner.made)
  BY DEF NativeTyped, StationOwners
<1>10. UNCHANGED <<plan, settings>> /\ token' = Nil
  BY DEF Opens
<1>11. ConfigurationInv'
  BY <1>1, <1>4, <1>5, <1>6, <1>7, <1>8, <1>9, <1>10 DEF ConfigurationInv
<1> QED
  BY <1>2, <1>4, <1>5, <1>6, <1>9, <1>11 DEF Updates

\* An update whose mixers cannot be opened retains no levels.
LEMMA BeginUnopenedKeeps ==
    ASSUME NativeInv, BeginUnopened
    PROVE  NativeInv'
<1> USE DEF NativeInv
<1>1. /\ owner.running /\ begun = Nil /\ token # Nil /\ mixers = Closed
      /\ token' = Nil
      /\ owner' = [owner EXCEPT !.abandoned = TRUE]
      /\ meant' = [meant EXCEPT !.before = meant.now]
      /\ doubt' = [doubt EXCEPT !.before = doubt.now]
      /\ Opens
      /\ UNCHANGED <<plan, settings, setup, mixers, retained, image, line>>
  BY Zenon DEF BeginUnopened, Opens, gear
<1>2. /\ ConfigurationInv'
      /\ txn' \in [open : BOOLEAN, to : Plans \union {Nil}, from : Plans \union {Nil},
                   reversing : BOOLEAN, answer : Answers]
      /\ txn'.to \in Plans /\ txn'.from \in Plans
      /\ owner' \in StationOwners /\ (owner'.made <=> owner.made)
      /\ begun' \in Files /\ begun' # Nil
  BY <1>1, OpensKeeps, TRUE \in BOOLEAN, Zenon
<1>3. /\ meant' \in [now : LevelMaps, before : LevelMaps]
      /\ doubt' \in [now : SUBSET Mixers, before : SUBSET Mixers]
      /\ meant'.now = meant.now /\ meant'.before = meant.now
      /\ doubt'.now = doubt.now /\ doubt'.before = doubt.now
  BY <1>1 DEF NativeTyped
<1>4. NativeTyped'
  BY <1>1, <1>2, <1>3 DEF NativeTyped
<1>5. retained = Closed
  BY <1>1 DEF ConfigurationInv
<1>6. MixerInv'
  BY <1>1, <1>2, <1>3, <1>5 DEF MixerInv, Agree
<1> QED
  BY <1>2, <1>4, <1>6

\* Only the gains that were asked to change are written.
LEMMA UpdateTargetFacts ==
    ASSUME NativeInv, owner.made, token # Nil
    PROVE  /\ Target(UpdateTargets) /\ Target(AskedTargets)
           /\ DOMAIN UpdateTargets = DOMAIN AskedTargets
           /\ \A m \in DOMAIN AskedTargets : UpdateTargets[m] = AskedTargets[m]
<1> USE DEF NativeInv
<1>1. token \in Updates
  BY DEF NativeTyped
<1>2. token.changed \subseteq Mixers /\ token.to \in Plans
  BY <1>1 DEF Updates
<1>3. token.to.gain \in [Mixers -> Levels]
  BY <1>2 DEF Plans
<1>4. \A m \in Mixers : m \notin token.changed => token.to.gain[m] = plan.gain[m]
  BY DEF ConfigurationInv
<1>5. {m \in Mixers : m \in token.changed \/ plan.gain[m] # token.to.gain[m]} = token.changed
  BY <1>2, <1>4
<1> QED
  BY <1>2, <1>3, <1>5 DEF UpdateTargets, AskedTargets, Target

\* An update that begins retains the levels its mixers had.
LEMMA BeginUpdateKeeps ==
    ASSUME NativeInv, NEW ok \in BOOLEAN, BeginUpdate(ok)
    PROVE  NativeInv'
<1> USE DEF NativeInv
<1>1. /\ owner.running /\ begun = Nil /\ token # Nil
      /\ token' = Nil
      /\ owner' = [owner EXCEPT !.abandoned = ~ok]
      /\ retained' = Opened
      /\ meant' = [now |-> IF ok THEN Overlay(AskedTargets, meant.now) ELSE meant.now,
                   before |-> meant.now]
      /\ doubt' = [now |-> IF ok THEN doubt.now \ DOMAIN UpdateTargets
                           ELSE doubt.now \union DOMAIN UpdateTargets,
                   before |-> doubt.now]
      /\ Opens
      /\ UNCHANGED <<plan, settings, setup, image>>
  BY Zenon DEF BeginUpdate, Opens
<1>2. PICK w \in Writes(UpdateTargets, Opened) : w.ok = ok /\ line' = w.line /\ mixers' = w.levels
  BY Zenon DEF BeginUpdate
<1>3. owner.made
  BY <1>1 DEF ConfigurationInv
<1>4. /\ Target(UpdateTargets) /\ Target(AskedTargets)
      /\ DOMAIN UpdateTargets = DOMAIN AskedTargets
      /\ \A m \in DOMAIN AskedTargets : UpdateTargets[m] = AskedTargets[m]
  BY <1>1, <1>3, UpdateTargetFacts
<1>5. line \in LevelMaps /\ Opened \in LevelMaps /\ HistoryTyped
  BY OpenedFacts DEF NativeTyped, HistoryTyped
<1>6. Written(UpdateTargets, Opened, w)
  BY <1>4, <1>5, WriteFacts
<1>7. /\ ConfigurationInv'
      /\ txn' \in [open : BOOLEAN, to : Plans \union {Nil}, from : Plans \union {Nil},
                   reversing : BOOLEAN, answer : Answers]
      /\ txn'.to \in Plans /\ txn'.from \in Plans
      /\ owner' \in StationOwners /\ (owner'.made <=> owner.made)
      /\ begun' \in Files /\ begun' # Nil
  BY <1>1, OpensKeeps, (~ok) \in BOOLEAN, Zenon
<1>8. /\ Overlay(AskedTargets, meant.now) \in LevelMaps
      /\ \A m \in DOMAIN AskedTargets : Overlay(AskedTargets, meant.now)[m] = AskedTargets[m]
      /\ \A m \in Mixers \ DOMAIN AskedTargets :
            Overlay(AskedTargets, meant.now)[m] = meant.now[m]
  BY <1>4, <1>5, Overlaid DEF HistoryTyped
<1>9. Agree(line, meant.now, doubt.now) /\ Agree(Opened, meant.now, doubt.now)
  BY DEF MixerInv, Opened
<1>10. HistoryTyped' /\ meant'.before = meant.now /\ doubt'.before = doubt.now
  BY <1>1, <1>4, <1>5, <1>8 DEF HistoryTyped, Target
<1>11. Agree(line', meant'.now, doubt'.now) /\ Agree(mixers', meant'.now, doubt'.now)
  <2>1. CASE ok
    <3>1. /\ meant'.now = Overlay(AskedTargets, meant.now)
          /\ doubt'.now = doubt.now \ DOMAIN UpdateTargets
      BY <1>1, <2>1
    <3>2. \A m \in DOMAIN UpdateTargets :
            w.line[m] = UpdateTargets[m] /\ w.levels[m] = UpdateTargets[m]
      BY <1>2, <1>6, <2>1 DEF Written
    <3> QED
      BY <1>2, <1>4, <1>6, <1>8, <1>9, <3>1, <3>2 DEF Agree, Written
  <2>2. CASE ~ok
    <3>1. meant'.now = meant.now /\ doubt'.now = doubt.now \union DOMAIN UpdateTargets
      BY <1>1, <2>2
    <3> QED
      BY <1>2, <1>6, <1>9, <3>1 DEF Agree, Written
  <2> QED
    BY <2>1, <2>2
<1>12. line' \in LevelMaps /\ mixers' \in LevelMaps
  BY <1>2, <1>6 DEF Written
<1>13. NativeTyped'
  BY <1>1, <1>5, <1>7, <1>10, <1>12 DEF NativeTyped, HistoryTyped
<1>14. retained' # Closed
  BY <1>1, <1>5, ClosedIsNoMap
<1>15. MixerInv'
  BY <1>1, <1>9, <1>10, <1>11, <1>14 DEF MixerInv
<1> QED
  BY <1>7, <1>13, <1>15

\* Steps of the mailbox and the owner that leave a pending update pending.
LEMMA AnswerKeeps ==
    ASSUME NativeInv, NEW result \in {"adopted", "refused"}, Answer(result)
    PROVE  NativeInv'
<1> USE DEF NativeInv
<1>1. /\ txn' = [txn EXCEPT !.answer = result]
      /\ txn.answer = "pending"
      /\ UNCHANGED <<owner, plan, settings, begun, token, setup, mixers, retained, image, line,
                     meant, doubt>>
  BY Zenon DEF Answer, gear, history
<1>2. /\ txn' \in [open : BOOLEAN, to : Plans \union {Nil}, from : Plans \union {Nil},
                   reversing : BOOLEAN, answer : Answers]
      /\ (txn'.open <=> txn.open) /\ txn'.to = txn.to /\ txn'.from = txn.from
  BY <1>1 DEF NativeTyped, Answers
<1>3. NativeTyped'
  BY <1>1, <1>2 DEF NativeTyped
<1>4. UNCHANGED <<Resolved(settings), Resolved(begun), Resolved(token)>>
  BY <1>1 DEF Resolved
<1>5. ConfigurationInv'
  BY <1>1, <1>2, <1>4 DEF ConfigurationInv
<1>6. MixerInv'
  BY <1>1, MixersLeft
<1> QED
  BY <1>3, <1>5, <1>6

\* An adopted candidate is the plan in force.
LEMMA AcceptUpdateKeeps ==
    ASSUME NativeInv, AcceptUpdate
    PROVE  NativeInv'
<1> USE DEF NativeInv
<1>1. /\ owner.made /\ txn.answer = "adopted" /\ plan' = txn.to
      /\ UNCHANGED <<owner, settings, begun, token, txn, setup, mixers, retained, image, line,
                     meant, doubt>>
  BY Zenon DEF AcceptUpdate, gear, history
<1>2. txn.open
  BY <1>1 DEF ConfigurationInv
<1>3. plan' \in Plans
  BY <1>1, <1>2 DEF NativeTyped
<1>4. begun # Nil /\ token = Nil
  BY <1>2 DEF ConfigurationInv
<1>5. NativeTyped'
  BY <1>1, <1>3 DEF NativeTyped
<1>6. UNCHANGED <<Resolved(settings), Resolved(begun)>>
  BY <1>1 DEF Resolved
<1>7. ConfigurationInv'
  BY <1>1, <1>2, <1>4, <1>6 DEF ConfigurationInv
<1>8. MixerInv'
  BY <1>1, MixersLeft
<1> QED
  BY <1>5, <1>7, <1>8

\* The mailbox with no transaction.
LEMMA NoTxnFacts ==
    /\ NoTxn \in [open : BOOLEAN, to : Plans \union {Nil}, from : Plans \union {Nil},
                  reversing : BOOLEAN, answer : Answers]
    /\ ~NoTxn.open /\ NoTxn.answer = "none"
<1>1. ASSUME NEW no \in BOOLEAN, ~no, NEW off \in BOOLEAN, NEW x,
             x = [open |-> no, to |-> Nil, from |-> Nil, reversing |-> off, answer |-> "none"]
      PROVE  /\ x \in [open : BOOLEAN, to : Plans \union {Nil}, from : Plans \union {Nil},
                       reversing : BOOLEAN, answer : Answers]
             /\ ~x.open /\ x.answer = "none"
  BY <1>1 DEF Answers
<1> QED
  BY <1>1, FALSE \in BOOLEAN, Zenon DEF NoTxn

\* A committed update leaves plan and settings of its request, and retains no levels.
LEMMA CommitUpdateKeeps ==
    ASSUME NativeInv, CommitUpdate
    PROVE  NativeInv'
<1> USE DEF NativeInv
<1>1. /\ begun # Nil /\ txn.answer = "adopted"
      /\ plan' = txn.to /\ txn' = NoTxn /\ retained' = Closed
      /\ settings' = begun /\ begun' = Nil
      /\ setup' = AdoptedSetup(txn.to, begun.gains)
      /\ UNCHANGED <<owner, token, mixers, image, line, meant, doubt>>
  BY Zenon DEF CommitUpdate
<1>2. txn.open /\ owner.made /\ token = Nil /\ Resolved(begun)
  BY <1>1 DEF ConfigurationInv
<1>3. begun \in Files /\ txn.to \in Plans
  BY <1>1, <1>2 DEF NativeTyped
<1>4. /\ begun.gains \in [Mixers -> Levels \union {Unset}]
      /\ txn.to.gain \in [Mixers -> Levels \union {Unset}]
  BY <1>3, GainFacts DEF Files, Plans
<1>5. setup' \in [gains : [Mixers -> Levels \union {Unset}], tuning : Tunings \union {Blank}]
  BY <1>1, <1>4 DEF AdoptedSetup
<1>6. /\ txn' \in [open : BOOLEAN, to : Plans \union {Nil}, from : Plans \union {Nil},
                   reversing : BOOLEAN, answer : Answers]
      /\ ~txn'.open /\ txn'.answer = "none"
  BY <1>1, NoTxnFacts
<1>7. NativeTyped'
  BY <1>1, <1>3, <1>5, <1>6 DEF NativeTyped
<1>8. Resolved(settings)'
  BY <1>1, <1>2 DEF Resolved
<1>9. plan'.of = settings'.file.of
  BY <1>1, <1>2 DEF ConfigurationInv
<1>10. ConfigurationInv'
  BY <1>1, <1>2, <1>6, <1>8, <1>9 DEF ConfigurationInv
<1>11. MixerInv'
  BY <1>1 DEF MixerInv, Agree
<1> QED
  BY <1>7, <1>10, <1>11

\* An update that is taken back publishes the plan it came from.
LEMMA ReverseUpdateKeeps ==
    ASSUME NativeInv, ReverseUpdate
    PROVE  NativeInv'
<1> USE DEF NativeInv
<1>1. /\ txn.open
      /\ txn' = [txn EXCEPT !.reversing = TRUE, !.answer = "pending"]
      /\ owner' = [owner EXCEPT !.abandoned = TRUE]
      /\ UNCHANGED <<plan, settings, begun, token, setup, mixers, retained, image, line,
                     meant, doubt>>
  BY Zenon DEF ReverseUpdate, gear, history
<1>2. ASSUME NEW yes \in BOOLEAN, txn' = [txn EXCEPT !.reversing = yes, !.answer = "pending"],
             owner' = [owner EXCEPT !.abandoned = yes]
      PROVE  /\ txn' \in [open : BOOLEAN, to : Plans \union {Nil}, from : Plans \union {Nil},
                          reversing : BOOLEAN, answer : Answers]
             /\ (txn'.open <=> txn.open) /\ txn'.to = txn.to /\ txn'.from = txn.from
             /\ owner' \in StationOwners /\ (owner'.made <=> owner.made)
             /\ (owner'.running <=> owner.running)
  BY <1>2 DEF NativeTyped, Answers, StationOwners
<1>3. /\ txn' \in [open : BOOLEAN, to : Plans \union {Nil}, from : Plans \union {Nil},
                   reversing : BOOLEAN, answer : Answers]
      /\ (txn'.open <=> txn.open) /\ txn'.to = txn.to /\ txn'.from = txn.from
      /\ owner' \in StationOwners /\ (owner'.made <=> owner.made)
      /\ (owner'.running <=> owner.running)
  BY <1>1, <1>2, TRUE \in BOOLEAN, Zenon
<1>4. NativeTyped'
  BY <1>1, <1>3 DEF NativeTyped
<1>5. UNCHANGED <<Resolved(settings), Resolved(begun), Resolved(token)>>
  BY <1>1 DEF Resolved
<1>6. ConfigurationInv'
  BY <1>1, <1>3, <1>5 DEF ConfigurationInv
<1>7. MixerInv'
  BY <1>1, MixersLeft
<1> QED
  BY <1>4, <1>6, <1>7

-----------------------------------------------------------------------------
(* Rollback and stop.                                                      *)

\* A restore brings every mixer back to where the last successful calls before the
\* update had put it; one that fails keeps the levels for another try.
LEMMA RestoreFacts ==
    ASSUME NativeInv, begun # Nil, NEW w \in Restores, FinishMixers(w)
    PROVE  /\ MixerInv' /\ HistoryTyped'
           /\ line' \in LevelMaps /\ mixers' \in LevelMaps \union {Closed}
           /\ \/ begun' = Nil /\ retained' = Closed
              \/ UNCHANGED <<begun, retained>>
<1> USE DEF NativeInv
<1>1. /\ line' = w.line /\ mixers' = w.levels
      /\ IF w.ok
         THEN /\ retained' = Closed /\ begun' = Nil
              /\ meant' = [meant EXCEPT !.now = meant.before]
              /\ doubt' = [doubt EXCEPT !.now = doubt.before]
         ELSE /\ doubt' = [doubt EXCEPT !.now = Mixers]
              /\ UNCHANGED <<retained, begun, meant>>
  BY Zenon DEF FinishMixers
<1>2. line \in LevelMaps /\ Opened \in LevelMaps /\ HistoryTyped
      /\ mixers \in LevelMaps \union {Closed} /\ retained \in LevelMaps \union {Closed}
  BY OpenedFacts DEF NativeTyped, HistoryTyped
<1>3. CASE retained = Closed
  <2>1. ASSUME NEW yes \in BOOLEAN, yes, w = [line |-> line, levels |-> mixers, ok |-> yes]
        PROVE  w.line = line /\ w.levels = mixers /\ w.ok
    BY <2>1
  <2>2. w = [line |-> line, levels |-> mixers, ok |-> TRUE]
    BY <1>3 DEF Restores
  <2>3. w.line = line /\ w.levels = mixers /\ w.ok
    BY <2>1, <2>2, TRUE \in BOOLEAN, Zenon
  <2>4. /\ retained' = Closed /\ begun' = Nil /\ UNCHANGED <<line, mixers>>
        /\ meant' = [meant EXCEPT !.now = meant.before]
        /\ doubt' = [doubt EXCEPT !.now = doubt.before]
    BY <1>1, <2>3
  <2>5. meant.before = meant.now /\ doubt.before = doubt.now
    BY <1>3 DEF MixerInv
  <2>6. HistoryTyped' /\ meant'.now = meant.now /\ doubt'.now = doubt.now
    BY <1>2, <2>4, <2>5 DEF HistoryTyped
  <2> QED
    BY <1>2, <2>4, <2>6 DEF MixerInv, Agree
<1>4. CASE retained # Closed
  <2>1. retained \in LevelMaps /\ w \in Writes(retained, Opened)
    BY <1>2, <1>4 DEF Restores, RestoreTargets
  <2>2. Target(retained) /\ DOMAIN retained = Mixers
    BY <2>1 DEF Target, LevelMaps
  <2>3. Written(retained, Opened, w)
    BY <1>2, <2>1, <2>2, WriteFacts
  <2>4. line' \in LevelMaps /\ mixers' \in LevelMaps
    BY <1>1, <2>3 DEF Written
  <2>5. Agree(retained, meant.before, doubt.before)
    BY <1>4 DEF MixerInv
  <2>6. CASE w.ok
    <3>1. /\ retained' = Closed /\ begun' = Nil
          /\ meant' = [meant EXCEPT !.now = meant.before]
          /\ doubt' = [doubt EXCEPT !.now = doubt.before]
      BY <1>1, <2>6
    <3>2. HistoryTyped' /\ meant'.now = meant.before /\ doubt'.now = doubt.before
      BY <1>2, <3>1 DEF HistoryTyped
    <3>3. \A m \in Mixers : line'[m] = retained[m] /\ mixers'[m] = retained[m]
      BY <1>1, <2>2, <2>3, <2>6 DEF Written
    <3> QED
      BY <2>4, <2>5, <3>1, <3>2, <3>3 DEF MixerInv, Agree
  <2>7. CASE ~w.ok
    <3>1. /\ doubt' = [doubt EXCEPT !.now = Mixers]
          /\ UNCHANGED <<retained, begun, meant>>
      BY <1>1, <2>7
    <3>2. HistoryTyped' /\ doubt'.now = Mixers /\ doubt'.before = doubt.before
      BY <1>2, <3>1 DEF HistoryTyped
    <3> QED
      BY <1>4, <2>4, <2>5, <3>1, <3>2 DEF MixerInv, Agree
  <2> QED
    BY <2>6, <2>7
<1> QED
  BY <1>3, <1>4

\* The mailbox runs the way back, and then the mixers are restored.
LEMMA RolledBack ==
    ASSUME NativeInv, owner.made, begun # Nil, NEW w \in Restores, FinishMixers(w),
           txn' = NoTxn, plan' = IF txn.open THEN txn.from ELSE plan,
           owner' \in StationOwners, owner'.made,
           UNCHANGED <<settings, token, setup, image>>
    PROVE  NativeInv'
<1> USE DEF NativeInv
<1>1. /\ MixerInv' /\ HistoryTyped'
      /\ line' \in LevelMaps /\ mixers' \in LevelMaps \union {Closed}
      /\ \/ begun' = Nil /\ retained' = Closed
         \/ UNCHANGED <<begun, retained>>
  BY RestoreFacts
<1>2. /\ txn' \in [open : BOOLEAN, to : Plans \union {Nil}, from : Plans \union {Nil},
                   reversing : BOOLEAN, answer : Answers]
      /\ ~txn'.open /\ txn'.answer = "none"
  BY NoTxnFacts
<1>3. plan' \in Plans /\ plan'.of = settings.file.of
  BY DEF NativeTyped, ConfigurationInv
<1>4. NativeTyped'
  BY <1>1, <1>2, <1>3 DEF NativeTyped, HistoryTyped
<1>5. UNCHANGED Resolved(settings) /\ (UNCHANGED begun => UNCHANGED Resolved(begun))
  BY DEF Resolved
<1>6. token = Nil /\ Resolved(settings) /\ Resolved(begun)
  BY DEF ConfigurationInv
<1>7. ConfigurationInv'
  BY <1>1, <1>2, <1>3, <1>5, <1>6 DEF ConfigurationInv
<1> QED
  BY <1>1, <1>4, <1>7

\* A rollback has the old plan in force and the mixers back at their levels, or in doubt
\* until they can be restored.
LEMMA RollBackUpdateKeeps ==
    ASSUME NativeInv, RollBackUpdate
    PROVE  NativeInv'
<1> USE DEF NativeInv
<1>1. /\ owner.made /\ begun # Nil /\ txn' = NoTxn
      /\ IF txn.open THEN txn.reversing /\ txn.answer = "adopted" /\ plan' = txn.from
         ELSE UNCHANGED plan
      /\ owner' = [owner EXCEPT !.abandoned = TRUE]
      /\ UNCHANGED <<settings, token, setup, image>>
  BY Zenon DEF RollBackUpdate
<1>2. PICK w \in Restores : FinishMixers(w)
  BY Zenon DEF RollBackUpdate
<1>3. plan' = IF txn.open THEN txn.from ELSE plan
  BY <1>1
<1>4. owner' \in StationOwners /\ owner'.made
  <2>1. ASSUME NEW yes \in BOOLEAN, owner' = [owner EXCEPT !.abandoned = yes]
        PROVE  owner' \in StationOwners /\ (owner'.made <=> owner.made)
    BY <2>1 DEF NativeTyped, StationOwners
  <2> QED
    BY <1>1, <2>1, TRUE \in BOOLEAN, Zenon
<1> QED
  BY <1>1, <1>2, <1>3, <1>4, RolledBack

\* Only the owner record has changed.
LEMMA OwnerOnly ==
    ASSUME NativeInv, owner' \in StationOwners, owner'.made <=> owner.made,
           owner'.running => owner'.made,
           UNCHANGED <<plan, settings, begun, token, txn, setup, mixers, retained, image, line,
                       meant, doubt>>
    PROVE  NativeInv'
<1> USE DEF NativeInv
<1>1. NativeTyped'
  BY DEF NativeTyped
<1>2. ConfigurationInv'
  BY ConfigurationsLeft
<1>3. MixerInv'
  BY MixersLeft
<1> QED
  BY <1>1, <1>2, <1>3

\* With the callbacks quiescent a stop takes the open update back, or keeps it for another
\* try.
LEMMA StoppedKeeps ==
    ASSUME NativeInv, owner.made, NEW refused \in BOOLEAN, refused => txn.open,
           FinishStopped(refused), owner' \in StationOwners, owner'.made,
           UNCHANGED <<settings, token, setup, image>>
    PROVE  NativeInv'
<1> USE DEF NativeInv
<1>1. CASE begun = Nil
  <2>1. UNCHANGED <<plan, txn, begun, line, mixers, retained, meant, doubt>>
    BY <1>1, Zenon DEF FinishStopped
  <2> QED
    BY <2>1, OwnerOnly
<1>2. CASE begun # Nil /\ refused
  <2>1. /\ txn' = [txn EXCEPT !.reversing = TRUE, !.answer = "refused"]
        /\ UNCHANGED <<plan, begun, line, mixers, retained, meant, doubt>>
    BY <1>2, Zenon DEF FinishStopped
  <2>2. ASSUME NEW yes \in BOOLEAN, txn' = [txn EXCEPT !.reversing = yes, !.answer = "refused"]
        PROVE  /\ txn' \in [open : BOOLEAN, to : Plans \union {Nil}, from : Plans \union {Nil},
                            reversing : BOOLEAN, answer : Answers]
               /\ (txn'.open <=> txn.open) /\ txn'.to = txn.to /\ txn'.from = txn.from
    BY <2>2 DEF NativeTyped, Answers
  <2>3. /\ txn' \in [open : BOOLEAN, to : Plans \union {Nil}, from : Plans \union {Nil},
                     reversing : BOOLEAN, answer : Answers]
        /\ (txn'.open <=> txn.open) /\ txn'.to = txn.to /\ txn'.from = txn.from
    BY <2>1, <2>2, TRUE \in BOOLEAN, Zenon
  <2>4. NativeTyped'
    BY <2>1, <2>3 DEF NativeTyped
  <2>5. UNCHANGED <<Resolved(settings), Resolved(begun), Resolved(token)>>
    BY <2>1 DEF Resolved
  <2>6. ConfigurationInv'
    BY <1>2, <2>1, <2>3, <2>5 DEF ConfigurationInv
  <2>7. MixerInv'
    BY <2>1, MixersLeft
  <2> QED
    BY <2>4, <2>6, <2>7
<1>3. CASE begun # Nil /\ ~refused
  <2>1. plan' = (IF txn.open THEN txn.from ELSE plan) /\ txn' = NoTxn
    BY <1>3, Zenon DEF FinishStopped
  <2>2. PICK w \in Restores : FinishMixers(w)
    BY <1>3, Zenon DEF FinishStopped
  <2> QED
    BY <1>3, <2>1, <2>2, RolledBack
<1> QED
  BY <1>1, <1>2, <1>3

\* A stop, whatever the hardware thread made of it.
LEMMA StoppedOwner ==
    ASSUME NativeTyped, owner.made, NEW s \in {"stopped", "running", "retired", "unsafe"},
           owner' = [owner EXCEPT !.running = FALSE, !.service = s, !.abandoned = TRUE]
    PROVE  owner' \in StationOwners /\ owner'.made
<1>1. ASSUME NEW no \in BOOLEAN, NEW yes \in BOOLEAN,
             owner' = [owner EXCEPT !.running = no, !.service = s, !.abandoned = yes]
      PROVE  owner' \in StationOwners /\ (owner'.made <=> owner.made)
  BY <1>1 DEF NativeTyped, StationOwners
<1> QED
  BY <1>1, TRUE \in BOOLEAN, FALSE \in BOOLEAN, Zenon

\* Stopping a station keeps the invariant.
LEMMA StopKeeps ==
    ASSUME NativeInv, Stop
    PROVE  NativeInv'
<1>1. owner.made /\ UNCHANGED <<settings, token, setup, image>>
  BY Zenon DEF Stop
<1>2. PICK ok \in BOOLEAN, refused \in BOOLEAN :
        /\ refused => txn.open
        /\ owner' = [owner EXCEPT !.running = FALSE, !.service = ServiceStops(ok),
                                  !.abandoned = TRUE]
        /\ FinishStopped(refused)
  BY Zenon DEF Stop
<1>3. ServiceStops(ok) \in {"stopped", "running", "retired", "unsafe"}
  BY DEF ServiceStops
<1>4. owner' \in StationOwners /\ owner'.made
  BY <1>1, <1>2, <1>3, StoppedOwner, Zenon DEF NativeInv
<1> QED
  BY <1>1, <1>2, <1>4, StoppedKeeps, Zenon

\* Quiescing a station keeps the invariant.
LEMMA QuiesceKeeps ==
    ASSUME NativeInv, Quiesce
    PROVE  NativeInv'
<1>1. owner.made /\ UNCHANGED <<settings, token, setup, image>>
  BY Zenon DEF Quiesce
<1>2. PICK s \in QuiesceEnds, refused \in BOOLEAN :
        /\ refused => txn.open /\ s # "unsafe"
        /\ owner' = [owner EXCEPT !.running = FALSE, !.service = s, !.abandoned = TRUE]
        /\ IF s = "unsafe"
           THEN UNCHANGED <<plan, txn, begun, line, mixers, retained, meant, doubt>>
           ELSE FinishStopped(refused)
  BY Zenon DEF Quiesce
<1>3. s \in {"stopped", "running", "retired", "unsafe"}
  BY DEF QuiesceEnds
<1>4. owner' \in StationOwners /\ owner'.made
  BY <1>1, <1>2, <1>3, StoppedOwner, Zenon DEF NativeInv
<1>5. CASE s = "unsafe"
  <2>1. UNCHANGED <<plan, txn, begun, line, mixers, retained, meant, doubt>>
    BY <1>2, <1>5
  <2> QED
    BY <1>1, <1>4, <2>1, OwnerOnly
<1>6. CASE s # "unsafe"
  <2>1. FinishStopped(refused)
    BY <1>2, <1>6
  <2> QED
    BY <1>1, <1>2, <1>4, <2>1, StoppedKeeps, Zenon
<1> QED
  BY <1>5, <1>6

\* A stop whose stream runs on leaves the update as it is.
LEMMA StopStreamFailsKeeps ==
    ASSUME NativeInv, StopStreamFails
    PROVE  NativeInv'
<1>1. /\ owner.made
      /\ UNCHANGED <<plan, settings, begun, token, txn, setup, mixers, retained, image, line,
                     meant, doubt>>
  BY Zenon DEF StopStreamFails, gear, history
<1>2. PICK ok \in BOOLEAN :
        owner' = [owner EXCEPT !.service = ServiceStops(ok),
                               !.abandoned = (begun # Nil) \/ @]
  BY Zenon DEF StopStreamFails
<1>3. ServiceStops(ok) \in {"stopped", "running", "retired", "unsafe"}
  BY DEF ServiceStops
<1>4. ASSUME NEW off \in BOOLEAN,
             owner' = [owner EXCEPT !.service = ServiceStops(ok), !.abandoned = off]
      PROVE  owner' \in StationOwners /\ (owner'.made <=> owner.made)
  BY <1>3, <1>4 DEF NativeInv, NativeTyped, StationOwners
<1>5. owner' = [owner EXCEPT !.service = ServiceStops(ok),
                             !.abandoned = (begun # Nil) \/ owner.abandoned]
  BY <1>2 DEF NativeInv, NativeTyped, StationOwners
<1>6. owner' \in StationOwners /\ (owner'.made <=> owner.made)
  BY <1>4, <1>5, ((begun # Nil) \/ owner.abandoned) \in BOOLEAN, Zenon
<1> QED
  BY <1>1, <1>6, OwnerOnly

-----------------------------------------------------------------------------
(* The tuner's commands.                                                   *)

\* A mixer that is set is at the level meant, or in doubt.
LEMMA SetMixerKeeps ==
    ASSUME NativeInv, NEW m \in Mixers, NEW level \in Levels, SetMixer(m, level)
    PROVE  NativeInv'
<1> USE DEF NativeInv
<1> DEFINE target == [x \in {m} |-> level]
<1>1. UNCHANGED <<owner, plan, settings, begun, token, txn, setup, retained, image>>
  BY Zenon DEF SetMixer, station
<1>2. PICK w \in Writes(target, Opened) :
        /\ line' = w.line /\ mixers' = w.levels
        /\ meant' = IF w.ok THEN LET to == [meant.now EXCEPT ![m] = level]
                                 IN  [now |-> to, before |-> Outlasting(to, meant.before)]
                    ELSE meant
        /\ doubt' = LET to == IF w.ok THEN doubt.now \ {m} ELSE doubt.now \union {m}
                    IN  [now |-> to, before |-> Outlasting(to, doubt.before)]
  BY Zenon DEF SetMixer
<1>3. Target(target) /\ DOMAIN target = {m} /\ target[m] = level
  BY DEF Target
<1>4. line \in LevelMaps /\ Opened \in LevelMaps /\ HistoryTyped
  BY OpenedFacts DEF NativeTyped, HistoryTyped
<1> HIDE DEF target
<1>5. Written(target, Opened, w)
  BY <1>2, <1>3, <1>4, WriteFacts
<1>6. line' \in LevelMaps /\ mixers' \in LevelMaps
  BY <1>2, <1>5 DEF Written
<1>7. Agree(line, meant.now, doubt.now) /\ Agree(Opened, meant.now, doubt.now)
  BY DEF MixerInv, Opened
<1>8. MixerInv' /\ HistoryTyped'
  <2>1. CASE w.ok
    <3> DEFINE to == [meant.now EXCEPT ![m] = level]
               lost == doubt.now \ {m}
    <3>1. /\ meant' = [now |-> to, before |-> Outlasting(to, meant.before)]
          /\ doubt' = [now |-> lost, before |-> Outlasting(lost, doubt.before)]
      BY <1>2, <2>1
    <3>2. /\ to \in LevelMaps /\ lost \in SUBSET Mixers /\ to[m] = level
          /\ \A x \in Mixers \ {m} : to[x] = meant.now[x]
      BY <1>4 DEF HistoryTyped, LevelMaps
    <3> HIDE DEF to
    <3>3. Agree(line', to, lost) /\ Agree(mixers', to, lost)
      BY <1>2, <1>3, <1>5, <1>7, <2>1, <3>2 DEF Agree, Written
    <3> HIDE DEF lost
    <3> QED
      BY <1>1, <1>6, <3>1, <3>2, <3>3, OutlastingFacts
  <2>2. CASE ~w.ok
    <3> DEFINE lost == doubt.now \union {m}
    <3>1. meant' = meant /\ doubt' = [now |-> lost, before |-> Outlasting(lost, doubt.before)]
      BY <1>2, <2>2
    <3>2. lost \in SUBSET Mixers /\ doubt.now \subseteq lost
      BY <1>4 DEF HistoryTyped
    <3>3. Agree(line', meant.now, lost) /\ Agree(mixers', meant.now, lost)
      BY <1>2, <1>3, <1>5, <1>7 DEF Agree, Written
    <3> HIDE DEF lost
    <3>4. /\ doubt'.now = lost /\ HistoryTyped'
          /\ (retained = Closed => doubt'.before = lost)
          /\ (retained # Closed => doubt'.before = doubt.before)
      BY <1>4, <3>1, <3>2 DEF Outlasting, HistoryTyped
    <3> QED
      BY <1>1, <3>1, <3>3, <3>4 DEF MixerInv
  <2> QED
    BY <2>1, <2>2
<1>9. NativeTyped'
  BY <1>1, <1>6, <1>8 DEF NativeTyped, HistoryTyped
<1>10. ConfigurationInv'
  BY <1>1, ConfigurationsLeft DEF ConfigurationInv
<1> QED
  BY <1>8, <1>9, <1>10

\* What an EEPROM command leaves: a valid image, a blank one or the one before.
LEMMA WriteEepromFacts ==
    ASSUME NativeInv, owner.made, NEW t \in Tunings \union {Blank}, NEW ok \in BOOLEAN,
           WriteEeprom(t, ok)
    PROVE  /\ image' \in Tunings \union {Blank}
           /\ setup' \in [gains : [Mixers -> Levels \union {Unset}],
                          tuning : Tunings \union {Blank}]
<1>1. CASE ok
  BY <1>1 DEF WriteEeprom, NativeInv, NativeTyped
<1>2. CASE ~ok
  BY <1>2 DEF WriteEeprom, NativeInv, NativeTyped
<1> QED
  BY <1>1, <1>2

\* Saving the tuning opens the mixers and moves none.
LEMMA SaveTuningKeeps ==
    ASSUME NativeInv, SaveTuning
    PROVE  NativeInv'
<1> USE DEF NativeInv
<1>1. /\ owner.running /\ mixers' = Opened
      /\ UNCHANGED <<owner, plan, settings, begun, token, txn, retained, line, meant, doubt>>
  BY Zenon DEF SaveTuning, station
<1>2. PICK ok \in BOOLEAN : WriteEeprom(EepromTuning(Opened, plan), ok)
  BY Zenon DEF SaveTuning
<1>3. owner.made /\ Opened \in LevelMaps
  BY <1>1, OpenedFacts DEF ConfigurationInv
<1>4. plan \in Plans
  BY <1>3 DEF NativeTyped
<1>5. EepromTuning(Opened, plan) \in Tunings
  BY <1>3, <1>4 DEF EepromTuning, Tunings, Squelches, Plans
<1>6. /\ image' \in Tunings \union {Blank}
      /\ setup' \in [gains : [Mixers -> Levels \union {Unset}], tuning : Tunings \union {Blank}]
  BY <1>2, <1>3, <1>5, WriteEepromFacts
<1>7. NativeTyped'
  BY <1>1, <1>3, <1>6 DEF NativeTyped
<1>8. ConfigurationInv'
  BY <1>1, ConfigurationsLeft DEF ConfigurationInv
<1>9. Agree(Opened, meant.now, doubt.now)
  BY DEF MixerInv, Opened
<1>10. MixerInv'
  BY <1>1, <1>9 DEF MixerInv
<1> QED
  BY <1>7, <1>8, <1>10

\* Erasing the EEPROM touches neither the mixers nor an update.
LEMMA EraseEepromKeeps ==
    ASSUME NativeInv, EraseEeprom
    PROVE  NativeInv'
<1> USE DEF NativeInv
<1>1. /\ owner.running
      /\ UNCHANGED <<owner, plan, settings, begun, token, txn, mixers, retained, line, meant,
                     doubt>>
  BY Zenon DEF EraseEeprom, station, history
<1>2. PICK ok \in BOOLEAN : WriteEeprom(Blank, ok)
  BY Zenon DEF EraseEeprom
<1>3. owner.made
  BY <1>1 DEF ConfigurationInv
<1>4. /\ image' \in Tunings \union {Blank}
      /\ setup' \in [gains : [Mixers -> Levels \union {Unset}], tuning : Tunings \union {Blank}]
  BY <1>2, <1>3, WriteEepromFacts
<1>5. NativeTyped'
  BY <1>1, <1>4 DEF NativeTyped
<1>6. ConfigurationInv'
  BY <1>1, ConfigurationsLeft DEF ConfigurationInv
<1>7. MixerInv'
  BY <1>1, MixersLeft
<1> QED
  BY <1>5, <1>6, <1>7

-----------------------------------------------------------------------------
(* The invariant.                                                          *)

\* At the start there is no station.
LEMMA NativeInitially == NativeInit => NativeInv
<1> SUFFICES ASSUME NativeInit PROVE NativeInv
  OBVIOUS
<1>1. /\ plan = Nil /\ settings = Nil /\ begun = Nil /\ token = Nil /\ txn = NoTxn
      /\ mixers = Closed /\ retained = Closed /\ image = Blank
      /\ line = [m \in Mixers |-> DefaultGain]
      /\ meant = [now |-> line, before |-> line]
      /\ doubt = [now |-> {}, before |-> {}]
  BY Zenon DEF NativeInit
<1>2. ASSUME NEW no \in BOOLEAN, ~no, NEW off \in BOOLEAN,
             owner = [made |-> no, running |-> no, service |-> "stopped", eeprom |-> off,
                      abandoned |-> off]
      PROVE  owner \in StationOwners /\ ~owner.made /\ ~owner.running
  BY <1>2 DEF StationOwners
<1>3. owner \in StationOwners /\ ~owner.made /\ ~owner.running
  BY <1>2, FALSE \in BOOLEAN, Zenon DEF NativeInit
<1>4. line \in LevelMaps
  BY <1>1, GainFacts DEF LevelMaps
<1>5. NativeTyped
  BY <1>1, <1>3, <1>4, NoTxnFacts DEF NativeTyped
<1>6. ConfigurationInv
  BY <1>1, <1>3, NoTxnFacts DEF ConfigurationInv
<1>7. MixerInv
  BY <1>1 DEF MixerInv, Agree
<1> QED
  BY <1>5, <1>6, <1>7 DEF NativeInv

\* Every step keeps the invariant.
LEMMA NativeStep == NativeInv /\ [NativeNext]_nativeVars => NativeInv'
<1> SUFFICES ASSUME NativeInv, [NativeNext]_nativeVars PROVE NativeInv'
  OBVIOUS
<1>1. CASE UNCHANGED nativeVars
  <2>1. UNCHANGED <<owner, plan, settings, begun, token, txn, setup, mixers, retained, image,
                    line, meant, doubt>>
    BY <1>1, Zenon DEF nativeVars, station, gear, history
  <2>2. owner \in StationOwners /\ (owner.running => owner.made)
    BY DEF NativeInv, NativeTyped, ConfigurationInv
  <2> QED
    BY <2>1, <2>2, OwnerOnly
<1>2. CASE \E r \in Requests : Create(r) \/ PrepareUpdate(r)
  BY <1>2, CreateKeeps, PrepareUpdateKeeps
<1>3. CASE Destroy
  BY <1>3, DestroyKeeps
<1>4. CASE Start \/ StartGainsFail \/ StartFails
  BY <1>4, StartKeeps, StartGainsFailKeeps, StartFailsKeeps
<1>5. CASE DestroyUpdate \/ (\E ok \in BOOLEAN : BeginUpdate(ok)) \/ BeginUnopened
  BY <1>5, DestroyUpdateKeeps, BeginUpdateKeeps, BeginUnopenedKeeps
<1>6. CASE (\E result \in {"adopted", "refused"} : Answer(result)) \/ AcceptUpdate
  BY <1>6, AnswerKeeps, AcceptUpdateKeeps
<1>7. CASE CommitUpdate \/ ReverseUpdate \/ RollBackUpdate
  BY <1>7, CommitUpdateKeeps, ReverseUpdateKeeps, RollBackUpdateKeeps
<1>8. CASE Stop \/ StopStreamFails \/ Quiesce
  BY <1>8, StopKeeps, StopStreamFailsKeeps, QuiesceKeeps
<1>9. CASE (\E m \in Mixers, level \in Levels : SetMixer(m, level)) \/ SaveTuning \/ EraseEeprom
  BY <1>9, SetMixerKeeps, SaveTuningKeeps, EraseEepromKeeps
<1> QED
  BY <1>1, <1>2, <1>3, <1>4, <1>5, <1>6, <1>7, <1>8, <1>9 DEF NativeNext

\* A native station is always in a state its owners can account for: what the host, the
\* mailbox and the mixers each remember of an update belongs to the same update
\* (NativeStation, HardwareMaintenance).
THEOREM NativeInvariant == NativeSpec => []NativeInv
<1> QED
  BY NativeInitially, NativeStep, PTL DEF NativeSpec

\* A live update of a native station happens or does not happen, on both sides of it:
\* with none pending the plan and the file belong to one request, and the mixers stand
\* where the operator's last successful calls put them (NativeStation::finish_update,
\* finish_stopped_update, HardwareMaintenance::finish_mixer_update).
THEOREM NativeUpdatesAreAtomic == NativeSpec => []UpdatesAreAtomic
<1>1. NativeInv => UpdatesAreAtomic
  BY DEF NativeInv, ConfigurationInv, MixerInv, Resolved, Agree, UpdatesAreAtomic,
         OneConfiguration, MixersAsMeant
<1> QED
  BY <1>1, NativeInvariant, PTL

-----------------------------------------------------------------------------
(* ControllerDelivery *)

Publishers ==
    [remainder : 0 .. (FrameUnits - 1), events : [0 .. (StatusCapacity - 1) -> Nat],
     produced : Nat]

Echoes == [state : {"Disabled", "Recording", "Playing"}, length : Nat, playback : Nat]

Controls == [transmit_keyed : BOOLEAN, receive_ctcss : BOOLEAN, transmit_ctcss : BOOLEAN]

Controllers ==
    [pending : Packet \union {none}, step : {"ReceiverState", "Status"},
     delivered_keyed : BOOLEAN, next_sequence : Nat, discarded : Nat,
     echo : Echoes, control : Controls]

HardwareRequests ==
    [transmit : BOOLEAN, override : BOOLEAN, inhibited : BOOLEAN, apart : SUBSET Words]

Logs == [count : Nat, last : Int]

Generations == [pub : Publishers, ctl : Controllers, hw : HardwareRequests, log : Logs]

Tasks ==
    {"idle", "program", "service", "drain1", "suspend", "drain2", "capture", "restore", "dead"}

\* Types of what belongs to one generation, and of the rest.
DeliveryTyped ==
    /\ pub \in Publishers
    /\ push \in {"idle", "full", "evicted"}
    /\ push = "idle" => inflight = none
    /\ push # "idle" => inflight \in Packet
    /\ ctl \in Controllers
    /\ hw \in HardwareRequests
    /\ log \in Logs
    /\ on \in BOOLEAN /\ host \in BOOLEAN /\ stale \in BOOLEAN
    /\ task \in Tasks

QueueTyped == queue \in Seq(Packet) /\ Len(queue) <= Capacity

\* A journal holds the last StatusCapacity events, each in its own slot.
Journal(p) ==
    \A s \in Nat :
        s < p.produced /\ p.produced <= s + StatusCapacity => p.events[s % StatusCapacity] = s

\* Every copy of the journal that is still to be read is in order.
JournalsInv ==
    /\ Journal(pub)
    /\ \A i \in 1 .. Len(queue) : Journal(queue[i])
    /\ push # "idle" => Journal(inflight)
    /\ ctl.pending # none => Journal(ctl.pending)

EchoOK(echo) ==
    /\ echo.length <= EchoFrames
    /\ echo.state = "Playing" => echo.playback < echo.length

Follows(h, control) ==
    /\ "transmit" \in h.apart \/ h.transmit = control.transmit_keyed
    /\ "override" \in h.apart \/ h.override # control.receive_ctcss
    /\ "inhibited" \in h.apart \/ h.inhibited # control.transmit_ctcss

\* What a generation's controller has counted, records and asks for.
Accounted(c, h, l) ==
    /\ l.count + c.discarded = c.next_sequence
    /\ l.count > 0 => l.last = c.next_sequence - 1
    /\ EchoOK(c.echo)
    /\ Follows(h, c.control)

\* A retired generation waits with nothing pending.
SavedInv ==
    saved # <<>> =>
        /\ saved[1] \in Generations
        /\ Journal(saved[1].pub)
        /\ saved[1].ctl.pending = none
        /\ Accounted(saved[1].ctl, saved[1].hw, saved[1].log)

\* From the second drain to the capture no callback runs and none is inside a push.
DrainInv ==
    /\ task \in {"drain2", "capture"} => ~on /\ push = "idle"
    /\ task = "capture" => Drained

DeliveryInv ==
    /\ DeliveryTyped /\ QueueTyped /\ JournalsInv /\ Accounted(ctl, hw, log) /\ SavedInv /\ DrainInv
    /\ KeyAgreement
-----------------------------------------------------------------------------
(* Two numbers less than m apart with the same remainder are equal.        *)
LEMMA ModWindow ==
    ASSUME NEW m \in Nat \ {0}, NEW a \in Nat, NEW b \in Nat, a <= b, b < a + m, a % m = b % m
    PROVE  a = b
  <1> DEFINE p == a \div m
             q == b \div m
             r == a % m
  <1>1. p \in Int /\ q \in Int /\ a = m * p + r /\ b = m * q + r /\ r \in 0 .. (m - 1)
    OBVIOUS
  <1> HIDE DEF p, q, r
  <1>2. m * (q - p) < m /\ m * (q - p) >= 0
    BY <1>1
  <1>3. q = p
    BY <1>1, <1>2
  <1> QED
    BY <1>1, <1>3

(* The numbers the constants stand for.                                    *)
LEMMA Limits ==
    /\ FrameUnits \in Nat /\ FrameUnits >= 1
    /\ StatusCapacity \in Nat \ {0} /\ StatusCapacity \in Nat /\ StatusCapacity >= 1
    /\ Capacity \in Nat /\ Capacity >= 1
    /\ EchoFrames \in Nat /\ EchoFrames >= 1
  BY ConstantsAssumption

(* Pushing events keeps the journal in order: an event is overwritten by   *)
(* the one StatusCapacity later and by no other.                           *)
LEMMA JournalPushFacts ==
    ASSUME NEW p \in Publishers, Journal(p), NEW n \in 0 .. 2
    PROVE  /\ JournalPush(p, n) \in Publishers
           /\ JournalPush(p, n).remainder = p.remainder
           /\ JournalPush(p, n).produced = p.produced + n
           /\ Journal(JournalPush(p, n))
  <1> DEFINE fresh(i) == {s \in p.produced .. (p.produced + n - 1) : s % StatusCapacity = i}
             newest(i) == CHOOSE s \in fresh(i) : \A t \in fresh(i) : t <= s
             ev == [i \in 0 .. (StatusCapacity - 1) |->
                       IF fresh(i) = {} THEN p.events[i] ELSE newest(i)]
             q == JournalPush(p, n)
  <1>1. /\ p.produced \in Nat /\ p.events \in [0 .. (StatusCapacity - 1) -> Nat]
        /\ DOMAIN p.events = 0 .. (StatusCapacity - 1)
    BY DEF Publishers
  <1>2. q = [p EXCEPT !.events = ev, !.produced = p.produced + n]
    BY <1>1 DEF JournalPush
  <1>3. ASSUME NEW i \in 0 .. (StatusCapacity - 1), fresh(i) # {}
        PROVE  /\ newest(i) \in fresh(i)
               /\ \A t \in fresh(i) : t <= newest(i)
               /\ newest(i) \in Nat
    <2>1. \E s \in fresh(i) : \A t \in fresh(i) : t <= s
      <3>1. CASE p.produced + 1 \in fresh(i)
        BY <1>1, <3>1
      <3>2. CASE p.produced + 1 \notin fresh(i)
        <4>1. \A t \in fresh(i) : t = p.produced
          BY <1>1, <3>2
        <4> HIDE DEF fresh
        <4> QED
          BY <1>1, <1>3, <4>1
      <3> QED
        BY <3>1, <3>2
    <2>2. newest(i) \in fresh(i) /\ \A t \in fresh(i) : t <= newest(i)
      <3> HIDE DEF fresh
      <3> QED
        BY <2>1, Zenon
    <2>3. newest(i) \in Nat
      <3> HIDE DEF newest
      <3> QED
        BY <1>1, <2>2
    <2> QED
      BY <2>2, <2>3
  <1>4. ev \in [0 .. (StatusCapacity - 1) -> Nat]
    <2> HIDE DEF fresh, newest
    <2> QED
      BY <1>1, <1>3
  <1>5. /\ q \in Publishers /\ q.remainder = p.remainder /\ q.produced = p.produced + n
        /\ q.events = ev
    <2> HIDE DEF ev, q
    <2>1. p.produced + n \in Nat
      BY <1>1
    <2> QED
      BY <1>1, <1>2, <1>4, <2>1 DEF Publishers
  <1>6. ASSUME NEW s \in Nat, s < p.produced + n, p.produced + n <= s + StatusCapacity
        PROVE  ev[s % StatusCapacity] = s
    <2> DEFINE i == s % StatusCapacity
    <2>1. i \in 0 .. (StatusCapacity - 1)
      BY Limits
    <2>2. ASSUME NEW t \in fresh(i)
          PROVE  t \in Nat /\ (t >= s => t = s) /\ (s >= t /\ t >= p.produced /\ s < t + StatusCapacity => t = s)
      <3>1. t \in Nat /\ t % StatusCapacity = s % StatusCapacity /\ t < p.produced + n
        BY <1>1
      <3>2. t < s + StatusCapacity
        BY <1>1, <1>6, <3>1, Limits
      <3> HIDE DEF fresh, i
      <3> QED
        BY <3>1, <3>2, ModWindow, Limits
    <2>3. CASE s >= p.produced
      <3>1. s \in fresh(i)
        BY <1>1, <1>6, <2>3
      <3> HIDE DEF i
      <3>2. newest(i) \in fresh(i) /\ newest(i) >= s
        <4> HIDE DEF fresh, newest
        <4> QED
          BY <1>3, <2>1, <3>1
      <3>3. newest(i) = s
        <4> HIDE DEF fresh, newest
        <4> QED
          BY <2>2, <3>2
      <3>4. ev[i] = newest(i)
        <4> HIDE DEF fresh, newest
        <4> QED
          BY <2>1, <3>1
      <3> QED
        BY <3>3, <3>4 DEF i
    <2>4. CASE s < p.produced
      <3>1. fresh(i) = {}
        <4>1. ASSUME NEW t \in fresh(i) PROVE FALSE
          <5>1. t \in Nat /\ t >= p.produced
            BY <1>1
          <5> HIDE DEF fresh, i
          <5> QED
            BY <1>1, <2>2, <2>4, <5>1
        <4> HIDE DEF fresh
        <4> QED
          BY <4>1
      <3>2. ev[i] = p.events[i]
        <4> HIDE DEF fresh, newest
        <4> QED
          BY <2>1, <3>1
      <3>3. p.events[i] = s
        <4>1. p.produced <= s + StatusCapacity
          BY <1>1, <1>6, Limits
        <4> QED
          BY <2>4, <4>1 DEF Journal
      <3> QED
        BY <3>2, <3>3
    <2> QED
      BY <1>1, <2>3, <2>4
  <1>7. Journal(q)
    <2> HIDE DEF ev, q
    <2> QED
      BY <1>5, <1>6 DEF Journal
  <1> QED
    BY <1>5, <1>7

(* A fresh generation.                                                     *)
LEMMA NewFacts ==
    /\ none \notin Packet
    /\ NewPublisher \in Publishers /\ Journal(NewPublisher)
    /\ NewController \in Controllers /\ NewController.pending = none
    /\ NewController.next_sequence = 0 /\ NewController.discarded = 0
    /\ NewController.echo = NewEcho /\ NewController.control = NewControl
    /\ ~NewController.delivered_keyed
    /\ NewEcho \in Echoes /\ NewControl \in Controls /\ EchoOK(NewEcho)
    /\ NewHardware \in HardwareRequests /\ NoStatus \in Logs /\ NoStatus.count = 0
    /\ Follows(NewHardware, NewControl)
  <1>1. none \notin Packet
    BY DEF none, Packet
  <1>2. NewPublisher \in Publishers /\ NewPublisher.produced = 0
    BY Limits DEF NewPublisher, Publishers
  <1>3. Journal(NewPublisher)
    BY <1>2 DEF Journal
  <1>4. NewEcho \in Echoes /\ NewControl \in Controls /\ EchoOK(NewEcho)
    BY Limits DEF NewEcho, Echoes, NewControl, Controls, EchoOK
  <1>5. /\ NewController \in Controllers /\ NewController.pending = none
        /\ NewController.next_sequence = 0 /\ NewController.discarded = 0
        /\ NewController.echo = NewEcho /\ NewController.control = NewControl
        /\ ~NewController.delivered_keyed
    BY <1>4 DEF NewController, Controllers
  <1>6. NewHardware \in HardwareRequests /\ NoStatus \in Logs /\ NoStatus.count = 0
    BY DEF NewHardware, HardwareRequests, NoStatus, Logs
  <1>7. Follows(NewHardware, NewControl)
    BY DEF NewHardware, NewControl, Follows
  <1> QED
    BY <1>1, <1>2, <1>3, <1>4, <1>5, <1>6, <1>7

(* The inductive invariant holds at the start.                             *)
LEMMA DeliveryStarts == Init => DeliveryInv
  <1> SUFFICES ASSUME Init PROVE DeliveryInv
    OBVIOUS
  <1>1. DeliveryTyped
    BY NewFacts DEF Init, DeliveryTyped, Tasks
  <1>2. QueueTyped
    BY Limits DEF Init, QueueTyped
  <1>3. JournalsInv /\ SavedInv /\ DrainInv
    BY NewFacts DEF Init, JournalsInv, SavedInv, DrainInv
  <1>4. Accounted(ctl, hw, log) /\ KeyAgreement
    <2>1. NewController.delivered_keyed = FALSE
      BY DEF NewController
    <2>2. KeyAgreement
      BY <2>1 DEF Init, KeyAgreement
    <2>3. Accounted(ctl, hw, log)
      BY NewFacts DEF Init, Accounted
    <2> QED
      BY <2>2, <2>3
  <1> QED
    BY <1>1, <1>2, <1>3, <1>4 DEF DeliveryInv

-----------------------------------------------------------------------------
(* Words that were taken back contradict no snapshot.                      *)
LEMMA ClearedFacts ==
    /\ Cleared \in HardwareRequests
    /\ \A control : Follows(Cleared, control)
  <1>1. Cleared \in HardwareRequests /\ Cleared.apart = Words
    BY DEF Cleared, NewHardware, HardwareRequests
  <1> QED
    BY <1>1 DEF Follows, Words

(* Steps that move the taskprocessor from one operation to the next, or    *)
(* stop a generation.                                                      *)
LEMMA TaskStep ==
    ASSUME DeliveryInv, UNCHANGED <<pub, queue, push, inflight, ctl, log, host, stale>>,
           hw' = hw \/ hw' = Cleared,
           task' \in Tasks, on' \in BOOLEAN, saved' = saved \/ saved' = <<>>, DrainInv'
    PROVE  DeliveryInv'
  <1>1. DeliveryTyped'
    BY ClearedFacts DEF DeliveryInv, DeliveryTyped
  <1>2. QueueTyped' /\ JournalsInv' /\ KeyAgreement'
    BY DEF DeliveryInv, QueueTyped, JournalsInv, KeyAgreement
  <1>3. Accounted(ctl, hw, log)' /\ SavedInv'
    BY ClearedFacts DEF DeliveryInv, Accounted, SavedInv
  <1> QED
    BY <1>1, <1>2, <1>3 DEF DeliveryInv

(* They are: a drain that is done, service, reload, suspension, its        *)
(* failures, and the end of a reload that commits.                         *)
LEMMA TaskSteps ==
    ASSUME DeliveryInv,
           \/ DrainDone \/ StartService \/ ProgramDrained \/ ReloadActivate \/ ReplaceFails
           \/ StopCandidate \/ Commit
           \/ \E ok \in BOOLEAN : Restore(ok) \/ \E quiet \in BOOLEAN : Suspend(ok, quiet)
    PROVE  DeliveryInv'
  <1>t. /\ on \in BOOLEAN /\ task \in Tasks
        /\ task \in {"drain2", "capture"} => ~on /\ push = "idle"
    BY DEF DeliveryInv, DeliveryTyped, DrainInv
  <1>1. CASE DrainDone
    <2>1. /\ UNCHANGED <<pub, queue, push, inflight, ctl, hw, log, host, stale, on, saved>>
          /\ ctl.pending = none /\ (queue = <<>> \/ push # "idle")
          /\ \/ task = "service" /\ task' = "idle"
             \/ task = "drain1" /\ task' = "suspend"
             \/ task = "drain2" /\ task' = "capture"
      BY <1>1 DEF DrainDone, Draining, adapter, publisher
    <2>2. DrainInv'
      BY <1>t, <2>1 DEF DrainInv, Drained
    <2>3. task' \in Tasks
      BY <2>1 DEF Tasks
    <2> QED
      BY <1>t, <2>1, <2>2, <2>3, TaskStep
  <1>2. CASE StartService \/ ProgramDrained \/ ReloadActivate
    <2>1. /\ UNCHANGED <<pub, queue, push, inflight, ctl, hw, log, host, stale, on, saved>>
          /\ task' \in {"program", "service", "drain1"}
      BY <1>2 DEF StartService, ProgramDrained, ReloadActivate, adapter, publisher
    <2>2. DrainInv' /\ task' \in Tasks
      BY <2>1 DEF DrainInv, Tasks
    <2> QED
      BY <1>t, <2>1, <2>2, TaskStep
  <1>3. CASE ReplaceFails
    <2>1. /\ UNCHANGED <<pub, queue, push, inflight, ctl, hw, log, host, stale, on, saved>>
          /\ task' = "restore"
      BY <1>3 DEF ReplaceFails, adapter, publisher
    <2>2. DrainInv' /\ task' \in Tasks
      BY <2>1 DEF DrainInv, Tasks
    <2> QED
      BY <1>t, <2>1, <2>2, TaskStep
  <1>4. CASE Commit
    <2>1. /\ UNCHANGED <<pub, queue, push, inflight, ctl, hw, log, host, stale, on, task>>
          /\ saved' = <<>> /\ task = "idle"
      BY <1>4 DEF Commit, adapter, publisher
    <2>2. DrainInv'
      BY <2>1 DEF DrainInv
    <2> QED
      BY <1>t, <2>1, <2>2, TaskStep
  <1>5. ASSUME NEW ok \in BOOLEAN, Restore(ok) PROVE DeliveryInv'
    <2>1. /\ UNCHANGED <<pub, queue, push, inflight, ctl, log, host, stale, saved>>
          /\ task' = "idle" /\ (hw' = hw \/ hw' = Cleared)
      BY <1>5 DEF Restore, publisher
    <2>2. on' \in BOOLEAN
      BY <1>5, Zenon DEF Restore
    <2>3. DrainInv' /\ task' \in Tasks
      BY <2>1 DEF DrainInv, Tasks
    <2> QED
      BY <2>1, <2>2, <2>3, TaskStep
  <1>6. ASSUME NEW ok \in BOOLEAN, NEW quiet \in BOOLEAN, Suspend(ok, quiet) PROVE DeliveryInv'
    <2>1. /\ UNCHANGED <<pub, queue, push, inflight, ctl, hw, log, host, stale, saved>>
          /\ (ok => quiet) /\ (quiet => push = "idle")
          /\ task' = IF ok THEN "drain2" ELSE "restore"
      BY <1>6 DEF Suspend, publisher
    <2>2. on' \in BOOLEAN /\ (quiet => ~on')
      BY <1>6, Zenon DEF Suspend
    <2>3. DrainInv' /\ task' \in Tasks
      BY <2>1, <2>2 DEF DrainInv, Tasks
    <2> QED
      BY <2>1, <2>2, <2>3, TaskStep
  <1>7. CASE StopCandidate
    <2>1. /\ UNCHANGED <<pub, queue, push, inflight, ctl, log, host, stale, task, saved>>
          /\ hw' = Cleared /\ on' = FALSE /\ task = "idle"
      BY <1>7 DEF StopCandidate, publisher
    <2>2. DrainInv'
      BY <2>1 DEF DrainInv
    <2> QED
      BY <1>t, <2>1, <2>2, TaskStep
  <1> QED
    BY <1>1, <1>2, <1>3, <1>4, <1>5, <1>6, <1>7

(* A packet offered to the handoff is read later as it was published.      *)
LEMMA OfferFacts ==
    ASSUME QueueTyped, NEW p \in Packet, Journal(p), Offer(p), push = "idle",
           \A i \in 1 .. Len(queue) : Journal(queue[i])
    PROVE  /\ QueueTyped'
           /\ \A i \in 1 .. Len(queue') : Journal(queue'[i])
           /\ \/ push' = "idle" /\ inflight' = inflight
              \/ push' = "full" /\ inflight' = p
  <1>1. queue \in Seq(Packet) /\ Len(queue) \in Nat /\ Len(queue) <= Capacity
    BY DEF QueueTyped
  <1>2. CASE Len(queue) < Capacity
    <2>1. queue' = Append(queue, p) /\ push' = push /\ inflight' = inflight
      BY <1>2 DEF Offer
    <2>2. /\ queue' \in Seq(Packet) /\ Len(queue') = Len(queue) + 1
          /\ \A i \in 1 .. Len(queue') : queue'[i] = IF i <= Len(queue) THEN queue[i] ELSE p
      BY <1>1, <2>1
    <2>3. ASSUME NEW i \in 1 .. Len(queue') PROVE Journal(queue'[i])
      <3>1. CASE i <= Len(queue)
        <4>1. i \in 1 .. Len(queue) /\ queue'[i] = queue[i]
          BY <1>1, <2>2, <3>1
        <4> QED
          BY <4>1
      <3>2. CASE ~(i <= Len(queue))
        BY <2>2, <3>2
      <3> QED
        BY <3>1, <3>2
    <2> QED
      BY <1>1, <1>2, <2>1, <2>2, <2>3, Limits DEF QueueTyped
  <1>3. CASE ~(Len(queue) < Capacity)
    BY <1>3 DEF Offer, QueueTyped
  <1> QED
    BY <1>2, <1>3

(* The receive callback.                                                   *)
LEMMA PublishStep ==
    ASSUME DeliveryInv, NEW units \in 1 .. FrameUnits, NEW convertible \in 0 .. FrameUnits,
           NEW keyed \in BOOLEAN, NEW statuses \in 0 .. 2,
           Publish(units, convertible, keyed, statuses)
    PROVE  DeliveryInv'
  <1> DEFINE journal == JournalPush(pub, statuses)
             total   == pub.remainder + units
             first   == IF total < FrameUnits THEN units ELSE FrameUnits - pub.remainder
             frame   == total >= FrameUnits /\ convertible >= first
             packet  == [keyed |-> keyed, events |-> journal.events, produced |-> journal.produced]
             remains == IF frame THEN convertible - first ELSE journal.remainder + convertible
  <1>1. /\ on /\ push = "idle"
        /\ convertible \in {0, first, units}
        /\ pub' = [journal EXCEPT !.remainder = remains]
        /\ IF frame THEN Offer(packet) ELSE UNCHANGED <<queue, push, inflight>>
        /\ UNCHANGED <<ctl, hw, on, log, task, saved, host, stale>>
    BY DEF Publish
  <1>t. /\ DeliveryTyped /\ pub \in Publishers /\ Journal(pub) /\ inflight = none
        /\ pub.remainder \in 0 .. (FrameUnits - 1)
    BY <1>1 DEF DeliveryInv, DeliveryTyped, JournalsInv, Publishers
  <1>2. /\ journal \in Publishers /\ journal.remainder = pub.remainder
        /\ Journal(journal)
    BY <1>t, JournalPushFacts
  <1> HIDE DEF journal
  <1>3. remains \in 0 .. (FrameUnits - 1)
    BY <1>1, <1>2, <1>t, Limits
  <1>4. /\ packet \in Packet /\ packet.events = journal.events
        /\ packet.produced = journal.produced
    BY <1>2 DEF Packet, Publishers
  <1> HIDE DEF remains, packet, frame, first, total
  <1>5. /\ pub' \in Publishers /\ pub'.events = journal.events
        /\ pub'.produced = journal.produced
    BY <1>1, <1>2, <1>3 DEF Publishers
  <1>6. Journal(packet) /\ Journal(pub')
    BY <1>2, <1>4, <1>5 DEF Journal
  <1>7. /\ QueueTyped'
        /\ \A i \in 1 .. Len(queue') : Journal(queue'[i])
        /\ \/ push' = "idle" /\ inflight' = inflight
           \/ push' = "full" /\ inflight' = packet
    <2>1. CASE frame
      BY <1>1, <1>4, <1>6, <2>1, OfferFacts DEF DeliveryInv, JournalsInv
    <2>2. CASE ~frame
      BY <1>1, <2>2 DEF DeliveryInv, JournalsInv, QueueTyped
    <2> QED
      BY <2>1, <2>2
  <1>8. DeliveryTyped'
    BY <1>1, <1>4, <1>5, <1>7, <1>t DEF DeliveryTyped
  <1>9. JournalsInv'
    BY <1>1, <1>6, <1>7 DEF DeliveryInv, JournalsInv
  <1>10. Accounted(ctl, hw, log)' /\ SavedInv' /\ KeyAgreement'
    BY <1>1 DEF DeliveryInv, Accounted, SavedInv, KeyAgreement
  <1>11. DrainInv'
    BY <1>1 DEF DeliveryInv, DrainInv
  <1> QED
    BY <1>7, <1>8, <1>9, <1>10, <1>11 DEF DeliveryInv

(* The rest of a push that overflows.                                      *)
LEMMA PushResolvesStep == ASSUME DeliveryInv, PushResolves PROVE DeliveryInv'
  <1>1. UNCHANGED <<pub, ctl, hw, on, log, task, saved, host, stale>>
    BY DEF PushResolves
  <1>2. \/ push = "full" /\ queue' = <<>> /\ push' = "evicted" /\ inflight' = inflight
        \/ push = "evicted" /\ queue' = <<inflight>> /\ push' = "idle" /\ inflight' = none
        \/ push = "full" /\ push' = "idle" /\ inflight' = none /\ queue' = queue
    BY DEF PushResolves
  <1>t. inflight \in Packet /\ Journal(inflight) /\ task \notin {"drain2", "capture"}
    BY <1>2 DEF DeliveryInv, DeliveryTyped, JournalsInv, DrainInv
  <1>3. DeliveryTyped'
    BY <1>1, <1>2, <1>t DEF DeliveryInv, DeliveryTyped
  <1>4. QueueTyped' /\ \A i \in 1 .. Len(queue') : Journal(queue'[i])
    <2>1. CASE queue' = <<>>
      BY <2>1, Limits DEF QueueTyped
    <2>2. CASE queue' = <<inflight>>
      <3>1. queue' \in Seq(Packet) /\ Len(queue') = 1 /\ queue'[1] = inflight
        BY <1>t, <2>2
      <3> QED
        BY <1>t, <3>1, Limits DEF QueueTyped
    <2>3. CASE queue' = queue
      BY <2>3 DEF DeliveryInv, QueueTyped, JournalsInv
    <2> QED
      BY <1>2, <2>1, <2>2, <2>3
  <1>5. JournalsInv'
    BY <1>1, <1>2, <1>4, <1>t DEF DeliveryInv, JournalsInv
  <1>6. Accounted(ctl, hw, log)' /\ SavedInv' /\ KeyAgreement' /\ DrainInv'
    BY <1>1, <1>t DEF DeliveryInv, Accounted, SavedInv, KeyAgreement, DrainInv
  <1> QED
    BY <1>3, <1>4, <1>5, <1>6 DEF DeliveryInv

-----------------------------------------------------------------------------
(* The packet next_action works on, and what is left of the handoff.       *)
LEMMA PendingFacts ==
    ASSUME DeliveryTyped, QueueTyped, JournalsInv, ctl.pending # none \/ queue # <<>>,
           queue' = IF ctl.pending = none THEN Tail(queue) ELSE queue
    PROVE  /\ Pending \in Packet /\ Pending # none /\ Journal(Pending)
           /\ QueueTyped'
           /\ \A i \in 1 .. Len(queue') : Journal(queue'[i])
  <1>1. queue \in Seq(Packet) /\ Len(queue) \in Nat /\ Len(queue) <= Capacity
    BY DEF QueueTyped
  <1>2. CASE ctl.pending # none
    <2>1. ctl.pending \in Packet /\ Journal(ctl.pending) /\ queue' = queue
      BY <1>2 DEF DeliveryTyped, Controllers, JournalsInv
    <2> QED
      BY <1>2, <2>1 DEF Pending, QueueTyped, JournalsInv
  <1>3. CASE ctl.pending = none
    <2>1. queue # <<>> /\ queue' = Tail(queue) /\ Pending = Head(queue)
      BY <1>3 DEF Pending
    <2>2. /\ Head(queue) = queue[1] /\ Head(queue) \in Packet /\ 1 \in 1 .. Len(queue)
          /\ Tail(queue) \in Seq(Packet) /\ Len(Tail(queue)) = Len(queue) - 1
      BY <1>1, <2>1
    <2>3. ASSUME NEW i \in 1 .. Len(Tail(queue)) PROVE Journal(Tail(queue)[i])
      <3>1. i + 1 \in 1 .. Len(queue) /\ Tail(queue)[i] = queue[i + 1]
        BY <1>1, <2>1
      <3> QED
        BY <3>1 DEF JournalsInv
    <2>4. QueueTyped'
      BY <1>1, <2>1, <2>2, Limits DEF QueueTyped
    <2> QED
      BY <2>1, <2>2, <2>3, <2>4, NewFacts DEF JournalsInv
  <1> QED
    BY <1>2, <1>3

(* What the echo records and when it starts to play.                       *)
LEMMA EchoFacts ==
    ASSUME NEW e \in Echoes, EchoOK(e), NEW keyed \in BOOLEAN
    PROVE  /\ EchoReceive(e, keyed) \in Echoes /\ EchoOK(EchoReceive(e, keyed))
           /\ e.state = "Playing" => EchoPlayed(e) \in Echoes /\ EchoOK(EchoPlayed(e))
           /\ \A state \in {"Disabled", "Recording"} :
                 ClearedEcho(state) \in Echoes /\ EchoOK(ClearedEcho(state))
  <1>1. e.length \in Nat /\ e.playback \in Nat /\ EchoFrames \in Nat
    BY Limits DEF Echoes
  <1>2. \A state \in {"Disabled", "Recording"} :
            ClearedEcho(state) \in Echoes /\ EchoOK(ClearedEcho(state))
    BY <1>1 DEF ClearedEcho, Echoes, EchoOK
  <1>3. EchoReceive(e, keyed) \in Echoes /\ EchoOK(EchoReceive(e, keyed))
    <2>1. CASE e.state # "Recording"
      BY <2>1 DEF EchoReceive
    <2>2. CASE e.state = "Recording" /\ keyed
      <3> DEFINE n == IF e.length < EchoFrames THEN e.length + 1 ELSE e.length
      <3>1. EchoReceive(e, keyed) = [e EXCEPT !.length = n]
        BY <2>2 DEF EchoReceive
      <3>2. n \in Nat /\ n <= EchoFrames
        BY <1>1 DEF EchoOK
      <3> HIDE DEF n
      <3> QED
        BY <2>2, <3>1, <3>2 DEF Echoes, EchoOK
    <2>3. CASE e.state = "Recording" /\ ~keyed /\ e.length # 0
      <3>1. EchoReceive(e, keyed) = [e EXCEPT !.state = "Playing", !.playback = 0]
        BY <2>3 DEF EchoReceive
      <3> DEFINE r == [e EXCEPT !.state = "Playing", !.playback = 0]
      <3>2. r \in Echoes /\ r.playback = 0 /\ r.length = e.length
        BY DEF Echoes
      <3> HIDE DEF r
      <3> QED
        BY <1>1, <2>3, <3>1, <3>2 DEF EchoOK, r
    <2>4. CASE e.state = "Recording" /\ ~keyed /\ e.length = 0
      BY <2>4 DEF EchoReceive
    <2> QED
      BY <2>1, <2>2, <2>3, <2>4
  <1>4. ASSUME e.state = "Playing"
        PROVE  EchoPlayed(e) \in Echoes /\ EchoOK(EchoPlayed(e))
    <2>1. CASE e.playback + 1 >= e.length
      BY <1>2, <2>1 DEF EchoPlayed
    <2>2. CASE ~(e.playback + 1 >= e.length)
      <3>1. EchoPlayed(e) = [e EXCEPT !.playback = e.playback + 1]
        BY <2>2 DEF EchoPlayed
      <3> QED
        BY <1>1, <2>2, <3>1 DEF Echoes, EchoOK
    <2> QED
      BY <2>1, <2>2
  <1> QED
    BY <1>2, <1>3, <1>4

(* The fields of the controller.                                           *)
LEMMA ControllerFacts ==
    ASSUME DeliveryTyped
    PROVE  /\ ctl.next_sequence \in Nat /\ ctl.discarded \in Nat /\ ctl.delivered_keyed \in BOOLEAN
           /\ ctl.echo \in Echoes /\ ctl.control \in Controls
           /\ log.count \in Nat /\ log.last \in Int
  BY DEF DeliveryTyped, Controllers, Logs

(* A text: the event at the cursor is in its slot of the journal.          *)
LEMMA StatusTextFacts ==
    ASSUME DeliveryTyped, Accounted(ctl, hw, log), Pending \in Packet, Journal(Pending), StatusText,
           hw' = hw
    PROVE  ctl' \in Controllers /\ ctl'.pending = Pending /\ log' \in Logs
           /\ ctl'.delivered_keyed = ctl.delivered_keyed /\ Accounted(ctl, hw, log)'
  <1> DEFINE p == Pending
             next == Cursor(p)
  <1>1. /\ next < p.produced
        /\ ctl' = [ctl EXCEPT !.pending = p, !.step = "Status", !.next_sequence = next + 1,
                              !.discarded = ctl.discarded + (next - ctl.next_sequence)]
        /\ log' = [count |-> log.count + 1, last |-> p.events[next % StatusCapacity]]
    BY DEF StatusText
  <1>2. p.produced \in Nat /\ ctl.next_sequence \in Nat /\ ctl.discarded \in Nat /\ log.count \in Nat
    BY ControllerFacts DEF Packet
  <1>3. next \in Nat /\ next >= ctl.next_sequence /\ p.produced <= next + StatusCapacity
    BY <1>2, Limits DEF Cursor, OldestSequence
  <1>4. p.events[next % StatusCapacity] = next
    <2> HIDE DEF next, p
    <2> QED
      BY <1>1, <1>2, <1>3 DEF Journal, p
  <1>5. p \in Packet
    OBVIOUS
  <1> HIDE DEF next, p
  <1>6. ctl.discarded + (next - ctl.next_sequence) \in Nat /\ next + 1 \in Nat
    BY <1>2, <1>3
  <1>7. /\ ctl' \in Controllers /\ ctl'.pending = p
        /\ ctl'.delivered_keyed = ctl.delivered_keyed
        /\ ctl'.next_sequence = next + 1 /\ ctl'.echo = ctl.echo /\ ctl'.control = ctl.control
        /\ ctl'.discarded = ctl.discarded + (next - ctl.next_sequence)
    BY <1>1, <1>5, <1>6 DEF DeliveryTyped, Controllers
  <1>8. log' \in Logs /\ log'.count = log.count + 1 /\ log'.last = next
    BY <1>1, <1>2, <1>3, <1>4 DEF Logs
  <1>9. Accounted(ctl, hw, log)'
    BY <1>2, <1>3, <1>7, <1>8 DEF Accounted
  <1> QED
    BY <1>7, <1>8, <1>9 DEF p

(* One call of next_action and the delivery of what it returns.            *)
LEMMA DeliverStep == ASSUME DeliveryInv, NEW outcome \in Outcomes, DeliverNext(outcome) PROVE DeliveryInv'
  <1>1. /\ Draining /\ (ctl.pending # none \/ queue # <<>>)
        /\ queue' = IF ctl.pending = none THEN Tail(queue) ELSE queue
        /\ task' = TaskAfter(outcome)
        /\ UNCHANGED <<pub, push, inflight, hw, on, saved>>
    BY DEF DeliverNext
  <1>t. DeliveryTyped /\ QueueTyped /\ JournalsInv /\ Accounted(ctl, hw, log) /\ DrainInv
    BY DEF DeliveryInv
  <1>2. /\ Pending \in Packet /\ Pending # none /\ Journal(Pending)
        /\ QueueTyped' /\ \A i \in 1 .. Len(queue') : Journal(queue'[i])
    BY <1>1, <1>t, PendingFacts
  <1>3. Pending.keyed \in BOOLEAN
    BY <1>2 DEF Packet
  <1>4. /\ ctl' \in Controllers /\ log' \in Logs /\ Accounted(ctl, hw, log)'
        /\ ctl'.pending = Pending \/ ctl'.pending = none
        /\ host' \in BOOLEAN /\ stale' \in BOOLEAN /\ KeyAgreement'
    <2>1. CASE Edge(outcome)
      <3> DEFINE keyed == Pending.keyed
                 dropped == outcome # "queued"
      <3>1. /\ ctl' = [ctl EXCEPT !.pending = Pending, !.step = "Status", !.delivered_keyed = keyed]
            /\ host' = IF outcome = "queued" THEN keyed ELSE host
            /\ stale' = dropped
            /\ log' = log
        BY <2>1, Zenon DEF Edge
      <3>2. dropped \in BOOLEAN /\ (~dropped => outcome = "queued")
        BY Zenon
      <3> HIDE DEF keyed, dropped
      <3>3. keyed \in BOOLEAN
        BY <1>3 DEF keyed
      <3>4. /\ ctl' \in Controllers /\ ctl'.pending = Pending /\ ctl'.delivered_keyed = keyed
            /\ ctl'.next_sequence = ctl.next_sequence /\ ctl'.discarded = ctl.discarded
            /\ ctl'.echo = ctl.echo /\ ctl'.control = ctl.control
        BY <1>2, <1>t, <3>1, <3>3 DEF DeliveryTyped, Controllers
      <3>5. Accounted(ctl, hw, log)' /\ log' \in Logs
        BY <1>1, <1>t, <3>1, <3>4 DEF DeliveryTyped, Accounted
      <3>6. host' \in BOOLEAN /\ stale' \in BOOLEAN
        BY <1>t, <3>1, <3>2, <3>3 DEF DeliveryTyped
      <3>7. KeyAgreement'
        BY <3>1, <3>2, <3>4 DEF KeyAgreement
      <3> QED
        BY <3>4, <3>5, <3>6, <3>7
    <2>2. CASE StatusText
      <3>1. UNCHANGED <<host, stale>>
        BY <2>2 DEF StatusText
      <3>2. ctl' \in Controllers /\ ctl'.pending = Pending /\ log' \in Logs
            /\ ctl'.delivered_keyed = ctl.delivered_keyed /\ Accounted(ctl, hw, log)'
        BY <1>1, <1>2, <1>t, <2>2, StatusTextFacts
      <3> QED
        BY <1>t, <3>1, <3>2 DEF DeliveryInv, DeliveryTyped, KeyAgreement
    <2>3. CASE Voice
      <3>1. /\ ctl' = [ctl EXCEPT !.pending = none, !.step = "ReceiverState",
                                  !.echo = EchoReceive(ctl.echo, Pending.keyed)]
            /\ UNCHANGED <<log, host, stale>>
        BY <2>3 DEF Voice
      <3>2. /\ EchoReceive(ctl.echo, Pending.keyed) \in Echoes
            /\ EchoOK(EchoReceive(ctl.echo, Pending.keyed))
        BY <1>3, <1>t, EchoFacts, ControllerFacts DEF Accounted
      <3>3. /\ ctl' \in Controllers /\ ctl'.pending = none
            /\ ctl'.delivered_keyed = ctl.delivered_keyed
            /\ ctl'.next_sequence = ctl.next_sequence /\ ctl'.discarded = ctl.discarded
            /\ EchoOK(ctl'.echo) /\ ctl'.control = ctl.control
        BY <1>t, <3>1, <3>2 DEF DeliveryTyped, Controllers
      <3>4. Accounted(ctl, hw, log)' /\ log' \in Logs
        BY <1>1, <1>t, <3>1, <3>3 DEF DeliveryTyped, Accounted
      <3> QED
        BY <1>t, <3>1, <3>3, <3>4 DEF DeliveryInv, DeliveryTyped, KeyAgreement
    <2> QED
      BY <2>1, <2>2, <2>3 DEF DeliverNext
  <1>5. task' \in Tasks \ {"capture"} /\ (task' = "drain2" => task = "drain2")
    BY <1>1 DEF Draining, TaskAfter, Tasks
  <1>6. DeliveryTyped'
    BY <1>1, <1>4, <1>5, <1>t DEF DeliveryTyped
  <1>7. JournalsInv'
    BY <1>1, <1>2, <1>4, <1>t DEF JournalsInv
  <1>8. DrainInv'
    BY <1>1, <1>5, <1>t DEF DrainInv
  <1>9. SavedInv'
    BY <1>1 DEF DeliveryInv, SavedInv
  <1> QED
    BY <1>2, <1>4, <1>6, <1>7, <1>8, <1>9 DEF DeliveryInv

-----------------------------------------------------------------------------
(* Steps that change the controller's settings or its echo, and what the   *)
(* hardware is asked for with them.                                        *)
LEMMA SettingStep ==
    ASSUME DeliveryInv, UNCHANGED <<pub, queue, push, inflight, on, log, saved, host, stale>>,
           task' \in Tasks \ {"drain2", "capture"},
           NEW echo \in Echoes, EchoOK(echo), NEW control \in Controls,
           ctl' = [ctl EXCEPT !.echo = echo, !.control = control],
           hw' \in HardwareRequests, Follows(hw', control)
    PROVE  DeliveryInv'
  <1>1. /\ ctl' \in Controllers /\ ctl'.pending = ctl.pending
        /\ ctl'.delivered_keyed = ctl.delivered_keyed
        /\ ctl'.next_sequence = ctl.next_sequence /\ ctl'.discarded = ctl.discarded
        /\ ctl'.echo = echo /\ ctl'.control = control
    BY DEF DeliveryInv, DeliveryTyped, Controllers
  <1>2. DeliveryTyped'
    BY <1>1 DEF DeliveryInv, DeliveryTyped
  <1>3. QueueTyped' /\ JournalsInv' /\ KeyAgreement'
    BY <1>1 DEF DeliveryInv, QueueTyped, JournalsInv, KeyAgreement
  <1>4. Accounted(ctl, hw, log)' /\ SavedInv' /\ DrainInv'
    BY <1>1 DEF DeliveryInv, Accounted, SavedInv, DrainInv
  <1> QED
    BY <1>2, <1>3, <1>4 DEF DeliveryInv

(* A controller changed in one of the two is changed in both.              *)
LEMMA ControllerEquality ==
    ASSUME NEW c \in Controllers, NEW echo, NEW control
    PROVE  /\ [c EXCEPT !.echo = echo] = [c EXCEPT !.echo = echo, !.control = c.control]
           /\ [c EXCEPT !.control = control] = [c EXCEPT !.echo = c.echo, !.control = control]
           /\ c = [c EXCEPT !.echo = c.echo, !.control = c.control]
  BY DEF Controllers

(* A frame of program audio, or none.                                      *)
LEMMA WriteProgramStep == ASSUME DeliveryInv, NEW accepted \in BOOLEAN, WriteProgram(accepted) PROVE DeliveryInv'
  <1>t. DeliveryTyped /\ ctl \in Controllers /\ Accounted(ctl, hw, log)
    BY DEF DeliveryInv, DeliveryTyped
  <1>c. ctl.echo \in Echoes /\ EchoOK(ctl.echo) /\ ctl.control \in Controls
        /\ hw \in HardwareRequests /\ Follows(hw, ctl.control)
    BY <1>t, ControllerFacts DEF DeliveryTyped, Accounted
  <1>1. /\ UNCHANGED <<pub, queue, push, inflight, on, log, saved, host, stale, hw>>
        /\ task' \in {"program", "dead"}
    BY DEF WriteProgram, publisher
  <1>2. task' \in Tasks \ {"drain2", "capture"}
    BY <1>1 DEF Tasks
  <1> DEFINE echo == IF accepted /\ ctl.echo.state = "Playing" THEN EchoPlayed(ctl.echo) ELSE ctl.echo
  <1>3. ctl' = [ctl EXCEPT !.echo = echo, !.control = ctl.control]
    <2>1. CASE accepted
      <3>1. ctl' = [ctl EXCEPT !.echo = echo]
        BY <2>1 DEF WriteProgram
      <3> HIDE DEF echo
      <3> QED
        BY <1>t, <3>1, ControllerEquality
    <2>2. CASE ~accepted
      BY <1>t, <2>2, ControllerEquality DEF WriteProgram
    <2> QED
      BY <2>1, <2>2
  <1>4. echo \in Echoes /\ EchoOK(echo)
    <2>1. ctl.echo.state = "Playing" => EchoPlayed(ctl.echo) \in Echoes /\ EchoOK(EchoPlayed(ctl.echo))
      BY <1>c, EchoFacts
    <2> QED
      BY <1>c, <2>1
  <1> HIDE DEF echo
  <1> QED
    BY <1>1, <1>2, <1>3, <1>4, <1>c, SettingStep

(* The echo is switched on or off.                                         *)
LEMMA SetEchoStep == ASSUME DeliveryInv, NEW enabled \in BOOLEAN, SetEcho(enabled) PROVE DeliveryInv'
  <1>t. DeliveryTyped /\ ctl \in Controllers /\ Accounted(ctl, hw, log)
    BY DEF DeliveryInv, DeliveryTyped
  <1>c. ctl.echo \in Echoes /\ EchoOK(ctl.echo) /\ ctl.control \in Controls
        /\ hw \in HardwareRequests /\ Follows(hw, ctl.control)
    BY <1>t, ControllerFacts DEF DeliveryTyped, Accounted
  <1> DEFINE echo == ClearedEcho(IF enabled THEN "Recording" ELSE "Disabled")
  <1>1. /\ UNCHANGED <<pub, queue, push, inflight, on, log, saved, host, stale, hw>>
        /\ task' = "idle"
        /\ ctl' = [ctl EXCEPT !.echo = echo]
    BY DEF SetEcho, Operation, publisher
  <1>2. task' \in Tasks \ {"drain2", "capture"}
    BY <1>1 DEF Tasks
  <1>3. echo \in Echoes /\ EchoOK(echo)
    BY <1>c, EchoFacts
  <1> HIDE DEF echo
  <1>4. ctl' = [ctl EXCEPT !.echo = echo, !.control = ctl.control]
    BY <1>1, <1>t, ControllerEquality
  <1> QED
    BY <1>1, <1>2, <1>3, <1>4, <1>c, SettingStep

(* A controller message that changes the snapshot and the hardware.        *)
LEMMA ApplyControlStep ==
    ASSUME DeliveryInv, NEW field \in DOMAIN NewControl, NEW value \in BOOLEAN, ApplyControl(field, value)
    PROVE  DeliveryInv'
  <1>t. DeliveryTyped /\ ctl \in Controllers /\ Accounted(ctl, hw, log)
    BY DEF DeliveryInv, DeliveryTyped
  <1>c. ctl.echo \in Echoes /\ EchoOK(ctl.echo) /\ ctl.control \in Controls
        /\ hw \in HardwareRequests /\ Follows(hw, ctl.control)
    BY <1>t, ControllerFacts DEF DeliveryTyped, Accounted
  <1> DEFINE control == Applied(ctl.control, field, value)
             off == ~value
  <1>1. /\ UNCHANGED <<pub, queue, push, inflight, on, log, saved, host, stale>>
        /\ task' = "idle"
        /\ ctl' = [ctl EXCEPT !.control = control]
    BY DEF ApplyControl, Operation, publisher
  <1>2. task' \in Tasks \ {"drain2", "capture"}
    BY <1>1 DEF Tasks
  <1>3. field \in {"transmit_keyed", "receive_ctcss", "transmit_ctcss"}
    BY DEF NewControl
  <1>4. off \in BOOLEAN /\ off # value
    BY Zenon
  <1>5. hw' = CASE field = "transmit_keyed" ->
                       [hw EXCEPT !.transmit = value, !.apart = hw.apart \ {"transmit"}]
                [] field = "receive_ctcss"  ->
                       [hw EXCEPT !.override = off, !.apart = hw.apart \ {"override"}]
                [] field = "transmit_ctcss" ->
                       [hw EXCEPT !.inhibited = off, !.apart = hw.apart \ {"inhibited"}]
    BY Zenon DEF ApplyControl
  <1> HIDE DEF off
  <1>6. control \in Controls /\ hw' \in HardwareRequests /\ Follows(hw', control)
    <2>1. CASE field = "transmit_keyed"
      <3>1. /\ control = [ctl.control EXCEPT !.transmit_keyed = value]
            /\ hw' = [hw EXCEPT !.transmit = value, !.apart = hw.apart \ {"transmit"}]
        BY <1>5, <2>1 DEF Applied
      <3> QED
        BY <1>c, <3>1 DEF Controls, HardwareRequests, Follows
    <2>2. CASE field = "receive_ctcss"
      <3>1. /\ control = [ctl.control EXCEPT !.receive_ctcss = value]
            /\ hw' = [hw EXCEPT !.override = off, !.apart = hw.apart \ {"override"}]
        BY <1>5, <2>2 DEF Applied
      <3>2. control \in Controls /\ hw' \in HardwareRequests
        BY <1>4, <1>c, <3>1 DEF Controls, HardwareRequests
      <3>3. /\ hw'.override = off /\ control.receive_ctcss = value
            /\ \A w \in Words \ {"override"} : w \in hw'.apart <=> w \in hw.apart
        BY <1>c, <3>1 DEF Controls, HardwareRequests
      <3>4. /\ hw'.transmit = hw.transmit /\ hw'.inhibited = hw.inhibited
            /\ control.transmit_keyed = ctl.control.transmit_keyed
            /\ control.transmit_ctcss = ctl.control.transmit_ctcss
        BY <1>c, <3>1 DEF Controls, HardwareRequests
      <3> HIDE DEF control
      <3> QED
        BY <1>4, <1>c, <3>2, <3>3, <3>4, Zenon DEF Follows, Words
    <2>3. CASE field = "transmit_ctcss"
      <3>1. /\ control = [ctl.control EXCEPT !.transmit_ctcss = value]
            /\ hw' = [hw EXCEPT !.inhibited = off, !.apart = hw.apart \ {"inhibited"}]
        BY <1>5, <2>3 DEF Applied
      <3>2. control \in Controls /\ hw' \in HardwareRequests
        BY <1>4, <1>c, <3>1 DEF Controls, HardwareRequests
      <3>3. /\ hw'.inhibited = off /\ control.transmit_ctcss = value
            /\ \A w \in Words \ {"inhibited"} : w \in hw'.apart <=> w \in hw.apart
        BY <1>c, <3>1 DEF Controls, HardwareRequests
      <3>4. /\ hw'.transmit = hw.transmit /\ hw'.override = hw.override
            /\ control.transmit_keyed = ctl.control.transmit_keyed
            /\ control.receive_ctcss = ctl.control.receive_ctcss
        BY <1>c, <3>1 DEF Controls, HardwareRequests
      <3> HIDE DEF control
      <3> QED
        BY <1>4, <1>c, <3>2, <3>3, <3>4, Zenon DEF Follows, Words
    <2> QED
      BY <1>3, <2>1, <2>2, <2>3
  <1> HIDE DEF control
  <1>7. ctl' = [ctl EXCEPT !.echo = ctl.echo, !.control = control]
    BY <1>1, <1>t, ControllerEquality
  <1> QED
    BY <1>1, <1>2, <1>6, <1>7, <1>c, SettingStep

(* An operator's command writes a word past the snapshot.                  *)
LEMMA CommandStep ==
    ASSUME DeliveryInv, NEW word \in {"override", "inhibited"}, NEW value \in BOOLEAN,
           Command(word, value)
    PROVE  DeliveryInv'
  <1>t. DeliveryTyped /\ ctl \in Controllers /\ Accounted(ctl, hw, log)
    BY DEF DeliveryInv, DeliveryTyped
  <1>c. ctl.echo \in Echoes /\ EchoOK(ctl.echo) /\ ctl.control \in Controls
        /\ hw \in HardwareRequests /\ Follows(hw, ctl.control)
    BY <1>t, ControllerFacts DEF DeliveryTyped, Accounted
  <1>1. /\ UNCHANGED <<pub, queue, push, inflight, ctl, on, log, task, saved, host, stale>>
        /\ task = "idle"
        /\ hw' = [hw EXCEPT ![word] = value, !.apart = hw.apart \union {word}]
    BY DEF Command, Operation, publisher
  <1>2. task' \in Tasks \ {"drain2", "capture"}
    BY <1>1 DEF Tasks
  <1>3. hw' \in HardwareRequests /\ Follows(hw', ctl.control)
    <2>1. CASE word = "override"
      <3>1. hw' = [hw EXCEPT !.override = value, !.apart = hw.apart \union {"override"}]
        BY <1>1, <2>1
      <3> QED
        BY <1>c, <3>1 DEF HardwareRequests, Words, Follows
    <2>2. CASE word = "inhibited"
      <3>1. hw' = [hw EXCEPT !.inhibited = value, !.apart = hw.apart \union {"inhibited"}]
        BY <1>1, <2>2
      <3> QED
        BY <1>c, <3>1 DEF HardwareRequests, Words, Follows
    <2> QED
      BY <2>1, <2>2
  <1>4. ctl' = [ctl EXCEPT !.echo = ctl.echo, !.control = ctl.control]
    BY <1>1, <1>t, ControllerEquality
  <1> QED
    BY <1>1, <1>2, <1>3, <1>4, <1>c, SettingStep

-----------------------------------------------------------------------------
(* A reload replaces the generation: the snapshot, the echo and the key    *)
(* state live on, and the hardware is asked for what the snapshot says.    *)
LEMMA ReplaceStep == ASSUME DeliveryInv, Replace PROVE DeliveryInv'
  <1>1. /\ task = "capture" /\ ctl.pending = none /\ queue = <<>>
        /\ saved' = <<[pub |-> pub, ctl |-> ctl, hw |-> hw, log |-> log]>>
        /\ pub' = NewPublisher /\ ctl' = Retained(ctl) /\ hw' = ApplyToHardware(ctl.control)
        /\ log' = NoStatus /\ on' = TRUE /\ task' = "idle"
        /\ UNCHANGED <<queue, push, inflight, host, stale>>
    BY DEF Replace, Drained
  <1>t. DeliveryTyped /\ Accounted(ctl, hw, log) /\ Journal(pub)
    BY DEF DeliveryInv, JournalsInv
  <1>c. ctl.echo \in Echoes /\ EchoOK(ctl.echo) /\ ctl.control \in Controls
        /\ ctl.delivered_keyed \in BOOLEAN
    BY <1>t, ControllerFacts DEF DeliveryTyped, Accounted
  <1>2. /\ ctl' \in Controllers /\ ctl'.pending = none
        /\ ctl'.delivered_keyed = ctl.delivered_keyed
        /\ ctl'.next_sequence = 0 /\ ctl'.discarded = 0
        /\ ctl'.echo = ctl.echo /\ ctl'.control = ctl.control
    BY <1>1, <1>c, NewFacts DEF Retained, Controllers
  <1>3. hw' \in HardwareRequests /\ Follows(hw', ctl.control)
    <2> DEFINE r == ~ctl.control.receive_ctcss
               x == ~ctl.control.transmit_ctcss
               k == ctl.control.transmit_keyed
    <2>1. hw' = [transmit |-> k, override |-> r, inhibited |-> x, apart |-> {}]
      BY <1>1, Zenon DEF ApplyToHardware
    <2>2. r \in BOOLEAN /\ x \in BOOLEAN
      BY Zenon
    <2>3. /\ ctl.control.receive_ctcss \in BOOLEAN /\ ctl.control.transmit_ctcss \in BOOLEAN
          /\ k \in BOOLEAN
      BY <1>c DEF Controls
    <2>4. r # ctl.control.receive_ctcss /\ x # ctl.control.transmit_ctcss
      BY <2>3, Zenon
    <2> HIDE DEF r, x
    <2> QED
      BY <2>1, <2>2, <2>3, <2>4 DEF HardwareRequests, Follows
  <1>4. DeliveryTyped'
    BY <1>1, <1>2, <1>3, <1>t, NewFacts DEF DeliveryTyped, Tasks
  <1>5. QueueTyped' /\ JournalsInv'
    BY <1>1, <1>2, NewFacts DEF DeliveryInv, QueueTyped, JournalsInv
  <1>6. Accounted(ctl, hw, log)' /\ KeyAgreement'
    BY <1>1, <1>2, <1>3, <1>c, NewFacts DEF DeliveryInv, Accounted, KeyAgreement
  <1>7. SavedInv'
    <2> DEFINE g == [pub |-> pub, ctl |-> ctl, hw |-> hw, log |-> log]
    <2>1. g \in Generations /\ g.pub = pub /\ g.ctl = ctl /\ g.hw = hw /\ g.log = log
      BY <1>t DEF DeliveryTyped, Generations
    <2>2. saved' = <<g>>
      BY <1>1
    <2> HIDE DEF g
    <2>3. saved'[1] = g
      BY <2>2
    <2> QED
      BY <1>1, <1>t, <2>1, <2>3 DEF SavedInv
  <1>8. DrainInv'
    BY <1>1 DEF DrainInv
  <1> QED
    BY <1>4, <1>5, <1>6, <1>7, <1>8 DEF DeliveryInv

(* An aborted reload brings the retired generation back.                   *)
LEMMA AbortStep == ASSUME DeliveryInv, NEW ok \in BOOLEAN, Abort(ok) PROVE DeliveryInv'
  <1>1. /\ task = "idle" /\ saved # <<>> /\ push = "idle"
        /\ pub' = saved[1].pub /\ ctl' = saved[1].ctl /\ log' = saved[1].log
        /\ hw' = saved[1].hw \/ hw' = Cleared
        /\ queue' = <<>> /\ on' = ok /\ saved' = <<>> /\ stale' = TRUE
        /\ UNCHANGED <<push, inflight, task, host>>
    BY DEF Abort
  <1>2. /\ saved[1] \in Generations /\ Journal(saved[1].pub) /\ saved[1].ctl.pending = none
        /\ Accounted(saved[1].ctl, saved[1].hw, saved[1].log)
    BY <1>1 DEF DeliveryInv, SavedInv
  <1>3. /\ pub' \in Publishers /\ ctl' \in Controllers /\ hw' \in HardwareRequests /\ log' \in Logs
    BY <1>1, <1>2, ClearedFacts DEF Generations
  <1>4. DeliveryTyped'
    BY <1>1, <1>3 DEF DeliveryInv, DeliveryTyped
  <1>5. QueueTyped' /\ JournalsInv'
    BY <1>1, <1>2, Limits DEF QueueTyped, JournalsInv
  <1>6. Accounted(ctl, hw, log)' /\ KeyAgreement' /\ SavedInv' /\ DrainInv'
    BY <1>1, <1>2, ClearedFacts DEF Accounted, KeyAgreement, SavedInv, DrainInv
  <1> QED
    BY <1>4, <1>5, <1>6 DEF DeliveryInv

-----------------------------------------------------------------------------
(* Every step preserves the invariant.                                     *)
LEMMA DeliveryKeeps == DeliveryInv /\ [Next]_vars => DeliveryInv'
  <1> SUFFICES ASSUME DeliveryInv, [Next]_vars PROVE DeliveryInv'
    OBVIOUS
  <1>1. CASE Callback
    BY <1>1, PublishStep, PushResolvesStep DEF Callback
  <1>2. CASE Delivery
    BY <1>2, DeliverStep, TaskSteps DEF Delivery
  <1>3. CASE Program
    BY <1>3, WriteProgramStep, TaskSteps DEF Program
  <1>4. CASE Setting
    BY <1>4, ApplyControlStep, CommandStep, SetEchoStep DEF Setting
  <1>5. CASE Reload
    BY <1>5, TaskSteps, ReplaceStep, AbortStep DEF Reload
  <1>6. CASE UNCHANGED vars
    <2>1. UNCHANGED <<pub, queue, push, inflight, ctl, hw, log, host, stale, task, on, saved>>
      BY <1>6 DEF vars, adapter, publisher
    <2>2. task' \in Tasks /\ on' \in BOOLEAN /\ DrainInv'
      BY <2>1 DEF DeliveryInv, DeliveryTyped, DrainInv, Drained
    <2> QED
      BY <2>1, <2>2, TaskStep
  <1> QED
    BY <1>1, <1>2, <1>3, <1>4, <1>5, <1>6 DEF Next

(* The invariant holds always.                                             *)
THEOREM DeliveryInvariant == Spec => []DeliveryInv
  BY DeliveryStarts, DeliveryKeeps, PTL DEF Spec

(* The status events below the cursor were each handed to the host in      *)
(* order, with their own text, or counted as discarded, whatever the       *)
(* handoff threw away and however often the journal wrapped round          *)
(* (StatusJournal::push, next_action).                                     *)
THEOREM StatusEventsAccounted == Spec => []StatusesAccounted
  <1>1. DeliveryInv => StatusesAccounted
    BY DEF DeliveryInv, Accounted, StatusesAccounted
  <1> QED
    BY <1>1, DeliveryInvariant, PTL

(* The key state the controller believes it delivered is the one Asterisk  *)
(* heard, and the hardware is asked for what the snapshot says in every    *)
(* word its owner wrote last, across operators' commands and reloads that  *)
(* commit or abort (RetainedControllerState).                              *)
THEOREM ControlsAlwaysAgree == Spec => []ControlsAgree
  <1>1. DeliveryInv => ControlsAgree
    BY DEF DeliveryInv, Accounted, Follows, ControlsAgree, RequestsFollowSnapshot
  <1> QED
    BY <1>1, DeliveryInvariant, PTL

(* The capture always finds the handoff drained, and the echo stays inside *)
(* its storage (RetainedControllerState::capture, LegacyEcho).             *)
THEOREM AdapterNeverPanics == Spec => []NoPanic
  <1>1. DeliveryInv => NoPanic
    <2> SUFFICES ASSUME DeliveryInv PROVE NoPanic
      OBVIOUS
    <2>1. ctl.echo.length \in Nat /\ ctl.echo.playback \in Nat /\ EchoFrames \in Nat
      BY Limits DEF DeliveryInv, DeliveryTyped, Controllers, Echoes
    <2>2. EchoOK(ctl.echo)
      BY DEF DeliveryInv, Accounted
    <2>3. task = "capture" => Drained
      BY DEF DeliveryInv, DrainInv
    <2> QED
      BY <2>1, <2>2, <2>3 DEF EchoOK, NoPanic
  <1> QED
    BY <1>1, DeliveryInvariant, PTL

(* Types.                                                                  *)
THEOREM DeliveryTypes == Spec => []TypeOK
  <1>1. DeliveryInv => TypeOK
    <2> SUFFICES ASSUME DeliveryInv PROVE TypeOK
      OBVIOUS
    <2>1. queue \in Seq(Packet) /\ Len(queue) <= Capacity
      BY DEF DeliveryInv, QueueTyped
    <2>2. /\ ctl.pending \in Packet \union {none}
          /\ ctl.step \in {"ReceiverState", "Status"}
          /\ ctl.echo.state \in {"Disabled", "Recording", "Playing"}
      BY DEF DeliveryInv, DeliveryTyped, Controllers, Echoes
    <2>3. /\ pub \in Publishers
          /\ push \in {"idle", "full", "evicted"}
          /\ inflight \in IF push = "idle" THEN {none} ELSE Packet
          /\ {on, host, stale} \subseteq BOOLEAN
          /\ task \in Tasks
      BY DEF DeliveryInv, DeliveryTyped
    <2> QED
      BY <2>1, <2>2, <2>3, Zenon DEF TypeOK, Publishers, Tasks
  <1> QED
    BY <1>1, DeliveryInvariant, PTL

=============================================================================
