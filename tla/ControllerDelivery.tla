------------------------- MODULE ControllerDelivery -------------------------
(***************************************************************************)
(* Receive delivery and controller state of one ASL3 channel.              *)
(*                                                                         *)
(* The native receive callback owns a ReceivePublisher: it assembles       *)
(* frames, keeps a journal of the last StatusCapacity status events and    *)
(* pushes one packet per completed frame into the handoff (a NewestQueue,  *)
(* its actions repeated here on packets instead of their numbers).         *)
(* The channel's taskprocessor owns the ControllerState: it pops packets   *)
(* and turns each into a receiver edge, status texts and a voice frame,    *)
(* feeds program audio (or the echo recording) to the transmitter, and     *)
(* applies controller messages.  Everything the taskprocessor runs is      *)
(* serialized; the callback runs beside it.                                *)
(*                                                                         *)
(* A reload drains the handoff, suspends the callbacks, drains again,      *)
(* captures the state that outlives the generation and gives it to the     *)
(* replacement, whose publisher, handoff and journal are new.  The retired *)
(* generation is kept until the reload commits; an abort brings it back as *)
(* it was.                                                                 *)
(*                                                                         *)
(* Sample values are not modelled: audio is counted in units, FrameUnits   *)
(* to a frame.  A status event is its own sequence number, so that reading *)
(* the wrong journal slot shows.  The latest receive qualification changes *)
(* with delivered_keyed and is not kept apart; the DTMF state is left out. *)
(***************************************************************************)
EXTENDS Integers, Sequences, FiniteSets

CONSTANTS FrameUnits,     \* NATIVE_FRAME_SAMPLES, in units
          StatusCapacity, \* STATUS_CAPACITY
          Capacity,       \* packets the handoff holds: HANDOFF_SLOTS - 1
          EchoFrames,     \* MAX_ECHO_FRAMES
          DeliveryBudgets \* bounds: status events, operations (controller messages
                          \* and echo settings) and activated reloads of a behaviour

ASSUME ConstantsAssumption ==
    /\ {FrameUnits, StatusCapacity, Capacity, EchoFrames} \subseteq Nat \ {0}
    /\ DeliveryBudgets \subseteq [statuses : Nat, ops : Nat, reloads : Nat]

VARIABLES
    pub,      \* ReceivePublisher: native_remainder and the journal's events, produced
    queue,    \* the handoff's undelivered packets, oldest first
    push,     \* "idle", or how far a push that found the handoff full has come
    inflight, \* the packet of that push, or none
    ctl,      \* ControllerState
    hw,       \* the request words the hardware runs on and, a history, those
              \* of them (apart) last written by others than the snapshot's owner
    on,       \* the generation's callbacks run
    log,      \* status events handed to the host by this generation: count and last
    task,     \* what the taskprocessor is running
    saved,    \* the retired generation a reload may bring back, or none
    host,     \* the receiver state Asterisk last heard
    stale,    \* history: an edge was dropped, or a generation brought back, since
    quota     \* what is left of the bounds

publisher  == <<pub, queue, push, inflight>>
adapter    == <<publisher, ctl, hw, on, log>>
vars       == <<adapter, task, saved, host, stale, quota>>

none == [keyed |-> FALSE, events |-> <<>>, produced |-> -1]

Packet ==
    [keyed    : BOOLEAN,
     events   : [0..(StatusCapacity - 1) -> Nat],
     produced : Nat]

(***************************************************************************)
(* The state a fresh generation starts with: ControllerState::prepare.     *)
(***************************************************************************)
NewPublisher ==
    [remainder |-> 0, events |-> [i \in 0..(StatusCapacity - 1) |-> 0], produced |-> 0]

NewEcho == [state |-> "Disabled", length |-> 0, playback |-> 0]

NewControl == [transmit_keyed |-> FALSE, receive_ctcss |-> TRUE, transmit_ctcss |-> TRUE]

NewController ==
    [pending |-> none, step |-> "ReceiverState", delivered_keyed |-> FALSE,
     next_sequence |-> 0, discarded |-> 0,
     echo |-> NewEcho, control |-> NewControl]

NoStatus == [count |-> 0, last |-> -1]

Words == {"transmit", "override", "inhibited"}

NewHardware == [transmit |-> FALSE, override |-> FALSE, inhibited |-> FALSE, apart |-> {}]

Init ==
    /\ pub = NewPublisher
    /\ queue = <<>>
    /\ push = "idle"
    /\ inflight = none
    /\ ctl = NewController
    /\ hw = NewHardware
    /\ on = TRUE
    /\ log = NoStatus
    /\ task = "idle"
    /\ saved = <<>>
    /\ host = FALSE
    /\ stale = FALSE
    /\ quota \in DeliveryBudgets

(***************************************************************************)
(* The receive callback.                                                   *)
(***************************************************************************)

\* StatusJournal::push, once for each of the n events of one callback.
JournalPush(p, n) ==
    [p EXCEPT
        !.events = [i \in DOMAIN p.events |->
            LET fresh == {s \in p.produced..(p.produced + n - 1) : s % StatusCapacity = i}
            IN  IF fresh = {} THEN p.events[i] ELSE CHOOSE s \in fresh : \A t \in fresh : t <= s],
        !.produced = @ + n]

\* Producer::push of one packet: it finds room, or begins to resolve an overflow.
Offer(packet) ==
    IF Len(queue) < Capacity
    THEN queue' = Append(queue, packet) /\ UNCHANGED <<push, inflight>>
    ELSE push' = "full" /\ inflight' = packet /\ UNCHANGED queue

\* publish(): statuses first, then spans up to each frame boundary.  A span the
\* converter rejects ends the call with the statuses already in the journal;
\* convertible is the number of units converted before that.
Publish(units, convertible, keyed, statuses) ==
    LET journal == JournalPush(pub, statuses)
        total   == pub.remainder + units
        first   == IF total < FrameUnits THEN units ELSE FrameUnits - pub.remainder
        frame   == total >= FrameUnits /\ convertible >= first
    IN  /\ on
        /\ task # "dead" \* nobody takes what is published after that
        /\ push = "idle"
        /\ statuses <= quota.statuses
        /\ quota' = [quota EXCEPT !.statuses = @ - statuses]
        /\ convertible \in {0, first, units}
        /\ pub' = [journal EXCEPT !.remainder = IF frame THEN convertible - first
                                                ELSE @ + convertible]
        /\ IF frame
           THEN Offer([keyed |-> keyed, events |-> journal.events, produced |-> journal.produced])
           ELSE UNCHANGED <<queue, push, inflight>>
        /\ UNCHANGED <<ctl, hw, on, log, task, saved, host, stale>>

\* The rest of a push that found the handoff full: it evicts the backlog and
\* refills, or gives up because the consumer is reading.
PushResolves ==
    /\ \/ /\ push = "full"
          /\ queue' = <<>>
          /\ push' = "evicted"
          /\ UNCHANGED inflight
       \/ /\ push = "evicted"
          /\ queue' = <<inflight>>
          /\ push' = "idle"
          /\ inflight' = none
       \/ /\ push = "full"
          /\ push' = "idle"
          /\ inflight' = none
          /\ UNCHANGED queue
    /\ UNCHANGED <<pub, ctl, hw, on, log, task, saved, host, stale, quota>>

(***************************************************************************)
(* Delivery: ControllerState::next_action and the host operation it asks   *)
(* for.                                                                    *)
(***************************************************************************)
Draining == task \in {"service", "drain1", "drain2"}

\* What a delivery that fails does to the operation it is part of: the worker
\* gives up, the first drain leaves the running generation in place, the second
\* one brings the suspended generation back (see Restore).
TaskAfter(outcome) ==
    CASE outcome # "failed"  -> task
      [] task = "service" -> "dead"
      [] task = "drain1"  -> "idle"
      [] task = "drain2"  -> "restore"

\* A host operation that finds no owner to lock drops its frame and succeeds.
Outcomes == {"queued", "dropped", "failed"}

\* next_action takes the next packet when none is pending.
Pending == IF ctl.pending # none THEN ctl.pending ELSE Head(queue)

Step == IF ctl.pending # none THEN ctl.step ELSE "ReceiverState"

OldestSequence(p) == IF p.produced > StatusCapacity THEN p.produced - StatusCapacity ELSE 0

\* The status cursor after events that the journal no longer holds are skipped.
CursorKeepsPlace(p) == ctl.next_sequence

Cursor(p) == IF ctl.next_sequence < OldestSequence(p) THEN OldestSequence(p) ELSE ctl.next_sequence

\* LegacyEcho::receive.
EchoReceive(echo, keyed) ==
    IF echo.state # "Recording" THEN echo
    ELSE IF keyed THEN [echo EXCEPT !.length = IF @ < EchoFrames THEN @ + 1 ELSE @]
    ELSE IF echo.length # 0 THEN [echo EXCEPT !.state = "Playing", !.playback = 0]
    ELSE echo

\* The three things next_action returns, each with the change it makes to the
\* controller: an edge, else the next status text, else the voice frame (or what
\* deliver_voice makes of it when it holds a DTMF digit).
Edge(outcome) ==
    LET keyed == Pending.keyed
    IN  /\ Step = "ReceiverState"
        /\ keyed # ctl.delivered_keyed
        /\ ctl' = [ctl EXCEPT !.pending = Pending, !.step = "Status", !.delivered_keyed = keyed]
        /\ host' = IF outcome = "queued" THEN keyed ELSE host
        /\ stale' = (outcome # "queued")
        /\ UNCHANGED log

NoEdge == Step = "ReceiverState" => Pending.keyed = ctl.delivered_keyed

StatusText ==
    LET p    == Pending
        next == Cursor(p)
    IN  /\ NoEdge
        /\ next < p.produced
        /\ ctl' = [ctl EXCEPT !.pending = p, !.step = "Status", !.next_sequence = next + 1,
                              !.discarded = @ + (next - ctl.next_sequence)]
        /\ log' = [count |-> log.count + 1, last |-> p.events[next % StatusCapacity]]
        /\ UNCHANGED <<host, stale>>

Voice ==
    LET p == Pending
    IN  /\ NoEdge
        /\ Cursor(p) >= p.produced
        /\ ctl' = [ctl EXCEPT !.pending = none, !.step = "ReceiverState",
                              !.echo = EchoReceive(@, p.keyed)]
        /\ UNCHANGED <<log, host, stale>>

\* One call of next_action and the delivery of what it returns.
DeliverNext(outcome) ==
    /\ Draining
    /\ ctl.pending # none \/ queue # <<>>
    /\ Edge(outcome) \/ StatusText \/ Voice
    /\ queue' = IF ctl.pending = none THEN Tail(queue) ELSE queue
    /\ task' = TaskAfter(outcome)
    /\ UNCHANGED <<pub, push, inflight, hw, on, saved, quota>>

\* drain_receive returns: nothing pending and the pop found nothing.  A pop also
\* finds nothing while an overflowing push is under way (the generation is odd).
DrainDone ==
    /\ Draining
    /\ ctl.pending = none
    /\ queue = <<>> \/ push # "idle"
    /\ task' = CASE task = "service" -> "idle"
                 [] task = "drain1"  -> "suspend"
                 [] task = "drain2"  -> "capture"
    /\ UNCHANGED <<adapter, saved, host, stale, quota>>

(***************************************************************************)
(* The other operations of the taskprocessor.                              *)
(***************************************************************************)
Operation == task = "idle" /\ quota.ops > 0

Counted == quota' = [quota EXCEPT !.ops = @ - 1]

\* channel_service() starts; program frames are written before the receive drain.
StartService ==
    /\ task = "idle"
    /\ task' = "program"
    /\ UNCHANGED <<adapter, saved, host, stale, quota>>

\* LegacyEcho::clear, with the state that follows it.
ClearedEcho(state) == [state |-> state, length |-> 0, playback |-> 0]

\* LegacyEcho::finish_playback_frame after one frame of playback.
EchoPlayed(echo) ==
    IF echo.playback + 1 >= echo.length
    THEN ClearedEcho("Recording")
    ELSE [echo EXCEPT !.playback = @ + 1]

\* One frame of drain_program: an echo that is playing replaces the controller's
\* audio.  The program ring may refuse, and the worker then gives up.
WriteProgram(accepted) ==
    /\ task = "program"
    /\ IF accepted
       THEN /\ ctl' = [ctl EXCEPT !.echo = IF @.state = "Playing" THEN EchoPlayed(@) ELSE @]
            /\ UNCHANGED task
       ELSE /\ task' = "dead"
            /\ UNCHANGED ctl
    /\ UNCHANGED <<publisher, hw, on, log, saved, host, stale, quota>>

ProgramDrained ==
    /\ task = "program"
    /\ task' = "service"
    /\ UNCHANGED <<adapter, saved, host, stale, quota>>

\* ControlSnapshot::apply for the messages that change the snapshot; the forced
\* tone goes with the key.  (Selecting a channel, GPIO, parallel and remote
\* requests leave it alone.)
Applied(control, field, value) == [control EXCEPT ![field] = value]

\* HardwareStation::apply_control: the snapshot, then the station's own words.
ApplyControl(field, value) ==
    /\ Operation
    /\ Counted
    /\ ctl' = [ctl EXCEPT !.control = Applied(@, field, value)]
    /\ hw' = CASE field = "transmit_keyed" ->
                      [hw EXCEPT !.transmit = value, !.apart = @ \ {"transmit"}]
               [] field = "receive_ctcss"  ->
                      [hw EXCEPT !.override = ~value, !.apart = @ \ {"override"}]
               [] field = "transmit_ctcss" ->
                      [hw EXCEPT !.inhibited = ~value, !.apart = @ \ {"inhibited"}]
    /\ UNCHANGED <<publisher, on, log, task, saved, host, stale>>

\* channel_command: an operator's subaudible-override or ctcss-inhibit writes the
\* station's word and leaves the snapshot as it is.
Command(word, value) ==
    /\ Operation
    /\ Counted
    /\ hw' = [hw EXCEPT ![word] = value, !.apart = @ \union {word}]
    /\ UNCHANGED <<publisher, ctl, on, log, task, saved, host, stale>>

SetEcho(enabled) ==
    /\ Operation
    /\ Counted
    /\ ctl' = [ctl EXCEPT !.echo = ClearedEcho(IF enabled THEN "Recording" ELSE "Disabled")]
    /\ UNCHANGED <<publisher, hw, on, log, task, saved, host, stale>>

(***************************************************************************)
(* Replacement of the generation by a reload.                              *)
(***************************************************************************)
\* channel_reload_activate with a prepared replacement for a running generation
\* (a stopped one receives nothing): the first drain starts.
ReloadActivate ==
    /\ task = "idle"
    /\ on
    /\ saved = <<>>
    /\ quota.reloads > 0
    /\ task' = "drain1"
    /\ quota' = [quota EXCEPT !.reloads = @ - 1]
    /\ UNCHANGED <<adapter, saved, host, stale>>

\* Suspending stops the streams: no callback is inside publish() afterwards.
\* When it fails they may still run.
SuspendThenCapture(ok, quiet) ==
    /\ task = "suspend"
    /\ ok => quiet
    /\ quiet => push = "idle"
    /\ on' = ~quiet
    /\ task' = IF ok THEN "capture" ELSE "restore"
    /\ UNCHANGED <<publisher, ctl, hw, log, saved, host, stale, quota>>

Suspend(ok, quiet) ==
    /\ task = "suspend"
    /\ ok => quiet
    /\ quiet => push = "idle"
    /\ on' = ~quiet
    /\ task' = IF ok THEN "drain2" ELSE "restore"
    /\ UNCHANGED <<publisher, ctl, hw, log, saved, host, stale, quota>>

\* clear_manual_requests: polling a generation to its stop takes its words back.
Cleared == [NewHardware EXCEPT !.apart = Words]

\* restore_previous: reopen and start the suspended generation, or fail to.  One
\* that started and is not admitted is stopped again (finish_restoring).
Restore(ok) ==
    /\ task = "restore"
    /\ on' = (on \/ ok)
    /\ hw' = hw \/ (~on' /\ hw' = Cleared)
    /\ task' = "idle"
    /\ UNCHANGED <<publisher, ctl, log, saved, host, stale, quota>>

\* RetainedControllerState::capture; opening or starting the replacement may fail.
\* The capture panics unless everything received has been delivered.
Drained == ctl.pending = none /\ queue = <<>>

\* restore_reload_state on the replacement's new controller.
RetainedWithoutKey(old) == [NewController EXCEPT !.echo = old.echo, !.control = old.control]

Retained(old) ==
    [NewController EXCEPT !.delivered_keyed = old.delivered_keyed, !.echo = old.echo,
                          !.control = old.control]

\* RetainedControllerState::apply_to_hardware.
ApplyToHardware(control) ==
    [transmit  |-> control.transmit_keyed,
     override  |-> ~control.receive_ctcss,
     inhibited |-> ~control.transmit_ctcss,
     apart     |-> {}]

Replace ==
    /\ task = "capture"
    /\ Drained
    /\ saved' = <<[pub |-> pub, ctl |-> ctl, hw |-> hw, log |-> log]>>
    /\ pub' = NewPublisher
    /\ ctl' = Retained(ctl)
    /\ hw' = ApplyToHardware(ctl.control)
    /\ log' = NoStatus
    /\ on' = TRUE
    /\ task' = "idle"
    /\ UNCHANGED <<queue, push, inflight, host, stale, quota>>

ReplaceFails ==
    /\ task = "capture"
    /\ Drained
    /\ task' = "restore"
    /\ UNCHANGED <<adapter, saved, host, stale, quota>>

\* channel_reload_finish(true): the retired generation is dropped.  A candidate
\* whose abort has begun is not committed.
Commit ==
    /\ task = "idle"
    /\ saved # <<>>
    /\ on
    /\ saved' = <<>>
    /\ UNCHANGED <<adapter, task, host, stale, quota>>

\* channel_reload_finish(false) while the candidate is not safely stopped: both
\* generations are kept for the next poll.
StopCandidate ==
    /\ task = "idle"
    /\ saved # <<>>
    /\ push = "idle"
    /\ on' = FALSE
    /\ hw' = Cleared
    /\ UNCHANGED <<publisher, ctl, log, task, saved, host, stale, quota>>

\* channel_reload_finish(false): the candidate is stopped and dropped with
\* whatever it had not delivered; the retired generation is reopened as it was,
\* and stopped again when it is not admitted.
Abort(ok) ==
    /\ task = "idle"
    /\ saved # <<>>
    /\ push = "idle"
    /\ LET old == saved[1]
       IN  /\ pub' = old.pub
           /\ ctl' = old.ctl
           /\ hw' = old.hw \/ (~ok /\ hw' = Cleared)
           /\ log' = old.log
    /\ queue' = <<>>
    /\ on' = ok
    /\ saved' = <<>>
    /\ stale' = TRUE
    /\ UNCHANGED <<push, inflight, task, host, quota>>

Callback ==
    \/ \E units \in 1..FrameUnits, convertible \in 0..FrameUnits, keyed \in BOOLEAN,
          statuses \in 0..2 : Publish(units, convertible, keyed, statuses)
    \/ PushResolves

Delivery == (\E outcome \in Outcomes : DeliverNext(outcome)) \/ DrainDone

Program == StartService \/ (\E accepted \in BOOLEAN : WriteProgram(accepted)) \/ ProgramDrained

Setting ==
    \/ \E field \in DOMAIN NewControl, value \in BOOLEAN : ApplyControl(field, value)
    \/ \E word \in {"override", "inhibited"}, value \in BOOLEAN : Command(word, value)
    \/ \E enabled \in BOOLEAN : SetEcho(enabled)

Reload ==
    \/ ReloadActivate
    \/ \E ok \in BOOLEAN : Restore(ok) \/ Abort(ok) \/ (\E quiet \in BOOLEAN : Suspend(ok, quiet))
    \/ Replace
    \/ ReplaceFails
    \/ StopCandidate
    \/ Commit

Next == Callback \/ Delivery \/ Program \/ Setting \/ Reload

Spec == Init /\ [][Next]_vars

(***************************************************************************)
(* Properties                                                              *)
(***************************************************************************)

\* The type invariant.
TypeOK ==
    /\ pub \in [remainder : 0..(FrameUnits - 1), events : [0..(StatusCapacity - 1) -> Nat],
                produced : Nat]
    /\ queue \in Seq(Packet) /\ Len(queue) <= Capacity
    /\ push \in {"idle", "full", "evicted"}
    /\ inflight \in IF push = "idle" THEN {none} ELSE Packet
    /\ ctl.pending \in Packet \union {none}
    /\ ctl.step \in {"ReceiverState", "Status"}
    /\ ctl.echo.state \in {"Disabled", "Recording", "Playing"}
    /\ {on, host, stale} \subseteq BOOLEAN
    /\ task \in {"idle", "program", "service", "drain1", "suspend", "drain2", "capture",
                 "restore", "dead"}

\* The text events of a generation reach the host in the order they happened,
\* each at most once and each its own text, and the ones that were overwritten
\* are counted: whatever packets the handoff threw away, next_action's cursor
\* and its discarded count account for every event below the cursor.
StatusesAccounted ==
    /\ log.count + ctl.discarded = ctl.next_sequence
    /\ log.count > 0 => log.last = ctl.next_sequence - 1

\* As long as no edge was dropped by the host and no generation was brought back
\* by an aborted reload, the key state the controller believes it has delivered
\* (delivered_keyed, which decides whether the next packet is an edge) is the
\* one Asterisk last heard, across any number of committed reloads.
KeyAgreement == ~stale => host = ctl.delivered_keyed

\* The adapter's unchecked steps never meet their panics: the capture of a retained
\* state finds the handoff drained ("receive handoff was drained before reload-state
\* capture"), however the callbacks filled it between the first drain and the
\* suspension; and the echo never plays past its recording (write_program indexes
\* samples[playback + index]) nor records past its storage (LegacyEcho::receive).
NoPanic ==
    /\ task = "capture" => Drained
    /\ ctl.echo.length \in 0..EchoFrames
    /\ ctl.echo.state = "Playing" => ctl.echo.playback \in 0..(ctl.echo.length - 1)

\* The hardware of the generation in place is asked for what the controller's
\* snapshot says, whichever generation that is (apply_to_hardware): every word
\* but those an operator's command, or the stop of a generation, has written
\* since the snapshot's owner last did.  A replacement starts with no such word.
RequestsFollowSnapshot ==
    /\ "transmit" \in hw.apart \/ hw.transmit = ctl.control.transmit_keyed
    /\ "override" \in hw.apart \/ hw.override # ctl.control.receive_ctcss
    /\ "inhibited" \in hw.apart \/ hw.inhibited # ctl.control.transmit_ctcss

\* The two things the controller keeps a copy of agree with the world: the key state
\* Asterisk last heard and the requests the hardware runs on.
ControlsAgree == KeyAgreement /\ RequestsFollowSnapshot
=============================================================================
