----------------------------- MODULE RemoteBase -----------------------------
(***************************************************************************)
(* One remote-base generation: the command port that callers submit radio  *)
(* requests to, the tickets by which they follow and revoke them, and the  *)
(* hardware thread's remote owner, which admits requests, lends the radio  *)
(* to the operating engine, executes auxiliary settings, proves every PTT  *)
(* output off before it writes, and gives the rig up when it retires.      *)
(*                                                                         *)
(* The operating engine is an external library behind RemoteSession.  It   *)
(* is modelled by the contract its callers rely on: one ordinary and one   *)
(* critical request at a time; in one advance it keys, unkeys, or applies  *)
(* the ordinary request after an unkey, or waits; a failed callback fails  *)
(* the request.  Its first request, "startup", comes from no ticket.       *)
(*                                                                         *)
(* Two PTT lines stand for the outputs: gpio (the CM119 interface and the  *)
(* parallel port, which service_remote_ptt drives and proves together) and *)
(* rig (CAT).  A device call that fails may have had its effect or not.    *)
(* The command channel, site pins and reopening are in HardwareService;    *)
(* here a GPIO cycle only drives the PTT line.  RemoteQueue.ready and the  *)
(* first error, which only the host reads, are left out.                   *)
(***************************************************************************)
EXTENDS Naturals, Sequences

CONSTANTS
    Tickets,   \* requests
    Setups,    \* [native, rig, ptt, kind]: service mode, Hamlib backend, selected PTT
               \* output, and what each request asks for
    Capacity   \* CONTROL_QUEUE_CAPACITY

\* An operation of the engine, ordinary or urgent; a reply from what is known or one
\* scalar setting, read or written ("scalar"); a detached ASL frame.
Kinds == {"core", "urgent", "scalar", "parallel"}

ASSUME ConstantsAssumption ==
    /\ Setups \subseteq [native : BOOLEAN, rig : BOOLEAN, ptt : {"gpio", "rig"},
                        kind : [Tickets -> Kinds]]
    /\ \A s \in Setups : s.ptt = "rig" => s.rig
    /\ Capacity \in Nat \ {0}
    /\ {"none", "startup"} \intersect Tickets = {}

VARIABLES
    setup,          \* RemoteSetup and wiring
    accepting,      \* RemoteQueue.accepting: the generation is valid
    ordinary,       \* RemoteQueue.ordinary
    urgent,         \* RemoteQueue.urgent
    parallelError,  \* RemoteQueue.parallel_error
    ticket,         \* TicketState of each request, and where its work is
    owner,          \* HardwareService: running, retired (queue), stopping
    worker,         \* the thread (see Init)
    engine,         \* RemoteSession
    dev,            \* the PTT lines, the rig and GPIO handles
    physical,       \* RemoteHardwareSignals.physical_ptt
    key,            \* PhysicalPttControl: the selected output's level
    permitted       \* RemoteRadioControl.transmit_permitted

port == <<accepting, ordinary, urgent, parallelError>>
radio == <<dev, physical, key, permitted>>
vars == <<setup, port, ticket, owner, worker, engine, radio>>

Kind == setup.kind

\* The error codes, busy, stale, stopped and rejected, are told apart by no property.
Results == {"none", "ok", "error"}

NewTicket ==
    [at |-> "new", valid |-> FALSE, active |-> FALSE, result |-> "none"]

Init ==
    /\ setup \in Setups
    /\ accepting = TRUE
    /\ ordinary = <<>> /\ urgent = <<>> /\ parallelError = "none"
    /\ ticket = [t \in Tickets |-> NewTicket]
    /\ owner = "running"
    \* remote: not yet opened, "lost" when it never had an owner, "rejected" or "live";
    \* busy: this iteration began with PTT on; source: the pending request's, as the
    \* engine is told; ok: the advance's result
    /\ worker = [at |-> "start", remote |-> "none", retiring |-> FALSE, busy |-> FALSE,
                 source |-> "idle", ok |-> TRUE]
    /\ engine = [op |-> "startup", outcome |-> "none", critical |-> "none"]
    /\ \E keyed \in BOOLEAN :
          dev = [gpio |-> FALSE, rig |-> keyed /\ setup.ptt = "rig", handle |-> FALSE, open |-> TRUE]
    /\ physical = "unknown"
    /\ key = FALSE
    /\ permitted = FALSE

(***************************************************************************)
(* Tickets: remote_base.rs.                                                *)
(***************************************************************************)

\* TicketState::source.
Valid(t) == ticket[t].valid /\ accepting

\* TicketState::complete: the first claimant publishes.
CompletedLast(x, result) == [x EXCEPT !.result = result]

Completed(x, result) == IF x.result = "none" THEN [x EXCEPT !.result = result] ELSE x

\* RemoteWork::complete: a retired generation or a revoked source has no success.
Outcome(t, result) == IF Valid(t) THEN result ELSE "error"

\* Nothing looks at the source of finished work.
Finished(t, result) ==
    [Completed(ticket[t], Outcome(t, result)) EXCEPT !.at = "done", !.valid = FALSE, !.active = FALSE]

\* The detached error a completion leaves behind.
ErrorAfter(t, result) ==
    IF Kind[t] = "parallel" /\ result = "error" THEN "error" ELSE parallelError

Finish(t, result) ==
    /\ ticket' = [ticket EXCEPT ![t] = Finished(t, result)]
    /\ parallelError' = ErrorAfter(t, Outcome(t, result))

\* enqueue, first part: the port is open.  Submission and stop are serialized by
\* their owner, but the thread may retire the port at any time.
Submit(t) ==
    /\ ticket[t].at = "new"
    /\ owner = "running"
    /\ accepting
    /\ \E active \in BOOLEAN :
          /\ Kind[t] = "parallel" => ~active
          /\ ticket' = [ticket EXCEPT ![t] =
                [NewTicket EXCEPT !.at = "submitted", !.valid = TRUE, !.active = active]]
    /\ UNCHANGED <<setup, port, owner, worker, engine, radio>>

\* enqueue, second part: the push, or Busy and no ticket; refused work is dropped, which
\* completes it, so a detached frame leaves its error.
Room(t) == IF Kind[t] = "urgent" THEN urgent = <<>> ELSE Len(ordinary) < Capacity

Push(t) ==
    /\ ticket[t].at = "submitted"
    /\ parallelError' = IF Room(t) THEN parallelError ELSE ErrorAfter(t, "error")
    /\ IF ~Room(t)
       THEN ticket' = [ticket EXCEPT ![t] = NewTicket] /\ UNCHANGED <<ordinary, urgent>>
       ELSE /\ ticket' = [ticket EXCEPT ![t].at = "queued"]
            /\ IF Kind[t] = "urgent"
               THEN urgent' = Append(urgent, t) /\ UNCHANGED ordinary
               ELSE ordinary' = Append(ordinary, t) /\ UNCHANGED urgent
    /\ UNCHANGED <<setup, accepting, owner, worker, engine, radio>>

Issued(t) == ticket[t].at \notin {"new", "submitted"} /\ Kind[t] # "parallel"

\* RemoteTicket::source_state.
SourceActive(t) ==
    /\ Issued(t)
    /\ Valid(t)
    /\ ticket' = [ticket EXCEPT ![t].active = ~@]
    /\ UNCHANGED <<setup, port, owner, worker, engine, radio>>

\* Revocation, by source_state or by dropping the ticket, is final: the key state of
\* a revoked source is not looked at.
Revoke(t) ==
    /\ Issued(t)
    /\ Valid(t)
    /\ ticket' = [ticket EXCEPT ![t].valid = FALSE, ![t].active = FALSE]
    /\ UNCHANGED <<setup, port, owner, worker, engine, radio>>

\* RemoteTicket::take_completion, where it changes anything: a retired generation.
TakeStopped(t) ==
    /\ Issued(t)
    /\ ~accepting
    /\ ticket' = [ticket EXCEPT ![t] = Completed(@, "error")]
    /\ UNCHANGED <<setup, port, owner, worker, engine, radio>>

(***************************************************************************)
(* The owner's stop: the port is retired before the thread is told.        *)
(***************************************************************************)
RetirePort ==
    /\ owner = "running"
    /\ \A t \in Tickets : ticket[t].at # "submitted"
    /\ owner' = "retired"
    /\ accepting' = FALSE
    /\ UNCHANGED <<setup, ordinary, urgent, parallelError, ticket, worker, engine, radio>>

RequestStop ==
    /\ owner = "retired"
    /\ owner' = "stopping"
    /\ UNCHANGED <<setup, port, ticket, worker, engine, radio>>

Stopping == owner = "stopping"

(***************************************************************************)
(* PTT: service_remote_ptt, then the rig when it is the selected output;   *)
(* both are tried for an unkey, whatever the first says.                   *)
(***************************************************************************)
Drives(line, level) ==
    {[on |-> level, ok |-> TRUE], [on |-> level, ok |-> FALSE], [on |-> line, ok |-> FALSE]}

RigDrives(d, keyed) ==
    IF setup.ptt = "rig" THEN Drives(d.rig, keyed) ELSE {[on |-> d.rig, ok |-> TRUE]}

PttAttemptUnconfirmed(d, keyed) ==
    {[dev |-> [d EXCEPT !.gpio = g.on, !.rig = r.on], ok |-> g.ok] :
        g \in Drives(d.gpio, keyed /\ setup.ptt = "gpio"), r \in RigDrives(d, keyed)}

PttAttempt(d, keyed) ==
    UNION {{[dev |-> [d EXCEPT !.gpio = g.on, !.rig = r.on], ok |-> g.ok /\ r.ok] :
               r \in IF keyed /\ ~g.ok THEN {[on |-> d.rig, ok |-> FALSE]} ELSE RigDrives(d, keyed)} :
           g \in Drives(d.gpio, keyed /\ setup.ptt = "gpio")}

\* PhysicalBackend::set_ptt: the published state is unknown until the line is proved.
SetPtt(d, keyed, ok) ==
    /\ \E o \in PttAttempt(d, keyed) : o.ok = ok /\ dev' = o.dev
    /\ key' = keyed
    /\ physical' = IF ~ok THEN "unknown" ELSE IF keyed THEN "on" ELSE "off"

\* RemoteGeneration::unkey closes admission first.
UnkeyFrom(d, ok) == SetPtt(d, FALSE, ok) /\ permitted' = FALSE

Unkey(ok) == UnkeyFrom(dev, ok)

\* What an unkey that succeeded has published; a thread without a generation does none.
UnkeyPublished ==
    IF worker.remote = "live" THEN physical' = "off" /\ key' = FALSE /\ permitted' = FALSE
    ELSE UNCHANGED <<physical, key, permitted>>

(***************************************************************************)
(* The thread opens the generation.                                        *)
(***************************************************************************)
To(at) == worker' = [worker EXCEPT !.at = at]

\* ServiceWorker::run: every dedicated PTT output is proved off.
ProveStart(ok) ==
    /\ worker.at = "start"
    /\ \E g \in Drives(dev.gpio, FALSE) : g.ok = ok /\ dev' = [dev EXCEPT !.gpio = g.on]
    /\ worker' = [worker EXCEPT !.at = "open", !.retiring = ~ok]
    /\ UNCHANGED <<setup, port, ticket, owner, engine, physical, key, permitted>>

\* RemoteGeneration::open fails before it has a rig: the encoder pin or the rig itself.
OpenFails ==
    /\ worker.at = "open"
    /\ worker' = [worker EXCEPT !.at = "loop", !.remote = "lost"]
    /\ UNCHANGED <<setup, port, ticket, owner, engine, radio>>

\* The rig is open, but admission is refused: the port is retired ...
OpenRejectedAccepting ==
    /\ worker.at = "open"
    /\ dev' = [dev EXCEPT !.handle = setup.rig]
    /\ To("reject")
    /\ UNCHANGED <<setup, port, ticket, owner, engine, physical, key, permitted>>

OpenRejected ==
    /\ worker.at = "open"
    /\ accepting' = FALSE
    /\ dev' = [dev EXCEPT !.handle = setup.rig]
    /\ To("reject")
    /\ UNCHANGED <<setup, ordinary, urgent, parallelError, ticket, owner, engine,
                   physical, key, permitted>>

\* ... and the rig dropped only once every output is off.
Reject(ok) ==
    /\ worker.at = "reject"
    /\ \E o \in PttAttempt(dev, FALSE) :
          o.ok = ok /\ dev' = [o.dev EXCEPT !.handle = @ /\ ~ok]
    /\ worker' = IF ok THEN [worker EXCEPT !.at = "loop", !.remote = "rejected"] ELSE worker
    /\ UNCHANGED <<setup, port, ticket, owner, engine, physical, key, permitted>>

OpenSucceeds ==
    /\ worker.at = "open"
    /\ dev' = [dev EXCEPT !.handle = setup.rig]
    /\ physical' = "unknown" /\ key' = FALSE /\ permitted' = FALSE
    /\ worker' = [worker EXCEPT !.at = "loop", !.remote = "live"]
    /\ UNCHANGED <<setup, port, ticket, owner, engine>>

Live == worker.remote = "live"

(***************************************************************************)
(* RemoteGeneration::service and RemoteOwner::service, one iteration.      *)
(***************************************************************************)

\* An unknown PTT state is proved off first.  The station's activity words (request
\* and rendered PTT) are inputs, read where they are used: Keys, AuxiliaryWaits.
BeginService ==
    /\ worker.at = "loop" /\ ~Stopping /\ ~worker.retiring /\ dev.open
    /\ worker' = IF Live
                 THEN [worker EXCEPT !.at = IF physical = "unknown" THEN "prove" ELSE "urgent",
                                     !.busy = (physical = "on")]
                 ELSE [worker EXCEPT !.at = "cycle"]
    /\ UNCHANGED <<setup, port, ticket, owner, engine, radio>>

Prove(ok) ==
    /\ worker.at = "prove"
    /\ SetPtt(dev, FALSE, ok)
    /\ To(IF ok THEN "urgent" ELSE "failed")
    /\ UNCHANGED <<setup, port, ticket, owner, engine, permitted>>

\* RemoteOwner::admit: stale, answered, kept as auxiliary, given to the engine, or
\* rejected by preparation, device or engine.
ToEngine(t) ==
    /\ ticket' = [ticket EXCEPT ![t].at = "pending"]
    /\ IF Kind[t] = "urgent"
       THEN engine.critical = "none" /\ engine' = [engine EXCEPT !.critical = t]
       ELSE engine.op = "none" /\ engine' = [engine EXCEPT !.op = t, !.outcome = "none"]
    /\ UNCHANGED parallelError

Admit(t) ==
    \/ Finish(t, "error") /\ UNCHANGED engine
    \/ Valid(t) /\ Kind[t] = "scalar" /\ Finish(t, "ok") /\ UNCHANGED engine
    \/ /\ Valid(t) /\ Kind[t] = "scalar"
       /\ ticket' = [ticket EXCEPT ![t].at = "auxiliary"]
       /\ UNCHANGED <<parallelError, engine>>
    \/ Valid(t) /\ Kind[t] # "scalar" /\ ToEngine(t)

Ordinary == engine.op \in Tickets

Source ==
    IF ~Ordinary THEN "idle"
    ELSE IF ~Valid(engine.op) THEN "cancelled"
    ELSE IF ticket[engine.op].active THEN "active" ELSE "idle"

\* Safety work first; then the source of the pending request is read for the engine.
AdmitUrgent ==
    /\ worker.at = "urgent"
    /\ IF urgent = <<>> THEN UNCHANGED <<urgent, ticket, parallelError, engine>>
       ELSE Admit(Head(urgent)) /\ urgent' = Tail(urgent)
    /\ worker' = [worker EXCEPT !.at = "advance", !.source = Source]
    /\ UNCHANGED <<setup, accepting, ordinary, owner, radio>>

\* advance_with: what the engine does with the radio in this iteration.
Waits ==
    /\ worker.at = "advance"
    /\ To("complete")
    /\ UNCHANGED <<setup, port, ticket, owner, engine, radio>>

Keys(ok) ==
    /\ worker.at = "advance"
    /\ engine.op = "none" /\ engine.critical = "none"
    /\ SetPtt(dev, TRUE, ok)
    /\ worker' = [worker EXCEPT !.at = "complete", !.ok = ok]
    /\ UNCHANGED <<setup, port, ticket, owner, engine, permitted>>

\* An unkey by itself, or as the first half of applying the ordinary request, once
\* its source has unkeyed.
Unkeys(ok, tune) ==
    /\ worker.at = "advance"
    /\ tune => engine.op # "none" /\ worker.source = "idle"
    /\ SetPtt(dev, FALSE, ok)
    /\ worker' = [worker EXCEPT !.at = IF ok /\ tune THEN "apply" ELSE "complete", !.ok = ok]
    /\ UNCHANGED <<setup, port, ticket, owner, engine, permitted>>

\* physical_cancelled, read again between native calls.
Cancelled == Stopping \/ urgent # <<>> \/ (Ordinary /\ ~Valid(engine.op))

ApplyEnds(outcome) ==
    /\ engine' = [engine EXCEPT !.outcome = outcome]
    /\ \E ok \in {TRUE, outcome = "ok"} :
          worker' = [worker EXCEPT !.at = "complete", !.ok = ok]

\* apply_state: admission is closed before the first exchange.
ApplyState ==
    /\ worker.at = "apply"
    /\ permitted' = FALSE
    /\ IF Cancelled THEN ApplyEnds("error") ELSE To("program") /\ UNCHANGED engine
    /\ UNCHANGED <<setup, port, ticket, owner, dev, physical, key>>

\* CAT or GPIO programming, then the DSP's acknowledgment.
Program ==
    /\ worker.at = "program"
    /\ \/ Cancelled /\ ApplyEnds("error")
       \/ ApplyEnds("error")
       \/ ~Cancelled /\ To("acknowledge") /\ UNCHANGED engine
    /\ UNCHANGED <<setup, port, ticket, owner, radio>>

Acknowledge ==
    /\ worker.at = "acknowledge"
    /\ \E outcome \in {"ok", "error"} :
          ApplyEnds(outcome)
    /\ UNCHANGED <<setup, port, ticket, owner, radio>>

\* take_completion until there is none: the critical request, and the ordinary one
\* when it has been applied or has failed or lost its source.
OrdinaryEnds == engine.outcome # "none" \/ worker.source = "cancelled"

CompleteCritical ==
    /\ worker.at = "complete"
    /\ engine.critical # "none"
    /\ Finish(engine.critical, "ok") \/ Finish(engine.critical, "error")
    /\ \E outcome \in {engine.outcome} \union (IF engine.op # "none" THEN {"error"} ELSE {}) :
          engine' = [engine EXCEPT !.critical = "none", !.outcome = outcome]
    /\ UNCHANGED <<setup, accepting, ordinary, urgent, owner, worker, radio>>

CompleteOrdinary ==
    /\ worker.at = "complete"
    /\ engine.critical = "none"
    /\ engine' = [engine EXCEPT !.op = IF OrdinaryEnds THEN "none" ELSE @, !.outcome = "none"]
    /\ IF Ordinary /\ OrdinaryEnds
       THEN IF engine.outcome = "ok" THEN Finish(engine.op, "ok")
            ELSE Finish(engine.op, "error")
       ELSE UNCHANGED <<ticket, parallelError>>
    /\ To("ordinary")
    /\ UNCHANGED <<setup, accepting, ordinary, urgent, owner, radio>>

\* At most one ordinary request, and none behind an auxiliary that waits.
Waiting == {t \in Tickets : ticket[t].at = "auxiliary"}

AdmitOrdinary ==
    /\ worker.at = "ordinary"
    /\ IF Waiting # {} \/ ordinary = <<>> THEN UNCHANGED <<ordinary, ticket, parallelError, engine>>
       ELSE Admit(Head(ordinary)) /\ ordinary' = Tail(ordinary)
    /\ To(IF worker.ok THEN "auxiliary" ELSE "publish")
    /\ UNCHANGED <<setup, accepting, urgent, owner, radio>>

\* The auxiliary write waits for its source to unkey, the engine to be idle and
\* transmission to be over ...
AuxiliaryStale ==
    /\ worker.at = "auxiliary"
    /\ \E t \in Waiting : ~Valid(t) /\ Finish(t, "error")
    /\ To("publish")
    /\ UNCHANGED <<setup, accepting, ordinary, urgent, owner, engine, radio>>

AuxiliaryWaits ==
    /\ worker.at = "auxiliary"
    /\ \A t \in Waiting : Valid(t)
    /\ To("publish")
    /\ UNCHANGED <<setup, port, ticket, owner, engine, radio>>

AuxiliaryDue ==
    /\ worker.at = "auxiliary"
    /\ \E t \in Waiting : Valid(t) /\ ~ticket[t].active
    /\ engine.op = "none" /\ ~worker.busy
    /\ To("idle")
    /\ UNCHANGED <<setup, port, ticket, owner, engine, radio>>

\* ... and for transmit_idle: the proved state of a GPIO output, the rig's answer
\* (published too).
IdleNow == IF setup.ptt = "rig" THEN ~dev.rig ELSE physical = "off"

Observed == IF setup.ptt # "rig" THEN physical ELSE IF dev.rig THEN "on" ELSE "off"

TransmitIdle ==
    /\ worker.at = "idle"
    /\ physical' = Observed
    /\ To(IF IdleNow THEN "write" ELSE "publish")
    /\ UNCHANGED <<setup, port, ticket, owner, engine, dev, key, permitted>>

TransmitIdleFails ==
    /\ worker.at = "idle"
    /\ setup.ptt = "rig"
    /\ physical' = "unknown"
    /\ \E t \in Waiting : Finish(t, "error")
    /\ To("publish")
    /\ UNCHANGED <<setup, accepting, ordinary, urgent, owner, engine, dev, key, permitted>>

\* The source is looked at once more; set_setting.
WriteSetting ==
    /\ worker.at = "write"
    /\ \E t \in Waiting :
          \/ ~Valid(t) /\ Finish(t, "error")
          \/ Valid(t) /\ ticket[t].active /\ UNCHANGED <<ticket, parallelError>>
          \/ Valid(t) /\ ~ticket[t].active /\ (Finish(t, "ok") \/ Finish(t, "error"))
    /\ To("publish")
    /\ UNCHANGED <<setup, accepting, ordinary, urgent, owner, engine, radio>>

\* The periodic poll of the rig's carrier and PTT, when it is due; it may fail.
PollFails ==
    /\ worker.at = "publish"
    /\ worker.ok /\ setup.rig
    /\ physical' \in IF setup.ptt = "rig" THEN {physical, "unknown"} ELSE {physical}
    /\ To("failed")
    /\ UNCHANGED <<setup, port, ticket, owner, engine, dev, key, permitted>>

\* Otherwise the new permission (the engine's own inhibit can only withhold it); a
\* failed advance, or a failed tone gate on the rig, is a failure of the service.
PublishControl(ok) ==
    /\ worker.at = "publish"
    /\ ok => worker.ok
    /\ ~ok => ~worker.ok \/ setup.rig
    /\ physical' \in {physical} \union (IF worker.ok THEN {Observed} ELSE {})
    /\ permitted' = worker.ok
    /\ To(IF ok THEN "cycle" ELSE "failed")
    /\ UNCHANGED <<setup, accepting, ordinary, urgent, parallelError, ticket, owner, engine,
                   dev, key>>

\* ServiceWorker::run after a failed service: remote_failed and one unkey.
ServiceFailed(ok) ==
    /\ worker.at = "failed"
    /\ Unkey(ok)
    /\ To("cycle")
    /\ UNCHANGED <<setup, port, ticket, owner, engine>>

(***************************************************************************)
(* The rest of ServiceWorker::run.                                         *)
(***************************************************************************)

\* service_commands and service_once: the GPIO line follows PhysicalPttControl.
Idle(w) == [w EXCEPT !.at = "loop", !.busy = FALSE, !.source = "idle", !.ok = TRUE]

KeyLevel == key /\ setup.ptt = "gpio"

Cycle ==
    /\ worker.at = "cycle"
    /\ dev' = [dev EXCEPT !.gpio = KeyLevel]
    /\ worker' = Idle(worker)
    /\ UNCHANGED <<setup, port, ticket, owner, engine, physical, key, permitted>>

\* It fails: one unkey; then native service carries on, the other retires its devices.
CycleFails(ok) ==
    /\ worker.at = "cycle"
    /\ \E level \in {dev.gpio, KeyLevel, FALSE} :
          LET failed == [dev EXCEPT !.gpio = level]
          IN  IF Live THEN UnkeyFrom(failed, ok)
              ELSE ok /\ dev' = failed /\ UNCHANGED <<physical, key, permitted>>
    /\ worker' = [Idle(worker) EXCEPT !.retiring = ~setup.native]
    /\ UNCHANGED <<setup, port, ticket, owner, engine>>

\* close_outputs: success consumes the GPIO handle.
Closes(d) ==
    {[dev |-> [d EXCEPT !.gpio = g.on, !.open = ~g.ok], ok |-> g.ok] : g \in Drives(d.gpio, FALSE)}

\* Retiring devices: the remote outputs are proved off first, then closed.
RetireDevicesFails ==
    /\ worker.at = "loop" /\ ~Stopping /\ worker.retiring
    /\ \/ Live /\ Unkey(FALSE)
       \/ \E o \in IF Live THEN {o \in PttAttempt(dev, FALSE) : o.ok} ELSE {[dev |-> dev]} :
          \E c \in Closes(o.dev) : ~c.ok /\ dev' = c.dev /\ UnkeyPublished
    /\ UNCHANGED <<setup, port, ticket, owner, worker, engine>>

RetireDevices ==
    /\ worker.at = "loop" /\ ~Stopping /\ worker.retiring
    /\ \E o \in IF Live THEN {o \in PttAttempt(dev, FALSE) : o.ok} ELSE {[dev |-> dev]} :
       \E c \in Closes(o.dev) : c.ok /\ dev' = c.dev /\ UnkeyPublished
    /\ worker' = [worker EXCEPT !.retiring = FALSE]
    /\ UNCHANGED <<setup, port, ticket, owner, engine>>

\* open_at_outputs, in the loop or before retirement; a failure changes nothing.
Reopen ==
    /\ worker.at \in {"loop", "retire"} /\ ~dev.open
    /\ worker.at = "loop" => ~Stopping /\ ~worker.retiring
    /\ dev' = [dev EXCEPT !.gpio = FALSE, !.open = TRUE]
    /\ UNCHANGED <<setup, port, ticket, owner, worker, engine, physical, key, permitted>>

(***************************************************************************)
(* Retirement: RemoteGeneration::retire as often as it takes, then the     *)
(* outputs are closed, as often as it takes when there was a generation.   *)
(***************************************************************************)
LeaveLoop ==
    /\ worker.at = "loop" /\ Stopping
    /\ To(IF Live THEN "retire" ELSE "close")
    /\ UNCHANGED <<setup, port, ticket, owner, engine, radio>>

\* RemoteOwner::retire: the port is closed, kept work dropped and so completed.
Kept == {t \in Tickets : ticket[t].at \in {"pending", "auxiliary"}}

OwnerRetired ==
    /\ accepting' = FALSE
    /\ ticket' = [t \in Tickets |-> IF t \in Kept THEN Finished(t, "error") ELSE ticket[t]]
    /\ engine' = [engine EXCEPT !.op = "none", !.critical = "none", !.outcome = "none"]
    /\ parallelError' = IF \E t \in Kept : Kind[t] = "parallel" THEN "error" ELSE parallelError

\* The engine, or an output, fails: try again.
RetireFails ==
    /\ worker.at = "retire" /\ dev.open
    /\ OwnerRetired
    /\ UNCHANGED radio \/ ((setup.rig => dev.handle) /\ Unkey(FALSE))
    /\ UNCHANGED <<setup, ordinary, urgent, owner, worker>>

\* The outputs are off, so the rig is closed; closing consumes the handle even when
\* it fails, and a retry then has nothing left to do.
RetireSucceedsUnproved ==
    /\ worker.at = "retire" /\ dev.open
    /\ OwnerRetired
    /\ dev' = [dev EXCEPT !.handle = FALSE]
    /\ To("close")
    /\ UNCHANGED <<setup, ordinary, urgent, owner, physical, key, permitted>>

RetireSucceeds ==
    /\ worker.at = "retire" /\ dev.open
    /\ OwnerRetired
    /\ IF setup.rig /\ ~dev.handle
       THEN To("close") /\ UNCHANGED radio
       ELSE /\ \E o \in PttAttempt(dev, FALSE) : o.ok /\ dev' = [o.dev EXCEPT !.handle = FALSE]
            /\ key' = FALSE /\ permitted' = FALSE /\ physical' = "off"
            /\ \E closed \in BOOLEAN :
                  (closed \/ setup.rig) /\ To(IF closed THEN "close" ELSE "retire")
    /\ UNCHANGED <<setup, ordinary, urgent, owner>>

\* The end of run().  Without a generation one attempt is made; devices that could
\* not be closed go back to the owner, who retries (HardwareService).
CloseAtExit(ok) ==
    /\ worker.at = "close"
    /\ \E c \in IF dev.open THEN Closes(dev) ELSE {[dev |-> dev, ok |-> TRUE]} :
          c.ok = ok /\ dev' = c.dev
    /\ accepting' = FALSE
    /\ To(IF ok \/ ~Live THEN "exited" ELSE "close")
    /\ UNCHANGED <<setup, ordinary, urgent, parallelError, ticket, owner, engine,
                   physical, key, permitted>>

(***************************************************************************)
(* Specification.                                                          *)
(***************************************************************************)
Callers ==
    \E t \in Tickets :
        Submit(t) \/ Push(t) \/ SourceActive(t) \/ Revoke(t) \/ TakeStopped(t)

Attempt(ok) ==
    \/ ProveStart(ok) \/ Reject(ok) \/ Prove(ok)
    \/ Keys(ok) \/ (\E tune \in BOOLEAN : Unkeys(ok, tune))
    \/ PublishControl(ok) \/ ServiceFailed(ok)
    \/ CycleFails(ok) \/ CloseAtExit(ok)

Worker ==
    \/ \E ok \in BOOLEAN : Attempt(ok)
    \/ OpenFails \/ OpenRejected \/ OpenSucceeds
    \/ PollFails \/ BeginService \/ AdmitUrgent \/ Waits \/ ApplyState \/ Program \/ Acknowledge
    \/ CompleteCritical \/ CompleteOrdinary \/ AdmitOrdinary
    \/ AuxiliaryStale \/ AuxiliaryWaits \/ AuxiliaryDue \/ TransmitIdle \/ TransmitIdleFails \/ WriteSetting
    \/ Cycle \/ RetireDevices \/ RetireDevicesFails \/ Reopen \/ LeaveLoop \/ RetireFails \/ RetireSucceeds

Ended == worker.at = "exited" /\ UNCHANGED vars

Next == Callers \/ RetirePort \/ RequestStop \/ Worker \/ Ended

Spec == Init /\ [][Next]_vars

\* A call repeated until it succeeds, with the thread doing nothing else.
Succeeds == Reject(TRUE) \/ RetireDevices \/ RetireSucceeds \/ CloseAtExit(TRUE)

\* The thread runs, a submission is carried through, callers poll, a stop that has
\* begun is carried through, and a call repeated for ever succeeds.  Between calls
\* that the service loop repeats, PTT does not fail every time, and the engine
\* neither unkeys in vain for ever nor puts a request off for ever.
Fairness ==
    /\ WF_vars(Worker) /\ WF_vars(RequestStop) /\ WF_vars(Succeeds)
    /\ \A t \in Tickets : WF_vars(Push(t)) /\ WF_vars(TakeStopped(t))
    /\ SF_vars(Prove(TRUE)) /\ SF_vars(Unkeys(TRUE, FALSE)) /\ SF_vars(Unkeys(TRUE, TRUE))
    /\ SF_vars(AuxiliaryDue)

FairSpec == Spec /\ Fairness

(***************************************************************************)
(* Properties.                                                             *)
(***************************************************************************)

\* The type invariant; the port keeps its bounds, and every piece of work is in the
\* one place its ticket says.
TypeOK ==
    /\ setup \in Setups
    /\ {accepting, key, permitted} \subseteq BOOLEAN
    /\ \A t \in Tickets :
          /\ ticket[t].result \in Results
          /\ (ticket[t].at = "queued") = (\E i \in DOMAIN ordinary : ordinary[i] = t) \/ Kind[t] = "urgent"
          /\ (ticket[t].at = "pending") = (t \in {engine.op, engine.critical})
    /\ Len(ordinary) <= Capacity /\ Len(urgent) <= 1
    /\ parallelError \in Results
    /\ physical \in {"unknown", "on", "off"}
    /\ dev \in [{"gpio", "rig", "handle", "open"} -> BOOLEAN]

\* What the station is told of PTT is true: physical_ptt = Some(false) is published
\* only while every output really is off, through failing writes, lost readbacks,
\* recovery of the GPIO devices and retirement.  Receive is released on its word.
KnownOffIsOff == physical = "off" => ~dev.gpio /\ ~dev.rig

\* The radio is written only when no output transmits: during the engine's
\* programming, when transmit permission has been withdrawn too, and at an auxiliary
\* setting, which follows the engine's own keying in the same iteration.
RadioWrittenSafely ==
    /\ worker.at \in {"program", "acknowledge", "write"} => ~dev.gpio /\ ~dev.rig
    /\ worker.at \in {"program", "acknowledge"} => ~permitted

\* PTT is told truthfully and respected by the programming of the radio.
RadioIdleWhenSaid == KnownOffIsOff /\ RadioWrittenSafely

\* The rig is never let go while it may be keyed: the handle is given up, by a
\* refused opening or by retirement, only with its line off, and a generation's
\* thread ends with every line off and nothing held.
ReleasedRigUnkeyed ==
    /\ Live /\ ~dev.handle /\ setup.rig => ~dev.rig
    /\ worker.remote = "rejected" => ~dev.rig /\ ~dev.handle
    /\ Live /\ worker.at = "exited" => ~dev.gpio /\ ~dev.rig /\ ~dev.handle /\ ~dev.open

\* A ticket has one result: the caller that finds the generation retired and the
\* thread that completes, abandons or drops the work race for it, and whoever comes
\* second changes nothing.
OneResult ==
    [][\A t \in Tickets :
          ticket[t].result # "none" => ticket'[t].result = ticket[t].result]_vars

\* Every caller is answered, once sources and the transmitter fall silent: a request
\* can wait behind others, an urgent one, failing devices or a retirement, but not for
\* ever.  The exception is a generation that failed to open before it had an owner
\* (see CallersNeverWaitForever).
Silent == ~key /\ \A t \in Tickets : ~ticket[t].active

TicketsAnswered ==
    <>[]Silent =>
        \A t \in Tickets : Issued(t) ~> ticket[t].result # "none" \/ worker.remote = "lost"

\* A stopped generation ends: retirement survives failing engines and outputs and a
\* rig that fails to close.
RetirementEnds == Stopping ~> worker.at = "exited"

\* Callers and the generation both come to their end.
RemoteProgress == TicketsAnswered /\ RetirementEnds

\* The promise about a lost owner: "callers cannot wait forever for a lost owner"
\* (RemoteWork); Stopped is the answer when "its owner was lost" (RemoteRequestError).
\* A caller that has revoked or dropped its request no longer waits.
CallersNeverWaitForever ==
    <>[]Silent =>
        \A t \in Tickets : Issued(t) ~> ticket[t].result # "none" \/ ~ticket[t].valid
=============================================================================
