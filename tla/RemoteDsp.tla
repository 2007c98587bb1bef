----------------------------- MODULE RemoteDsp -----------------------------
(***************************************************************************)
(* The two control clients of one station's update mailbox: the remote     *)
(* base's DSP exchange, which retunes signaling, and the live path of a    *)
(* configuration reload.                                                   *)
(*                                                                         *)
(* The physical worker offers an exchange through a queue of one, builds   *)
(* the candidate graphs itself and waits for a result, giving up on        *)
(* urgent work or on its deadline.  The station's serialized control task  *)
(* pumps the exchange between other operations, reload phases among them.  *)
(* The mailbox is UpdateTransaction, which StationUpdate implements.       *)
(***************************************************************************)
EXTENDS Naturals

CONSTANTS
    Targets,      \* remote operating states
    BootTarget,   \* the one in force when the station opens
    Files,        \* station settings a configuration file can hold
    BootFile,
    MaxExchange,  \* bound on exchanges
    MaxReload     \* bound on reloads

ASSUME TargetsAssumption == BootTarget \in Targets
ASSUME FilesAssumption == BootFile \in Files
ASSUME BoundsAssumption == MaxExchange \in Nat /\ MaxReload \in Nat

\* The parts of a StationPlan the two clients own.
Plans == [file : Files, remote : Targets]
BootPlan == [file |-> BootFile, remote |-> BootTarget]

Ids == 1 .. MaxExchange

VARIABLES
    plan, txn, outcome, revision,  \* the mailbox
    pending,   \* RemoteDspPort.pending: an exchange or 0
    live,      \* RemoteDspPort.live
    job,       \* the exchange the worker waits for, or 0
    exchange,  \* Exchange, by id
    nextId,
    believed,  \* self.current, the operating state the worker takes to be in force
    active,    \* RemoteDspControl.active
    pumping,   \* inside pump(), past its look at cancelled
    reload,    \* the reload of this channel: phase and prepared update
    reloads

mailbox == <<plan, txn, outcome, revision>>
waiting == <<job, nextId, believed>>
pump == <<active, pumping>>
client == <<reload, reloads>>
exchangeVars == <<mailbox, pending, live, exchange, waiting, pump, client>>

Mailbox == INSTANCE UpdateTransaction

\* What a StationUpdatePreparation captures.
NoToken == [stage |-> "none", previous |-> BootPlan, revision |-> 0]
Capture == [stage |-> "captured", previous |-> plan, revision |-> revision]

NewExchange(t) == [target |-> t, token |-> NoToken, result |-> "none",
                   cancelled |-> FALSE]
NotActive == [id |-> 0, prepared |-> FALSE, started |-> FALSE,
              reversing |-> FALSE]
NoReload == [phase |-> "idle", file |-> BootFile, token |-> NoToken]

ExchangeInit ==
    /\ Mailbox!Init
    /\ pending = 0
    /\ live = TRUE
    /\ job = 0
    /\ exchange = [i \in Ids |-> NewExchange(BootTarget)]
    /\ nextId = 1
    /\ believed = BootTarget
    /\ active = NotActive
    /\ pumping = FALSE
    /\ reload = NoReload
    /\ reloads = 0

-----------------------------------------------------------------------------
(* The mailbox calls both clients make.                                    *)

\* begin_update's Busy check.
Admissible(token) == txn = Mailbox!None /\ revision = token.revision

\* finish_update: it acts on whatever transaction is installed, and has
\* nothing to do and answers ok when there is none.
FinishUpdate(commit, answer) ==
    \/ /\ txn = Mailbox!None
       /\ answer = "ok"
       /\ UNCHANGED mailbox
    \/ commit /\ Mailbox!Commit /\ answer = "ok"
    \/ ~commit /\ Mailbox!Settle /\ answer = "ok"
    \/ ~commit /\ Mailbox!Reverse /\ answer = "pending"
    \/ /\ txn # Mailbox!None
       /\ outcome = "pending"
       /\ answer = "pending"
       /\ UNCHANGED mailbox
    \/ /\ txn # Mailbox!None
       /\ \/ outcome = "refused" /\ (commit \/ txn.reversing)
          \/ outcome = "adopted" /\ commit /\ txn.reversing
       /\ answer = "error"
       /\ UNCHANGED mailbox

\* The audio callbacks answer.  The radio takes its own earlier settings
\* back.
Callbacks ==
    /\ \E r \in {"adopted"} \cup IF txn.reversing THEN {} ELSE {"refused"} :
           Mailbox!Answer(r)
    /\ UNCHANGED <<pending, live, exchange, waiting, pump, client>>

-----------------------------------------------------------------------------
(* RemoteDspPort::apply, on the physical worker.                           *)

\* A full queue answers Busy and changes nothing.
Offer(t) ==
    /\ job = 0
    /\ live
    /\ nextId <= MaxExchange
    /\ pending = 0
    /\ pending' = nextId
    /\ job' = nextId
    /\ nextId' = nextId + 1
    /\ exchange' = [exchange EXCEPT ![nextId] = NewExchange(t)]
    /\ UNCHANGED <<mailbox, live, believed, pump, client>>

\* apply returns the result; a success becomes the current state, and an error
\* leaves the one before it.
Return ==
    /\ job # 0
    /\ exchange[job].token.stage # "building"
    /\ exchange[job].result # "none"
    /\ believed' = IF exchange[job].result = "ok"
                   THEN exchange[job].target ELSE believed
    /\ job' = 0
    /\ UNCHANGED <<mailbox, pending, live, exchange, nextId, pump, client>>

\* Stopped, cancelled or timed out: an error, so the current state stays the one
\* before.  A result may arrive after the worker last looked for one, and the
\* pump may commit after it last looked at cancelled.
GiveUp ==
    /\ job # 0
    /\ exchange[job].token.stage # "building"
    /\ exchange' = [exchange EXCEPT ![job].cancelled = TRUE]
    /\ job' = 0
    /\ UNCHANGED <<mailbox, pending, live, nextId, believed, pump, client>>

SetStage(i, s) == exchange' = [exchange EXCEPT ![i].token.stage = s]

TakePreparation ==
    /\ job # 0
    /\ exchange[job].token.stage = "captured"
    /\ SetStage(job, "building")
    /\ UNCHANGED <<mailbox, pending, live, waiting, pump, client>>

\* Graph construction ends, well or badly.
Build ==
    /\ job # 0
    /\ exchange[job].token.stage = "building"
    /\ \E s \in {"ready", "failed"} : SetStage(job, s)
    /\ UNCHANGED <<mailbox, pending, live, waiting, pump, client>>

PhysicalWorker == Return \/ GiveUp \/ TakePreparation \/ Build

-----------------------------------------------------------------------------
(* RemoteDspControl::pump, on the control task.                            *)

\* Exchange::complete keeps the first result.
Complete(i, r) ==
    exchange' = [exchange EXCEPT ![i].result =
                     IF @ = "none" THEN r ELSE @]

\* Pick up the queued exchange and look at cancelled.
PumpEnter ==
    /\ live
    /\ ~pumping
    /\ active.id # 0 \/ pending # 0
    /\ LET now == IF active.id # 0 THEN active
                  ELSE [NotActive EXCEPT !.id = pending]
           cancelled == exchange[now.id].cancelled
       IN /\ active' = IF ~cancelled THEN now
                       ELSE IF now.started
                            THEN [now EXCEPT !.reversing = TRUE]
                            ELSE NotActive
          /\ pumping' = (~cancelled \/ now.started)
    /\ pending' = IF active.id # 0 THEN pending ELSE 0
    /\ UNCHANGED <<mailbox, live, exchange, waiting, client>>

\* snapshot_update: captured, Busy, or failed.
PumpCapture ==
    /\ pumping
    /\ ~active.prepared
    /\ \/ /\ txn = Mailbox!None
          /\ exchange' = [exchange EXCEPT ![active.id].token = Capture]
          /\ active' = [active EXCEPT !.prepared = TRUE]
       \/ /\ txn # Mailbox!None
          /\ UNCHANGED <<exchange, active>>
       \/ /\ txn = Mailbox!None
          /\ Complete(active.id, "error")
          /\ active' = NotActive
    /\ pumping' = FALSE
    /\ UNCHANGED <<mailbox, pending, live, waiting, client>>

PumpWait ==
    /\ pumping
    /\ active.prepared
    /\ ~active.started
    /\ exchange[active.id].token.stage \in {"captured", "building"}
    /\ pumping' = FALSE
    /\ UNCHANGED <<mailbox, pending, live, exchange, waiting, active, client>>

\* The candidate keeps the file's settings and carries the new operating
\* state; an update begun goes straight on to PumpFinish.
PumpBegin ==
    /\ pumping
    /\ active.prepared
    /\ ~active.started
    /\ exchange[active.id].token.stage = "ready"
    /\ SetStage(active.id, "none")
    /\ LET e == exchange[active.id]
       IN \/ /\ Admissible(e.token)
             /\ Mailbox!Begin([e.token.previous EXCEPT !.remote = e.target])
             /\ active' = [active EXCEPT !.started = TRUE]
             /\ UNCHANGED pumping
          \/ /\ ~Admissible(e.token)
             /\ active' = [active EXCEPT !.prepared = FALSE]
             /\ pumping' = FALSE
             /\ UNCHANGED mailbox
    /\ UNCHANGED <<pending, live, waiting, client>>

\* Graph construction failed on the worker.
PumpReject ==
    /\ pumping
    /\ active.prepared
    /\ ~active.started
    /\ exchange[active.id].token.stage = "failed"
    /\ Complete(active.id, "error")
    /\ active' = NotActive
    /\ pumping' = FALSE
    /\ UNCHANGED <<mailbox, pending, live, waiting, client>>

\* Faulty variant: a failed adoption is retired without its way back.
PumpFinish_NoReverse ==
    /\ pumping
    /\ active.started
    /\ \E answer \in {"ok", "pending", "error"} :
        /\ FinishUpdate(~active.reversing, answer)
        /\ CASE answer = "ok" ->
                    /\ Complete(active.id, IF active.reversing
                                           THEN "error" ELSE "ok")
                    /\ active' = NotActive
             [] answer = "pending" -> UNCHANGED <<exchange, active>>
             [] answer = "error" ->
                    /\ Complete(active.id, "error")
                    /\ UNCHANGED active
    /\ pumping' = FALSE
    /\ UNCHANGED <<pending, live, waiting, client>>

\* Faulty variant: Pending is taken for success.
PumpFinish_Eager ==
    /\ pumping
    /\ active.started
    /\ \E answer \in {"ok", "pending", "error"} :
        /\ FinishUpdate(~active.reversing, answer)
        /\ CASE answer \in {"ok", "pending"} ->
                    /\ Complete(active.id, IF active.reversing
                                           THEN "error" ELSE "ok")
                    /\ active' = IF answer = "ok" THEN NotActive ELSE active
             [] answer = "error" ->
                    /\ Complete(active.id, "error")
                    /\ active' = [active EXCEPT !.reversing = TRUE]
    /\ pumping' = FALSE
    /\ UNCHANGED <<pending, live, waiting, client>>

\* Finish forward, or back once cancelled or failed.
PumpFinish ==
    /\ pumping
    /\ active.started
    /\ \E answer \in {"ok", "pending", "error"} :
        /\ FinishUpdate(~active.reversing, answer)
        /\ CASE answer = "ok" ->
                    /\ Complete(active.id, IF active.reversing
                                           THEN "error" ELSE "ok")
                    /\ active' = NotActive
             [] answer = "pending" -> UNCHANGED <<exchange, active>>
             [] answer = "error" ->
                    /\ Complete(active.id, "error")
                    /\ active' = [active EXCEPT !.reversing = TRUE]
    /\ pumping' = FALSE
    /\ UNCHANGED <<pending, live, waiting, client>>

PumpStep == PumpCapture \/ PumpWait \/ PumpBegin \/ PumpReject \/ PumpFinish

\* The control owner is dropped with its station.
DropOwner ==
    /\ live
    /\ ~pumping
    /\ reload.phase = "idle"
    /\ live' = FALSE
    /\ UNCHANGED <<mailbox, pending, exchange, waiting, pump, client>>

-----------------------------------------------------------------------------
(* The live path of a reload, on the control task between pumps.           *)

ReloadMay(phase) == live /\ ~pumping /\ reload.phase = phase
ReloadTo(phase) == reload' = [reload EXCEPT !.phase = phase]

\* channel_reload_prepare: Busy while a transaction is open fails the
\* reload before it has changed anything.
ReloadPrepare(f) ==
    /\ ReloadMay("idle")
    /\ reloads < MaxReload
    /\ reloads' = reloads + 1
    /\ reload' = IF txn = Mailbox!None
                 THEN [phase |-> "preparing", file |-> f, token |-> Capture]
                 ELSE reload
    /\ UNCHANGED <<mailbox, pending, live, exchange, waiting, pump>>

\* The preparation thread ends; a failed one leaves nothing behind.
ReloadBuilt ==
    /\ reload.phase = "preparing"
    /\ \E p \in {"prepared", "idle"} : ReloadTo(p)
    /\ UNCHANGED <<mailbox, pending, live, exchange, waiting, pump, reloads>>

\* Faulty variant: the file's own operating state replaces the live one.
Candidate_FromFile == [file |-> reload.file, remote |-> BootTarget]

\* retain_remote_operating: the candidate keeps the live operating state.
Candidate == [reload.token.previous EXCEPT !.file = reload.file]

\* channel_reload_activate: the rollback marker is set before begin_update.
ReloadActivate ==
    /\ ReloadMay("prepared")
    /\ \/ /\ Admissible(reload.token)
          /\ Mailbox!Begin(Candidate)
          /\ ReloadTo("adopting")
       \/ /\ ~Admissible(reload.token)
          /\ ReloadTo("aborting")
          /\ UNCHANGED mailbox
    /\ UNCHANGED <<pending, live, exchange, waiting, pump, reloads>>

\* accept_update, polled; Pending is no step.
ReloadAccept ==
    /\ ReloadMay("adopting")
    /\ \/ Mailbox!Accept /\ ReloadTo("accepted")
       \/ /\ outcome # "pending"
          /\ outcome = "adopted" => txn.reversing
          /\ ReloadTo("aborting")
          /\ UNCHANGED mailbox
    /\ UNCHANGED <<pending, live, exchange, waiting, pump, reloads>>

\* Another channel fails or the adoption deadline passes.
ReloadAbort ==
    /\ reload.phase \in {"prepared", "adopting", "accepted"}
    /\ ReloadTo(IF reload.phase = "prepared" THEN "idle" ELSE "aborting")
    /\ UNCHANGED <<mailbox, pending, live, exchange, waiting, pump, reloads>>

\* channel_reload_finish: an error leaves the marker for a later abort.
ReloadFinish(commit) ==
    /\ ReloadMay(IF commit THEN "accepted" ELSE "aborting")
    /\ \E answer \in {"ok", "pending", "error"} :
        /\ FinishUpdate(commit, answer)
        /\ CASE answer = "ok" -> ReloadTo("idle")
             [] answer = "pending" -> UNCHANGED reload
             [] answer = "error" -> ReloadTo("aborting")
    /\ UNCHANGED <<pending, live, exchange, waiting, pump, reloads>>

ReloadStep ==
    \/ ReloadBuilt \/ ReloadActivate \/ ReloadAccept \/ ReloadAbort
    \/ \E c \in BOOLEAN : ReloadFinish(c)

-----------------------------------------------------------------------------
ExchangeNext ==
    \/ Callbacks
    \/ \E t \in Targets : Offer(t)
    \/ PhysicalWorker
    \/ PumpEnter \/ PumpStep
    \/ \E f \in Files : ReloadPrepare(f)
    \/ ReloadStep
    \/ DropOwner

ExchangeSpec == ExchangeInit /\ [][ExchangeNext]_exchangeVars

\* The sound card paces the callbacks, the delivery worker calls the control
\* task every frame, the physical worker's loop has a deadline, and the
\* reload thread polls until its phase is over.
ExchangeFairness ==
    /\ WF_exchangeVars(Callbacks)
    /\ WF_exchangeVars(PhysicalWorker)
    /\ SF_exchangeVars(PumpEnter) /\ WF_exchangeVars(PumpStep)
    /\ SF_exchangeVars(ReloadFinish(FALSE)) /\ WF_exchangeVars(ReloadStep)

FairExchangeSpec == ExchangeSpec /\ ExchangeFairness

-----------------------------------------------------------------------------
(* Properties.                                                             *)

(* The type invariant.                                                     *)
ExchangeTypeOK ==
    /\ plan \in Plans
    /\ txn \in Mailbox!Transactions \cup {Mailbox!None}
    /\ outcome \in {"none", "pending", "adopted", "refused"}
    /\ revision \in Nat
    /\ pending \in 0 .. MaxExchange
    /\ live \in BOOLEAN
    /\ job \in 0 .. MaxExchange
    /\ \A i \in Ids :
        /\ exchange[i].target \in Targets
        /\ exchange[i].token.stage \in {"none", "captured", "building",
                                        "ready", "failed"}
        /\ exchange[i].result \in {"none", "ok", "error"}
        /\ exchange[i].cancelled \in BOOLEAN
    /\ believed \in Targets
    /\ active.id \in 0 .. MaxExchange
    /\ pumping => active.id # 0
    /\ reload.phase \in {"idle", "preparing", "prepared", "adopting",
                         "accepted", "aborting"}

(* with_remote_signaling: the mailbox "must acknowledge both callback      *)
(* owners before commit".  An exchange whose result is success has its     *)
(* operating state in force at that moment.                                *)
AppliedMeansInForce ==
    [][\A i \in Ids :
          (exchange[i].result = "none" /\ exchange'[i].result = "ok")
             => plan'.remote = exchange[i].target]_exchangeVars

\* Nothing is exchanged, and no reload has come to the mailbox.
Settled == job = 0 /\ pending = 0 /\ active.id = 0 /\ reloads = 0

\* The last exchange the callbacks adopted for good.
LastAdopted(i) ==
    /\ exchange[i].result = "ok"
    /\ \A j \in Ids : j > i => exchange[j].result # "ok"

(* The operating state the worker holds as current (self.current, which    *)
(* the next read and every receive permission go by) is the one the DSP    *)
(* runs, whatever was refused, timed out or reversed before; only an       *)
(* exchange the worker abandoned when the pump had already passed its look *)
(* at cancelled is in force without the worker's knowledge, and only until *)
(* the next success.                                                       *)
RecordFollowsDsp ==
    Settled => \/ plan.remote = believed
               \/ \E i \in Ids : /\ exchange[i].cancelled /\ LastAdopted(i)
                                 /\ plan.remote = exchange[i].target

(* "Failed/cancelled adoption is reversed": an exchange the worker gave up *)
(* leaves the DSP on the operating state the worker holds as current.      *)
CancelledIsReversed == Settled => plan.remote = believed

(* retain_remote_operating: no step of either client ever changes both the *)
(* file's part and the remote's part, so an unrelated file edit keeps the  *)
(* live tuning and a retune keeps the file edit, also when one overtakes   *)
(* the other between its snapshot and its admission.                       *)
EachClientChangesItsOwnPart ==
    [][plan'.file = plan.file \/ plan'.remote = plan.remote]_exchangeVars

(* An exchange the control owner has taken leaves it again, through any    *)
(* refusal, abandonment or reload, so the next retune is never locked out. *)
ExchangesDrain == []<>(active.id = 0 \/ ~live)
=============================================================================
