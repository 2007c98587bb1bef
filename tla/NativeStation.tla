--------------------------- MODULE NativeStation ---------------------------
(***************************************************************************)
(* The station a native host owns through the product's C interface: its   *)
(* creation with the tuning found in the interface's EEPROM, start, stop   *)
(* and quiesce, the tuner's mixer and EEPROM commands, and live updates    *)
(* with their two owners, the audio side's update mailbox and the          *)
(* hardware mixers.                                                        *)
(*                                                                         *)
(* The host serialises its calls, so each call is one step; the audio      *)
(* callbacks answer an update, and the hardware thread retires, on their   *)
(* own.  The mailbox is the transaction of UpdateTransaction.  Every       *)
(* device call may fail, and a failed mixer or EEPROM write may have       *)
(* reached the device.  The station has a CM119 interface and no remote    *)
(* base.  The host never commits an update it has begun to abandon, does   *)
(* not start a station it is quiescing, and destroys it once stopped.      *)
(***************************************************************************)
EXTENDS Naturals, Functions

CONSTANTS
    MixerCount,   \* HardwareMixer: receive, transmit A, transmit B
    Levels,       \* mixer levels
    LowestGain,   \* the level of the lowest gain that can be configured (-30 dB)
    DefaultGain,  \* the gain of a document that names none
    Unset,        \* a gain the host leaves alone
    Blank,        \* no valid EEPROM image
    Nil,          \* None
    Requests,     \* configurations the host asks for
    NativeBudgets \* bounds: mixer writes, EEPROM writes, updates, starts and faults

Mixers == 1 .. MixerCount
\* A gain in decibels is named by the level mixer_level gives it.
Gains == {g \in Levels : g >= LowestGain}

ASSUME NativeConstants ==
    /\ MixerCount \in Nat \ {0} /\ Levels \subseteq Nat /\ LowestGain \in Levels
    /\ DefaultGain \in Gains /\ Unset \notin Gains /\ Blank \notin Levels
    /\ \A r \in Requests : r.gain \in [Mixers -> Gains \union {Unset}] /\ r.eeprom \in BOOLEAN

\* What a request resolves to (StationPlan), and what a committed one leaves behind.
Plans == [of : Requests, squelch : {r.squelch : r \in Requests}, gain : [Mixers -> Levels]]
Files == [file : Plans, gains : [Mixers -> Gains \union {Unset}]]

ASSUME NilAssumption == Nil \notin Files   \* None is not Some

VARIABLES
    owner,    \* NativeStation: made, StationRuntime.running, HardwareService's state
    plan,     \* StationControlHost.plan
    settings, \* file_configuration and gains
    begun,    \* NativeStation.pending
    token,    \* the NativeUpdate the host holds
    txn,      \* the mailbox's transaction
    setup,    \* NativeMixerSetup: gains and EEPROM tuning of the next start
    mixers,   \* HardwareMixers.levels, once opened
    retained, \* HardwareMaintenance.update_mixers
    image,    \* external: the EEPROM's contents
    line,     \* external: the mixers' levels
    meant,    \* history: levels the last successful calls established; before, those at begin
    doubt,    \* history: mixers a failed write may have moved; before, those at begin
    left      \* calls left

station == <<owner, plan, settings, begun, token, txn>>
gear == <<setup, mixers, retained, image, line>>
history == <<meant, doubt>>
nativeVars == <<station, gear, history, left>>

Closed == <<>>

(***************************************************************************)
(* Configurations and tuning.                                              *)
(***************************************************************************)

\* hardware_level_to_db, then mixer_level: levels below the lowest gain are lost.
Decibels(level) == IF level < LowestGain THEN LowestGain ELSE level

\* resolve: a gain the request does not select keeps the document's.
ResolvedGain(g) == IF g = Unset THEN DefaultGain ELSE g

\* resolve_request.  `of' is the request it resolves.
Resolve(r) ==
    [of |-> r, squelch |-> r.squelch, gain |-> [m \in Mixers |-> ResolvedGain(r.gain[m])]]

\* EepromTuning, which an image with a wrong magic, checksum or value does not hold.
EepromTuning(levels, conf) == [level |-> levels, squelch |-> conf.squelch]

\* HardwarePreflight::native: an unreadable EEPROM is as good as a blank one.
Readings(r) == IF r.eeprom THEN {image, Blank} ELSE {Blank}

\* EepromTuning::apply_to.
ApplyTuning(conf, t) ==
    IF t = Blank THEN conf
    ELSE [conf EXCEPT !.gain = [m \in Mixers |-> Decibels(t.level[m])], !.squelch = t.squelch]

\* HardwareMaintenance::preserve_startup_tuning: what the operator did not change in
\* the file keeps the value in force.
Preserve(previous, current, asked) ==
    [asked EXCEPT
        !.gain = [m \in Mixers |-> IF asked.gain[m] = previous.gain[m]
                                   THEN current.gain[m] ELSE asked.gain[m]],
        !.squelch = IF @ = previous.squelch THEN current.squelch ELSE @]

(***************************************************************************)
(* Mixer writes, in order; the first that fails ends the call.             *)
(***************************************************************************)

\* target gives the mixers to write.  Outcomes: the levels on the line, the levels
\* remembered, success.
Writes(target, levels) ==
    LET Upto(now, n) == [m \in Mixers |-> IF m \in DOMAIN target /\ m <= n THEN target[m] ELSE now[m]]
    IN  {[line |-> Upto(line, MixerCount), levels |-> Upto(levels, MixerCount), ok |-> TRUE]}
        \union
        UNION {{[line |-> Upto(line, n), levels |-> Upto(levels, m - 1), ok |-> FALSE] :
                   n \in {m - 1, m}} : m \in DOMAIN target}

\* The levels of a call's target, over those of the other mixers.
Overlay(target, now) == [m \in Mixers |-> IF m \in DOMAIN target THEN target[m] ELSE now[m]]

\* HardwareMaintenance::mixers: the first use opens them and reads their levels.
Opened == IF mixers = Closed THEN line ELSE mixers

Spend(k) == left[k] > 0 /\ left' = [left EXCEPT ![k] = @ - 1]
Faulty(ok, k) ==
    /\ left[k] > 0
    /\ ok \/ left.faults > 0
    /\ left' = [left EXCEPT ![k] = @ - 1, !.faults = IF ok THEN @ ELSE @ - 1]
FaultOnly(ok) ==
    /\ ok \/ left.faults > 0
    /\ left' = [left EXCEPT !.faults = IF ok THEN @ ELSE @ - 1]

NoTxn == [open |-> FALSE, to |-> Nil, from |-> Nil, reversing |-> FALSE, answer |-> "none"]

NativeInit ==
    /\ owner = [made |-> FALSE, running |-> FALSE, service |-> "stopped", eeprom |-> FALSE,
               abandoned |-> FALSE]
    /\ plan = Nil /\ settings = Nil /\ begun = Nil /\ token = Nil
    /\ txn = NoTxn
    /\ setup = Nil /\ mixers = Closed /\ retained = Closed
    /\ image = Blank
    /\ line = [m \in Mixers |-> DefaultGain]
    /\ meant = [now |-> line, before |-> line]
    /\ doubt = [now |-> {}, before |-> {}]
    /\ left \in NativeBudgets

(***************************************************************************)
(* Creation and destruction.                                               *)
(***************************************************************************)

\* create: HardwarePreflight::native reads the EEPROM if it is enabled and readable;
\* nothing is written to the mixers.
Create(r) ==
    /\ ~owner.made
    /\ \E t \in Readings(r) :
        /\ plan' = ApplyTuning(Resolve(r), t)
        /\ setup' = [gains |-> r.gain, tuning |-> t]
        /\ FaultOnly(~r.eeprom \/ t = image)
    /\ settings' = [file |-> Resolve(r), gains |-> r.gain]
    /\ owner' = [owner EXCEPT !.made = TRUE, !.eeprom = r.eeprom]
    /\ mixers' = Closed /\ retained' = Closed
    /\ UNCHANGED <<begun, token, txn, image, line, meant, doubt>>

\* destroy, of a station that has stopped.
Destroy ==
    /\ owner.made /\ ~owner.running /\ owner.service = "stopped" /\ begun = Nil
    /\ owner' = [owner EXCEPT !.made = FALSE]
    /\ plan' = Nil /\ settings' = Nil /\ token' = Nil /\ setup' = Nil
    /\ mixers' = Closed
    /\ UNCHANGED <<begun, txn, retained, image, line, history, left>>

(***************************************************************************)
(* Start.                                                                  *)
(***************************************************************************)

\* apply_native_gains: the EEPROM's levels, else the gains the host selected.
StartTargets ==
    IF setup.tuning # Blank THEN setup.tuning.level
    ELSE Restrict(setup.gains, {m \in Mixers : setup.gains[m] # Unset})

\* start applies gains, unless the callbacks never stopped or the hardware thread runs.
AppliesGains == ~owner.running /\ owner.service # "running"

StartWrites == IF AppliesGains THEN Writes(StartTargets, line)
               ELSE {[line |-> line, levels |-> line, ok |-> TRUE]}

\* History: a write outlasts the update it falls in when there are no levels to restore.
Outlasting(now, before) == IF retained = Closed THEN now ELSE before

GainsApplied ==
    IF ~AppliesGains THEN UNCHANGED <<mixers, meant, doubt>>
    ELSE /\ mixers' = Closed
         /\ meant' = LET to == Overlay(StartTargets, meant.now)
                     IN  [now |-> to, before |-> Outlasting(to, meant.before)]
         /\ doubt' = LET to == doubt.now \ DOMAIN StartTargets
                     IN  [now |-> to, before |-> Outlasting(to, doubt.before)]

StartCall ==
    /\ owner.made /\ owner.service # "retired"
    /\ ~(owner.running /\ owner.service = "running")

Start ==
    /\ StartCall
    /\ Spend("starts")
    /\ \E w \in {w \in StartWrites : w.ok} : line' = w.line
    /\ GainsApplied
    /\ owner' = [owner EXCEPT !.running = TRUE, !.service = "running"]
    /\ UNCHANGED <<plan, settings, begun, token, txn, setup, retained, image>>

\* A gain cannot be written: nothing starts.
StartGainsFail ==
    /\ StartCall /\ Faulty(FALSE, "starts")
    /\ \E w \in {w \in StartWrites : ~w.ok} : line' = w.line
    /\ doubt' = LET to == doubt.now \union DOMAIN StartTargets
                IN  [now |-> to, before |-> Outlasting(to, doubt.before)]
    /\ UNCHANGED <<station, setup, mixers, retained, image, meant>>

\* The hardware thread cannot start, or the stream cannot and the thread is stopped
\* again; a device that could not be made safe stays to be retired.
StartFails ==
    /\ StartCall /\ Faulty(FALSE, "starts")
    /\ \E w \in {w \in StartWrites : w.ok} : line' = w.line
    /\ GainsApplied
    /\ \E s \in {"stopped", "unsafe"} : owner' = [owner EXCEPT !.service = s]
    /\ UNCHANGED <<plan, settings, begun, token, txn, setup, retained, image>>

(***************************************************************************)
(* Live updates.                                                           *)
(***************************************************************************)

\* prepare_update: a request that changes whether the EEPROM is used is refused.
PrepareUpdate(r) ==
    /\ owner.running /\ begun = Nil /\ token = Nil
    /\ r.eeprom = owner.eeprom
    /\ Spend("updates")
    /\ token' = [to |-> Preserve(settings.file, plan, Resolve(r)), file |-> Resolve(r),
                 gains |-> r.gain, changed |-> {m \in Mixers : settings.gains[m] # r.gain[m]}]
    /\ UNCHANGED <<owner, plan, settings, begun, txn, gear, history>>

\* destroy_update, of one that was not begun.
DestroyUpdate ==
    /\ token # Nil
    /\ token' = Nil
    /\ UNCHANGED <<owner, plan, settings, begun, txn, gear, history, left>>

\* begin_mixer_update: changed gains only.
UpdateTargets ==
    [m \in {m \in Mixers : m \in token.changed \/ plan.gain[m] # token.to.gain[m]} |->
        token.to.gain[m]]

\* History's own view: the gains the host asked to change.
AskedTargets == [m \in token.changed |-> token.to.gain[m]]

\* begin_update: the mailbox takes the candidate, and then the mixers are written.
BeginUpdate(ok) ==
    /\ owner.running /\ begun = Nil /\ token # Nil
    /\ token' = Nil
    /\ txn' = [open |-> TRUE, to |-> token.to, from |-> plan, reversing |-> FALSE,
               answer |-> "pending"]
    /\ begun' = [file |-> token.file, gains |-> token.gains]
    /\ owner' = [owner EXCEPT !.abandoned = ~ok]
    /\ FaultOnly(ok)
    /\ retained' = Opened
    /\ \E w \in {w \in Writes(UpdateTargets, Opened) : w.ok = ok} :
        line' = w.line /\ mixers' = w.levels
    /\ meant' = [now |-> IF ok THEN Overlay(AskedTargets, meant.now) ELSE meant.now,
                 before |-> meant.now]
    /\ doubt' = [now |-> IF ok THEN doubt.now \ DOMAIN UpdateTargets
                         ELSE doubt.now \union DOMAIN UpdateTargets,
                 before |-> doubt.now]
    /\ UNCHANGED <<plan, settings, setup, image>>

\* begin_update when the mixers cannot be opened: the candidate is published, no
\* levels are kept.
BeginUnopened ==
    /\ owner.running /\ begun = Nil /\ token # Nil /\ mixers = Closed
    /\ token' = Nil
    /\ txn' = [open |-> TRUE, to |-> token.to, from |-> plan, reversing |-> FALSE,
               answer |-> "pending"]
    /\ begun' = [file |-> token.file, gains |-> token.gains]
    /\ owner' = [owner EXCEPT !.abandoned = TRUE]
    /\ FaultOnly(FALSE)
    /\ meant' = [meant EXCEPT !.before = meant.now]
    /\ doubt' = [doubt EXCEPT !.before = doubt.now]
    /\ UNCHANGED <<plan, settings, gear>>

\* The callbacks answer what the mailbox published.
Answer(result) ==
    /\ owner.running /\ txn.answer = "pending"
    /\ FaultOnly(result = "adopted")
    /\ txn' = [txn EXCEPT !.answer = result]
    /\ UNCHANGED <<owner, plan, settings, begun, token, gear, history>>

\* accept_update.
AcceptUpdate ==
    /\ owner.made /\ txn.answer = "adopted" /\ ~txn.reversing
    /\ plan # txn.to
    /\ plan' = txn.to
    /\ UNCHANGED <<owner, settings, begun, token, txn, gear, history, left>>

\* adopt_native_gain_intents: what the next start applies.
AdoptedSetup(conf, gains) ==
    [gains |-> IF owner.eeprom THEN conf.gain ELSE gains, tuning |-> Blank]

\* finish_update(1).
CommitUpdate ==
    /\ begun # Nil /\ ~owner.abandoned
    /\ txn.answer = "adopted" /\ ~txn.reversing
    /\ plan' = txn.to
    /\ txn' = NoTxn
    /\ retained' = Closed
    /\ settings' = begun
    /\ begun' = Nil
    /\ setup' = AdoptedSetup(txn.to, begun.gains)
    /\ UNCHANGED <<owner, token, mixers, image, line, meant, doubt, left>>

\* finish_update(0) of an update both callbacks have answered: publish the way back.
ReverseUpdate ==
    /\ owner.running /\ begun # Nil
    /\ txn.open /\ ~txn.reversing /\ txn.answer # "pending"
    /\ txn' = [txn EXCEPT !.reversing = TRUE, !.answer = "pending"]
    /\ owner' = [owner EXCEPT !.abandoned = TRUE]
    /\ UNCHANGED <<plan, settings, begun, token, gear, history, left>>

RestoreTargets_Remembered == [m \in {x \in Mixers : retained[x] # Opened[x]} |-> retained[m]]

\* finish_mixer_update(false): every mixer goes back to the level it had.
RestoreTargets == retained

Restores == IF retained = Closed THEN {[line |-> line, levels |-> mixers, ok |-> TRUE]}
            ELSE Writes(RestoreTargets, Opened)

\* The mixers' half of a rollback and the end of the pending update; a restore that
\* fails keeps both for another try.
FinishMixers(w) ==
    /\ line' = w.line /\ mixers' = w.levels
    /\ IF w.ok
       THEN /\ retained' = Closed /\ begun' = Nil
            /\ meant' = [meant EXCEPT !.now = meant.before]
            /\ doubt' = [doubt EXCEPT !.now = doubt.before]
       ELSE /\ doubt' = [doubt EXCEPT !.now = Mixers]
            /\ UNCHANGED <<retained, begun, meant>>

\* finish_update(0) once the callbacks have adopted the way back, or again after the
\* mixers could not be restored.
RollBackUpdate ==
    /\ owner.made /\ begun # Nil
    /\ IF txn.open THEN txn.reversing /\ txn.answer = "adopted" /\ plan' = txn.from
       ELSE UNCHANGED plan
    /\ txn' = NoTxn
    /\ owner' = [owner EXCEPT !.abandoned = TRUE]
    /\ \E w \in Restores : FinishMixers(w) /\ FaultOnly(w.ok)
    /\ UNCHANGED <<settings, token, setup, image>>

(***************************************************************************)
(* Stop.                                                                   *)
(***************************************************************************)

\* maintenance.stop: the thread is joined and its outputs made safe, or it is not.
ServiceStops(ok) == IF ok THEN "stopped" ELSE "unsafe"

\* finish_stopped_update: with the callbacks quiescent the mailbox runs the way back
\* by itself, and then the mixers are restored.
FinishStopped(refused) ==
    IF begun = Nil THEN UNCHANGED <<plan, txn, begun, line, mixers, retained, meant, doubt>>
    ELSE IF refused
    THEN /\ txn' = [txn EXCEPT !.reversing = TRUE, !.answer = "refused"]
         /\ UNCHANGED <<plan, begun, line, mixers, retained, meant, doubt>>
    ELSE /\ plan' = IF txn.open THEN txn.from ELSE plan
         /\ txn' = NoTxn
         /\ \E w \in Restores : FinishMixers(w) /\ (w.ok \/ left.faults > 0)

\* stop: the stream, the hardware thread whatever the stream said, and the update.
Stop ==
    /\ owner.made
    /\ owner.running \/ owner.service # "stopped" \/ begun # Nil
    /\ \E ok \in BOOLEAN, refused \in BOOLEAN :
        /\ refused => txn.open
        /\ FaultOnly(ok /\ ~refused)
        /\ owner' = [owner EXCEPT !.running = FALSE, !.service = ServiceStops(ok),
                                !.abandoned = TRUE]
        /\ FinishStopped(refused)
    /\ UNCHANGED <<settings, token, setup, image>>

\* stop when the stream cannot be stopped: its callbacks run on, the thread does not.
StopStreamFails ==
    /\ owner.made /\ owner.running
    /\ FaultOnly(FALSE)
    /\ \E ok \in BOOLEAN :
        owner' = [owner EXCEPT !.service = ServiceStops(ok), !.abandoned = (begun # Nil) \/ @]
    /\ UNCHANGED <<plan, settings, begun, token, txn, gear, history>>

\* quiesce: as stop, but a thread that has not ended is left to retire and the caller
\* asks again; a device that cannot be made safe ends the call before the update.
QuiesceEnds ==
    {"stopped", "unsafe"} \union
    (IF owner.service \in {"running", "retired"} THEN {"retired"} ELSE {})

Quiesce ==
    /\ owner.made
    /\ owner.running \/ owner.service # "stopped" \/ begun # Nil
    /\ \E s \in QuiesceEnds, refused \in BOOLEAN :
        /\ refused => txn.open /\ s # "unsafe"
        /\ FaultOnly(s # "unsafe" /\ ~refused)
        /\ owner' = [owner EXCEPT !.running = FALSE, !.service = s, !.abandoned = TRUE]
        /\ IF s = "unsafe"
           THEN UNCHANGED <<plan, txn, begun, line, mixers, retained, meant, doubt>>
           ELSE FinishStopped(refused)
    /\ UNCHANGED <<settings, token, setup, image>>

(***************************************************************************)
(* The tuner's commands, on a running station.                             *)
(***************************************************************************)

\* URP_AST_COMMAND_SET_MIXER.
SetMixer(m, level) ==
    /\ owner.running
    /\ \E w \in Writes([x \in {m} |-> level], Opened) :
        /\ Faulty(w.ok, "mixes")
        /\ line' = w.line /\ mixers' = w.levels
        /\ meant' = IF w.ok THEN LET to == [meant.now EXCEPT ![m] = level]
                                 IN  [now |-> to, before |-> Outlasting(to, meant.before)]
                    ELSE meant
        /\ doubt' = LET to == IF w.ok THEN doubt.now \ {m} ELSE doubt.now \union {m}
                    IN  [now |-> to, before |-> Outlasting(to, doubt.before)]
    /\ UNCHANGED <<station, setup, retained, image>>

\* HardwareMaintenance::write_eeprom: success is what the next start reads.
WriteEeprom(t, ok) ==
    IF ok THEN image' = t /\ setup' = [setup EXCEPT !.tuning = t]
    ELSE image' \in {image, t, Blank} /\ UNCHANGED setup

\* URP_AST_COMMAND_SAVE_TUNING_EEPROM: the live levels and the active radio tuning.
SaveTuning ==
    /\ owner.running /\ owner.service = "running" /\ owner.eeprom
    /\ \E ok \in BOOLEAN :
        /\ Faulty(ok, "saves")
        /\ WriteEeprom(EepromTuning(Opened, plan), ok)
        /\ mixers' = Opened
    /\ UNCHANGED <<station, retained, line, meant, doubt>>

\* URP_AST_COMMAND_WRITE_EEPROM, of an image without valid tuning: the next start
\* falls back to the gains.
EraseEeprom ==
    /\ owner.running /\ owner.service = "running" /\ owner.eeprom
    /\ \E ok \in BOOLEAN : Faulty(ok, "saves") /\ WriteEeprom(Blank, ok)
    /\ UNCHANGED <<station, mixers, retained, line, history>>

NativeNext ==
    \/ \E r \in Requests : Create(r) \/ PrepareUpdate(r)
    \/ Destroy \/ Start \/ StartGainsFail \/ StartFails
    \/ DestroyUpdate \/ (\E ok \in BOOLEAN : BeginUpdate(ok)) \/ BeginUnopened
    \/ (\E result \in {"adopted", "refused"} : Answer(result))
    \/ AcceptUpdate \/ CommitUpdate \/ ReverseUpdate \/ RollBackUpdate
    \/ Stop \/ StopStreamFails \/ Quiesce
    \/ (\E m \in Mixers, level \in Levels : SetMixer(m, level)) \/ SaveTuning \/ EraseEeprom

NativeSpec == NativeInit /\ [][NativeNext]_nativeVars

(***************************************************************************)
(* Properties.                                                             *)
(***************************************************************************)

\* The station's owners agree on one configuration.  When no update is pending, the
\* plan in force, the file it came from and the mixers' retained levels belong to the
\* same request: an update that was stopped, refused, half begun or half restored has
\* left nothing behind, and while one is pending the file is still the one before it
\* (NativeStation::finish_stopped_update, finish_update).
OneConfiguration ==
    owner.made =>
        /\ begun = Nil => /\ ~txn.open /\ retained = Closed
                             /\ plan.of = settings.file.of
                             /\ settings.gains = settings.file.of.gain
        /\ txn.open => begun # Nil /\ txn.from.of = settings.file.of /\ txn.to.of = begun.file.of

\* The mixers stand where the operator's last successful calls put them: an update
\* moves only the gains it was asked to change, and one that is rolled back, at
\* whatever point, returns every mixer to its level before it, unsaved calibration
\* included.  Mixers a failed write may have moved are excused until a call writes
\* them again (begin_mixer_update, finish_mixer_update, apply_native_gains).
MixersAsMeant == \A m \in Mixers \ doubt.now : line[m] = meant.now[m]

\* An update of a native station happens or does not happen, on both sides of it.
UpdatesAreAtomic == OneConfiguration /\ MixersAsMeant
=============================================================================
