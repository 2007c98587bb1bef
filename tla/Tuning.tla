------------------------------ MODULE Tuning ------------------------------
(***************************************************************************)
(* The tuning tool's sessions (rust/tune/src/{main,control,standalone,     *)
(* repository,menus}.rs): creating and replacing the configuration file,   *)
(* the session lock, applying an edit to the running service and rolling   *)
(* it back, the calibrations, and the transmitter keying they use.  The    *)
(* text of an edit is module Configuration's concern; here a configuration *)
(* is what a reload takes up (live) and what only a restart does (boot).   *)
(*                                                                         *)
(* The service at the other end is Asterisk, asked through its CLI, or     *)
(* the standalone radio service, asked over one socket.  Both are modelled *)
(* by what a call can do and report.                                       *)
(***************************************************************************)
EXTENDS Naturals, FiniteSets

CONSTANTS
    Tools,           \* processes of the tuning tool
    Radios,          \* the configured channels
    NoRadio,
    NoTool,
    TunerBudgets,    \* bounds: menu choices made, tools started, and tools
                     \* killed or machines lost
    GainAttempts,    \* 12 in the code, of which the result of the first
    GainSettle,      \* 5 is never accepted
    NoiseAttempts,   \* 48 in the code, of which the first 6 are not
    NoiseSettle,
    Bursts           \* 3

ASSUME TuningAssumption ==
    /\ NoRadio \notin Radios /\ Radios # {} /\ NoTool \notin Tools
    /\ TunerBudgets \subseteq [operations : Nat, starts : Nat, crashes : Nat]
    /\ {GainSettle, NoiseSettle} \subseteq Nat
    /\ {GainAttempts, NoiseAttempts, Bursts} \subseteq Nat \ {0}

VARIABLES
    backend,         \* "asterisk" or "standalone"
    disk,            \* the configuration file, and what a power loss may leave of it
    service,         \* what the radio service runs and transmits
    tools,           \* how far each process has come
    lock,            \* the process holding the session lock
    session,         \* that process's session
    acked,           \* history: the content whose writing was last acknowledged
    unacked,         \* history: contents written since without acknowledgement
    doubt,           \* history: parts of the configuration an error message was about
    stuck,           \* history: an unkey or tone-off call failed
    tunerBudget

tunerVars == <<backend, disk, service, tools, lock, session, acked, unacked,
               doubt, stuck, tunerBudget>>

Contents == [live : 0..1, boot : 0..1]
Sample   == [live |-> 0, boot |-> 0]
NoFile  == [live |-> 2, boot |-> 2]
Torn     == [live |-> 3, boot |-> 3]     \* a file whose data was never synchronised

FirstRadio == CHOOSE r \in Radios : TRUE

NoSession ==
    [at |-> "none", job |-> "none", selected |-> NoRadio, saved |-> Sample,
     restart_changed |-> FALSE, origin |-> Sample, from |-> Sample, to |-> Sample,
     mode |-> "reload", back |-> FALSE, temp |-> "none", attempt |-> 0, best |-> FALSE,
     tone |-> FALSE, adjust |-> FALSE, failed |-> FALSE, told |-> FALSE, fatal |-> FALSE]

\* Back at the menu, an operation's own variables are gone.
AtMenu(sess) ==
    [NoSession EXCEPT !.at = "menu", !.selected = sess.selected, !.saved = sess.saved,
                      !.restart_changed = sess.restart_changed, !.failed = sess.failed,
                      !.told = sess.told, !.origin = IF sess.failed THEN sess.origin ELSE @]
AtEnd == [NoSession EXCEPT !.at = "ended"]
Over(sess) == IF sess.fatal THEN AtEnd ELSE AtMenu(sess)

---------------------------------------------------------------------------
(* The service, and what a call to it can do. *)

Silent(s) == [s EXCEPT !.keyed = {}, !.toned = {}]
Keyed(s, on) == [s EXCEPT !.keyed = IF on THEN @ \cup {s.active} ELSE @ \ {s.active}]
Toned(s, on) == [s EXCEPT !.toned = IF on THEN @ \cup {s.active} ELSE @ \ {s.active}]

\* A committed reload also returns the active channel to the configured one.
AfterReload(s, content) ==
    IF backend = "standalone" THEN [s EXCEPT !.running = content]
    ELSE [s EXCEPT !.running.live = content.live, !.active = s.configured]

AfterRestart(s, content) ==
    [Silent(s) EXCEPT !.running = content, !.active = s.configured, !.mixer = "file"]

AfterApply(s, content, mode) ==
    IF backend = "asterisk" /\ mode = "restart" THEN AfterRestart(s, content)
    ELSE AfterReload(s, content)

\* A transport error closes the session's only connection, and the service
\* releases the keying and tones of a session whose connection closes.
Dropped(s) == [Silent(s) EXCEPT !.link = FALSE]

\* Outcomes of a call whose effect is `after': [ok, service].  A CLI call may
\* fail before or after it took effect.  The service rejects without effect.
Outcomes(s, after) ==
    IF backend = "asterisk"
    THEN {[ok |-> TRUE, service |-> after], [ok |-> FALSE, service |-> s],
          [ok |-> FALSE, service |-> after]}
    ELSE IF ~s.link \/ s.active = NoRadio THEN {[ok |-> FALSE, service |-> s]}
    ELSE {[ok |-> TRUE, service |-> after], [ok |-> FALSE, service |-> s],
          [ok |-> FALSE, service |-> Dropped(s)], [ok |-> FALSE, service |-> Dropped(after)]}

\* What the CLI prints is read for a reload and a selection only: a live
\* command Asterisk refuses looks like one it carried out.
LiveOutcomes(s, after) ==
    Outcomes(s, after) \cup
        (IF backend = "asterisk" THEN {[ok |-> TRUE, service |-> s]} ELSE {})

\* select_channel: the standalone tool keeps the selection itself.
SelectOutcomes(s, r) ==
    IF backend = "asterisk" THEN Outcomes(s, [s EXCEPT !.active = r])
    ELSE IF ~s.link THEN {[ok |-> FALSE, service |-> s]}
    ELSE {[ok |-> TRUE, service |-> [s EXCEPT !.active = r]],
          [ok |-> FALSE, service |-> s], [ok |-> FALSE, service |-> Dropped(s)]}

On(s) == s.keyed \cup s.toned # {}

TunerInit ==
    /\ backend \in {"asterisk", "standalone"}
    /\ \E file \in {NoFile, Sample} :
           /\ backend = "standalone" => file = Sample
           /\ disk = [file |-> file, durable |-> {file}]
           /\ acked = file
    /\ \E r \in Radios :
           service = [running |-> Sample, mixer |-> "file", keyed |-> {}, toned |-> {},
                      configured |-> r, active |-> r, link |-> TRUE]
    /\ tools = [t \in Tools |-> "off"]
    /\ lock = NoTool
    /\ session = NoSession
    /\ unacked = {} /\ doubt = {} /\ stuck = FALSE
    /\ tunerBudget \in TunerBudgets

---------------------------------------------------------------------------
(* The repository: what replacing and creating the file leaves on disk. *)

\* prepare_file: the data is synchronised before the file gets its name.
FilePrepared == "synced"

Renamed(d, content, temp) ==
    [file |-> content,
     durable |-> d.durable \cup (IF temp = "synced" THEN {content} ELSE {content, Torn})]

\* sync_parent: the directory now durably names this file.
Synchronised(d) == [d EXCEPT !.durable = {d.file}]

\* link_file fails where a file exists.
LinkOver(d, content) == Renamed(d, content, FilePrepared)
Linked(d, content) == IF d.file = NoFile THEN Renamed(d, content, FilePrepared) ELSE d

---------------------------------------------------------------------------
(* Starting: ensure_exists, then the lock, then the session. *)

ToolStarts(t) ==
    /\ tools[t] = "off" /\ tunerBudget.starts > 0
    /\ tools' = [tools EXCEPT ![t] = IF disk.file = NoFile THEN "creating" ELSE "ready"]
    /\ tunerBudget' = [tunerBudget EXCEPT !.starts = @ - 1]
    /\ UNCHANGED <<backend, disk, service, lock, session, acked, unacked, doubt, stuck>>

\* The sample may be unreadable and the temporary file may fail to be written.
CreateFile(t) ==
    /\ tools[t] = "creating"
    /\ \/ /\ disk' = Linked(disk, Sample)
          /\ unacked' = IF disk.file = NoFile THEN unacked \cup {Sample} ELSE unacked
          /\ tools' = [tools EXCEPT ![t] = IF disk' = disk THEN "ready" ELSE "linked"]
          /\ doubt' = IF disk' = disk THEN doubt ELSE {"live", "boot"}
       \/ /\ tools' = [tools EXCEPT ![t] = "off"]
          /\ UNCHANGED <<disk, unacked, doubt>>
    /\ UNCHANGED <<backend, service, lock, session, acked, stuck, tunerBudget>>

FinishCreating(t) ==
    /\ tools[t] = "linked"
    /\ \/ /\ disk' = Synchronised(disk)
          /\ acked' = disk.file /\ unacked' = {}
          /\ tools' = [tools EXCEPT ![t] = "ready"]
       \/ /\ tools' = [tools EXCEPT ![t] = "off"]
          /\ UNCHANGED <<disk, acked, unacked>>
    /\ UNCHANGED <<backend, service, lock, session, doubt, stuck, tunerBudget>>

\* A check run, a terminal that will not do, a lock that is taken and a
\* service that cannot be reached end the tool here.
ToolGivesUp(t) ==
    /\ tools[t] = "ready"
    /\ tools' = [tools EXCEPT ![t] = "off"]
    /\ UNCHANGED <<backend, disk, service, lock, session, acked, unacked, doubt, stuck,
                   tunerBudget>>

LockFree == lock = NoTool

Opened(s) == IF backend = "standalone" THEN [s EXCEPT !.link = TRUE, !.active = NoRadio] ELSE s

\* interactive_session and browse_tree up to the first menu.  A node named on
\* the command line must be selected; otherwise the service is asked, and a
\* failing answer leaves the first configured channel selected.
SessionStarts(t) ==
    /\ tools[t] = "ready" /\ LockFree
    /\ LET fresh == [NoSession EXCEPT !.at = "menu", !.saved = disk.file]
           s     == Opened(service)
           node  == IF backend = "asterisk" THEN s.active ELSE FirstRadio
       IN  \/ \E r \in Radios : \E call \in SelectOutcomes(s, r) :
                  /\ service' = call.service
                  /\ session' = IF call.ok THEN [fresh EXCEPT !.selected = r] ELSE AtEnd
           \/ \E call \in SelectOutcomes(s, node) :
                  /\ service' = call.service
                  /\ session' = [fresh EXCEPT !.selected = IF call.ok THEN node ELSE FirstRadio]
    /\ lock' = t
    /\ tools' = [tools EXCEPT ![t] = "session"]
    /\ UNCHANGED <<backend, disk, acked, unacked, doubt, stuck, tunerBudget>>

\* The lock and the connection go with the process.
Released(s) == IF backend = "standalone" THEN Dropped(s) ELSE s

SessionCloses ==
    /\ session.at = "ended"
    /\ tools' = [tools EXCEPT ![lock] = "off"]
    /\ lock' = NoTool
    /\ session' = NoSession
    /\ service' = Released(service)
    /\ UNCHANGED <<backend, disk, acked, unacked, doubt, stuck, tunerBudget>>

---------------------------------------------------------------------------
(* Writing and applying one generation: apply_edit, apply_generation and   *)
(* apply_written_generation.  A session at "write" replaces the file by    *)
(* its content `to', has it applied, and if that fails goes `back' to      *)
(* `from' the same way.                                                    *)

Content == IF session.back THEN session.from ELSE session.to

Write(sess, job, content, mode) ==
    [sess EXCEPT !.at = "write", !.job = job, !.to = content, !.mode = mode, !.back = FALSE]

\* restore_failed_calibration
Restore(sess) ==
    IF sess.from = sess.origin THEN AtMenu([sess EXCEPT !.failed = TRUE])
    ELSE Write(sess, "restore", sess.origin, "reload")

\* What each caller does with the outcome.
RestartChanged(sess, ok) == sess.restart_changed \/ (ok /\ sess.mode = "restart")

AfterEdit(sess) == IF sess.adjust THEN [sess EXCEPT !.at = "unkey"] ELSE Over(sess)

Settle(sess, ok) ==
    LET done == [sess EXCEPT !.failed = ~ok]
    IN  CASE sess.job = "edit" ->
                 AfterEdit([done EXCEPT !.restart_changed = RestartChanged(sess, ok)])
          [] sess.job = "swap" ->
                 IF ok THEN [done EXCEPT !.at = "reselect", !.restart_changed = TRUE]
                 ELSE AtMenu(done)
          [] sess.job = "discard" -> AtMenu([done EXCEPT !.restart_changed = @ /\ ~ok])
          [] sess.job = "finish" -> IF ok THEN AtEnd ELSE AtMenu(done)
          [] sess.job = "gain" ->
                 IF ok THEN [sess EXCEPT !.at = "measure", !.from = sess.to] ELSE Restore(sess)
          [] sess.job = "restore" -> AtMenu([sess EXCEPT !.failed = TRUE, !.told = @ \/ ~ok])
          [] OTHER -> AtMenu(done)

\* A write that reports an error, whether or not the file was replaced.  The
\* first write of an edit ends the session; the others only report it.
WriteFailed(sess) ==
    LET broken == [sess EXCEPT !.told = TRUE]
    IN  IF sess.back \/ sess.job \in {"gain", "noise", "restore"} THEN Settle(broken, FALSE)
        ELSE AfterEdit([broken EXCEPT !.fatal = TRUE, !.failed = TRUE])

\* The file and the running configuration part ways, and the operator is told.
\* An operation that succeeds lifts the doubt; one rolled back does not, since
\* restart_changed keeps no record of it.
AllParts == {"live", "boot"}
MisplacedDoubt(sess) == IF sess.back \/ session.at = "sync" THEN doubt \cup AllParts ELSE doubt

WriteTemporary ==
    /\ session.at = "write"
    /\ \/ /\ session' = [session EXCEPT !.at = "rename", !.temp = FilePrepared]
          /\ UNCHANGED doubt
       \/ session' = WriteFailed(session) /\ doubt' = MisplacedDoubt(session)
    /\ UNCHANGED <<backend, disk, service, tools, lock, acked, unacked, stuck, tunerBudget>>

ReplaceFile ==
    /\ session.at = "rename"
    /\ \/ /\ disk' = Renamed(disk, Content, session.temp)
          /\ unacked' = unacked \cup {Content}
          /\ session' = [session EXCEPT !.at = "sync"]
          /\ UNCHANGED doubt
       \/ /\ session' = WriteFailed(session) /\ doubt' = MisplacedDoubt(session)
          /\ UNCHANGED <<disk, unacked>>
    /\ UNCHANGED <<backend, service, tools, lock, acked, stuck, tunerBudget>>

SyncDirectory ==
    /\ session.at = "sync"
    /\ \/ /\ disk' = Synchronised(disk)
          /\ acked' = Content /\ unacked' = {}
          /\ session' = [session EXCEPT !.at = "apply", !.temp = "none"]
          /\ UNCHANGED doubt
       \/ /\ session' = WriteFailed(session) /\ doubt' = MisplacedDoubt(session)
          /\ UNCHANGED <<disk, acked, unacked>>
    /\ UNCHANGED <<backend, service, tools, lock, stuck, tunerBudget>>

Parts(mode) == CASE backend = "standalone" -> AllParts
                 [] backend = "asterisk" /\ mode = "restart" -> AllParts \cup {"mixer"}
                 [] OTHER -> {"live"}
\* What an apply brings in line when it works, and leaves in doubt when neither
\* it nor its rollback does.
BroughtInLine(sess) == Parts(sess.mode) \cup (IF sess.job = "noise" THEN {"mixer"} ELSE {})

Apply ==
    /\ session.at = "apply"
    /\ \E call \in Outcomes(service, AfterApply(service, disk.file, session.mode)) :
           /\ service' = [call.service EXCEPT !.mixer =
                             IF call.ok /\ session.job = "noise" /\ ~session.back THEN "file" ELSE @]
           /\ doubt' = CASE call.ok /\ ~session.back -> doubt \ BroughtInLine(session)
                         [] ~call.ok /\ session.back -> doubt \cup BroughtInLine(session)
                         [] OTHER -> doubt
           /\ session' = CASE session.back -> Settle([session EXCEPT !.back = FALSE], FALSE)
                           [] ~session.back /\ call.ok -> Settle(session, TRUE)
                           [] OTHER -> [session EXCEPT !.at = "write", !.back = TRUE]
           /\ stuck' = (stuck /\ On(service'))
    /\ UNCHANGED <<backend, disk, tools, lock, acked, unacked, tunerBudget>>

\* swap_usb_device selects its channel again; failing that ends the session.
Reselect ==
    /\ session.at = "reselect"
    /\ \E call \in SelectOutcomes(service, session.selected) :
           /\ service' = call.service
           /\ session' = IF call.ok THEN AtMenu(session) ELSE AtEnd
    /\ UNCHANGED <<backend, disk, tools, lock, acked, unacked, doubt, stuck, tunerBudget>>

---------------------------------------------------------------------------
(* The menu.  Every choice starts an operation from the file as it is. *)

Chosen(job) == [session EXCEPT !.origin = disk.file, !.from = disk.file, !.job = job,
                              !.attempt = 0, !.best = FALSE, !.adjust = FALSE, !.tone = FALSE,
                              !.failed = FALSE, !.told = FALSE, !.fatal = FALSE]

Choose(sess) ==
    /\ session.at = "menu" /\ tunerBudget.operations > 0
    /\ session' = sess
    /\ tunerBudget' = [tunerBudget EXCEPT !.operations = @ - 1]
    /\ UNCHANGED <<backend, disk, service, tools, lock, acked, unacked, doubt, stuck>>

\* A setting taken up by a reload changes nothing a restart is needed for.
Changed(content, mode) ==
    IF mode = "reload" THEN [content EXCEPT !.live = 1 - @] ELSE [content EXCEPT !.boot = 1 - @]

\* edit_setting, and select_profiles, which always restarts
Edit(mode) == Choose(Write(Chosen("edit"), "edit", Changed(disk.file, mode), mode))

SwapUsbDevice ==
    /\ backend = "asterisk"
    /\ Choose(Write(Chosen("swap"), "swap", Changed(disk.file, "restart"), "restart"))

SaveSession ==
    Choose(AtMenu([Chosen("save") EXCEPT !.saved = disk.file, !.restart_changed = FALSE]))

DiscardReload(sess) == "reload"
DiscardMode(sess) == IF sess.restart_changed THEN "restart" ELSE "reload"

DiscardSessionChanges(job) ==
    Choose(IF disk.file = session.saved
           THEN IF job = "finish" THEN AtEnd ELSE AtMenu(Chosen(job))
           ELSE Write(Chosen(job), job, session.saved, DiscardMode(session)))

\* finish_session when the operator leaves, or a file that cannot be read.
LeaveSaved == Choose(AtEnd)

ChooseChannel ==
    /\ session.at = "menu" /\ tunerBudget.operations > 0
    /\ \E r \in Radios : \E call \in SelectOutcomes(service, r) :
           /\ service' = call.service
           /\ session' = AtMenu([Chosen("channel") EXCEPT !.selected = IF call.ok THEN r ELSE @])
    /\ tunerBudget' = [tunerBudget EXCEPT !.operations = @ - 1]
    /\ stuck' = (stuck /\ On(service'))
    /\ UNCHANGED <<backend, disk, tools, lock, acked, unacked, doubt>>

CalibrateGain == Choose([Chosen("gain") EXCEPT !.at = "candidate"])
CalibrateNoise == Choose([Chosen("noise") EXCEPT !.at = "mixer"])
FlashTransmitter == Choose([Chosen("flash") EXCEPT !.at = "tone on", !.tone = TRUE])
AdjustTransmit(tone) ==
    Choose([Chosen("adjust") EXCEPT !.at = IF tone THEN "tone on" ELSE "key", !.tone = tone])

---------------------------------------------------------------------------
(* Receive calibrations *)

Candidate ==
    /\ session.at = "candidate"
    /\ \E live \in 0..1 :
           session' = Write(session, "gain", [session.from EXCEPT !.live = live], "reload")
    /\ UNCHANGED <<backend, disk, service, tools, lock, acked, unacked, doubt, stuck, tunerBudget>>

Tireless(sess, attempts) == TRUE
AnotherAttempt(sess, attempts) == sess.attempt + 1 < attempts

Retried(sess, at) == [sess EXCEPT !.at = at, !.attempt = IF @ < GainAttempts + NoiseAttempts THEN @ + 1 ELSE @]

MeasureGain ==
    /\ session.at = "measure"
    /\ \E call \in Outcomes(service, service), inRange \in BOOLEAN :
           /\ service' = call.service
           /\ session' = CASE ~call.ok -> Restore(session)
                           [] call.ok /\ inRange /\ session.attempt >= GainSettle ->
                                  AtMenu(session)
                           [] OTHER -> IF AnotherAttempt(session, GainAttempts)
                                       THEN Retried(session, "candidate") ELSE Restore(session)
           /\ stuck' = (stuck /\ On(service'))
    /\ UNCHANGED <<backend, disk, tools, lock, acked, unacked, doubt, tunerBudget>>

\* A failure returns with the mixer wherever the last attempt put it.
NoiseFailed == AtMenu([session EXCEPT !.failed = TRUE])

SetMixer ==
    /\ session.at \in {"mixer", "best mixer"}
    /\ \E call \in LiveOutcomes(service, [service EXCEPT !.mixer = "moved"]) :
           /\ service' = call.service
           /\ doubt' = IF call.service.mixer = "moved" THEN doubt \cup {"mixer"} ELSE doubt
           /\ session' = CASE ~call.ok -> NoiseFailed
                           [] call.ok /\ session.at = "mixer" -> [session EXCEPT !.at = "observe"]
                           [] OTHER -> [session EXCEPT !.at = "noise level"]
           /\ stuck' = (stuck /\ On(service'))
    /\ UNCHANGED <<backend, disk, tools, lock, acked, unacked, tunerBudget>>

Observe ==
    /\ session.at = "observe"
    /\ \E call \in Outcomes(service, service), inRange \in BOOLEAN, unclipped \in BOOLEAN :
           LET sess == [session EXCEPT !.best = @ \/ unclipped]
           IN  /\ service' = call.service
               /\ session' = CASE ~call.ok -> NoiseFailed
                               [] call.ok /\ inRange /\ session.attempt >= NoiseSettle ->
                                      [sess EXCEPT !.at = "best mixer", !.best = TRUE]
                               [] OTHER -> IF AnotherAttempt(sess, NoiseAttempts)
                                           THEN Retried(sess, "mixer")
                                           ELSE IF sess.best THEN [sess EXCEPT !.at = "best mixer"]
                                           ELSE NoiseFailed
               /\ stuck' = (stuck /\ On(service'))
    /\ UNCHANGED <<backend, disk, tools, lock, acked, unacked, doubt, tunerBudget>>

\* With a DSP carrier source, up to 20 looks for a fresh noise measurement.
NoiseLevel ==
    /\ session.at = "noise level"
    /\ \E call \in Outcomes(service, service), fresh \in BOOLEAN :
           /\ service' = call.service
           /\ session' = IF call.ok /\ fresh
                         THEN Write(session, "noise", Changed(session.from, "reload"), "reload")
                         ELSE NoiseFailed
           /\ stuck' = (stuck /\ On(service'))
    /\ UNCHANGED <<backend, disk, tools, lock, acked, unacked, doubt, tunerBudget>>

---------------------------------------------------------------------------
(* Keying: flash_transmitter and adjust_keyed_setting.  Both end with the  *)
(* same two calls, an unkey and, where a tone was used, a tone-off.        *)

NoCleanUp(sess) == Over(sess)
CleanUp(sess) == [sess EXCEPT !.at = "unkey"]

\* flash_transmitter cleans up after any failure; adjust_keyed_setting turns
\* the tone off after a failed key call and does not unkey.
Abandon(sess) ==
    CASE sess.job = "flash" -> CleanUp(sess)
      [] sess.job # "flash" /\ sess.at = "key" /\ sess.tone -> [sess EXCEPT !.at = "tone off"]
      [] OTHER -> Over(sess)

LiveCall(at, after, sess) ==
    /\ session.at = at
    /\ \E call \in LiveOutcomes(service, after) :
           /\ service' = call.service
           /\ session' = IF call.ok THEN sess ELSE Abandon(session)
           /\ stuck' = ((stuck \/ (call.service # after /\ at = "burst unkey")
                               \/ (~call.ok /\ session.job # "flash")) /\ On(service'))
    /\ UNCHANGED <<backend, disk, tools, lock, acked, unacked, doubt, tunerBudget>>

ToneOn == LiveCall("tone on", Toned(service, TRUE), [session EXCEPT !.at = "key"])
Key == LiveCall("key", Keyed(service, TRUE),
             [session EXCEPT !.at = IF session.job = "flash" THEN "hold" ELSE "prompt"])
BurstUnkey == LiveCall("burst unkey", Keyed(service, FALSE), [session EXCEPT !.at = "burst quiet"])

\* The operator may stop the bursts during a burst or the pause after it.
Hold ==
    /\ session.at = "hold"
    /\ \/ session' = [session EXCEPT !.at = "burst unkey"]
       \/ session' = CleanUp(session)
    /\ UNCHANGED <<backend, disk, service, tools, lock, acked, unacked, doubt, stuck, tunerBudget>>

BurstQuiet ==
    LiveCall("burst quiet", Toned(service, FALSE),
          IF session.attempt + 1 < Bursts
          THEN [session EXCEPT !.at = "pause", !.attempt = @ + 1] ELSE CleanUp(session))

Pause ==
    /\ session.at = "pause"
    /\ \/ session' = [session EXCEPT !.at = "tone on"]
       \/ session' = CleanUp(session)
    /\ UNCHANGED <<backend, disk, service, tools, lock, acked, unacked, doubt, stuck, tunerBudget>>

\* The edit made while the transmitter is keyed; its error is kept until both
\* cleanup calls are made.
PromptAnswered ==
    /\ session.at = "prompt"
    /\ \/ session' = Write([session EXCEPT !.adjust = TRUE], "edit",
                            Changed(session.from, "reload"), "reload")
       \/ session' = CleanUp(session)
    /\ UNCHANGED <<backend, disk, service, tools, lock, acked, unacked, doubt, stuck, tunerBudget>>

Release(at, after, sess) ==
    /\ session.at = at
    /\ \E call \in LiveOutcomes(service, after) :
           /\ service' = call.service
           /\ session' = sess
           /\ stuck' = ((stuck \/ call.service # after) /\ On(service'))
    /\ UNCHANGED <<backend, disk, tools, lock, acked, unacked, doubt, tunerBudget>>

Unkey == Release("unkey", Keyed(service, FALSE),
                 IF session.tone THEN [session EXCEPT !.at = "tone off"] ELSE Over(session))
ToneOff == Release("tone off", Toned(service, FALSE), Over(session))

---------------------------------------------------------------------------
(* Failures *)

\* A process is killed: the kernel drops its lock and closes its connection.
Killed(t) ==
    /\ tools[t] \notin {"off", "ready"} /\ tunerBudget.crashes > 0
    /\ tunerBudget' = [tunerBudget EXCEPT !.crashes = @ - 1]
    /\ tools' = [tools EXCEPT ![t] = "off"]
    /\ IF lock = t
       THEN /\ lock' = NoTool /\ session' = NoSession
            /\ service' = Released(service)
            /\ stuck' = On(service')
            /\ doubt' = doubt \cup AllParts
       ELSE UNCHANGED <<lock, session, service, stuck, doubt>>
    /\ UNCHANGED <<backend, disk, acked, unacked>>

\* The machine comes back with one of the files the disk may hold, and a
\* service that read it.
PowerLoss ==
    /\ tunerBudget.crashes > 0
    /\ tunerBudget' = [tunerBudget EXCEPT !.crashes = @ - 1]
    /\ \E file \in disk.durable \ {Torn} :
           /\ disk' = [file |-> file, durable |-> {file}]
           /\ acked' = file
           /\ service' = [AfterRestart(service, IF file = NoFile THEN Sample ELSE file)
                             EXCEPT !.link = TRUE]
    /\ unacked' = {} /\ doubt' = {} /\ stuck' = FALSE
    /\ tools' = [t \in Tools |-> "off"]
    /\ lock' = NoTool
    /\ session' = NoSession
    /\ UNCHANGED backend

---------------------------------------------------------------------------

SessionStep ==
    \/ WriteTemporary \/ ReplaceFile \/ SyncDirectory \/ Apply \/ Reselect
    \/ Candidate \/ MeasureGain \/ SetMixer \/ Observe \/ NoiseLevel
    \/ ToneOn \/ Key \/ Hold \/ BurstUnkey \/ BurstQuiet \/ Pause \/ Unkey \/ ToneOff
    \/ SessionCloses

MenuChoice ==
    \/ Edit("reload") \/ Edit("restart") \/ SwapUsbDevice \/ ChooseChannel
    \/ SaveSession \/ DiscardSessionChanges("discard") \/ DiscardSessionChanges("finish")
    \/ LeaveSaved \/ CalibrateGain \/ CalibrateNoise \/ FlashTransmitter
    \/ AdjustTransmit(TRUE) \/ AdjustTransmit(FALSE)

TunerNext ==
    \/ SessionStep \/ MenuChoice \/ PromptAnswered \/ PowerLoss
    \/ \E t \in Tools : \/ ToolStarts(t) \/ CreateFile(t) \/ FinishCreating(t)
                         \/ ToolGivesUp(t) \/ SessionStarts(t) \/ Killed(t)

\* A dialog waits for its operator; everything else the tool does takes
\* bounded time, its calls being processes it runs or socket calls with a
\* timeout.
TunerSpec == TunerInit /\ [][TunerNext]_tunerVars /\ WF_tunerVars(SessionStep)

---------------------------------------------------------------------------
(* Properties *)

\* Whatever moment the machine loses power at, and whichever tools were
\* creating or replacing the file, what is found is the last configuration
\* whose writing was acknowledged or a complete later one (write_atomic,
\* write_new).
AcknowledgedFileKept == disk.durable \cup {disk.file} \subseteq {acked} \cup unacked

\* At the menu the service runs what the file says, in every part no error
\* message was shown about since an operation last succeeded for it: a reload
\* is enough only while no accepted edit needed a restart (restart_changed).
RunningMatchesFile ==
    session.at = "menu" =>
        /\ \A part \in AllParts \ doubt : service.running[part] = disk.file[part]
        /\ "mixer" \in doubt \/ service.mixer = "file"

\* An operation reported as failed leaves the file it found, however many
\* generations a calibration wrote before it failed, unless the operator is
\* told that putting it back failed (apply_written_generation,
\* restore_failed_calibration).
FailedOperationRestores ==
    session.at = "menu" /\ session.failed /\ ~session.told => disk.file = session.origin

\* File and service agree after every operation, failed ones included.
FileAndServiceAgree == RunningMatchesFile /\ FailedOperationRestores

\* When an operation is over nothing it keyed is left transmitting, unless
\* the call that should have released it failed or the tool was killed
\* (flash_transmitter, adjust_keyed_setting; doc/standalone-tuner.md: calibration
\* keys "while editing" and failures "clear temporary keying and test tones").
TransmitterReleased ==
    session.at \in {"none", "menu", "ended"} /\ On(service) => stuck

\* Every operation, retry and rollback ends by itself at the menu, at a
\* prompt or with the session (the attempts of a calibration are counted).
Busy == session.at \notin {"none", "menu", "prompt"}
OperationsEnd == []<>~Busy
=============================================================================
