------------------------- MODULE ReloadTransaction -------------------------
(***************************************************************************)
(* One configuration reload over every live channel: the coordinator's     *)
(* prepare, activate and finish phases, and the product's per-channel      *)
(* handlers with the generations each one may hold at once.                *)
(*                                                                         *)
(* A channel's station is a generation: prepared media, or hardware that   *)
(* may hold the exclusive device lease and may run.  An edit the running   *)
(* station can adopt goes through its update mailbox (Live); any other     *)
(* edit suspends the running generation and opens a replacement.           *)
(*                                                                         *)
(* The coordinator calls one handler at a time and polls while it answers  *)
(* Pending, for at most 30 seconds.  Preparation threads, audio callbacks, *)
(* remote admission and physical retirement proceed between the polls.     *)
(***************************************************************************)
EXTENDS Naturals

CONSTANTS
    N,          \* channels are numbered 1 .. N in the coordinator's order
    Settings,   \* station settings
    BootSetting,
    Adoptable   \* pairs of settings a running station can move between

ASSUME NAssumption == N \in Nat \ {0}
ASSUME SettingsAssumption == BootSetting \in Settings
ASSUME AdoptableAssumption == Adoptable \subseteq Settings \X Settings

ChannelIds == 1 .. N
Missing == "missing"                      \* the file does not name a channel
Configurations == [ChannelIds -> Settings \cup {Missing}]
NoCandidate == [c \in ChannelIds |-> "none"]

Media(s) == [kind |-> "media", setting |-> s, lease |-> FALSE, on |-> FALSE]
Hardware(s, lease, on) ==
    [kind |-> "hardware", setting |-> s, lease |-> lease, on |-> on]
Empty == [kind |-> "empty", setting |-> BootSetting, lease |-> FALSE, on |-> FALSE]

NoReload == [kind |-> "none", setting |-> BootSetting, done |-> FALSE,
             cancelled |-> FALSE]
NoUpdate == [state |-> "none", target |-> BootSetting]
NoRollback == [kind |-> "none", old |-> Empty, jitter |-> BootSetting,
               resume |-> FALSE]

VARIABLES
    published,  \* the driver's ConfigurationRegistry
    candidate,  \* DriverInner.pending_reload
    station,    \* ChannelControl.hardware or .media, or Empty
    alive,      \* reserved channels
    running,    \* ChannelControl.running
    jitter,     \* ChannelControl.jitter, as the setting it came from
    reload,     \* ChannelControl.reload
    rollback,   \* ChannelHandle.rollback
    update,     \* the station's update transaction
    mixers,     \* HardwareMaintenance.update_mixers is held
    phase,      \* the coordinator
    index,      \* the channel its phase has come to
    polling,    \* the last answer was Pending
    outcome     \* "none", "ok" or "failed"

driver == <<published, candidate>>
channel == <<station, alive, running, jitter, reload, rollback, update, mixers>>
coordinator == <<phase, index, polling, outcome>>
reloadVars == <<driver, channel, coordinator>>

ReloadInit ==
    /\ published = [c \in ChannelIds |-> BootSetting]
    /\ candidate = NoCandidate
    /\ station = [c \in ChannelIds |-> Empty]
    /\ alive = [c \in ChannelIds |-> FALSE]
    /\ running = [c \in ChannelIds |-> FALSE]
    /\ jitter = [c \in ChannelIds |-> BootSetting]
    /\ reload = [c \in ChannelIds |-> NoReload]
    /\ rollback = [c \in ChannelIds |-> NoRollback]
    /\ update = [c \in ChannelIds |-> NoUpdate]
    /\ mixers = [c \in ChannelIds |-> FALSE]
    /\ phase = "idle"
    /\ index = 1
    /\ polling = FALSE
    /\ outcome = "none"

Set(f, c, v) == f' = [f EXCEPT ![c] = v]

-----------------------------------------------------------------------------
(* Channel lifetime between reloads: the coordinator holds the live        *)
(* channel list for the whole transaction.                                 *)

Idle == phase = "idle"

Reserve(c) ==
    /\ Idle
    /\ candidate = NoCandidate
    /\ ~alive[c]
    /\ published[c] # Missing
    /\ Set(alive, c, TRUE)
    /\ Set(station, c, Media(published[c]))
    /\ Set(jitter, c, published[c])
    /\ UNCHANGED <<driver, running, reload, rollback, update, mixers, coordinator>>

\* channel_start opens the prepared media, or starts the hardware it has.
\* A failed open consumes the media.
Start(c) ==
    /\ Idle
    /\ alive[c]
    /\ ~running[c]
    /\ station[c].kind # "empty"
    /\ \/ /\ Set(station, c, Hardware(station[c].setting, TRUE, TRUE))
          /\ Set(running, c, TRUE)
       \/ /\ \E lease \in BOOLEAN :
                Set(station, c, Hardware(station[c].setting, lease, FALSE))
          /\ UNCHANGED running
       \/ /\ station[c].kind = "media"
          /\ Set(station, c, Empty)
          /\ UNCHANGED running
    /\ UNCHANGED <<driver, alive, jitter, reload, rollback, update, mixers,
                   coordinator>>

\* channel_quiesce: running is cleared even while retirement is pending.
Quiesce(c) ==
    /\ Idle
    /\ running[c]
    /\ Set(station, c, [station[c] EXCEPT !.on = FALSE])
    /\ Set(running, c, FALSE)
    /\ UNCHANGED <<driver, alive, jitter, reload, rollback, update, mixers,
                   coordinator>>

\* Stop and Destroy.  Dropping the handle joins its preparation thread and
\* drops every generation it still holds.
Destroy(c) ==
    /\ Idle
    /\ alive[c]
    /\ Set(alive, c, FALSE)
    /\ Set(station, c, Empty)
    /\ Set(running, c, FALSE)
    /\ Set(reload, c, NoReload)
    /\ Set(rollback, c, NoRollback)
    /\ Set(update, c, NoUpdate)
    /\ Set(mixers, c, FALSE)
    /\ UNCHANGED <<driver, jitter, coordinator>>

-----------------------------------------------------------------------------
(* What goes on between two polls.                                         *)

\* The preparation thread ends.
WorkerEnds(c) ==
    /\ reload[c].kind = "preparing"
    /\ ~reload[c].done
    /\ Set(reload, c, [reload[c] EXCEPT !.done = TRUE])
    /\ UNCHANGED <<driver, station, alive, running, jitter, rollback, update,
                   mixers, coordinator>>

\* Both callbacks answer the published generation.
Callbacks(c) ==
    /\ \E answer \in CASE update[c].state = "pending" -> {"adopted", "refused"}
                       [] update[c].state = "reversing" -> {"reversed"}
                       [] OTHER -> {} :
          Set(update, c, [update[c] EXCEPT !.state = answer])
    /\ UNCHANGED <<driver, station, alive, running, jitter, reload, rollback,
                   mixers, coordinator>>

-----------------------------------------------------------------------------
(* channel_reload_prepare.                                                 *)

\* Nothing is left of an earlier reload, or only a cancelled thread that
\* has ended.
Preparable(c) ==
    /\ \/ reload[c].kind = "none"
       \/ reload[c].kind = "preparing" /\ reload[c].done /\ reload[c].cancelled
    /\ rollback[c].kind = "none"

Prepared(c, kind) == [NoReload EXCEPT !.kind = kind, !.setting = candidate[c]]

Prepare(c, status) ==
    \/ \* The thread of this reload, or a cancelled one, still works.
       /\ reload[c].kind = "preparing"
       /\ ~reload[c].done
       /\ status = "pending"
       /\ UNCHANGED reload
    \/ \* The thread of this reload has ended.
       /\ reload[c].kind = "preparing"
       /\ reload[c].done
       /\ ~reload[c].cancelled
       /\ \/ status = "ok" /\ Set(reload, c, [NoReload EXCEPT
                                    !.kind = "live", !.setting = reload[c].setting])
          \/ status = "failed" /\ Set(reload, c, NoReload)
    \/ \* Busy: an earlier preparation or rollback is still owned.
       /\ ~Preparable(c)
       /\ reload[c].kind # "preparing" \/ (reload[c].done /\ reload[c].cancelled)
       /\ status = "failed"
       /\ IF reload[c].kind = "preparing" THEN Set(reload, c, NoReload)
                                          ELSE UNCHANGED reload
    \/ /\ Preparable(c)
       /\ \/ /\ status = "failed"      \* missing channel or failed setup
             /\ candidate[c] # published[c]
             /\ Set(reload, c, NoReload)
          \/ /\ candidate[c] = published[c]
             /\ status = "ok"
             /\ Set(reload, c, Prepared(c, "unchanged"))
          \/ /\ candidate[c] \notin {Missing, published[c]}
             /\ running[c]
             /\ <<station[c].setting, candidate[c]>> \in Adoptable
             /\ status = "pending"
             /\ Set(reload, c, Prepared(c, "preparing"))
          \/ /\ candidate[c] \notin {Missing, published[c]}
             /\ ~(running[c] /\ <<station[c].setting, candidate[c]>> \in Adoptable)
             /\ status = "ok"
             /\ Set(reload, c, Prepared(c, "replacement"))

PrepareStep(c, status) ==
    /\ Prepare(c, status)
    /\ UNCHANGED <<station, alive, running, jitter, rollback, update, mixers>>

-----------------------------------------------------------------------------
(* channel_reload_activate.                                                *)

\* A poll of a channel whose replacement or live update is under way.  A
\* replacement that is not running needs no remote admission.
ActivatePoll(c, status) ==
    /\ \/ /\ rollback[c].kind = "hardware"
          /\ status \in IF running[c] THEN {"ok", "pending", "failed"} ELSE {"ok"}
          /\ UNCHANGED station
       \/ /\ rollback[c].kind = "live"
          /\ \/ /\ update[c].state = "adopted"
                /\ status = "ok"
                /\ Set(station, c, [station[c] EXCEPT !.setting = update[c].target])
             \/ /\ <<update[c].state, status>> \in {<<"pending", "pending">>,
                                                  <<"refused", "failed">>}
                /\ UNCHANGED station
    /\ UNCHANGED <<running, jitter, reload, rollback, update, mixers>>

ActivateUnchanged(c, status) ==
    /\ reload[c].kind = "unchanged"
    /\ status = "ok"
    /\ Set(rollback, c, [NoRollback EXCEPT !.kind = "unchanged",
                                           !.jitter = jitter[c]])
    /\ Set(reload, c, NoReload)
    /\ UNCHANGED <<station, running, jitter, update, mixers>>

\* The rollback marker comes first, then begin_update and the mixers; the
\* update may be refused, and a mixer write may fail half way.
ActivateLive(c, status) ==
    /\ reload[c].kind = "live"
    /\ Set(rollback, c, [kind |-> "live", old |-> Media(station[c].setting),
                         jitter |-> jitter[c], resume |-> FALSE])
    /\ Set(jitter, c, reload[c].setting)
    /\ Set(reload, c, NoReload)
    /\ \/ status = "failed" /\ UNCHANGED <<update, mixers>>
       \/ /\ status \in {"pending", "failed"}
          /\ Set(update, c, [state |-> "pending", target |-> reload[c].setting])
          /\ \E m \in {TRUE} \cup IF status = "failed" THEN {FALSE} ELSE {} :
                Set(mixers, c, m)
    /\ UNCHANGED <<station, running>>

\* No hardware yet: the prepared media are swapped.
ActivateMedia(c, status) ==
    /\ reload[c].kind = "replacement"
    /\ station[c].kind = "media"
    /\ status = "ok"
    /\ Set(rollback, c, [kind |-> "prepared", old |-> station[c],
                         jitter |-> jitter[c], resume |-> FALSE])
    /\ Set(station, c, Media(reload[c].setting))
    /\ Set(jitter, c, reload[c].setting)
    /\ Set(reload, c, NoReload)
    /\ UNCHANGED <<running, update, mixers>>

\* drain_receive fails before anything is touched, also for a channel whose
\* start lost its media; or the outputs of a running one cannot be read, and
\* the prepared replacement is dropped.
ActivateUntouched(c, status) ==
    /\ reload[c].kind = "replacement"
    /\ status = "failed"
    /\ UNCHANGED reload \/ (running[c] /\ Set(reload, c, NoReload))
    /\ UNCHANGED <<station, running, jitter, rollback, update, mixers>>

\* suspend() stopped the generation and released its lease.
Suspended(g) == [g EXCEPT !.lease = FALSE, !.on = FALSE]

\* restore_previous: reopen, and start again if it ran.
Restored(g, resume) ==
    {Hardware(g.setting, TRUE, resume), Hardware(g.setting, TRUE, FALSE),
     Hardware(g.setting, FALSE, FALSE)}

\* suspend(), the second drain, open or start fails; the previous generation
\* is put back as well as it goes, and the restoration stays owned.
ActivateFails(c, status) ==
    /\ reload[c].kind = "replacement"
    /\ station[c].kind = "hardware"
    /\ status = "failed"
    /\ \/ \E g \in Restored(station[c], running[c]) :
             Set(station, c, g) /\ Set(running, c, g.on)
       \/ \* neither the stop nor the restart takes
          UNCHANGED station /\ Set(running, c, FALSE)
    /\ Set(rollback, c, [NoRollback EXCEPT !.kind = "restoring",
                                           !.jitter = jitter[c]])
    /\ Set(reload, c, NoReload)
    /\ UNCHANGED <<jitter, update, mixers>>

\* The replacement is open, and started if its predecessor ran.
ActivateReplacement(c, status) ==
    /\ reload[c].kind = "replacement"
    /\ station[c].kind = "hardware"
    /\ status \in IF running[c] THEN {"ok", "pending", "failed"} ELSE {"ok"}
    /\ Set(rollback, c, [kind |-> "hardware", old |-> Suspended(station[c]),
                         jitter |-> jitter[c], resume |-> running[c]])
    /\ Set(station, c, Hardware(reload[c].setting, TRUE, running[c]))
    /\ Set(jitter, c, reload[c].setting)
    /\ Set(reload, c, NoReload)
    /\ UNCHANGED <<running, update, mixers>>

ActivateStep(c, status) ==
    /\ \/ ActivatePoll(c, status)
       \/ /\ rollback[c].kind \notin {"hardware", "live"}
          /\ \/ ActivateUnchanged(c, status)
             \/ ActivateLive(c, status)
             \/ ActivateMedia(c, status)
             \/ ActivateUntouched(c, status)
             \/ ActivateFails(c, status)
             \/ ActivateReplacement(c, status)
    /\ UNCHANGED alive

-----------------------------------------------------------------------------
(* channel_reload_finish.                                                  *)

\* A live update: finish_update, then the mixers, then the marker.
FinishLive(c, commit, status) ==
    /\ rollback[c].kind = "live"
    /\ UNCHANGED <<running, reload>>
    /\ \/ \* Both are done.
          /\ status = "ok"
          /\ update[c].state \in {"none", IF commit THEN "adopted" ELSE "reversed"}
          /\ Set(update, c, NoUpdate)
          /\ Set(mixers, c, FALSE)
          /\ Set(rollback, c, NoRollback)
          /\ IF commit THEN UNCHANGED <<jitter, station>>
             ELSE /\ Set(jitter, c, rollback[c].jitter)
                  /\ Set(station, c, [station[c] EXCEPT
                                        !.setting = rollback[c].old.setting])
       \/ \* The radio is back, a mixer write failed: retry later.
          /\ status = "failed"
          /\ ~commit
          /\ mixers[c]
          /\ update[c].state \in {"none", "reversed"}
          /\ Set(update, c, NoUpdate)
          /\ Set(station, c, [station[c] EXCEPT
                                !.setting = rollback[c].old.setting])
          /\ UNCHANGED <<jitter, rollback, mixers>>
       \/ \* The callbacks still owe an answer.
          /\ status = "pending"
          /\ update[c].state \in {"pending", "reversing"}
          /\ UNCHANGED <<update, jitter, station, rollback, mixers>>
       \/ \* Publish the way back.
          /\ status = "pending"
          /\ ~commit
          /\ update[c].state \in {"adopted", "refused"}
          /\ Set(update, c, [update[c] EXCEPT !.state = "reversing"])
          /\ UNCHANGED <<jitter, station, rollback, mixers>>

\* Faulty variant: the abandoned preparation is not marked as cancelled.
FinishPreparing_Forgets(c, commit, status) ==
    /\ rollback[c].kind # "live"
    /\ reload[c].kind = "preparing"
    /\ ~reload[c].done
    /\ status = "pending"
    /\ UNCHANGED <<station, running, jitter, reload, rollback, update, mixers>>

\* A preparation thread: it is cancelled, and must end first.
FinishPreparing(c, commit, status) ==
    /\ rollback[c].kind # "live"
    /\ reload[c].kind = "preparing"
    /\ ~reload[c].done
    /\ status = "pending"
    /\ Set(reload, c, [reload[c] EXCEPT !.cancelled = @ \/ ~commit])
    /\ UNCHANGED <<station, running, jitter, rollback, update, mixers>>

Working(c) == reload[c].kind = "preparing" /\ ~reload[c].done

\* Commit drops the rollback slot and the generation in it.
FinishCommit(c, status) ==
    /\ rollback[c].kind # "live"
    /\ ~Working(c)
    /\ status = "ok"
    /\ Set(rollback, c, NoRollback)
    /\ UNCHANGED <<station, running, jitter, reload, update, mixers>>

\* Abort of a channel that was prepared and not activated.
FinishUnactivated(c, status) ==
    /\ rollback[c].kind # "live"
    /\ reload[c].kind # "none"
    /\ ~Working(c)
    /\ status = "ok"
    /\ Set(reload, c, NoReload)
    /\ UNCHANGED <<station, running, jitter, rollback, update, mixers>>

\* Faulty variant: the swapped media are not put back.
FinishAbort_Drops(c, status) ==
    /\ reload[c].kind = "none"
    /\ rollback[c].kind \in {"none", "unchanged", "prepared"}
    /\ status = "ok"
    /\ Set(rollback, c, NoRollback)
    /\ UNCHANGED <<station, running, jitter, reload, update, mixers>>

\* Abort with nothing to restore, or only settings to put back.
FinishAbort(c, status) ==
    /\ reload[c].kind = "none"
    /\ rollback[c].kind \in {"none", "unchanged", "prepared"}
    /\ status = "ok"
    /\ IF rollback[c].kind = "none" THEN UNCHANGED <<jitter, station>>
       ELSE /\ Set(jitter, c, rollback[c].jitter)
            /\ IF rollback[c].kind = "prepared"
               THEN Set(station, c, rollback[c].old) ELSE UNCHANGED station
    /\ Set(rollback, c, NoRollback)
    /\ UNCHANGED <<running, reload, update, mixers>>

\* finish_restoring: the marker stays until the reopened generation is
\* admitted or has safely stopped.
FinishRestoring(c, status) ==
    /\ reload[c].kind = "none"
    /\ rollback[c].kind = "restoring"
    /\ Set(jitter, c, rollback[c].jitter)
    /\ \/ /\ status = "pending" /\ running[c]
          /\ UNCHANGED <<station, running, rollback>>
       \/ /\ status = "pending" /\ running[c]  \* refused, retirement pending
          /\ Set(station, c, [station[c] EXCEPT !.on = FALSE])
          /\ UNCHANGED <<running, rollback>>
       \/ /\ status = "failed" /\ running[c]   \* refused, cannot be stopped
          /\ \E on \in {station[c].on, FALSE} :
                Set(station, c, [station[c] EXCEPT !.on = on])
          /\ UNCHANGED <<running, rollback>>
       \/ /\ status = "failed" /\ running[c]   \* refused and stopped
          /\ Set(station, c, [station[c] EXCEPT !.on = FALSE])
          /\ Set(running, c, FALSE)
          /\ Set(rollback, c, NoRollback)
       \/ /\ status = "ok"                     \* admitted, or not running
          /\ running[c] => station[c].on
          /\ Set(rollback, c, NoRollback)
          /\ UNCHANGED <<station, running>>
    /\ UNCHANGED <<reload, update, mixers>>

\* Abort of a replacement.  Both generations stay owned until the candidate
\* has stopped; then it is dropped and its predecessor restored.
FinishReplacement(c, status) ==
    /\ reload[c].kind = "none"
    /\ rollback[c].kind = "hardware"
    /\ Set(jitter, c, rollback[c].jitter)
    /\ LET previous == rollback[c].old
           resume == rollback[c].resume
       IN \/ /\ status = "failed"        \* the candidate cannot be stopped
             /\ \E on \in {station[c].on, FALSE} :
                   Set(station, c, [station[c] EXCEPT !.on = on])
             /\ UNCHANGED <<running, rollback>>
          \/ /\ status = "pending"       \* its retirement is pending
             /\ Set(station, c, [station[c] EXCEPT !.on = FALSE])
             /\ UNCHANGED <<running, rollback>>
          \/ /\ status = "failed"        \* the predecessor does not come back
             /\ \E lease \in {FALSE, resume} :
                   Set(station, c, Hardware(previous.setting, lease, FALSE))
             /\ Set(running, c, FALSE)
             /\ Set(rollback, c, NoRollback)
          \/ /\ status = IF resume THEN "pending" ELSE "ok"   \* it does
             /\ Set(station, c, Hardware(previous.setting, TRUE, resume))
             /\ Set(running, c, resume)
             /\ Set(rollback, c,
                    IF resume THEN [NoRollback EXCEPT !.kind = "restoring",
                                                      !.jitter = rollback[c].jitter]
                              ELSE NoRollback)
    /\ UNCHANGED <<reload, update, mixers>>

FinishStep(c, commit, status) ==
    /\ \/ FinishLive(c, commit, status)
       \/ FinishPreparing(c, commit, status)
       \/ commit /\ FinishCommit(c, status)
       \/ ~commit /\ FinishUnactivated(c, status)
       \/ ~commit /\ FinishAbort(c, status)
       \/ ~commit /\ FinishRestoring(c, status)
       \/ ~commit /\ FinishReplacement(c, status)
    /\ UNCHANGED alive

-----------------------------------------------------------------------------
(* The coordinator.                                                        *)

\* The live channels in order; N + 1 is past the last one.
After(i) ==
    IF \E c \in ChannelIds : c > i /\ alive[c]
    THEN CHOOSE c \in ChannelIds : /\ c > i /\ alive[c]
                                 /\ \A d \in ChannelIds : d > i /\ alive[d] => c <= d
    ELSE N + 1
Done == index = N + 1

\* driver_reload: the parsed file becomes the candidate; an unreadable or
\* invalid file changes nothing.
Begin(configuration) ==
    /\ Idle
    /\ candidate = NoCandidate
    /\ candidate' = configuration
    /\ phase' = "prepare"
    /\ index' = After(0)
    /\ polling' = FALSE
    /\ outcome' = "none"
    /\ UNCHANGED <<published, channel>>

Go(p) == phase' = p /\ index' = After(0) /\ polling' = FALSE

\* check(): move on, poll again, or give the whole reload up.
Judge(status) ==
    CASE status = "ok" -> index' = After(index) /\ polling' = FALSE /\ UNCHANGED phase
      [] status = "pending" -> polling' = TRUE /\ UNCHANGED <<phase, index>>
      [] status = "failed" -> Go("abort")

Statuses == {"ok", "pending", "failed"}

PreparePhase ==
    /\ phase = "prepare"
    /\ ~Done
    /\ \E status \in Statuses : PrepareStep(index, status) /\ Judge(status)
    /\ UNCHANGED <<driver, outcome>>

\* link_prepare stages the link processors, or fails.
LinkPrepare ==
    /\ phase = "prepare"
    /\ Done
    /\ \E p \in {"activate", "abort"} : Go(p)
    /\ UNCHANGED <<driver, channel, outcome>>

ActivatePhase ==
    /\ phase = "activate"
    /\ ~Done
    /\ \E status \in Statuses : ActivateStep(index, status) /\ Judge(status)
    /\ UNCHANGED <<driver, outcome>>

\* driver_reload_finish(true) publishes the candidate.
DriverCommit ==
    /\ phase = "activate"
    /\ Done
    /\ published' = candidate
    /\ candidate' = NoCandidate
    /\ Go("commit")
    /\ UNCHANGED <<channel, outcome>>

\* A channel's failed commit or rollback is logged, and the next one's turn
\* comes.
FinishPhase ==
    /\ phase \in {"commit", "abort"}
    /\ ~Done
    /\ \E status \in Statuses :
        /\ FinishStep(index, phase = "commit", status)
        /\ Judge(IF status = "pending" THEN "pending" ELSE "ok")
    /\ UNCHANGED <<driver, outcome>>

\* Faulty variant: a Pending phase is polled without a deadline.
Deadline_None ==
    /\ polling
    /\ phase = "prepare"
    /\ Go("abort")
    /\ UNCHANGED <<driver, channel, outcome>>

\* complete_phase gives up on a handler that stays Pending.
Deadline ==
    /\ polling
    /\ Judge(IF phase \in {"commit", "abort"} THEN "ok" ELSE "failed")
    /\ UNCHANGED <<driver, channel, outcome>>

ReloadSucceeds ==
    /\ phase = "commit"
    /\ Done
    /\ outcome' = "ok"
    /\ Go("idle")
    /\ UNCHANGED <<driver, channel>>

\* driver_reload_finish(false) drops the candidate.
ReloadFails ==
    /\ phase = "abort"
    /\ Done
    /\ candidate' = NoCandidate
    /\ outcome' = "failed"
    /\ Go("idle")
    /\ UNCHANGED <<published, channel>>

Coordinator ==
    \/ PreparePhase \/ LinkPrepare \/ ActivatePhase \/ DriverCommit
    \/ FinishPhase \/ Deadline \/ ReloadSucceeds \/ ReloadFails

-----------------------------------------------------------------------------
ReloadNext ==
    \/ \E c \in ChannelIds : Reserve(c) \/ Start(c) \/ Quiesce(c) \/ Destroy(c)
    \/ \E c \in ChannelIds : WorkerEnds(c) \/ Callbacks(c)
    \/ \E configuration \in Configurations : Begin(configuration)
    \/ Coordinator

ReloadSpec == ReloadInit /\ [][ReloadNext]_reloadVars

\* The reload thread runs; threads, callbacks and devices may stall.
FairReloadSpec == ReloadSpec /\ WF_reloadVars(Coordinator)

\* Preparation threads and callbacks proceed, and a rollback that can end
\* again and again does so once: device faults do not last.
Recovery ==
    \A c \in ChannelIds :
        /\ WF_reloadVars(WorkerEnds(c))
        /\ WF_reloadVars(Callbacks(c))
        /\ SF_reloadVars(FinishPhase /\ index = c /\ rollback'[c].kind = "none")

-----------------------------------------------------------------------------
(* Properties.                                                             *)

(* The type invariant.                                                     *)
ReloadTypeOK ==
    /\ published \in Configurations
    /\ candidate \in Configurations \cup {NoCandidate}
    /\ \A c \in ChannelIds :
        /\ station[c].kind \in {"empty", "media", "hardware"}
        /\ station[c].kind # "hardware" => ~station[c].lease /\ ~station[c].on
        /\ running[c] => station[c].kind = "hardware"
        /\ reload[c].kind \in {"none", "unchanged", "preparing", "live",
                               "replacement"}
        /\ rollback[c].kind \in {"none", "unchanged", "live", "restoring",
                                 "prepared", "hardware"}
        /\ rollback[c].kind = "hardware" => rollback[c].old.kind = "hardware"
        /\ update[c].state \in {"none", "pending", "adopted", "refused",
                          "reversing", "reversed"}
    /\ phase \in {"idle", "prepare", "activate", "commit", "abort"}
    /\ index \in 1 .. N + 1
    /\ outcome \in {"none", "ok", "failed"}

(* "An unrelated channel edit must leave this station completely alone":   *)
(* the shortcut compares the file with the published configuration, so it  *)
(* is right only if between reloads every channel without a rollback       *)
(* marker really runs what is published, through any failed, timed out or  *)
(* half restored reload before it.                                         *)
UnmarkedRunsPublished ==
    Idle => \A c \in ChannelIds :
        (alive[c] /\ rollback[c].kind = "none" /\ station[c].kind # "empty") =>
            station[c].setting = published[c] /\ jitter[c] = published[c]

(* A preparation thread outlives the reload that started it when a phase   *)
(* is given up at its deadline: what it prepared, and an update another    *)
(* reload published, is never what a later reload goes on with.  A channel *)
(* still being prepared works for this reload or was told to give up, and  *)
(* once activation begins everything staged is this candidate's.           *)
AbandonedWorkUnused ==
    \A c \in ChannelIds : alive[c] =>
        /\ phase = "prepare" /\ reload[c].kind # "none" =>
              \/ reload[c].setting = candidate[c]
              \/ reload[c].kind = "preparing" /\ reload[c].cancelled
        /\ phase = "activate" =>
              /\ reload[c].kind # "preparing"
              /\ reload[c].kind # "none" => reload[c].setting = candidate[c]
              /\ update[c].state # "none" => update[c].target = candidate[c]

(* "Prepare every candidate, then commit all of them or roll all of them   *)
(* back": the driver publishes a configuration only when every channel     *)
(* runs it, and every channel that ran still runs.                         *)
CommitNeedsEveryChannel ==
    [][published' # published =>
          \A c \in ChannelIds : (alive[c] /\ station[c].kind # "empty") =>
              /\ station[c].setting = published'[c]
              /\ jitter[c] = published'[c]
              /\ rollback[c].resume => running[c] /\ station[c].on]_reloadVars

(* A successful reload leaves no channel with an obligation of its own: no *)
(* rollback marker, open update, held mixer level or preparation.          *)
SuccessIsComplete ==
    (Idle /\ outcome = "ok") => \A c \in ChannelIds :
        /\ rollback[c].kind = "none"
        /\ reload[c].kind = "none"
        /\ update[c] = NoUpdate
        /\ ~mixers[c]

(* A reload that could not finish its rollback leaves a marker that makes  *)
(* later reloads fail with Busy, and their own rollback is what clears it: *)
(* as long as reloads are tried, no channel stays marked for good.         *)
RetriedReloadRecovers ==
    (Recovery /\ []<>(phase = "prepare")) =>
        \A c \in ChannelIds : []<>(rollback[c].kind = "none")

(* The deadline of complete_phase: the control gate opens again whatever   *)
(* the preparation threads, callbacks and devices do.                      *)
ReloadsEnd == []<>(phase = "idle")

(* Between reloads: what no marker covers is what is published, and a      *)
(* success leaves no marker.                                               *)
ReloadSettled == UnmarkedRunsPublished /\ SuccessIsComplete

(* Every reload ends, and the retries of a failed one recover its channels.*)
ReloadProgress == ReloadsEnd /\ RetriedReloadRecovers
=============================================================================
