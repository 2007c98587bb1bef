----------------------- MODULE ReconfigurationProofs -----------------------
(***************************************************************************)
(* Proofs about ReloadTransaction, for any number of channels, any set of  *)
(* settings and any relation of adoptable edits: work abandoned at a       *)
(* deadline is never used by a later reload, what runs without a marker is *)
(* what is published, a success leaves nothing open, and nothing is        *)
(* published that some channel does not run.                               *)
(*                                                                         *)
(* The inductive invariant follows each channel through the transaction:   *)
(* until the driver commits, a channel can go back to what is published    *)
(* (Reversible), and the coordinator's index separates the channels its    *)
(* phase has dealt with from the others (Staged).                          *)
(*                                                                         *)
(* Proofs about Tuning for any tools and radios, any budgets and any       *)
(* number of attempts: what a power loss leaves on disk is an acknowledged *)
(* or a later complete configuration, and file and service agree whenever  *)
(* the tool is back at its menu.                                           *)
(*                                                                         *)
(* Sound says, for each place of a session, how the file, what the service *)
(* runs and the configurations the session remembers are related.  Before  *)
(* the rename the service runs what the file says; between the rename and  *)
(* the apply, what it said before; on the way back, what the failed apply  *)
(* cannot have changed (WriteInv).  A reload is enough only while the boot *)
(* parts agree, so the invariant carries that too: between the saved and   *)
(* the current file until restart_changed is set (Sound), and between the  *)
(* two ends of a write made by reload (JobInv).  A part in doubt, one an   *)
(* error message was about, is exempt; doubt only excuses (DoubtExcuses).  *)
(*                                                                         *)
(* KeyingInv says where an operation may have the transmitter keyed or its *)
(* tone on, and that both are on the active channel.  It holds where a     *)
(* reload cannot change the active channel (OneActive); there, an          *)
(* operation that is over has released what it keyed unless the releasing  *)
(* call failed (stuck).                                                    *)
(***************************************************************************)
EXTENDS ReloadTransaction, Tuning, TLAPS, WellFoundedInduction

-----------------------------------------------------------------------------
(* The reload transaction: its types *)

Values == Settings \cup {Missing}

Stations == [kind : {"empty", "media", "hardware"}, setting : Values,
             lease : BOOLEAN, on : BOOLEAN]

Reloads == [kind : {"none", "unchanged", "preparing", "live", "replacement"},
            setting : Values, done : BOOLEAN, cancelled : BOOLEAN]

Rollbacks == [kind : {"none", "unchanged", "live", "restoring", "prepared",
                      "hardware"},
              old : Stations, jitter : Values, resume : BOOLEAN]

Updates == [state : {"none", "pending", "adopted", "refused", "reversing",
                     "reversed"},
            target : Values]

Typed ==
    /\ published \in [ChannelIds -> Values]
    /\ station \in [ChannelIds -> Stations]
    /\ alive \in [ChannelIds -> BOOLEAN]
    /\ running \in [ChannelIds -> BOOLEAN]
    /\ jitter \in [ChannelIds -> Values]
    /\ reload \in [ChannelIds -> Reloads]
    /\ rollback \in [ChannelIds -> Rollbacks]
    /\ update \in [ChannelIds -> Updates]
    /\ mixers \in [ChannelIds -> BOOLEAN]

CoordinatorTyped ==
    /\ phase \in {"idle", "prepare", "activate", "commit", "abort"}
    /\ index \in 1 .. N + 1
    /\ polling \in BOOLEAN
    /\ outcome \in {"none", "ok", "failed"}
    /\ IF phase \in {"idle", "commit"} THEN candidate = NoCandidate
                                       ELSE candidate \in [ChannelIds -> Values]
    /\ polling => phase \in {"prepare", "activate", "abort"} /\ index \in ChannelIds
    /\ phase # "idle" /\ index \in ChannelIds => alive[index]

\* What one channel's slots say about each other, at any time.
Consistent(c) ==
    /\ station[c].kind # "hardware" => ~station[c].lease /\ ~station[c].on
    /\ running[c] => station[c].kind = "hardware"
    /\ ~rollback[c].old.lease
    /\ rollback[c].kind = "hardware" => rollback[c].old.kind = "hardware"
    /\ rollback[c].kind = "prepared" => ~rollback[c].old.on /\ ~running[c]
    /\ rollback[c].kind # "none" => reload[c].kind = "none"
    /\ rollback[c].kind # "live" => update[c] = NoUpdate /\ ~mixers[c]
    /\ ~alive[c] =>
          reload[c].kind = "none" /\ rollback[c].kind = "none" /\ ~running[c]

Runs(c, setting) ==
    jitter[c] = setting /\ (station[c].kind # "empty" => station[c].setting = setting)

\* The channel runs what is published, or its marker holds it.
Reversible(c) ==
    /\ rollback[c].kind = "none" => Runs(c, published[c])
    /\ rollback[c].kind # "none" => rollback[c].jitter = published[c]
    /\ rollback[c].kind = "unchanged" => Runs(c, published[c])
    /\ rollback[c].kind \in {"prepared", "live", "hardware"} =>
          rollback[c].old.setting = published[c]
    /\ rollback[c].kind = "restoring" =>
          station[c].kind = "hardware" /\ station[c].setting = published[c]

\* Nothing is prepared, or only a thread that was told to give up; and no
\* swapped media are kept, so the channel may start.
Unprepared(c) ==
    /\ \/ reload[c].kind = "none"
       \/ reload[c].kind = "preparing" /\ reload[c].cancelled
    /\ rollback[c].kind # "prepared"

Preparing(c) ==
    /\ reload[c].kind = "preparing"
    /\ ~reload[c].cancelled
    /\ reload[c].setting = candidate[c]
    /\ station[c].kind = "hardware"

Ready(c) ==
    /\ reload[c].kind \in {"unchanged", "live", "replacement"}
    /\ reload[c].setting = candidate[c]
    /\ reload[c].kind = "unchanged" => candidate[c] = published[c]
    /\ reload[c].kind = "live" => station[c].kind = "hardware"

\* Remote admission or the callbacks still have to answer.
Activating(c) ==
    \/ /\ rollback[c].kind = "hardware"
       /\ Runs(c, candidate[c])
       /\ rollback[c].resume => running[c] /\ station[c].on
    \/ /\ rollback[c].kind = "live"
       /\ jitter[c] = candidate[c]
       /\ update[c].target = candidate[c]
       /\ update[c].state \in {"pending", "adopted", "refused"}
       /\ ~rollback[c].resume

Activated(c, setting) ==
    /\ rollback[c].kind \in {"unchanged", "live", "prepared", "hardware"}
    /\ Runs(c, setting)
    /\ rollback[c].kind = "live" =>
          update[c].state = "adopted" /\ update[c].target = setting
    /\ rollback[c].resume => running[c] /\ station[c].on

\* A channel in the commit phase.
Committing(c) ==
    \/ Activated(c, published[c])
    \/ rollback[c].kind = "none" /\ reload[c].kind = "none" /\ Runs(c, published[c])

\* How far the coordinator's phase has come with a live channel.
StagedAt(c) ==
    /\ phase = "idle" => Unprepared(c)
    /\ phase = "prepare" =>
          /\ c < index => Ready(c)
          /\ c = index => Unprepared(c) \/ Preparing(c)
          /\ c > index => Unprepared(c)
    /\ phase = "activate" =>
          /\ c < index => Activated(c, candidate[c])
          /\ c = index => Ready(c) \/ Activating(c)
          /\ c > index => Ready(c)
    /\ phase = "commit" =>
          /\ Committing(c)
          /\ c < index => rollback[c].kind = "none"
    /\ phase = "abort" =>
          /\ c < index => Unprepared(c)
          /\ c = index /\ polling => Unprepared(c)

Settled ==
    phase = "idle" /\ outcome = "ok" =>
        \A c \in ChannelIds : reload[c].kind = "none" /\ rollback[c].kind = "none"

ChannelInv(c) ==
    /\ Consistent(c)
    /\ alive[c] => (phase # "commit" => Reversible(c)) /\ StagedAt(c)

Inv ==
    /\ Typed
    /\ CoordinatorTyped
    /\ Settled
    /\ \A c \in ChannelIds : ChannelInv(c)

-----------------------------------------------------------------------------
(* The records the slots hold.                                             *)

\* Every constant record of the model belongs to its slot's type.
LEMMA BootFacts ==
    /\ BootSetting \in Values
    /\ Empty \in Stations /\ Empty.kind = "empty" /\ ~Empty.lease /\ ~Empty.on
    /\ NoReload \in Reloads /\ NoReload.kind = "none"
    /\ NoReload.setting = BootSetting /\ ~NoReload.done /\ ~NoReload.cancelled
    /\ NoUpdate \in Updates /\ NoUpdate.state = "none"
    /\ NoRollback \in Rollbacks /\ NoRollback.kind = "none"
    /\ NoRollback.old = Empty /\ ~NoRollback.resume
<1>1. BootSetting \in Values
  BY SettingsAssumption DEF Values
<1>2. Empty \in Stations /\ Empty.kind = "empty" /\ ~Empty.lease /\ ~Empty.on
  BY <1>1, Zenon DEF Empty, Stations
<1>3. /\ NoReload \in Reloads /\ NoReload.kind = "none"
      /\ NoReload.setting = BootSetting /\ ~NoReload.done /\ ~NoReload.cancelled
  BY <1>1, Zenon DEF NoReload, Reloads
<1>4. NoUpdate \in Updates /\ NoUpdate.state = "none"
  BY <1>1, Zenon DEF NoUpdate, Updates
<1>5. /\ NoRollback \in Rollbacks /\ NoRollback.kind = "none"
      /\ NoRollback.old = Empty /\ ~NoRollback.resume
  BY <1>1, <1>2, Zenon DEF NoRollback, Rollbacks
<1> QED
  BY <1>1, <1>2, <1>3, <1>4, <1>5, Zenon

\* The generations the handlers build.
LEMMA MediaFacts ==
    ASSUME NEW s \in Values
    PROVE  /\ Media(s) \in Stations /\ Media(s).kind = "media"
           /\ Media(s).setting = s /\ ~Media(s).lease /\ ~Media(s).on
  BY Zenon DEF Media, Stations

\* A generation of hardware has the fields it is made with.
LEMMA HardwareFacts ==
    ASSUME NEW s \in Values, NEW lease \in BOOLEAN, NEW on \in BOOLEAN
    PROVE  /\ Hardware(s, lease, on) \in Stations
           /\ Hardware(s, lease, on).kind = "hardware"
           /\ Hardware(s, lease, on).setting = s
           /\ Hardware(s, lease, on).lease <=> lease
           /\ Hardware(s, lease, on).on <=> on
  BY Zenon DEF Hardware, Stations

\* A generation that is switched on or off, told another setting, or
\* suspended.
LEMMA SwitchedGeneration ==
    ASSUME NEW g \in Stations, NEW on \in BOOLEAN
    PROVE  /\ [g EXCEPT !.on = on] \in Stations
           /\ [g EXCEPT !.on = on].kind = g.kind
           /\ [g EXCEPT !.on = on].setting = g.setting
           /\ [g EXCEPT !.on = on].lease <=> g.lease
           /\ [g EXCEPT !.on = on].on <=> on
  BY SMT DEF Stations

\* A generation that is told another setting keeps its lease and its switch.
LEMMA MovedGeneration ==
    ASSUME NEW g \in Stations, NEW s \in Values
    PROVE  /\ [g EXCEPT !.setting = s] \in Stations
           /\ [g EXCEPT !.setting = s].kind = g.kind
           /\ [g EXCEPT !.setting = s].setting = s
           /\ [g EXCEPT !.setting = s].lease <=> g.lease
           /\ [g EXCEPT !.setting = s].on <=> g.on
  BY SMT DEF Stations

\* A suspended generation keeps its setting and gives up the lease.
LEMMA SuspendedGeneration ==
    ASSUME NEW g \in Stations
    PROVE  /\ Suspended(g) \in Stations
           /\ Suspended(g).kind = g.kind
           /\ Suspended(g).setting = g.setting
           /\ ~Suspended(g).lease
<1>1. ASSUME NEW no \in BOOLEAN, ~no
      PROVE  LET h == [[g EXCEPT !.lease = no] EXCEPT !.on = no]
             IN  h \in Stations /\ h.kind = g.kind /\ h.setting = g.setting /\ ~h.lease
  <2> DEFINE k == [g EXCEPT !.lease = no]
  <2>1. k \in Stations /\ k.kind = g.kind /\ k.setting = g.setting /\ ~k.lease
    BY <1>1, SMT DEF Stations
  <2> HIDE DEF k
  <2>2. LET h == [k EXCEPT !.on = no]
        IN  h \in Stations /\ h.kind = k.kind /\ h.setting = k.setting
            /\ (h.lease <=> k.lease)
    BY <2>1, SMT DEF Stations
  <2> QED
    BY <2>1, <2>2, Zenon DEF k
<1> DEFINE h == [[g EXCEPT !.lease = FALSE] EXCEPT !.on = FALSE]
<1>2. h \in Stations /\ h.kind = g.kind /\ h.setting = g.setting /\ ~h.lease
  BY <1>1, Zenon
<1>3. Suspended(g) = h
  BY Zenon DEF Suspended
<1> QED
  BY <1>2, <1>3, Zenon

-----------------------------------------------------------------------------
(* The coordinator's walk over the live channels.                          *)

\* A nonempty set of numbers has a least one.
LEMMA LeastElement ==
    ASSUME NEW T, T \subseteq Nat, T # {}
    PROVE  \E x \in T : \A y \in T : x <= y
<1>1. \E x \in T : \A y \in T : ~ (<<y, x>> \in OpToRel(<, Nat))
  BY NatLessThanWellFounded, WFMin
<1>2. PICK x \in T : \A y \in T : ~ (<<y, x>> \in OpToRel(<, Nat))
  BY <1>1
<1>3. ASSUME NEW y \in T
      PROVE  x <= y
  <2>1. ~ (y < x)
    BY <1>2 DEF OpToRel
  <2> QED
    BY <2>1
<1> QED
  BY <1>3

\* After(i) is the next live channel, or the end; none is skipped.
LEMMA AfterFacts ==
    ASSUME alive \in [ChannelIds -> BOOLEAN], NEW i \in 0 .. N
    PROVE  /\ After(i) \in 1 .. N + 1
           /\ After(i) > i
           /\ After(i) \in ChannelIds => alive[After(i)]
           /\ \A c \in ChannelIds : alive[c] /\ c > i => c >= After(i)
<1> DEFINE T == {c \in ChannelIds : c > i /\ alive[c]}
<1>1. CASE T = {}
  <2>1. ~ \E c \in ChannelIds : c > i /\ alive[c]
    BY <1>1
  <2>2. After(i) = N + 1
    BY <2>1 DEF After
  <2> QED
    BY <2>1, <2>2, NAssumption DEF ChannelIds
<1>2. CASE T # {}
  <2>1. T \subseteq Nat
    BY NAssumption DEF ChannelIds
  <2>2. PICK x \in T : \A y \in T : x <= y
    BY <1>2, <2>1, LeastElement
  <2>3. /\ After(i) \in ChannelIds
        /\ After(i) > i /\ alive[After(i)]
        /\ \A d \in ChannelIds : d > i /\ alive[d] => After(i) <= d
    <3> DEFINE P(c) == /\ c > i /\ alive[c]
                       /\ \A d \in ChannelIds : d > i /\ alive[d] => c <= d
    <3>1. x \in ChannelIds /\ P(x)
      BY <2>2
    <3>2. After(i) = CHOOSE c \in ChannelIds : P(c)
      BY <3>1 DEF After
    <3> HIDE DEF P
    <3>3. After(i) \in ChannelIds /\ P(After(i))
      BY <3>1, <3>2, Zenon
    <3> QED
      BY <3>3 DEF P
  <2> QED
    BY <2>3, NAssumption DEF ChannelIds
<1> QED
  BY <1>1, <1>2

-----------------------------------------------------------------------------
(* The slots the handlers write.                                           *)

\* A function set at one channel.
LEMMA SetFacts ==
    ASSUME NEW S, NEW f \in [ChannelIds -> S], NEW c \in ChannelIds, NEW v \in S,
           NEW g, g = [f EXCEPT ![c] = v]
    PROVE  /\ g \in [ChannelIds -> S]
           /\ g[c] = v
           /\ \A d \in ChannelIds : d # c => g[d] = f[d]
  OBVIOUS

\* A preparation that has just been made.
Fresh(k, s) == [NoReload EXCEPT !.kind = k, !.setting = s]

\* A fresh preparation has not finished and is not cancelled.
LEMMA NewReload ==
    ASSUME NEW k \in {"none", "unchanged", "preparing", "live", "replacement"},
           NEW s \in Values
    PROVE  /\ Fresh(k, s) \in Reloads
           /\ Fresh(k, s).kind = k /\ Fresh(k, s).setting = s
           /\ ~Fresh(k, s).done /\ ~Fresh(k, s).cancelled
<1> DEFINE q == [NoReload EXCEPT !.kind = k]
<1>1. q \in Reloads /\ q.kind = k /\ ~q.done /\ ~q.cancelled
  BY BootFacts, SMT DEF Reloads
<1> HIDE DEF q
<1> DEFINE p == [q EXCEPT !.setting = s]
<1>2. /\ p \in Reloads
      /\ p.kind = q.kind /\ p.setting = s
      /\ p.done = q.done /\ p.cancelled = q.cancelled
  BY <1>1, SMT DEF Reloads
<1>3. Fresh(k, s) = p
  BY DEF q, Fresh
<1> QED
  BY <1>1, <1>2, <1>3, Zenon

\* The thread of a preparation ends, or is told to give up.
LEMMA EndedReload ==
    ASSUME NEW q \in Reloads, NEW b \in BOOLEAN
    PROVE  /\ [q EXCEPT !.done = b] \in Reloads
           /\ [q EXCEPT !.done = b].kind = q.kind
           /\ [q EXCEPT !.done = b].setting = q.setting
           /\ [q EXCEPT !.done = b].cancelled <=> q.cancelled
  BY SMT DEF Reloads

\* Cancelling a preparation changes nothing else of it.
LEMMA ToldReload ==
    ASSUME NEW q \in Reloads, NEW b \in BOOLEAN
    PROVE  /\ [q EXCEPT !.cancelled = b] \in Reloads
           /\ [q EXCEPT !.cancelled = b].kind = q.kind
           /\ [q EXCEPT !.cancelled = b].setting = q.setting
           /\ [q EXCEPT !.cancelled = b].cancelled <=> b
  BY SMT DEF Reloads

\* A marker that holds only the jitter settings.
Marker(k, s) == [NoRollback EXCEPT !.kind = k, !.jitter = s]

\* A marker of the jitter settings only holds no generation, so no lease.
LEMMA NewMarker ==
    ASSUME NEW k \in {"unchanged", "restoring"}, NEW s \in Values
    PROVE  /\ Marker(k, s) \in Rollbacks
           /\ Marker(k, s).kind = k /\ Marker(k, s).jitter = s
           /\ Marker(k, s).old = Empty /\ ~Marker(k, s).resume
<1> DEFINE q == [NoRollback EXCEPT !.kind = k]
<1>1. q \in Rollbacks /\ q.kind = k /\ q.old = Empty /\ ~q.resume
  BY BootFacts, SMT DEF Rollbacks
<1> HIDE DEF q
<1> DEFINE p == [q EXCEPT !.jitter = s]
<1>2. /\ p \in Rollbacks
      /\ p.kind = q.kind /\ p.jitter = s /\ p.old = q.old /\ p.resume = q.resume
  BY <1>1, SMT DEF Rollbacks
<1>3. Marker(k, s) = p
  BY DEF q, Marker
<1> QED
  BY <1>1, <1>2, <1>3, Zenon

\* A marker that holds a generation.
Holding(k, g, s, b) == [kind |-> k, old |-> g, jitter |-> s, resume |-> b]

\* A marker that keeps a generation for the rollback keeps just that one.
LEMMA GenerationMarker ==
    ASSUME NEW k \in {"live", "prepared", "hardware"}, NEW g \in Stations,
           NEW s \in Values, NEW b \in BOOLEAN
    PROVE  /\ Holding(k, g, s, b) \in Rollbacks
           /\ Holding(k, g, s, b).kind = k /\ Holding(k, g, s, b).old = g
           /\ Holding(k, g, s, b).jitter = s
           /\ Holding(k, g, s, b).resume <=> b
  BY SMT DEF Rollbacks, Holding

\* One that does not resume.
Quiet(k, g, s) == [kind |-> k, old |-> g, jitter |-> s, resume |-> FALSE]

\* A marker that does not resume has the fields it is made with.
LEMMA QuietMarker ==
    ASSUME NEW k \in {"live", "prepared", "hardware"}, NEW g \in Stations,
           NEW s \in Values
    PROVE  /\ Quiet(k, g, s) \in Rollbacks
           /\ Quiet(k, g, s).kind = k /\ Quiet(k, g, s).old = g
           /\ Quiet(k, g, s).jitter = s /\ ~Quiet(k, g, s).resume
<1>1. ASSUME NEW no \in BOOLEAN, ~no
      PROVE  LET r == Holding(k, g, s, no)
             IN  /\ r \in Rollbacks /\ r.kind = k /\ r.old = g
                 /\ r.jitter = s /\ ~r.resume
  BY <1>1, GenerationMarker
<1>2. Quiet(k, g, s) = Holding(k, g, s, FALSE)
  BY Zenon DEF Quiet, Holding
<1> QED
  BY <1>1, <1>2, Zenon

-----------------------------------------------------------------------------
(* A handler touches the slots of its own channel only.                    *)

Same(d) ==
    /\ station'[d] = station[d] /\ alive'[d] = alive[d]
    /\ running'[d] = running[d] /\ jitter'[d] = jitter[d]
    /\ reload'[d] = reload[d] /\ rollback'[d] = rollback[d]
    /\ update'[d] = update[d] /\ mixers'[d] = mixers[d]

SameBut(c) == \A d \in ChannelIds : d # c => Same(d)

\* Every stage of a channel is a matter of its own slots: a channel left alone stays
\* in its stage while the coordinator stands still.
LEMMA Frame ==
    ASSUME NEW d \in ChannelIds, Same(d), UNCHANGED driver
    PROVE  /\ Consistent(d) => Consistent(d)'
           /\ Reversible(d) => Reversible(d)'
           /\ Unprepared(d) => Unprepared(d)'
           /\ Preparing(d) => Preparing(d)'
           /\ Ready(d) => Ready(d)'
           /\ Activating(d) => Activating(d)'
           /\ Activated(d, candidate[d]) => Activated(d, candidate[d])'
           /\ Committing(d) => Committing(d)'
<1> USE DEF Same, driver
<1>1. Consistent(d) => Consistent(d)'
  BY Zenon DEF Consistent
<1>2. Runs(d, published[d]) => Runs(d, published[d])'
  BY Zenon DEF Runs
<1>3. Runs(d, candidate[d]) => Runs(d, candidate[d])'
  BY Zenon DEF Runs
<1>4. Reversible(d) => Reversible(d)'
  BY <1>2, Zenon DEF Reversible
<1>5. (Unprepared(d) => Unprepared(d)') /\ (Preparing(d) => Preparing(d)')
  BY SMT DEF Unprepared, Preparing
<1>6. Ready(d) => Ready(d)'
  BY Zenon DEF Ready
<1>7. Activating(d) => Activating(d)'
  BY <1>3, Zenon DEF Activating
<1>8. Activated(d, candidate[d]) => Activated(d, candidate[d])'
  BY <1>3, Zenon DEF Activated
<1>9. Committing(d) => Committing(d)'
  BY <1>2, Zenon DEF Committing, Activated
<1> QED
  BY <1>1, <1>4, <1>5, <1>6, <1>7, <1>8, <1>9, Zenon

-----------------------------------------------------------------------------
(* channel_reload_prepare.                                                 *)

\* A handler that only changes the preparation keeps every slot's type.
LEMMA ReloadSet ==
    ASSUME Typed, NEW c \in ChannelIds, NEW q \in Reloads,
           reload' = [reload EXCEPT ![c] = q],
           UNCHANGED <<published, station, alive, running, jitter, rollback,
                       update, mixers>>
    PROVE  Typed' /\ SameBut(c) /\ reload'[c] = q
<1>1. /\ reload' \in [ChannelIds -> Reloads] /\ reload'[c] = q
      /\ \A d \in ChannelIds : d # c => reload'[d] = reload[d]
  BY SetFacts, Zenon DEF Typed
<1>2. Typed'
  BY <1>1, Zenon DEF Typed
<1>3. SameBut(c)
  BY <1>1, Zenon DEF SameBut, Same
<1> QED
  BY <1>1, <1>2, <1>3

\* A call of channel_reload_prepare that reports ok leaves the channel ready, one that
\* reports pending leaves it in preparation, and what runs is not disturbed.
LEMMA PrepareFacts ==
    ASSUME Typed, NEW c \in ChannelIds, candidate \in [ChannelIds -> Values],
           Consistent(c), Unprepared(c) \/ Preparing(c), alive[c],
           NEW status \in Statuses, PrepareStep(c, status), UNCHANGED driver
    PROVE  /\ Typed' /\ SameBut(c) /\ Consistent(c)'
           /\ Reversible(c) => Reversible(c)'
           /\ status = "ok" => Ready(c)'
           /\ status = "pending" => Unprepared(c)' \/ Preparing(c)'
<1>1. reload[c] \in Reloads /\ candidate[c] \in Values /\ published[c] \in Values
  BY DEF Typed
<1>2. UNCHANGED <<published, candidate, station, alive, running, jitter,
                  rollback, update, mixers>>
  BY DEF PrepareStep, driver
<1>3. (rollback[c].kind = "none" \/ reload'[c].kind = "none") => Consistent(c)'
  BY <1>2, Zenon DEF Consistent
<1>4. Reversible(c) => Reversible(c)'
  BY <1>2, Zenon DEF Reversible, Runs
<1>5. CASE UNCHANGED reload /\ reload[c].kind = "preparing" /\ status = "pending"
  <2>1. Typed' /\ SameBut(c) /\ Consistent(c)'
    BY <1>2, <1>5, Zenon DEF Typed, SameBut, Same, Consistent
  <2>2. (Unprepared(c) => Unprepared(c)') /\ (Preparing(c) => Preparing(c)')
    BY <1>2, <1>5, Frame, Zenon DEF Same, driver
  <2> QED
    BY <1>4, <1>5, <2>1, <2>2
<1>6. CASE UNCHANGED reload /\ status = "failed"
  <2>1. Typed' /\ SameBut(c) /\ Consistent(c)'
    BY <1>2, <1>6, Zenon DEF Typed, SameBut, Same, Consistent
  <2> QED
    BY <1>4, <1>6, <2>1
<1>7. CASE reload' = [reload EXCEPT ![c] = NoReload] /\ status = "failed"
  <2>1. Typed' /\ SameBut(c) /\ reload'[c] = NoReload
    BY <1>2, <1>7, BootFacts, ReloadSet
  <2>2. Consistent(c)'
    BY <1>3, <2>1, BootFacts
  <2> QED
    BY <1>4, <1>7, <2>1, <2>2
<1>8. ASSUME reload[c].kind = "preparing", reload[c].done, ~reload[c].cancelled,
             status = "ok",
             reload' = [reload EXCEPT ![c] =
                 [NoReload EXCEPT !.kind = "live", !.setting = reload[c].setting]]
      PROVE  Typed' /\ SameBut(c) /\ Consistent(c)' /\ Ready(c)'
  <2> DEFINE q == [NoReload EXCEPT !.kind = "live", !.setting = reload[c].setting]
  <2>1. reload[c].setting \in Values
    BY <1>1 DEF Reloads
  <2>2. q \in Reloads /\ q.kind = "live" /\ q.setting = reload[c].setting
    <3>1. q = Fresh("live", reload[c].setting)
      BY DEF Fresh
    <3> HIDE DEF q
    <3> QED
      BY <2>1, <3>1, NewReload
  <2>3. reload' = [reload EXCEPT ![c] = q]
    BY <1>8
  <2> HIDE DEF q
  <2>4. Typed' /\ SameBut(c) /\ reload'[c] = q
    BY <1>2, <2>2, <2>3, ReloadSet
  <2>5. Preparing(c)
    BY <1>8 DEF Unprepared
  <2>6. Consistent(c)'
    BY <1>3, <1>8 DEF Consistent
  <2>7. Ready(c)'
    BY <1>2, <2>2, <2>4, <2>5 DEF Ready, Preparing
  <2> QED
    BY <2>4, <2>6, <2>7
<1>9. ASSUME NEW k \in {"unchanged", "preparing", "replacement"},
             Preparable(c), reload' = [reload EXCEPT ![c] = Prepared(c, k)]
      PROVE  /\ Typed' /\ SameBut(c) /\ Consistent(c)'
             /\ reload'[c].kind = k /\ ~reload'[c].cancelled
             /\ reload'[c].setting = candidate[c]
  <2>1. /\ Prepared(c, k) \in Reloads /\ Prepared(c, k).kind = k
        /\ Prepared(c, k).setting = candidate[c] /\ ~Prepared(c, k).cancelled
    <3>1. k \in {"none", "unchanged", "preparing", "live", "replacement"}
      BY <1>9
    <3>2. Prepared(c, k) = Fresh(k, candidate[c])
      BY DEF Prepared, Fresh
    <3> QED
      BY <1>1, <3>1, <3>2, NewReload
  <2>2. Typed' /\ SameBut(c) /\ reload'[c] = Prepared(c, k)
    BY <1>2, <1>9, <2>1, ReloadSet
  <2>3. Consistent(c)'
    BY <1>3, <1>9 DEF Preparable
  <2> QED
    BY <2>1, <2>2, <2>3
<1>10. CASE /\ Preparable(c) /\ candidate[c] = published[c] /\ status = "ok"
           /\ reload' = [reload EXCEPT ![c] = Prepared(c, "unchanged")]
  BY <1>4, <1>2, <1>9, <1>10 DEF Ready
<1>11. CASE /\ Preparable(c) /\ running[c] /\ status = "pending"
            /\ reload' = [reload EXCEPT ![c] = Prepared(c, "preparing")]
  <2>1. station[c].kind = "hardware"
    BY <1>11 DEF Consistent
  <2> QED
    BY <1>4, <1>2, <1>9, <1>11, <2>1 DEF Preparing
<1>12. CASE /\ Preparable(c) /\ status = "ok"
            /\ reload' = [reload EXCEPT ![c] = Prepared(c, "replacement")]
  BY <1>4, <1>2, <1>9, <1>12 DEF Ready
<1> QED
  BY <1>5, <1>6, <1>7, <1>8, <1>10, <1>11, <1>12, <1>4 DEF PrepareStep, Prepare, Set

-----------------------------------------------------------------------------
(* channel_reload_activate.                                                *)

\* What a handler writes into its channel's slots.
Slots(c, s, r, j, q, b, u, m) ==
    /\ station' = [station EXCEPT ![c] = s]
    /\ running' = [running EXCEPT ![c] = r]
    /\ jitter' = [jitter EXCEPT ![c] = j]
    /\ reload' = [reload EXCEPT ![c] = q]
    /\ rollback' = [rollback EXCEPT ![c] = b]
    /\ update' = [update EXCEPT ![c] = u]
    /\ mixers' = [mixers EXCEPT ![c] = m]

\* A slot left alone is written with what it holds.
LEMMA LeftAlone ==
    ASSUME Typed, NEW c \in ChannelIds
    PROVE  /\ station = [station EXCEPT ![c] = station[c]]
           /\ running = [running EXCEPT ![c] = running[c]]
           /\ jitter = [jitter EXCEPT ![c] = jitter[c]]
           /\ reload = [reload EXCEPT ![c] = reload[c]]
           /\ rollback = [rollback EXCEPT ![c] = rollback[c]]
           /\ update = [update EXCEPT ![c] = update[c]]
           /\ mixers = [mixers EXCEPT ![c] = mixers[c]]
<1>1. ASSUME NEW S, NEW f \in [ChannelIds -> S]
      PROVE  f = [f EXCEPT ![c] = f[c]]
  OBVIOUS
<1> QED
  BY <1>1, Zenon DEF Typed

\* A step that gives a channel new slots, and may end or create it, touches no other.
LEMMA LifeSlotFacts ==
    ASSUME Typed, NEW c \in ChannelIds, NEW s \in Stations, NEW r \in BOOLEAN,
           NEW j \in Values, NEW q \in Reloads, NEW b \in Rollbacks,
           NEW u \in Updates, NEW m \in BOOLEAN, Slots(c, s, r, j, q, b, u, m),
           alive' \in [ChannelIds -> BOOLEAN],
           \A d \in ChannelIds : d # c => alive'[d] = alive[d],
           UNCHANGED published
    PROVE  /\ Typed' /\ SameBut(c)
           /\ station'[c] = s /\ running'[c] = r /\ jitter'[c] = j
           /\ reload'[c] = q /\ rollback'[c] = b /\ update'[c] = u
           /\ mixers'[c] = m
<1>1. /\ station' \in [ChannelIds -> Stations] /\ station'[c] = s
      /\ \A d \in ChannelIds : d # c => station'[d] = station[d]
  BY SetFacts, Zenon DEF Typed, Slots
<1>2. /\ running' \in [ChannelIds -> BOOLEAN] /\ running'[c] = r
      /\ \A d \in ChannelIds : d # c => running'[d] = running[d]
  BY SetFacts, Zenon DEF Typed, Slots
<1>3. /\ jitter' \in [ChannelIds -> Values] /\ jitter'[c] = j
      /\ \A d \in ChannelIds : d # c => jitter'[d] = jitter[d]
  BY SetFacts, Zenon DEF Typed, Slots
<1>4. /\ reload' \in [ChannelIds -> Reloads] /\ reload'[c] = q
      /\ \A d \in ChannelIds : d # c => reload'[d] = reload[d]
  BY SetFacts, Zenon DEF Typed, Slots
<1>5. /\ rollback' \in [ChannelIds -> Rollbacks] /\ rollback'[c] = b
      /\ \A d \in ChannelIds : d # c => rollback'[d] = rollback[d]
  BY SetFacts, Zenon DEF Typed, Slots
<1>6. /\ update' \in [ChannelIds -> Updates] /\ update'[c] = u
      /\ \A d \in ChannelIds : d # c => update'[d] = update[d]
  BY SetFacts, Zenon DEF Typed, Slots
<1>7. /\ mixers' \in [ChannelIds -> BOOLEAN] /\ mixers'[c] = m
      /\ \A d \in ChannelIds : d # c => mixers'[d] = mixers[d]
  BY SetFacts, Zenon DEF Typed, Slots
<1>8. Typed'
  BY <1>1, <1>2, <1>3, <1>4, <1>5, <1>6, <1>7, Zenon DEF Typed
<1>9. SameBut(c)
  BY <1>1, <1>2, <1>3, <1>4, <1>5, <1>6, <1>7, Zenon DEF SameBut, Same
<1> QED
  BY <1>1, <1>2, <1>3, <1>4, <1>5, <1>6, <1>7, <1>8, <1>9, Zenon

\* The same for a step in which no channel appears or disappears.
LEMMA SlotFacts ==
    ASSUME Typed, NEW c \in ChannelIds, NEW s \in Stations, NEW r \in BOOLEAN,
           NEW j \in Values, NEW q \in Reloads, NEW b \in Rollbacks,
           NEW u \in Updates, NEW m \in BOOLEAN, Slots(c, s, r, j, q, b, u, m),
           UNCHANGED <<published, alive>>
    PROVE  /\ Typed' /\ SameBut(c)
           /\ station'[c] = s /\ running'[c] = r /\ jitter'[c] = j
           /\ reload'[c] = q /\ rollback'[c] = b /\ update'[c] = u
           /\ mixers'[c] = m
<1>1. /\ alive' \in [ChannelIds -> BOOLEAN] /\ UNCHANGED published
      /\ \A d \in ChannelIds : d # c => alive'[d] = alive[d]
  BY DEF Typed
<1> QED
  BY <1>1, LifeSlotFacts

\* The slots of a channel hold what their types say.
LEMMA SlotTypes ==
    ASSUME Typed, NEW c \in ChannelIds
    PROVE  /\ published[c] \in Values /\ jitter[c] \in Values
           /\ running[c] \in BOOLEAN /\ alive[c] \in BOOLEAN
           /\ mixers[c] \in BOOLEAN
           /\ station[c] \in Stations /\ station[c].setting \in Values
           /\ station[c].lease \in BOOLEAN /\ station[c].on \in BOOLEAN
           /\ station[c].kind \in {"empty", "media", "hardware"}
           /\ reload[c] \in Reloads /\ reload[c].setting \in Values
           /\ rollback[c] \in Rollbacks /\ rollback[c].jitter \in Values
           /\ rollback[c].resume \in BOOLEAN
           /\ rollback[c].old \in Stations /\ rollback[c].old.setting \in Values
           /\ rollback[c].kind \in {"none", "unchanged", "live", "restoring",
                                    "prepared", "hardware"}
           /\ update[c] \in Updates /\ update[c].target \in Values
  BY DEF Typed, Stations, Reloads, Rollbacks, Updates

\* A live channel whose turn has come before the driver's commit.
Turn(c) ==
    /\ Typed
    /\ alive[c]
    /\ Consistent(c)
    /\ Reversible(c)
    /\ UNCHANGED driver

Outcome(c, status) ==
    /\ Typed' /\ SameBut(c) /\ Consistent(c)' /\ Reversible(c)'
    /\ status = "ok" => Activated(c, candidate[c])'
    /\ status = "pending" => Ready(c)' \/ Activating(c)'

\* Activating an unchanged channel only gives it a marker.
LEMMA ActivateUnchangedFacts ==
    ASSUME NEW c \in ChannelIds, Turn(c), Ready(c), NEW status \in Statuses,
           ActivateUnchanged(c, status), rollback[c].kind \notin {"hardware", "live"},
           UNCHANGED alive
    PROVE  Outcome(c, status)
<1> USE DEF Turn
<1> DEFINE b == Marker("unchanged", jitter[c])
<1>1. /\ jitter[c] \in Values /\ b \in Rollbacks
      /\ b.kind = "unchanged" /\ b.jitter = jitter[c] /\ ~b.old.lease /\ ~b.resume
  BY SlotTypes, NewMarker, BootFacts
<1>2. Slots(c, station[c], running[c], jitter[c], NoReload, b, update[c], mixers[c])
  BY LeftAlone, Zenon DEF ActivateUnchanged, Set, Slots, Marker
<1> HIDE DEF b
<1>3. /\ Typed' /\ SameBut(c)
      /\ station'[c] = station[c] /\ running'[c] = running[c]
      /\ jitter'[c] = jitter[c] /\ reload'[c] = NoReload /\ rollback'[c] = b
      /\ update'[c] = update[c] /\ mixers'[c] = mixers[c]
  BY <1>1, <1>2, SlotFacts, SlotTypes, BootFacts DEF driver
<1>4. rollback[c].kind = "none" /\ candidate[c] = published[c] /\ status = "ok"
  BY DEF ActivateUnchanged, Ready, Consistent
<1>5. Consistent(c)'
  BY <1>1, <1>3, <1>4, BootFacts DEF Consistent
<1>6. Reversible(c)' /\ Activated(c, candidate[c])'
  BY <1>1, <1>3, <1>4 DEF Reversible, Runs, Activated, driver
<1> QED
  BY <1>3, <1>4, <1>5, <1>6 DEF Outcome

\* A live update begins once its marker holds the settings to go back to.
LEMMA ActivateLiveFacts ==
    ASSUME NEW c \in ChannelIds, Turn(c), Ready(c), NEW status \in Statuses,
           ActivateLive(c, status), UNCHANGED alive
    PROVE  Outcome(c, status)
<1> USE DEF Turn
<1> DEFINE b == Quiet("live", Media(station[c].setting), jitter[c])
<1>1. /\ b \in Rollbacks /\ b.kind = "live" /\ b.jitter = jitter[c]
      /\ b.old.setting = station[c].setting /\ ~b.old.lease /\ ~b.resume
  BY SlotTypes, MediaFacts, QuietMarker
<1>2. rollback' = [rollback EXCEPT ![c] = b]
  BY Zenon DEF ActivateLive, Set, Quiet
<1> HIDE DEF b
<1>3. /\ rollback[c].kind = "none" /\ reload[c].setting = candidate[c]
      /\ station[c].kind = "hardware"
      /\ station[c].setting = published[c] /\ jitter[c] = published[c]
  BY DEF ActivateLive, Ready, Consistent, Reversible, Runs
<1>4. ASSUME NEW u \in Updates, NEW m \in BOOLEAN,
             Slots(c, station[c], running[c], reload[c].setting, NoReload, b, u, m)
      PROVE  /\ Typed' /\ SameBut(c) /\ Consistent(c)' /\ Reversible(c)'
             /\ (u.state = "pending" /\ u.target = candidate[c]) => Activating(c)'
  <2>1. /\ Typed' /\ SameBut(c)
        /\ station'[c] = station[c] /\ running'[c] = running[c]
        /\ jitter'[c] = candidate[c] /\ reload'[c] = NoReload /\ rollback'[c] = b
        /\ update'[c] = u /\ mixers'[c] = m
    BY <1>1, <1>3, <1>4, SlotFacts, SlotTypes, BootFacts DEF driver
  <2>2. Consistent(c)'
    BY <1>1, <1>3, <2>1, BootFacts DEF Consistent
  <2>3. Reversible(c)'
    BY <1>1, <1>3, <2>1 DEF Reversible, driver
  <2>4. u.state = "pending" /\ u.target = candidate[c] => Activating(c)'
    BY <1>1, <1>3, <2>1 DEF Activating, driver
  <2> QED
    BY <2>1, <2>2, <2>3, <2>4
<1>5. CASE status = "failed" /\ UNCHANGED <<update, mixers>>
  <2>1. Slots(c, station[c], running[c], reload[c].setting, NoReload, b,
              update[c], mixers[c])
    BY <1>2, <1>5, LeftAlone, Zenon DEF ActivateLive, Set, Slots
  <2> QED
    BY <1>4, <1>5, <2>1, SlotTypes DEF Outcome
<1>6. CASE /\ status \in {"pending", "failed"}
           /\ Set(update, c, [state |-> "pending", target |-> reload[c].setting])
           /\ \E m \in {TRUE} \cup IF status = "failed" THEN {FALSE} ELSE {} :
                 Set(mixers, c, m)
  <2> DEFINE u == [state |-> "pending", target |-> reload[c].setting]
  <2>1. u \in Updates /\ u.state = "pending" /\ u.target = candidate[c]
    BY <1>3, SlotTypes DEF Updates
  <2>2. PICK m \in BOOLEAN : Set(mixers, c, m)
    BY <1>6, Zenon
  <2>3. Slots(c, station[c], running[c], reload[c].setting, NoReload, b, u, m)
    BY <1>2, <1>6, <2>2, LeftAlone, Zenon DEF ActivateLive, Set, Slots
  <2> HIDE DEF u
  <2> QED
    BY <1>4, <1>6, <2>1, <2>3 DEF Outcome
<1> QED
  BY <1>5, <1>6 DEF ActivateLive

\* Without hardware the prepared media are swapped, and the marker keeps the old ones.
LEMMA ActivateMediaFacts ==
    ASSUME NEW c \in ChannelIds, Turn(c), Ready(c), NEW status \in Statuses,
           ActivateMedia(c, status), UNCHANGED alive
    PROVE  Outcome(c, status)
<1> USE DEF Turn
<1> DEFINE b == Quiet("prepared", station[c], jitter[c])
           s == Media(reload[c].setting)
<1>1. /\ b \in Rollbacks /\ b.kind = "prepared" /\ b.jitter = jitter[c]
      /\ b.old = station[c] /\ ~b.resume
  BY SlotTypes, QuietMarker
<1>2. /\ s \in Stations /\ s.kind = "media" /\ s.setting = reload[c].setting
      /\ ~s.lease /\ ~s.on
  BY SlotTypes, MediaFacts
<1>3. Slots(c, s, running[c], reload[c].setting, NoReload, b, update[c], mixers[c])
  BY LeftAlone, Zenon DEF ActivateMedia, Set, Slots, Quiet
<1> HIDE DEF b, s
<1>4. /\ rollback[c].kind = "none" /\ reload[c].setting = candidate[c]
      /\ station[c].kind = "media" /\ ~station[c].lease /\ ~station[c].on
      /\ station[c].setting = published[c] /\ jitter[c] = published[c]
      /\ ~running[c]
  BY DEF ActivateMedia, Ready, Consistent, Reversible, Runs
<1>5. /\ Typed' /\ SameBut(c)
      /\ station'[c] = s /\ running'[c] = running[c]
      /\ jitter'[c] = candidate[c] /\ reload'[c] = NoReload /\ rollback'[c] = b
      /\ update'[c] = update[c] /\ mixers'[c] = mixers[c]
  BY <1>1, <1>2, <1>3, <1>4, SlotFacts, SlotTypes, BootFacts DEF driver
<1>6. Consistent(c)'
  BY <1>1, <1>2, <1>4, <1>5, BootFacts DEF Consistent
<1>7. Reversible(c)' /\ Activated(c, candidate[c])'
  BY <1>1, <1>2, <1>4, <1>5 DEF Reversible, Runs, Activated, driver
<1> QED
  BY <1>5, <1>6, <1>7, Zenon DEF Outcome, ActivateMedia

\* An activation that fails before it touches anything leaves the channel as it was.
LEMMA ActivateUntouchedFacts ==
    ASSUME NEW c \in ChannelIds, Turn(c), Ready(c), NEW status \in Statuses,
           ActivateUntouched(c, status), UNCHANGED alive
    PROVE  Outcome(c, status)
<1> USE DEF Turn
<1>1. /\ status = "failed"
      /\ UNCHANGED <<published, candidate, station, alive, running, jitter,
                     rollback, update, mixers>>
      /\ UNCHANGED reload \/ reload' = [reload EXCEPT ![c] = NoReload]
  BY DEF ActivateUntouched, Set, driver
<1>2. rollback[c].kind = "none"
  BY DEF ActivateUntouched, Consistent
<1>3. Typed' /\ SameBut(c)
  BY <1>1, ReloadSet, LeftAlone, SlotTypes, BootFacts
<1>4. Consistent(c)' /\ Reversible(c)'
  BY <1>1, <1>2, Zenon DEF Consistent, Reversible, Runs
<1> QED
  BY <1>1, <1>3, <1>4 DEF Outcome

\* A replacement that fails on the way leaves a marker to restore from.
LEMMA ActivateFailsFacts ==
    ASSUME NEW c \in ChannelIds, Turn(c), Ready(c), NEW status \in Statuses,
           ActivateFails(c, status), UNCHANGED alive
    PROVE  Outcome(c, status)
<1> USE DEF Turn
<1> DEFINE b == Marker("restoring", jitter[c])
<1>1. /\ b \in Rollbacks /\ b.kind = "restoring" /\ b.jitter = jitter[c]
      /\ ~b.old.lease /\ ~b.resume
  BY SlotTypes, NewMarker, BootFacts
<1>2. rollback' = [rollback EXCEPT ![c] = b]
  BY Zenon DEF ActivateFails, Set, Marker
<1> HIDE DEF b
<1>3. /\ rollback[c].kind = "none" /\ status = "failed"
      /\ station[c].kind = "hardware"
      /\ station[c].setting = published[c] /\ jitter[c] = published[c]
  BY DEF ActivateFails, Consistent, Reversible, Runs
<1>4. ASSUME NEW s \in Stations, NEW r \in BOOLEAN,
             s.kind = "hardware", s.setting = station[c].setting,
             Slots(c, s, r, jitter[c], NoReload, b, update[c], mixers[c])
      PROVE  Outcome(c, status)
  <2>1. /\ Typed' /\ SameBut(c)
        /\ station'[c] = s /\ running'[c] = r
        /\ jitter'[c] = jitter[c] /\ reload'[c] = NoReload /\ rollback'[c] = b
        /\ update'[c] = update[c] /\ mixers'[c] = mixers[c]
    BY <1>1, <1>4, SlotFacts, SlotTypes, BootFacts DEF driver
  <2>2. Consistent(c)'
    BY <1>1, <1>3, <1>4, <2>1, BootFacts DEF Consistent
  <2>3. Reversible(c)'
    BY <1>1, <1>3, <1>4, <2>1 DEF Reversible, driver
  <2> QED
    BY <1>3, <2>1, <2>2, <2>3 DEF Outcome
<1>5. CASE \E g \in Restored(station[c], running[c]) :
              Set(station, c, g) /\ Set(running, c, g.on)
  <2>1. PICK g \in Restored(station[c], running[c]) :
              Set(station, c, g) /\ Set(running, c, g.on)
    BY <1>5
  <2>2. \E lease \in BOOLEAN, on \in BOOLEAN :
            g = Hardware(station[c].setting, lease, on)
    BY SlotTypes, Zenon DEF Restored
  <2>3. /\ g \in Stations /\ g.on \in BOOLEAN
        /\ g.kind = "hardware" /\ g.setting = station[c].setting
    <3>1. PICK lease \in BOOLEAN, on \in BOOLEAN :
              g = Hardware(station[c].setting, lease, on)
      BY <2>2
    <3> QED
      BY <3>1, SlotTypes, HardwareFacts DEF Stations
  <2>4. Slots(c, g, g.on, jitter[c], NoReload, b, update[c], mixers[c])
    BY <1>2, <2>1, LeftAlone, Zenon DEF ActivateFails, Set, Slots
  <2> QED
    BY <1>4, <2>3, <2>4
<1>6. CASE UNCHANGED station /\ Set(running, c, FALSE)
  <2>1. Slots(c, station[c], FALSE, jitter[c], NoReload, b, update[c], mixers[c])
    BY <1>2, <1>6, LeftAlone, Zenon DEF ActivateFails, Set, Slots
  <2> QED
    BY <1>3, <1>4, <2>1, SlotTypes, Zenon
<1> QED
  BY <1>5, <1>6, Zenon DEF ActivateFails

\* A replacement opens once the marker keeps its predecessor, which has given up the lease.
LEMMA ActivateReplacementFacts ==
    ASSUME NEW c \in ChannelIds, Turn(c), Ready(c), NEW status \in Statuses,
           ActivateReplacement(c, status), UNCHANGED alive
    PROVE  Outcome(c, status)
<1> USE DEF Turn
<1> DEFINE b == Holding("hardware", Suspended(station[c]), jitter[c], running[c])
           s == Hardware(reload[c].setting, TRUE, running[c])
<1>1. /\ rollback[c].kind = "none" /\ reload[c].setting = candidate[c]
      /\ station[c].kind = "hardware"
      /\ station[c].setting = published[c] /\ jitter[c] = published[c]
  BY DEF ActivateReplacement, Ready, Consistent, Reversible, Runs
<1>0. Suspended(station[c]) \in Stations
  BY SlotTypes, SuspendedGeneration
<1>2. /\ b \in Rollbacks /\ b.kind = "hardware" /\ b.jitter = jitter[c]
      /\ b.old = Suspended(station[c]) /\ (b.resume <=> running[c])
  BY <1>0, SlotTypes, GenerationMarker
<1>3. /\ Suspended(station[c]).kind = "hardware" /\ ~Suspended(station[c]).lease
      /\ Suspended(station[c]).setting = station[c].setting
  BY <1>1, SlotTypes, SuspendedGeneration
<1>4. /\ s \in Stations /\ s.kind = "hardware" /\ s.setting = reload[c].setting
      /\ (s.on <=> running[c])
  <2>1. ASSUME NEW yes \in BOOLEAN
        PROVE  LET h == Hardware(reload[c].setting, yes, running[c])
               IN  /\ h \in Stations /\ h.kind = "hardware"
                   /\ h.setting = reload[c].setting /\ (h.on <=> running[c])
    BY SlotTypes, HardwareFacts
  <2> QED
    BY <2>1, Zenon
<1>5. Slots(c, s, running[c], reload[c].setting, NoReload, b, update[c], mixers[c])
  BY LeftAlone, Zenon DEF ActivateReplacement, Set, Slots, Holding
<1> HIDE DEF b, s
<1>6. /\ Typed' /\ SameBut(c)
      /\ station'[c] = s /\ running'[c] = running[c]
      /\ jitter'[c] = candidate[c] /\ reload'[c] = NoReload /\ rollback'[c] = b
      /\ update'[c] = update[c] /\ mixers'[c] = mixers[c]
  BY <1>1, <1>2, <1>4, <1>5, SlotFacts, SlotTypes, BootFacts DEF driver
<1>7. Consistent(c)'
  BY <1>1, <1>2, <1>3, <1>4, <1>6, BootFacts DEF Consistent
<1>8. Reversible(c)'
  BY <1>1, <1>2, <1>3, <1>4, <1>6 DEF Reversible, driver
<1>9. Activated(c, candidate[c])' /\ Activating(c)'
  BY <1>1, <1>2, <1>4, <1>6 DEF Activated, Activating, Runs, driver
<1> QED
  BY <1>6, <1>7, <1>8, <1>9 DEF Outcome

\* A poll succeeds for a live update only once it is adopted, and loses no marker.
LEMMA ActivatePollFacts ==
    ASSUME NEW c \in ChannelIds, Turn(c), Activating(c), NEW status \in Statuses,
           ActivatePoll(c, status), UNCHANGED alive
    PROVE  Outcome(c, status)
<1> USE DEF Turn
<1>1. UNCHANGED <<published, candidate, alive, running, jitter, reload,
                  rollback, update, mixers>>
  BY DEF ActivatePoll, driver
<1>2. CASE UNCHANGED station
  <2>1. Typed' /\ SameBut(c) /\ Same(c)
    BY <1>1, <1>2, Zenon DEF Typed, SameBut, Same
  <2>2. Consistent(c)' /\ Reversible(c)' /\ Activating(c)'
    BY <2>1, Frame
  <2>3. status = "ok" => rollback[c].kind = "hardware" \/ update[c].state = "adopted"
    BY DEF ActivatePoll
  <2>4. CASE rollback[c].kind = "hardware"
    <3>1. Activated(c, candidate[c])
      BY <2>4, SMT DEF Activating, Activated
    <3> QED
      BY <2>1, <2>2, <3>1, Frame DEF Outcome
  <2>5. CASE rollback[c].kind = "live" /\ status # "ok"
    BY <2>1, <2>2, <2>5 DEF Outcome
  <2>6. CASE rollback[c].kind = "live" /\ status = "ok"
    <3>1. /\ update[c].state = "adopted"
          /\ Set(station, c, [station[c] EXCEPT !.setting = update[c].target])
      BY <2>6 DEF ActivatePoll
    <3> DEFINE s == [station[c] EXCEPT !.setting = update[c].target]
    <3>2. s \in Stations /\ s.setting = update[c].target
      BY SlotTypes, MovedGeneration
    <3>3. station' = [station EXCEPT ![c] = s]
      BY <3>1 DEF Set
    <3> HIDE DEF s
    <3>4. station'[c] = s
      BY <3>2, <3>3, SetFacts, Zenon DEF Typed
    <3>5. station[c].setting = candidate[c]
      BY <1>2, <2>6, <3>2, <3>4 DEF Activating
    <3>6. Activated(c, candidate[c])
      BY <2>6, <3>1, <3>5 DEF Activating, Activated, Runs
    <3> QED
      BY <2>1, <2>2, <3>6, Frame DEF Outcome
  <2> QED
    BY <2>4, <2>5, <2>6 DEF Activating
<1>3. CASE /\ rollback[c].kind = "live" /\ update[c].state = "adopted"
           /\ status = "ok"
           /\ Set(station, c, [station[c] EXCEPT !.setting = update[c].target])
  <2> DEFINE s == [station[c] EXCEPT !.setting = update[c].target]
  <2>1. /\ s \in Stations /\ s.setting = update[c].target
        /\ s.kind = station[c].kind
        /\ (s.lease <=> station[c].lease) /\ (s.on <=> station[c].on)
    BY SlotTypes, MovedGeneration
  <2>2. Slots(c, s, running[c], jitter[c], reload[c], rollback[c], update[c],
              mixers[c])
    BY <1>1, <1>3, LeftAlone, Zenon DEF Set, Slots
  <2> HIDE DEF s
  <2>3. Typed' /\ SameBut(c) /\ station'[c] = s
    BY <1>1, <2>1, <2>2, SlotFacts, SlotTypes
  <2>4. Consistent(c)'
    BY <1>1, <2>1, <2>3 DEF Consistent
  <2>5. Reversible(c)'
    BY <1>1, <1>3, <2>3 DEF Reversible
  <2>6. Activated(c, candidate[c])'
    BY <1>1, <1>3, <2>1, <2>3 DEF Activating, Activated, Runs
  <2> QED
    BY <1>3, <2>3, <2>4, <2>5, <2>6 DEF Outcome
<1> QED
  BY <1>2, <1>3 DEF ActivatePoll

\* Whatever channel_reload_activate does, the channel can go back, and runs the candidate
\* when ok is reported.
LEMMA ActivateFacts ==
    ASSUME NEW c \in ChannelIds, Turn(c), Ready(c) \/ Activating(c),
           NEW status \in Statuses, ActivateStep(c, status)
    PROVE  Outcome(c, status)
<1>1. UNCHANGED alive
  BY DEF ActivateStep
<1>2. Ready(c) => rollback[c].kind = "none"
  BY DEF Turn, Ready, Consistent
<1>3. Activating(c) => rollback[c].kind \in {"hardware", "live"}
  BY DEF Activating
<1>4. CASE ActivatePoll(c, status)
  <2>1. rollback[c].kind \in {"hardware", "live"}
    BY <1>4 DEF ActivatePoll
  <2> QED
    BY <1>1, <1>2, <1>4, <2>1, ActivatePollFacts
<1>5. CASE rollback[c].kind \notin {"hardware", "live"}
  BY <1>1, <1>3, <1>4, <1>5, ActivateUnchangedFacts, ActivateLiveFacts,
     ActivateMediaFacts, ActivateUntouchedFacts, ActivateFailsFacts,
     ActivateReplacementFacts DEF ActivateStep
<1> QED
  BY <1>4, <1>5 DEF ActivateStep

-----------------------------------------------------------------------------
(* channel_reload_finish.                                                  *)

AbortOutcome(c) ==
    Typed' /\ SameBut(c) /\ Consistent(c)' /\ Reversible(c)' /\ Unprepared(c)'

\* A rollback step ends with the channel back on what is published, with a
\* generation that is back and may still have to be admitted, or with the
\* marker it had.
LEMMA AbortSlots ==
    ASSUME NEW c \in ChannelIds, Turn(c), reload[c].kind = "none",
           NEW s \in Stations, NEW r \in BOOLEAN, NEW j \in Values,
           NEW b \in Rollbacks, NEW u \in Updates, NEW m \in BOOLEAN,
           s.kind # "hardware" => ~s.lease /\ ~s.on,
           r => s.kind = "hardware",
           b.kind # "live" => u = NoUpdate /\ ~m,
           \/ /\ b = NoRollback /\ j = published[c]
              /\ s.kind # "empty" => s.setting = published[c]
           \/ /\ b = Marker("restoring", published[c])
              /\ s.kind = "hardware" /\ s.setting = published[c]
           \/ b = rollback[c] /\ b.kind \in {"live", "hardware"}
           \/ /\ b = rollback[c] /\ b.kind = "restoring"
              /\ s.kind = "hardware" /\ s.setting = published[c],
           Slots(c, s, r, j, reload[c], b, u, m), UNCHANGED alive
    PROVE  AbortOutcome(c)
<1> USE DEF Turn
<1>1. /\ Typed' /\ SameBut(c)
      /\ station'[c] = s /\ running'[c] = r
      /\ jitter'[c] = j /\ reload'[c] = reload[c] /\ rollback'[c] = b
      /\ update'[c] = u /\ mixers'[c] = m
  BY SlotFacts, SlotTypes DEF driver
<1>2. LET q == Marker("restoring", published[c])
      IN  q.kind = "restoring" /\ q.jitter = published[c] /\ ~q.old.lease
  BY SlotTypes, NewMarker, BootFacts
<1>3. ~b.old.lease
  BY <1>2, BootFacts DEF Consistent
<1>4. b.kind = "hardware" => b.old.kind = "hardware"
  BY <1>2, BootFacts DEF Consistent
<1>5. b.kind # "prepared"
  BY <1>2, BootFacts
<1>6. Consistent(c)'
  BY <1>1, <1>3, <1>4, <1>5 DEF Consistent
<1>7. Reversible(c)'
  BY <1>1, <1>2, BootFacts DEF Reversible, Runs, driver
<1>8. Unprepared(c)'
  BY <1>1, <1>5 DEF Unprepared
<1> QED
  BY <1>1, <1>6, <1>7, <1>8 DEF AbortOutcome

\* Aborting a live update ends with the old settings, or keeps the marker for another try.
LEMMA FinishLiveFacts ==
    ASSUME NEW c \in ChannelIds, Turn(c), NEW commit \in BOOLEAN, ~commit,
           NEW status \in Statuses, FinishLive(c, commit, status), UNCHANGED alive
    PROVE  AbortOutcome(c)
<1> USE DEF Turn
<1> DEFINE s == [station[c] EXCEPT !.setting = rollback[c].old.setting]
<1>1. /\ s \in Stations /\ s.kind = station[c].kind
      /\ s.setting = rollback[c].old.setting
      /\ (s.lease <=> station[c].lease) /\ (s.on <=> station[c].on)
  BY SlotTypes, MovedGeneration
<1>2. /\ reload[c].kind = "none" /\ rollback[c].kind = "live"
      /\ rollback[c].old.setting = published[c]
      /\ rollback[c].jitter = published[c]
      /\ station[c].kind # "hardware" => ~station[c].lease /\ ~station[c].on
      /\ running[c] => station[c].kind = "hardware"
  BY DEF FinishLive, Consistent, Reversible
<1>3. CASE /\ Set(update, c, NoUpdate) /\ Set(mixers, c, FALSE)
           /\ Set(rollback, c, NoRollback)
           /\ Set(jitter, c, rollback[c].jitter) /\ station' = [station EXCEPT ![c] = s]
  <2>1. Slots(c, s, running[c], rollback[c].jitter, reload[c], NoRollback,
              NoUpdate, FALSE)
    BY <1>3, LeftAlone, Zenon DEF FinishLive, Set, Slots
  <2> HIDE DEF s
  <2>2. ASSUME NEW no \in BOOLEAN, ~no,
               Slots(c, s, running[c], rollback[c].jitter, reload[c], NoRollback,
                     NoUpdate, no)
        PROVE  AbortOutcome(c)
    BY <1>1, <1>2, <2>2, AbortSlots, SlotTypes, BootFacts
  <2> QED
    BY <2>1, <2>2, Zenon
<1>4. CASE /\ Set(update, c, NoUpdate) /\ station' = [station EXCEPT ![c] = s]
           /\ UNCHANGED <<jitter, rollback, mixers>>
  <2>1. Slots(c, s, running[c], jitter[c], reload[c], rollback[c], NoUpdate,
              mixers[c])
    BY <1>4, LeftAlone, Zenon DEF FinishLive, Set, Slots
  <2> HIDE DEF s
  <2> QED
    BY <1>1, <1>2, <2>1, AbortSlots, SlotTypes, BootFacts
<1>5. CASE UNCHANGED <<update, jitter, station, rollback, mixers>>
  <2>1. Slots(c, station[c], running[c], jitter[c], reload[c], rollback[c],
              update[c], mixers[c])
    BY <1>5, LeftAlone, Zenon DEF FinishLive, Slots
  <2> QED
    BY <1>2, <2>1, AbortSlots, SlotTypes, BootFacts
<1>6. CASE /\ Set(update, c, [update[c] EXCEPT !.state = "reversing"])
           /\ UNCHANGED <<jitter, station, rollback, mixers>>
  <2> DEFINE u == [update[c] EXCEPT !.state = "reversing"]
  <2>1. u \in Updates
    BY SlotTypes DEF Updates
  <2>2. Slots(c, station[c], running[c], jitter[c], reload[c], rollback[c], u,
              mixers[c])
    BY <1>6, LeftAlone, Zenon DEF FinishLive, Set, Slots
  <2> HIDE DEF u
  <2> QED
    BY <1>2, <2>1, <2>2, AbortSlots, SlotTypes, BootFacts
<1> QED
  BY <1>3, <1>4, <1>5, <1>6, Zenon DEF FinishLive, Set

\* Aborting cancels a preparation that still runs.
LEMMA FinishPreparingFacts ==
    ASSUME NEW c \in ChannelIds, Turn(c), NEW commit \in BOOLEAN, ~commit,
           NEW status \in Statuses, FinishPreparing(c, commit, status),
           UNCHANGED alive
    PROVE  AbortOutcome(c)
<1> USE DEF Turn
<1> DEFINE told == reload[c].cancelled \/ ~commit
           q == [reload[c] EXCEPT !.cancelled = told]
<1>1. told \in BOOLEAN /\ told
  BY Zenon
<1>2. reload' = [reload EXCEPT ![c] = q]
  BY Zenon DEF FinishPreparing, Set
<1> HIDE DEF told
<1>3. q \in Reloads /\ q.kind = reload[c].kind /\ q.cancelled
  BY <1>1, SlotTypes, ToldReload
<1> HIDE DEF q
<1>4. /\ reload[c].kind = "preparing"
      /\ UNCHANGED <<published, candidate, station, alive, running, jitter,
                     rollback, update, mixers>>
  BY DEF FinishPreparing, driver
<1>5. Typed' /\ SameBut(c) /\ reload'[c] = q
  BY <1>2, <1>3, <1>4, ReloadSet
<1>6. rollback[c].kind = "none"
  BY <1>4 DEF Consistent
<1>7. Consistent(c)' /\ Reversible(c)'
  BY <1>4, <1>6, Zenon DEF Consistent, Reversible, Runs
<1>8. Unprepared(c)'
  BY <1>3, <1>4, <1>5, <1>6 DEF Unprepared
<1> QED
  BY <1>5, <1>7, <1>8 DEF AbortOutcome

\* Aborting a channel that was prepared and not activated drops what was prepared.
LEMMA FinishUnactivatedFacts ==
    ASSUME NEW c \in ChannelIds, Turn(c), NEW status \in Statuses,
           FinishUnactivated(c, status), UNCHANGED alive
    PROVE  AbortOutcome(c)
<1> USE DEF Turn
<1>1. /\ reload' = [reload EXCEPT ![c] = NoReload]
      /\ UNCHANGED <<published, candidate, station, alive, running, jitter,
                     rollback, update, mixers>>
  BY DEF FinishUnactivated, Set, driver
<1>2. Typed' /\ SameBut(c) /\ reload'[c] = NoReload
  BY <1>1, BootFacts, ReloadSet
<1>3. rollback[c].kind = "none"
  BY DEF FinishUnactivated, Consistent
<1>4. Consistent(c)' /\ Reversible(c)'
  BY <1>1, <1>3, Zenon DEF Consistent, Reversible, Runs
<1>5. Unprepared(c)'
  BY <1>1, <1>2, <1>3, BootFacts DEF Unprepared
<1> QED
  BY <1>2, <1>4, <1>5 DEF AbortOutcome

\* Aborting puts swapped media and settings back.
LEMMA FinishAbortFacts ==
    ASSUME NEW c \in ChannelIds, Turn(c), NEW status \in Statuses,
           FinishAbort(c, status), UNCHANGED alive
    PROVE  AbortOutcome(c)
<1> USE DEF Turn
<1>1. /\ reload[c].kind = "none"
      /\ rollback[c].kind \in {"none", "unchanged", "prepared"}
      /\ station[c].kind # "hardware" => ~station[c].lease /\ ~station[c].on
      /\ running[c] => station[c].kind = "hardware"
      /\ update[c] = NoUpdate /\ ~mixers[c]
  BY DEF FinishAbort, Consistent
<1>2. ASSUME NEW s \in Stations, NEW j \in Values, j = published[c],
             s.kind # "empty" => s.setting = published[c],
             s.kind # "hardware" => ~s.lease /\ ~s.on,
             running[c] => s.kind = "hardware",
             Slots(c, s, running[c], j, reload[c], NoRollback, update[c], mixers[c])
      PROVE  AbortOutcome(c)
  BY <1>1, <1>2, AbortSlots, SlotTypes, BootFacts
<1>3. CASE rollback[c].kind = "none"
  <2>1. Slots(c, station[c], running[c], jitter[c], reload[c], NoRollback,
              update[c], mixers[c])
    BY <1>3, LeftAlone, Zenon DEF FinishAbort, Set, Slots
  <2> QED
    BY <1>1, <1>2, <1>3, <2>1, SlotTypes DEF Reversible, Runs
<1>4. CASE rollback[c].kind = "unchanged"
  <2>1. Slots(c, station[c], running[c], rollback[c].jitter, reload[c],
              NoRollback, update[c], mixers[c])
    BY <1>4, LeftAlone, Zenon DEF FinishAbort, Set, Slots
  <2> QED
    BY <1>1, <1>2, <1>4, <2>1, SlotTypes DEF Reversible, Runs
<1>5. CASE rollback[c].kind = "prepared"
  <2>1. Slots(c, rollback[c].old, running[c], rollback[c].jitter, reload[c],
              NoRollback, update[c], mixers[c])
    BY <1>5, LeftAlone, Zenon DEF FinishAbort, Set, Slots
  <2> QED
    BY <1>1, <1>2, <1>5, <2>1, SlotTypes DEF Reversible, Consistent
<1> QED
  BY <1>1, <1>3, <1>4, <1>5

\* A restoration keeps its marker until the generation is admitted or has safely stopped.
LEMMA FinishRestoringFacts ==
    ASSUME NEW c \in ChannelIds, Turn(c), NEW status \in Statuses,
           FinishRestoring(c, status), UNCHANGED alive
    PROVE  AbortOutcome(c)
<1> USE DEF Turn
<1>1. /\ reload[c].kind = "none" /\ rollback[c].kind = "restoring"
      /\ rollback[c].jitter = published[c]
      /\ station[c].kind = "hardware" /\ station[c].setting = published[c]
      /\ update[c] = NoUpdate /\ ~mixers[c]
  BY DEF FinishRestoring, Consistent, Reversible
<1>2. ASSUME NEW s \in Stations, NEW r \in BOOLEAN, NEW b \in Rollbacks,
             s.kind = "hardware", s.setting = published[c],
             b = rollback[c] \/ b = NoRollback,
             Slots(c, s, r, rollback[c].jitter, reload[c], b, update[c], mixers[c])
      PROVE  AbortOutcome(c)
  BY <1>1, <1>2, AbortSlots, SlotTypes, BootFacts
<1>3. ASSUME NEW on \in BOOLEAN
      PROVE  LET s == [station[c] EXCEPT !.on = on]
             IN  s \in Stations /\ s.kind = "hardware" /\ s.setting = published[c]
  BY <1>1, SlotTypes, SwitchedGeneration
<1>4. CASE UNCHANGED <<station, running, rollback>>
  <2>1. Slots(c, station[c], running[c], rollback[c].jitter, reload[c],
              rollback[c], update[c], mixers[c])
    BY <1>4, LeftAlone, Zenon DEF FinishRestoring, Set, Slots
  <2> QED
    BY <1>1, <1>2, <2>1, SlotTypes
<1>5. CASE /\ \E on \in BOOLEAN : Set(station, c, [station[c] EXCEPT !.on = on])
           /\ UNCHANGED <<running, rollback>>
  <2>1. PICK on \in BOOLEAN : Set(station, c, [station[c] EXCEPT !.on = on])
    BY <1>5
  <2>2. Slots(c, [station[c] EXCEPT !.on = on], running[c], rollback[c].jitter,
              reload[c], rollback[c], update[c], mixers[c])
    BY <1>5, <2>1, LeftAlone, Zenon DEF FinishRestoring, Set, Slots
  <2> QED
    BY <1>2, <1>3, <2>2, SlotTypes, Zenon
<1>6. CASE /\ Set(station, c, [station[c] EXCEPT !.on = FALSE])
           /\ Set(running, c, FALSE) /\ Set(rollback, c, NoRollback)
  <2>1. Slots(c, [station[c] EXCEPT !.on = FALSE], FALSE, rollback[c].jitter,
              reload[c], NoRollback, update[c], mixers[c])
    BY <1>6, LeftAlone, Zenon DEF FinishRestoring, Set, Slots
  <2> QED
    BY <1>2, <1>3, <2>1, BootFacts, Zenon
<1>7. CASE Set(rollback, c, NoRollback) /\ UNCHANGED <<station, running>>
  <2>1. Slots(c, station[c], running[c], rollback[c].jitter, reload[c],
              NoRollback, update[c], mixers[c])
    BY <1>7, LeftAlone, Zenon DEF FinishRestoring, Set, Slots
  <2> QED
    BY <1>1, <1>2, <2>1, SlotTypes, BootFacts
<1>8. \A on \in {station[c].on, FALSE} : on \in BOOLEAN
  BY SlotTypes, Zenon
<1> QED
  BY <1>4, <1>5, <1>6, <1>7, <1>8, Zenon DEF FinishRestoring

\* Aborting a replacement keeps both generations until the candidate has stopped, and then
\* restores the predecessor.
LEMMA FinishReplacementFacts ==
    ASSUME NEW c \in ChannelIds, Turn(c), NEW status \in Statuses,
           FinishReplacement(c, status), UNCHANGED alive
    PROVE  AbortOutcome(c)
<1> USE DEF Turn
<1>1. /\ reload[c].kind = "none" /\ rollback[c].kind = "hardware"
      /\ rollback[c].jitter = published[c]
      /\ rollback[c].old.setting = published[c]
      /\ station[c].kind # "hardware" => ~station[c].lease /\ ~station[c].on
      /\ running[c] => station[c].kind = "hardware"
      /\ update[c] = NoUpdate /\ ~mixers[c]
  BY DEF FinishReplacement, Consistent, Reversible
<1>2. CASE /\ \E on \in {station[c].on, FALSE} :
                 Set(station, c, [station[c] EXCEPT !.on = on])
           /\ UNCHANGED <<running, rollback>>
  <2>1. ASSUME NEW on \in BOOLEAN, on => station[c].on,
               Set(station, c, [station[c] EXCEPT !.on = on])
        PROVE  AbortOutcome(c)
    <3> DEFINE s == [station[c] EXCEPT !.on = on]
    <3>1. /\ s \in Stations /\ s.kind = station[c].kind
          /\ (s.lease <=> station[c].lease) /\ (s.on <=> on)
      BY SlotTypes, SwitchedGeneration
    <3>2. Slots(c, s, running[c], rollback[c].jitter, reload[c], rollback[c],
                update[c], mixers[c])
      BY <1>2, <2>1, LeftAlone, Zenon DEF FinishReplacement, Set, Slots
    <3> HIDE DEF s
    <3> QED
      BY <1>1, <2>1, <3>1, <3>2, AbortSlots, SlotTypes
  <2>2. PICK on \in {station[c].on, FALSE} :
                 Set(station, c, [station[c] EXCEPT !.on = on])
    BY <1>2
  <2>3. on \in BOOLEAN /\ (on => station[c].on)
    BY SlotTypes, Zenon
  <2> QED
    BY <2>1, <2>2, <2>3
\* The predecessor is opened again.
<1>3. ASSUME NEW lease \in BOOLEAN, NEW on \in BOOLEAN, NEW r \in BOOLEAN,
             NEW b \in Rollbacks,
             b = NoRollback \/ b = Marker("restoring", rollback[c].jitter),
             Slots(c, Hardware(rollback[c].old.setting, lease, on), r,
                   rollback[c].jitter, reload[c], b, update[c], mixers[c])
      PROVE  AbortOutcome(c)
  <2> DEFINE s == Hardware(rollback[c].old.setting, lease, on)
  <2>1. s \in Stations /\ s.kind = "hardware" /\ s.setting = published[c]
    BY <1>1, SlotTypes, HardwareFacts
  <2> HIDE DEF s
  <2>2. Slots(c, s, r, rollback[c].jitter, reload[c], b, update[c], mixers[c])
    BY <1>3 DEF s
  <2> QED
    BY <1>1, <1>3, <2>1, <2>2, AbortSlots, SlotTypes, BootFacts
<1>4. CASE /\ \E lease \in {FALSE, rollback[c].resume} :
                 Set(station, c, Hardware(rollback[c].old.setting, lease, FALSE))
           /\ Set(running, c, FALSE)
           /\ Set(rollback, c, NoRollback)
  <2>1. PICK lease \in {FALSE, rollback[c].resume} :
                 Set(station, c, Hardware(rollback[c].old.setting, lease, FALSE))
    BY <1>4
  <2>2. lease \in BOOLEAN
    BY SlotTypes, Zenon
  <2>3. Slots(c, Hardware(rollback[c].old.setting, lease, FALSE), FALSE,
              rollback[c].jitter, reload[c], NoRollback, update[c], mixers[c])
    BY <1>4, <2>1, LeftAlone, Zenon DEF FinishReplacement, Set, Slots
  <2> QED
    BY <1>3, <2>2, <2>3, BootFacts, Zenon
<1>5. ASSUME NEW b \in Rollbacks,
             b = NoRollback \/ b = Marker("restoring", rollback[c].jitter),
             Set(station, c, Hardware(rollback[c].old.setting, TRUE,
                                      rollback[c].resume)),
             Set(running, c, rollback[c].resume),
             Set(rollback, c, b)
      PROVE  AbortOutcome(c)
  <2>1. Slots(c, Hardware(rollback[c].old.setting, TRUE, rollback[c].resume),
              rollback[c].resume, rollback[c].jitter, reload[c], b, update[c],
              mixers[c])
    BY <1>5, LeftAlone, Zenon DEF FinishReplacement, Set, Slots
  <2>2. rollback[c].resume \in BOOLEAN
    BY SlotTypes
  <2> QED
    BY <1>3, <1>5, <2>1, <2>2, Zenon
<1>6. CASE /\ Set(station, c, Hardware(rollback[c].old.setting, TRUE,
                                       rollback[c].resume))
           /\ Set(running, c, rollback[c].resume)
           /\ Set(rollback, c,
                  IF rollback[c].resume
                  THEN [NoRollback EXCEPT !.kind = "restoring",
                                          !.jitter = rollback[c].jitter]
                  ELSE NoRollback)
  <2>1. CASE rollback[c].resume
    <3>1. Marker("restoring", rollback[c].jitter) \in Rollbacks
      BY SlotTypes, NewMarker
    <3>2. Set(rollback, c, Marker("restoring", rollback[c].jitter))
      BY <1>6, <2>1, Zenon DEF Set, Marker
    <3> QED
      BY <1>5, <1>6, <3>1, <3>2, Zenon
  <2>2. CASE ~rollback[c].resume
    <3>1. Set(rollback, c, NoRollback)
      BY <1>6, <2>2, Zenon DEF Set
    <3> QED
      BY <1>5, <1>6, <3>1, BootFacts, Zenon
  <2> QED
    BY <2>1, <2>2
<1>7. CASE /\ Set(station, c, [station[c] EXCEPT !.on = FALSE])
           /\ UNCHANGED <<running, rollback>>
  BY <1>2, <1>7, Zenon
<1> QED
  BY <1>2, <1>4, <1>6, <1>7, Zenon DEF FinishReplacement

\* Whatever channel_reload_finish does on an abort, nothing stays prepared and the channel
\* runs what is published or keeps a marker of it.
LEMMA AbortFacts ==
    ASSUME NEW c \in ChannelIds, Turn(c), NEW commit \in BOOLEAN, ~commit,
           NEW status \in Statuses, FinishStep(c, commit, status)
    PROVE  AbortOutcome(c)
<1>1. UNCHANGED alive
  BY DEF FinishStep
<1>2. \/ FinishLive(c, commit, status)
      \/ FinishPreparing(c, commit, status)
      \/ FinishUnactivated(c, status)
      \/ FinishAbort(c, status)
      \/ FinishRestoring(c, status)
      \/ FinishReplacement(c, status)
  BY DEF FinishStep
<1> QED
  BY <1>1, <1>2, FinishLiveFacts, FinishPreparingFacts, FinishUnactivatedFacts,
     FinishAbortFacts, FinishRestoringFacts, FinishReplacementFacts

\* After the driver's commit a channel's turn ends at once and leaves
\* nothing open.
LEMMA CommitFacts ==
    ASSUME NEW c \in ChannelIds, Typed, Consistent(c), Committing(c), alive[c],
           NEW commit \in BOOLEAN, commit, NEW status \in Statuses,
           FinishStep(c, commit, status), UNCHANGED driver
    PROVE  /\ status = "ok" /\ Typed' /\ SameBut(c) /\ Consistent(c)'
           /\ Committing(c)' /\ rollback'[c].kind = "none"
<1>1. reload[c].kind = "none" /\ Runs(c, published[c])
  BY DEF Consistent, Committing, Activated
<1>2. UNCHANGED <<published, candidate, alive, running, reload>>
  BY <1>1 DEF FinishStep, FinishLive, FinishPreparing, FinishCommit, driver
<1>3. ASSUME NEW u \in Updates, NEW m \in BOOLEAN, u = NoUpdate, ~m,
             Slots(c, station[c], running[c], jitter[c], reload[c], NoRollback,
                   u, m)
      PROVE  /\ Typed' /\ SameBut(c) /\ Consistent(c)'
             /\ Committing(c)' /\ rollback'[c].kind = "none"
  <2>1. /\ Typed' /\ SameBut(c)
        /\ station'[c] = station[c] /\ running'[c] = running[c]
        /\ jitter'[c] = jitter[c] /\ reload'[c] = reload[c]
        /\ rollback'[c] = NoRollback /\ update'[c] = u /\ mixers'[c] = m
    BY <1>2, <1>3, SlotFacts, SlotTypes, BootFacts
  <2>2. Consistent(c)'
    BY <1>2, <1>3, <2>1, BootFacts DEF Consistent
  <2>3. Committing(c)' /\ rollback'[c].kind = "none"
    BY <1>1, <1>2, <2>1, BootFacts DEF Committing, Runs
  <2> QED
    BY <2>1, <2>2, <2>3
<1>4. CASE FinishCommit(c, status)
  <2>1. Slots(c, station[c], running[c], jitter[c], reload[c], NoRollback,
              update[c], mixers[c])
    BY <1>4, LeftAlone, Zenon DEF FinishCommit, Set, Slots
  <2>2. update[c] = NoUpdate /\ ~mixers[c] /\ status = "ok"
    BY <1>4 DEF FinishCommit, Consistent
  <2> QED
    BY <1>3, <2>1, <2>2, SlotTypes
<1>5. CASE FinishLive(c, commit, status)
  <2>1. rollback[c].kind = "live" /\ update[c].state = "adopted"
    BY <1>5 DEF FinishLive, Committing, Activated
  <2>2. /\ Set(update, c, NoUpdate) /\ Set(mixers, c, FALSE)
        /\ Set(rollback, c, NoRollback) /\ UNCHANGED <<jitter, station>>
        /\ status = "ok"
    BY <1>5, <2>1 DEF FinishLive
  <2>3. Slots(c, station[c], running[c], jitter[c], reload[c], NoRollback,
              NoUpdate, FALSE)
    BY <1>2, <2>2, LeftAlone, Zenon DEF Set, Slots
  <2> QED
    BY <1>3, <2>2, <2>3, BootFacts, Zenon
<1>6. CASE FinishPreparing(c, commit, status)
  BY <1>1, <1>6 DEF FinishPreparing
<1> QED
  BY <1>4, <1>5, <1>6 DEF FinishStep

-----------------------------------------------------------------------------
(* The coordinator's steps.                                                *)

\* A phase begins with the first live channel.
LEMMA GoFacts ==
    ASSUME Typed, NEW p, Go(p)
    PROVE  /\ phase' = p /\ ~polling' /\ polling' \in BOOLEAN
           /\ index' \in 1 .. N + 1
           /\ index' \in ChannelIds => alive[index']
           /\ \A c \in ChannelIds : alive[c] => c >= index'
<1>1. 0 \in 0 .. N /\ alive \in [ChannelIds -> BOOLEAN]
  BY NAssumption DEF Typed
<1>2. phase' = p /\ index' = After(0) /\ ~polling' /\ polling' \in BOOLEAN
  BY Zenon DEF Go
<1> QED
  BY <1>1, <1>2, AfterFacts, NAssumption DEF ChannelIds

\* check() moves on to the next live channel.
LEMMA MoveFacts ==
    ASSUME Typed, CoordinatorTyped, index \in ChannelIds, Judge("ok")
    PROVE  /\ phase' = phase /\ ~polling' /\ polling' \in BOOLEAN
           /\ index' \in 1 .. N + 1 /\ index' > index
           /\ index' \in ChannelIds => alive[index']
           /\ \A c \in ChannelIds : alive[c] /\ c > index => c >= index'
<1>1. index \in 0 .. N /\ alive \in [ChannelIds -> BOOLEAN]
  BY NAssumption DEF Typed, ChannelIds
<1>2. phase' = phase /\ index' = After(index) /\ ~polling' /\ polling' \in BOOLEAN
  BY Zenon DEF Judge
<1> QED
  BY <1>1, <1>2, AfterFacts, Zenon

\* What the invariant says of every channel, as the steps use it.
LEMMA CoordinatorFacts ==
    ASSUME Inv
    PROVE  /\ Typed /\ CoordinatorTyped
           /\ \A c \in ChannelIds : Consistent(c)
           /\ \A c \in ChannelIds : alive[c] => StagedAt(c)
           /\ phase # "commit" => \A c \in ChannelIds : alive[c] => Reversible(c)
           /\ ChannelIds \subseteq Nat /\ index \in Nat /\ N \in Nat
           /\ ~Done => index \in ChannelIds
           /\ Done => \A c \in ChannelIds : c < index
  BY NAssumption DEF Inv, ChannelInv, CoordinatorTyped, ChannelIds, Done

\* A step that leaves every channel as it was.
LEMMA ChannelsKept ==
    ASSUME UNCHANGED channel
    PROVE  \A d \in ChannelIds : Same(d)
  BY DEF channel, Same

\* What preparing the channel at hand reports moves the index, polls again or aborts.
LEMMA PreparePhaseStep ==
    ASSUME Inv, PreparePhase
    PROVE  Inv'
<1> USE CoordinatorFacts
<1> PICK c \in ChannelIds : c = index
  BY DEF PreparePhase
<1>1. PICK status \in Statuses : PrepareStep(c, status) /\ Judge(status)
  BY DEF PreparePhase
<1>2. /\ phase = "prepare" /\ index = c /\ alive[c]
      /\ UNCHANGED driver /\ UNCHANGED outcome
      /\ candidate \in [ChannelIds -> Values]
  BY DEF PreparePhase, CoordinatorTyped
<1>3. /\ Unprepared(c) \/ Preparing(c)
      /\ Consistent(c) /\ Reversible(c)
  BY <1>2 DEF StagedAt
<1>4. /\ Typed' /\ SameBut(c) /\ Consistent(c)' /\ Reversible(c)'
      /\ status = "ok" => Ready(c)'
      /\ status = "pending" => Unprepared(c)' \/ Preparing(c)'
  BY <1>1, <1>2, <1>3, PrepareFacts
<1>5. UNCHANGED <<published, candidate, alive>>
  BY <1>1, <1>2 DEF PrepareStep, driver
<1>6. ASSUME NEW d \in ChannelIds
      PROVE  /\ Consistent(d)'
             /\ alive[d] => Reversible(d)'
             /\ alive[d] /\ d < c => Ready(d)'
             /\ alive[d] /\ d > c => Unprepared(d)'
  <2>1. CASE d = c
    BY <1>2, <1>4, <2>1
  <2>2. CASE d # c
    <3>1. Same(d)
      BY <1>4, <2>2 DEF SameBut
    <3>2. alive[d] /\ d < c => Ready(d)
      BY <1>2 DEF StagedAt
    <3>3. alive[d] /\ d > c => Unprepared(d)
      BY <1>2 DEF StagedAt
    <3> QED
      BY <1>2, <3>1, <3>2, <3>3, Frame
  <2> QED
    BY <2>1, <2>2
<1>7. CASE status = "ok"
  <2>1. /\ phase' = "prepare" /\ ~polling' /\ polling' \in BOOLEAN
        /\ index' \in 1 .. N + 1 /\ index' > c
        /\ index' \in ChannelIds => alive[index']
        /\ \A e \in ChannelIds : alive[e] /\ e > c => e >= index'
    BY <1>1, <1>2, <1>7, MoveFacts
  <2>2. CoordinatorTyped' /\ Settled'
    BY <1>2, <1>5, <2>1 DEF CoordinatorTyped, Settled
  <2>3. ASSUME NEW d \in ChannelIds
        PROVE  ChannelInv(d)'
    <3>1. CASE alive[d] /\ d <= c
      BY <1>2, <1>4, <1>5, <1>6, <1>7, <2>1, <3>1 DEF ChannelInv, StagedAt
    <3>2. CASE alive[d] /\ d > c
      BY <1>2, <1>5, <1>6, <2>1, <3>2 DEF ChannelInv, StagedAt
    <3>3. CASE ~alive[d]
      BY <1>5, <1>6, <3>3 DEF ChannelInv
    <3> QED
      BY <3>1, <3>2, <3>3
  <2> QED
    BY <1>4, <2>2, <2>3 DEF Inv
<1>8. CASE status = "pending"
  <2>1. phase' = phase /\ polling' /\ polling' \in BOOLEAN /\ index' = c
    BY <1>1, <1>2, <1>8, Zenon DEF Judge
  <2>2. CoordinatorTyped' /\ Settled'
    BY <1>2, <1>5, <2>1 DEF CoordinatorTyped, Settled
  <2>3. ASSUME NEW d \in ChannelIds
        PROVE  ChannelInv(d)'
    <3>1. CASE alive[d] /\ d = c
      BY <1>2, <1>4, <1>5, <1>6, <1>8, <2>1, <3>1 DEF ChannelInv, StagedAt
    <3>2. CASE alive[d] /\ d # c
      BY <1>2, <1>5, <1>6, <2>1, <3>2 DEF ChannelInv, StagedAt
    <3>3. CASE ~alive[d]
      BY <1>5, <1>6, <3>3 DEF ChannelInv
    <3> QED
      BY <3>1, <3>2, <3>3
  <2> QED
    BY <1>4, <2>2, <2>3 DEF Inv
<1>9. CASE status = "failed"
  <2>1. Go("abort")
    BY <1>1, <1>9, Zenon DEF Judge
  <2>2. /\ phase' = "abort" /\ ~polling' /\ polling' \in BOOLEAN
        /\ index' \in 1 .. N + 1
        /\ index' \in ChannelIds => alive[index']
        /\ \A e \in ChannelIds : alive[e] => e >= index'
    BY <2>1, GoFacts
  <2>3. CoordinatorTyped' /\ Settled'
    BY <1>2, <1>5, <2>2 DEF CoordinatorTyped, Settled
  <2>4. ASSUME NEW d \in ChannelIds
        PROVE  ChannelInv(d)'
    BY <1>5, <1>6, <2>2 DEF ChannelInv, StagedAt
  <2> QED
    BY <1>4, <2>3, <2>4 DEF Inv
<1> QED
  BY <1>7, <1>8, <1>9 DEF Statuses

\* What activating the channel at hand reports moves the index, polls again or aborts.
LEMMA ActivatePhaseStep ==
    ASSUME Inv, ActivatePhase
    PROVE  Inv'
<1> USE CoordinatorFacts
<1> PICK c \in ChannelIds : c = index
  BY DEF ActivatePhase
<1>1. PICK status \in Statuses : ActivateStep(c, status) /\ Judge(status)
  BY DEF ActivatePhase, ActivateStep, ActivatePoll, ActivateUnchanged,
         ActivateLive, ActivateMedia, ActivateUntouched, ActivateFails,
         ActivateReplacement, Set
<1>2. /\ phase = "activate" /\ index = c /\ alive[c]
      /\ UNCHANGED driver /\ UNCHANGED outcome
      /\ candidate \in [ChannelIds -> Values]
  BY DEF ActivatePhase, CoordinatorTyped
<1>3. Turn(c) /\ (Ready(c) \/ Activating(c))
  BY <1>2 DEF StagedAt, Turn
<1>4. Outcome(c, status)
  BY <1>1, <1>3, ActivateFacts
<1>5. UNCHANGED <<published, candidate, alive>>
  BY <1>1, <1>2 DEF ActivateStep, driver
<1>6. ASSUME NEW d \in ChannelIds
      PROVE  /\ Consistent(d)'
             /\ alive[d] => Reversible(d)'
             /\ alive[d] /\ d < c => Activated(d, candidate[d])'
             /\ alive[d] /\ d > c => Ready(d)'
  <2>1. CASE d = c
    BY <1>2, <1>4, <2>1 DEF Outcome
  <2>2. CASE d # c
    <3>1. Same(d)
      BY <1>4, <2>2 DEF Outcome, SameBut
    <3>2. alive[d] /\ d < c => Activated(d, candidate[d])
      BY <1>2 DEF StagedAt
    <3>3. alive[d] /\ d > c => Ready(d)
      BY <1>2 DEF StagedAt
    <3> QED
      BY <1>2, <3>1, <3>2, <3>3, Frame
  <2> QED
    BY <2>1, <2>2
<1>7. CASE status = "ok"
  <2>1. /\ phase' = "activate" /\ ~polling' /\ polling' \in BOOLEAN
        /\ index' \in 1 .. N + 1 /\ index' > c
        /\ index' \in ChannelIds => alive[index']
        /\ \A e \in ChannelIds : alive[e] /\ e > c => e >= index'
    BY <1>1, <1>2, <1>7, MoveFacts
  <2>2. CoordinatorTyped' /\ Settled'
    BY <1>2, <1>5, <2>1 DEF CoordinatorTyped, Settled
  <2>3. ASSUME NEW d \in ChannelIds
        PROVE  ChannelInv(d)'
    <3>1. CASE alive[d] /\ d <= c
      BY <1>4, <1>5, <1>6, <1>7, <2>1, <3>1 DEF ChannelInv, StagedAt, Outcome
    <3>2. CASE alive[d] /\ d > c
      BY <1>5, <1>6, <2>1, <3>2 DEF ChannelInv, StagedAt
    <3>3. CASE ~alive[d]
      BY <1>5, <1>6, <3>3 DEF ChannelInv
    <3> QED
      BY <3>1, <3>2, <3>3
  <2> QED
    BY <1>4, <2>2, <2>3 DEF Inv, Outcome
<1>8. CASE status = "pending"
  <2>1. phase' = phase /\ polling' /\ polling' \in BOOLEAN /\ index' = c
    BY <1>1, <1>2, <1>8, Zenon DEF Judge
  <2>2. CoordinatorTyped' /\ Settled'
    BY <1>2, <1>5, <2>1 DEF CoordinatorTyped, Settled
  <2>3. ASSUME NEW d \in ChannelIds
        PROVE  ChannelInv(d)'
    <3>1. CASE alive[d] /\ d = c
      BY <1>2, <1>4, <1>5, <1>6, <1>8, <2>1, <3>1 DEF ChannelInv, StagedAt, Outcome
    <3>2. CASE alive[d] /\ d # c
      BY <1>2, <1>5, <1>6, <2>1, <3>2 DEF ChannelInv, StagedAt
    <3>3. CASE ~alive[d]
      BY <1>5, <1>6, <3>3 DEF ChannelInv
    <3> QED
      BY <3>1, <3>2, <3>3
  <2> QED
    BY <1>4, <2>2, <2>3 DEF Inv, Outcome
<1>9. CASE status = "failed"
  <2>1. Go("abort")
    BY <1>1, <1>9, Zenon DEF Judge
  <2>2. /\ phase' = "abort" /\ ~polling' /\ polling' \in BOOLEAN
        /\ index' \in 1 .. N + 1
        /\ index' \in ChannelIds => alive[index']
        /\ \A e \in ChannelIds : alive[e] => e >= index'
    BY <2>1, GoFacts
  <2>3. CoordinatorTyped' /\ Settled'
    BY <1>2, <1>5, <2>2 DEF CoordinatorTyped, Settled
  <2>4. ASSUME NEW d \in ChannelIds
        PROVE  ChannelInv(d)'
    BY <1>5, <1>6, <2>2 DEF ChannelInv, StagedAt
  <2> QED
    BY <1>4, <2>3, <2>4 DEF Inv, Outcome
<1> QED
  BY <1>7, <1>8, <1>9 DEF Statuses

\* A rollback step, whatever its answer: the channel has been told.
LEMMA AbortPhaseStep ==
    ASSUME Inv, FinishPhase, phase = "abort"
    PROVE  Inv'
<1> USE CoordinatorFacts
<1> PICK c \in ChannelIds : c = index
  BY DEF FinishPhase
<1> PICK commit \in BOOLEAN : commit <=> phase = "commit"
  BY Zenon
<1>1. PICK status \in Statuses :
         /\ FinishStep(c, commit, status)
         /\ Judge(IF status = "pending" THEN "pending" ELSE "ok")
  BY Zenon DEF FinishPhase, FinishStep, FinishLive, FinishPreparing, Working,
         FinishCommit, FinishUnactivated, FinishAbort, FinishRestoring,
         FinishReplacement, Set
<1>2. /\ phase = "abort" /\ index = c /\ alive[c]
      /\ UNCHANGED driver /\ UNCHANGED outcome
      /\ candidate \in [ChannelIds -> Values]
  BY DEF FinishPhase, CoordinatorTyped
<1>3. ~commit
  BY <1>2, Zenon
<1>4. AbortOutcome(c)
  <2>1. Turn(c)
    BY <1>2 DEF Turn
  <2> QED
    BY <1>1, <1>3, <2>1, AbortFacts
<1>5. UNCHANGED <<published, candidate, alive>>
  BY <1>1, <1>2 DEF FinishStep, driver
<1>6. ASSUME NEW d \in ChannelIds
      PROVE  /\ Consistent(d)'
             /\ alive[d] => Reversible(d)'
             /\ alive[d] /\ d <= c => Unprepared(d)'
  <2>1. CASE d = c
    BY <1>4, <2>1 DEF AbortOutcome
  <2>2. CASE d # c
    <3>1. Same(d)
      BY <1>4, <2>2 DEF AbortOutcome, SameBut
    <3>2. alive[d] /\ d <= c => Unprepared(d)
      BY <1>2, <2>2 DEF StagedAt
    <3> QED
      BY <1>2, <3>1, <3>2, Frame
  <2> QED
    BY <2>1, <2>2
<1>7. CASE status = "pending"
  <2>1. phase' = phase /\ polling' /\ polling' \in BOOLEAN /\ index' = c
    BY <1>1, <1>2, <1>7, Zenon DEF Judge
  <2>2. CoordinatorTyped' /\ Settled'
    BY <1>2, <1>5, <2>1 DEF CoordinatorTyped, Settled
  <2>3. ASSUME NEW d \in ChannelIds
        PROVE  ChannelInv(d)'
    BY <1>2, <1>5, <1>6, <2>1 DEF ChannelInv, StagedAt
  <2> QED
    BY <1>4, <2>2, <2>3 DEF Inv, AbortOutcome
<1>8. CASE status # "pending"
  <2>1. Judge("ok")
    BY <1>1, <1>8, Zenon
  <2>2. /\ phase' = "abort" /\ ~polling' /\ polling' \in BOOLEAN
        /\ index' \in 1 .. N + 1 /\ index' > c
        /\ index' \in ChannelIds => alive[index']
        /\ \A e \in ChannelIds : alive[e] /\ e > c => e >= index'
    BY <1>2, <2>1, MoveFacts
  <2>3. CoordinatorTyped' /\ Settled'
    BY <1>2, <1>5, <2>2 DEF CoordinatorTyped, Settled
  <2>4. ASSUME NEW d \in ChannelIds
        PROVE  ChannelInv(d)'
    BY <1>2, <1>5, <1>6, <2>2 DEF ChannelInv, StagedAt
  <2> QED
    BY <1>4, <2>3, <2>4 DEF Inv, AbortOutcome
<1> QED
  BY <1>7, <1>8

\* A commit step ends the channel's transaction.
LEMMA CommitPhaseStep ==
    ASSUME Inv, FinishPhase, phase = "commit"
    PROVE  Inv'
<1> USE CoordinatorFacts
<1> PICK c \in ChannelIds : c = index
  BY DEF FinishPhase
<1> PICK commit \in BOOLEAN : commit <=> phase = "commit"
  BY Zenon
<1>1. PICK status \in Statuses :
         /\ FinishStep(c, commit, status)
         /\ Judge(IF status = "pending" THEN "pending" ELSE "ok")
  BY Zenon DEF FinishPhase, FinishStep, FinishLive, FinishPreparing, Working,
         FinishCommit, FinishUnactivated, FinishAbort, FinishRestoring,
         FinishReplacement, Set
<1>2. /\ phase = "commit" /\ index = c /\ alive[c]
      /\ UNCHANGED driver /\ UNCHANGED outcome
      /\ candidate = NoCandidate
  BY DEF FinishPhase, CoordinatorTyped
<1>3. commit
  BY <1>2, Zenon
<1>4. /\ status = "ok" /\ Typed' /\ SameBut(c) /\ Consistent(c)'
      /\ Committing(c)' /\ rollback'[c].kind = "none"
  <2>1. Committing(c)
    BY <1>2 DEF StagedAt
  <2> QED
    BY <1>1, <1>2, <1>3, <2>1, CommitFacts
<1>5. UNCHANGED <<published, candidate, alive>>
  BY <1>1, <1>2 DEF FinishStep, driver
<1>6. ASSUME NEW d \in ChannelIds
      PROVE  /\ Consistent(d)'
             /\ alive[d] => Committing(d)'
             /\ alive[d] /\ d <= c => rollback'[d].kind = "none"
  <2>1. CASE d = c
    BY <1>4, <2>1
  <2>2. CASE d # c
    <3>1. Same(d)
      BY <1>4, <2>2 DEF SameBut
    <3>2. alive[d] => Committing(d) /\ (d <= c => rollback[d].kind = "none")
      BY <1>2, <2>2 DEF StagedAt
    <3>3. rollback'[d] = rollback[d]
      BY <3>1 DEF Same
    <3> QED
      BY <1>2, <3>1, <3>2, <3>3, Frame
  <2> QED
    BY <2>1, <2>2
<1>7. Judge("ok")
  BY <1>1, <1>4, Zenon
<1>8. /\ phase' = "commit" /\ ~polling' /\ polling' \in BOOLEAN
      /\ index' \in 1 .. N + 1 /\ index' > c
      /\ index' \in ChannelIds => alive[index']
      /\ \A e \in ChannelIds : alive[e] /\ e > c => e >= index'
  BY <1>2, <1>7, MoveFacts
<1>9. CoordinatorTyped' /\ Settled'
  BY <1>2, <1>5, <1>8 DEF CoordinatorTyped, Settled
<1>10. ASSUME NEW d \in ChannelIds
       PROVE  ChannelInv(d)'
  BY <1>2, <1>5, <1>6, <1>8 DEF ChannelInv, StagedAt
<1> QED
  BY <1>4, <1>9, <1>10 DEF Inv

\* What the coordinator's own steps keep: every channel's slots.
LEMMA SlotsKept ==
    ASSUME Inv, UNCHANGED <<station, alive, running, jitter, reload, rollback,
                            update, mixers>>,
           published' \in [ChannelIds -> Values]
    PROVE  /\ Typed'
           /\ \A d \in ChannelIds : Same(d) /\ Consistent(d)'
<1>1. Typed'
  BY CoordinatorFacts, Zenon DEF Typed
<1>2. ASSUME NEW d \in ChannelIds
      PROVE  Same(d) /\ Consistent(d)'
  BY CoordinatorFacts, Zenon DEF Same, Consistent
<1> QED
  BY <1>1, <1>2

\* A reload begins with its candidate and no channel dealt with.
LEMMA BeginStep ==
    ASSUME Inv, NEW configuration \in Configurations, Begin(configuration)
    PROVE  Inv'
<1> USE CoordinatorFacts
<1>1. /\ phase = "idle"
      /\ candidate' \in [ChannelIds -> Values] /\ outcome' = "none"
      /\ UNCHANGED <<published, station, alive, running, jitter, reload,
                     rollback, update, mixers>>
  BY DEF Begin, Idle, channel, Configurations, Values
<1>2. Go("prepare")
  BY Zenon DEF Begin, Go
<1>3. /\ phase' = "prepare" /\ ~polling' /\ polling' \in BOOLEAN
      /\ index' \in 1 .. N + 1
      /\ index' \in ChannelIds => alive[index']
      /\ \A e \in ChannelIds : alive[e] => e >= index'
  BY <1>2, GoFacts
<1>4. Typed' /\ \A d \in ChannelIds : Same(d) /\ Consistent(d)'
  BY <1>1, SlotsKept DEF Typed
<1>5. CoordinatorTyped' /\ Settled'
  BY <1>1, <1>3 DEF CoordinatorTyped, Settled
<1>6. ASSUME NEW d \in ChannelIds
      PROVE  ChannelInv(d)'
  <2>1. alive[d] => Reversible(d)' /\ Unprepared(d)'
    <3>1. alive[d] => Reversible(d) /\ Unprepared(d)
      BY <1>1 DEF StagedAt
    <3> QED
      BY <1>1, <3>1, Zenon DEF Reversible, Runs, Unprepared
  <2> QED
    BY <1>1, <1>3, <1>4, <2>1 DEF ChannelInv, StagedAt
<1> QED
  BY <1>4, <1>5, <1>6 DEF Inv

\* With every channel prepared, link_prepare decides between activation and abort.
LEMMA LinkPrepareStep ==
    ASSUME Inv, LinkPrepare
    PROVE  Inv'
<1> USE CoordinatorFacts
<1>1. PICK p \in {"activate", "abort"} : Go(p)
  BY DEF LinkPrepare
<1>2. /\ phase = "prepare" /\ UNCHANGED driver /\ UNCHANGED outcome
      /\ candidate \in [ChannelIds -> Values]
      /\ UNCHANGED <<published, candidate, station, alive, running, jitter,
                     reload, rollback, update, mixers>>
  BY DEF LinkPrepare, CoordinatorTyped, channel, driver
<1>3. /\ phase' = p /\ ~polling' /\ polling' \in BOOLEAN
      /\ index' \in 1 .. N + 1
      /\ index' \in ChannelIds => alive[index']
      /\ \A e \in ChannelIds : alive[e] => e >= index'
  BY <1>1, GoFacts
<1>4. Typed' /\ \A d \in ChannelIds : Same(d) /\ Consistent(d)'
  BY <1>2, SlotsKept DEF Typed
<1>5. CoordinatorTyped' /\ Settled'
  BY <1>2, <1>3 DEF CoordinatorTyped, Settled
<1>6. ASSUME NEW d \in ChannelIds
      PROVE  ChannelInv(d)'
  <2>1. alive[d] => Reversible(d) /\ Ready(d)
    BY <1>2 DEF StagedAt, LinkPrepare
  <2>2. alive[d] => Reversible(d)' /\ Ready(d)'
    BY <1>2, <1>4, <2>1, Frame
  <2> QED
    BY <1>2, <1>3, <1>4, <2>2 DEF ChannelInv, StagedAt
<1> QED
  BY <1>4, <1>5, <1>6 DEF Inv

\* Every channel runs the candidate, which becomes what is published.
LEMMA DriverCommitStep ==
    ASSUME Inv, DriverCommit
    PROVE  /\ Inv'
           /\ \A c \in ChannelIds : alive[c] => Activated(c, published'[c])
<1> USE CoordinatorFacts
<1>1. /\ phase = "activate" /\ Done
      /\ published' = candidate /\ candidate' = NoCandidate
      /\ candidate \in [ChannelIds -> Values] /\ outcome' = outcome
      /\ UNCHANGED <<station, alive, running, jitter, reload, rollback,
                     update, mixers>>
  BY DEF DriverCommit, CoordinatorTyped, channel
<1>2. Go("commit")
  BY DEF DriverCommit
<1>3. /\ phase' = "commit" /\ ~polling' /\ polling' \in BOOLEAN
      /\ index' \in 1 .. N + 1
      /\ index' \in ChannelIds => alive[index']
      /\ \A e \in ChannelIds : alive[e] => e >= index'
  BY <1>2, GoFacts
<1>4. Typed' /\ \A d \in ChannelIds : Same(d) /\ Consistent(d)'
  BY <1>1, SlotsKept
<1>5. CoordinatorTyped' /\ Settled'
  BY <1>1, <1>3 DEF CoordinatorTyped, Settled
<1>6. \A c \in ChannelIds : alive[c] => Activated(c, published'[c])
  BY <1>1 DEF StagedAt
<1>7. ASSUME NEW d \in ChannelIds
      PROVE  ChannelInv(d)'
  <2>1. alive[d] => Activated(d, published[d])'
    BY <1>1, <1>6, Zenon DEF Activated, Runs
  <2> QED
    BY <1>1, <1>3, <1>4, <2>1 DEF ChannelInv, StagedAt, Committing
<1> QED
  BY <1>4, <1>5, <1>6, <1>7 DEF Inv

\* Giving up on a phase that stays Pending.
LEMMA DeadlineStep ==
    ASSUME Inv, Deadline
    PROVE  Inv'
<1> USE CoordinatorFacts
<1>1. /\ phase \in {"prepare", "activate", "abort"} /\ index \in ChannelIds
      /\ polling
      /\ UNCHANGED driver /\ UNCHANGED outcome
      /\ candidate \in [ChannelIds -> Values]
      /\ UNCHANGED <<published, candidate, station, alive, running, jitter,
                     reload, rollback, update, mixers>>
  BY DEF Deadline, CoordinatorTyped, channel, driver
<1>2. Typed' /\ \A d \in ChannelIds : Same(d) /\ Consistent(d)'
  BY <1>1, SlotsKept DEF Typed
<1>3. CASE phase = "abort"
  <2>1. Judge("ok")
    BY <1>3, Zenon DEF Deadline
  <2>2. /\ phase' = "abort" /\ ~polling' /\ polling' \in BOOLEAN
        /\ index' \in 1 .. N + 1 /\ index' > index
        /\ index' \in ChannelIds => alive[index']
        /\ \A e \in ChannelIds : alive[e] /\ e > index => e >= index'
    BY <1>1, <1>3, <2>1, MoveFacts
  <2>3. CoordinatorTyped' /\ Settled'
    BY <1>1, <2>2 DEF CoordinatorTyped, Settled
  <2>4. ASSUME NEW d \in ChannelIds
        PROVE  ChannelInv(d)'
    <3>1. alive[d] => Reversible(d) /\ (d <= index => Unprepared(d))
      BY <1>1, <1>3 DEF StagedAt
    <3>2. alive[d] => Reversible(d)' /\ (d <= index => Unprepared(d)')
      BY <1>1, <1>2, <3>1, Frame
    <3> QED
      BY <1>1, <1>2, <2>2, <3>2 DEF ChannelInv, StagedAt
  <2> QED
    BY <1>2, <2>3, <2>4 DEF Inv
<1>4. CASE phase \in {"prepare", "activate"}
  <2>1. Go("abort")
    BY <1>4, Zenon DEF Deadline, Judge
  <2>2. /\ phase' = "abort" /\ ~polling' /\ polling' \in BOOLEAN
        /\ index' \in 1 .. N + 1
        /\ index' \in ChannelIds => alive[index']
        /\ \A e \in ChannelIds : alive[e] => e >= index'
    BY <2>1, GoFacts
  <2>3. CoordinatorTyped' /\ Settled'
    BY <1>1, <2>2 DEF CoordinatorTyped, Settled
  <2>4. ASSUME NEW d \in ChannelIds
        PROVE  ChannelInv(d)'
    <3>1. alive[d] => Reversible(d)'
      BY <1>1, <1>2, <1>4, Frame
    <3> QED
      BY <1>1, <1>2, <2>2, <3>1 DEF ChannelInv, StagedAt
  <2> QED
    BY <1>2, <2>3, <2>4 DEF Inv
<1> QED
  BY <1>1, <1>3, <1>4

\* A commit that has passed every channel ends the reload.
LEMMA ReloadSucceedsStep ==
    ASSUME Inv, ReloadSucceeds
    PROVE  Inv'
<1> USE CoordinatorFacts
<1>1. /\ phase = "commit" /\ Done /\ outcome' = "ok"
      /\ candidate = NoCandidate
      /\ UNCHANGED <<published, candidate, station, alive, running, jitter,
                     reload, rollback, update, mixers>>
  BY DEF ReloadSucceeds, CoordinatorTyped, channel, driver
<1>2. Go("idle")
  BY DEF ReloadSucceeds
<1>3. /\ phase' = "idle" /\ ~polling' /\ polling' \in BOOLEAN
      /\ index' \in 1 .. N + 1
  BY <1>2, GoFacts
<1>4. Typed' /\ \A d \in ChannelIds : Same(d) /\ Consistent(d)'
  BY <1>1, SlotsKept DEF Typed
<1>5. ASSUME NEW d \in ChannelIds
      PROVE  /\ reload[d].kind = "none" /\ rollback[d].kind = "none"
             /\ alive[d] => Runs(d, published[d])
  <2>1. CASE alive[d]
    BY <1>1, <2>1 DEF StagedAt, Committing, Activated
  <2>2. CASE ~alive[d]
    BY <2>2 DEF Consistent
  <2> QED
    BY <2>1, <2>2
<1>6. CoordinatorTyped' /\ Settled'
  BY <1>1, <1>3, <1>5 DEF CoordinatorTyped, Settled
<1>7. ASSUME NEW d \in ChannelIds
      PROVE  ChannelInv(d)'
  <2>1. alive[d] => Reversible(d) /\ Unprepared(d)
    BY <1>5 DEF Reversible, Unprepared
  <2>2. alive[d] => Reversible(d)' /\ Unprepared(d)'
    BY <1>1, <1>4, <2>1, Frame DEF driver
  <2> QED
    BY <1>1, <1>3, <1>4, <2>2 DEF ChannelInv, StagedAt
<1> QED
  BY <1>4, <1>6, <1>7 DEF Inv

\* An abort that has passed every channel ends the reload; markers of rollbacks that failed
\* stay.
LEMMA ReloadFailsStep ==
    ASSUME Inv, ReloadFails
    PROVE  Inv'
<1> USE CoordinatorFacts
<1>1. /\ phase = "abort" /\ Done /\ outcome' = "failed"
      /\ candidate' = NoCandidate
      /\ UNCHANGED <<published, station, alive, running, jitter, reload,
                     rollback, update, mixers>>
  BY DEF ReloadFails, channel
<1>2. Go("idle")
  BY DEF ReloadFails
<1>3. /\ phase' = "idle" /\ ~polling' /\ polling' \in BOOLEAN
      /\ index' \in 1 .. N + 1
  BY <1>2, GoFacts
<1>4. Typed' /\ \A d \in ChannelIds : Same(d) /\ Consistent(d)'
  BY <1>1, SlotsKept DEF Typed
<1>5. CoordinatorTyped' /\ Settled'
  BY <1>1, <1>3 DEF CoordinatorTyped, Settled
<1>6. ASSUME NEW d \in ChannelIds
      PROVE  ChannelInv(d)'
  <2>1. alive[d] => Reversible(d) /\ Unprepared(d)
    BY <1>1 DEF StagedAt
  <2>2. alive[d] => Reversible(d)' /\ Unprepared(d)'
    BY <1>1, <2>1, Zenon DEF Reversible, Runs, Unprepared
  <2> QED
    BY <1>1, <1>3, <1>4, <2>2 DEF ChannelInv, StagedAt
<1> QED
  BY <1>4, <1>5, <1>6 DEF Inv

-----------------------------------------------------------------------------
(* Channel lifetime, and what goes on between two polls.                   *)

\* A step of one channel that is not the coordinator's.
LEMMA OneChannelStep ==
    ASSUME Inv, NEW c \in ChannelIds, SameBut(c), UNCHANGED driver,
           UNCHANGED coordinator, Typed', CoordinatorTyped',
           Consistent(c)',
           alive'[c] => (phase # "commit" => Reversible(c)') /\ StagedAt(c)',
           reload[c].kind = "none" => reload'[c].kind = "none",
           rollback[c].kind = "none" => rollback'[c].kind = "none"
    PROVE  Inv'
<1> USE CoordinatorFacts
<1>1. UNCHANGED <<published, candidate, phase, index, polling, outcome>>
  BY DEF driver, coordinator
<1>2. ASSUME NEW d \in ChannelIds, d # c
      PROVE  /\ ChannelInv(d)' /\ alive'[d] = alive[d]
             /\ reload'[d] = reload[d] /\ rollback'[d] = rollback[d]
  <2>1. Same(d)
    BY <1>2 DEF SameBut
  <2>2. Consistent(d)' /\ (Reversible(d) => Reversible(d)') /\ alive'[d] = alive[d]
    BY <2>1, Frame DEF Same
  <2>3. StagedAt(d) => StagedAt(d)'
    <3>1. /\ phase' = phase /\ index' = index /\ polling' = polling
          /\ rollback'[d] = rollback[d]
      BY <1>1, <2>1 DEF Same
    <3> QED
      BY <2>1, <3>1, Frame DEF StagedAt
  <2> QED
    BY <1>1, <2>1, <2>2, <2>3 DEF ChannelInv, Same
<1>3. ChannelInv(c)'
  BY <1>1 DEF ChannelInv
<1>4. Settled'
  BY <1>1, <1>2 DEF Settled, Inv
<1> QED
  BY <1>1, <1>2, <1>3, <1>4 DEF Inv

\* The coordinator's index is a live channel while a reload is under way.
LEMMA TypedKept ==
    ASSUME Inv, UNCHANGED driver, UNCHANGED coordinator,
           phase = "idle" \/ UNCHANGED alive
    PROVE  CoordinatorTyped'
<1>1. UNCHANGED <<published, candidate, phase, index, polling, outcome>>
  BY DEF driver, coordinator
<1> QED
  BY <1>1, CoordinatorFacts DEF CoordinatorTyped

\* A new channel has what is published for it.
LEMMA ReserveStep ==
    ASSUME Inv, NEW c \in ChannelIds, Reserve(c)
    PROVE  Inv'
<1> USE CoordinatorFacts
<1>1. /\ phase = "idle" /\ ~alive[c]
      /\ reload[c].kind = "none" /\ rollback[c].kind = "none" /\ ~running[c]
      /\ ~rollback[c].old.lease /\ update[c] = NoUpdate /\ ~mixers[c]
      /\ UNCHANGED <<published, candidate, phase>>
  BY DEF Reserve, Idle, Consistent, driver, coordinator
<1> DEFINE s == Media(published[c])
<1>2. s \in Stations /\ s.setting = published[c] /\ s.kind = "media" /\ ~s.lease /\ ~s.on
  BY SlotTypes, MediaFacts
<1>3. Slots(c, s, running[c], published[c], reload[c], rollback[c], update[c],
            mixers[c])
  BY LeftAlone, Zenon DEF Reserve, Set, Slots
<1> HIDE DEF s
<1>4. /\ alive' \in [ChannelIds -> BOOLEAN]
      /\ \A d \in ChannelIds : d # c => alive'[d] = alive[d]
  <2>1. alive' = [alive EXCEPT ![c] = TRUE]
    BY Zenon DEF Reserve, Set
  <2> QED
    BY <2>1, SetFacts, Zenon DEF Typed
<1>5. /\ Typed' /\ SameBut(c)
      /\ station'[c] = s /\ running'[c] = running[c] /\ jitter'[c] = published[c]
      /\ reload'[c] = reload[c] /\ rollback'[c] = rollback[c]
      /\ update'[c] = update[c] /\ mixers'[c] = mixers[c]
  BY <1>1, <1>2, <1>3, <1>4, LifeSlotFacts, SlotTypes
<1>6. Consistent(c)' /\ Reversible(c)' /\ StagedAt(c)'
  BY <1>1, <1>2, <1>5
  DEF Consistent, Reversible, Runs, StagedAt, Unprepared
<1> QED
  BY <1>1, <1>5, <1>6, OneChannelStep, TypedKept DEF Reserve

\* Starting or stopping a channel between reloads.
LEMMA StationStep ==
    ASSUME Inv, NEW c \in ChannelIds, phase = "idle", alive[c],
           NEW s \in Stations, NEW r \in BOOLEAN,
           s.kind = "hardware" \/ (s.kind = "empty" /\ station[c].kind = "media"),
           s.kind = "hardware" => s.setting = station[c].setting,
           s.kind # "hardware" => ~s.lease /\ ~s.on /\ ~r,
           station[c].kind # "empty",
           Slots(c, s, r, jitter[c], reload[c], rollback[c], update[c], mixers[c]),
           UNCHANGED <<driver, alive, coordinator>>
    PROVE  Inv'
<1> USE CoordinatorFacts
<1>1. /\ Typed' /\ SameBut(c)
      /\ station'[c] = s /\ running'[c] = r /\ jitter'[c] = jitter[c]
      /\ reload'[c] = reload[c] /\ rollback'[c] = rollback[c]
      /\ update'[c] = update[c] /\ mixers'[c] = mixers[c]
  BY SlotFacts, SlotTypes DEF driver
<1>2. Unprepared(c) /\ Reversible(c) /\ Consistent(c)
  BY DEF StagedAt
<1>3. UNCHANGED <<published, candidate, phase>>
  BY DEF driver, coordinator
<1>4. Consistent(c)'
  BY <1>1, <1>2, <1>3 DEF Consistent, Unprepared
<1>5. Reversible(c)'
  BY <1>1, <1>2, <1>3 DEF Reversible, Runs
<1>6. StagedAt(c)'
  BY <1>1, <1>2, <1>3 DEF StagedAt, Unprepared
<1> QED
  BY <1>1, <1>4, <1>5, <1>6, OneChannelStep, TypedKept

\* Starting a channel opens what it has, or loses its media.
LEMMA StartStep ==
    ASSUME Inv, NEW c \in ChannelIds, Start(c)
    PROVE  Inv'
<1> USE CoordinatorFacts
<1>1. /\ phase = "idle" /\ alive[c] /\ station[c].kind # "empty"
      /\ UNCHANGED <<driver, alive, coordinator>>
  BY DEF Start, Idle
<1>2. ASSUME NEW lease \in BOOLEAN, NEW on \in BOOLEAN, NEW r \in BOOLEAN,
             Slots(c, Hardware(station[c].setting, lease, on), r, jitter[c],
                   reload[c], rollback[c], update[c], mixers[c])
      PROVE  Inv'
  <2> DEFINE s == Hardware(station[c].setting, lease, on)
  <2>1. s \in Stations /\ s.kind = "hardware" /\ s.setting = station[c].setting
    BY SlotTypes, HardwareFacts
  <2> HIDE DEF s
  <2>2. Slots(c, s, r, jitter[c], reload[c], rollback[c], update[c], mixers[c])
    BY <1>2 DEF s
  <2> QED
    BY <1>1, <2>1, <2>2, StationStep
<1>3. CASE /\ Set(station, c, Hardware(station[c].setting, TRUE, TRUE))
           /\ Set(running, c, TRUE)
  <2>1. Slots(c, Hardware(station[c].setting, TRUE, TRUE), TRUE, jitter[c],
              reload[c], rollback[c], update[c], mixers[c])
    BY <1>3, LeftAlone, Zenon DEF Start, Set, Slots
  <2> QED
    BY <1>2, <2>1, Zenon
<1>4. CASE /\ \E lease \in BOOLEAN :
                 Set(station, c, Hardware(station[c].setting, lease, FALSE))
           /\ UNCHANGED running
  <2>1. PICK lease \in BOOLEAN :
                 Set(station, c, Hardware(station[c].setting, lease, FALSE))
    BY <1>4
  <2>2. Slots(c, Hardware(station[c].setting, lease, FALSE), running[c],
              jitter[c], reload[c], rollback[c], update[c], mixers[c])
    BY <1>4, <2>1, LeftAlone, Zenon DEF Start, Set, Slots
  <2> QED
    BY <1>2, <2>2, SlotTypes, Zenon
<1>5. CASE /\ station[c].kind = "media" /\ Set(station, c, Empty)
           /\ UNCHANGED running
  <2>1. Slots(c, Empty, running[c], jitter[c], reload[c], rollback[c],
              update[c], mixers[c])
    BY <1>5, LeftAlone, Zenon DEF Start, Set, Slots
  <2>2. ~running[c]
    BY <1>5 DEF Consistent
  <2> QED
    BY <1>1, <1>5, <2>1, <2>2, StationStep, BootFacts, SlotTypes
<1> QED
  BY <1>3, <1>4, <1>5, Zenon DEF Start

\* A channel that stops keeps its generation and its marker.
LEMMA QuiesceStep ==
    ASSUME Inv, NEW c \in ChannelIds, Quiesce(c)
    PROVE  Inv'
<1> USE CoordinatorFacts
<1>1. /\ phase = "idle" /\ running[c]
      /\ UNCHANGED <<driver, alive, coordinator>>
  BY DEF Quiesce, Idle
<1>2. station[c].kind = "hardware" /\ alive[c]
  BY <1>1, SlotTypes DEF Consistent
<1>3. ASSUME NEW no \in BOOLEAN, ~no,
             Slots(c, [station[c] EXCEPT !.on = no], no, jitter[c], reload[c],
                   rollback[c], update[c], mixers[c])
      PROVE  Inv'
  <2> DEFINE s == [station[c] EXCEPT !.on = no]
  <2>1. s \in Stations /\ s.kind = "hardware" /\ s.setting = station[c].setting
    BY <1>2, SlotTypes, SwitchedGeneration
  <2> HIDE DEF s
  <2>2. Slots(c, s, no, jitter[c], reload[c], rollback[c], update[c], mixers[c])
    BY <1>3 DEF s
  <2> QED
    BY <1>1, <1>2, <2>1, <2>2, StationStep
<1>4. Slots(c, [station[c] EXCEPT !.on = FALSE], FALSE, jitter[c], reload[c],
            rollback[c], update[c], mixers[c])
  BY LeftAlone, Zenon DEF Quiesce, Set, Slots
<1> QED
  BY <1>3, <1>4, Zenon

\* A channel that is destroyed drops every generation it holds.
LEMMA DestroyStep ==
    ASSUME Inv, NEW c \in ChannelIds, Destroy(c)
    PROVE  Inv'
<1> USE CoordinatorFacts
<1>1. phase = "idle" /\ UNCHANGED <<published, driver, coordinator>>
  BY DEF Destroy, Idle, driver
<1>2. /\ alive' \in [ChannelIds -> BOOLEAN] /\ ~alive'[c]
      /\ \A d \in ChannelIds : d # c => alive'[d] = alive[d]
  <2>1. alive' = [alive EXCEPT ![c] = FALSE]
    BY Zenon DEF Destroy, Set
  <2> QED
    BY <2>1, SetFacts, Zenon DEF Typed
<1>3. ASSUME NEW r \in BOOLEAN, NEW m \in BOOLEAN, ~r, ~m, NEW j \in Values,
             Slots(c, Empty, r, j, NoReload, NoRollback, NoUpdate, m)
      PROVE  Inv'
  <2>1. /\ Typed' /\ SameBut(c)
        /\ station'[c] = Empty /\ running'[c] = r
        /\ reload'[c] = NoReload /\ rollback'[c] = NoRollback
        /\ update'[c] = NoUpdate /\ mixers'[c] = m
    <3>1. UNCHANGED published
      BY <1>1
    <3> QED
      BY <1>2, <1>3, <3>1, LifeSlotFacts, BootFacts
  <2>2. Consistent(c)'
    BY <1>2, <1>3, <2>1, BootFacts DEF Consistent
  <2> QED
    BY <1>1, <1>2, <2>1, <2>2, OneChannelStep, TypedKept, BootFacts
<1>4. Slots(c, Empty, FALSE, jitter[c], NoReload, NoRollback, NoUpdate, FALSE)
  BY LeftAlone, Zenon DEF Destroy, Set, Slots
<1>5. jitter[c] \in Values
  BY SlotTypes
<1> QED
  BY <1>3, <1>4, <1>5, Zenon

\* The thread's end changes nothing the coordinator relies on.
LEMMA WorkerEndsStep ==
    ASSUME Inv, NEW c \in ChannelIds, WorkerEnds(c)
    PROVE  Inv'
<1> USE CoordinatorFacts
<1> DEFINE q == [reload[c] EXCEPT !.done = TRUE]
<1>1. /\ reload[c].kind = "preparing"
      /\ UNCHANGED <<published, candidate, station, alive, running, jitter,
                     rollback, update, mixers>>
      /\ UNCHANGED <<driver, coordinator>>
      /\ UNCHANGED <<phase, index, polling>>
  BY DEF WorkerEnds, driver, coordinator
<1>2. /\ q \in Reloads /\ q.kind = reload[c].kind
      /\ q.setting = reload[c].setting /\ (q.cancelled <=> reload[c].cancelled)
  <2>1. ASSUME NEW yes \in BOOLEAN
        PROVE  LET r == [reload[c] EXCEPT !.done = yes]
               IN  /\ r \in Reloads /\ r.kind = reload[c].kind
                   /\ r.setting = reload[c].setting
                   /\ (r.cancelled <=> reload[c].cancelled)
    BY SlotTypes, EndedReload
  <2> QED
    BY <2>1, Zenon
<1>3. reload' = [reload EXCEPT ![c] = q]
  BY Zenon DEF WorkerEnds, Set
<1> HIDE DEF q
<1>4. Typed' /\ SameBut(c) /\ reload'[c] = q
  BY <1>1, <1>2, <1>3, ReloadSet
<1>5. rollback[c].kind = "none" /\ alive[c]
  BY <1>1, SlotTypes DEF Consistent
<1>6. Consistent(c)'
  BY <1>1, <1>5, Zenon DEF Consistent
<1>7. phase # "commit" => Reversible(c)'
  <2>1. Reversible(c) => Reversible(c)'
    BY <1>1, Zenon DEF Reversible, Runs
  <2> QED
    BY <1>5, <2>1
<1>8. StagedAt(c)'
  <2>1. StagedAt(c)
    BY <1>5
  <2>2. (Unprepared(c) => Unprepared(c)') /\ (Preparing(c) => Preparing(c)')
    BY <1>1, <1>2, <1>4 DEF Unprepared, Preparing
  <2>3. ~Ready(c) /\ ~Activating(c) /\ ~Activated(c, candidate[c]) /\ ~Committing(c)
    BY <1>1, <1>5 DEF Ready, Activating, Activated, Committing
  <2> QED
    BY <1>1, <2>1, <2>2, <2>3 DEF StagedAt
<1> QED
  BY <1>1, <1>2, <1>4, <1>5, <1>6, <1>7, <1>8, OneChannelStep, TypedKept

\* The callbacks answer an update that only its own poll has yet to judge.
LEMMA CallbacksStep ==
    ASSUME Inv, NEW c \in ChannelIds, Callbacks(c)
    PROVE  Inv'
<1> USE CoordinatorFacts
<1>1. PICK answer :
         /\ \/ update[c].state = "pending" /\ answer \in {"adopted", "refused"}
            \/ update[c].state = "reversing" /\ answer = "reversed"
         /\ update' = [update EXCEPT ![c] = [update[c] EXCEPT !.state = answer]]
  <2>1. PICK answer \in CASE update[c].state = "pending" -> {"adopted", "refused"}
                          [] update[c].state = "reversing" -> {"reversed"}
                          [] OTHER -> {} :
            update' = [update EXCEPT ![c] = [update[c] EXCEPT !.state = answer]]
    BY DEF Callbacks, Set
  <2>2. \/ update[c].state = "pending" /\ answer \in {"adopted", "refused"}
        \/ update[c].state = "reversing" /\ answer = "reversed"
    BY <2>1
  <2> QED
    BY <2>1, <2>2
<1>2. /\ UNCHANGED <<published, candidate, station, alive, running, jitter,
                     reload, rollback, mixers>>
      /\ UNCHANGED <<driver, coordinator>>
      /\ UNCHANGED <<phase, index, polling>>
  BY DEF Callbacks, driver, coordinator
<1> DEFINE u == [update[c] EXCEPT !.state = answer]
<1>3. u \in Updates /\ u.state = answer /\ u.target = update[c].target
  BY <1>1, SlotTypes DEF Updates
<1>4. Slots(c, station[c], running[c], jitter[c], reload[c], rollback[c], u,
            mixers[c])
  BY <1>1, <1>2, LeftAlone, Zenon DEF Slots
<1> HIDE DEF u
<1>5. Typed' /\ SameBut(c) /\ update'[c] = u
  BY <1>2, <1>3, <1>4, SlotFacts, SlotTypes
<1>6. rollback[c].kind = "live" /\ reload[c].kind = "none" /\ alive[c]
  BY <1>1, BootFacts, SlotTypes DEF Consistent
<1>7. Consistent(c)'
  BY <1>2, <1>6, Zenon DEF Consistent
<1>8. phase # "commit" => Reversible(c)'
  <2>1. Reversible(c) => Reversible(c)'
    BY <1>2, Zenon DEF Reversible, Runs
  <2> QED
    BY <1>6, <2>1
<1>9. StagedAt(c)'
  <2>1. StagedAt(c)
    BY <1>6
  <2>2. /\ Unprepared(c) => Unprepared(c)'
        /\ Activating(c) => Activating(c)'
    BY <1>1, <1>2, <1>3, <1>5, <1>6 DEF Unprepared, Activating
  <2>3. ~Preparing(c) /\ ~Ready(c) /\ ~Activated(c, candidate[c]) /\ ~Committing(c)
    BY <1>1, <1>6 DEF Preparing, Ready, Activated, Committing
  <2> QED
    BY <1>2, <2>1, <2>2, <2>3 DEF StagedAt
<1> QED
  BY <1>2, <1>5, <1>6, <1>7, <1>8, <1>9, OneChannelStep, TypedKept

-----------------------------------------------------------------------------
(* The theorems.                                                           *)

\* At the start no channel is alive and no reload runs.
LEMMA InitHolds == ReloadInit => Inv
<1> SUFFICES ASSUME ReloadInit PROVE Inv
  OBVIOUS
<1>1. /\ published = [c \in ChannelIds |-> BootSetting]
      /\ station = [c \in ChannelIds |-> Empty]
      /\ jitter = [c \in ChannelIds |-> BootSetting]
      /\ reload = [c \in ChannelIds |-> NoReload]
      /\ rollback = [c \in ChannelIds |-> NoRollback]
      /\ update = [c \in ChannelIds |-> NoUpdate]
      /\ candidate = NoCandidate
      /\ phase = "idle" /\ index = 1 /\ outcome = "none"
  BY DEF ReloadInit
<1>2. /\ alive \in [ChannelIds -> BOOLEAN] /\ running \in [ChannelIds -> BOOLEAN]
      /\ mixers \in [ChannelIds -> BOOLEAN] /\ polling \in BOOLEAN /\ ~polling
      /\ \A c \in ChannelIds : ~alive[c] /\ ~running[c] /\ ~mixers[c]
  BY Zenon DEF ReloadInit
<1>3. Typed
  BY <1>1, <1>2, BootFacts DEF Typed
<1>4. CoordinatorTyped
  BY <1>1, <1>2, NAssumption DEF CoordinatorTyped
<1>5. ASSUME NEW c \in ChannelIds
      PROVE  ChannelInv(c)
  <2>1. /\ station[c] = Empty /\ reload[c] = NoReload
        /\ rollback[c] = NoRollback /\ update[c] = NoUpdate
    BY <1>1
  <2>2. Consistent(c)
    BY <1>2, <2>1, BootFacts DEF Consistent
  <2> QED
    BY <1>2, <2>2 DEF ChannelInv
<1> QED
  BY <1>1, <1>3, <1>4, <1>5 DEF Inv, Settled

\* A step that changes nothing keeps the invariant.
LEMMA StutterStep ==
    ASSUME Inv, UNCHANGED reloadVars
    PROVE  Inv'
<1>1. UNCHANGED <<published, candidate, station, alive, running, jitter,
                  reload, rollback, update, mixers, phase, index, polling,
                  outcome>>
  BY DEF reloadVars, driver, channel, coordinator
<1>2. Typed' /\ \A d \in ChannelIds : Same(d) /\ Consistent(d)'
  BY <1>1, SlotsKept, CoordinatorFacts DEF Typed
<1>3. CoordinatorTyped' /\ Settled'
  BY <1>1, Zenon DEF Inv, CoordinatorTyped, Settled
<1>4. ASSUME NEW d \in ChannelIds
      PROVE  ChannelInv(d)'
  <2>1. (Reversible(d) => Reversible(d)') /\ (StagedAt(d) => StagedAt(d)')
    <3>1. Reversible(d) => Reversible(d)'
      BY <1>1, <1>2, Frame DEF driver
    <3>2. StagedAt(d) => StagedAt(d)'
      BY <1>1, <1>2, Frame DEF driver, StagedAt
    <3> QED
      BY <3>1, <3>2
  <2> QED
    BY <1>1, <1>2, <2>1 DEF Inv, ChannelInv
<1> QED
  BY <1>2, <1>3, <1>4 DEF Inv

\* Every step keeps the invariant.
LEMMA StepHolds == Inv /\ [ReloadNext]_reloadVars => Inv'
<1> SUFFICES ASSUME Inv, [ReloadNext]_reloadVars
             PROVE  Inv'
  OBVIOUS
<1>1. CASE \E c \in ChannelIds : Reserve(c) \/ Start(c) \/ Quiesce(c) \/ Destroy(c)
  BY <1>1, ReserveStep, StartStep, QuiesceStep, DestroyStep
<1>2. CASE \E c \in ChannelIds : WorkerEnds(c) \/ Callbacks(c)
  BY <1>2, WorkerEndsStep, CallbacksStep
<1>3. CASE \E configuration \in Configurations : Begin(configuration)
  BY <1>3, BeginStep
<1>4. CASE FinishPhase
  <2>1. phase \in {"commit", "abort"}
    BY <1>4 DEF FinishPhase
  <2> QED
    BY <1>4, <2>1, CommitPhaseStep, AbortPhaseStep
<1>5. CASE Coordinator /\ ~FinishPhase
  BY <1>5, PreparePhaseStep, LinkPrepareStep, ActivatePhaseStep,
     DriverCommitStep, DeadlineStep, ReloadSucceedsStep, ReloadFailsStep
     DEF Coordinator
<1>6. CASE UNCHANGED reloadVars
  BY <1>6, StutterStep
<1> QED
  BY <1>1, <1>2, <1>3, <1>4, <1>5, <1>6 DEF ReloadNext

(* Where each channel stands in the transaction: it can go back to what is *)
(* published until the driver commits, and the coordinator's index divides *)
(* the channels by what its phase has done to them.                        *)
THEOREM ReloadInvariant == ReloadSpec => []Inv
<1> QED
  BY InitHolds, StepHolds, PTL DEF ReloadSpec

(* What a reload given up at its deadline still prepares, or has published *)
(* to the callbacks, is never what a later reload activates                *)
(* (channel_reload_prepare, channel_reload_finish).                        *)
THEOREM AbandonedWorkNeverUsed == ReloadSpec => []AbandonedWorkUnused
<1>1. ASSUME Inv PROVE AbandonedWorkUnused
  <2> SUFFICES ASSUME NEW c \in ChannelIds, alive[c]
               PROVE  /\ phase = "prepare" /\ reload[c].kind # "none" =>
                            \/ reload[c].setting = candidate[c]
                            \/ reload[c].kind = "preparing" /\ reload[c].cancelled
                      /\ phase = "activate" =>
                            /\ reload[c].kind # "preparing"
                            /\ reload[c].kind # "none" => reload[c].setting = candidate[c]
                            /\ update[c].state # "none" => update[c].target = candidate[c]
    BY DEF AbandonedWorkUnused
  <2>1. Consistent(c) /\ StagedAt(c) /\ index \in Nat /\ c \in Nat /\ NoUpdate.state = "none"
    BY <1>1, BootFacts, NAssumption DEF Inv, ChannelInv, CoordinatorTyped, ChannelIds
  <2>2. phase = "prepare" => Ready(c) \/ Unprepared(c) \/ Preparing(c)
    BY <2>1 DEF StagedAt
  <2>3. phase = "activate" => Ready(c) \/ Activating(c) \/ Activated(c, candidate[c])
    BY <2>1 DEF StagedAt
  <2> QED
    BY <2>1, <2>2, <2>3 DEF Consistent, Ready, Unprepared, Preparing, Activating, Activated
<1> QED
  BY <1>1, ReloadInvariant, PTL

(* Between reloads a channel without a rollback marker runs what is        *)
(* published, and a successful reload leaves no marker, update, mixer hold *)
(* or preparation behind.                                                  *)
THEOREM ReloadsLeaveChannelsSettled == ReloadSpec => []ReloadSettled
<1>1. ASSUME Inv PROVE ReloadSettled
  <2>1. UnmarkedRunsPublished
    BY <1>1, CoordinatorFacts DEF UnmarkedRunsPublished, Idle, Reversible, Runs
  <2>2. SuccessIsComplete
    BY <1>1, CoordinatorFacts DEF SuccessIsComplete, Idle, Inv, Settled, Consistent
  <2> QED
    BY <2>1, <2>2 DEF ReloadSettled
<1> QED
  BY <1>1, ReloadInvariant, PTL

(* driver_reload_finish(true) publishes a configuration only when every    *)
(* live channel runs it, and every channel that ran still runs.            *)
THEOREM CommitIsUnanimous == ReloadSpec => CommitNeedsEveryChannel
<1> DEFINE Unanimous ==
      published' # published =>
          \A c \in ChannelIds : (alive[c] /\ station[c].kind # "empty") =>
              /\ station[c].setting = published'[c]
              /\ jitter[c] = published'[c]
              /\ rollback[c].resume => running[c] /\ station[c].on
<1>1. ASSUME Inv, [ReloadNext]_reloadVars PROVE [Unanimous]_reloadVars
  <2>1. CASE DriverCommit
    BY <1>1, <2>1, DriverCommitStep DEF Activated, Runs
  <2>2. CASE ~DriverCommit
    <3>1. UNCHANGED published
      BY <1>1, <2>2
      DEF ReloadNext, Reserve, Start, Quiesce, Destroy, WorkerEnds, Callbacks, Begin,
          Coordinator, PreparePhase, LinkPrepare, ActivatePhase, FinishPhase,
          Deadline, ReloadSucceeds, ReloadFails, reloadVars, driver
    <3> QED
      BY <3>1
  <2> QED
    BY <2>1, <2>2
<1>2. Inv /\ [ReloadNext]_reloadVars => [Unanimous]_reloadVars
  BY <1>1
<1> QED
  BY <1>2, ReloadInvariant, PTL DEF ReloadSpec, CommitNeedsEveryChannel

(* Every variable stays within the values the code gives it.               *)
THEOREM ReloadTypes == ReloadSpec => []ReloadTypeOK
<1>1. ASSUME Inv PROVE ReloadTypeOK
  <2>1. published \in Configurations /\ candidate \in Configurations \cup {NoCandidate}
    BY <1>1, CoordinatorFacts
    DEF Typed, CoordinatorTyped, Configurations, Values
  <2>2. ASSUME NEW c \in ChannelIds
        PROVE  /\ station[c].kind \in {"empty", "media", "hardware"}
               /\ reload[c].kind \in {"none", "unchanged", "preparing", "live",
                                      "replacement"}
               /\ rollback[c].kind \in {"none", "unchanged", "live", "restoring",
                                        "prepared", "hardware"}
               /\ update[c].state \in {"none", "pending", "adopted", "refused",
                                       "reversing", "reversed"}
    BY <1>1, CoordinatorFacts DEF Typed, Stations, Reloads, Rollbacks, Updates
  <2> QED
    BY <1>1, <2>1, <2>2, CoordinatorFacts DEF ReloadTypeOK, CoordinatorTyped, Consistent
<1> QED
  BY <1>1, ReloadInvariant, PTL

-----------------------------------------------------------------------------
(* The tuning tool: its records *)

\* A session is a function on the names of its fields, and so is a service.
SessionFields ==
    {"at", "job", "selected", "saved", "restart_changed", "origin", "from", "to", "mode",
     "back", "temp", "attempt", "best", "tone", "adjust", "failed", "told", "fatal"}

IsSession(s) == s = [f \in SessionFields |-> s[f]]

ServiceFields == {"running", "mixer", "keyed", "toned", "configured", "active", "link"}

IsService(s) == s = [f \in ServiceFields |-> s[f]]

\* A session that differs from another in some fields only.
Differs(n, s, fields) ==
    IsSession(n) /\ \A f \in SessionFields \ fields : n[f] = s[f]

\* A service that runs the same and has its mixer where it was.
RunsOn(n, s) == IsService(n) /\ n.running = s.running /\ n.mixer = s.mixer

-----------------------------------------------------------------------------
(* The invariant *)

Files == Contents \cup {NoFile}

Chain == {"write", "rename", "sync", "apply"}

\* Where an operation has not written yet, and a gain calibration between two
\* of its writes.
EarlyPlaces ==
    {"tone on", "key", "hold", "prompt", "burst unkey", "burst quiet", "pause", "mixer",
     "observe", "best mixer", "noise level", "candidate", "measure"}

LatePlaces == {"menu", "unkey", "tone off", "reselect"}

Places == Chain \cup EarlyPlaces \cup LatePlaces \cup {"none", "ended"}

\* In every part not in doubt, the service runs this content.
InLine(runs, content, doubtful) ==
    \A part \in AllParts : part \in doubtful \/ runs[part] = content[part]

SameBoot(a, b, doubtful) == a.boot = b.boot \/ "boot" \in doubtful

\* What a write is for decides what it may change: only a restart, or the
\* standalone service, takes up another boot part.
JobInv(s, doubtful, asterisk) ==
    /\ s.job \in {"edit", "swap", "discard", "finish", "gain", "noise", "restore"}
    /\ asterisk /\ s.mode = "reload" => SameBoot(s.from, s.to, doubtful)
    /\ s.job \in {"gain", "noise", "restore"} => s.mode = "reload"
    /\ s.mode \in {"reload", "restart"}
    /\ s.job \in {"discard", "finish"} => s.to = s.saved
    /\ s.job \in {"gain", "restore"} =>
          s.origin.boot = s.from.boot /\ s.to.boot = s.from.boot
    /\ s.job = "restore" => s.to = s.origin
    /\ s.job \in {"edit", "swap", "discard", "finish", "noise"} => s.from = s.origin
    /\ s.job = "gain" => ~s.failed

\* Before the rename the service runs what the file says, after it what it said
\* before; on the way back, what the failed attempt cannot have changed.
WriteInv(s, file, runs, doubtful, asterisk) ==
    /\ JobInv(s, doubtful, asterisk)
    /\ s.at = "rename" => s.temp = "synced"
    /\ s.at \in {"write", "rename"} /\ ~s.back =>
          /\ InLine(runs, file, doubtful)
          /\ file # s.from => s.told /\ AllParts \subseteq doubtful
          /\ asterisk /\ ~s.restart_changed => SameBoot(s.saved, file, doubtful)
    /\ s.at \in {"sync", "apply"} /\ ~s.back =>
          file = s.to /\ InLine(runs, s.from, doubtful)
    /\ s.back =>
          /\ file = IF s.at \in {"sync", "apply"} THEN s.from ELSE s.to
          /\ asterisk /\ s.mode = "reload" => SameBoot(runs, s.from, doubtful)
    /\ (s.at \in {"sync", "apply"} \/ s.back) /\ asterisk /\ ~s.restart_changed =>
          SameBoot(s.saved, s.from, doubtful)

\* A session at a place where it may be, with file and service as they are.
Sound(s, file, runs, doubtful, asterisk) ==
    /\ IsSession(s) /\ s.at \in Places
    /\ s.saved \in Contents /\ s.origin \in Contents /\ s.from \in Contents /\ s.to \in Contents
    /\ s.at \notin Chain /\ file # NoFile => InLine(runs, file, doubtful)
    /\ s.at \in EarlyPlaces =>
          /\ file = s.from /\ s.from.boot = s.origin.boot
          /\ IF s.at \in {"candidate", "measure"} THEN ~s.failed ELSE s.from = s.origin
    /\ s.at \in LatePlaces /\ s.failed /\ ~s.told => file = s.origin
    /\ s.at \in EarlyPlaces \cup LatePlaces /\ asterisk /\ ~s.restart_changed =>
          SameBoot(s.saved, file, doubtful)
    /\ s.at \in Chain => WriteInv(s, file, runs, doubtful, asterisk)

SessionSound ==
    Sound(session, disk.file, service.running, doubt, backend = "asterisk")

OwnerInv ==
    /\ lock \in Tools \cup {NoTool}
    /\ tools \in [Tools -> {"off", "creating", "ready", "linked", "session"}]
    /\ session.at # "none" <=> lock # NoTool
    /\ \A t \in Tools : tools[t] = "session" <=> lock = t
    /\ \A t \in Tools : tools[t] \in {"ready", "linked", "session"} => disk.file # NoFile

FileInv ==
    /\ disk = [file |-> disk.file, durable |-> disk.durable]
    /\ disk.file \in Files /\ acked \in Files /\ unacked \subseteq Contents
    /\ AcknowledgedFileKept

ServiceInv ==
    /\ backend \in {"asterisk", "standalone"}
    /\ IsService(service) /\ service.running \in Contents
    /\ "mixer" \in doubt \/ service.mixer = "file"
    /\ disk.file = NoFile => service.mixer = "file"

TunerInv == OwnerInv /\ FileInv /\ ServiceInv /\ SessionSound

-----------------------------------------------------------------------------
(* Sessions and services *)

\* The session before the first menu.
LEMMA NoSessionFields ==
    IsSession(NoSession) /\ NoSession.at = "none"
BY DEF NoSession, IsSession, SessionFields

\* Going to the menu forgets the operation, except what became of it.
LEMMA MenuFields ==
    ASSUME NEW s, IsSession(s)
    PROVE  LET n == AtMenu(s)
           IN  /\ IsSession(n) /\ n.at = "menu" /\ n.saved = s.saved
               /\ n.restart_changed = s.restart_changed /\ n.failed = s.failed
               /\ n.told = s.told /\ n.from = Sample /\ n.to = Sample
               /\ s.failed => n.origin = s.origin
               /\ ~s.failed => n.origin = Sample
<1>1. IsSession(NoSession) /\ NoSession.from = Sample /\ NoSession.to = Sample
      /\ NoSession.origin = Sample
  BY DEF NoSession, IsSession, SessionFields
<1>2. LET n == AtMenu(s)
      IN  /\ IsSession(n) /\ n.at = "menu" /\ n.saved = s.saved
          /\ n.restart_changed = s.restart_changed /\ n.failed = s.failed
          /\ n.told = s.told
  BY <1>1 DEF AtMenu, IsSession, SessionFields
<1>3. AtMenu(s).from = Sample /\ AtMenu(s).to = Sample
  BY <1>1 DEF AtMenu, IsSession, SessionFields
<1>4. s.failed => AtMenu(s).origin = s.origin
  BY <1>1 DEF AtMenu, IsSession, SessionFields
<1>5. ~s.failed => AtMenu(s).origin = Sample
  BY <1>1 DEF AtMenu, IsSession, SessionFields
<1> QED BY <1>2, <1>3, <1>4, <1>5

\* At the end of a session nothing of it is left.
LEMMA EndFields ==
    IsSession(AtEnd) /\ AtEnd.at = "ended" /\ AtEnd.saved = Sample /\ AtEnd.origin = Sample
    /\ AtEnd.from = Sample /\ AtEnd.to = Sample
BY DEF NoSession, AtEnd, IsSession, SessionFields

\* A move to another place changes nothing else.
LEMMA MoveFields ==
    ASSUME NEW s, IsSession(s), NEW p
    PROVE  [s EXCEPT !.at = p].at = p /\ Differs([s EXCEPT !.at = p], s, {"at"})
BY DEF Differs, IsSession, SessionFields

\* What starting a write sets.
LEMMA WriteFields ==
    ASSUME NEW s, IsSession(s), NEW job, NEW content, NEW mode
    PROVE  LET n == Write(s, job, content, mode)
           IN  /\ n.at = "write" /\ n.job = job /\ n.to = content /\ n.mode = mode /\ ~n.back
               /\ Differs(n, s, {"at", "job", "to", "mode", "back"})
BY DEF Write, Differs, IsSession, SessionFields

\* What starting an operation sets.
LEMMA ChosenFields ==
    ASSUME IsSession(session), NEW job
    PROVE  LET n == Chosen(job)
           IN  /\ n.origin = disk.file /\ n.from = disk.file /\ n.job = job /\ ~n.failed
               /\ ~n.told /\ ~n.adjust /\ ~n.tone
               /\ Differs(n, session, {"origin", "from", "job", "attempt", "best", "adjust",
                                       "tone", "failed", "told", "fatal"})
BY DEF Chosen, Differs, IsSession, SessionFields

\* Calls that key, release or disconnect leave what runs alone.
LEMMA ServiceFacts ==
    ASSUME NEW s, IsService(s)
    PROVE  /\ RunsOn(Silent(s), s) /\ RunsOn(Dropped(s), s) /\ RunsOn(Released(s), s)
           /\ RunsOn(Opened(s), s)
           /\ \A on \in BOOLEAN : RunsOn(Keyed(s, on), s) /\ RunsOn(Toned(s, on), s)
           /\ \A r : RunsOn([s EXCEPT !.active = r], s)
BY DEF RunsOn, IsService, ServiceFields, Silent, Dropped, Released, Opened, Keyed, Toned

-----------------------------------------------------------------------------
(* Where a session may go *)

\* What every place outside a chain of writes asks for.
Settling(s, file, runs, doubtful, asterisk) ==
    /\ IsSession(s)
    /\ s.saved \in Contents /\ s.origin \in Contents /\ s.from \in Contents /\ s.to \in Contents
    /\ InLine(runs, file, doubtful)
    /\ asterisk /\ ~s.restart_changed => SameBoot(s.saved, file, doubtful)

\* A session that is there and where it may be.
Goes(s, file, runs, doubtful, asterisk) ==
    Sound(s, file, runs, doubtful, asterisk) /\ s.at # "none"

Kept(s, file) == s.failed /\ ~s.told => file = s.origin

\* NoFile and Torn are not contents a tool writes.
LEMMA SampleFits == Sample \in Contents /\ NoFile \notin Contents /\ Torn \notin Contents
                    /\ Torn # NoFile
BY DEF Sample, NoFile, Torn, Contents

\* A clean-up place keeps what the operation came to.
LEMMA LateFits ==
    ASSUME NEW s, NEW file, NEW runs, NEW doubtful, NEW asterisk,
           Settling(s, file, runs, doubtful, asterisk), Kept(s, file),
           s.at \in LatePlaces \cup {"ended"}
    PROVE  Goes(s, file, runs, doubtful, asterisk)
BY DEF Goes, Sound, Settling, Kept, LatePlaces, EarlyPlaces, Chain, Places

\* The menu takes up any settled session; the end asks for nothing.
LEMMA MenuFits ==
    ASSUME NEW s, NEW file, NEW runs, NEW doubtful, NEW asterisk,
           Settling(s, file, runs, doubtful, asterisk), Kept(s, file)
    PROVE  /\ Goes(AtMenu(s), file, runs, doubtful, asterisk)
           /\ Goes(AtEnd, file, runs, doubtful, asterisk)
           /\ Goes(Over(s), file, runs, doubtful, asterisk)
<1> DEFINE n == AtMenu(s)
<1>0. IsSession(s)  BY DEF Settling
<1>1. /\ IsSession(n) /\ n.at = "menu" /\ n.saved = s.saved
      /\ n.restart_changed = s.restart_changed /\ n.failed = s.failed
      /\ n.told = s.told /\ n.from = Sample /\ n.to = Sample
      /\ s.failed => n.origin = s.origin
      /\ ~s.failed => n.origin = Sample
  BY <1>0, MenuFields
<1> HIDE DEF n
<1>2. n.at \in LatePlaces /\ Kept(n, file)
  BY <1>1 DEF LatePlaces, Kept
<1>3. Settling(n, file, runs, doubtful, asterisk)
  BY <1>1, SampleFits DEF Settling
<1>4. Goes(n, file, runs, doubtful, asterisk)
  BY <1>2, <1>3, LateFits
<1>5. Goes(AtEnd, file, runs, doubtful, asterisk)
  BY EndFields, SampleFits DEF Goes, Sound, Settling, LatePlaces, EarlyPlaces, Chain, Places
<1> QED BY <1>4, <1>5 DEF n, Over

\* A session that moves without writing keeps its configurations.
LEMMA MovesSettling ==
    ASSUME NEW s, NEW n, NEW file, NEW runs, NEW doubtful, NEW asterisk,
           Settling(s, file, runs, doubtful, asterisk),
           Differs(n, s, {"at", "job", "failed", "told", "fatal", "back", "attempt", "best",
                          "adjust", "tone", "selected", "temp", "mode"})
    PROVE  Settling(n, file, runs, doubtful, asterisk)
<1>1. n["saved"] = s["saved"] /\ n["origin"] = s["origin"] /\ n["from"] = s["from"]
      /\ n["to"] = s["to"] /\ n["restart_changed"] = s["restart_changed"] /\ IsSession(n)
  BY DEF Differs, SessionFields
<1> QED BY <1>1 DEF Settling

\* A new write starts from the file.
LEMMA WriteFits ==
    ASSUME NEW s, NEW file, NEW runs, NEW doubtful, NEW asterisk,
           Settling(s, file, runs, doubtful, asterisk),
           NEW job, NEW content \in Contents, NEW mode,
           JobInv(Write(s, job, content, mode), doubtful, asterisk),
           file # s.from => s.told /\ AllParts \subseteq doubtful
    PROVE  Goes(Write(s, job, content, mode), file, runs, doubtful, asterisk)
<1> DEFINE n == Write(s, job, content, mode)
<1>0. IsSession(s)  BY DEF Settling
<1>1. /\ n.at = "write" /\ n.to = content /\ ~n.back
      /\ Differs(n, s, {"at", "job", "to", "mode", "back"})
  BY <1>0, WriteFields
<1> HIDE DEF n
<1>2. n["saved"] = s["saved"] /\ n["origin"] = s["origin"] /\ n["from"] = s["from"]
      /\ n["restart_changed"] = s["restart_changed"] /\ n["told"] = s["told"] /\ IsSession(n)
  BY <1>1 DEF Differs, SessionFields
<1>3. WriteInv(n, file, runs, doubtful, asterisk)
  BY <1>1, <1>2 DEF WriteInv, Settling, n
<1> QED BY <1>1, <1>2, <1>3 DEF Goes, Sound, Settling, LatePlaces, EarlyPlaces, Chain, Places, n

\* Doubt excuses; more doubt excuses more.
LEMMA DoubtExcuses ==
    ASSUME NEW s, NEW file, NEW runs, NEW doubtful, NEW more, NEW asterisk,
           Sound(s, file, runs, doubtful, asterisk), doubtful \subseteq more
    PROVE  Sound(s, file, runs, more, asterisk)
<1>1. /\ \A c : InLine(runs, c, doubtful) => InLine(runs, c, more)
      /\ \A a, b : SameBoot(a, b, doubtful) => SameBoot(a, b, more)
      /\ JobInv(s, doubtful, asterisk) => JobInv(s, more, asterisk)
      /\ AllParts \subseteq doubtful => AllParts \subseteq more
  BY DEF InLine, SameBoot, JobInv
<1>2. WriteInv(s, file, runs, doubtful, asterisk) => WriteInv(s, file, runs, more, asterisk)
  BY <1>1 DEF WriteInv
<1> QED BY <1>1, <1>2 DEF Sound

-----------------------------------------------------------------------------
(* What becomes of an operation *)

\* An operation with the file as it leaves it.
Finishing(s, ok, file, doubtful, asterisk) ==
    /\ JobInv(s, doubtful, asterisk)
    /\ ok => file = s.to
    /\ ~ok /\ ~s.told => file = s.from
    /\ ~ok /\ file # s.from => AllParts \subseteq doubtful
    /\ asterisk /\ ~s.restart_changed /\ (ok => s.mode = "reload") =>
          SameBoot(s.saved, file, doubtful)

\* After an edit made with the transmitter keyed the clean-up follows.
LEMMA AfterEditFits ==
    ASSUME NEW s, NEW file, NEW runs, NEW doubtful, NEW asterisk,
           Settling(s, file, runs, doubtful, asterisk), Kept(s, file)
    PROVE  Goes(AfterEdit(s), file, runs, doubtful, asterisk)
<1> DEFINE n == [s EXCEPT !.at = "unkey"]
<1>0. IsSession(s)  BY DEF Settling
<1>1. n.at = "unkey" /\ Differs(n, s, {"at"})
  BY <1>0, MoveFields
<1> HIDE DEF n
<1>2. n["failed"] = s["failed"] /\ n["told"] = s["told"] /\ n["origin"] = s["origin"]
  BY <1>1 DEF Differs, SessionFields
<1>3. Settling(n, file, runs, doubtful, asterisk)
  <2>1. Differs(n, s, {"at", "job", "failed", "told", "fatal", "back", "attempt", "best",
                       "adjust", "tone", "selected", "temp", "mode"})
    BY <1>1 DEF Differs
  <2> QED BY <2>1, MovesSettling
<1>4. Goes(n, file, runs, doubtful, asterisk)
  BY <1>1, <1>2, <1>3, LateFits DEF Kept, LatePlaces
<1> QED BY <1>4, MenuFits DEF AfterEdit, n

\* A calibration that fails goes back to the file it found.
LEMMA RestoreFits ==
    ASSUME NEW s, NEW file, NEW runs, NEW doubtful, NEW asterisk,
           Settling(s, file, runs, doubtful, asterisk),
           s.origin.boot = s.from.boot,
           ~s.told => file = s.from,
           file # s.from => AllParts \subseteq doubtful
    PROVE  Goes(Restore(s), file, runs, doubtful, asterisk)
<1>0. IsSession(s) /\ s.origin \in Contents  BY DEF Settling
<1>1. CASE s.from = s.origin
  <2> DEFINE n == [s EXCEPT !.failed = TRUE]
  <2>1. /\ n.failed = TRUE /\ n["told"] = s["told"] /\ n["origin"] = s["origin"]
        /\ Differs(n, s, {"failed"})
    BY <1>0 DEF Differs, IsSession, SessionFields
  <2>2. AtMenu(n) = Restore(s)
    BY <1>1 DEF Restore
  <2> HIDE DEF n
  <2>3. Settling(n, file, runs, doubtful, asterisk)
    <3>1. Differs(n, s, {"at", "job", "failed", "told", "fatal", "back", "attempt", "best",
                         "adjust", "tone", "selected", "temp", "mode"})
      BY <2>1 DEF Differs
    <3> QED BY <3>1, MovesSettling
  <2> QED BY <1>1, <2>1, <2>2, <2>3, MenuFits DEF Kept
<1>2. CASE s.from # s.origin
  <2> DEFINE n == Write(s, "restore", s.origin, "reload")
  <2>1. n = Restore(s)
    BY <1>2 DEF Restore
  <2>2. /\ n.at = "write" /\ n.job = "restore" /\ n.to = s.origin /\ n.mode = "reload" /\ ~n.back
        /\ Differs(n, s, {"at", "job", "to", "mode", "back"})
    BY <1>0, WriteFields
  <2> HIDE DEF n
  <2>3. n["origin"] = s["origin"] /\ n["from"] = s["from"]
    BY <2>2 DEF Differs, SessionFields
  <2>4. JobInv(n, doubtful, asterisk)
    BY <2>2, <2>3 DEF JobInv, SameBoot
  <2> QED BY <1>0, <2>1, <2>4, WriteFits DEF n
<1> QED BY <1>1, <1>2

\* Fields of a session whose outcome is noted.
LEMMA NotedFields ==
    ASSUME NEW s, IsSession(s), NEW failed, NEW told, NEW changed, NEW fatal
    PROVE  /\ [s EXCEPT !.failed = failed].failed = failed
           /\ Differs([s EXCEPT !.failed = failed], s, {"failed"})
           /\ [s EXCEPT !.told = told].told = told
           /\ Differs([s EXCEPT !.told = told], s, {"told"})
           /\ [s EXCEPT !.restart_changed = changed].restart_changed = changed
           /\ Differs([s EXCEPT !.restart_changed = changed], s, {"restart_changed"})
           /\ [s EXCEPT !.fatal = fatal].fatal = fatal
           /\ Differs([s EXCEPT !.fatal = fatal], s, {"fatal"})
BY DEF Differs, IsSession, SessionFields

\* What settling an operation leaves may stand: the file is what it succeeded
\* in writing or the one it found, or the operator is told.
LEMMA SettleFits ==
    ASSUME NEW s, NEW file \in Contents, NEW runs, NEW doubtful, NEW asterisk, NEW ok \in BOOLEAN,
           IsSession(s), s.saved \in Contents, s.origin \in Contents, s.from \in Contents,
           s.to \in Contents, InLine(runs, file, doubtful),
           Finishing(s, ok, file, doubtful, asterisk)
    PROVE  Goes(Settle(s, ok), file, runs, doubtful, asterisk)
<1> DEFINE done == [s EXCEPT !.failed = ~ok]
           same == {"at", "job", "failed", "told", "fatal", "back", "attempt", "best",
                    "adjust", "tone", "selected", "temp", "mode"}
<1>1. done.failed = ~ok /\ Differs(done, s, {"failed"})
  BY NotedFields
<1>2. IsSession(done)
  BY <1>1 DEF Differs
<1>a. Differs([done EXCEPT !.at = "reselect"], done, {"at"})
  BY <1>2, MoveFields
<1>b. [done EXCEPT !.at = "reselect"].at = "reselect"
  BY <1>2, MoveFields
<1>c. [done EXCEPT !.at = "reselect", !.restart_changed = TRUE]
        = [[done EXCEPT !.at = "reselect"] EXCEPT !.restart_changed = TRUE]
  BY <1>2 DEF IsSession, SessionFields
<1> HIDE DEF done
<1>3. /\ done["saved"] = s["saved"] /\ done["origin"] = s["origin"] /\ done["from"] = s["from"]
      /\ done["to"] = s["to"] /\ done["told"] = s["told"]
      /\ done["restart_changed"] = s["restart_changed"]
  BY <1>1 DEF Differs, SessionFields
<1>4. CASE s.job = "edit"
  <2> DEFINE n == [done EXCEPT !.restart_changed = RestartChanged(s, ok)]
  <2>1. n.restart_changed = RestartChanged(s, ok) /\ Differs(n, done, {"restart_changed"})
    BY <1>2, NotedFields
  <2>2. Settle(s, ok) = AfterEdit(n)
    BY <1>4 DEF Settle, done
  <2> HIDE DEF n
  <2>3. /\ n["saved"] = s["saved"] /\ n["origin"] = s["origin"] /\ n["from"] = s["from"]
        /\ n["to"] = s["to"] /\ n["told"] = s["told"] /\ IsSession(n)
        /\ n["failed"] = done["failed"]
    BY <1>3, <2>1 DEF Differs, SessionFields
  <2>4. Settling(n, file, runs, doubtful, asterisk)
    BY <2>1, <2>3 DEF Settling, Finishing, JobInv, RestartChanged
  <2>5. Kept(n, file)
    BY <1>1, <1>4, <2>3 DEF Kept, Finishing, JobInv
  <2> QED BY <2>2, <2>4, <2>5, AfterEditFits
<1>5. CASE s.job = "swap"
  <2>1. CASE ok
    <3> DEFINE moved == [done EXCEPT !.at = "reselect"]
               n == [moved EXCEPT !.restart_changed = TRUE]
    <3>1. IsSession(moved)
      BY <1>a DEF Differs
    <3>2. n.restart_changed = TRUE /\ Differs(n, moved, {"restart_changed"})
      BY <3>1, NotedFields
    <3>3. Settle(s, ok) = n
      BY <1>5, <1>c, <2>1 DEF Settle, done
    <3> HIDE DEF n
    <3>4. /\ n["saved"] = s["saved"] /\ n["origin"] = s["origin"] /\ n["from"] = s["from"]
          /\ n["to"] = s["to"] /\ n["told"] = s["told"] /\ IsSession(n)
          /\ n["failed"] = done["failed"] /\ n["at"] = moved["at"]
      BY <1>3, <1>a, <3>2 DEF Differs, SessionFields
    <3>5. Settling(n, file, runs, doubtful, asterisk)
      BY <3>2, <3>4 DEF Settling
    <3>6. Kept(n, file) /\ n.at \in LatePlaces
      BY <1>1, <1>b, <2>1, <3>4 DEF Kept, LatePlaces
    <3> QED BY <3>3, <3>5, <3>6, LateFits
  <2>2. CASE ~ok
    <3>1. Settle(s, ok) = AtMenu(done)
      BY <1>5, <2>2 DEF Settle, done
    <3>2. Settling(done, file, runs, doubtful, asterisk) /\ Kept(done, file)
      BY <1>2, <1>3, <1>5, <2>2 DEF Settling, Kept, Finishing, JobInv
    <3> QED BY <3>1, <3>2, MenuFits
  <2> QED BY <2>1, <2>2
<1>6. CASE s.job = "discard"
  <2> DEFINE n == [done EXCEPT !.restart_changed = done.restart_changed /\ ~ok]
  <2>1. /\ n.restart_changed = (done.restart_changed /\ ~ok)
        /\ Differs(n, done, {"restart_changed"})
    BY <1>2, NotedFields
  <2>2. Settle(s, ok) = AtMenu(n)
    BY <1>6 DEF Settle, done
  <2> HIDE DEF n
  <2>3. /\ n["saved"] = s["saved"] /\ n["origin"] = s["origin"] /\ n["from"] = s["from"]
        /\ n["to"] = s["to"] /\ n["told"] = s["told"] /\ IsSession(n)
        /\ n["failed"] = done["failed"]
    BY <1>3, <2>1 DEF Differs, SessionFields
  <2>4. Settling(n, file, runs, doubtful, asterisk)
    BY <1>3, <1>6, <2>1, <2>3 DEF Settling, Finishing, JobInv, SameBoot
  <2>5. Kept(n, file)
    BY <1>1, <1>6, <2>3 DEF Kept, Finishing, JobInv
  <2> QED BY <2>2, <2>4, <2>5, MenuFits
<1>7. CASE s.job = "finish"
  <2>1. CASE ok
    <3>1. Settle(s, ok) = AtEnd
      BY <1>7, <2>1 DEF Settle
    <3> QED BY <3>1, EndFields, SampleFits DEF Goes, Sound, LatePlaces, EarlyPlaces, Chain, Places
  <2>2. CASE ~ok
    <3>1. Settle(s, ok) = AtMenu(done)
      BY <1>7, <2>2 DEF Settle, done
    <3>2. Settling(done, file, runs, doubtful, asterisk) /\ Kept(done, file)
      BY <1>2, <1>3, <1>7, <2>2 DEF Settling, Kept, Finishing, JobInv
    <3> QED BY <3>1, <3>2, MenuFits
  <2> QED BY <2>1, <2>2
<1>8. CASE s.job = "gain"
  <2>1. CASE ok
    <3> DEFINE n == [s EXCEPT !.at = "measure", !.from = s.to]
    <3>1. n.at = "measure" /\ n.from = s.to /\ Differs(n, s, {"at", "from"})
      BY DEF Differs, IsSession, SessionFields
    <3>2. Settle(s, ok) = n
      BY <1>8, <2>1 DEF Settle
    <3> HIDE DEF n
    <3>3. /\ n["saved"] = s["saved"] /\ n["origin"] = s["origin"] /\ n["to"] = s["to"]
          /\ n["restart_changed"] = s["restart_changed"] /\ n["failed"] = s["failed"]
          /\ IsSession(n)
      BY <3>1 DEF Differs, SessionFields
    <3> QED BY <1>8, <2>1, <3>1, <3>2, <3>3
            DEF Goes, Sound, Finishing, JobInv, EarlyPlaces, LatePlaces, Chain, Places
  <2>2. CASE ~ok
    <3>1. Settle(s, ok) = Restore(s)
      BY <1>8, <2>2 DEF Settle
    <3>2. Settling(s, file, runs, doubtful, asterisk)
      BY <2>2 DEF Settling, Finishing
    <3> QED BY <1>8, <2>2, <3>1, <3>2, RestoreFits DEF Finishing, JobInv
  <2> QED BY <2>1, <2>2
<1>9. CASE s.job = "restore"
  <2> DEFINE bad == [s EXCEPT !.failed = TRUE]
             told == s.told \/ ~ok
             n == [bad EXCEPT !.told = told]
  <2>1. bad.failed = TRUE /\ Differs(bad, s, {"failed"})
    BY NotedFields
  <2>2. IsSession(bad)
    BY <2>1 DEF Differs
  <2> HIDE DEF told
  <2>3. n.told = told /\ Differs(n, bad, {"told"})
    BY <2>2, NotedFields
  <2>4. n = [s EXCEPT !.failed = TRUE, !.told = @ \/ ~ok]
    BY DEF IsSession, SessionFields, told
  <2>5. Settle(s, ok) = AtMenu(n)
    BY <1>9, <2>4 DEF Settle
  <2> HIDE DEF n, bad
  <2>6. /\ n["saved"] = s["saved"] /\ n["origin"] = s["origin"] /\ n["from"] = s["from"]
        /\ n["to"] = s["to"] /\ n["restart_changed"] = s["restart_changed"] /\ IsSession(n)
    BY <2>1, <2>3 DEF Differs, SessionFields
  <2>7. Settling(n, file, runs, doubtful, asterisk)
    BY <1>9, <2>6 DEF Settling, Finishing, JobInv
  <2>8. Kept(n, file)
    BY <1>9, <2>3, <2>6 DEF Kept, Finishing, JobInv, told
  <2> QED BY <2>5, <2>7, <2>8, MenuFits
<1>10. CASE s.job = "noise"
  <2>1. Settle(s, ok) = AtMenu(done)
    BY <1>10 DEF Settle, done
  <2>2. Settling(done, file, runs, doubtful, asterisk) /\ Kept(done, file)
    BY <1>1, <1>2, <1>3, <1>10 DEF Settling, Kept, Finishing, JobInv
  <2> QED BY <2>1, <2>2, MenuFits
<1> QED
  BY <1>4, <1>5, <1>6, <1>7, <1>8, <1>9, <1>10 DEF Finishing, JobInv

\* A write that fails, wherever it does, and the doubt it leaves.
LEMMA WriteFailedFits ==
    ASSUME NEW s, NEW file \in Contents, NEW runs, NEW doubtful, NEW more, NEW asterisk,
           Sound(s, file, runs, doubtful, asterisk), s.at \in {"write", "rename", "sync"},
           doubtful \subseteq more, s.back \/ s.at = "sync" => AllParts \subseteq more
    PROVE  Goes(WriteFailed(s), file, runs, more, asterisk)
<1> DEFINE broken == [s EXCEPT !.told = TRUE]
<1>1. /\ IsSession(s) /\ s.saved \in Contents /\ s.origin \in Contents /\ s.from \in Contents
      /\ s.to \in Contents /\ WriteInv(s, file, runs, more, asterisk)
  BY DoubtExcuses DEF Sound, Chain
<1>2. broken.told = TRUE /\ Differs(broken, s, {"told"})
  BY <1>1, NotedFields
<1>c. [s EXCEPT !.told = TRUE, !.fatal = TRUE, !.failed = TRUE]
        = [[broken EXCEPT !.fatal = TRUE] EXCEPT !.failed = TRUE]
  BY <1>1 DEF IsSession, SessionFields
<1>f. WriteFailed(s) = IF s.back \/ s.job \in {"gain", "noise", "restore"}
                       THEN Settle(broken, FALSE)
                       ELSE AfterEdit([[broken EXCEPT !.fatal = TRUE] EXCEPT !.failed = TRUE])
  <2>1. broken["back"] = s["back"] /\ broken["job"] = s["job"]
    BY <1>2 DEF Differs, SessionFields
  <2>2. [broken EXCEPT !.fatal = TRUE, !.failed = TRUE]
          = [[broken EXCEPT !.fatal = TRUE] EXCEPT !.failed = TRUE]
    BY <1>2 DEF Differs, IsSession, SessionFields
  <2> QED BY <2>1, <2>2 DEF WriteFailed
<1> HIDE DEF broken
<1>3. /\ broken["saved"] = s["saved"] /\ broken["origin"] = s["origin"]
      /\ broken["from"] = s["from"] /\ broken["to"] = s["to"] /\ broken["job"] = s["job"]
      /\ broken["mode"] = s["mode"] /\ broken["restart_changed"] = s["restart_changed"]
      /\ broken["failed"] = s["failed"] /\ IsSession(broken)
  BY <1>2 DEF Differs, SessionFields
<1>4. AllParts \subseteq more => \A c, b : InLine(runs, c, more) /\ SameBoot(c, b, more)
  BY DEF InLine, SameBoot, AllParts
<1>5. /\ InLine(runs, file, more) /\ JobInv(broken, more, asterisk)
      /\ file # s.from => AllParts \subseteq more
      /\ asterisk /\ ~s.restart_changed => SameBoot(s.saved, file, more)
  <2>1. JobInv(broken, more, asterisk)
    BY <1>1, <1>3 DEF WriteInv, JobInv
  <2>2. CASE s.back \/ s.at = "sync"
    BY <1>4, <2>1, <2>2
  <2>3. CASE ~s.back /\ s.at \in {"write", "rename"}
    BY <1>1, <2>1, <2>3 DEF WriteInv
  <2> QED BY <2>2, <2>3
<1>6. Goes(Settle(broken, FALSE), file, runs, more, asterisk)
  <2>1. Finishing(broken, FALSE, file, more, asterisk)
    BY <1>2, <1>3, <1>5 DEF Finishing
  <2> QED BY <1>1, <1>3, <1>5, <2>1, SettleFits
<1>7. Goes(AfterEdit([[broken EXCEPT !.fatal = TRUE] EXCEPT !.failed = TRUE]), file, runs,
           more, asterisk)
  <2> DEFINE fatal == [broken EXCEPT !.fatal = TRUE]
             n == [fatal EXCEPT !.failed = TRUE]
  <2>1. Differs(fatal, broken, {"fatal"})
    BY <1>3, NotedFields
  <2>2. IsSession(fatal)
    BY <2>1 DEF Differs
  <2>3. Differs(n, fatal, {"failed"})
    BY <2>2, NotedFields
  <2> HIDE DEF n, fatal
  <2>4. /\ n["saved"] = s["saved"] /\ n["origin"] = s["origin"] /\ n["from"] = s["from"]
        /\ n["to"] = s["to"] /\ n["restart_changed"] = s["restart_changed"]
        /\ n["told"] = broken["told"] /\ IsSession(n)
    BY <1>3, <2>1, <2>3 DEF Differs, SessionFields
  <2>5. Settling(n, file, runs, more, asterisk) /\ Kept(n, file)
    BY <1>1, <1>2, <1>5, <2>4 DEF Settling, Kept
  <2>6. Goes(AfterEdit(n), file, runs, more, asterisk)
    BY <2>5, AfterEditFits
  <2> QED BY <2>6 DEF n, fatal
<1> QED BY <1>f, <1>6, <1>7

-----------------------------------------------------------------------------
(* What a call to the service may have done *)

\* A call leaves the service as it was or as it is after the call, connected
\* or not; only a call that took full effect can report that it worked.
LEMMA OutcomeFacts ==
    ASSUME NEW s, NEW after, IsService(s), IsService(after), NEW call \in Outcomes(s, after)
    PROVE  /\ RunsOn(call.service, s) \/ RunsOn(call.service, after)
           /\ call.ok \in BOOLEAN
           /\ call.ok => call.service = after
<1>1. /\ RunsOn(s, s) /\ RunsOn(after, after)
      /\ RunsOn(Dropped(s), s) /\ RunsOn(Dropped(after), after)
  BY ServiceFacts DEF RunsOn
<1>2. \/ call = [ok |-> TRUE, service |-> after]
      \/ \E v \in {s, after, Dropped(s), Dropped(after)} : call = [ok |-> FALSE, service |-> v]
  BY DEF Outcomes
<1>3. /\ call.service \in {s, after, Dropped(s), Dropped(after)} /\ call.ok \in BOOLEAN
      /\ call.ok => call.service = after
  <2>1. CASE call = [ok |-> TRUE, service |-> after]
    BY <2>1
  <2>2. CASE \E v \in {s, after, Dropped(s), Dropped(after)} : call = [ok |-> FALSE, service |-> v]
    <3>1. PICK v \in {s, after, Dropped(s), Dropped(after)} : call = [ok |-> FALSE, service |-> v]
      BY <2>2
    <3>2. call.service = v /\ call.ok = FALSE
      BY <3>1
    <3> QED BY <3>2
  <2> QED BY <1>2, <2>1, <2>2
<1> QED BY <1>1, <1>3

\* The same of a live command, which may report success without effect.
LEMMA LiveFacts ==
    ASSUME NEW s, NEW after, IsService(s), IsService(after), NEW call \in LiveOutcomes(s, after)
    PROVE  (RunsOn(call.service, s) \/ RunsOn(call.service, after)) /\ call.ok \in BOOLEAN
<1>1. CASE call \in Outcomes(s, after)
  BY <1>1, OutcomeFacts
<1>2. CASE call = [ok |-> TRUE, service |-> s]
  BY <1>2 DEF RunsOn
<1> QED BY <1>1, <1>2 DEF LiveOutcomes

\* Selecting a channel changes nothing that runs.
LEMMA SelectFacts ==
    ASSUME NEW s, NEW r, IsService(s), NEW call \in SelectOutcomes(s, r)
    PROVE  RunsOn(call.service, s) /\ call.ok \in BOOLEAN
<1> DEFINE after == [s EXCEPT !.active = r]
<1>1. RunsOn(s, s) /\ RunsOn(after, s) /\ RunsOn(Dropped(s), s)
  BY ServiceFacts DEF RunsOn
<1>2. CASE backend = "asterisk"
  <2>1. call \in Outcomes(s, after) /\ IsService(after)
    BY <1>1, <1>2 DEF SelectOutcomes, RunsOn
  <2> HIDE DEF after
  <2>2. RunsOn(call.service, s) \/ RunsOn(call.service, after)
    BY <2>1, OutcomeFacts
  <2>3. call.ok \in BOOLEAN
    BY <2>1, OutcomeFacts
  <2> QED BY <1>1, <2>2, <2>3 DEF RunsOn
<1>3. CASE backend # "asterisk"
  <2>1. \E ok \in BOOLEAN, v \in {s, after, Dropped(s)} : call = [ok |-> ok, service |-> v]
    BY <1>3 DEF SelectOutcomes
  <2> HIDE DEF after
  <2>2. PICK ok \in BOOLEAN, v \in {s, after, Dropped(s)} : call = [ok |-> ok, service |-> v]
    BY <2>1
  <2>3. call.service = v /\ call.ok = ok
    BY <2>2
  <2> QED BY <1>1, <2>3
<1> QED BY <1>2, <1>3

\* What a configuration that is taken up changes.
LEMMA ApplyFacts ==
    ASSUME NEW s, IsService(s), s.running \in Contents, NEW content \in Contents, NEW mode
    PROVE  LET after == AfterApply(s, content, mode)
           IN  /\ IsService(after) /\ after.running \in Contents
               /\ after.running.live = content.live
               /\ after.running.boot \in {s.running.boot, content.boot}
               /\ after.mixer \in {s.mixer, "file"}
               /\ backend = "standalone" => after.running = content
               /\ backend = "asterisk" /\ mode = "restart" =>
                     after.running = content /\ after.mixer = "file"
               /\ backend = "asterisk" /\ mode # "restart" =>
                     after.running.boot = s.running.boot
<1>1. CASE backend = "asterisk" /\ mode = "restart"
  <2>1. AfterApply(s, content, mode) = [Silent(s) EXCEPT !.running = content,
                                          !.active = s.configured, !.mixer = "file"]
    BY <1>1 DEF AfterApply, AfterRestart
  <2>2. IsService(Silent(s))
    BY ServiceFacts DEF RunsOn
  <2>3. LET after == AfterApply(s, content, mode)
        IN  IsService(after) /\ after.running = content /\ after.mixer = "file"
    BY <2>1, <2>2 DEF IsService, ServiceFields
  <2> QED BY <1>1, <2>3
<1>2. CASE ~(backend = "asterisk" /\ mode = "restart") /\ backend = "standalone"
  <2>1. AfterApply(s, content, mode) = [s EXCEPT !.running = content]
    BY <1>2 DEF AfterApply, AfterReload
  <2>2. LET after == AfterApply(s, content, mode)
        IN  IsService(after) /\ after.running = content /\ after.mixer = s.mixer
    BY <2>1 DEF IsService, ServiceFields
  <2> QED BY <1>2, <2>2
<1>3. CASE ~(backend = "asterisk" /\ mode = "restart") /\ backend # "standalone"
  <2> DEFINE took == [s.running EXCEPT !.live = content.live]
  <2>1. AfterApply(s, content, mode) = [s EXCEPT !.running = took, !.active = s.configured]
    <3>1. [s EXCEPT !.running.live = content.live, !.active = s.configured]
            = [s EXCEPT !.running = took, !.active = s.configured]
      BY DEF IsService, ServiceFields
    <3> QED BY <1>3, <3>1 DEF AfterApply, AfterReload
  <2>2. took \in Contents /\ took.live = content.live /\ took.boot = s.running.boot
    BY DEF Contents
  <2> HIDE DEF took
  <2>3. LET after == AfterApply(s, content, mode)
        IN  IsService(after) /\ after.running = took /\ after.mixer = s.mixer
    BY <2>1 DEF IsService, ServiceFields
  <2> QED BY <1>3, <2>2, <2>3
<1> QED BY <1>1, <1>2, <1>3

-----------------------------------------------------------------------------
(* Steps of a session *)

\* A session means a file and a tool that holds the lock.
LEMMA SessionHasFile ==
    ASSUME TunerInv, session.at # "none"
    PROVE  disk.file \in Contents /\ lock \in Tools /\ tools[lock] = "session"
BY DEF TunerInv, OwnerInv, FileInv, Files

\* A step of the session that leaves the file alone keeps the invariant where
\* the session goes to a sound place.
LEMMA SessionMoves ==
    ASSUME TunerInv, session.at # "none",
           UNCHANGED <<backend, disk, tools, lock, acked, unacked>>,
           IsService(service'), service'.running \in Contents,
           "mixer" \in doubt' \/ service'.mixer = "file",
           Goes(session', disk.file, service'.running, doubt', backend = "asterisk")
    PROVE  TunerInv'
<1>1. disk.file # NoFile
  BY SessionHasFile, SampleFits
<1>2. OwnerInv'
  BY DEF TunerInv, OwnerInv, Goes
<1>3. FileInv'
  BY DEF TunerInv, FileInv, AcknowledgedFileKept
<1>4. ServiceInv'
  BY <1>1 DEF TunerInv, ServiceInv
<1>5. SessionSound'
  BY DEF SessionSound, Goes
<1> QED BY <1>2, <1>3, <1>4, <1>5 DEF TunerInv

\* The same where what runs, the mixer and the doubt stay too.
LEMMA QuietMoves ==
    ASSUME TunerInv, session.at # "none",
           UNCHANGED <<backend, disk, tools, lock, acked, unacked, doubt>>,
           RunsOn(service', service),
           Goes(session', disk.file, service.running, doubt, backend = "asterisk")
    PROVE  TunerInv'
<1>1. IsService(service') /\ service'.running = service.running /\ service'.mixer = service.mixer
  BY DEF RunsOn
<1>2. service.running \in Contents /\ ("mixer" \in doubt \/ service.mixer = "file")
  BY DEF TunerInv, ServiceInv
<1> QED BY <1>1, <1>2, SessionMoves

\* The session as it is, outside a chain of writes.
LEMMA SessionSettling ==
    ASSUME TunerInv, session.at \in EarlyPlaces \cup LatePlaces
    PROVE  /\ Settling(session, disk.file, service.running, doubt, backend = "asterisk")
           /\ session.at # "none"
           /\ session.at \in LatePlaces => Kept(session, disk.file)
           /\ session.at \in EarlyPlaces =>
                 /\ disk.file = session.from /\ session.from.boot = session.origin.boot
                 /\ IF session.at \in {"candidate", "measure"} THEN ~session.failed
                    ELSE session.from = session.origin
<1>1. session.at \notin Chain /\ session.at # "none"
  BY DEF EarlyPlaces, LatePlaces, Chain
<1>2. disk.file # NoFile
  BY <1>1, SessionHasFile, SampleFits
<1> QED BY <1>1, <1>2 DEF TunerInv, SessionSound, Sound, Settling, Kept

\* Moves among the places before the first write.
LEMMA EarlyMoves ==
    ASSUME NEW s, NEW n, NEW file, NEW runs, NEW doubtful, NEW asterisk,
           Settling(s, file, runs, doubtful, asterisk), file = s.from,
           s.from.boot = s.origin.boot,
           Differs(n, s, {"at", "attempt", "best", "adjust", "tone", "selected", "temp"}),
           n.at \in EarlyPlaces,
           IF n.at \in {"candidate", "measure"} THEN ~s.failed ELSE s.from = s.origin
    PROVE  Goes(n, file, runs, doubtful, asterisk)
<1>1. n["saved"] = s["saved"] /\ n["origin"] = s["origin"] /\ n["from"] = s["from"]
      /\ n["to"] = s["to"] /\ n["restart_changed"] = s["restart_changed"]
      /\ n["failed"] = s["failed"] /\ IsSession(n)
  BY DEF Differs, SessionFields
<1> QED BY <1>1 DEF Goes, Sound, Settling, EarlyPlaces, LatePlaces, Chain, Places

\* Moves to the clean-up after keying.
LEMMA CleanUpFits ==
    ASSUME NEW s, NEW file, NEW runs, NEW doubtful, NEW asterisk,
           Settling(s, file, runs, doubtful, asterisk), Kept(s, file),
           NEW p \in {"unkey", "tone off"}
    PROVE  Goes([s EXCEPT !.at = p], file, runs, doubtful, asterisk)
<1> DEFINE n == [s EXCEPT !.at = p]
<1>1. n.at = p /\ Differs(n, s, {"at"})
  BY MoveFields DEF Settling
<1> HIDE DEF n
<1>2. n["saved"] = s["saved"] /\ n["origin"] = s["origin"] /\ n["from"] = s["from"]
      /\ n["to"] = s["to"] /\ n["restart_changed"] = s["restart_changed"]
      /\ n["failed"] = s["failed"] /\ n["told"] = s["told"] /\ IsSession(n)
  BY <1>1 DEF Differs, SessionFields
<1>3. Settling(n, file, runs, doubtful, asterisk) /\ Kept(n, file) /\ n.at \in LatePlaces
  BY <1>1, <1>2 DEF Settling, Kept, LatePlaces
<1> QED BY <1>3, LateFits DEF n

\* A write that fails leaves file and service where they were.
LEMMA WriteFails ==
    ASSUME TunerInv, session.at \in {"write", "rename", "sync"},
           session' = WriteFailed(session), doubt' = MisplacedDoubt(session),
           UNCHANGED <<backend, disk, service, tools, lock, acked, unacked>>
    PROVE  TunerInv'
<1>1. doubt \subseteq doubt' /\ (session.back \/ session.at = "sync" => AllParts \subseteq doubt')
  BY DEF MisplacedDoubt
<1>2. session.at # "none" /\ disk.file \in Contents
  BY SessionHasFile
<1>3. Goes(session', disk.file, service.running, doubt', backend = "asterisk")
  BY <1>1, <1>2, WriteFailedFits DEF TunerInv, SessionSound
<1>4. /\ IsService(service') /\ service'.running \in Contents
      /\ "mixer" \in doubt' \/ service'.mixer = "file"
  BY <1>1 DEF TunerInv, ServiceInv
<1> QED BY <1>2, <1>3, <1>4, SessionMoves

\* Writing the temporary file (prepare_file): it is synchronised, or the write fails.
LEMMA WriteTemporaryKeeps == TunerInv /\ WriteTemporary => TunerInv'
<1> SUFFICES ASSUME TunerInv, WriteTemporary PROVE TunerInv'
  OBVIOUS
<1>1. session.at = "write" /\ UNCHANGED <<backend, disk, service, tools, lock, acked, unacked>>
  BY DEF WriteTemporary
<1>2. CASE session' = WriteFailed(session) /\ doubt' = MisplacedDoubt(session)
  BY <1>1, <1>2, WriteFails
<1>3. CASE session' = [session EXCEPT !.at = "rename", !.temp = FilePrepared] /\ UNCHANGED doubt
  <2>1. IsSession(session) /\ session.at # "none"
    BY <1>1 DEF TunerInv, SessionSound, Sound
  <2>2. session'.at = "rename" /\ session'.temp = "synced" /\ Differs(session', session, {"at", "temp"})
    BY <1>3, <2>1 DEF FilePrepared, Differs, IsSession, SessionFields
  <2>3. \A f \in SessionFields \ {"at", "temp"} : session'[f] = session[f]
    BY <2>2 DEF Differs
  <2>4. /\ session'["saved"] = session["saved"] /\ session'["origin"] = session["origin"]
        /\ session'["from"] = session["from"] /\ session'["to"] = session["to"]
        /\ session'["job"] = session["job"] /\ session'["mode"] = session["mode"]
        /\ session'["restart_changed"] = session["restart_changed"]
        /\ session'["failed"] = session["failed"] /\ session'["told"] = session["told"]
        /\ session'["back"] = session["back"] /\ IsSession(session')
    BY <2>2, <2>3 DEF Differs, SessionFields
  <2>5. WriteInv(session, disk.file, service.running, doubt, backend = "asterisk")
    BY <1>1 DEF TunerInv, SessionSound, Sound, Chain
  <2>6. WriteInv(session', disk.file, service.running, doubt, backend = "asterisk")
    BY <1>1, <2>2, <2>4, <2>5 DEF WriteInv, JobInv
  <2>7. Goes(session', disk.file, service.running, doubt, backend = "asterisk")
    BY <1>1, <2>2, <2>4, <2>6
       DEF Goes, Sound, TunerInv, SessionSound, EarlyPlaces, LatePlaces, Chain, Places
  <2>8. RunsOn(service', service)
    BY <1>1 DEF RunsOn, TunerInv, ServiceInv
  <2> QED BY <1>1, <1>3, <2>1, <2>7, <2>8, QuietMoves
<1> QED BY <1>2, <1>3 DEF WriteTemporary

\* The rename: the file is the content written, the service what it ran before.
LEMMA ReplaceFileKeeps == TunerInv /\ ReplaceFile => TunerInv'
<1> SUFFICES ASSUME TunerInv, ReplaceFile PROVE TunerInv'
  OBVIOUS
<1>1. session.at = "rename" /\ UNCHANGED <<backend, service, tools, lock, acked>>
  BY DEF ReplaceFile
<1>2. CASE session' = WriteFailed(session) /\ doubt' = MisplacedDoubt(session)
           /\ UNCHANGED <<disk, unacked>>
  BY <1>1, <1>2, WriteFails
<1>3. CASE /\ disk' = Renamed(disk, Content, session.temp)
           /\ unacked' = unacked \cup {Content}
           /\ session' = [session EXCEPT !.at = "sync"]
           /\ UNCHANGED doubt
  <2> DEFINE file == disk'.file
  <2>1. /\ IsSession(session) /\ session.at # "none" /\ session.from \in Contents
        /\ session.to \in Contents
        /\ WriteInv(session, disk.file, service.running, doubt, backend = "asterisk")
    BY <1>1 DEF TunerInv, SessionSound, Sound, Chain
  <2>2. session'.at = "sync" /\ Differs(session', session, {"at"})
    BY <1>3, <2>1, MoveFields
  <2>3. /\ session'["saved"] = session["saved"] /\ session'["origin"] = session["origin"]
        /\ session'["from"] = session["from"] /\ session'["to"] = session["to"]
        /\ session'["job"] = session["job"] /\ session'["mode"] = session["mode"]
        /\ session'["restart_changed"] = session["restart_changed"]
        /\ session'["failed"] = session["failed"] /\ session'["told"] = session["told"]
        /\ session'["back"] = session["back"] /\ IsSession(session')
    BY <2>2 DEF Differs, SessionFields
  <2>4. session.temp = "synced"
    BY <1>1, <2>1 DEF WriteInv
  <2>5. disk' = [file |-> Content, durable |-> disk.durable \cup {Content}]
    BY <1>3, <2>4 DEF Renamed
  <2>6. Content \in Contents /\ file = IF session.back THEN session.from ELSE session.to
    BY <2>1, <2>5 DEF Content
  <2>7. SameBoot(session.saved, session.from, doubt)
        \/ ~(backend = "asterisk" /\ ~session.restart_changed)
    <3>1. CASE session.back
      BY <1>1, <2>1, <3>1 DEF WriteInv
    <3>2. CASE ~session.back /\ AllParts \subseteq doubt
      BY <3>2 DEF SameBoot, AllParts
    <3>3. CASE ~session.back /\ ~(AllParts \subseteq doubt)
      BY <1>1, <2>1, <3>3 DEF WriteInv
    <3> QED BY <3>1, <3>2, <3>3
  <2>8. ~session.back => InLine(service.running, session.from, doubt)
    <3>2. CASE AllParts \subseteq doubt
      BY <3>2 DEF InLine
    <3>3. CASE ~(AllParts \subseteq doubt)
      BY <1>1, <2>1, <3>3 DEF WriteInv
    <3> QED BY <3>2, <3>3
  <2>9. WriteInv(session', file, service.running, doubt, backend = "asterisk")
    BY <1>1, <2>1, <2>2, <2>3, <2>6, <2>7, <2>8 DEF WriteInv, JobInv
  <2>10. Sound(session', file, service.running, doubt, backend = "asterisk")
    BY <2>2, <2>3, <2>9
       DEF Sound, TunerInv, SessionSound, EarlyPlaces, LatePlaces, Chain, Places
  <2>11. OwnerInv'
    BY <1>1, <2>1, <2>2, <2>6, SampleFits DEF TunerInv, OwnerInv
  <2>12. FileInv'
    BY <1>1, <1>3, <2>5, <2>6 DEF TunerInv, FileInv, AcknowledgedFileKept, Files
  <2>13. ServiceInv'
    <3>1. disk'.file # NoFile
      BY <2>5, <2>6, SampleFits
    <3> QED BY <1>1, <1>3, <3>1 DEF TunerInv, ServiceInv
  <2>14. SessionSound'
    BY <1>1, <1>3, <2>10 DEF SessionSound
  <2> QED BY <2>11, <2>12, <2>13, <2>14 DEF TunerInv
<1> QED BY <1>2, <1>3 DEF ReplaceFile

\* Synchronising the directory acknowledges the content.
LEMMA SyncDirectoryKeeps == TunerInv /\ SyncDirectory => TunerInv'
<1> SUFFICES ASSUME TunerInv, SyncDirectory PROVE TunerInv'
  OBVIOUS
<1>1. session.at = "sync" /\ UNCHANGED <<backend, service, tools, lock>>
  BY DEF SyncDirectory
<1>2. CASE session' = WriteFailed(session) /\ doubt' = MisplacedDoubt(session)
           /\ UNCHANGED <<disk, acked, unacked>>
  BY <1>1, <1>2, WriteFails
<1>3. CASE /\ disk' = Synchronised(disk)
           /\ acked' = Content /\ unacked' = {}
           /\ session' = [session EXCEPT !.at = "apply", !.temp = "none"]
           /\ UNCHANGED doubt
  <2>1. /\ IsSession(session) /\ session.at # "none" /\ session.from \in Contents
        /\ session.to \in Contents
        /\ WriteInv(session, disk.file, service.running, doubt, backend = "asterisk")
    BY <1>1 DEF TunerInv, SessionSound, Sound, Chain
  <2>2. session'.at = "apply" /\ Differs(session', session, {"at", "temp"})
    BY <1>3, <2>1 DEF Differs, IsSession, SessionFields
  <2>3. /\ session'["saved"] = session["saved"] /\ session'["origin"] = session["origin"]
        /\ session'["from"] = session["from"] /\ session'["to"] = session["to"]
        /\ session'["job"] = session["job"] /\ session'["mode"] = session["mode"]
        /\ session'["restart_changed"] = session["restart_changed"]
        /\ session'["failed"] = session["failed"] /\ session'["told"] = session["told"]
        /\ session'["back"] = session["back"] /\ IsSession(session')
    BY <2>2 DEF Differs, SessionFields
  <2>4. disk.file = Content
    BY <1>1, <2>1 DEF WriteInv, Content
  <2>5. disk' = [file |-> disk.file, durable |-> {disk.file}]
    BY <1>3 DEF Synchronised, TunerInv, FileInv
  <2>6. disk'.file = disk.file
    BY <2>5
  <2>7. WriteInv(session', disk.file, service.running, doubt, backend = "asterisk")
    BY <1>1, <2>1, <2>2, <2>3 DEF WriteInv, JobInv
  <2>8. Sound(session', disk.file, service.running, doubt, backend = "asterisk")
    BY <2>2, <2>3, <2>7
       DEF Sound, TunerInv, SessionSound, EarlyPlaces, LatePlaces, Chain, Places
  <2>9. OwnerInv'
    BY <1>1, <2>1, <2>2, <2>6 DEF TunerInv, OwnerInv
  <2>10. FileInv'
    <3>1. acked' = disk.file /\ unacked' = {} /\ disk.file \in Files
      BY <1>3, <2>4 DEF TunerInv, FileInv
    <3> QED BY <2>5, <3>1 DEF FileInv, AcknowledgedFileKept
  <2>11. ServiceInv'
    BY <1>1, <1>3, <2>6 DEF TunerInv, ServiceInv
  <2>12. SessionSound'
    BY <1>1, <1>3, <2>6, <2>8 DEF SessionSound
  <2> QED BY <2>9, <2>10, <2>11, <2>12 DEF TunerInv
<1> QED BY <1>2, <1>3 DEF SyncDirectory

\* The mixer a noise calibration resets; the rest is as the call left it.
LEMMA MixerFields ==
    ASSUME NEW s, IsService(s), NEW m
    PROVE  LET n == [s EXCEPT !.mixer = m]
           IN  IsService(n) /\ n.running = s.running /\ n.mixer = m
BY DEF IsService, ServiceFields

\* The service after an apply, as the invariant sees it.
LEMMA AppliedService ==
    ASSUME TunerInv, session.at = "apply",
           NEW call \in Outcomes(service, AfterApply(service, disk.file, session.mode)),
           service' = [call.service EXCEPT !.mixer =
                          IF call.ok /\ session.job = "noise" /\ ~session.back THEN "file" ELSE @],
           doubt' = CASE call.ok /\ ~session.back -> doubt \ BroughtInLine(session)
                      [] ~call.ok /\ session.back -> doubt \cup BroughtInLine(session)
                      [] OTHER -> doubt
    PROVE  /\ IsService(service') /\ service'.running \in Contents
           /\ call.ok \in BOOLEAN
           /\ "mixer" \in doubt' \/ service'.mixer = "file"
           /\ service'.running.boot \in {service.running.boot, disk.file.boot}
           /\ backend = "asterisk" /\ session.mode # "restart" =>
                 service'.running.boot = service.running.boot
           /\ call.ok => service'.running.live = disk.file.live
           /\ call.ok /\ (backend = "standalone" \/ session.mode = "restart") =>
                 service'.running = disk.file
<1> DEFINE after == AfterApply(service, disk.file, session.mode)
           reset == call.ok /\ session.job = "noise" /\ ~session.back
<1>1. /\ IsService(service) /\ service.running \in Contents /\ disk.file \in Contents
      /\ "mixer" \in doubt \/ service.mixer = "file"
      /\ backend \in {"asterisk", "standalone"}
  BY SessionHasFile DEF TunerInv, ServiceInv
<1>2. /\ IsService(after) /\ after.running \in Contents
      /\ after.running.live = disk.file.live
      /\ after.running.boot \in {service.running.boot, disk.file.boot}
      /\ after.mixer \in {service.mixer, "file"}
      /\ backend = "standalone" => after.running = disk.file
      /\ backend = "asterisk" /\ session.mode = "restart" =>
            after.running = disk.file /\ after.mixer = "file"
      /\ backend = "asterisk" /\ session.mode # "restart" =>
            after.running.boot = service.running.boot
  BY <1>1, ApplyFacts
<1> HIDE DEF after
<1>3. /\ RunsOn(call.service, service) \/ RunsOn(call.service, after)
      /\ call.ok \in BOOLEAN
      /\ call.ok => call.service = after
  BY <1>1, <1>2, OutcomeFacts DEF after
<1>4. IsService(call.service)
  BY <1>3 DEF RunsOn
<1>5. /\ IsService(service') /\ service'.running = call.service.running
      /\ service'.mixer = IF reset THEN "file" ELSE call.service.mixer
  BY <1>4, MixerFields
<1>6. /\ call.service.running \in {service.running, after.running}
      /\ call.service.mixer \in {service.mixer, after.mixer}
  BY <1>3 DEF RunsOn
<1>7. "mixer" \in doubt' \/ service'.mixer = "file"
  <2>1. CASE call.ok /\ ~session.back
    <3>1. doubt' = doubt \ BroughtInLine(session) /\ call.service = after
      BY <1>3, <2>1
    <3>2. CASE session.job = "noise"
      BY <1>5, <2>1, <3>2
    <3>3. CASE session.job # "noise" /\ backend = "asterisk" /\ session.mode = "restart"
      BY <1>2, <1>5, <3>1, <3>3
    <3>4. CASE session.job # "noise" /\ ~(backend = "asterisk" /\ session.mode = "restart")
      <4>1. "mixer" \notin BroughtInLine(session)
        <5>1. Parts(session.mode) \in {AllParts, {"live"}}
          BY <1>1, <3>4 DEF Parts
        <5>2. BroughtInLine(session) = Parts(session.mode)
          BY <3>4 DEF BroughtInLine
        <5> QED BY <5>1, <5>2 DEF AllParts
      <4> QED BY <1>1, <1>2, <1>5, <3>1, <3>4, <4>1
    <3> QED BY <3>2, <3>3, <3>4
  <2>2. CASE ~(call.ok /\ ~session.back)
    <3>1. doubt \subseteq doubt'
      BY <2>2
    <3> QED BY <1>1, <1>2, <1>5, <1>6, <2>2, <3>1
  <2> QED BY <2>1, <2>2
<1> QED BY <1>1, <1>2, <1>3, <1>5, <1>6, <1>7

\* Applying the file brings the service in line, starts the way back, or ends it.
LEMMA ApplyKeeps == TunerInv /\ Apply => TunerInv'
<1> SUFFICES ASSUME TunerInv, Apply PROVE TunerInv'
  OBVIOUS
<1>1. session.at = "apply" /\ UNCHANGED <<backend, disk, tools, lock, acked, unacked>>
  BY DEF Apply
<1>2. PICK call \in Outcomes(service, AfterApply(service, disk.file, session.mode)) :
         /\ service' = [call.service EXCEPT !.mixer =
                           IF call.ok /\ session.job = "noise" /\ ~session.back THEN "file" ELSE @]
         /\ doubt' = CASE call.ok /\ ~session.back -> doubt \ BroughtInLine(session)
                       [] ~call.ok /\ session.back -> doubt \cup BroughtInLine(session)
                       [] OTHER -> doubt
         /\ session' = CASE session.back -> Settle([session EXCEPT !.back = FALSE], FALSE)
                         [] ~session.back /\ call.ok -> Settle(session, TRUE)
                         [] OTHER -> [session EXCEPT !.at = "write", !.back = TRUE]
  BY DEF Apply
<1> DEFINE runs == service'.running
<1>3. /\ IsService(service') /\ service'.running \in Contents
      /\ call.ok \in BOOLEAN
      /\ "mixer" \in doubt' \/ service'.mixer = "file"
      /\ service'.running.boot \in {service.running.boot, disk.file.boot}
      /\ backend = "asterisk" /\ session.mode # "restart" =>
            service'.running.boot = service.running.boot
      /\ call.ok => service'.running.live = disk.file.live
      /\ call.ok /\ (backend = "standalone" \/ session.mode = "restart") =>
            service'.running = disk.file
  BY <1>1, <1>2, AppliedService
<1>4. /\ IsSession(session) /\ session.at # "none" /\ disk.file \in Contents
      /\ session.saved \in Contents /\ session.origin \in Contents
      /\ session.from \in Contents /\ session.to \in Contents
      /\ WriteInv(session, disk.file, service.running, doubt, backend = "asterisk")
      /\ backend \in {"asterisk", "standalone"}
  BY <1>1, SessionHasFile DEF TunerInv, SessionSound, Sound, Chain, ServiceInv
<1>5. /\ JobInv(session, doubt, backend = "asterisk")
      /\ session.mode \in {"reload", "restart"}
      /\ backend = "asterisk" /\ ~session.restart_changed =>
            SameBoot(session.saved, session.from, doubt)
      /\ ~session.back => disk.file = session.to /\ InLine(service.running, session.from, doubt)
      /\ session.back => /\ disk.file = session.from
                         /\ backend = "asterisk" /\ session.mode = "reload" =>
                               SameBoot(service.running, session.from, doubt)
      /\ backend = "asterisk" /\ session.mode = "reload" =>
            SameBoot(session.from, session.to, doubt)
  BY <1>1, <1>4 DEF WriteInv, JobInv
<1> SUFFICES Goes(session', disk.file, runs, doubt', backend = "asterisk")
  BY <1>1, <1>3, <1>4, SessionMoves
<1> HIDE DEF runs
<1>6. CASE ~session.back /\ call.ok
  <2>1. session' = Settle(session, TRUE) /\ doubt' = doubt \ BroughtInLine(session)
    BY <1>2, <1>6
  <2>2. backend = "asterisk" /\ session.mode = "reload" => ("boot" \in doubt => "boot" \in doubt')
    BY <2>1 DEF BroughtInLine, Parts
  <2>3. InLine(runs, disk.file, doubt')
    <3>1. CASE backend = "standalone" \/ session.mode = "restart"
      BY <1>3, <1>6, <3>1 DEF InLine, runs
    <3>2. CASE backend = "asterisk" /\ session.mode = "reload"
      <4>1. runs["live"] = disk.file["live"]
        BY <1>3, <1>6 DEF runs
      <4>2. runs["boot"] = service.running["boot"]
        BY <1>3, <3>2 DEF runs
      <4>3. "boot" \in doubt' \/ service.running["boot"] = disk.file["boot"]
        BY <1>5, <1>6, <2>2, <3>2 DEF InLine, SameBoot, AllParts
      <4> QED BY <4>1, <4>2, <4>3 DEF InLine, AllParts
    <3> QED BY <1>4, <1>5, <3>1, <3>2
  <2>4. JobInv(session, doubt', backend = "asterisk")
    BY <1>5, <2>2 DEF JobInv, SameBoot
  <2>5. Finishing(session, TRUE, disk.file, doubt', backend = "asterisk")
    BY <1>5, <1>6, <2>2, <2>4 DEF Finishing, SameBoot
  <2> QED BY <1>4, <2>1, <2>3, <2>5, SettleFits
<1>7. CASE ~session.back /\ ~call.ok
  <2>1. session' = [session EXCEPT !.at = "write", !.back = TRUE] /\ doubt' = doubt
    BY <1>2, <1>7
  <2>2. /\ session'.at = "write" /\ session'.back = TRUE
        /\ Differs(session', session, {"at", "back"})
    BY <1>4, <2>1 DEF Differs, IsSession, SessionFields
  <2>3. /\ session'["saved"] = session["saved"] /\ session'["origin"] = session["origin"]
        /\ session'["from"] = session["from"] /\ session'["to"] = session["to"]
        /\ session'["job"] = session["job"] /\ session'["mode"] = session["mode"]
        /\ session'["restart_changed"] = session["restart_changed"]
        /\ session'["failed"] = session["failed"] /\ IsSession(session')
    BY <2>2 DEF Differs, SessionFields
  <2>4. backend = "asterisk" /\ session.mode = "reload" => SameBoot(runs, session.from, doubt)
    BY <1>3, <1>5, <1>7 DEF InLine, SameBoot, AllParts, runs
  <2>5. WriteInv(session', disk.file, runs, doubt', backend = "asterisk")
    BY <1>5, <1>7, <2>1, <2>2, <2>3, <2>4 DEF WriteInv, JobInv
  <2> QED BY <1>4, <2>2, <2>3, <2>5
          DEF Goes, Sound, EarlyPlaces, LatePlaces, Chain, Places
<1>8. CASE session.back
  <2> DEFINE n == [session EXCEPT !.back = FALSE]
  <2>1. session' = Settle(n, FALSE)
    BY <1>2, <1>8
  <2>2. doubt \subseteq doubt' /\ (~call.ok => BroughtInLine(session) \subseteq doubt')
    BY <1>2, <1>8
  <2>3. Differs(n, session, {"back"})
    BY <1>4 DEF Differs, IsSession, SessionFields
  <2> HIDE DEF n
  <2>4. /\ n["saved"] = session["saved"] /\ n["origin"] = session["origin"]
        /\ n["from"] = session["from"] /\ n["to"] = session["to"]
        /\ n["job"] = session["job"] /\ n["mode"] = session["mode"]
        /\ n["restart_changed"] = session["restart_changed"]
        /\ n["failed"] = session["failed"] /\ n["told"] = session["told"] /\ IsSession(n)
    BY <2>3 DEF Differs, SessionFields
  <2>5. InLine(runs, disk.file, doubt')
    <3>1. CASE backend = "standalone" \/ session.mode = "restart"
      <4>1. CASE call.ok
        BY <1>3, <3>1, <4>1 DEF InLine, runs
      <4>2. CASE ~call.ok
        <5>1. backend \in {"asterisk", "standalone"}
          BY <1>4
        <5>2. AllParts \subseteq Parts(session.mode)
          BY <3>1, <5>1 DEF Parts
        <5> QED BY <2>2, <4>2, <5>2 DEF InLine, BroughtInLine
      <4> QED BY <4>1, <4>2
    <3>2. CASE backend = "asterisk" /\ session.mode = "reload"
      <4>1. "live" \in doubt' \/ runs["live"] = disk.file["live"]
        BY <1>3, <2>2, <3>2 DEF runs, BroughtInLine, Parts
      <4>2. "boot" \in doubt' \/ runs["boot"] = disk.file["boot"]
        BY <1>3, <1>5, <1>8, <2>2, <3>2 DEF runs, SameBoot
      <4> QED BY <4>1, <4>2 DEF InLine, AllParts
    <3> QED BY <1>4, <1>5, <3>1, <3>2
  <2>6. Finishing(n, FALSE, disk.file, doubt', backend = "asterisk")
    BY <1>5, <1>8, <2>2, <2>4 DEF Finishing, JobInv, SameBoot
  <2> QED BY <1>4, <2>1, <2>4, <2>5, <2>6, SettleFits
<1> QED BY <1>3, <1>6, <1>7, <1>8

-----------------------------------------------------------------------------
(* The other steps of a session *)

\* The service, and what the calls that only key, release or move the mixer
\* make of it.
LEMMA ServiceNow ==
    ASSUME TunerInv
    PROVE  /\ IsService(service) /\ service.running \in Contents
           /\ "mixer" \in doubt \/ service.mixer = "file"
           /\ RunsOn(service, service)
BY DEF TunerInv, ServiceInv, RunsOn

\* A live command leaves what runs alone.
LEMMA LiveCallRuns ==
    ASSUME TunerInv, NEW after, RunsOn(after, service), NEW call \in LiveOutcomes(service, after)
    PROVE  RunsOn(call.service, service)
<1>1. IsService(after) /\ after.running = service.running /\ after.mixer = service.mixer
  BY DEF RunsOn
<1>2. RunsOn(call.service, service) \/ RunsOn(call.service, after)
  BY <1>1, ServiceNow, LiveFacts
<1> QED BY <1>1, <1>2 DEF RunsOn

\* Where a keying step that fails goes.
LEMMA AbandonFits ==
    ASSUME TunerInv, session.at \in {"tone on", "key", "burst unkey", "burst quiet"}
    PROVE  Goes(Abandon(session), disk.file, service.running, doubt, backend = "asterisk")
<1>1. Settling(session, disk.file, service.running, doubt, backend = "asterisk")
      /\ Kept(session, disk.file)
  BY SessionSettling DEF EarlyPlaces, Kept
<1>2. \A p \in {"unkey", "tone off"} :
         Goes([session EXCEPT !.at = p], disk.file, service.running, doubt, backend = "asterisk")
  BY <1>1, CleanUpFits
<1>3. Goes(Over(session), disk.file, service.running, doubt, backend = "asterisk")
  BY <1>1, MenuFits
<1> QED BY <1>2, <1>3 DEF Abandon, CleanUp

\* A keying call goes on to its next place or abandons the operation.
LEMMA LiveCallKeeps ==
    ASSUME TunerInv, NEW at \in {"tone on", "key", "burst unkey", "burst quiet"},
           NEW after, RunsOn(after, service), NEW sess, LiveCall(at, after, sess),
           Goes(sess, disk.file, service.running, doubt, backend = "asterisk")
    PROVE  TunerInv'
<1>1. session.at = at /\ UNCHANGED <<backend, disk, tools, lock, acked, unacked, doubt>>
  BY DEF LiveCall
<1>2. PICK call \in LiveOutcomes(service, after) :
         service' = call.service /\ session' = IF call.ok THEN sess ELSE Abandon(session)
  BY DEF LiveCall
<1>3. RunsOn(service', service)
  BY <1>2, LiveCallRuns
<1>4. Goes(Abandon(session), disk.file, service.running, doubt, backend = "asterisk")
  BY <1>1, AbandonFits
<1>5. Goes(session', disk.file, service.running, doubt, backend = "asterisk")
  BY <1>2, <1>4
<1> QED BY <1>1, <1>3, <1>5, QuietMoves

\* From one place of a keying operation to another.
LEMMA KeyingMoves ==
    ASSUME TunerInv, session.at \in EarlyPlaces \ {"candidate", "measure"},
           NEW n, Differs(n, session, {"at", "attempt"}),
           n.at \in EarlyPlaces \ {"candidate", "measure"}
    PROVE  Goes(n, disk.file, service.running, doubt, backend = "asterisk")
<1>1. /\ Settling(session, disk.file, service.running, doubt, backend = "asterisk")
      /\ disk.file = session.from /\ session.from.boot = session.origin.boot
      /\ session.from = session.origin
  BY SessionSettling
<1>2. Differs(n, session, {"at", "attempt", "best", "adjust", "tone", "selected", "temp"})
  BY DEF Differs
<1> QED BY <1>1, <1>2, EarlyMoves

\* A keying operation may be cleaned up from any of its places.
LEMMA CleanUpHere ==
    ASSUME TunerInv, session.at \in EarlyPlaces \ {"candidate", "measure"}
    PROVE  Goes(CleanUp(session), disk.file, service.running, doubt, backend = "asterisk")
<1>1. Settling(session, disk.file, service.running, doubt, backend = "asterisk")
      /\ Kept(session, disk.file)
  BY SessionSettling DEF Kept
<1> QED BY <1>1, CleanUpFits DEF CleanUp

\* flash_transmitter and adjust_keyed_setting: the test tone.
LEMMA ToneOnKeeps == TunerInv /\ ToneOn => TunerInv'
<1> SUFFICES ASSUME TunerInv, ToneOn PROVE TunerInv'
  OBVIOUS
<1> DEFINE n == [session EXCEPT !.at = "key"]
<1>1. session.at = "tone on" /\ IsSession(session)
  BY DEF ToneOn, LiveCall, TunerInv, SessionSound, Sound
<1>2. n.at = "key" /\ Differs(n, session, {"at"})
  BY <1>1, MoveFields
<1> HIDE DEF n
<1>3. Goes(n, disk.file, service.running, doubt, backend = "asterisk")
  BY <1>1, <1>2, KeyingMoves DEF EarlyPlaces, Differs
<1>4. RunsOn(Toned(service, TRUE), service)
  BY ServiceNow, ServiceFacts
<1> QED BY <1>3, <1>4, LiveCallKeeps DEF ToneOn, n

\* The transmitter is keyed for a burst or for a prompt.
LEMMA KeyKeeps == TunerInv /\ Key => TunerInv'
<1> SUFFICES ASSUME TunerInv, Key PROVE TunerInv'
  OBVIOUS
<1> DEFINE p == IF session.job = "flash" THEN "hold" ELSE "prompt"
           n == [session EXCEPT !.at = p]
<1>1. session.at = "key" /\ IsSession(session)
  BY DEF Key, LiveCall, TunerInv, SessionSound, Sound
<1>2. n.at = p /\ Differs(n, session, {"at"})
  BY <1>1, MoveFields
<1>3. p \in {"hold", "prompt"}
  OBVIOUS
<1>4. LiveCall("key", Keyed(service, TRUE), n)
  BY DEF Key
<1> HIDE DEF n, p
<1>5. Goes(n, disk.file, service.running, doubt, backend = "asterisk")
  BY <1>1, <1>2, <1>3, KeyingMoves DEF EarlyPlaces, Differs
<1>6. RunsOn(Keyed(service, TRUE), service)
  BY ServiceNow, ServiceFacts
<1> QED BY <1>4, <1>5, <1>6, LiveCallKeeps

\* The end of a burst.
LEMMA BurstUnkeyKeeps == TunerInv /\ BurstUnkey => TunerInv'
<1> SUFFICES ASSUME TunerInv, BurstUnkey PROVE TunerInv'
  OBVIOUS
<1> DEFINE n == [session EXCEPT !.at = "burst quiet"]
<1>1. session.at = "burst unkey" /\ IsSession(session)
  BY DEF BurstUnkey, LiveCall, TunerInv, SessionSound, Sound
<1>2. n.at = "burst quiet" /\ Differs(n, session, {"at"})
  BY <1>1, MoveFields
<1> HIDE DEF n
<1>3. Goes(n, disk.file, service.running, doubt, backend = "asterisk")
  BY <1>1, <1>2, KeyingMoves DEF EarlyPlaces, Differs
<1>4. RunsOn(Keyed(service, FALSE), service)
  BY ServiceNow, ServiceFacts
<1> QED BY <1>3, <1>4, LiveCallKeeps DEF BurstUnkey, n

\* The tone is off between bursts.
LEMMA BurstQuietKeeps == TunerInv /\ BurstQuiet => TunerInv'
<1> SUFFICES ASSUME TunerInv, BurstQuiet PROVE TunerInv'
  OBVIOUS
<1> DEFINE n == [session EXCEPT !.at = "pause", !.attempt = @ + 1]
           m == IF session.attempt + 1 < Bursts THEN n ELSE CleanUp(session)
<1>1. session.at = "burst quiet" /\ IsSession(session)
  BY DEF BurstQuiet, LiveCall, TunerInv, SessionSound, Sound
<1>2. n.at = "pause" /\ Differs(n, session, {"at", "attempt"})
  BY <1>1 DEF Differs, IsSession, SessionFields
<1>3. LiveCall("burst quiet", Toned(service, FALSE), m)
  BY DEF BurstQuiet
<1> HIDE DEF n
<1>4. Goes(n, disk.file, service.running, doubt, backend = "asterisk")
  BY <1>1, <1>2, KeyingMoves DEF EarlyPlaces
<1>5. Goes(CleanUp(session), disk.file, service.running, doubt, backend = "asterisk")
  BY <1>1, CleanUpHere DEF EarlyPlaces
<1>6. Goes(m, disk.file, service.running, doubt, backend = "asterisk")
  BY <1>4, <1>5
<1>7. RunsOn(Toned(service, FALSE), service)
  BY ServiceNow, ServiceFacts
<1> HIDE DEF m
<1> QED BY <1>3, <1>6, <1>7, LiveCallKeeps

\* During a burst.
LEMMA HoldKeeps == TunerInv /\ Hold => TunerInv'
<1> SUFFICES ASSUME TunerInv, Hold PROVE TunerInv'
  OBVIOUS
<1> DEFINE n == [session EXCEPT !.at = "burst unkey"]
<1>1. /\ session.at = "hold" /\ IsSession(session) /\ session.at # "none"
      /\ UNCHANGED <<backend, disk, tools, lock, acked, unacked, doubt, service>>
      /\ session' \in {n, CleanUp(session)}
  BY DEF Hold, TunerInv, SessionSound, Sound
<1>2. n.at = "burst unkey" /\ Differs(n, session, {"at"})
  BY <1>1, MoveFields
<1> HIDE DEF n
<1>3. Goes(n, disk.file, service.running, doubt, backend = "asterisk")
  BY <1>1, <1>2, KeyingMoves DEF EarlyPlaces, Differs
<1>4. Goes(CleanUp(session), disk.file, service.running, doubt, backend = "asterisk")
  BY <1>1, CleanUpHere DEF EarlyPlaces
<1>5. Goes(session', disk.file, service.running, doubt, backend = "asterisk")
  BY <1>1, <1>3, <1>4
<1> QED BY <1>1, <1>5, ServiceNow, QuietMoves

\* Between bursts.
LEMMA PauseKeeps == TunerInv /\ Pause => TunerInv'
<1> SUFFICES ASSUME TunerInv, Pause PROVE TunerInv'
  OBVIOUS
<1> DEFINE n == [session EXCEPT !.at = "tone on"]
<1>1. /\ session.at = "pause" /\ IsSession(session) /\ session.at # "none"
      /\ UNCHANGED <<backend, disk, tools, lock, acked, unacked, doubt, service>>
      /\ session' \in {n, CleanUp(session)}
  BY DEF Pause, TunerInv, SessionSound, Sound
<1>2. n.at = "tone on" /\ Differs(n, session, {"at"})
  BY <1>1, MoveFields
<1> HIDE DEF n
<1>3. Goes(n, disk.file, service.running, doubt, backend = "asterisk")
  BY <1>1, <1>2, KeyingMoves DEF EarlyPlaces, Differs
<1>4. Goes(CleanUp(session), disk.file, service.running, doubt, backend = "asterisk")
  BY <1>1, CleanUpHere DEF EarlyPlaces
<1>5. Goes(session', disk.file, service.running, doubt, backend = "asterisk")
  BY <1>1, <1>3, <1>4
<1> QED BY <1>1, <1>5, ServiceNow, QuietMoves

\* A call of the clean-up, whatever it does.
LEMMA ReleaseKeeps ==
    ASSUME TunerInv, NEW at \in {"unkey", "tone off"}, NEW after, RunsOn(after, service),
           NEW sess, Release(at, after, sess),
           Goes(sess, disk.file, service.running, doubt, backend = "asterisk")
    PROVE  TunerInv'
<1>1. session.at = at /\ session' = sess
      /\ UNCHANGED <<backend, disk, tools, lock, acked, unacked, doubt>>
  BY DEF Release
<1>2. PICK call \in LiveOutcomes(service, after) : service' = call.service
  BY DEF Release
<1>3. RunsOn(service', service)
  BY <1>2, LiveCallRuns
<1> QED BY <1>1, <1>3, QuietMoves

\* The first call of the clean-up.
LEMMA UnkeyKeeps == TunerInv /\ Unkey => TunerInv'
<1> SUFFICES ASSUME TunerInv, Unkey PROVE TunerInv'
  OBVIOUS
<1> DEFINE n == [session EXCEPT !.at = "tone off"]
           m == IF session.tone THEN n ELSE Over(session)
<1>1. session.at = "unkey" /\ Release("unkey", Keyed(service, FALSE), m)
  BY DEF Unkey, Release
<1>2. Settling(session, disk.file, service.running, doubt, backend = "asterisk")
      /\ Kept(session, disk.file)
  BY <1>1, SessionSettling DEF LatePlaces
<1>3. Goes(n, disk.file, service.running, doubt, backend = "asterisk")
  BY <1>2, CleanUpFits
<1>4. Goes(Over(session), disk.file, service.running, doubt, backend = "asterisk")
  BY <1>2, MenuFits
<1>5. Goes(m, disk.file, service.running, doubt, backend = "asterisk")
  BY <1>3, <1>4
<1>6. RunsOn(Keyed(service, FALSE), service)
  BY ServiceNow, ServiceFacts
<1> HIDE DEF m
<1> QED BY <1>1, <1>5, <1>6, ReleaseKeeps

\* The last call of the clean-up.
LEMMA ToneOffKeeps == TunerInv /\ ToneOff => TunerInv'
<1> SUFFICES ASSUME TunerInv, ToneOff PROVE TunerInv'
  OBVIOUS
<1>1. session.at = "tone off" /\ Release("tone off", Toned(service, FALSE), Over(session))
  BY DEF ToneOff, Release
<1>2. Settling(session, disk.file, service.running, doubt, backend = "asterisk")
      /\ Kept(session, disk.file)
  BY <1>1, SessionSettling DEF LatePlaces
<1>3. Goes(Over(session), disk.file, service.running, doubt, backend = "asterisk")
  BY <1>2, MenuFits
<1>4. RunsOn(Toned(service, FALSE), service)
  BY ServiceNow, ServiceFacts
<1> QED BY <1>1, <1>3, <1>4, ReleaseKeeps

\* swap_usb_device after its restart.
LEMMA ReselectKeeps == TunerInv /\ Reselect => TunerInv'
<1> SUFFICES ASSUME TunerInv, Reselect PROVE TunerInv'
  OBVIOUS
<1>1. session.at = "reselect" /\ UNCHANGED <<backend, disk, tools, lock, acked, unacked, doubt>>
  BY DEF Reselect
<1>2. PICK call \in SelectOutcomes(service, session.selected) :
         service' = call.service /\ session' = IF call.ok THEN AtMenu(session) ELSE AtEnd
  BY DEF Reselect
<1>3. RunsOn(service', service)
  BY <1>2, ServiceNow, SelectFacts
<1>4. Settling(session, disk.file, service.running, doubt, backend = "asterisk")
      /\ Kept(session, disk.file)
  BY <1>1, SessionSettling DEF LatePlaces
<1>5. Goes(session', disk.file, service.running, doubt, backend = "asterisk")
  BY <1>2, <1>4, MenuFits
<1> QED BY <1>1, <1>3, <1>5, QuietMoves

\* An edit made while the transmitter is keyed.
LEMMA PromptAnsweredKeeps == TunerInv /\ PromptAnswered => TunerInv'
<1> SUFFICES ASSUME TunerInv, PromptAnswered PROVE TunerInv'
  OBVIOUS
<1> DEFINE s == [session EXCEPT !.adjust = TRUE]
           n == Write(s, "edit", Changed(session.from, "reload"), "reload")
<1>1. /\ session.at = "prompt" /\ session.at # "none"
      /\ UNCHANGED <<backend, disk, tools, lock, acked, unacked, doubt, service>>
      /\ session' \in {n, CleanUp(session)}
  BY DEF PromptAnswered
<1>2. /\ Settling(session, disk.file, service.running, doubt, backend = "asterisk")
      /\ disk.file = session.from /\ session.from = session.origin
  BY <1>1, SessionSettling DEF EarlyPlaces
<1>3. IsSession(session) /\ session.from \in Contents
  BY <1>2 DEF Settling
<1>4. Differs(s, session, {"adjust"})
  BY <1>3 DEF Differs, IsSession, SessionFields
<1>5. Changed(session.from, "reload") \in Contents
      /\ Changed(session.from, "reload").boot = session.from.boot
  BY <1>3 DEF Changed, Contents
<1>6. n.job = "edit" /\ n.to = Changed(session.from, "reload") /\ n.mode = "reload"
      /\ Differs(n, s, {"at", "job", "to", "mode", "back"})
  <2> IsSession(s)
    BY <1>4 DEF Differs
  <2> HIDE DEF s
  <2> QED BY WriteFields
<1> HIDE DEF s
<1>7. Settling(s, disk.file, service.running, doubt, backend = "asterisk")
  <2>1. Differs(s, session, {"at", "job", "failed", "told", "fatal", "back", "attempt", "best",
                             "adjust", "tone", "selected", "temp", "mode"})
    BY <1>4 DEF Differs
  <2> QED BY <1>2, <2>1, MovesSettling
<1>8. n["from"] = session["from"] /\ n["origin"] = session["origin"] /\ s["from"] = session["from"]
  BY <1>4, <1>6 DEF Differs, SessionFields
<1>9. JobInv(n, doubt, backend = "asterisk")
  <2> HIDE DEF n
  <2> QED BY <1>2, <1>5, <1>6, <1>8 DEF JobInv, SameBoot
<1>10. Goes(n, disk.file, service.running, doubt, backend = "asterisk")
  BY <1>2, <1>5, <1>7, <1>8, <1>9, WriteFits
<1>11. Goes(CleanUp(session), disk.file, service.running, doubt, backend = "asterisk")
  BY <1>1, CleanUpHere DEF EarlyPlaces
<1>12. Goes(session', disk.file, service.running, doubt, backend = "asterisk")
  BY <1>1, <1>10, <1>11
<1> QED BY <1>1, <1>12, ServiceNow, QuietMoves

-----------------------------------------------------------------------------
(* Calibrations *)

\* Another attempt of a calibration.
LEMMA RetriedFields ==
    ASSUME NEW s, IsSession(s), NEW at
    PROVE  Retried(s, at).at = at /\ Differs(Retried(s, at), s, {"at", "attempt"})
BY DEF Retried, Differs, IsSession, SessionFields

\* A gain calibration writes the next candidate.
LEMMA CandidateKeeps == TunerInv /\ Candidate => TunerInv'
<1> SUFFICES ASSUME TunerInv, Candidate PROVE TunerInv'
  OBVIOUS
<1>1. /\ session.at = "candidate" /\ session.at # "none"
      /\ UNCHANGED <<backend, disk, tools, lock, acked, unacked, doubt, service>>
  BY DEF Candidate
<1>2. PICK live \in 0..1 :
         session' = Write(session, "gain", [session.from EXCEPT !.live = live], "reload")
  BY DEF Candidate
<1>3. /\ Settling(session, disk.file, service.running, doubt, backend = "asterisk")
      /\ disk.file = session.from /\ session.from.boot = session.origin.boot
      /\ ~session.failed
  BY <1>1, SessionSettling DEF EarlyPlaces
<1>4. IsSession(session) /\ session.from \in Contents
  BY <1>3 DEF Settling
<1> DEFINE content == [session.from EXCEPT !.live = live]
           n == Write(session, "gain", content, "reload")
<1>5. content \in Contents /\ content.boot = session.from.boot
  BY <1>4 DEF Contents
<1> HIDE DEF content
<1>6. n.job = "gain" /\ n.to = content /\ n.mode = "reload"
      /\ Differs(n, session, {"at", "job", "to", "mode", "back"})
  BY <1>4, WriteFields
<1>7. JobInv(n, doubt, backend = "asterisk")
  <2> HIDE DEF n
  <2>1. n["from"] = session["from"] /\ n["origin"] = session["origin"]
        /\ n["failed"] = session["failed"]
    BY <1>6 DEF Differs, SessionFields
  <2> QED BY <1>3, <1>5, <1>6, <2>1 DEF JobInv, SameBoot
<1>8. Goes(n, disk.file, service.running, doubt, backend = "asterisk")
  BY <1>3, <1>5, <1>7, WriteFits
<1>9. session' = n
  BY <1>2 DEF content
<1> HIDE DEF n
<1> QED BY <1>1, <1>8, <1>9, ServiceNow, QuietMoves

\* It keeps the candidate, tries another or restores the file it found.
LEMMA MeasureGainKeeps == TunerInv /\ MeasureGain => TunerInv'
<1> SUFFICES ASSUME TunerInv, MeasureGain PROVE TunerInv'
  OBVIOUS
<1>1. /\ session.at = "measure" /\ session.at # "none"
      /\ UNCHANGED <<backend, disk, tools, lock, acked, unacked, doubt>>
  BY DEF MeasureGain
<1>2. PICK call \in Outcomes(service, service) :
         /\ service' = call.service
         /\ session' \in {Restore(session), AtMenu(session), Retried(session, "candidate")}
  BY DEF MeasureGain
<1>3. /\ Settling(session, disk.file, service.running, doubt, backend = "asterisk")
      /\ disk.file = session.from /\ session.from.boot = session.origin.boot
      /\ ~session.failed /\ Kept(session, disk.file)
  BY <1>1, SessionSettling DEF EarlyPlaces, Kept
<1>4. RunsOn(service', service)
  BY <1>2, ServiceNow, OutcomeFacts
<1>5. Goes(Restore(session), disk.file, service.running, doubt, backend = "asterisk")
  BY <1>3, RestoreFits
<1>6. Goes(AtMenu(session), disk.file, service.running, doubt, backend = "asterisk")
  BY <1>3, MenuFits
<1>7. Goes(Retried(session, "candidate"), disk.file, service.running, doubt, backend = "asterisk")
  <2> DEFINE n == Retried(session, "candidate")
  <2>1. n.at = "candidate" /\ Differs(n, session, {"at", "attempt"})
    BY <1>3, RetriedFields DEF Settling
  <2> HIDE DEF n
  <2>2. Differs(n, session, {"at", "attempt", "best", "adjust", "tone", "selected", "temp"})
    BY <2>1 DEF Differs
  <2>3. Goes(n, disk.file, service.running, doubt, backend = "asterisk")
    BY <1>3, <2>1, <2>2, EarlyMoves DEF EarlyPlaces
  <2> QED BY <2>3 DEF n
<1>8. Goes(session', disk.file, service.running, doubt, backend = "asterisk")
  BY <1>2, <1>5, <1>6, <1>7
<1> QED BY <1>1, <1>4, <1>8, QuietMoves

NoisePlaces == {"mixer", "observe", "best mixer", "noise level"}

\* A noise calibration that fails has written nothing.
LEMMA NoiseFailedFits ==
    ASSUME TunerInv, session.at \in NoisePlaces
    PROVE  Goes(NoiseFailed, disk.file, service.running, doubt, backend = "asterisk")
<1> DEFINE n == [session EXCEPT !.failed = TRUE]
<1>1. /\ Settling(session, disk.file, service.running, doubt, backend = "asterisk")
      /\ disk.file = session.from /\ session.from = session.origin
  BY SessionSettling DEF NoisePlaces, EarlyPlaces
<1>2. Differs(n, session, {"failed"})
  BY <1>1, NotedFields DEF Settling
<1> HIDE DEF n
<1>3. n["origin"] = session["origin"]
  BY <1>2 DEF Differs, SessionFields
<1>4. Differs(n, session, {"at", "job", "failed", "told", "fatal", "back", "attempt", "best",
                           "adjust", "tone", "selected", "temp", "mode"})
  BY <1>2 DEF Differs
<1>5. Settling(n, disk.file, service.running, doubt, backend = "asterisk")
  BY <1>1, <1>4, MovesSettling
<1>6. Goes(AtMenu(n), disk.file, service.running, doubt, backend = "asterisk")
  BY <1>1, <1>3, <1>5, MenuFits DEF Kept
<1> QED BY <1>6 DEF NoiseFailed, n

\* From one place of a noise calibration to another.
LEMMA NoiseMoves ==
    ASSUME TunerInv, session.at \in NoisePlaces,
           NEW n, Differs(n, session, {"at", "attempt", "best"}), n.at \in NoisePlaces
    PROVE  Goes(n, disk.file, service.running, doubt, backend = "asterisk")
<1>1. /\ Settling(session, disk.file, service.running, doubt, backend = "asterisk")
      /\ disk.file = session.from /\ session.from.boot = session.origin.boot
      /\ session.from = session.origin
  BY SessionSettling DEF NoisePlaces, EarlyPlaces
<1>2. Differs(n, session, {"at", "attempt", "best", "adjust", "tone", "selected", "temp"})
  BY DEF Differs
<1>3. n.at \in EarlyPlaces \ {"candidate", "measure"}
  BY DEF NoisePlaces, EarlyPlaces
<1> QED BY <1>1, <1>2, <1>3, EarlyMoves

\* A noise calibration moves the mixer, which the file does not say: doubt.
LEMMA SetMixerKeeps == TunerInv /\ SetMixer => TunerInv'
<1> SUFFICES ASSUME TunerInv, SetMixer PROVE TunerInv'
  OBVIOUS
<1> DEFINE moved == [service EXCEPT !.mixer = "moved"]
           o == [session EXCEPT !.at = "observe"]
           l == [session EXCEPT !.at = "noise level"]
<1>1. /\ session.at \in NoisePlaces /\ session.at # "none" /\ IsSession(session)
      /\ UNCHANGED <<backend, disk, tools, lock, acked, unacked>>
  BY DEF SetMixer, NoisePlaces, TunerInv, SessionSound, Sound
<1>2. PICK call \in LiveOutcomes(service, moved) :
         /\ service' = call.service
         /\ doubt' = IF call.service.mixer = "moved" THEN doubt \cup {"mixer"} ELSE doubt
         /\ session' \in {NoiseFailed, o, l}
  BY DEF SetMixer
<1>3. IsService(moved) /\ moved.running = service.running /\ moved.mixer = "moved"
  BY ServiceNow, MixerFields
<1>4. o.at = "observe" /\ Differs(o, session, {"at"})
      /\ l.at = "noise level" /\ Differs(l, session, {"at"})
  BY <1>1, MoveFields
<1> HIDE DEF moved, o, l
<1>5. RunsOn(call.service, service) \/ RunsOn(call.service, moved)
  BY <1>3, ServiceNow, LiveFacts
<1>6. /\ IsService(service') /\ service'.running = service.running
      /\ service'.mixer \in {service.mixer, "moved"}
  BY <1>2, <1>3, <1>5 DEF RunsOn
<1>7. doubt \subseteq doubt' /\ ("mixer" \in doubt' \/ service'.mixer = "file")
  BY <1>2, <1>6, ServiceNow
<1>8. Goes(session', disk.file, service.running, doubt, backend = "asterisk")
  <2>1. Goes(o, disk.file, service.running, doubt, backend = "asterisk")
    BY <1>1, <1>4, NoiseMoves DEF NoisePlaces, Differs
  <2>2. Goes(l, disk.file, service.running, doubt, backend = "asterisk")
    BY <1>1, <1>4, NoiseMoves DEF NoisePlaces, Differs
  <2> QED BY <1>1, <1>2, <2>1, <2>2, NoiseFailedFits
<1>9. Goes(session', disk.file, service'.running, doubt', backend = "asterisk")
  BY <1>6, <1>7, <1>8, DoubtExcuses DEF Goes
<1> QED BY <1>1, <1>6, <1>7, <1>9, ServiceNow, SessionMoves

\* It observes the level and goes on, back or gives up.
LEMMA ObserveKeeps == TunerInv /\ Observe => TunerInv'
<1> SUFFICES ASSUME TunerInv, Observe PROVE TunerInv'
  OBVIOUS
<1>1. /\ session.at = "observe" /\ session.at # "none" /\ IsSession(session)
      /\ UNCHANGED <<backend, disk, tools, lock, acked, unacked, doubt>>
  BY DEF Observe, TunerInv, SessionSound, Sound
<1>2. PICK call \in Outcomes(service, service), unclipped \in BOOLEAN :
         LET sess == [session EXCEPT !.best = @ \/ unclipped]
         IN  /\ service' = call.service
             /\ session' \in {NoiseFailed, [sess EXCEPT !.at = "best mixer", !.best = TRUE],
                              Retried(sess, "mixer"), [sess EXCEPT !.at = "best mixer"]}
  BY DEF Observe
<1> DEFINE best == session.best \/ unclipped
           sess == [session EXCEPT !.best = best]
           b == [sess EXCEPT !.at = "best mixer", !.best = TRUE]
           r == Retried(sess, "mixer")
           f == [sess EXCEPT !.at = "best mixer"]
<1>3. service' = call.service /\ session' \in {NoiseFailed, b, r, f}
  BY <1>2
<1>4. Differs(sess, session, {"best"})
  <2> HIDE DEF best
  <2> QED BY <1>1 DEF Differs, IsSession, SessionFields
<1> HIDE DEF sess
<1>5. b.at = "best mixer" /\ Differs(b, session, {"at", "attempt", "best"})
  BY <1>4 DEF Differs, IsSession, SessionFields
<1>6. r.at = "mixer" /\ Differs(r, session, {"at", "attempt", "best"})
  BY <1>4, RetriedFields DEF Differs, SessionFields
<1>7. f.at = "best mixer" /\ Differs(f, session, {"at", "attempt", "best"})
  BY <1>4 DEF Differs, IsSession, SessionFields
<1> HIDE DEF b, r, f
<1>8. \A n \in {b, r, f} : Goes(n, disk.file, service.running, doubt, backend = "asterisk")
  BY <1>1, <1>5, <1>6, <1>7, NoiseMoves DEF NoisePlaces
<1>9. Goes(NoiseFailed, disk.file, service.running, doubt, backend = "asterisk")
  BY <1>1, NoiseFailedFits DEF NoisePlaces
<1>10. Goes(session', disk.file, service.running, doubt, backend = "asterisk")
  BY <1>3, <1>8, <1>9
<1>11. RunsOn(service', service)
  BY <1>3, ServiceNow, OutcomeFacts
<1> QED BY <1>1, <1>10, <1>11, QuietMoves

\* What it measured is written.
LEMMA NoiseLevelKeeps == TunerInv /\ NoiseLevel => TunerInv'
<1> SUFFICES ASSUME TunerInv, NoiseLevel PROVE TunerInv'
  OBVIOUS
<1> DEFINE content == Changed(session.from, "reload")
           n == Write(session, "noise", content, "reload")
<1>1. /\ session.at = "noise level" /\ session.at # "none"
      /\ UNCHANGED <<backend, disk, tools, lock, acked, unacked, doubt>>
  BY DEF NoiseLevel
<1>2. PICK call \in Outcomes(service, service) :
         service' = call.service /\ session' \in {n, NoiseFailed}
  BY DEF NoiseLevel
<1>3. /\ Settling(session, disk.file, service.running, doubt, backend = "asterisk")
      /\ disk.file = session.from /\ session.from = session.origin
  BY <1>1, SessionSettling DEF EarlyPlaces
<1>4. IsSession(session) /\ session.from \in Contents
  BY <1>3 DEF Settling
<1>5. content \in Contents /\ content.boot = session.from.boot
  BY <1>4 DEF Contents, Changed
<1> HIDE DEF content
<1>6. n.job = "noise" /\ n.to = content /\ n.mode = "reload"
      /\ Differs(n, session, {"at", "job", "to", "mode", "back"})
  BY <1>4, WriteFields
<1>7. JobInv(n, doubt, backend = "asterisk")
  <2> HIDE DEF n
  <2>1. n["from"] = session["from"] /\ n["origin"] = session["origin"]
    BY <1>6 DEF Differs, SessionFields
  <2> QED BY <1>3, <1>5, <1>6, <2>1 DEF JobInv, SameBoot
<1>8. Goes(n, disk.file, service.running, doubt, backend = "asterisk")
  BY <1>3, <1>5, <1>7, WriteFits
<1>9. Goes(NoiseFailed, disk.file, service.running, doubt, backend = "asterisk")
  BY <1>1, NoiseFailedFits DEF NoisePlaces
<1> HIDE DEF n
<1>10. Goes(session', disk.file, service.running, doubt, backend = "asterisk")
  BY <1>2, <1>8, <1>9
<1>11. RunsOn(service', service)
  BY <1>2, ServiceNow, OutcomeFacts
<1> QED BY <1>1, <1>10, <1>11, QuietMoves

-----------------------------------------------------------------------------
(* Menu choices *)

\* Every choice starts from the file as it is.
LEMMA ChosenFits ==
    ASSUME TunerInv, session.at = "menu", NEW job
    PROVE  LET b == Chosen(job)
           IN  /\ Settling(b, disk.file, service.running, doubt, backend = "asterisk")
               /\ b.from = disk.file /\ b.origin = disk.file /\ ~b.failed /\ ~b.told
               /\ b.saved = session.saved /\ b.restart_changed = session.restart_changed
<1> DEFINE b == Chosen(job)
<1>1. Settling(session, disk.file, service.running, doubt, backend = "asterisk")
      /\ disk.file \in Contents
  BY SessionSettling, SessionHasFile DEF LatePlaces
<1>2. /\ b.origin = disk.file /\ b.from = disk.file /\ ~b.failed /\ ~b.told
      /\ Differs(b, session, {"origin", "from", "job", "attempt", "best", "adjust",
                              "tone", "failed", "told", "fatal"})
  BY <1>1, ChosenFields DEF Settling
<1> HIDE DEF b
<1>3. b["saved"] = session["saved"] /\ b["restart_changed"] = session["restart_changed"]
      /\ b["to"] = session["to"] /\ IsSession(b)
  BY <1>2 DEF Differs, SessionFields
<1>4. Settling(b, disk.file, service.running, doubt, backend = "asterisk")
  BY <1>1, <1>2, <1>3 DEF Settling
<1> QED BY <1>2, <1>3, <1>4 DEF b

\* A choice that goes to a sound place keeps the invariant.
LEMMA ChooseKeeps ==
    ASSUME TunerInv, NEW sess, Choose(sess),
           Goes(sess, disk.file, service.running, doubt, backend = "asterisk")
    PROVE  TunerInv'
<1>1. /\ session.at # "none" /\ session' = sess
      /\ UNCHANGED <<backend, disk, service, tools, lock, acked, unacked, doubt>>
  BY DEF Choose
<1> QED BY <1>1, ServiceNow, QuietMoves

\* A choice that writes.
LEMMA ChosenWriteFits ==
    ASSUME TunerInv, session.at = "menu", NEW job \in {"edit", "swap", "discard", "finish"},
           NEW content \in Contents, NEW mode \in {"reload", "restart"},
           backend = "asterisk" /\ mode = "reload" => SameBoot(disk.file, content, doubt),
           job \in {"discard", "finish"} => content = session.saved
    PROVE  Goes(Write(Chosen(job), job, content, mode), disk.file, service.running, doubt,
                backend = "asterisk")
<1> DEFINE b == Chosen(job)
           n == Write(b, job, content, mode)
<1>1. /\ Settling(b, disk.file, service.running, doubt, backend = "asterisk")
      /\ b.from = disk.file /\ b.origin = disk.file
      /\ b.saved = session.saved
  BY ChosenFits
<1> HIDE DEF b
<1>2. n.job = job /\ n.to = content /\ n.mode = mode
      /\ Differs(n, b, {"at", "job", "to", "mode", "back"})
  BY <1>1, WriteFields DEF Settling
<1>3. JobInv(n, doubt, backend = "asterisk")
  <2> HIDE DEF n
  <2>1. n["from"] = b["from"] /\ n["origin"] = b["origin"] /\ n["saved"] = b["saved"]
    BY <1>2 DEF Differs, SessionFields
  <2> QED BY <1>1, <1>2, <2>1 DEF JobInv
<1>4. Goes(n, disk.file, service.running, doubt, backend = "asterisk")
  BY <1>1, <1>3, WriteFits
<1> QED BY <1>4 DEF b, n

\* A choice that first measures, keys or asks.
LEMMA ChosenEarlyFits ==
    ASSUME TunerInv, session.at = "menu", NEW job, NEW n,
           Differs(n, Chosen(job), {"at", "tone"}), n.at \in EarlyPlaces
    PROVE  Goes(n, disk.file, service.running, doubt, backend = "asterisk")
<1> DEFINE b == Chosen(job)
<1>1. /\ Settling(b, disk.file, service.running, doubt, backend = "asterisk")
      /\ b.from = disk.file /\ b.origin = disk.file /\ ~b.failed
  BY ChosenFits
<1>2. Differs(n, b, {"at", "attempt", "best", "adjust", "tone", "selected", "temp"})
  BY DEF Differs
<1> HIDE DEF b
<1> QED BY <1>1, <1>2, EarlyMoves

\* A setting taken up by a reload leaves the boot part.
LEMMA ChangedFits ==
    ASSUME NEW content \in Contents, NEW mode
    PROVE  /\ Changed(content, mode) \in Contents
           /\ mode = "reload" => Changed(content, mode).boot = content.boot
BY DEF Changed, Contents

\* edit_setting and select_profiles.
LEMMA EditKeeps ==
    ASSUME TunerInv, NEW mode \in {"reload", "restart"}, Edit(mode) PROVE TunerInv'
<1>1. session.at = "menu" /\ disk.file \in Contents
  BY SessionHasFile DEF Edit, Choose
<1>2. Goes(Write(Chosen("edit"), "edit", Changed(disk.file, mode), mode), disk.file,
           service.running, doubt, backend = "asterisk")
  BY <1>1, ChangedFits, ChosenWriteFits DEF SameBoot
<1> QED BY <1>2, ChooseKeeps DEF Edit

\* swap_usb_device.
LEMMA SwapKeeps == TunerInv /\ SwapUsbDevice => TunerInv'
<1> SUFFICES ASSUME TunerInv, SwapUsbDevice PROVE TunerInv'
  OBVIOUS
<1>1. session.at = "menu" /\ disk.file \in Contents
  BY SessionHasFile DEF SwapUsbDevice, Choose
<1>2. Goes(Write(Chosen("swap"), "swap", Changed(disk.file, "restart"), "restart"), disk.file,
           service.running, doubt, backend = "asterisk")
  BY <1>1, ChangedFits, ChosenWriteFits
<1> QED BY <1>2, ChooseKeeps DEF SwapUsbDevice

\* Saving makes the file the one to go back to, and forgets the restarts.
LEMMA SaveKeeps == TunerInv /\ SaveSession => TunerInv'
<1> SUFFICES ASSUME TunerInv, SaveSession PROVE TunerInv'
  OBVIOUS
<1> DEFINE b == Chosen("save")
           n == [b EXCEPT !.saved = disk.file, !.restart_changed = FALSE]
<1>1. session.at = "menu" /\ disk.file \in Contents
  BY SessionHasFile DEF SaveSession, Choose
<1>2. /\ Settling(b, disk.file, service.running, doubt, backend = "asterisk")
      /\ ~b.failed
  BY <1>1, ChosenFits
<1> HIDE DEF b
<1>3. n.saved = disk.file /\ Differs(n, b, {"saved", "restart_changed"})
  BY <1>2 DEF Settling, Differs, IsSession, SessionFields
<1> HIDE DEF n
<1>4. n["origin"] = b["origin"] /\ n["from"] = b["from"] /\ n["to"] = b["to"]
      /\ n["failed"] = b["failed"] /\ IsSession(n)
  BY <1>3 DEF Differs, SessionFields
<1>5. Settling(n, disk.file, service.running, doubt, backend = "asterisk") /\ Kept(n, disk.file)
  BY <1>1, <1>2, <1>3, <1>4 DEF Settling, Kept, SameBoot
<1>6. Goes(AtMenu(n), disk.file, service.running, doubt, backend = "asterisk")
  BY <1>5, MenuFits
<1> QED BY <1>6, ChooseKeeps DEF SaveSession, n, b

\* Going back to the saved configuration: with a restart if anything since
\* needed one.
LEMMA DiscardKeeps ==
    ASSUME TunerInv, NEW job \in {"discard", "finish"}, DiscardSessionChanges(job)
    PROVE  TunerInv'
<1> DEFINE b == Chosen(job)
           w == Write(b, job, session.saved, DiscardMode(session))
           n == IF disk.file = session.saved
                THEN IF job = "finish" THEN AtEnd ELSE AtMenu(b)
                ELSE w
<1>1. session.at = "menu" /\ Choose(n)
  BY DEF DiscardSessionChanges, Choose
<1>2. /\ Settling(b, disk.file, service.running, doubt, backend = "asterisk")
      /\ ~b.failed
  BY <1>1, ChosenFits
<1>3. /\ Goes(AtMenu(b), disk.file, service.running, doubt, backend = "asterisk")
      /\ Goes(AtEnd, disk.file, service.running, doubt, backend = "asterisk")
  BY <1>2, MenuFits DEF Kept
<1>4. Settling(session, disk.file, service.running, doubt, backend = "asterisk")
  BY <1>1, SessionSettling DEF LatePlaces
<1>5. /\ DiscardMode(session) \in {"reload", "restart"} /\ session.saved \in Contents
      /\ backend = "asterisk" /\ DiscardMode(session) = "reload" =>
            SameBoot(disk.file, session.saved, doubt)
  BY <1>4 DEF DiscardMode, Settling, SameBoot
<1>6. Goes(w, disk.file, service.running, doubt, backend = "asterisk")
  BY <1>1, <1>5, ChosenWriteFits
<1>7. Goes(n, disk.file, service.running, doubt, backend = "asterisk")
  <2> HIDE DEF w, b
  <2> QED BY <1>3, <1>6
<1> HIDE DEF n
<1> QED BY <1>1, <1>7, ChooseKeeps

\* Leaving with nothing to discard.
LEMMA LeaveKeeps == TunerInv /\ LeaveSaved => TunerInv'
<1> SUFFICES ASSUME TunerInv, LeaveSaved PROVE TunerInv'
  OBVIOUS
<1>1. session.at = "menu"
  BY DEF LeaveSaved, Choose
<1>2. Settling(session, disk.file, service.running, doubt, backend = "asterisk")
      /\ Kept(session, disk.file)
  BY <1>1, SessionSettling DEF LatePlaces
<1>3. Goes(AtEnd, disk.file, service.running, doubt, backend = "asterisk")
  BY <1>2, MenuFits
<1> QED BY <1>3, ChooseKeeps DEF LeaveSaved

\* The calibrations start by measuring.
LEMMA CalibrationChoicesKeep == TunerInv /\ (CalibrateGain \/ CalibrateNoise) => TunerInv'
<1> SUFFICES ASSUME TunerInv, CalibrateGain \/ CalibrateNoise PROVE TunerInv'
  OBVIOUS
<1>1. session.at = "menu"
  BY DEF CalibrateGain, CalibrateNoise, Choose
<1>2. \A job : IsSession(Chosen(job))
  BY <1>1, ChosenFits DEF Settling
<1>3. \A job, p : [Chosen(job) EXCEPT !.at = p].at = p
                  /\ Differs([Chosen(job) EXCEPT !.at = p], Chosen(job), {"at", "tone"})
  BY <1>2 DEF Differs, IsSession, SessionFields
<1>4. \A job, p : p \in EarlyPlaces =>
         Goes([Chosen(job) EXCEPT !.at = p], disk.file, service.running, doubt,
              backend = "asterisk")
  BY <1>1, <1>3, ChosenEarlyFits
<1>5. CASE CalibrateGain
  BY <1>4, <1>5, ChooseKeeps DEF CalibrateGain, EarlyPlaces
<1>6. CASE CalibrateNoise
  BY <1>4, <1>6, ChooseKeeps DEF CalibrateNoise, EarlyPlaces
<1> QED BY <1>5, <1>6

\* A choice that keys the transmitter, with a test tone or without.
LEMMA KeyingChoiceKeeps ==
    ASSUME TunerInv, NEW job, NEW p \in {"tone on", "key"}, NEW tone,
           Choose([Chosen(job) EXCEPT !.at = p, !.tone = tone])
    PROVE  TunerInv'
<1> DEFINE b == Chosen(job)
           n == [b EXCEPT !.at = p, !.tone = tone]
<1>1. session.at = "menu"
  BY DEF Choose
<1>2. IsSession(b)
  BY <1>1, ChosenFits DEF Settling
<1> HIDE DEF b
<1>3. n.at = p /\ Differs(n, b, {"at", "tone"})
  BY <1>2 DEF Differs, IsSession, SessionFields
<1> HIDE DEF n
<1>4. Goes(n, disk.file, service.running, doubt, backend = "asterisk")
  BY <1>1, <1>3, ChosenEarlyFits DEF EarlyPlaces, b
<1> QED BY <1>4, ChooseKeeps DEF n, b

\* flash_transmitter.
LEMMA FlashKeeps == TunerInv /\ FlashTransmitter => TunerInv'
BY KeyingChoiceKeeps DEF FlashTransmitter

\* adjust_keyed_setting.
LEMMA AdjustKeeps == ASSUME TunerInv, NEW tone, AdjustTransmit(tone) PROVE TunerInv'
<1>1. (IF tone THEN "tone on" ELSE "key") \in {"tone on", "key"}
  OBVIOUS
<1> QED BY <1>1, KeyingChoiceKeeps DEF AdjustTransmit

\* Another channel.
LEMMA ChooseChannelKeeps == TunerInv /\ ChooseChannel => TunerInv'
<1> SUFFICES ASSUME TunerInv, ChooseChannel PROVE TunerInv'
  OBVIOUS
<1>1. /\ session.at = "menu" /\ session.at # "none"
      /\ UNCHANGED <<backend, disk, tools, lock, acked, unacked, doubt>>
  BY DEF ChooseChannel
<1> DEFINE b == Chosen("channel")
<1>r. PICK r \in Radios : \E call \in SelectOutcomes(service, r) :
         /\ service' = call.service
         /\ session' = AtMenu([b EXCEPT !.selected = IF call.ok THEN r ELSE @])
  BY DEF ChooseChannel
<1>2. PICK call \in SelectOutcomes(service, r) :
         /\ service' = call.service
         /\ session' = AtMenu([b EXCEPT !.selected = IF call.ok THEN r ELSE @])
  BY <1>r
<1> DEFINE node == IF call.ok THEN r ELSE b.selected
           n == [b EXCEPT !.selected = node]
<1>3. Settling(b, disk.file, service.running, doubt, backend = "asterisk") /\ ~b.failed
  BY <1>1, ChosenFits
<1>4. session' = AtMenu(n)
  BY <1>2
<1> HIDE DEF b, node
<1>5. Differs(n, b, {"selected"})
  BY <1>3 DEF Settling, Differs, IsSession, SessionFields
<1> HIDE DEF n
<1>6. n["failed"] = b["failed"]
  BY <1>5 DEF Differs, SessionFields
<1>7. Differs(n, b, {"at", "job", "failed", "told", "fatal", "back", "attempt", "best",
                     "adjust", "tone", "selected", "temp", "mode"})
  BY <1>5 DEF Differs
<1>8. Settling(n, disk.file, service.running, doubt, backend = "asterisk") /\ Kept(n, disk.file)
  BY <1>3, <1>6, <1>7, MovesSettling DEF Kept
<1>9. Goes(session', disk.file, service.running, doubt, backend = "asterisk")
  BY <1>4, <1>8, MenuFits
<1>10. RunsOn(service', service)
  BY <1>2, ServiceNow, SelectFacts
<1> QED BY <1>1, <1>9, <1>10, QuietMoves

-----------------------------------------------------------------------------
(* Tools that come and go *)

\* Without a session any file and service will do.
LEMMA NoSessionSound ==
    ASSUME NEW file, NEW runs, NEW doubtful, NEW asterisk,
           file # NoFile => InLine(runs, file, doubtful)
    PROVE  Sound(NoSession, file, runs, doubtful, asterisk)
<1>1. /\ NoSession.saved = Sample /\ NoSession.origin = Sample /\ NoSession.from = Sample
      /\ NoSession.to = Sample
  BY DEF NoSession
<1> QED BY <1>1, NoSessionFields, SampleFits
        DEF Sound, EarlyPlaces, LatePlaces, Chain, Places

\* A tool step that changes only how far its tool has come.
LEMMA ToolMoves ==
    ASSUME TunerInv, NEW t \in Tools, NEW place \in {"off", "creating", "ready", "linked"},
           tools[t] # "session", tools' = [tools EXCEPT ![t] = place],
           UNCHANGED <<backend, disk, service, lock, session, acked, unacked, doubt>>,
           place \in {"ready", "linked"} => disk.file # NoFile
    PROVE  TunerInv'
<1>1. OwnerInv'
  BY DEF TunerInv, OwnerInv
<1>2. FileInv' /\ ServiceInv' /\ SessionSound'
  BY DEF TunerInv, FileInv, ServiceInv, SessionSound, AcknowledgedFileKept
<1> QED BY <1>1, <1>2 DEF TunerInv

\* A tool starts: ensure_exists looks for the file.
LEMMA ToolStartsKeeps == ASSUME TunerInv, NEW t \in Tools, ToolStarts(t) PROVE TunerInv'
<1>1. tools[t] # "session"
  BY DEF ToolStarts
<1>2. CASE disk.file = NoFile
  BY <1>1, <1>2, ToolMoves DEF ToolStarts
<1>3. CASE disk.file # NoFile
  BY <1>1, <1>3, ToolMoves DEF ToolStarts
<1> QED BY <1>2, <1>3

\* A tool that ends before its session.
LEMMA ToolGivesUpKeeps == ASSUME TunerInv, NEW t \in Tools, ToolGivesUp(t) PROVE TunerInv'
BY ToolMoves DEF ToolGivesUp

\* Two tools may both find no file; the second link leaves the first one's.
LEMMA CreateFileKeeps == ASSUME TunerInv, NEW t \in Tools, CreateFile(t) PROVE TunerInv'
<1>1. /\ tools[t] = "creating"
      /\ UNCHANGED <<backend, service, lock, session, acked>>
  BY DEF CreateFile
<1>2. CASE tools' = [tools EXCEPT ![t] = "off"] /\ UNCHANGED <<disk, unacked, doubt>>
  BY <1>1, <1>2, ToolMoves
<1>3. CASE /\ disk' = Linked(disk, Sample)
           /\ unacked' = IF disk.file = NoFile THEN unacked \cup {Sample} ELSE unacked
           /\ tools' = [tools EXCEPT ![t] = IF disk' = disk THEN "ready" ELSE "linked"]
           /\ doubt' = IF disk' = disk THEN doubt ELSE {"live", "boot"}
  <2>1. CASE disk.file # NoFile
    <3>1. disk' = disk /\ unacked' = unacked
      BY <1>3, <2>1 DEF Linked
    <3> QED BY <1>1, <1>3, <2>1, <3>1, ToolMoves
  <2>2. CASE disk.file = NoFile
    <3>1. disk' = [file |-> Sample, durable |-> disk.durable \cup {Sample}]
      BY <1>3, <2>2 DEF Linked, Renamed, FilePrepared
    <3>2. disk'.file = Sample /\ disk' # disk
      BY <2>2, <3>1, SampleFits
    <3>3. /\ unacked' = unacked \cup {Sample} /\ doubt' = {"live", "boot"}
          /\ tools' = [tools EXCEPT ![t] = "linked"]
      BY <1>3, <2>2, <3>2
    <3>4. session.at = "none"
      BY <2>2, SessionHasFile, SampleFits
    <3>5. OwnerInv'
      BY <1>1, <3>2, <3>3, SampleFits DEF TunerInv, OwnerInv
    <3>6. FileInv'
      BY <1>1, <3>1, <3>3, SampleFits DEF TunerInv, FileInv, AcknowledgedFileKept, Files
    <3>7. ServiceInv'
      BY <1>1, <2>2, <3>2, <3>3, SampleFits DEF TunerInv, ServiceInv
    <3>8. InLine(service.running, Sample, doubt')
      BY <3>3 DEF InLine, AllParts
    <3>9. SessionSound'
      <4>1. Sound(session, disk'.file, service.running, doubt', backend = "asterisk")
        BY <3>2, <3>4, <3>8
           DEF TunerInv, SessionSound, Sound, EarlyPlaces, LatePlaces, Chain, Places
      <4> QED BY <1>1, <4>1 DEF SessionSound
    <3> QED BY <3>5, <3>6, <3>7, <3>9 DEF TunerInv
  <2> QED BY <2>1, <2>2
<1> QED BY <1>2, <1>3 DEF CreateFile

\* The directory of a created file is synchronised, or not.
LEMMA FinishCreatingKeeps == ASSUME TunerInv, NEW t \in Tools, FinishCreating(t) PROVE TunerInv'
<1>1. /\ tools[t] = "linked" /\ disk.file # NoFile
      /\ UNCHANGED <<backend, service, lock, session, doubt>>
  BY DEF FinishCreating, TunerInv, OwnerInv
<1>2. CASE tools' = [tools EXCEPT ![t] = "off"] /\ UNCHANGED <<disk, acked, unacked>>
  BY <1>1, <1>2, ToolMoves
<1>3. CASE /\ disk' = Synchronised(disk)
           /\ acked' = disk.file /\ unacked' = {}
           /\ tools' = [tools EXCEPT ![t] = "ready"]
  <2>1. disk' = [file |-> disk.file, durable |-> {disk.file}]
    BY <1>3 DEF Synchronised, TunerInv, FileInv
  <2>2. disk'.file = disk.file
    BY <2>1
  <2>3. OwnerInv'
    BY <1>1, <1>3, <2>2 DEF TunerInv, OwnerInv
  <2>4. FileInv'
    <3>1. disk.file \in Files
      BY DEF TunerInv, FileInv
    <3> QED BY <1>3, <2>1, <3>1 DEF FileInv, AcknowledgedFileKept
  <2>5. ServiceInv' /\ SessionSound'
    BY <1>1, <2>2 DEF TunerInv, ServiceInv, SessionSound
  <2> QED BY <2>3, <2>4, <2>5 DEF TunerInv
<1> QED BY <1>2, <1>3 DEF FinishCreating

\* A session starts at the menu with the file as its saved configuration.
LEMMA SessionStartsKeeps == ASSUME TunerInv, NEW t \in Tools, SessionStarts(t) PROVE TunerInv'
<1> DEFINE fresh == [NoSession EXCEPT !.at = "menu", !.saved = disk.file]
           opened == Opened(service)
<1>1. /\ tools[t] = "ready" /\ lock = NoTool /\ lock' = t
      /\ tools' = [tools EXCEPT ![t] = "session"]
      /\ UNCHANGED <<backend, disk, acked, unacked, doubt>>
  BY DEF SessionStarts, LockFree
<1>2. disk.file \in Contents /\ disk.file # NoFile
  BY <1>1, SampleFits DEF TunerInv, OwnerInv, FileInv, Files
<1>3. \E r, node : \E call \in SelectOutcomes(opened, r) :
         /\ service' = call.service
         /\ session' \in {AtEnd, [fresh EXCEPT !.selected = node]}
  BY DEF SessionStarts
<1>4. IsService(opened) /\ RunsOn(opened, service)
  BY ServiceNow, ServiceFacts DEF RunsOn
<1> HIDE DEF opened
<1>5. RunsOn(service', service)
  BY <1>3, <1>4, SelectFacts DEF RunsOn
<1>6. IsSession(fresh) /\ fresh.at = "menu" /\ fresh.saved = disk.file
      /\ fresh.origin = Sample /\ fresh.from = Sample /\ fresh.to = Sample
  BY DEF NoSession, IsSession, SessionFields
<1>7. fresh.failed = FALSE
  BY DEF NoSession
<1> HIDE DEF fresh
<1>8. InLine(service.running, disk.file, doubt)
  <2>1. session.at = "none"
    BY <1>1 DEF TunerInv, OwnerInv
  <2> QED BY <1>2, <2>1 DEF TunerInv, SessionSound, Sound, Chain
<1>9. \A node : Goes([fresh EXCEPT !.selected = node], disk.file, service.running, doubt,
                     backend = "asterisk")
  <2> TAKE node
  <2> DEFINE n == [fresh EXCEPT !.selected = node]
  <2>1. Differs(n, fresh, {"selected"})
    BY <1>6 DEF Differs, IsSession, SessionFields
  <2> HIDE DEF n
  <2>2. /\ n["saved"] = fresh["saved"] /\ n["origin"] = fresh["origin"]
        /\ n["from"] = fresh["from"] /\ n["to"] = fresh["to"] /\ n["failed"] = fresh["failed"]
        /\ n["at"] = fresh["at"] /\ IsSession(n)
    BY <2>1 DEF Differs, SessionFields
  <2>3. Settling(n, disk.file, service.running, doubt, backend = "asterisk") /\ Kept(n, disk.file)
    BY <1>2, <1>6, <1>7, <1>8, <2>2, SampleFits DEF Settling, Kept, SameBoot
  <2>4. Goes(n, disk.file, service.running, doubt, backend = "asterisk")
    BY <1>6, <2>2, <2>3, LateFits DEF LatePlaces
  <2> QED BY <2>4 DEF n
<1>10. Goes(AtEnd, disk.file, service.running, doubt, backend = "asterisk")
  BY <1>8, EndFields, SampleFits DEF Goes, Sound, LatePlaces, EarlyPlaces, Chain, Places
<1>11. Goes(session', disk.file, service.running, doubt, backend = "asterisk")
  BY <1>3, <1>9, <1>10
<1>12. OwnerInv'
  BY <1>1, <1>2, <1>11, TuningAssumption DEF TunerInv, OwnerInv, Goes
<1>13. FileInv' /\ ServiceInv' /\ SessionSound'
  BY <1>1, <1>2, <1>5, <1>11
     DEF TunerInv, FileInv, ServiceInv, SessionSound, AcknowledgedFileKept, RunsOn, Goes
<1> QED BY <1>12, <1>13 DEF TunerInv

\* A session ends, by itself or with its process: its lock and connection go,
\* the file and what the service runs stay.
LEMMA SessionGone ==
    ASSUME TunerInv, lock' = NoTool, tools' = [tools EXCEPT ![lock] = "off"],
           session' = NoSession, service' = Released(service),
           UNCHANGED <<backend, disk, acked, unacked>>, doubt \subseteq doubt',
           lock \in Tools,
           InLine(service.running, disk.file, doubt')
    PROVE  TunerInv'
<1>1. RunsOn(service', service)
  BY ServiceNow, ServiceFacts
<1>2. OwnerInv'
  BY NoSessionFields, TuningAssumption DEF TunerInv, OwnerInv
<1>3. FileInv' /\ ServiceInv'
  BY <1>1 DEF TunerInv, FileInv, ServiceInv, AcknowledgedFileKept, RunsOn
<1>4. Sound(NoSession, disk.file, service.running, doubt', backend = "asterisk")
  BY NoSessionSound
<1>5. SessionSound'
  BY <1>1, <1>4 DEF SessionSound, RunsOn
<1> QED BY <1>2, <1>3, <1>5 DEF TunerInv

\* A session that has ended gives up its lock.
LEMMA SessionClosesKeeps == TunerInv /\ SessionCloses => TunerInv'
<1> SUFFICES ASSUME TunerInv, SessionCloses PROVE TunerInv'
  OBVIOUS
<1>1. session.at = "ended" /\ session.at # "none"
  BY DEF SessionCloses
<1>2. lock \in Tools /\ disk.file # NoFile
  BY <1>1, SessionHasFile, SampleFits
<1>3. InLine(service.running, disk.file, doubt)
  BY <1>1, <1>2 DEF TunerInv, SessionSound, Sound, Chain
<1> QED BY <1>2, <1>3, SessionGone DEF SessionCloses

\* A tool may be killed anywhere, its service left with what it runs.
LEMMA KilledKeeps == ASSUME TunerInv, NEW t \in Tools, Killed(t) PROVE TunerInv'
<1>1. /\ tools' = [tools EXCEPT ![t] = "off"]
      /\ UNCHANGED <<backend, disk, acked, unacked>>
  BY DEF Killed
<1>2. CASE lock = t
  <2>1. /\ lock' = NoTool /\ session' = NoSession /\ service' = Released(service)
        /\ doubt' = doubt \cup AllParts
    BY <1>2 DEF Killed
  <2>2. InLine(service.running, disk.file, doubt')
    BY <2>1 DEF InLine
  <2> QED BY <1>1, <1>2, <2>1, <2>2, SessionGone
<1>3. CASE lock # t
  <2>1. UNCHANGED <<lock, session, service, doubt>>
    BY <1>3 DEF Killed
  <2>2. tools[t] # "session"
    BY <1>3 DEF TunerInv, OwnerInv
  <2> QED BY <1>1, <2>1, <2>2, ToolMoves
<1> QED BY <1>2, <1>3

\* The machine comes back with an acknowledged file or a complete later one,
\* and a service that read it.
LEMMA PowerLossKeeps == TunerInv /\ PowerLoss => TunerInv'
<1> SUFFICES ASSUME TunerInv, PowerLoss PROVE TunerInv'
  OBVIOUS
<1>1. PICK file \in disk.durable \ {Torn} :
         /\ disk' = [file |-> file, durable |-> {file}]
         /\ acked' = file
         /\ service' = [AfterRestart(service, IF file = NoFile THEN Sample ELSE file)
                           EXCEPT !.link = TRUE]
  BY DEF PowerLoss
<1>2. /\ unacked' = {} /\ doubt' = {} /\ tools' = [t \in Tools |-> "off"]
      /\ lock' = NoTool /\ session' = NoSession /\ backend' = backend
  BY DEF PowerLoss
<1>3. file \in Files
  BY DEF TunerInv, FileInv, AcknowledgedFileKept, Files
<1> DEFINE content == IF file = NoFile THEN Sample ELSE file
<1>4. content \in Contents
  BY <1>3, SampleFits DEF Files
<1>5. (file # NoFile => content = file)
  OBVIOUS
<1> HIDE DEF content
<1>6. IsService(service') /\ service'.running = content /\ service'.mixer = "file"
  <2>1. IsService(Silent(service))
    BY ServiceNow, ServiceFacts DEF RunsOn
  <2>2. service' = [AfterRestart(service, content) EXCEPT !.link = TRUE]
    BY <1>1 DEF content
  <2> QED BY <2>1, <2>2 DEF AfterRestart, IsService, ServiceFields
<1>7. OwnerInv'
  BY <1>2, NoSessionFields, TuningAssumption DEF TunerInv, OwnerInv
<1>8. FileInv'
  BY <1>1, <1>2, <1>3 DEF FileInv, AcknowledgedFileKept
<1>9. ServiceInv'
  BY <1>2, <1>4, <1>6 DEF TunerInv, ServiceInv
<1>10. SessionSound'
  <2>1. disk'.file = file
    BY <1>1
  <2>2. file # NoFile => InLine(content, file, {})
    BY <1>5 DEF InLine
  <2>3. Sound(NoSession, file, content, {}, backend = "asterisk")
    BY <2>2, NoSessionSound
  <2> QED BY <1>2, <1>6, <2>1, <2>3 DEF SessionSound
<1> QED BY <1>7, <1>8, <1>9, <1>10 DEF TunerInv

-----------------------------------------------------------------------------
(* The theorems *)

\* The initial states satisfy the invariant.
LEMMA TunerStarts == TunerInit => TunerInv
<1> SUFFICES ASSUME TunerInit PROVE TunerInv
  OBVIOUS
<1>1. PICK file \in {NoFile, Sample} : disk = [file |-> file, durable |-> {file}] /\ acked = file
  BY DEF TunerInit
<1>2. PICK r \in Radios :
         service = [running |-> Sample, mixer |-> "file", keyed |-> {}, toned |-> {},
                    configured |-> r, active |-> r, link |-> TRUE]
  BY DEF TunerInit
<1>3. IsService(service) /\ service.running = Sample /\ service.mixer = "file"
  BY <1>2 DEF IsService, ServiceFields
<1>4. /\ backend \in {"asterisk", "standalone"} /\ tools = [t \in Tools |-> "off"]
      /\ lock = NoTool /\ session = NoSession /\ unacked = {} /\ doubt = {}
  BY DEF TunerInit
<1>5. OwnerInv
  BY <1>4, NoSessionFields, TuningAssumption DEF OwnerInv
<1>6. FileInv
  BY <1>1, <1>4, SampleFits DEF FileInv, AcknowledgedFileKept, Files
<1>7. ServiceInv
  BY <1>3, <1>4, SampleFits DEF ServiceInv
<1>8. SessionSound
  <2>1. disk.file = file /\ (file # NoFile => InLine(Sample, file, {}))
    BY <1>1 DEF InLine
  <2>2. Sound(NoSession, file, Sample, {}, backend = "asterisk")
    BY <2>1, NoSessionSound
  <2> QED BY <1>3, <1>4, <2>1, <2>2 DEF SessionSound
<1> QED BY <1>5, <1>6, <1>7, <1>8 DEF TunerInv

\* So does every step.
LEMMA TunerKeeps == TunerInv /\ [TunerNext]_tunerVars => TunerInv'
<1> SUFFICES ASSUME TunerInv, [TunerNext]_tunerVars PROVE TunerInv'
  OBVIOUS
<1>1. CASE SessionStep
  BY <1>1, WriteTemporaryKeeps, ReplaceFileKeeps, SyncDirectoryKeeps, ApplyKeeps, ReselectKeeps,
     CandidateKeeps, MeasureGainKeeps, SetMixerKeeps, ObserveKeeps, NoiseLevelKeeps,
     ToneOnKeeps, KeyKeeps, HoldKeeps, BurstUnkeyKeeps, BurstQuietKeeps, PauseKeeps,
     UnkeyKeeps, ToneOffKeeps, SessionClosesKeeps DEF SessionStep
<1>2. CASE MenuChoice
  <2>1. CASE Edit("reload") \/ Edit("restart")
    BY <2>1, EditKeeps
  <2>2. CASE DiscardSessionChanges("discard") \/ DiscardSessionChanges("finish")
    BY <2>2, DiscardKeeps
  <2>3. CASE AdjustTransmit(TRUE) \/ AdjustTransmit(FALSE)
    BY <2>3, AdjustKeeps
  <2> QED BY <1>2, <2>1, <2>2, <2>3, SwapKeeps, ChooseChannelKeeps, SaveKeeps, LeaveKeeps,
             CalibrationChoicesKeep, FlashKeeps DEF MenuChoice
<1>3. CASE PromptAnswered
  BY <1>3, PromptAnsweredKeeps
<1>4. CASE PowerLoss
  BY <1>4, PowerLossKeeps
<1>5. CASE \E t \in Tools : \/ ToolStarts(t) \/ CreateFile(t) \/ FinishCreating(t)
                            \/ ToolGivesUp(t) \/ SessionStarts(t) \/ Killed(t)
  BY <1>5, ToolStartsKeeps, CreateFileKeeps, FinishCreatingKeeps, ToolGivesUpKeeps,
     SessionStartsKeeps, KilledKeeps
<1>6. CASE UNCHANGED tunerVars
  <2>1. UNCHANGED <<backend, disk, service, tools, lock, session, acked, unacked, doubt>>
    BY <1>6 DEF tunerVars
  <2> QED BY <2>1 DEF TunerInv, OwnerInv, FileInv, ServiceInv, SessionSound, AcknowledgedFileKept
<1> QED BY <1>1, <1>2, <1>3, <1>4, <1>5, <1>6 DEF TunerNext

\* What the tuning tool's writes, its service and its session keep to each
\* other (the inductive invariant).
THEOREM TunerInvariant == TunerSpec => []TunerInv
<1> QED BY TunerStarts, TunerKeeps, PTL DEF TunerSpec

\* Whatever moment the machine loses power at, and whichever tools were
\* creating or replacing the file, what is found is the last configuration
\* whose writing was acknowledged or a complete later one (write_atomic,
\* write_new).
THEOREM AcknowledgedFileAlways == TunerSpec => []AcknowledgedFileKept
<1>1. TunerInv => AcknowledgedFileKept
  BY DEF TunerInv, FileInv
<1> QED BY <1>1, TunerInvariant, PTL

\* File and service agree whenever the tool is back at its menu, and an
\* operation that failed left the file it found, or the operator was told.
THEOREM FileAndServiceAlways == TunerSpec => []FileAndServiceAgree
<1>1. ASSUME TunerInv PROVE FileAndServiceAgree
  <2>1. CASE session.at # "menu"
    BY <2>1 DEF FileAndServiceAgree, RunningMatchesFile, FailedOperationRestores
  <2>2. CASE session.at = "menu"
    <3>1. Settling(session, disk.file, service.running, doubt, backend = "asterisk")
          /\ Kept(session, disk.file)
      BY <1>1, <2>2, SessionSettling DEF LatePlaces
    <3>2. "mixer" \in doubt \/ service.mixer = "file"
      BY <1>1, ServiceNow
    <3>3. \A part \in AllParts \ doubt : service.running[part] = disk.file[part]
      BY <3>1 DEF Settling, InLine
    <3>4. session.failed /\ ~session.told => disk.file = session.origin
      BY <3>1 DEF Kept
    <3> QED BY <3>2, <3>3, <3>4 DEF FileAndServiceAgree, RunningMatchesFile, FailedOperationRestores
  <2> QED BY <2>1, <2>2
<1> QED BY <1>1, TunerInvariant, PTL

-----------------------------------------------------------------------------
(* The tuning tool: what it keys it releases.                              *)

\* A reload returns Asterisk to the configured channel, so an edit made under
\* keying releases the channel it keyed only where that is the configured one.
OneActive == backend = "standalone" \/ \A r, q \in Radios : r = q

Cleared(s) == s.keyed = {} /\ s.toned = {}

\* A service that transmits no more than another, where it transmits at all.
Quieter(n, s) ==
    Cleared(n) \/ (n.keyed \subseteq s.keyed /\ n.toned \subseteq s.toned /\ n.active = s.active)

\* The channels a service knows; the standalone service releases everything
\* with the connection.
Connected(s) ==
    /\ IsService(s) /\ s.configured \in Radios /\ s.active \in Radios \cup {NoRadio}
    /\ backend = "asterisk" => s.active \in Radios
    /\ backend = "standalone" /\ ~s.link => Cleared(s)

RadioInv ==
    /\ Connected(service)
    /\ backend = "standalone" /\ session.at = "none" => Cleared(service)
    /\ session.at \notin {"none", "ended"} => session.selected \in Radios

\* The operations that use a tone know it where they clean up, and the edit
\* made under keying knows that it is.
Operates(s) ==
    /\ s.at \in {"tone on", "hold", "burst unkey", "burst quiet", "pause", "tone off"} => s.tone
    /\ s.at = "key" /\ s.job = "flash" => s.tone
    /\ s.adjust => \/ s.at \in Chain /\ s.job = "edit"
                   \/ s.at \in {"unkey", "tone off", "none"}

\* Where an operation may have the transmitter keyed, and its tone on.
KeyedPlace(s) ==
    s.at \in {"hold", "burst unkey", "prompt", "unkey"} \/ (s.at \in Chain /\ s.adjust)

TonedPlace(s) ==
    /\ s.tone
    /\ \/ s.at \in {"tone on", "key", "hold", "burst unkey", "burst quiet", "pause", "prompt",
                    "unkey", "tone off"}
       \/ s.at \in Chain /\ s.adjust

ReleaseInv ==
    OneActive /\ ~stuck =>
        /\ service.keyed # {} => KeyedPlace(session)
        /\ service.toned # {} => TonedPlace(session)
        /\ service.keyed \cup service.toned \subseteq {service.active}

KeyingInv == RadioInv /\ Operates(session) /\ ReleaseInv

\* What a step may make of `stuck': it is forgotten when nothing is on.
StuckStays == stuck => stuck' \/ Cleared(service')

\* Where nothing is keyed, calls that key nothing leave it so.
LEMMA NothingKeyed ==
    ASSUME ReleaseInv, backend' = backend, StuckStays,
           ~KeyedPlace(session), ~TonedPlace(session),
           Cleared(service) => Cleared(service')
    PROVE  ReleaseInv'
<1>1. OneActive' <=> OneActive
  BY DEF OneActive
<1>2. SUFFICES ASSUME OneActive, ~stuck' PROVE Cleared(service')
  BY <1>1 DEF ReleaseInv, Cleared
<1>3. ~stuck \/ Cleared(service')
  BY <1>2 DEF StuckStays
<1>4. ~stuck => Cleared(service)
  BY <1>2 DEF ReleaseInv, Cleared
<1> QED BY <1>3, <1>4

\* An operation under way keeps its keying or loses it.
LEMMA KeyingCarried ==
    ASSUME ReleaseInv, backend' = backend, StuckStays,
           KeyedPlace(session) => KeyedPlace(session'),
           TonedPlace(session) => TonedPlace(session'),
           OneActive => Quieter(service', service)
    PROVE  ReleaseInv'
<1>1. OneActive' <=> OneActive
  BY DEF OneActive
<1>2. SUFFICES ASSUME OneActive, ~stuck', ~Cleared(service')
               PROVE  /\ service'.keyed # {} => KeyedPlace(session')
                      /\ service'.toned # {} => TonedPlace(session')
                      /\ service'.keyed \cup service'.toned \subseteq {service'.active}
  BY <1>1 DEF ReleaseInv, Cleared
<1>3. ~stuck
  BY <1>2 DEF StuckStays
<1>4. /\ service'.keyed \subseteq service.keyed /\ service'.toned \subseteq service.toned
      /\ service'.active = service.active
  BY <1>2 DEF Quieter
<1> QED BY <1>2, <1>3, <1>4 DEF ReleaseInv

-----------------------------------------------------------------------------
(* What the calls do to the keying.                                        *)

\* Losing the connection, or keying one channel, changes nothing else.
LEMMA ServiceKeying ==
    ASSUME NEW s, IsService(s)
    PROVE  /\ IsService(Silent(s)) /\ Cleared(Silent(s)) /\ Silent(s).active = s.active
           /\ Silent(s).configured = s.configured /\ Silent(s).link = s.link
           /\ IsService(Dropped(s)) /\ Cleared(Dropped(s)) /\ Dropped(s).active = s.active
           /\ Dropped(s).configured = s.configured
<1>1. /\ IsService(Silent(s)) /\ Cleared(Silent(s)) /\ Silent(s).active = s.active
      /\ Silent(s).configured = s.configured /\ Silent(s).link = s.link
  BY DEF Silent, Cleared, IsService, ServiceFields
<1> QED BY <1>1 DEF Dropped, Cleared, IsService, ServiceFields

\* Keying and releasing the active channel.
LEMMA KeyedKeying ==
    ASSUME NEW s, IsService(s)
    PROVE  LET on == Keyed(s, TRUE)  off == Keyed(s, FALSE)
           IN  /\ on.keyed = s.keyed \cup {s.active} /\ off.keyed = s.keyed \ {s.active}
               /\ \A n \in {on, off} :
                     /\ IsService(n) /\ n.toned = s.toned /\ n.active = s.active
                     /\ n.configured = s.configured /\ n.link = s.link
BY DEF Keyed, IsService, ServiceFields

\* Its tone.
LEMMA TonedKeying ==
    ASSUME NEW s, IsService(s)
    PROVE  LET on == Toned(s, TRUE)  off == Toned(s, FALSE)
           IN  /\ on.toned = s.toned \cup {s.active} /\ off.toned = s.toned \ {s.active}
               /\ \A n \in {on, off} :
                     /\ IsService(n) /\ n.keyed = s.keyed /\ n.active = s.active
                     /\ n.configured = s.configured /\ n.link = s.link
BY DEF Toned, IsService, ServiceFields

\* A call takes effect, or not, or takes the connection and all keying with it.
LEMMA CallKeying ==
    ASSUME NEW s, Connected(s), NEW after, IsService(after), backend \in {"asterisk", "standalone"},
           after.link = s.link, after.configured = s.configured,
           after.active \in Radios \cup {NoRadio}, backend = "asterisk" => after.active \in Radios,
           NEW call \in LiveOutcomes(s, after)
    PROVE  /\ Connected(call.service)
           /\ call.service = s \/ call.service = after \/ Cleared(call.service)
<1>1. IsService(s)
  BY DEF Connected
<1>2. CASE backend = "asterisk"
  <2>1. call.service = s \/ call.service = after
    BY <1>2 DEF LiveOutcomes, Outcomes
  <2> QED BY <1>2, <2>1 DEF Connected
<1>3. CASE backend = "standalone"
  <2>1. \/ call.service = s
        \/ s.link /\ call.service = after
        \/ call.service \in {Dropped(s), Dropped(after)}
    BY <1>3 DEF LiveOutcomes, Outcomes
  <2>2. CASE call.service = s
    BY <2>2
  <2>3. CASE s.link /\ call.service = after
    BY <1>3, <2>3 DEF Connected
  <2>4. CASE call.service \in {Dropped(s), Dropped(after)}
    <3>1. /\ IsService(call.service) /\ Cleared(call.service)
          /\ call.service.active \in {s.active, after.active}
          /\ call.service.configured = s.configured
      BY <1>1, <2>4, ServiceKeying
    <3> QED BY <1>3, <3>1 DEF Connected
  <2> QED BY <2>1, <2>2, <2>3, <2>4
<1> QED BY <1>2, <1>3

\* Selecting another channel keys nothing.
LEMMA SelectKeying ==
    ASSUME NEW s, Connected(s), NEW r \in Radios \cup {NoRadio},
           backend = "asterisk" => r \in Radios,
           backend \in {"asterisk", "standalone"}, NEW call \in SelectOutcomes(s, r)
    PROVE  Connected(call.service) /\ (Cleared(s) => Cleared(call.service))
<1> DEFINE after == [s EXCEPT !.active = r]
<1>1. /\ IsService(s) /\ IsService(after) /\ after.link = s.link
      /\ after.configured = s.configured /\ after.active = r
      /\ after.keyed = s.keyed /\ after.toned = s.toned
  BY DEF Connected, IsService, ServiceFields
<1>2. CASE backend = "asterisk"
  <2>1. call \in Outcomes(s, after)
    BY <1>2 DEF SelectOutcomes
  <2>2. call \in LiveOutcomes(s, after)
    BY <2>1 DEF LiveOutcomes
  <2> HIDE DEF after
  <2>3. /\ Connected(call.service)
        /\ call.service = s \/ call.service = after \/ Cleared(call.service)
    BY <1>1, <1>2, <2>2, CallKeying
  <2> QED BY <1>1, <2>3 DEF Cleared
<1>3. CASE backend = "standalone"
  <2>1. call.service = s \/ (s.link /\ call.service = after) \/ call.service = Dropped(s)
    BY <1>3 DEF SelectOutcomes
  <2> HIDE DEF after
  <2>2. CASE call.service = s
    BY <2>2
  <2>3. CASE s.link /\ call.service = after
    BY <1>1, <1>3, <2>3 DEF Connected, Cleared
  <2>4. CASE call.service = Dropped(s)
    <3>1. /\ IsService(call.service) /\ Cleared(call.service)
          /\ call.service.active = s.active /\ call.service.configured = s.configured
      BY <1>1, <2>4, ServiceKeying
    <3> QED BY <1>3, <3>1 DEF Connected
  <2> QED BY <2>1, <2>2, <2>3, <2>4
<1> QED BY <1>2, <1>3

-----------------------------------------------------------------------------
(* Where operations go.                                                    *)

\* A session that goes on from s, keeping its keying if it had any.
Continues(n, s) ==
    /\ IsSession(n) /\ Operates(n) /\ n.at # "none"
    /\ n.at # "ended" => n.selected = s.selected

\* What decides what an operation may have keyed.
SameOperation(n, s) ==
    IsSession(n) /\ n.job = s.job /\ n.adjust = s.adjust /\ n.tone = s.tone
    /\ n.selected = s.selected

\* The menu, and the end, know of no keying.
LEMMA OverContinues ==
    ASSUME NEW s, IsSession(s)
    PROVE  Continues(AtMenu(s), s) /\ Continues(AtEnd, s) /\ Continues(Over(s), s)
<1>0. IsSession(NoSession) /\ NoSession.adjust = FALSE
  BY DEF NoSession, IsSession, SessionFields
<1>1. /\ IsSession(AtMenu(s)) /\ AtMenu(s).at = "menu" /\ AtMenu(s).selected = s.selected
      /\ AtMenu(s).adjust = FALSE
  BY <1>0 DEF AtMenu, IsSession, SessionFields
<1>2. IsSession(AtEnd) /\ AtEnd.at = "ended" /\ AtEnd.adjust = FALSE
  BY DEF AtEnd, NoSession, IsSession, SessionFields
<1>3. Continues(AtMenu(s), s) /\ Continues(AtEnd, s)
  BY <1>1, <1>2 DEF Continues, Operates
<1> QED BY <1>3 DEF Over

\* Starting a write that is not under keying.
LEMMA WriteContinues ==
    ASSUME NEW s, IsSession(s), ~s.adjust, NEW job, NEW content, NEW mode
    PROVE  Continues(Write(s, job, content, mode), s)
<1> DEFINE n == Write(s, job, content, mode)
<1>1. IsSession(n) /\ n.at = "write" /\ n.adjust = s.adjust /\ n.selected = s.selected
  BY DEF Write, IsSession, SessionFields
<1> HIDE DEF n
<1>2. Continues(n, s)
  BY <1>1 DEF Continues, Operates
<1> QED BY <1>2 DEF n

\* restore_failed_calibration
LEMMA RestoreContinues ==
    ASSUME NEW s, IsSession(s), ~s.adjust
    PROVE  Continues(Restore(s), s)
<1> DEFINE f == [s EXCEPT !.failed = TRUE]
<1>1. IsSession(f) /\ f.selected = s.selected
  BY DEF IsSession, SessionFields
<1> HIDE DEF f
<1>2. Continues(AtMenu(f), f)
  BY <1>1, OverContinues
<1>3. Continues(AtMenu(f), s)
  BY <1>1, <1>2 DEF Continues
<1>4. Restore(s) = IF s.from = s.origin THEN AtMenu(f)
                   ELSE Write(s, "restore", s.origin, "reload")
  BY DEF Restore, f
<1> QED BY <1>3, <1>4, WriteContinues

\* An edit under keying is cleaned up, another is over.
LEMMA AfterEditContinues ==
    ASSUME NEW s, IsSession(s)
    PROVE  /\ Continues(AfterEdit(s), s)
           /\ s.adjust => AfterEdit(s).at = "unkey" /\ AfterEdit(s).tone = s.tone
<1> DEFINE n == [s EXCEPT !.at = "unkey"]
<1>1. IsSession(n) /\ n.at = "unkey" /\ n.selected = s.selected /\ n.tone = s.tone
  BY DEF IsSession, SessionFields
<1> HIDE DEF n
<1>2. Continues(n, s)
  BY <1>1 DEF Continues, Operates
<1>3. AfterEdit(s) = IF s.adjust THEN n ELSE Over(s)
  BY DEF AfterEdit, n
<1>4. CASE s.adjust
  BY <1>1, <1>2, <1>3, <1>4
<1>5. CASE ~s.adjust
  BY <1>3, <1>5, OverContinues
<1> QED BY <1>4, <1>5

\* Whatever comes of a write, what is keyed is cleaned up after.
LEMMA SettleContinues ==
    ASSUME NEW s, IsSession(s), s.adjust => s.job = "edit", NEW ok
    PROVE  /\ Continues(Settle(s, ok), s)
           /\ s.adjust => Settle(s, ok).at = "unkey" /\ Settle(s, ok).tone = s.tone
<1> DEFINE done == [s EXCEPT !.failed = ~ok]
<1>1. SameOperation(done, s)
  BY DEF SameOperation, IsSession, SessionFields
<1>2. CASE s.job = "edit"
  <2> DEFINE changed == RestartChanged(s, ok)
             n == [done EXCEPT !.restart_changed = changed]
  <2>1. Settle(s, ok) = AfterEdit(n)
    BY <1>2 DEF Settle
  <2> HIDE DEF changed, done
  <2>2. SameOperation(n, s)
    BY <1>1 DEF SameOperation, IsSession, SessionFields
  <2> HIDE DEF n
  <2>3. /\ Continues(AfterEdit(n), n)
        /\ n.adjust => AfterEdit(n).at = "unkey" /\ AfterEdit(n).tone = n.tone
    BY <2>2, AfterEditContinues DEF SameOperation
  <2> QED BY <2>1, <2>2, <2>3 DEF Continues, SameOperation
<1>3. CASE s.job # "edit"
  <2>1. ~s.adjust
    BY <1>3
  <2>2. CASE s.job = "swap" /\ ok
    <3> DEFINE n == [done EXCEPT !.at = "reselect", !.restart_changed = TRUE]
    <3>1. Settle(s, ok) = n
      BY <2>2 DEF Settle
    <3> HIDE DEF done
    <3>2. SameOperation(n, s) /\ n.at = "reselect"
      BY <1>1 DEF SameOperation, IsSession, SessionFields
    <3> HIDE DEF n
    <3> QED BY <2>1, <3>1, <3>2 DEF Continues, SameOperation, Operates
  <2>3. CASE s.job = "gain" /\ ok
    <3> DEFINE n == [s EXCEPT !.at = "measure", !.from = s.to]
    <3>1. Settle(s, ok) = n
      BY <2>3 DEF Settle
    <3>2. SameOperation(n, s) /\ n.at = "measure"
      BY DEF SameOperation, IsSession, SessionFields
    <3> HIDE DEF n
    <3> QED BY <2>1, <3>1, <3>2 DEF Continues, SameOperation, Operates
  <2>4. CASE s.job = "gain" /\ ~ok
    <3>1. Settle(s, ok) = Restore(s)
      BY <2>4 DEF Settle
    <3> QED BY <2>1, <3>1, RestoreContinues
  <2>5. CASE ~(s.job = "swap" /\ ok) /\ s.job # "gain"
    <3>1. \/ Settle(s, ok) = AtMenu(done)
          \/ Settle(s, ok) = AtMenu([done EXCEPT !.restart_changed = @ /\ ~ok])
          \/ Settle(s, ok) = AtEnd
          \/ Settle(s, ok) = AtMenu([s EXCEPT !.failed = TRUE, !.told = @ \/ ~ok])
      BY <1>3, <2>5 DEF Settle
    <3>2. ASSUME NEW n, SameOperation(n, s) PROVE Continues(AtMenu(n), s)
      <4>1. Continues(AtMenu(n), n)
        BY <3>2, OverContinues DEF SameOperation
      <4> QED BY <3>2, <4>1 DEF Continues, SameOperation
    <3>3. SameOperation([done EXCEPT !.restart_changed = @ /\ ~ok], s)
      <4> DEFINE changed == done.restart_changed /\ ~ok
                 n == [done EXCEPT !.restart_changed = changed]
      <4> HIDE DEF changed, done
      <4>1. SameOperation(n, s)
        BY <1>1 DEF SameOperation, IsSession, SessionFields
      <4> QED BY <4>1 DEF changed
    <3>4. SameOperation([s EXCEPT !.failed = TRUE, !.told = @ \/ ~ok], s)
      <4> DEFINE told == s.told \/ ~ok
                 n == [s EXCEPT !.failed = TRUE, !.told = told]
      <4> HIDE DEF told
      <4>1. SameOperation(n, s)
        BY DEF SameOperation, IsSession, SessionFields
      <4> QED BY <4>1 DEF told
    <3>5. Continues(AtEnd, s)
      BY OverContinues
    <3> HIDE DEF done
    <3>6. Continues(Settle(s, ok), s)
      BY <1>1, <3>1, <3>2, <3>3, <3>4, <3>5
    <3> QED BY <2>1, <3>6
  <2> QED BY <2>2, <2>3, <2>4, <2>5
<1> QED BY <1>2, <1>3

\* The same of a write that reports an error.
LEMMA WriteFailedContinues ==
    ASSUME NEW s, IsSession(s), s.adjust => s.job = "edit"
    PROVE  /\ Continues(WriteFailed(s), s)
           /\ s.adjust => WriteFailed(s).at = "unkey" /\ WriteFailed(s).tone = s.tone
<1> DEFINE broken == [s EXCEPT !.told = TRUE]
           n == [broken EXCEPT !.fatal = TRUE, !.failed = TRUE]
<1>1. SameOperation(broken, s)
  BY DEF SameOperation, IsSession, SessionFields
<1>2. WriteFailed(s) \in {Settle(broken, FALSE), AfterEdit(n)}
  BY DEF WriteFailed
<1> HIDE DEF broken
<1>3. SameOperation(n, s)
  BY <1>1 DEF SameOperation, IsSession, SessionFields
<1> HIDE DEF n
<1>4. /\ Continues(Settle(broken, FALSE), broken)
      /\ broken.adjust => /\ Settle(broken, FALSE).at = "unkey"
                          /\ Settle(broken, FALSE).tone = broken.tone
  BY <1>1, SettleContinues DEF SameOperation
<1>5. /\ Continues(AfterEdit(n), n)
      /\ n.adjust => AfterEdit(n).at = "unkey" /\ AfterEdit(n).tone = n.tone
  BY <1>3, AfterEditContinues DEF SameOperation
<1> QED BY <1>1, <1>2, <1>3, <1>4, <1>5 DEF Continues, SameOperation

-----------------------------------------------------------------------------
(* The steps.                                                              *)

\* What the invariants say of a session under way.
LEMMA KeyingNow ==
    ASSUME TunerInv, KeyingInv
    PROVE  /\ IsSession(session) /\ IsService(service) /\ Connected(service) /\ Operates(session)
           /\ ReleaseInv /\ backend \in {"asterisk", "standalone"}
           /\ session.at = "none" <=> lock = NoTool
           /\ session.at \notin {"none", "ended"} => session.selected \in Radios
           /\ Connected(Silent(service))
<1>1. /\ IsSession(session) /\ IsService(service) /\ Connected(service) /\ Operates(session)
      /\ ReleaseInv /\ backend \in {"asterisk", "standalone"}
      /\ session.at = "none" <=> lock = NoTool
      /\ session.at \notin {"none", "ended"} => session.selected \in Radios
  BY DEF TunerInv, OwnerInv, ServiceInv, SessionSound, Sound, KeyingInv, RadioInv
<1>2. Connected(Silent(service))
  BY <1>1, ServiceKeying DEF Connected
<1> QED BY <1>1, <1>2

\* A session goes on; the rest is the release.
LEMMA SessionGoesOn ==
    ASSUME KeyingInv, backend' = backend, session.at \notin {"none", "ended"},
           Continues(session', session), Connected(service'), ReleaseInv'
    PROVE  KeyingInv'
<1>1. RadioInv'
  BY DEF KeyingInv, RadioInv, Continues, Connected, Cleared
<1> QED BY <1>1 DEF KeyingInv, Continues

\* Its calls reach the service as it is or lose it.
LEMMA QuietCall ==
    ASSUME TunerInv, KeyingInv, NEW call \in LiveOutcomes(service, service)
    PROVE  Connected(call.service) /\ Quieter(call.service, service)
<1>1. /\ Connected(call.service)
      /\ call.service = service \/ Cleared(call.service)
  BY KeyingNow, CallKeying DEF Connected
<1> QED BY <1>1 DEF Quieter

\* Writing: the service does not notice, and an edit under keying goes on.
LEMMA WritingReleases ==
    ASSUME TunerInv, KeyingInv, session.at \in {"write", "rename", "sync"},
           UNCHANGED <<backend, service, stuck>>,
           \/ session' = WriteFailed(session)
           \/ SameOperation(session', session) /\ session'.at \in Chain
    PROVE  KeyingInv'
<1>1. /\ IsSession(session) /\ Connected(service) /\ Operates(session) /\ ReleaseInv
      /\ session.adjust => session.job = "edit"
      /\ session.at \in Chain /\ session.at \notin {"none", "ended"}
  BY KeyingNow DEF Operates, Chain
<1>2. CASE session' = WriteFailed(session)
  <2>1. /\ Continues(session', session)
        /\ session.adjust => session'.at = "unkey" /\ session'.tone = session.tone
    BY <1>1, <1>2, WriteFailedContinues
  <2>2. /\ KeyedPlace(session) => KeyedPlace(session')
        /\ TonedPlace(session) => TonedPlace(session')
    <3>1. CASE session.adjust
      <4>1. session'.at = "unkey" /\ session'.tone = session.tone
        BY <2>1, <3>1
      <4> QED BY <4>1 DEF KeyedPlace, TonedPlace
    <3>2. CASE ~session.adjust
      BY <1>1, <3>2 DEF KeyedPlace, TonedPlace, Chain
    <3> QED BY <3>1, <3>2
  <2>3. ReleaseInv'
    BY <1>1, <2>2, KeyingCarried DEF StuckStays, Quieter
  <2> QED BY <1>1, <2>1, <2>3, SessionGoesOn DEF Connected, Cleared
<1>3. CASE SameOperation(session', session) /\ session'.at \in Chain
  <2>1. Continues(session', session)
    BY <1>1, <1>3 DEF Continues, SameOperation, Operates, Chain
  <2>2. /\ KeyedPlace(session) => KeyedPlace(session')
        /\ TonedPlace(session) => TonedPlace(session')
    BY <1>1, <1>3 DEF KeyedPlace, TonedPlace, SameOperation, Chain
  <2>3. ReleaseInv'
    BY <1>1, <2>2, KeyingCarried DEF StuckStays, Quieter
  <2> QED BY <1>1, <2>1, <2>3, SessionGoesOn DEF Connected, Cleared
<1> QED BY <1>2, <1>3

\* The three steps of a write.
LEMMA WriteReleases ==
    TunerInv /\ KeyingInv /\ (WriteTemporary \/ ReplaceFile \/ SyncDirectory) => KeyingInv'
<1> SUFFICES ASSUME TunerInv, KeyingInv, WriteTemporary \/ ReplaceFile \/ SyncDirectory
             PROVE  KeyingInv'
  OBVIOUS
<1> DEFINE written == [session EXCEPT !.at = "rename", !.temp = FilePrepared]
           renamed == [session EXCEPT !.at = "sync"]
           synced  == [session EXCEPT !.at = "apply", !.temp = "none"]
<1>1. /\ session.at \in {"write", "rename", "sync"} /\ UNCHANGED <<backend, service, stuck>>
      /\ session' \in {WriteFailed(session), written, renamed, synced}
  BY DEF WriteTemporary, ReplaceFile, SyncDirectory
<1>2. \A n \in {written, renamed, synced} : SameOperation(n, session) /\ n.at \in Chain
  BY KeyingNow DEF SameOperation, IsSession, SessionFields, Chain
<1> HIDE DEF written, renamed, synced
<1> QED BY <1>1, <1>2, WritingReleases

\* What an apply leaves of the keying: a restart ends it; a reload keeps it and,
\* with Asterisk, makes the configured channel the active one.
LEMMA AppliedKeying ==
    ASSUME NEW s, Connected(s), backend \in {"asterisk", "standalone"}, NEW content, NEW mode
    PROVE  LET after == AfterApply(s, content, mode)
           IN  /\ IsService(after) /\ after.link = s.link /\ after.configured = s.configured
               /\ after.active \in Radios \cup {NoRadio}
               /\ backend = "asterisk" => after.active \in Radios
               /\ Cleared(s) => Cleared(after)
               /\ OneActive => Quieter(after, s)
<1> DEFINE after == AfterApply(s, content, mode)
<1>0. IsService(s) /\ s.configured \in Radios
  BY DEF Connected
<1>1. CASE backend = "asterisk" /\ mode = "restart"
  <2> DEFINE q == Silent(s)
  <2>1. after = [q EXCEPT !.running = content, !.active = s.configured, !.mixer = "file"]
    BY <1>1 DEF AfterApply, AfterRestart
  <2>2. IsService(q) /\ Cleared(q) /\ q.configured = s.configured /\ q.link = s.link
    BY <1>0, ServiceKeying
  <2> HIDE DEF q, after
  <2>3. /\ IsService(after) /\ after.link = s.link /\ after.configured = s.configured
        /\ after.active = s.configured /\ Cleared(after)
    BY <2>1, <2>2 DEF IsService, ServiceFields, Cleared
  <2> QED BY <1>0, <2>3 DEF Quieter, after
<1>2. CASE backend = "asterisk" /\ mode # "restart"
  <2>1. after = [s EXCEPT !.running.live = content.live, !.active = s.configured]
    BY <1>2 DEF AfterApply, AfterReload
  <2> HIDE DEF after
  <2>2. /\ IsService(after) /\ after.link = s.link /\ after.configured = s.configured
        /\ after.active = s.configured /\ after.keyed = s.keyed /\ after.toned = s.toned
    BY <1>0, <2>1 DEF IsService, ServiceFields
  <2>3. OneActive => s.active = s.configured
    BY <1>0, <1>2 DEF OneActive, Connected
  <2> QED BY <1>0, <2>2, <2>3 DEF Quieter, Cleared, after
<1>3. CASE backend = "standalone"
  <2>1. after = [s EXCEPT !.running = content]
    BY <1>3 DEF AfterApply, AfterReload
  <2> HIDE DEF after
  <2>2. /\ IsService(after) /\ after.link = s.link /\ after.configured = s.configured
        /\ after.active = s.active /\ after.keyed = s.keyed /\ after.toned = s.toned
    BY <1>0, <2>1 DEF IsService, ServiceFields
  <2> QED BY <1>0, <1>3, <2>2 DEF Quieter, Cleared, Connected, after
<1> QED BY <1>1, <1>2, <1>3

\* An edit applied under keying, or any other.
LEMMA ApplyReleases == TunerInv /\ KeyingInv /\ Apply => KeyingInv'
<1> SUFFICES ASSUME TunerInv, KeyingInv, Apply PROVE KeyingInv'
  OBVIOUS
<1> DEFINE after == AfterApply(service, disk.file, session.mode)
           forth == [session EXCEPT !.back = FALSE]
           again == [session EXCEPT !.at = "write", !.back = TRUE]
<1>1. /\ IsSession(session) /\ Connected(service) /\ Operates(session) /\ ReleaseInv
      /\ session.adjust => session.job = "edit"
      /\ session.at = "apply" /\ session.at \in Chain /\ session.at \notin {"none", "ended"}
      /\ backend \in {"asterisk", "standalone"}
  BY KeyingNow DEF Operates, Chain, Apply
<1>2a. PICK call \in Outcomes(service, after) :
          /\ \E mixer : service' = [call.service EXCEPT !.mixer = mixer]
          /\ session' \in {Settle(forth, FALSE), Settle(session, TRUE), again}
          /\ stuck' = (stuck /\ On(service'))
          /\ backend' = backend
  BY <1>1 DEF Apply
<1>2b. PICK mixer : service' = [call.service EXCEPT !.mixer = mixer]
  BY <1>2a
<1>2. /\ service' = [call.service EXCEPT !.mixer = mixer]
      /\ session' \in {Settle(forth, FALSE), Settle(session, TRUE), again}
      /\ stuck' = (stuck /\ On(service'))
      /\ backend' = backend
  BY <1>2a, <1>2b
<1>3. SameOperation(forth, session) /\ SameOperation(again, session) /\ again.at = "write"
  BY <1>1 DEF SameOperation, IsSession, SessionFields
<1> HIDE DEF forth, again
<1>4. /\ IsService(after) /\ after.link = service.link
      /\ after.configured = service.configured
      /\ after.active \in Radios \cup {NoRadio}
      /\ backend = "asterisk" => after.active \in Radios
      /\ Cleared(service) => Cleared(after)
      /\ OneActive => Quieter(after, service)
  BY <1>1, AppliedKeying
<1>5. /\ Connected(call.service)
      /\ call.service = service \/ call.service = after \/ Cleared(call.service)
  <2>1. call \in LiveOutcomes(service, after)
    BY <1>2a DEF LiveOutcomes
  <2> HIDE DEF after
  <2> QED BY <1>1, <1>4, <2>1, CallKeying
<1> HIDE DEF after
<1>6. IsService(call.service)
  BY <1>5 DEF Connected
<1>7. /\ IsService(service') /\ service'.keyed = call.service.keyed
      /\ service'.toned = call.service.toned /\ service'.active = call.service.active
      /\ service'.configured = call.service.configured /\ service'.link = call.service.link
  BY <1>2, <1>6 DEF IsService, ServiceFields
<1>8. Connected(service')
  BY <1>5, <1>7 DEF Connected, Cleared
<1>9. OneActive => Quieter(service', service)
  BY <1>4, <1>5, <1>7 DEF Quieter, Cleared
<1>10. StuckStays
  BY <1>2 DEF StuckStays, On, Cleared
<1>11. /\ Continues(session', session)
       /\ session.adjust => /\ session'.tone = session.tone
                            /\ session'.at = "unkey" \/ (session'.at = "write" /\ session'.adjust)
  <2>1. CASE session' = Settle(forth, FALSE)
    <3>1. /\ Continues(Settle(forth, FALSE), forth)
          /\ forth.adjust => /\ Settle(forth, FALSE).at = "unkey"
                             /\ Settle(forth, FALSE).tone = forth.tone
      BY <1>1, <1>3, SettleContinues DEF SameOperation
    <3>2. Continues(session', session)
      BY <1>3, <2>1, <3>1 DEF Continues, SameOperation
    <3>3. ASSUME session.adjust PROVE session'.at = "unkey" /\ session'.tone = session.tone
      <4>1. forth.adjust /\ forth.tone = session.tone
        BY <1>3, <3>3 DEF SameOperation
      <4> QED BY <2>1, <3>1, <4>1
    <3> QED BY <3>2, <3>3
  <2>2. CASE session' = Settle(session, TRUE)
    <3>1. /\ Continues(Settle(session, TRUE), session)
          /\ session.adjust => /\ Settle(session, TRUE).at = "unkey"
                               /\ Settle(session, TRUE).tone = session.tone
      BY <1>1, SettleContinues
    <3> QED BY <2>2, <3>1
  <2>3. CASE session' = again
    BY <1>1, <1>3, <2>3 DEF Continues, SameOperation, Operates, Chain
  <2> QED BY <1>2, <2>1, <2>2, <2>3
<1>12. /\ KeyedPlace(session) => KeyedPlace(session')
       /\ TonedPlace(session) => TonedPlace(session')
  BY <1>1, <1>11 DEF KeyedPlace, TonedPlace, Chain
<1>13. ReleaseInv'
  BY <1>1, <1>2, <1>9, <1>10, <1>12, KeyingCarried
<1> QED BY <1>1, <1>2, <1>8, <1>11, <1>13, SessionGoesOn

\* swap_usb_device selects its channel again.
LEMMA ReselectReleases == TunerInv /\ KeyingInv /\ Reselect => KeyingInv'
<1> SUFFICES ASSUME TunerInv, KeyingInv, Reselect PROVE KeyingInv'
  OBVIOUS
<1>1. /\ session.at = "reselect" /\ session.at \notin {"none", "ended"}
      /\ backend' = backend /\ stuck' = stuck
  BY DEF Reselect
<1>2. PICK call \in SelectOutcomes(service, session.selected) :
         service' = call.service /\ session' \in {AtMenu(session), AtEnd}
  BY DEF Reselect
<1>3. session.selected \in Radios /\ Continues(session', session)
  BY <1>1, <1>2, KeyingNow, OverContinues
<1>4. Connected(service') /\ (Cleared(service) => Cleared(service'))
  BY <1>2, <1>3, KeyingNow, SelectKeying
<1>5. ReleaseInv'
  <2>1. session.adjust => session.at \in Chain \cup {"unkey", "tone off", "none"}
    BY KeyingNow DEF Operates
  <2>2. ~KeyedPlace(session) /\ ~TonedPlace(session)
    BY <1>1 DEF KeyedPlace, TonedPlace, Chain
  <2> QED BY <1>1, <1>4, <2>2, KeyingNow, NothingKeyed DEF StuckStays
<1> QED BY <1>1, <1>3, <1>4, <1>5, SessionGoesOn

\* Places where nothing is ever keyed.
QuietPlaces ==
    {"menu", "reselect", "candidate", "measure", "mixer", "observe", "best mixer",
     "noise level", "ended", "none"}

\* A step of an operation that keys nothing.
LEMMA QuietStep ==
    ASSUME TunerInv, KeyingInv, session.at \in QuietPlaces \ {"ended", "none"},
           backend' = backend, Continues(session', session),
           Connected(service'), Quieter(service', service),
           StuckStays
    PROVE  KeyingInv'
<1>1. ~KeyedPlace(session) /\ ~TonedPlace(session)
  BY DEF KeyedPlace, TonedPlace, QuietPlaces, Chain
<1>2. Cleared(service) => Cleared(service')
  BY DEF Quieter, Cleared
<1>3. ReleaseInv'
  BY <1>1, <1>2, KeyingNow, NothingKeyed
<1> QED BY <1>3, SessionGoesOn DEF QuietPlaces

\* The same where the service is called.
LEMMA QuietCallStep ==
    ASSUME TunerInv, KeyingInv, session.at \in QuietPlaces \ {"ended", "none"},
           backend' = backend, Continues(session', session),
           NEW call \in LiveOutcomes(service, service), service' = call.service,
           stuck' = (stuck /\ On(service'))
    PROVE  KeyingInv'
<1>1. Connected(service') /\ Quieter(service', service)
  BY QuietCall
<1>2. StuckStays
  BY DEF StuckStays, On, Cleared
<1> QED BY <1>1, <1>2, QuietStep

\* A session at a quiet place that moves to another one.
LEMMA QuietContinues ==
    ASSUME TunerInv, KeyingInv, session.at \in QuietPlaces \ {"ended", "none"},
           NEW n, IsSession(n), n.selected = session.selected, n.adjust = session.adjust,
           n.at \in QuietPlaces \ {"none"}
    PROVE  Continues(n, session)
<1>1. ~session.adjust
  BY KeyingNow DEF Operates, QuietPlaces, Chain
<1> QED BY <1>1 DEF Continues, Operates, QuietPlaces

\* The calibrations: they call the service and key nothing.
LEMMA CandidateReleases == TunerInv /\ KeyingInv /\ Candidate => KeyingInv'
<1> SUFFICES ASSUME TunerInv, KeyingInv, Candidate PROVE KeyingInv'
  OBVIOUS
<1>1. /\ session.at = "candidate" /\ UNCHANGED <<backend, service, stuck>>
      /\ \E content : session' = Write(session, "gain", content, "reload")
  BY DEF Candidate
<1>2. IsSession(session) /\ ~session.adjust
  BY <1>1, KeyingNow DEF Operates, Chain
<1>3. Continues(session', session)
  BY <1>1, <1>2, WriteContinues
<1>4. Connected(service') /\ Quieter(service', service) /\ StuckStays
  BY <1>1, KeyingNow DEF Connected, Cleared, Quieter, StuckStays
<1> QED BY <1>1, <1>3, <1>4, QuietStep DEF QuietPlaces

\* Another attempt of a calibration goes on with the operation.
LEMMA RetriedContinues ==
    ASSUME TunerInv, KeyingInv, session.at \in QuietPlaces \ {"ended", "none"},
           NEW s, SameOperation(s, session), NEW at \in {"candidate", "mixer"}
    PROVE  Continues(Retried(s, at), session)
<1> DEFINE next == IF s.attempt < GainAttempts + NoiseAttempts THEN s.attempt + 1 ELSE s.attempt
           n == [s EXCEPT !.at = at, !.attempt = next]
<1>1. Retried(s, at) = n
  BY DEF Retried
<1> HIDE DEF next
<1>2. IsSession(n) /\ n.selected = s.selected /\ n.adjust = s.adjust /\ n.at = at
  BY DEF SameOperation, IsSession, SessionFields
<1> HIDE DEF n
<1> QED BY <1>1, <1>2, QuietContinues DEF SameOperation, QuietPlaces

\* A gain measurement accepts the level, tries again or restores, with nothing keyed.
LEMMA MeasureGainReleases == TunerInv /\ KeyingInv /\ MeasureGain => KeyingInv'
<1> SUFFICES ASSUME TunerInv, KeyingInv, MeasureGain PROVE KeyingInv'
  OBVIOUS
<1>1. session.at = "measure" /\ backend' = backend
  BY DEF MeasureGain
<1>2. PICK call \in Outcomes(service, service) :
         /\ service' = call.service
         /\ session' \in {Restore(session), AtMenu(session), Retried(session, "candidate")}
         /\ stuck' = (stuck /\ On(service'))
  BY DEF MeasureGain
<1>3. IsSession(session) /\ ~session.adjust /\ SameOperation(session, session)
  BY <1>1, KeyingNow DEF Operates, Chain, SameOperation
<1>4. Continues(session', session)
  BY <1>1, <1>2, <1>3, RestoreContinues, OverContinues, RetriedContinues DEF QuietPlaces
<1>5. call \in LiveOutcomes(service, service)
  BY <1>2 DEF LiveOutcomes
<1> QED BY <1>1, <1>2, <1>4, <1>5, QuietCallStep DEF QuietPlaces

\* A noise calibration that fails is over.
LEMMA NoiseFailedContinues ==
    ASSUME TunerInv, KeyingInv PROVE Continues(NoiseFailed, session)
<1> DEFINE n == [session EXCEPT !.failed = TRUE]
<1>1. IsSession(n) /\ n.selected = session.selected
  BY KeyingNow DEF IsSession, SessionFields
<1> HIDE DEF n
<1>2. Continues(AtMenu(n), n)
  BY <1>1, OverContinues
<1> QED BY <1>1, <1>2 DEF NoiseFailed, n, Continues

\* A noise observation goes on or gives up, with nothing keyed.
LEMMA ObserveReleases == TunerInv /\ KeyingInv /\ Observe => KeyingInv'
<1> SUFFICES ASSUME TunerInv, KeyingInv, Observe PROVE KeyingInv'
  OBVIOUS
<1>1. session.at = "observe" /\ backend' = backend
  BY DEF Observe
<1>2. PICK call \in Outcomes(service, service) :
         \E inRange \in BOOLEAN, unclipped \in BOOLEAN :
           LET sess == [session EXCEPT !.best = @ \/ unclipped]
           IN  /\ service' = call.service
               /\ session' \in {NoiseFailed, [sess EXCEPT !.at = "best mixer", !.best = TRUE],
                                Retried(sess, "mixer"), [sess EXCEPT !.at = "best mixer"]}
               /\ stuck' = (stuck /\ On(service'))
  BY DEF Observe
<1>3. PICK inRange \in BOOLEAN, unclipped \in BOOLEAN :
         LET sess == [session EXCEPT !.best = @ \/ unclipped]
         IN  /\ service' = call.service
             /\ session' \in {NoiseFailed, [sess EXCEPT !.at = "best mixer", !.best = TRUE],
                              Retried(sess, "mixer"), [sess EXCEPT !.at = "best mixer"]}
             /\ stuck' = (stuck /\ On(service'))
  BY <1>2
<1> DEFINE best == session.best \/ unclipped
           sess == [session EXCEPT !.best = best]
           found == [sess EXCEPT !.at = "best mixer", !.best = TRUE]
           kept == [sess EXCEPT !.at = "best mixer"]
<1>4. /\ service' = call.service /\ stuck' = (stuck /\ On(service'))
      /\ session' \in {NoiseFailed, found, Retried(sess, "mixer"), kept}
  BY <1>3
<1> HIDE DEF best
<1>5. SameOperation(sess, session)
  BY KeyingNow DEF SameOperation, IsSession, SessionFields
<1> HIDE DEF sess
<1>6. \A n \in {found, kept} :
         /\ IsSession(n) /\ n.selected = session.selected /\ n.adjust = session.adjust
         /\ n.at = "best mixer"
  BY <1>5 DEF SameOperation, IsSession, SessionFields
<1> HIDE DEF found, kept
<1>7. Continues(session', session)
  <2>1. \A n \in {found, kept} : Continues(n, session)
    BY <1>1, <1>6, QuietContinues DEF QuietPlaces
  <2>2. Continues(Retried(sess, "mixer"), session)
    BY <1>1, <1>5, RetriedContinues DEF QuietPlaces
  <2> QED BY <1>4, <2>1, <2>2, NoiseFailedContinues
<1>8. call \in LiveOutcomes(service, service)
  BY <1>2 DEF LiveOutcomes
<1> QED BY <1>1, <1>4, <1>7, <1>8, QuietCallStep DEF QuietPlaces

\* The noise level is written or the calibration gives up, with nothing keyed.
LEMMA NoiseLevelReleases == TunerInv /\ KeyingInv /\ NoiseLevel => KeyingInv'
<1> SUFFICES ASSUME TunerInv, KeyingInv, NoiseLevel PROVE KeyingInv'
  OBVIOUS
<1>1. session.at = "noise level" /\ backend' = backend
  BY DEF NoiseLevel
<1> DEFINE content == Changed(session.from, "reload")
<1>2. PICK call \in Outcomes(service, service) :
         /\ service' = call.service
         /\ session' \in {Write(session, "noise", content, "reload"), NoiseFailed}
         /\ stuck' = (stuck /\ On(service'))
  BY DEF NoiseLevel
<1>3. IsSession(session) /\ ~session.adjust
  BY <1>1, KeyingNow DEF Operates, Chain
<1> HIDE DEF content
<1>4. Continues(session', session)
  BY <1>2, <1>3, WriteContinues, NoiseFailedContinues
<1>5. call \in LiveOutcomes(service, service)
  BY <1>2 DEF LiveOutcomes
<1> QED BY <1>1, <1>2, <1>4, <1>5, QuietCallStep DEF QuietPlaces

\* A call that moves the mixer keys nothing, whether it fails or not.
LEMMA SetMixerReleases == TunerInv /\ KeyingInv /\ SetMixer => KeyingInv'
<1> SUFFICES ASSUME TunerInv, KeyingInv, SetMixer PROVE KeyingInv'
  OBVIOUS
<1> DEFINE after == [service EXCEPT !.mixer = "moved"]
           seen == [session EXCEPT !.at = "observe"]
           best == [session EXCEPT !.at = "noise level"]
<1>1. session.at \in {"mixer", "best mixer"} /\ backend' = backend
  BY DEF SetMixer
<1>2. PICK call \in LiveOutcomes(service, after) :
         /\ service' = call.service /\ stuck' = (stuck /\ On(service'))
         /\ session' \in {NoiseFailed, seen, best}
  BY DEF SetMixer
<1>3. /\ IsService(after) /\ after.link = service.link /\ after.keyed = service.keyed
      /\ after.toned = service.toned /\ after.active = service.active
      /\ after.configured = service.configured
  BY KeyingNow DEF IsService, ServiceFields
<1> HIDE DEF after
<1>4. /\ Connected(call.service)
      /\ call.service = service \/ call.service = after \/ Cleared(call.service)
  BY <1>3, KeyingNow, CallKeying DEF Connected
<1>5. Connected(service') /\ Quieter(service', service) /\ StuckStays
  BY <1>2, <1>3, <1>4 DEF Quieter, StuckStays, On, Cleared
<1>6. \A n \in {seen, best} :
         /\ IsSession(n) /\ n.selected = session.selected /\ n.adjust = session.adjust
         /\ n.at \in {"observe", "noise level"}
  BY KeyingNow DEF IsSession, SessionFields
<1> HIDE DEF seen, best
<1>7. Continues(session', session)
  BY <1>1, <1>2, <1>6, QuietContinues, NoiseFailedContinues DEF QuietPlaces
<1> QED BY <1>1, <1>5, <1>7, QuietStep DEF QuietPlaces

-----------------------------------------------------------------------------
(* Keying and releasing.                                                   *)

\* CleanUp, and where a step that fails goes.
LEMMA AbandonContinues ==
    ASSUME NEW s, IsSession(s), Operates(s),
           s.at \in {"tone on", "key", "hold", "burst unkey", "burst quiet", "pause", "prompt"}
    PROVE  /\ Continues(CleanUp(s), s) /\ CleanUp(s).at = "unkey" /\ CleanUp(s).tone = s.tone
           /\ Continues(Abandon(s), s)
           /\ s.job = "flash" => Abandon(s) = CleanUp(s)
<1> DEFINE unkey == [s EXCEPT !.at = "unkey"]
           quiet == [s EXCEPT !.at = "tone off"]
<1>1. \A n \in {unkey, quiet} : SameOperation(n, s)
  BY DEF SameOperation, IsSession, SessionFields
<1>2. unkey.at = "unkey" /\ quiet.at = "tone off"
  BY DEF IsSession, SessionFields
<1>3. /\ CleanUp(s) = unkey
      /\ s.job = "flash" => Abandon(s) = unkey
      /\ \/ Abandon(s) \in {unkey, Over(s)}
         \/ s.tone /\ Abandon(s) = quiet
  BY DEF Abandon, CleanUp
<1> HIDE DEF unkey, quiet
<1>4. Continues(unkey, s) /\ (s.tone => Continues(quiet, s))
  BY <1>1, <1>2 DEF Continues, SameOperation, Operates
<1>5. Continues(Over(s), s)
  BY OverContinues
<1>6. unkey.tone = s.tone
  BY <1>1 DEF SameOperation
<1> QED BY <1>2, <1>3, <1>4, <1>5, <1>6

\* A call that keys: it is remembered where it may have failed.
LEMMA KeyingCall ==
    ASSUME TunerInv, KeyingInv, NEW at \in {"tone on", "key", "burst unkey", "burst quiet"},
           NEW after, IsService(after), after.link = service.link,
           after.active = service.active, after.configured = service.configured,
           NEW sess, Continues(sess, session), LiveCall(at, after, sess)
    PROVE  /\ session.at = at /\ backend' = backend /\ Connected(service')
           /\ Continues(session', session)
           /\ Cleared(service') \/ stuck'
              \/ /\ ~stuck /\ service' \in {service, after}
                 /\ at = "burst unkey" => service' = after
                 /\ session' = sess \/ (session.job = "flash" /\ session' = CleanUp(session))
<1>1. session.at = at /\ backend' = backend
  BY DEF LiveCall
<1>2. PICK call \in LiveOutcomes(service, after) :
         /\ service' = call.service
         /\ session' = IF call.ok THEN sess ELSE Abandon(session)
         /\ stuck' = ((stuck \/ (call.service # after /\ at = "burst unkey")
                             \/ (~call.ok /\ session.job # "flash")) /\ On(service'))
  BY DEF LiveCall
<1>3. /\ Connected(service')
      /\ service' = service \/ service' = after \/ Cleared(service')
  <2>1. /\ Connected(service) /\ backend \in {"asterisk", "standalone"}
        /\ after.active \in Radios \cup {NoRadio}
        /\ backend = "asterisk" => after.active \in Radios
    BY KeyingNow DEF Connected
  <2>2. /\ Connected(call.service)
        /\ call.service = service \/ call.service = after \/ Cleared(call.service)
    BY <2>1, CallKeying
  <2>3. service' = call.service
    BY <1>2
  <2> QED BY <2>2, <2>3
<1>4. /\ Continues(Abandon(session), session)
      /\ session.job = "flash" => Abandon(session) = CleanUp(session)
  BY <1>1, KeyingNow, AbandonContinues
<1>5. On(service') <=> ~Cleared(service')
  BY DEF On, Cleared
<1>6. ASSUME ~Cleared(service'), ~stuck'
      PROVE  /\ ~stuck /\ service' \in {service, after}
             /\ at = "burst unkey" => service' = after
             /\ session' = sess \/ (session.job = "flash" /\ session' = CleanUp(session))
  <2>1. /\ ~stuck /\ ~(service' # after /\ at = "burst unkey")
        /\ ~(~call.ok /\ session.job # "flash")
    BY <1>2, <1>5, <1>6
  <2> QED BY <1>2, <1>3, <1>4, <1>6, <2>1
<1>7. Continues(session', session)
  BY <1>2, <1>4
<1> QED BY <1>1, <1>3, <1>6, <1>7

\* What has to be shown of a keying step.
LEMMA KeyingStep ==
    ASSUME KeyingInv, backend' = backend, session.at \notin {"none", "ended"},
           Continues(session', session), Connected(service'),
           \/ Cleared(service') \/ stuck'
           \/ /\ service'.keyed # {} => KeyedPlace(session')
              /\ service'.toned # {} => TonedPlace(session')
              /\ service'.keyed \cup service'.toned \subseteq {service'.active}
           \/ ~OneActive
    PROVE  KeyingInv'
<1>1. OneActive' <=> OneActive
  BY DEF OneActive
<1>2. ReleaseInv'
  BY <1>1 DEF ReleaseInv, Cleared
<1> QED BY <1>2, SessionGoesOn

\* The session at its next place.
LEMMA MoveContinues ==
    ASSUME TunerInv, KeyingInv,
           session.at \in {"tone on", "key", "hold", "burst unkey", "burst quiet", "pause", "unkey"},
           NEW at \in {"key", "hold", "prompt", "burst unkey", "burst quiet", "pause", "tone on",
                       "tone off"},
           at \in {"tone on", "hold", "burst unkey", "burst quiet", "pause", "tone off"}
              \/ (at = "key" /\ session.job = "flash") => session.tone,
           at = "tone off" \/ ~session.adjust,
           NEW n, SameOperation(n, session), n.at = at
    PROVE  Continues(n, session)
BY DEF Continues, SameOperation, Operates

\* The tone of a burst or of an edit.
LEMMA ToneOnReleases == TunerInv /\ KeyingInv /\ ToneOn => KeyingInv'
<1> SUFFICES ASSUME TunerInv, KeyingInv, ToneOn PROVE KeyingInv'
  OBVIOUS
<1> DEFINE n == [session EXCEPT !.at = "key"]
           after == Toned(service, TRUE)
<1>1. session.at = "tone on" /\ LiveCall("tone on", after, n)
  BY DEF ToneOn, LiveCall
<1>2. SameOperation(n, session) /\ n.at = "key"
  BY KeyingNow DEF SameOperation, IsSession, SessionFields
<1>3. session.tone /\ ~session.adjust
  BY <1>1, KeyingNow DEF Operates, Chain
<1>4. /\ IsService(after) /\ after.keyed = service.keyed
      /\ after.toned = service.toned \cup {service.active}
      /\ after.active = service.active /\ after.configured = service.configured
      /\ after.link = service.link
  BY KeyingNow, TonedKeying
<1> HIDE DEF n, after
<1>5. Continues(n, session)
  BY <1>1, <1>2, <1>3, MoveContinues
<1>6. /\ backend' = backend /\ Connected(service') /\ Continues(session', session)
      /\ Cleared(service') \/ stuck'
         \/ /\ ~stuck /\ service' \in {service, after}
            /\ session' = n \/ session' = CleanUp(session)
  BY <1>1, <1>4, <1>5, KeyingCall
<1>7. ASSUME OneActive, ~stuck, service' \in {service, after},
             session' = n \/ session' = CleanUp(session)
      PROVE  /\ service'.keyed = {} /\ TonedPlace(session')
             /\ service'.keyed \cup service'.toned \subseteq {service'.active}
  <2>1. service.keyed = {} /\ service.toned \subseteq {service.active}
    BY <1>1, <1>3, <1>7, KeyingNow DEF ReleaseInv, KeyedPlace, Chain
  <2>2. session'.tone = session.tone /\ session'.at \in {"key", "unkey"}
    BY <1>1, <1>2, <1>7, KeyingNow, AbandonContinues DEF SameOperation
  <2>3. TonedPlace(session')
    BY <1>3, <2>2 DEF TonedPlace
  <2> QED BY <1>4, <1>7, <2>1, <2>3
<1> QED BY <1>1, <1>6, <1>7, KeyingStep

\* The key of a burst or of an edit.
LEMMA KeyReleases == TunerInv /\ KeyingInv /\ Key => KeyingInv'
<1> SUFFICES ASSUME TunerInv, KeyingInv, Key PROVE KeyingInv'
  OBVIOUS
<1> DEFINE p == IF session.job = "flash" THEN "hold" ELSE "prompt"
           n == [session EXCEPT !.at = p]
           after == Keyed(service, TRUE)
<1>1. session.at = "key" /\ LiveCall("key", after, n)
  BY DEF Key, LiveCall
<1>2. SameOperation(n, session) /\ n.at = p
  BY KeyingNow DEF SameOperation, IsSession, SessionFields
<1>3. (session.job = "flash" => session.tone) /\ ~session.adjust
  BY <1>1, KeyingNow DEF Operates, Chain
<1>4. /\ IsService(after) /\ after.keyed = service.keyed \cup {service.active}
      /\ after.toned = service.toned
      /\ after.active = service.active /\ after.configured = service.configured
      /\ after.link = service.link
  BY KeyingNow, KeyedKeying
<1>p. p \in {"hold", "prompt"} /\ (p = "hold" => session.job = "flash")
  OBVIOUS
<1> HIDE DEF n, after, p
<1>5. Continues(n, session)
  BY <1>1, <1>2, <1>3, <1>p, MoveContinues
<1>6. /\ backend' = backend /\ Connected(service') /\ Continues(session', session)
      /\ Cleared(service') \/ stuck'
         \/ /\ ~stuck /\ service' \in {service, after}
            /\ session' = n \/ session' = CleanUp(session)
  BY <1>1, <1>4, <1>5, KeyingCall
<1>7. ASSUME OneActive, ~stuck, service' \in {service, after},
             session' = n \/ session' = CleanUp(session)
      PROVE  /\ KeyedPlace(session') /\ (service'.toned # {} => TonedPlace(session'))
             /\ service'.keyed \cup service'.toned \subseteq {service'.active}
  <2>1. /\ service.toned # {} => session.tone
        /\ service.keyed \cup service.toned \subseteq {service.active}
    BY <1>7, KeyingNow DEF ReleaseInv, TonedPlace
  <2>2. session'.tone = session.tone /\ session'.at \in {"hold", "prompt", "unkey"}
    BY <1>1, <1>2, <1>p, <1>7, KeyingNow, AbandonContinues DEF SameOperation
  <2>3. KeyedPlace(session') /\ (session.tone => TonedPlace(session'))
    BY <2>2 DEF KeyedPlace, TonedPlace
  <2> QED BY <1>4, <1>7, <2>1, <2>3
<1> QED BY <1>1, <1>6, <1>7, KeyingStep

\* The end of a burst: a key that is not released is remembered.
LEMMA BurstUnkeyReleases == TunerInv /\ KeyingInv /\ BurstUnkey => KeyingInv'
<1> SUFFICES ASSUME TunerInv, KeyingInv, BurstUnkey PROVE KeyingInv'
  OBVIOUS
<1> DEFINE n == [session EXCEPT !.at = "burst quiet"]
           after == Keyed(service, FALSE)
<1>1. session.at = "burst unkey" /\ LiveCall("burst unkey", after, n)
  BY DEF BurstUnkey, LiveCall
<1>2. SameOperation(n, session) /\ n.at = "burst quiet"
  BY KeyingNow DEF SameOperation, IsSession, SessionFields
<1>3. session.tone /\ ~session.adjust
  BY <1>1, KeyingNow DEF Operates, Chain
<1>4. /\ IsService(after) /\ after.keyed = service.keyed \ {service.active}
      /\ after.toned = service.toned
      /\ after.active = service.active /\ after.configured = service.configured
      /\ after.link = service.link
  BY KeyingNow, KeyedKeying
<1> HIDE DEF n, after
<1>5. Continues(n, session)
  BY <1>1, <1>2, <1>3, MoveContinues
<1>6. /\ backend' = backend /\ Connected(service') /\ Continues(session', session)
      /\ Cleared(service') \/ stuck'
         \/ /\ ~stuck /\ service' = after
            /\ session' = n \/ session' = CleanUp(session)
  BY <1>1, <1>4, <1>5, KeyingCall
<1>7. ASSUME OneActive, ~stuck, service' = after, session' = n \/ session' = CleanUp(session)
      PROVE  /\ service'.keyed = {} /\ TonedPlace(session')
             /\ service'.keyed \cup service'.toned \subseteq {service'.active}
  <2>1. service.keyed \cup service.toned \subseteq {service.active}
    BY <1>7, KeyingNow DEF ReleaseInv
  <2>2. session'.tone = session.tone /\ session'.at \in {"burst quiet", "unkey"}
    BY <1>1, <1>2, <1>7, KeyingNow, AbandonContinues DEF SameOperation
  <2>3. TonedPlace(session')
    BY <1>3, <2>2 DEF TonedPlace
  <2> QED BY <1>4, <1>7, <2>1, <2>3
<1> QED BY <1>1, <1>6, <1>7, KeyingStep

\* The tone between bursts.
LEMMA BurstQuietReleases == TunerInv /\ KeyingInv /\ BurstQuiet => KeyingInv'
<1> SUFFICES ASSUME TunerInv, KeyingInv, BurstQuiet PROVE KeyingInv'
  OBVIOUS
<1> DEFINE n == [session EXCEPT !.at = "pause", !.attempt = @ + 1]
           m == IF session.attempt + 1 < Bursts THEN n ELSE CleanUp(session)
           after == Toned(service, FALSE)
<1>1. session.at = "burst quiet" /\ LiveCall("burst quiet", after, m)
  BY DEF BurstQuiet, LiveCall
<1>2. SameOperation(n, session) /\ n.at = "pause"
  BY KeyingNow DEF SameOperation, IsSession, SessionFields
<1>3. session.tone /\ ~session.adjust
  BY <1>1, KeyingNow DEF Operates, Chain
<1>4. /\ IsService(after) /\ after.keyed = service.keyed
      /\ after.toned = service.toned \ {service.active}
      /\ after.active = service.active /\ after.configured = service.configured
      /\ after.link = service.link
  BY KeyingNow, TonedKeying
<1>m. m \in {n, CleanUp(session)}
  OBVIOUS
<1> HIDE DEF n, m, after
<1>5. Continues(n, session) /\ Continues(CleanUp(session), session)
  BY <1>1, <1>2, <1>3, KeyingNow, MoveContinues, AbandonContinues
<1>6. /\ backend' = backend /\ Connected(service') /\ Continues(session', session)
      /\ Cleared(service') \/ stuck'
         \/ /\ ~stuck /\ service' \in {service, after}
            /\ session' = n \/ session' = CleanUp(session)
  <2>1. Continues(m, session)
    BY <1>m, <1>5
  <2> QED BY <1>1, <1>4, <1>m, <2>1, KeyingCall
<1>7. ASSUME OneActive, ~stuck, service' \in {service, after},
             session' = n \/ session' = CleanUp(session)
      PROVE  /\ service'.keyed = {} /\ TonedPlace(session')
             /\ service'.keyed \cup service'.toned \subseteq {service'.active}
  <2>1. service.keyed = {} /\ service.toned \subseteq {service.active}
    BY <1>1, <1>3, <1>7, KeyingNow DEF ReleaseInv, KeyedPlace, Chain
  <2>2. session'.tone = session.tone /\ session'.at \in {"pause", "unkey"}
    BY <1>1, <1>2, <1>7, KeyingNow, AbandonContinues DEF SameOperation
  <2>3. TonedPlace(session')
    BY <1>3, <2>2 DEF TonedPlace
  <2> QED BY <1>4, <1>7, <2>1, <2>3
<1> QED BY <1>1, <1>6, <1>7, KeyingStep

\* During a burst and between bursts, and the edit made under keying.
LEMMA HoldReleases == TunerInv /\ KeyingInv /\ (Hold \/ Pause) => KeyingInv'
<1> SUFFICES ASSUME TunerInv, KeyingInv, Hold \/ Pause PROVE KeyingInv'
  OBVIOUS
<1> DEFINE off == [session EXCEPT !.at = "burst unkey"]
           on  == [session EXCEPT !.at = "tone on"]
<1>1. /\ UNCHANGED <<backend, service, stuck>>
      /\ \/ session.at = "hold" /\ session' \in {off, CleanUp(session)}
         \/ session.at = "pause" /\ session' \in {on, CleanUp(session)}
  BY DEF Hold, Pause
<1>2. /\ SameOperation(off, session) /\ off.at = "burst unkey"
      /\ SameOperation(on, session) /\ on.at = "tone on"
  BY KeyingNow DEF SameOperation, IsSession, SessionFields
<1>3. session.tone /\ ~session.adjust
  BY <1>1, KeyingNow DEF Operates, Chain
<1> HIDE DEF on, off
<1>4. Continues(on, session) /\ Continues(off, session)
  BY <1>1, <1>2, <1>3, MoveContinues
<1>5. /\ Continues(CleanUp(session), session) /\ CleanUp(session).at = "unkey"
      /\ CleanUp(session).tone = session.tone
  BY <1>1, KeyingNow, AbandonContinues
<1>6. Continues(session', session)
  BY <1>1, <1>4, <1>5
<1>7. session'.tone = session.tone
  BY <1>1, <1>2, <1>5 DEF SameOperation
<1>8. KeyedPlace(session) => KeyedPlace(session')
  BY <1>1, <1>2, <1>3, <1>5 DEF KeyedPlace, Chain
<1>9. TonedPlace(session')
  BY <1>1, <1>2, <1>3, <1>5, <1>7 DEF TonedPlace
<1>10. StuckStays /\ Quieter(service', service) /\ Connected(service')
  BY <1>1, KeyingNow DEF StuckStays, Quieter, Connected, Cleared
<1>11. ReleaseInv'
  BY <1>1, <1>8, <1>9, <1>10, KeyingNow, KeyingCarried
<1> QED BY <1>1, <1>6, <1>10, <1>11, SessionGoesOn

\* Answering the prompt under keying either edits, with the clean-up still owed, or
\* goes to the clean-up.
LEMMA PromptReleases == TunerInv /\ KeyingInv /\ PromptAnswered => KeyingInv'
<1> SUFFICES ASSUME TunerInv, KeyingInv, PromptAnswered PROVE KeyingInv'
  OBVIOUS
<1> DEFINE s == [session EXCEPT !.adjust = TRUE]
           content == Changed(session.from, "reload")
           n == Write(s, "edit", content, "reload")
<1>1. /\ session.at = "prompt" /\ UNCHANGED <<backend, service, stuck>>
      /\ session' \in {n, CleanUp(session)}
  BY DEF PromptAnswered
<1> HIDE DEF content
<1>2. IsSession(s) /\ s.adjust = TRUE /\ s.tone = session.tone /\ s.selected = session.selected
  BY KeyingNow DEF IsSession, SessionFields
<1> HIDE DEF s
<1>3. /\ IsSession(n) /\ n.at = "write" /\ n.job = "edit" /\ n.adjust = TRUE
      /\ n.tone = session.tone /\ n.selected = session.selected
  BY <1>2 DEF Write, IsSession, SessionFields
<1> HIDE DEF n
<1>4. Continues(n, session)
  BY <1>3 DEF Continues, Operates, Chain
<1>5. /\ Continues(CleanUp(session), session) /\ CleanUp(session).at = "unkey"
      /\ CleanUp(session).tone = session.tone
  BY <1>1, KeyingNow, AbandonContinues
<1>6. Continues(session', session)
  BY <1>1, <1>4, <1>5
<1>7. session'.tone = session.tone
  BY <1>1, <1>3, <1>5
<1>8. session'.at = "unkey" \/ (session'.at \in Chain /\ session'.adjust)
  BY <1>1, <1>3, <1>5 DEF Chain
<1>9. KeyedPlace(session') /\ (TonedPlace(session) => TonedPlace(session'))
  BY <1>7, <1>8 DEF KeyedPlace, TonedPlace
<1>10. StuckStays /\ Quieter(service', service) /\ Connected(service')
  BY <1>1, KeyingNow DEF StuckStays, Quieter, Connected, Cleared
<1>11. ReleaseInv'
  BY <1>1, <1>9, <1>10, KeyingNow, KeyingCarried
<1> QED BY <1>1, <1>6, <1>10, <1>11, SessionGoesOn

\* A releasing call that does not take effect is remembered.
LEMMA ReleaseCall ==
    ASSUME TunerInv, KeyingInv, NEW at \in {"unkey", "tone off"},
           NEW after, IsService(after), after.link = service.link,
           after.active = service.active, after.configured = service.configured,
           NEW sess, Continues(sess, session), Release(at, after, sess)
    PROVE  /\ session.at = at /\ backend' = backend /\ Connected(service')
           /\ session' = sess
           /\ Cleared(service') \/ stuck' \/ (~stuck /\ service' = after)
<1>1. session.at = at /\ backend' = backend /\ session' = sess
  BY DEF Release
<1>2. PICK call \in LiveOutcomes(service, after) :
         /\ service' = call.service
         /\ stuck' = ((stuck \/ call.service # after) /\ On(service'))
  BY DEF Release
<1>3. Connected(service')
  <2>1. /\ Connected(service) /\ backend \in {"asterisk", "standalone"}
        /\ after.active \in Radios \cup {NoRadio}
        /\ backend = "asterisk" => after.active \in Radios
    BY KeyingNow DEF Connected
  <2>2. Connected(call.service)
    BY <2>1, CallKeying
  <2>3. service' = call.service
    BY <1>2
  <2> QED BY <2>2, <2>3
<1>4. On(service') <=> ~Cleared(service')
  BY DEF On, Cleared
<1>5. ASSUME ~Cleared(service'), ~stuck' PROVE ~stuck /\ service' = after
  BY <1>2, <1>4, <1>5
<1> QED BY <1>1, <1>3, <1>5

\* The first call of the clean-up; without a tone it is the last.
LEMMA UnkeyReleases == TunerInv /\ KeyingInv /\ Unkey => KeyingInv'
<1> SUFFICES ASSUME TunerInv, KeyingInv, Unkey PROVE KeyingInv'
  OBVIOUS
<1> DEFINE n == [session EXCEPT !.at = "tone off"]
           m == IF session.tone THEN n ELSE Over(session)
           after == Keyed(service, FALSE)
<1>1. session.at = "unkey" /\ Release("unkey", after, m)
  BY DEF Unkey, Release
<1>2. SameOperation(n, session) /\ n.at = "tone off"
  BY KeyingNow DEF SameOperation, IsSession, SessionFields
<1>4. /\ IsService(after) /\ after.keyed = service.keyed \ {service.active}
      /\ after.toned = service.toned
      /\ after.active = service.active /\ after.configured = service.configured
      /\ after.link = service.link
  BY KeyingNow, KeyedKeying
<1>m. (session.tone => m = n) /\ (~session.tone => m = Over(session))
  OBVIOUS
<1> HIDE DEF n, m, after
<1>5. Continues(m, session)
  <2>1. CASE session.tone
    BY <1>1, <1>2, <1>m, <2>1, MoveContinues
  <2>2. CASE ~session.tone
    BY <1>m, <2>2, KeyingNow, OverContinues
  <2> QED BY <2>1, <2>2
<1>6. /\ backend' = backend /\ Connected(service') /\ session' = m
      /\ Cleared(service') \/ stuck' \/ (~stuck /\ service' = after)
  BY <1>1, <1>4, <1>5, ReleaseCall
<1>7. ASSUME OneActive, ~stuck, service' = after
      PROVE  /\ service'.keyed = {} /\ (service'.toned # {} => TonedPlace(session'))
             /\ service'.keyed \cup service'.toned \subseteq {service'.active}
  <2>1. /\ service.keyed \cup service.toned \subseteq {service.active}
        /\ service.toned # {} => session.tone
    BY <1>7, KeyingNow DEF ReleaseInv, TonedPlace
  <2>2. ASSUME session.tone PROVE TonedPlace(session')
    <3>1. session' = n /\ n.tone = session.tone
      BY <1>2, <1>6, <1>m, <2>2 DEF SameOperation
    <3> QED BY <1>2, <2>2, <3>1 DEF TonedPlace
  <2> QED BY <1>4, <1>7, <2>1, <2>2
<1> QED BY <1>1, <1>5, <1>6, <1>7, KeyingStep

\* The last call of the clean-up.
LEMMA ToneOffReleases == TunerInv /\ KeyingInv /\ ToneOff => KeyingInv'
<1> SUFFICES ASSUME TunerInv, KeyingInv, ToneOff PROVE KeyingInv'
  OBVIOUS
<1> DEFINE after == Toned(service, FALSE)
<1>1. session.at = "tone off" /\ Release("tone off", after, Over(session))
  BY DEF ToneOff, Release
<1>4. /\ IsService(after) /\ after.keyed = service.keyed
      /\ after.toned = service.toned \ {service.active}
      /\ after.active = service.active /\ after.configured = service.configured
      /\ after.link = service.link
  BY KeyingNow, TonedKeying
<1> HIDE DEF after
<1>5. Continues(Over(session), session)
  BY KeyingNow, OverContinues
<1>6. /\ backend' = backend /\ Connected(service') /\ session' = Over(session)
      /\ Cleared(service') \/ stuck' \/ (~stuck /\ service' = after)
  BY <1>1, <1>4, <1>5, ReleaseCall
<1>7. ASSUME OneActive, ~stuck, service' = after PROVE Cleared(service')
  <2>1. service.keyed = {} /\ service.toned \subseteq {service.active}
    BY <1>1, <1>7, KeyingNow DEF ReleaseInv, KeyedPlace, Chain
  <2> QED BY <1>4, <1>7, <2>1 DEF Cleared
<1> QED BY <1>1, <1>5, <1>6, <1>7, KeyingStep

-----------------------------------------------------------------------------
(* The menu, and tools that come and go.                                   *)

\* Every choice starts with nothing keyed.
LEMMA ChooseReleases ==
    ASSUME TunerInv, KeyingInv, NEW sess, Continues(sess, session), Choose(sess)
    PROVE  KeyingInv'
<1>1. session.at = "menu" /\ session' = sess /\ UNCHANGED <<backend, service, stuck>>
  BY DEF Choose
<1>2. Connected(service') /\ Quieter(service', service) /\ StuckStays
  BY <1>1, KeyingNow DEF Connected, Cleared, Quieter, StuckStays
<1> QED BY <1>1, <1>2, QuietStep DEF QuietPlaces

\* What an operation starts from.
LEMMA ChosenKeying ==
    ASSUME TunerInv, NEW job
    PROVE  LET n == Chosen(job)
           IN  /\ IsSession(n) /\ ~n.adjust /\ n.selected = session.selected
               /\ \A s : Continues(s, n) => Continues(s, session)
<1> DEFINE n == Chosen(job)
<1>0. IsSession(session)
  BY DEF TunerInv, SessionSound, Sound
<1>1. IsSession(n) /\ ~n.adjust /\ n.selected = session.selected
  BY <1>0 DEF Chosen, IsSession, SessionFields
<1> HIDE DEF n
<1>2. \A s : Continues(s, n) => Continues(s, session)
  BY <1>1 DEF Continues
<1> QED BY <1>1, <1>2 DEF n

\* Every choice of the menu keeps the releases; choosing a channel also changes the
\* radio the operations act on, with nothing keyed.
LEMMA MenuReleases == TunerInv /\ KeyingInv /\ MenuChoice => KeyingInv'
<1> SUFFICES ASSUME TunerInv, KeyingInv, MenuChoice PROVE KeyingInv'
  OBVIOUS
<1>1. ASSUME NEW job, NEW content, NEW mode
      PROVE  Continues(Write(Chosen(job), job, content, mode), session)
  BY ChosenKeying, WriteContinues
<1>2. ASSUME NEW job PROVE Continues(AtMenu(Chosen(job)), session)
  BY ChosenKeying, OverContinues
<1>3. Continues(AtEnd, session)
  BY KeyingNow, OverContinues
<1>4. ASSUME NEW job, NEW at \in {"candidate", "mixer", "key"}
      PROVE  Continues([Chosen(job) EXCEPT !.at = at], session)
             \/ (at = "key" /\ job = "flash")
  <2> DEFINE c == Chosen(job)
             n == [c EXCEPT !.at = at]
  <2>1. IsSession(c) /\ ~c.adjust /\ c.selected = session.selected /\ c.job = job
    BY KeyingNow, ChosenKeying, ChosenFields
  <2> HIDE DEF c
  <2>2. /\ IsSession(n) /\ n.at = at /\ n.job = job /\ n.selected = session.selected
        /\ n.adjust = c.adjust
    BY <2>1 DEF IsSession, SessionFields
  <2> HIDE DEF n
  <2>3. Continues(n, session) \/ (at = "key" /\ job = "flash")
    BY <2>1, <2>2 DEF Continues, Operates
  <2> QED BY <2>3 DEF n, c
<1>5. ASSUME NEW job PROVE Continues([Chosen(job) EXCEPT !.at = "tone on", !.tone = TRUE], session)
  <2> DEFINE c == Chosen(job)
             n == [c EXCEPT !.at = "tone on", !.tone = TRUE]
  <2>1. IsSession(c) /\ ~c.adjust /\ c.selected = session.selected
    BY ChosenKeying
  <2> HIDE DEF c
  <2>2. /\ IsSession(n) /\ n.at = "tone on" /\ n.tone = TRUE /\ n.selected = session.selected
        /\ n.adjust = c.adjust
    BY <2>1 DEF IsSession, SessionFields
  <2> HIDE DEF n
  <2>3. Continues(n, session)
    BY <2>1, <2>2 DEF Continues, Operates
  <2> QED BY <2>3 DEF n, c
<1>6. CASE \E mode : Edit(mode)
  BY <1>1, <1>6, ChooseReleases DEF Edit
<1>7. CASE SwapUsbDevice
  BY <1>1, <1>7, ChooseReleases DEF SwapUsbDevice
<1>8. CASE ChooseChannel
  <2>1. session.at = "menu" /\ backend' = backend /\ stuck' = (stuck /\ On(service'))
    BY <1>8 DEF ChooseChannel
  <2>r. PICK r \in Radios : \E call \in SelectOutcomes(service, r) :
           /\ service' = call.service
           /\ session' = AtMenu([Chosen("channel") EXCEPT !.selected = IF call.ok THEN r ELSE @])
    BY <1>8 DEF ChooseChannel
  <2>2. PICK call \in SelectOutcomes(service, r) :
           /\ service' = call.service
           /\ session' = AtMenu([Chosen("channel") EXCEPT !.selected = IF call.ok THEN r ELSE @])
    BY <2>r
  <2> DEFINE c == Chosen("channel")
             node == IF call.ok THEN r ELSE c.selected
             n == [c EXCEPT !.selected = node]
  <2>3. session' = AtMenu(n)
    BY <2>2
  <2>4. IsSession(c) /\ c.selected \in Radios
    BY <2>1, KeyingNow, ChosenKeying
  <2>5. node \in Radios
    BY <2>4
  <2> HIDE DEF c, node
  <2>6. IsSession(n) /\ n.selected = node
    BY <2>4 DEF IsSession, SessionFields
  <2> HIDE DEF n
  <2>7. Continues(session', n)
    BY <2>3, <2>6, OverContinues
  <2>8. Connected(service') /\ (Cleared(service) => Cleared(service'))
    BY <2>2, KeyingNow, SelectKeying
  <2>9. StuckStays
    BY <2>1 DEF StuckStays, On, Cleared
  <2>10. ~KeyedPlace(session) /\ ~TonedPlace(session)
    BY <2>1 DEF KeyedPlace, TonedPlace, Chain
  <2>11. ReleaseInv'
    BY <2>1, <2>8, <2>9, <2>10, KeyingNow, NothingKeyed
  <2>12. RadioInv' /\ Operates(session')
    BY <2>1, <2>5, <2>6, <2>7, <2>8 DEF RadioInv, Continues, Connected, Cleared
  <2> QED BY <2>11, <2>12 DEF KeyingInv
<1>9. CASE SaveSession
  <2> DEFINE c == Chosen("save")
             n == [c EXCEPT !.saved = disk.file, !.restart_changed = FALSE]
  <2>1. IsSession(c) /\ c.selected = session.selected
    BY ChosenKeying
  <2>2. Choose(AtMenu(n))
    BY <1>9 DEF SaveSession
  <2> HIDE DEF c
  <2>3. IsSession(n) /\ n.selected = session.selected
    BY <2>1 DEF IsSession, SessionFields
  <2> HIDE DEF n
  <2>4. Continues(AtMenu(n), n)
    BY <2>3, OverContinues
  <2>5. Continues(AtMenu(n), session)
    BY <2>3, <2>4 DEF Continues
  <2> QED BY <2>2, <2>5, ChooseReleases
<1>10. CASE \E job : DiscardSessionChanges(job)
  <2>1. PICK job : DiscardSessionChanges(job)
    BY <1>10
  <2>2. \E n \in {AtEnd, AtMenu(Chosen(job)),
                  Write(Chosen(job), job, session.saved, DiscardMode(session))} : Choose(n)
    BY <2>1 DEF DiscardSessionChanges
  <2> QED BY <1>1, <1>2, <1>3, <2>2, ChooseReleases
<1>11. CASE LeaveSaved
  BY <1>3, <1>11, ChooseReleases DEF LeaveSaved
<1>12. CASE CalibrateGain \/ CalibrateNoise
  <2>1. /\ Continues([Chosen("gain") EXCEPT !.at = "candidate"], session)
        /\ Continues([Chosen("noise") EXCEPT !.at = "mixer"], session)
    BY <1>4
  <2> QED BY <1>12, <2>1, ChooseReleases DEF CalibrateGain, CalibrateNoise
<1>13. CASE FlashTransmitter
  BY <1>5, <1>13, ChooseReleases DEF FlashTransmitter
<1>14. CASE AdjustTransmit(TRUE)
  <2>1. Choose([Chosen("adjust") EXCEPT !.at = "tone on", !.tone = TRUE])
    BY <1>14 DEF AdjustTransmit
  <2> QED BY <1>5, <2>1, ChooseReleases
<1>15. CASE AdjustTransmit(FALSE)
  <2> DEFINE c == Chosen("adjust")
             n == [c EXCEPT !.at = "key", !.tone = FALSE]
  <2>1. IsSession(c) /\ ~c.adjust /\ c.selected = session.selected /\ c.job = "adjust"
    BY KeyingNow, ChosenKeying, ChosenFields
  <2>2. Choose(n)
    BY <1>15 DEF AdjustTransmit
  <2> HIDE DEF c
  <2>3. /\ IsSession(n) /\ n.at = "key" /\ n.job = "adjust" /\ n.selected = session.selected
        /\ n.adjust = c.adjust
    BY <2>1 DEF IsSession, SessionFields
  <2> HIDE DEF n
  <2>4. Continues(n, session)
    BY <2>1, <2>3 DEF Continues, Operates
  <2> QED BY <2>2, <2>4, ChooseReleases
<1> QED BY <1>6, <1>7, <1>8, <1>9, <1>10, <1>11, <1>12, <1>13, <1>14, <1>15 DEF MenuChoice

\* A session opens where nothing is keyed by another.
LEMMA SessionStartsReleases ==
    ASSUME TunerInv, KeyingInv, NEW t \in Tools, SessionStarts(t) PROVE KeyingInv'
<1> DEFINE fresh == [NoSession EXCEPT !.at = "menu", !.saved = disk.file]
           s == Opened(service)
           node == IF backend = "asterisk" THEN s.active ELSE FirstRadio
<1>1. lock = NoTool /\ UNCHANGED <<backend, stuck>>
  BY DEF SessionStarts, LockFree
<1>2. session.at = "none"
  BY <1>1, KeyingNow
<1>3. backend = "standalone" => Cleared(service)
  BY <1>2 DEF KeyingInv, RadioInv
<1>4. /\ Connected(s) /\ s.keyed = service.keyed /\ s.toned = service.toned
      /\ backend = "asterisk" => s.active \in Radios
  <2>1. CASE backend = "asterisk"
    BY <2>1, KeyingNow DEF Opened, Connected
  <2>2. CASE backend = "standalone"
    <3>1. s = [service EXCEPT !.link = TRUE, !.active = NoRadio]
      BY <2>2 DEF Opened
    <3> HIDE DEF s
    <3>2. /\ IsService(s) /\ s.configured = service.configured /\ s.active = NoRadio
          /\ s.link = TRUE /\ s.keyed = service.keyed /\ s.toned = service.toned
      BY <3>1, KeyingNow DEF IsService, ServiceFields
    <3> QED BY <2>2, <3>2, KeyingNow DEF Connected
  <2> QED BY <2>1, <2>2, KeyingNow
<1>5. FirstRadio \in Radios
  BY TuningAssumption DEF FirstRadio
<1>6. node \in Radios
  BY <1>4, <1>5
<1>7. \E r \in Radios : \E call \in SelectOutcomes(s, r) :
         /\ service' = call.service
         /\ session' \in {AtEnd} \cup {[fresh EXCEPT !.selected = r2] : r2 \in Radios}
  <2> HIDE DEF fresh
  <2>1. \/ \E r \in Radios : \E call \in SelectOutcomes(s, r) :
              /\ service' = call.service
              /\ session' = IF call.ok THEN [fresh EXCEPT !.selected = r] ELSE AtEnd
        \/ \E call \in SelectOutcomes(s, node) :
              /\ service' = call.service
              /\ session' = [fresh EXCEPT !.selected = IF call.ok THEN node ELSE FirstRadio]
    BY DEF SessionStarts, fresh
  <2> HIDE DEF s, node
  <2>2. CASE \E r \in Radios : \E call \in SelectOutcomes(s, r) :
              /\ service' = call.service
              /\ session' = IF call.ok THEN [fresh EXCEPT !.selected = r] ELSE AtEnd
    BY <2>2
  <2>3. CASE \E call \in SelectOutcomes(s, node) :
              /\ service' = call.service
              /\ session' = [fresh EXCEPT !.selected = IF call.ok THEN node ELSE FirstRadio]
    BY <1>5, <1>6, <2>3
  <2> QED BY <2>1, <2>2, <2>3
<1> HIDE DEF s
<1>8. Connected(service') /\ (Cleared(service) => Cleared(service'))
  <2>1. PICK r \in Radios : \E call \in SelectOutcomes(s, r) : service' = call.service
    BY <1>7
  <2>2. PICK call \in SelectOutcomes(s, r) : service' = call.service
    BY <2>1
  <2>3. Connected(call.service) /\ (Cleared(s) => Cleared(call.service))
    BY <1>4, KeyingNow, SelectKeying
  <2> QED BY <1>4, <2>2, <2>3 DEF Cleared
<1>9. /\ Operates(session') /\ session'.at # "none"
      /\ session'.at # "ended" => session'.selected \in Radios
  <2>1. IsSession(NoSession) /\ NoSession.adjust = FALSE
    BY DEF NoSession, IsSession, SessionFields
  <2>2. IsSession(fresh) /\ fresh.adjust = FALSE /\ fresh.at = "menu"
    BY <2>1 DEF IsSession, SessionFields
  <2> HIDE DEF fresh
  <2>3. ASSUME NEW r \in Radios
        PROVE  LET n == [fresh EXCEPT !.selected = r]
               IN  n.at = "menu" /\ n.adjust = FALSE /\ n.selected = r
    BY <2>2 DEF IsSession, SessionFields
  <2>4. Operates(AtEnd) /\ AtEnd.at = "ended"
    BY <2>1, OverContinues, EndFields DEF Continues
  <2>5. CASE session' = AtEnd
    BY <2>4, <2>5
  <2>6. CASE session' \in {[fresh EXCEPT !.selected = r2] : r2 \in Radios}
    <3>1. PICK r2 \in Radios : session' = [fresh EXCEPT !.selected = r2]
      BY <2>6
    <3>2. session'.at = "menu" /\ session'.adjust = FALSE /\ session'.selected = r2
      BY <2>3, <3>1
    <3> QED BY <3>2 DEF Operates
  <2> QED BY <1>7, <2>5, <2>6
<1>10. ReleaseInv'
  <2>1. ~KeyedPlace(session) /\ ~TonedPlace(session)
    BY <1>2 DEF KeyedPlace, TonedPlace, Chain
  <2> QED BY <1>1, <1>8, <2>1, KeyingNow, NothingKeyed DEF StuckStays
<1>11. RadioInv'
  BY <1>1, <1>8, <1>9 DEF RadioInv, Connected, Cleared
<1> QED BY <1>9, <1>10, <1>11 DEF KeyingInv

\* A session that ends, or is killed, releases its connection's keying.
LEMMA GoneReleases ==
    ASSUME TunerInv, KeyingInv, backend' = backend, session' = NoSession,
           service' = Released(service),
           \/ stuck' = stuck /\ session.at = "ended"
           \/ stuck' = On(service')
    PROVE  KeyingInv'
<1>1. /\ Connected(service') /\ (backend = "standalone" => Cleared(service'))
      /\ Cleared(service) => Cleared(service')
  <2>1. CASE backend = "standalone"
    <3>1. service' = Dropped(service)
      BY <2>1 DEF Released
    <3>2. /\ IsService(service') /\ Cleared(service') /\ service'.active = service.active
          /\ service'.configured = service.configured
      BY <3>1, KeyingNow, ServiceKeying
    <3> QED BY <2>1, <3>2, KeyingNow DEF Connected
  <2>2. CASE backend = "asterisk"
    <3>1. service' = service
      BY <2>2 DEF Released
    <3> QED BY <2>2, <3>1, KeyingNow DEF Connected, Cleared
  <2> QED BY <2>1, <2>2, KeyingNow
<1>2. session'.at = "none" /\ session'.adjust = FALSE
  BY DEF NoSession
<1>3. Operates(session')
  BY <1>2 DEF Operates
<1>4. RadioInv'
  BY <1>1, <1>2 DEF RadioInv, Connected, Cleared
<1>5. ReleaseInv'
  <2>1. CASE stuck' = stuck /\ session.at = "ended"
    <3>1. ~KeyedPlace(session) /\ ~TonedPlace(session)
      BY <2>1 DEF KeyedPlace, TonedPlace, Chain
    <3> QED BY <1>1, <2>1, <3>1, KeyingNow, NothingKeyed DEF StuckStays
  <2>2. CASE stuck' = On(service')
    <3>1. ~stuck' => Cleared(service')
      BY <2>2 DEF On, Cleared
    <3> QED BY <3>1 DEF ReleaseInv, Cleared
  <2> QED BY <2>1, <2>2
<1> QED BY <1>3, <1>4, <1>5 DEF KeyingInv

\* Tools without the session do not touch the service.
LEMMA OtherToolsRelease ==
    ASSUME KeyingInv, UNCHANGED <<backend, service, session, stuck>> PROVE KeyingInv'
BY DEF KeyingInv, RadioInv, Operates, ReleaseInv, KeyedPlace, TonedPlace, OneActive, Connected,
       Cleared

\* What the tools do keeps the releases: only the one with the session has a service.
LEMMA ToolReleases ==
    ASSUME TunerInv, KeyingInv, NEW t \in Tools,
           \/ ToolStarts(t) \/ CreateFile(t) \/ FinishCreating(t)
           \/ ToolGivesUp(t) \/ SessionStarts(t) \/ Killed(t)
    PROVE  KeyingInv'
<1>1. CASE ToolStarts(t) \/ CreateFile(t) \/ FinishCreating(t) \/ ToolGivesUp(t)
  <2>1. UNCHANGED <<backend, service, session, stuck>>
    BY <1>1 DEF ToolStarts, CreateFile, FinishCreating, ToolGivesUp
  <2> QED BY <2>1, OtherToolsRelease
<1>2. CASE SessionStarts(t)
  BY <1>2, SessionStartsReleases
<1>3. CASE Killed(t)
  <2>1. CASE lock = t
    <3>1. /\ backend' = backend /\ session' = NoSession /\ service' = Released(service)
          /\ stuck' = On(service')
      BY <1>3, <2>1 DEF Killed
    <3> QED BY <3>1, GoneReleases
  <2>2. CASE lock # t
    <3>1. UNCHANGED <<backend, service, session, stuck>>
      BY <1>3, <2>2 DEF Killed
    <3> QED BY <3>1, OtherToolsRelease
  <2> QED BY <2>1, <2>2
<1> QED BY <1>1, <1>2, <1>3

\* A machine that comes back transmits nothing.
LEMMA PowerLossReleases == TunerInv /\ KeyingInv /\ PowerLoss => KeyingInv'
<1> SUFFICES ASSUME TunerInv, KeyingInv, PowerLoss PROVE KeyingInv'
  OBVIOUS
<1> DEFINE q == Silent(service)
<1>1. /\ backend' = backend /\ session' = NoSession
      /\ \E content : service' = [AfterRestart(service, content) EXCEPT !.link = TRUE]
  BY DEF PowerLoss
<1>2. PICK content : service' = [AfterRestart(service, content) EXCEPT !.link = TRUE]
  BY <1>1
<1>3. IsService(q) /\ Cleared(q) /\ q.configured = service.configured
  BY KeyingNow, ServiceKeying
<1> DEFINE a == AfterRestart(service, content)
<1>4. a = [q EXCEPT !.running = content, !.active = service.configured, !.mixer = "file"]
  BY DEF AfterRestart
<1> HIDE DEF q, a
<1>5. IsService(a) /\ Cleared(a) /\ a.configured = service.configured /\ a.active = a.configured
  BY <1>3, <1>4 DEF IsService, ServiceFields, Cleared
<1>6. service' = [a EXCEPT !.link = TRUE]
  BY <1>2 DEF a
<1>7. /\ IsService(service') /\ Cleared(service') /\ service'.configured = service.configured
      /\ service'.active = service.configured
  BY <1>5, <1>6 DEF IsService, ServiceFields, Cleared
<1>8. Connected(service')
  BY <1>7, KeyingNow DEF Connected
<1>9. session'.at = "none" /\ session'.adjust = FALSE
  BY <1>1 DEF NoSession
<1> QED BY <1>1, <1>7, <1>8, <1>9 DEF KeyingInv, RadioInv, Operates, ReleaseInv, Connected, Cleared

\* At the start nothing is keyed.
LEMMA KeyingStarts == TunerInit => KeyingInv
<1> SUFFICES ASSUME TunerInit PROVE KeyingInv
  OBVIOUS
<1>r. PICK r \in Radios :
         service = [running |-> Sample, mixer |-> "file", keyed |-> {}, toned |-> {},
                    configured |-> r, active |-> r, link |-> TRUE]
  BY DEF TunerInit
<1>1. /\ IsService(service) /\ Cleared(service) /\ service.configured \in Radios
      /\ service.active \in Radios
  BY <1>r DEF IsService, ServiceFields, Cleared
<1>2. session.at = "none" /\ session.adjust = FALSE
  BY DEF TunerInit, NoSession
<1> QED BY <1>1, <1>2 DEF KeyingInv, RadioInv, Connected, Operates, ReleaseInv, Cleared

\* Every step keeps the releases.
LEMMA KeyingKeeps == TunerInv /\ KeyingInv /\ [TunerNext]_tunerVars => KeyingInv'
<1> SUFFICES ASSUME TunerInv, KeyingInv, [TunerNext]_tunerVars PROVE KeyingInv'
  OBVIOUS
<1>1. CASE SessionStep
  <2>1. CASE SessionCloses
    BY <2>1, GoneReleases DEF SessionCloses
  <2> QED BY <1>1, <2>1, WriteReleases, ApplyReleases, ReselectReleases, CandidateReleases,
             MeasureGainReleases, SetMixerReleases, ObserveReleases, NoiseLevelReleases,
             ToneOnReleases, KeyReleases, HoldReleases, BurstUnkeyReleases,
             BurstQuietReleases, UnkeyReleases, ToneOffReleases DEF SessionStep
<1>2. CASE MenuChoice
  BY <1>2, MenuReleases
<1>3. CASE PromptAnswered
  BY <1>3, PromptReleases
<1>4. CASE PowerLoss
  BY <1>4, PowerLossReleases
<1>5. CASE \E t \in Tools : \/ ToolStarts(t) \/ CreateFile(t) \/ FinishCreating(t)
                            \/ ToolGivesUp(t) \/ SessionStarts(t) \/ Killed(t)
  BY <1>5, ToolReleases
<1>6. CASE UNCHANGED tunerVars
  <2>1. UNCHANGED <<backend, service, session, stuck>>
    BY <1>6 DEF tunerVars
  <2> QED BY <2>1, OtherToolsRelease
<1> QED BY <1>1, <1>2, <1>3, <1>4, <1>5, <1>6 DEF TunerNext

\* What an operation has keyed when, and on which channel (the inductive
\* invariant of the releases).
THEOREM KeyingInvariant == TunerSpec => []KeyingInv
<1> QED BY KeyingStarts, KeyingKeeps, TunerInvariant, PTL DEF TunerSpec

\* When an operation is over nothing it keyed is left transmitting, unless the
\* call that should have released it failed or the tool was killed: for the
\* standalone service with any number of channels, and for Asterisk with one
\* (flash_transmitter, adjust_keyed_setting).  With Asterisk and several
\* channels it is not so: the reload of an edit made under keying changes the
\* active channel.
THEOREM TransmitterAlwaysReleased == TunerSpec => [](OneActive => TransmitterReleased)
<1>1. KeyingInv => (OneActive => TransmitterReleased)
  <2> SUFFICES ASSUME KeyingInv, OneActive, session.at \in {"none", "menu", "ended"}, ~stuck
               PROVE  ~On(service)
    BY DEF TransmitterReleased
  <2>1. ~KeyedPlace(session) /\ ~TonedPlace(session)
    BY DEF KeyedPlace, TonedPlace, Chain
  <2> QED BY <2>1 DEF KeyingInv, ReleaseInv, On
<1> QED BY <1>1, KeyingInvariant, PTL

=============================================================================
