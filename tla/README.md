# TLA+ verification of USBRadioPlus

USBRadioPlus is an Asterisk (ASL3/app_rpt) channel driver for USB radio
interfaces, written in Rust. This directory holds TLA+ modules that model its
concurrent core, TLC configurations that check small instances, and TLAPS proofs
of the results that do not depend on the instance. `PROJECT.json` maps every
definition to the source lines it stands for.

## 1. Inventory

Paths are below `src/rust/`.

| Part | State | Operations | Talks to | What is hard | What makes it correct |
|---|---|---|---|---|---|
| **Media handoff** `asl3/src/handoff.rs` | ring of slots, producer index, consumer index with READING bit, generation | `push`, `pop` | audio callback to Asterisk delivery | lock-free overflow takeover racing a read | no slot raced; order kept; every value accounted |
| **Update mailbox** `station/src/update.rs` | two pointers, two results, owner storage, revision | `begin/accept/finish_update`, callback adoption | control thread, receive and transmit callbacks | two-store publication, borrowed owners, one side refusing | both sides settle on one plan; no freed owner is used |
| **Remote DSP exchange** `station/src/remote_dsp.rs` | queue of one exchange, active exchange, recorded state | offer, pump, cancel, time out | remote worker, control task, reload | two clients of one mailbox, timeouts racing answers | what the worker has recorded is what is in force |
| **Reload transaction** `product/src/lib.rs`, `asterisk/src/host/reload.rs` | published and candidate configuration; per channel: reload, rollback, running generation, lease | `driver_reload`, `channel_reload_prepare/activate/finish`, `driver_reload_finish` | every channel, the hardware, preparation threads | all-or-nothing over several channels with polls, deadlines, failing rollbacks | an unmarked channel runs the published settings; one lease per device |
| **Channel host** `asterisk/src/host/{channel,delivery}.rs` | membership, active count, control gate, owner lock, deferred intents | request, call, indicate, hangup, worker loop, reload close/open | Asterisk threads, taskprocessor, delivery worker, reload | lock order, free versus worker, deferred intent replay | no use after free; newest intent wins; hangup completes |
| **Link host** `asterisk/src/host/{link,relink}.rs`, `asl3/src/link.rs` | hooks on foreign channels, datastores, framehooks, idle leases, staged graphs | scan, bind, read, reload, detach, stop | Asterisk channels it does not own | teardown, masquerade and the timer race every control step | a hook, its graph and its timer end with their owners; a reload reaches every link or none |
| **Lifecycle** `asterisk/src/host/lifecycle.rs` | loaded stages | load, unload | Asterisk core | partial load unwind | nothing left registered, nothing freed in use |
| **Controller adapter** `asl3/src/adapter.rs` | receive edges, DTMF, echo buffer, delivery cursor, control snapshot | publish, next action, control, operator command, reload state | handoff, channel host | edges lost in overflow; two writers of the request words | key and unkey edges alternate and none is lost; the hardware does what the last writer asked |
| **Station callbacks** `station/src/{runtime,hardware,control,media,program}.rs` | PTT and tone words, remote policy, faults | start, stop, receive and transmit callback | mailbox, hardware service, controller | a callback reads its words at different times, others write in between | an inhibited or faulted transmitter is off; no tone notice is lost or outdated |
| **Hardware service** `driver/src/hardware_host.rs` | service thread, devices, outputs, input tracker, statistics | start, stop, poll_stop, service loop | station runtime, GPIO/HID | watchdog, retry, stopping a stuck thread | outputs released before the thread ends |
| **Remote base** `driver/src/remote_*.rs`, `remote/` | request queue, owner, operating state | request, apply, restore | rig (hamlib), DSP exchange | urgent unkey overtaking a retune | PTT proof before key |
| **Native station** `product/src/{native,maintenance}.rs` | plan, mixers, EEPROM image, update under way | create, start, stop, update, set mixer, save EEPROM | hardware mixers, mailbox | two owners of one update, writes that fail half way | plan, ports and mixers change together or not at all |
| **Processing** `runtime/src/processing.rs`, `rnnoise/` framing | per stage: audible graph, fade, meter; noise frames | transition, restore, process | mailbox, callbacks | a new generation is built while the last one's fade is under way | the sound of a stage is never broken |
| **Configuration** `core/` | none (pure) | parse, resolve, edit | product, tune | precedence, aliases, ranges kept twice | an edit is what the resolver then reads |
| **Tuning tool** `tune/` | edited text, file, session lock, keyed transmitter | edit, select, swap, save, reload, restart, calibrate | file system, Asterisk CLI or native socket | each step of an edit may fail or be cut off | file, service and transmitter agree with what the operator was told |
| **Ring, audio, radio, GPIO** `ring audio radio gpio` | buffers, handles | read, write, apply | devices | foreign code | contracts used by the models above |
| **DSP bindings** `ffmpeg samplerate rms-agc` | filter state | process | callbacks | numeric | not for TLA+ |

How the parts meet: Asterisk calls the channel host; the host runs every product
operation on the channel's taskprocessor, behind a gate a reload closes; the
product owns a hardware generation per channel; the generation's audio callbacks
adopt settings through the update mailbox and pass receive audio through the
handoff to the delivery worker; the remote base's worker shares the mailbox with
the reload. A native host owns a station directly instead. The tuning tool edits
the one file both read and asks the running service to take it up.

## 2. Plan

The state machines of the plan are written; section 3 describes them, section 7
what is left out of each. Every safety property that a run checks of them is proved
(section 5), one of them in the cases where it is true (`TransmitterReleased`, which
finding 5 of section 6 refutes for Asterisk with two radios).
`Configuration` is checked against the resolver over given documents and is not
meant for proof.

## 3. Modules and how they correspond to the code

Every definition that models code is in `PROJECT.json`'s `map` with its lines. A
definition next to another one with a longer name (`PermitsOrdinary` and
`PermitsOrdinaryAlways`) is a deliberately wrong variant, used to show that the
property it belongs to can fail. Variables marked *history* are not program
state; properties refer to them.

| Module | Models | Shape |
|---|---|---|
| `NewestQueue` | what the handoff promises: a bounded queue that evicts its backlog when full, or refuses while the consumer reads | abstract specification |
| `LatestHandoff` | `asl3/src/handoff.rs` | one action per atomic access of `push` and `pop`; implements `NewestQueue` |
| `UpdateTransaction` | what the update mailbox promises: one transaction at a time, adopted by both sides or reversed | abstract specification |
| `StationUpdate` | `station/src/update.rs` | control operations with one action per access they share with a callback; callbacks; owner storage; implements `UpdateTransaction` |
| `RemoteDsp` | `station/src/remote_dsp.rs`, `remote_plan.rs`, and the two clients in `driver/src/hardware_remote.rs` and `product/src/lib.rs` | composes the worker, the pump and a reload with an instance of `UpdateTransaction` as their mailbox |
| `ReloadTransaction` | `product/src/lib.rs` (reload), `asterisk/src/host/reload.rs` | the coordinator's phases over N channels, each handler with every failure exit; preparation threads, callbacks and physical retirement run between polls |
| `ChannelHost` | `asterisk/src/host/channel.rs`, `delivery.rs`, and the calls of `reload.rs` and `cli.rs` into them | threads as program counters over the membership mutex, the control gate and the owner lock |
| `ControllerDelivery` | `asl3/src/adapter.rs`, the drain and capture in `product/src/lib.rs`, `asterisk/src/host/delivery.rs`, the request words of `driver/src/hardware_host.rs` | the receive callback beside the serialized taskprocessor; generation replacement; its handoff repeats the actions of `NewestQueue` on packets |
| `HardwareService` | `driver/src/hardware_host.rs` (service), `hardware_site.rs`, the device calls of `gpio/` | owner, thread and devices; every device call may fail with or without effect |
| `RemoteBase` | `driver/src/{remote_base,remote_owner,remote_request,hardware_remote}.rs`, `remote/src/{operating,session}.rs`, the remote parts of `hardware_host.rs` | callers and tickets beside one hardware thread, whose service iteration is a sequence of program counters; the operating engine is a contract |
| `StationCallbacks` | `station/src/{runtime,hardware,control,media,program}.rs` | the two callbacks, one step per access of a shared word, beside the threads that write those words |
| `ProcessingHandoff` | `runtime/src/processing.rs`, the framing in `rnnoise/`, the adoption in `station/src/` | one stage of each kind seen from one callback; generations are built by the control thread in between |
| `LinkHost` | `asterisk/src/host/{link,relink,lifecycle}.rs`, the link graphs of `product/src/lib.rs` and `asl3/src/link.rs` | the control operation in progress as a program counter; Asterisk tears down, masquerades and times out between any two of its steps |
| `NativeStation` | `product/src/{native,maintenance}.rs` and the mixers and EEPROM of `driver/src/hardware_host.rs` | one action per call of the host; callbacks and thread retire on their own; any device call may fail, a failed write may have reached the device |
| `Settings`, `Catalog` | the settings as resolver, validation and tuner each have them (`core/src/`, `tune/src/catalog.rs`) | tables: kinds, ranges, defaults, editors |
| `Configuration` | `core/src/{config_document,station_config,profile_resolution,channel_configuration,native_configuration}.rs`, the edits of `tune/src/{menus,configuration}.rs` | a text is a sequence of lines whose last may lack its newline, a value may have a comment behind it; resolution is a function of it; an edit, a profile selection or a device swap is an action |
| `Tuning` | `tune/src/{main,control,standalone,repository,menus}.rs` | one session as a program counter over file, directory, service and transmitter; other tools, kills and power losses between steps |
| `*Proofs` | | TLAPS proofs about the module they are named for (section 5); `MailboxProofs` covers `LatestHandoff` and `StationUpdate`, `DspProofs` covers `RemoteDsp` and `ProcessingHandoff`, `StationProofs` the modules `StationCallbacks`, `NativeStation` and `ControllerDelivery`, `ReconfigurationProofs` the modules `ReloadTransaction` and `Tuning` |
| `MC*` | | instances. `MCExchange` (`LatestHandoff`, `StationUpdate`, `ProcessingHandoff`), `MCReload` (`ReloadTransaction`, `ChannelHost`), `MCHardware` (`HardwareService`, `RemoteDsp`), `MCSideBySide` (`ControllerDelivery`, `LinkHost`, `StationCallbacks`, `NativeStation`) and `MCTuning` (`Configuration`, `Tuning`) check modules that share no state in one run, each on a `lane` of its own |

Granularity. A step is one atomic access where code is lock-free (`LatestHandoff`,
`StationUpdate`, `StationCallbacks`). Elsewhere a step is a stretch of code between two points where
another actor can see or change what it uses: a critical section, a taskprocessor
operation, a device attempt. In `ChannelHost` an operation that passes the gate
and runs on the taskprocessor is one step with its gate section, because nothing
another thread waits for happens inside. The site cache (a sequence lock with
SeqCst words) and the shared hardware words are read and written in one step.

History variables worth knowing: `ChannelHost.overridden` says that a rollback or
the CLI has replaced the request since the last indication, which `replay_transmit`
cannot see (its compare-exchange only knows the pending value, which may have
become the same again); `ControllerDelivery.stale` says that an edge was dropped
or a retired generation brought back, and `hw.apart` which request words an operator's
command or the stop of a generation wrote last; `HardwareService.granted` and `promise`
follow what the current and the last site owner of a pin were told;
`LinkHost.strays` keeps the hooks that changed channel while the last committed reload
was visiting them; `NativeStation.meant` and `Tuning.doubt` follow what the calls that succeeded asked
for and what the operator was told may be otherwise.

## 4. Runs

| Run | Question | Bounds, and why they are enough |
|---|---|---|
| `exchange` | handoff: `NoSlotRace`, `EveryValueAccounted`, `ImplementsNewestQueue`, `EventuallyDrained`; mailbox: `BorrowsSettle`, `ImplementsUpdateTransaction`, `UpdatesResolve`; processing: `SoundContinues` | 3 slots (two values fit, so the ordinary and the overflow paths meet at every offset), 6 pushes: the cursors go round twice; 2 plans, 3 preparations of which 2 are outstanding: one update can overtake another and lead back to the same plan in between; 2 updates, priming and fade of 2 units, noise frames of 2 units, blocks of 1 or 2: the second update finds the first one's graph unprimed, in its fade and done, and every boundary also falls inside a block |
| `remote_dsp_stolen` | finding 1 | the exchange alone: two retunes and a reload |
| `remote_dsp_cancelled` | finding 2 | the same |
| `reload` | transaction: `ReloadSettled`, `AbandonedWorkUnused`, `CommitNeedsEveryChannel`, `ReloadProgress`; host: `LifetimesNest`, `LatestIntentWins`, `ChannelProgress` | 2 channels, 2 settings, one direction adoptable and the other not; reloads are not bounded. One radio hosted twice, 3 indications, a reload, a CLI command: every lock is per channel or global and all actors of one channel meet at all of them |
| `channel_unkey` | finding 3 | the host alone, with 2 indications and without the CLI |
| `hardware` | service: `ReleasedOutputsSafe`, `SiteOwnerControlsPin`, `UnkeyReaches`; exchange: `RecordFollowsDsp`, `EachClientChangesItsOwnPart`, `ExchangesDrain` | one pin, three commands, queue of one (the thread takes a command before the owner queues the next), 5 ownership tokens: exhausted within the run; 2 exchanges and a reload: a retune can start while another is being reversed |
| `remote_base` | `RadioIdleWhenSaid`, `ReleasedRigUnkeyed`, `OneResult`, `RemoteProgress` | two wirings (a rig that keys itself, not native; a parallel radio, native), each with two requests of different kinds and a queue of one: a setting waits in front of a tune request, an urgent stop meets a detached frame, and the second ordinary request finds the queue full |
| `remote_orphan` | finding 4 | the same |
| `tuning` | text: `AcceptedEditInForce`, `EditsStayLocal`, `OfferedValuesTaken`; sessions: `AcknowledgedFileKept`, `FileAndServiceAgree`, `TransmitterReleased`, `OperationsEnd` | eleven documents of both compositions, four of them with a last line that has no newline (a value, a value with a comment behind it, a header, a comment): every setting of the catalogue is edited at its boundaries once, texts also with a comment sign in them, the entangled settings twice over profiles, aliases and missing sections, the swap three times; 2 tools, 2 operations and one kill or power loss, or 3 operations of one tool with Asterisk, so that one follows two that failed (checked once with 5); 2 attempts of a calibration (12 and 48 in the code) and 2 bursts (3): the first attempt is one that may not be accepted, the last one ends it |
| `tuning_unfinished` | finding 6 | the four unterminated documents |
| `tuning_active` | finding 5 | two radios |
| `side_by_side` | delivery: `StatusesAccounted`, `ControlsAgree`, `NoPanic`; links: `LinkLifetimes`, `LinksFollowReload`; callbacks: `TransmitterObeys`, `ToneNoticeKept`; native: `UpdatesAreAtomic` | handoff and journal of one entry, so that the second overflows, 2 units to a frame, and any two of a reload, an operation (the controller's or an operator's) and a second status event; 2 channels and 2 hooks, one profile, and either two reloads with a rate change or a binding with an unload; 2 tones, unbounded; 2 mixers, so that one write fails after another succeeded, 3 levels of which the lowest is no gain, one update, two starts, one mixer and one EEPROM command, one fault |

Several properties are conjunctions of parts that have a comment of their own:
`BorrowsSettle` (`BorrowedStorageRetained`, `SettledAgreement`), `ReloadSettled`
(`UnmarkedRunsPublished`, `SuccessIsComplete`), `ReloadProgress` (`ReloadsEnd`,
`RetriedReloadRecovers`), `LifetimesNest` (`NoUseAfterFree`, `HostOutlivesChannels`),
`ChannelProgress` (`IntentsReplayed`, `HangupsComplete`), `ReleasedOutputsSafe`
(`ReleasedMeansUnkeyed`, `ReleasedPinSafe`), `RadioIdleWhenSaid` (`KnownOffIsOff`,
`RadioWrittenSafely`), `RemoteProgress` (`TicketsAnswered`, `RetirementEnds`),
`ControlsAgree` (`KeyAgreement`, `RequestsFollowSnapshot`), `LinkLifetimes`
(`LinkOwnership`, `LeaseTracksChannel`), `TransmitterObeys` (`InhibitionHolds`,
`FaultReleases`), `UpdatesAreAtomic` (`OneConfiguration`, `MixersAsMeant`),
`EditsStayLocal` (`EditsKeepTheRest`, `SwapExchangesIdentity`), `FileAndServiceAgree`
(`RunningMatchesFile`, `FailedOperationRestores`) and `SoundContinues`
(`AudibleIsLeased`, `GraphsJoin`, `NoiseJoins`, `MetersOnePath`).

Every property has a mutant in `PROJECT.json`: a plausible error in one mapped
definition under which the same run finds the property violated. Type invariants
are stated in the modules for the reader and for proofs; they hold on the same
instances.

Fairness. Handoff: both threads proceed. Mailbox: the callbacks of a running
station keep being called by the audio stack (strong, because stop and start
interrupt them), control operations under way proceed, and somebody polls
`finish_update`, as the remote pump and the reload do. Exchange: worker,
callbacks and the pump of the serialized control task. `reload`: the coordinator
proceeds; `RetriedReloadRecovers` also assumes that preparation threads end and
that a rollback which can succeed again and again does so once; in the host
each thread proceeds when it can (no lock is starved). `hardware`: the thread
runs, a stop is carried through to its join, and a device call that is tried
again and again succeeds once; without the last nothing can be promised about a
line. `remote_base`: as the service in `hardware`; calls the thread repeats without doing anything
else succeed once (weak fairness); PTT proofs and unkeys, which it repeats between
other work, do not fail every time, and the engine does not put a request or a due
setting off for ever (strong). `TicketsAnswered` also supposes that sources and the
transmitter fall silent, because a request waits while its own source is keyed.
`tuning`: the tool's single thread proceeds; nothing is assumed of the operator,
whose prompts and meters count as rest. `side_by_side` states safety only. Where modules
share a run, a fairness condition may name an action of each: a behaviour stays on
its lane, so it is the condition of the one that runs.

Deadlock is checked except in `remote_dsp_stolen`, `remote_dsp_cancelled`,
`side_by_side` and the three tuning runs, where the bounded clients may all be done
(and, in the delivery, the worker may have given up, which the code allows). In
`exchange` and `hardware` the lanes of the processing and of the DSP exchange may rest for the
same reason; the others may not.

## 5. Proofs

Eight modules hold theorems, each for every value of its module's constants under
the named assumptions stated there and nothing else. The bounds of a
specification (`MaxPush`, `MaxCommands`, `MaxIndications`, ...) are constants too,
so a theorem holds for histories of any length.

| Module | Theorems, with the property TLC checks | Inductive invariant |
|---|---|---|
| `MailboxProofs` | `SlotRaceFreedom` (`NoSlotRace`), `ValuesAccounted` (`EveryValueAccounted`), `NewestQueueImplemented` (`ImplementsNewestQueue`), `TypeCorrect`; `BorrowsAlwaysSettle` (`BorrowsSettle`), `TransactionImplemented` (`ImplementsUpdateTransaction`), `UpdateTypes` | `IInv`, `DeliveryInv`; `UpdateInv` |
| `DspProofs` | `RecordAlwaysFollows` (`RecordFollowsDsp`), `OwnPartOnly` (`EachClientChangesItsOwnPart`), `ExchangeInvariant`; `SoundAlwaysContinues` (`SoundContinues`), `ProcessingInvariant` | `DspInv`; `ProcessingInv` |
| `StationProofs` | `TransmitterAlwaysObeys` (`TransmitterObeys`), `ToneNoticeNeverLost` (`ToneNoticeKept`), `CallbackTypes`, `NativeUpdatesAreAtomic` (`UpdatesAreAtomic`); `StatusEventsAccounted` (`StatusesAccounted`), `ControlsAlwaysAgree` (`ControlsAgree`), `AdapterNeverPanics` (`NoPanic`), `DeliveryTypes` | `CallbackInv`, `NativeInv`, `DeliveryInv` |
| `HardwareServiceProofs` | `OutputsReleasedSafely` (`ReleasedOutputsSafe`), `SiteOwnershipExclusive` (`SiteOwnerControlsPin`), `ServiceTypes` | `Inv` |
| `ReconfigurationProofs` | `AbandonedWorkNeverUsed` (`AbandonedWorkUnused`), `ReloadsLeaveChannelsSettled` (`ReloadSettled`), `CommitIsUnanimous` (`CommitNeedsEveryChannel`), `ReloadTypes`; `AcknowledgedFileAlways` (`AcknowledgedFileKept`), `FileAndServiceAlways` (`FileAndServiceAgree`), `TunerInvariant`; `TransmitterAlwaysReleased` (`TransmitterReleased`, under `OneActive`), `KeyingInvariant` | `Inv`; `TunerInv`; `KeyingInv` |
| `ChannelHostProofs` | `ThreadsNeverOutliveChannels` (`LifetimesNest`), `IndicationsKeepOrder` (`LatestIntentWins`) | `Inv` |
| `LinkHostProofs` | `LifetimesAlways` (`LinkLifetimes`), `FollowAlways` (`LinksFollowReload`) | `LinkInv`, with `FollowInv` and `VisitedInv` |
| `RemoteBaseProofs` | `PttWordIsTrue` (`RadioIdleWhenSaid`), `RigGivenUpUnkeyed` (`ReleasedRigUnkeyed`), `ResultIsFinal` (`OneResult`) | `Inv`, `TicketInv` |

None of the properties is inductive as it stands. TLC checked every strengthening
as an invariant of the instance in section 4 before it was proved. Each proof has
one lemma per action (or per thread), a lemma for the initial states, and a
temporal step that combines them.

**Handoff.** That the producer's write is safe depends on why it was allowed. `IInv`
adds `ParityInv` (the generation is odd exactly while the producer is inside an
overflow), `RoomInv` (a slot about to be written is outside the window the
consumer may read), `ClaimInv` (the READING bit is set exactly between claim and
release, and a takeover never happens under it) and `SnapshotInv` (a consumer
whose snapshot is still current claimed an index inside the published window).
`DeliveryInv` adds where the values are: `EmptiedInv` (what an overflow has emptied
so far), `OrderInv` (the slots between the two cursors hold consecutive values,
later than all delivered) and `AccountInv` (pushed is delivered plus queued plus
discarded, at every step of both threads). The refinement maps every access to a
step of `NewestQueue` or a stutter.

**Mailbox.** `UpdateInv` has `MailboxInv` (each callback is not yet offered, offered,
borrowing or has answered the owner that was published last; an answer of 1 means
its ports run it), `ControlInv` (what each control operation under way has already
stored) and `RevisionInv` (a preparation whose revision is current was made from
the plan in force). With it an owner is retired only when neither direction can
reach it, and every step maps to a step of `UpdateTransaction`.

**Remote DSP exchange.** `SnapshotInv` is the heart of it: a snapshot that the mailbox
would still admit, because its revision is the present one, holds the plan the
transaction started from, so a commit made from it changes one part and puts back
no other client's (`TransactionInv`). `OrderInv` gives the sequence numbers of
commands, transactions and results their order. As long as no reload has come to the
mailbox, the last exchange that succeeded is in force, and the worker is about to
learn of it, holds it as its record, or had abandoned it (`CarriesInv`, `RecordInv`).
The last case is the one finding 2 (section 6) is about: `RecordFollowsDsp` says
that it is the only one in which the record differs from the DSP.

**Processing handoff.** The property looks at one block, but why it holds was decided
when the stages were built, possibly two generations ago. `GenerationInv` says which
generation each stage, denoiser and meter of an update is named for, so that a new
one is never also run. `GraphInv` has two predicates for a graph stage. One that the
callback runs is `Sounding`: complete with its own graph audible, or leasing the
audible graph with its own run long enough for where it is in priming or fade. One
built and not yet adopted `Waits`: untouched, and leasing every graph that can be
audible by the time it is adopted. For the reverse generation that includes the
forward one's graph, and the lease on two predecessors is exactly what
`TransitionGraph` keeps. `NoiseInv` measures the running stream against the bridge of its
denoiser (`Bridged`): while the bridge is dry the stream is as far as its units say,
so at the first wet sample the model has filled a frame. `MeterInv` gives a
live meter one graph and one plan. `StreamAfter` runs a stream over the units of a
block by recursion; that the recursive function exists and computes what its
equation says is proved with a least counterexample (`ChainExists`,
`StreamAfterFacts`), which `WellFoundedInduction` provides as a fact about sets.
`ProcessingAssumption` says that plans are records of the parts the model
distinguishes, and that a block is not longer than the priming.

**Callbacks.** Both properties speak of what a callback leaves behind, so `CallbackInv`
says what it holds at each point: `BarredInv` and `CutInv` (a callback under
inhibition throughout holds no PTT; a transmission cut by it has no demand),
`FaultInv` (a failed callback has already withdrawn what it must) and `NoticeInv`
(which tone the shared word may carry while the other callback holds one).

**Native station.** `ConfigurationInv` says which request the plan, the file, the open
transaction, the pending update and the update not yet begun belong to, and that an
update moves only the gains it lists, which makes the mixers it writes those the
host asked for. `MixerInv` places three copies of the levels: the line and the open
mixers where the calls so far put them, the retained levels where those before the
update did; an update that retained none has moved nothing. `NilAssumption` says
that "no update" is not an update.

**Hardware service.** `HoldsInv` says which devices the thread holds at each place;
`PromiseInv` that a promised pin is safe in the bank, in the device and in every
copy the thread carries across a restart; `TokenInv` and `ClaimInv` that the tokens
of queued commands are older than the next one and that a command with the
bank's own token comes from its present owner.

**Controller delivery.** `JournalsInv` orders the events in packets, push and cursor;
`Accounted` and `SavedInv` carry the count over a generation replacement; `DrainInv`
says why the second drain finds nothing left; `KeyAgreement` becomes inductive with
the edge under way. `RequestsFollowSnapshot` holds word by word, for the words nobody
but the snapshot's owner has written since (`hw.apart`); a replacement has none.

**Reload.** `ChannelInv(c)` says of every channel that what it runs, what it has staged
and what its rollback marker keeps fit together, that until the driver commits it
can go back to what is published (`Reversible`), and, by comparing its number with
the coordinator's index, whether the current phase has dealt with it (`StagedAt`).
With that, what a reload meets in a channel is either its own or told to give up
(`AbandonedWorkUnused`). `CommitIsUnanimous` is an action property: the index has passed every channel
when the driver commits. The next channel of a phase is a least element, which
`WellFoundedInduction` provides.

**Tuning tool.** `TunerInv` has a predicate for the session, `SessionSound`, which says
for each of its places how the file, what the service runs and the configurations
the session remembers are related. Before the rename the service runs what the
file says; from the rename to the apply, what it said before; on the way back, what
the failed apply cannot have changed (`WriteInv`). Whether a reload is enough depends
on the parts only a restart takes up, so the invariant follows those too: the saved
and the current file agree in them until `restart_changed` is set, and so do both
ends of a write made by reload (`JobInv`). A part an error message was about is
exempt, and more doubt only excuses more (`DoubtExcuses`). The theorems rest on
`TuningAssumption`; the number of tools, radios, attempts and budgets does not matter.

`KeyingInv` follows the transmitter. A key or a tone call that may have taken effect
leads to a place that owes its release, also by way of an edit made under keying
(`KeyedPlace`, `TonedPlace`); those places know whether a tone was used (`Operates`),
since the clean-up switches off only what the session remembers; and what is on is on
the active channel, to which unkey and tone-off go (`ReleaseInv`). A call that fails
may have taken effect or not, and may have cost the connection; the standalone service
then releases everything itself (`Connected`). Every step either takes something away,
which can only help (`Quieter`), or keys at a place that owes the release. The
hypothesis `OneActive` of `TransmitterAlwaysReleased` (the standalone service with any
number of channels, or one channel) excludes just the case of finding 5 (section 6):
Asterisk's reload of an edit made under keying changes the active channel.

**Channel host.** `Sound(c)` ties the hangup of a channel to the membership mutex and
the owner lock, the callback to the owner lock, and every thread to the live box;
`Gated` ties the control gate to the phase of the reload, which holds the
membership mutex while the gate is closed; `Counted` relates the active count to
boxes and members; `Replayed(c)` says what a pending intent owes to the last
accepted indication. `ConstantsOK` assumes that no channel is one of the two other
values of the mutex word, which is a matter of the encoding.

**Link host.** `LinkInv` says who owns a hook at each place of the operation at hand:
`RefInv` counts the datastores on channels, those Asterisk has taken off, leases,
the operation and the reload; `GraphInv` leaves one graph to the operation that has
prepared it and the rest to the hooks; `LeaseInv` says that a lease away from its
hook's channel is being detached, or its channel is ending. `FollowInv` adds what a
hook runs: the published configuration, or, between a reload's decision and its
last hook, something the reload still has to settle (`FollowHook`). That it has
forgotten none is `VisitedInv`: every channel the reload has taken off its list
carries a hook that is staged, at hand, or runs the candidate's description
already. What a step takes away from a hook, a release or a teardown for instance,
can break neither; `HeapWanes` says so once for all steps of that kind.

**Remote base.** Whether a line is off depends on where the thread stands, so
`Soundness` gives, for each place of the thread and each fate of the generation,
what is known of the lines, the handles and the published words: "off" is
published only with both lines off and the selected level low, a live generation
between opening and retirement has its rig, and a generation without a handle has
its line off. `TicketInv` says that only issued tickets have results; `OneResult`
follows because every step turns a ticket into one that keeps its result.

Model-checked only:

- liveness (`EventuallyDrained`, `UpdatesResolve`, `ExchangesDrain`, `ReloadProgress`,
  `ChannelProgress`, `UnkeyReaches`, `RemoteProgress`, `OperationsEnd`): fairness and
  `ENABLED` are outside the prover's reach;
- the properties of `Configuration` (`AcceptedEditInForce`, `EditsStayLocal`,
  `OfferedValuesTaken`). What an edit of a text does to what the resolver reads is
  recursion over its lines, and the run compares the two over given documents;
- `Tuning.TransmitterReleased` for Asterisk with several radios is false (section 6);
  everywhere else it is proved;
- the type invariants of `ChannelHost` and `RemoteBase` beyond the types that
  their inductive invariants contain.

## 6. Disagreements between the code and its documentation

1. **A reload can roll back a remote retune, which then reports success**
   (`remote_dsp_stolen`, `AppliedMeansInForce`). `channel_reload_activate` records
   its Live rollback marker before `begin_update`; if that answers Busy, the failed
   reload still calls `finish_update(false)`, which reverses whatever transaction
   is installed, because `finish_update` carries no identity. `remote_plan.rs:59-60`
   says the mailbox "must acknowledge both callback owners before commit".
   `RecordFollowsDsp` therefore speaks of a mailbox no reload has come to.
2. **A retune that was given up can stay in force** (`remote_dsp_cancelled`,
   `CancelledIsReversed`). `RemoteDspControl::pump` looks at `cancelled` once and then
   calls `finish_update(true)`. A worker that times out, is cancelled or stops in
   between returns an error while the update is committed, and nothing reverses it.
   `apply_state` leaves its record (`*self.current`, `hardware_remote.rs:522-532`) at
   the operating state before, which reads and receive permissions then go by.
   `remote_dsp.rs:166-167` says "Failed/cancelled adoption is reversed using retained
   existing mailbox storage". The next successful retune ends the difference.
3. **An unkey deferred during a reload can be undone by its rollback**
   (`channel_unkey`, `UnkeySurvivesReload`). `doc/native-radio.md:146-147` and
   `doc/developer.dox:99-101` say that the latest intent is replayed after the
   transaction, so that an unkey cannot be lost. The delivery worker replays it
   before: to the replacement generation; the rollback then restores the retired
   one, still asking for PTT, and the pending intent is gone.
4. **A remote generation that fails to open leaves its callers waiting**
   (`remote_orphan`, `CallersNeverWaitForever`). When the encoder pin cannot be bound
   or the rig cannot be opened, `RemoteGeneration::open` returns before it has a
   `RemoteOwner` (`hardware_remote.rs:131-132`), so neither its failed-admission
   branch nor the owner's `Drop` retires the command port. The service thread goes on
   without a generation; requests are still admitted, nobody takes them, and their
   tickets stay empty until the service is stopped. `remote_base.rs:149-150` says that
   work is completed as stopped "so callers cannot wait forever for a lost owner". The
   host can see the failure (`remote_ready`), but a submission does not look at it.
5. **Editing a keyed setting can leave another transmitter keyed**
   (`tuning_active`, `TransmitterReleased`). `adjust_keyed_setting`
   (`tune/src/menus.rs`) keys the active channel, applies the edit by a reload and
   unkeys the active channel. The committed reload makes the configured channel
   active again (`product/src/lib.rs:1327`), so if the operator had selected another
   one, unkey and tone-off go to the wrong channel and succeed.
   `doc/standalone-tuner.md:88-95` describes keying only "while editing". With one
   channel (`tuning`) the property holds.
6. **An edit of a file without a final newline can spoil another setting**
   (`tuning_unfinished`, `PreservesUnrelated`). `set_value` says it preserves
   "unrelated text and comments" (`config_document.rs:231`). When the new line has to
   go to the end of the text, and the last line has no newline of its own, the two
   become one (`:264-267`; a new section, `:276`, does ask for the newline): the value
   there takes the new text to itself, or a header or comment hides it, and the
   accepted edit is lost. `EditsStayLocal` and `AcceptedEditInForce` hold of such a file too,
   but for that last value and that edit.

Met while modelling, without a run: a value with a comment sign in it is accepted by
the editors and by `validate_value` (`config_document.rs:340`), and read back without
the sign and what follows (`assignment`, `:366-370`): a serial `A#1` is accepted and
resolves to `A`, with no warning; a text that is only a comment resolves to nothing.
`AcceptedEditInForce` asks for what can be read back of the value entered. An edit
of a line with a comment behind its value loses that comment (`:257`). The comment at `hardware_host.rs:1672` says
"Successful persistence becomes the next native startup image", but any update
committed after the save resets `setup.tuning`, and the next stop and start then
applies the plan's gains (`hardware_host.rs:1237`). The comment at
`hardware_host.rs:3428` says that native polling has already published safe inputs
and PTT when an iteration fails; a failing command skips the cycle and a failing
port leaves the CM119 PTT as requested. `discard_session_changes` chooses between
reload and restart by the edits that succeeded (`menus.rs:1082`, `:1624`): if a
restart failed after it took effect and writing the old file back failed too, the
operator is told so, but a later Discard restores the file and only reloads, so
the service keeps the setting of the failed edit, without a message, while
`doc/standalone-tuner.md:54` says "Discard restores that point". A second edit
whose rollback restarts the service in between does not help: the discard after it
still only reloads.

## 7. Limits

Not modelled, by module:

- `ChannelHost`: fixup (masquerade) and the other `setoption` arms. A direct channel
  has no delivery worker, so an intent deferred for it is not replayed; the model
  follows the code, and `IntentsReplayed` speaks of channels with a worker. The
  unconditional clearing of the jitter mark at the end of `apply_pending_jitter`
  (`channel.rs:214`) can erase the mark of a second reload; no property covers it.
- `StationUpdate`: a reverse adoption that is refused leaves the transaction in
  place until a later `finish_update(false)`; `UpdatesResolve` assumes it is called.
- `ControllerDelivery`: DTMF, PCM values and resampling, control-text parsing, the
  reload of a stopped station. The request words have two writers: the controller's
  control, which is kept in `ControlSnapshot`, and an operator's channel command
  (`product/src/maintenance.rs:413-418`, `hardware_host.rs:1546-1553`), which is not. A
  reload that replaces the generation brings back the first only
  (`product/src/lib.rs:1260-1268`), so an operator's subaudible override or CTCSS inhibition is
  gone after it, and so is a test tone; `RequestsFollowSnapshot` speaks of the words
  the snapshot's owner wrote last. `channel_quiesce`, whose caller
  is not in the repository, clears the words as a stop does, and is left out here. Frames that find no owner to lock are dropped and
  reported as queued (`delivery.rs:142`), so an edge can be lost; after an aborted
  reload the restored generation's `delivered_keyed` is the old one while Asterisk
  may have heard the candidate's edges. `KeyAgreement` is stated up to these two.
  A pop may find nothing while an overflowing push is under way (`DrainDone`), so
  a drain can end with a backlog; `NoPanic` shows why the second drain, with
  the callbacks suspended, cannot.
- `HardwareService`: the parallel port's data pins, RTX
  programming, sidetone, clip LED, input events. A worker panic is not modelled.
  `HardwareService::drop` (`hardware_host.rs:2622-2626`) ignores a failing stop and lets the
  retiring devices go; `OwnerRetires` models an owner that retries, as `poll_stop` and
  the reload do, so `ReleasedOutputsSafe` says nothing of a service dropped after a stop that failed.
- `RemoteBase`: one generation, without restart; PTT is keyed from the rig's front
  panel only before the generation opens; error codes, replies, scans, tone gate and
  encoder pin, and the `ready` flag are left out; dropping a ticket is revoking it.
  The engine's source is not part of the repository. `RemoteWork::complete` looks at
  the generation and the source and then claims the ticket; the model does this in
  one step, so a success published just after a retirement is one just before it,
  and no property depends on the difference.
- `StationCallbacks`: a render error of the ring and direct paths publishes nothing,
  so the last PTT word stays (`runtime.rs:1097`); `FaultReleases` excuses it as the
  code means it. A tone notice the controller refused may be put back after the tone
  went off, which no property forbids. The receive observation's sequence lock
  (`runtime.rs:349`, relaxed loads), squelch and receive failures are left out. A
  stop leaves the outputs word as it was; the hardware service releases the lines.
- `ProcessingHandoff`: the receive dynamics stand for every graph stage. The
  decoded-tone notches are replaced without a fade and are left out. A replacement in
  the middle of a fade starts again from the audible graph, so the blend jumps back,
  as the code intends. A preparation made during another transaction may fail its
  lease lookup, and would be refused anyway. A noise reduction call that fails is
  excused until its output returns. A refused reverse leaves the transaction open.
  That a converter error leaves samples in the assembler (`asl3/src/adapter.rs:369`)
  is not modelled: the converter is foreign code.
- `LinkHost`: masquerade between two channels that both carry a link datastore, the
  lease of a channel whose datastore was masqueraded away, and a hook that moves
  between channels while a stop, or the last reload that committed (`strays`), visits
  them are outside the properties. `link_prepare` answers not-ready only without a pending reload. The idle
  clock's arithmetic, counters and PCM are abstracted; an unload may be forced.
- `NativeStation`: a CM119 interface without a remote base. An update that unsets a
  gain writes the document's default. A mixer set during an update whose levels were
  not retained outlasts the update. Remote requests, metering and echo are left out.
- `Configuration`: the given documents have no repeated key or
  header, have no comment sign in a profile's name, use the current names in `[radio]`, and do not select a missing local
  profile natively: outside these the tool and the resolver read a text differently
  (which of two assignments counts, for instance). A standalone edit of a local
  setting creates `[local]`, which turns off the gain aliases of `[radio]`, as the
  code intends. Of `remote_configuration` nothing is modelled.
- `Tuning`: live actions and meters that only display, echo and EEPROM dialogs,
  backups, `complete_active_configuration` and terminal drawing. Failures printed by
  the CLI are not read by the tool. Excused, because the code does so: a keying call
  that fails after taking effect is not followed by an unkey (`stuck`); a failed
  restore of a calibration, or a directory sync that fails at its first write, leaves
  the candidate file; a restart that fails after taking effect, with a failing
  write-back, is only reloaded by a later discard (`doubt`, which an operation that
  succeeds lifts and a rollback does not); a failed noise
  calibration leaves the mixer moved; a created file is applied at the next reload.
- `LatestHandoff` assumes the acquire/release orderings make the accesses
  sequentially consistent for the variables involved.

Liveness is checked by TLC only. Whole
parts that are not modelled are listed in `PROJECT.json` with the reason: foreign
bindings (rig control, native radio, ALSA, the shared-memory ring, filters),
command parsing and status text, value types, packaging.
