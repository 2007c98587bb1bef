-------------------------- MODULE HardwareService --------------------------
(***************************************************************************)
(* The GPIO service of one ordinary (not remote-base) station: the thread  *)
(* that owns its CM119 interface and its parallel port, drives PTT on both *)
(* from the logical request, executes output and site commands for spare   *)
(* pins, makes the outputs safe when a device fails and reopens it; and    *)
(* the owner that starts, snapshots and stops the thread.                  *)
(*                                                                         *)
(* One spare CM119 pin stands for all of them (every mask operation works  *)
(* on each bit by itself), with the pulse an ordinary command may run on   *)
(* it.  The parallel port is modelled for PTT only.  A device call that    *)
(* fails may have reached the line or not.  Opening the CM119 interface    *)
(* drives its initial levels; closing it leaves them.                      *)
(*                                                                         *)
(* An owner operation is one step, except where it waits for the thread.   *)
(* The thread's steps are a command, a service cycle, an attempt to close  *)
(* or to open: what it does between two of them touches nothing that the   *)
(* owner or the audio callbacks read or write.                             *)
(***************************************************************************)
EXTENDS Naturals, Sequences

CONSTANTS
    InitialHigh,     \* the pin's configured level at start
    Bindings,        \* what a site asks for: claim the pin or not, initial and safe level
    MaxGeneration,   \* u64::MAX: the last ownership token
    QueueCapacity,   \* CONTROL_QUEUE_CAPACITY
    MaxCommands      \* bound: commands queued

ASSUME ConstantsAssumption ==
    /\ InitialHigh \in BOOLEAN
    /\ Bindings \subseteq [claim : BOOLEAN, high : BOOLEAN, safe : BOOLEAN]
    /\ \A b \in Bindings : ~b.claim => ~b.high /\ ~b.safe
    /\ {MaxGeneration, QueueCapacity} \subseteq Nat \ {0}
    /\ MaxCommands \in Nat

VARIABLES
    native,   \* HardwareService.native
    request,  \* the logical PTT the audio callbacks publish
    owner,    \* HardwareService: what it waits for, retiring, pending_transient
    stop,     \* HardwareService.stop
    worker,   \* the thread: where it is, and whether it is retiring its devices
    queue,    \* the command channel
    bank,     \* OutputState: the pin's level and the SiteBankState of its bank
    dev,      \* the devices (see NewDevices)
    cache,    \* SiteCache of the bank
    token,    \* NEXT_GENERATION
    granted,  \* history: the level the pin's site owner last had accepted
    promise,  \* history: {safe level of the last site owner} until someone else drives the pin
    used      \* commands queued so far

site == <<bank, cache, token, granted, promise>>
vars == <<native, request, owner, stop, worker, queue, dev, site, used>>

(***************************************************************************)
(* Spare-pin ownership: hardware_site.rs.                                  *)
(***************************************************************************)

\* next_generation: zero once the tokens are used up.
Token(n) == IF token + n < MaxGeneration THEN token + n ELSE 0

TokenAfter(n) == IF token + n < MaxGeneration THEN token + n ELSE MaxGeneration

\* SiteBankState::new.
NewBank(pin, generation) ==
    [pin |-> pin, claimed |-> FALSE, safe |-> FALSE, generation |-> generation]

\* OutputState::prepare_site: a new bank that keeps the safe level (restore_safe_high).
PrepareSite(pin, safe, generation) == [NewBank(pin, generation) EXCEPT !.safe = safe]

ValidGeneration(generation) == generation # 0 /\ generation = bank.generation

\* SiteBankState::retired_output.
RetiredOutput(b) == (b.pin /\ ~b.claimed) \/ b.safe

\* SiteBankState::retire.  claimed_mask stays until the bank is prepared again.
Retire(b) == [b EXCEPT !.pin = RetiredOutput(b), !.generation = 0]

\* What history says of a pin when its site owner loses it.
PromiseOnRetire == IF bank.claimed THEN {bank.safe} ELSE promise

\* ServiceWorker::publish_site; current is history: the cache shows the ownership
\* that is in force.
Publish(b) == [generation |-> b.generation, claimed |-> b.claimed, current |-> TRUE]

\* History: what was queued under an ownership that has ended.
Outdated(q) == [i \in DOMAIN q |-> [q[i] EXCEPT !.current = FALSE]]

(***************************************************************************)
(* Device calls.  An outcome is the devices' state and success.            *)
(***************************************************************************)

\* Outputs published to the CM119 adapter and the pulse it runs; the physical
\* lines; the handles held.
NewDevices ==
    [ptt |-> FALSE, pin |-> InitialHigh, pulse |-> FALSE,
     usb |-> FALSE, port |-> FALSE, level |-> InitialHigh,
     cm119 |-> FALSE, parallel |-> FALSE]

\* publish_outputs, then service(), which writes every line in one report: refused,
\* failed with the report written or not, or done.
Cm119Drives(d, ptt, pin, pulse) ==
    LET level  == (pin # pulse)
        new    == [d EXCEPT !.ptt = ptt, !.pin = pin, !.pulse = pulse]
        driven == [new EXCEPT !.usb = ptt, !.level = level]
    IN  {[dev |-> x, ok |-> FALSE] : x \in {d, [d EXCEPT !.pulse = pulse], new, driven}}
        \union {[dev |-> driven, ok |-> TRUE]}

\* A write to the parallel port.
ParallelDrives(d, ptt) ==
    {[dev |-> d, ok |-> FALSE], [dev |-> [d EXCEPT !.port = ptt], ok |-> FALSE],
     [dev |-> [d EXCEPT !.port = ptt], ok |-> TRUE]}

\* ParallelDevice::close_outputs: success consumes the handle.
ParallelCloses(d) ==
    IF d.parallel
    THEN {[dev |-> [x.dev EXCEPT !.parallel = ~x.ok], ok |-> x.ok] : x \in ParallelDrives(d, FALSE)}
    ELSE {[dev |-> d, ok |-> TRUE]}

\* ServiceDevices::close_outputs: both banks are tried, whatever the first says.
CloseOutputsEither(d, pin) ==
    UNION {{[dev |-> y.dev, ok |-> x.ok \/ y.ok] : y \in ParallelCloses(x.dev)} :
           x \in Cm119Drives(d, FALSE, pin, FALSE)}

CloseOutputs(d, pin) ==
    UNION {{[dev |-> y.dev, ok |-> x.ok /\ y.ok] : y \in ParallelCloses(x.dev)} :
           x \in Cm119Drives(d, FALSE, pin, FALSE)}

\* service_once, Asterisk mode: the port is reached only after the CM119 bank, and
\* reading the inputs may still fail after that.
AsteriskCycle(d, keyed, pin) ==
    LET cm119 == Cm119Drives(d, keyed, pin, d.pulse)
    IN  {x \in cm119 : ~x.ok} \union
        UNION {{[dev |-> y.dev, ok |-> y.ok /\ read] :
                   y \in ParallelDrives(x.dev, keyed), read \in BOOLEAN} :
               x \in {x \in cm119 : x.ok}}

\* service_native_once: service what was published before, drive the port, publish
\* the next outputs; PTT only when the CM119 interface is healthy.  Outputs that
\* have not changed are not published again.
NativeOutcomes(x, ptt, pin) ==
    {[dev |-> IF published THEN [y.dev EXCEPT !.ptt = ptt, !.pin = pin] ELSE y.dev,
      ok  |-> x.ok /\ y.ok /\ published] :
        y \in ParallelDrives(x.dev, ptt), published \in BOOLEAN}

NativeCycle(d, keyed, pin) ==
    UNION {NativeOutcomes(x, x.ok /\ keyed, pin) : x \in Cm119Drives(d, d.ptt, d.pin, d.pulse)}

ServiceOnce(d, pin) ==
    IF native THEN NativeCycle(d, request, pin) ELSE AsteriskCycle(d, request, pin)

\* ServiceDevices::open_at_outputs: both handles, or neither (the CM119 interface
\* having taken its initial levels or not).
OpenAtOutputs(d, pin) ==
    LET opened == [d EXCEPT !.ptt = FALSE, !.pin = pin, !.pulse = FALSE,
                            !.usb = FALSE, !.level = pin]
    IN  {[dev |-> d, ok |-> FALSE], [dev |-> opened, ok |-> FALSE],
         [dev |-> [opened EXCEPT !.port = FALSE, !.cm119 = TRUE, !.parallel = TRUE], ok |-> TRUE]}

(***************************************************************************)
(* Initial state: a prepared service, nothing opened.                      *)
(***************************************************************************)
NoState == [pin |-> InitialHigh, safe |-> FALSE, promise |-> {}, present |-> FALSE]

Init ==
    /\ native \in BOOLEAN
    /\ request = FALSE
    /\ owner = [at |-> "stopped", retiring |-> FALSE, pending |-> NoState]
    /\ stop = FALSE
    /\ worker = [at |-> "none", retiring |-> FALSE]
    /\ queue = <<>>
    /\ bank = NewBank(InitialHigh, 0)
    /\ dev = NewDevices
    /\ cache = [generation |-> 0, claimed |-> FALSE, current |-> FALSE]
    /\ token = 1
    /\ granted = FALSE
    /\ promise = {}
    /\ used = 0

\* The rendered PTT changes.
SetRequest ==
    /\ request' = ~request
    /\ UNCHANGED <<native, owner, stop, worker, queue, dev, site, used>>

\* A pulse the adapter runs comes to its end.
PulseEnds ==
    /\ dev.pulse
    /\ dev' = [dev EXCEPT !.pulse = FALSE]
    /\ UNCHANGED <<native, request, owner, stop, worker, queue, site, used>>

(***************************************************************************)
(* The owner: start, commands, snapshot, stop.                             *)
(***************************************************************************)

\* OutputState::new and restore() of the staged state, if any.
StartPin == owner.pending.pin

StartPromise == owner.pending.promise

CanStart == owner.at = "stopped" /\ ~owner.retiring

\* start() whose open fails: the staged state waits for another try.
StartFails ==
    /\ CanStart
    /\ \E o \in OpenAtOutputs(dev, StartPin) :
          /\ ~o.ok
          /\ dev' = o.dev
          /\ promise' = IF o.dev = dev THEN promise ELSE StartPromise
    /\ token' = TokenAfter(1)
    /\ UNCHANGED <<native, request, owner, stop, worker, queue, bank, cache, granted, used>>

\* start() with open devices: prepare_site, in Asterisk mode a first service cycle,
\* then the thread; or a failure that leaves the devices to be retired.
Start ==
    LET fresh == PrepareSite(StartPin, owner.pending.safe, Token(1))
    IN  /\ CanStart
        /\ \E o \in {o \in OpenAtOutputs(dev, StartPin) : o.ok} :
           \E first \in {[dev |-> o.dev, ok |-> FALSE]} \union
                        IF native THEN {[dev |-> o.dev, ok |-> TRUE]}
                        ELSE AsteriskCycle(o.dev, request, StartPin) :
              /\ dev' = first.dev
              /\ IF first.ok
                 THEN /\ bank' = fresh
                      /\ worker' = [at |-> "loop", retiring |-> FALSE]
                      /\ owner' = [at |-> "running", retiring |-> FALSE, pending |-> NoState]
                 ELSE /\ bank' = Retire(fresh)
                      /\ owner' = [owner EXCEPT !.retiring = TRUE]
                      /\ UNCHANGED worker
        /\ cache' = Publish(bank')
        /\ token' = TokenAfter(2)
        /\ promise' = StartPromise
        /\ stop' = FALSE
        /\ queue' = <<>>
        /\ UNCHANGED <<native, request, granted, used>>

\* The owner's retry of close_outputs, in stop(), poll_stop() and start().  An owner
\* that is dropped tries once and ignores the result, which is left out.
OwnerRetires(ok) ==
    /\ owner.at = "stopped"
    /\ owner.retiring
    /\ \E o \in CloseOutputs(dev, bank.pin) :
          /\ o.ok = ok
          /\ dev' = [o.dev EXCEPT !.cm119 = ~ok]
    /\ owner' = [owner EXCEPT !.retiring = ~ok]
    /\ UNCHANGED <<native, request, stop, worker, queue, site, used>>

\* queue_service.  A reload that has taken its snapshot goes on to stop.
Queue(command) ==
    /\ owner.at = "running"
    /\ ~owner.pending.present
    /\ Len(queue) < QueueCapacity
    /\ used < MaxCommands
    /\ used' = used + 1
    /\ queue' = Append(queue, command)
    /\ UNCHANGED <<native, request, stop, worker, dev, site>>

Command(kind) ==
    [kind |-> kind, generation |-> 0, claim |-> FALSE, high |-> FALSE, safe |-> FALSE,
     current |-> FALSE]

QueueOutput(kind, high) ==
    /\ kind = "pulse" => ~high
    /\ Queue([Command(kind) EXCEPT !.high = high])
    /\ UNCHANGED owner

\* site_bind and site_publish, validated against the cached ownership.
QueueBind(binding) ==
    /\ cache.generation # 0
    /\ Queue([Command("bind") EXCEPT !.generation = cache.generation, !.claim = binding.claim,
                                     !.high = binding.high, !.safe = binding.safe])
    /\ UNCHANGED owner

QueuePublish(high) ==
    /\ cache.generation # 0
    /\ cache.claimed
    /\ Queue([Command("publish") EXCEPT !.generation = cache.generation, !.high = high,
                                        !.current = cache.current])
    /\ UNCHANGED owner

\* transient_state(): the owner waits for the reply ...
QueueSnapshot ==
    /\ Queue(Command("snapshot"))
    /\ owner' = [owner EXCEPT !.at = "waiting"]

\* ... or gives up after CONTROL_RESPONSE_TIMEOUT; a late reply goes nowhere.
SnapshotTimesOut ==
    /\ owner.at = "waiting"
    /\ owner' = [owner EXCEPT !.at = "running"]
    /\ queue' = [i \in DOMAIN queue |->
                    IF queue[i].kind = "snapshot" THEN [queue[i] EXCEPT !.kind = "abandoned"]
                    ELSE queue[i]]
    /\ UNCHANGED <<native, request, stop, worker, dev, site, used>>

\* stop() and poll_stop() up to the point where they wait for the thread.
RequestStop ==
    /\ owner.at = "running"
    /\ owner' = [owner EXCEPT !.at = "stopping"]
    /\ stop' = TRUE
    /\ UNCHANGED <<native, request, worker, queue, dev, site, used>>

\* The thread is joined; devices it could not close become the owner's.
Join ==
    /\ owner.at = "stopping"
    /\ worker.at = "exited"
    /\ owner' = [owner EXCEPT !.at = "stopped", !.retiring = worker.retiring]
    /\ worker' = [at |-> "none", retiring |-> FALSE]
    /\ queue' = <<>>
    /\ UNCHANGED <<native, request, stop, dev, site, used>>

(***************************************************************************)
(* The thread: ServiceWorker::run.                                         *)
(***************************************************************************)
AtLoop == worker.at = "loop"

\* retire_site and its publication, wherever the thread does them.
RetireSite ==
    /\ bank' = Retire(bank)
    /\ promise' = PromiseOnRetire
    /\ cache' = Publish(Retire(bank))

\* An iteration begins with devices in service.
BeginService ==
    /\ AtLoop /\ ~stop /\ ~worker.retiring /\ dev.cm119
    /\ worker' = [worker EXCEPT !.at = "commands"]
    /\ UNCHANGED <<native, request, owner, stop, queue, dev, site, used>>

\* A command or a cycle failed, leaving q queued: native service keeps its handle,
\* the other retires its devices.
ServiceFailed(q) ==
    IF native
    THEN /\ worker' = [worker EXCEPT !.at = "loop"]
         /\ cache' = Publish(bank)
         /\ queue' = q
         /\ UNCHANGED <<bank, promise>>
    ELSE /\ worker' = [at |-> "loop", retiring |-> TRUE]
         /\ RetireSite
         /\ queue' = Outdated(q)

\* service_commands, one command.  First the commands that call a device.
Executes(kind) == worker.at = "commands" /\ queue # <<>> /\ Head(queue).kind = kind

PermitsOrdinaryAlways == TRUE

PermitsOrdinary == ~bank.claimed

\* OutputState::apply: a level or a pulse, unless the site owns the pin.
Output(kind) ==
    /\ Executes(kind)
    /\ PermitsOrdinary
    /\ bank' = [bank EXCEPT !.pin = IF kind = "level" THEN Head(queue).high ELSE @, !.safe = FALSE]
    /\ dev' = [dev EXCEPT !.pulse = (kind = "pulse")]
    /\ promise' = {}
    /\ queue' = Tail(queue)
    /\ UNCHANGED <<native, request, owner, stop, worker, cache, token, granted, used>>

\* OutputState::site_bind and SiteBankState::bind: the pulse of a former owner is
\* cancelled; a new pin takes its initial level, a released one its safe level.
Bound(c) ==
    [pin        |-> IF bank.claimed /\ ~c.claim THEN bank.safe
                    ELSE IF c.claim /\ ~bank.claimed THEN c.high
                    ELSE bank.pin,
     claimed    |-> c.claim,
     safe       |-> IF c.claim THEN c.safe ELSE bank.safe,
     generation |-> Token(0)]

SiteBind ==
    LET c == Head(queue)
    IN  /\ Executes("bind")
        /\ ValidGeneration(c.generation)
        /\ dev' = IF bank.claimed \/ c.claim THEN [dev EXCEPT !.pulse = FALSE] ELSE dev
        /\ IF Token(0) = 0
           THEN /\ queue' = Tail(queue)
                /\ UNCHANGED <<bank, cache, granted, promise>>
           ELSE /\ bank' = Bound(c)
                /\ granted' = (c.claim /\ Bound(c).pin)
                /\ promise' = IF c.claim THEN {} ELSE PromiseOnRetire
                /\ cache' = [cache EXCEPT !.current = FALSE]
                /\ queue' = Outdated(Tail(queue))
        /\ token' = TokenAfter(1)
        /\ UNCHANGED <<native, request, owner, stop, worker, used>>

\* The pulse call of either fails.
CommandFails ==
    LET c == Head(queue)
    IN  /\ \/ (Executes("level") \/ Executes("pulse")) /\ PermitsOrdinary
           \/ Executes("bind") /\ ValidGeneration(c.generation) /\ (bank.claimed \/ c.claim)
        /\ ServiceFailed(Tail(queue))
        /\ UNCHANGED <<native, request, owner, stop, dev, token, granted, used>>

\* OutputState::site_publish.
SitePublish ==
    LET c == Head(queue)
    IN  /\ Executes("publish")
        /\ ValidGeneration(c.generation)
        /\ bank.claimed
        /\ bank' = [bank EXCEPT !.pin = c.high]
        /\ granted' = IF c.current THEN c.high ELSE granted
        /\ queue' = Tail(queue)
        /\ UNCHANGED <<native, request, owner, stop, worker, dev, cache, token, promise, used>>

\* Commands that find the pin owned by someone else are rejected.
Rejected ==
    LET c == Head(queue)
    IN  /\ \/ (Executes("level") \/ Executes("pulse")) /\ ~PermitsOrdinary
           \/ Executes("bind") /\ ~ValidGeneration(c.generation)
           \/ Executes("publish") /\ ~(ValidGeneration(c.generation) /\ bank.claimed)
           \/ Executes("abandoned")
        /\ queue' = Tail(queue)
        /\ UNCHANGED <<native, request, owner, stop, worker, dev, site, used>>

\* OutputState::snapshot, sent to the waiting owner: a reload, which stages it for
\* the next start once the service has stopped.
SnapshotOf(b) ==
    [pin |-> RetiredOutput(b), safe |-> b.safe, promise |-> PromiseOnRetire,
     present |-> TRUE]

Snapshot ==
    /\ Executes("snapshot")
    /\ owner' = [owner EXCEPT !.at = "running", !.pending = SnapshotOf(bank)]
    /\ queue' = Tail(queue)
    /\ UNCHANGED <<native, request, stop, worker, dev, site, used>>

\* service_once, after the last command.
ServiceCycle(ok) ==
    /\ worker.at = "commands"
    /\ queue = <<>>
    /\ \E o \in ServiceOnce(dev, bank.pin) : o.ok = ok /\ dev' = o.dev
    /\ IF ok
       THEN /\ worker' = [worker EXCEPT !.at = "loop"]
            /\ cache' = Publish(bank)
            /\ UNCHANGED <<bank, promise, queue>>
       ELSE ServiceFailed(queue)
    /\ UNCHANGED <<native, request, owner, stop, token, granted, used>>

\* A failed device is made safe before anything else, as often as it takes.
RetireDevices(ok) ==
    /\ AtLoop /\ ~stop /\ worker.retiring
    /\ \E o \in CloseOutputs(dev, bank.pin) : o.ok = ok /\ dev' = [o.dev EXCEPT !.cm119 = ~ok]
    /\ worker' = [worker EXCEPT !.retiring = ~ok]
    /\ cache' = Publish(bank)
    /\ UNCHANGED <<native, request, owner, stop, queue, bank, token, granted, promise, used>>

\* Commands for the retired owner are thrown away (an owner waiting for a reply is
\* told so), and the devices opened at the safe levels.
Discarded == [owner EXCEPT !.at = IF @ = "waiting" THEN "running" ELSE @]

Reopen ==
    LET fresh == PrepareSite(bank.pin, bank.safe, Token(0))
    IN  /\ AtLoop /\ ~stop /\ ~worker.retiring /\ ~dev.cm119
        /\ queue' = <<>>
        /\ owner' = Discarded
        /\ \E o \in OpenAtOutputs(dev, bank.pin), prepared \in BOOLEAN :
              /\ dev' = o.dev
              /\ IF o.ok /\ prepared
                 THEN /\ bank' = fresh
                      /\ cache' = Publish(fresh)
                      /\ worker' = [worker EXCEPT !.at = "commands"]
                      /\ token' = TokenAfter(1)
                 ELSE /\ worker' = [worker EXCEPT !.retiring = o.ok]
                      /\ UNCHANGED <<bank, cache, token>>
        /\ UNCHANGED <<native, request, stop, granted, promise, used>>

\* The end of run(): one attempt to close what is open.
ExitWithoutClosing ==
    /\ AtLoop /\ stop
    /\ RetireSite
    /\ worker' = [at |-> "exited", retiring |-> FALSE]
    /\ queue' = Outdated(queue)
    /\ UNCHANGED <<native, request, owner, stop, dev, token, granted, used>>

Exit ==
    /\ AtLoop /\ stop
    /\ RetireSite
    /\ IF dev.cm119
       THEN \E o \in CloseOutputs(dev, RetiredOutput(bank)) :
               /\ dev' = [o.dev EXCEPT !.cm119 = ~o.ok]
               /\ worker' = [at |-> "exited", retiring |-> ~o.ok]
       ELSE /\ worker' = [at |-> "exited", retiring |-> FALSE]
            /\ UNCHANGED dev
    /\ queue' = Outdated(queue)
    /\ UNCHANGED <<native, request, owner, stop, token, granted, used>>

(***************************************************************************)
(* Specification.                                                          *)
(***************************************************************************)
Worker ==
    \/ BeginService
    \/ \E kind \in {"level", "pulse"} : Output(kind)
    \/ SiteBind \/ SitePublish \/ Rejected \/ CommandFails \/ Snapshot
    \/ \E ok \in BOOLEAN : ServiceCycle(ok) \/ RetireDevices(ok)
    \/ Reopen
    \/ Exit

Owner ==
    \/ StartFails \/ Start
    \/ \E kind \in {"level", "pulse"}, high \in BOOLEAN : QueueOutput(kind, high)
    \/ \E binding \in Bindings : QueueBind(binding)
    \/ \E high \in BOOLEAN : QueuePublish(high)
    \/ QueueSnapshot \/ SnapshotTimesOut
    \/ RequestStop \/ Join
    \/ \E ok \in BOOLEAN : OwnerRetires(ok)

Next == SetRequest \/ PulseEnds \/ Owner \/ Worker

Spec == Init /\ [][Next]_vars

\* The thread is never starved; a stop is carried through; and a device that is
\* tried again and again works once.
Fairness ==
    /\ WF_vars(Worker)
    /\ WF_vars(Join)
    /\ SF_vars(ServiceCycle(TRUE))
    /\ SF_vars(RetireDevices(TRUE))
    /\ SF_vars(OwnerRetires(TRUE))

FairSpec == Spec /\ Fairness

(***************************************************************************)
(* Properties.                                                             *)
(***************************************************************************)

\* The type invariant.
TypeOK ==
    /\ {native, request, stop, granted} \subseteq BOOLEAN
    /\ owner.at \in {"stopped", "running", "waiting", "stopping"}
    /\ worker.at \in {"none", "loop", "commands", "exited"}
    /\ (worker.at = "none") = (owner.at = "stopped")
    /\ Len(queue) <= QueueCapacity
    /\ bank \in [pin : BOOLEAN, claimed : BOOLEAN, safe : BOOLEAN, generation : 0..(MaxGeneration - 1)]
    /\ dev \in [DOMAIN NewDevices -> BOOLEAN]
    /\ promise \subseteq BOOLEAN

\* No transmitter is left keyed by a device nobody holds: a closed bank's PTT line
\* is off, whether it was closed by recovery, by stop, by a failed start or by the
\* owner's retry, and a stopped service holds a device only to close it.
ReleasedMeansUnkeyed ==
    /\ ~dev.cm119 => ~dev.usb
    /\ ~dev.parallel => ~dev.port
    /\ owner.at = "stopped" /\ ~owner.retiring => ~dev.cm119 /\ ~dev.parallel

\* While the site owns the pin, it has the level the owner of that very ownership
\* last had accepted, and no pulse runs on it: not an ordinary command, not a
\* pulse of the former owner, and not a request queued under an earlier ownership.
\* Ownership tokens are never reused or run over: once they are spent, the generation
\* is the one that validates nothing (next_generation).
SiteOwnerControlsPin ==
    /\ bank.claimed /\ bank.generation # 0 => bank.pin = granted /\ ~dev.pulse
    /\ token \in 1..MaxGeneration
    /\ bank.generation # 0 => bank.generation < token

\* A pin its site owner has lost keeps the safe level that owner declared, through
\* device recovery, a stop, and a reload that carries the state to a new service,
\* until somebody else drives it.
ReleasedPinSafe ==
    \A level \in promise :
        /\ worker.at # "none" \/ owner.retiring => bank.pin = level
        /\ ~dev.cm119 => dev.level = level

\* What nobody holds any more was let go in a safe state: both parts together.
ReleasedOutputsSafe == ReleasedMeansUnkeyed /\ ReleasedPinSafe

\* Once the logical request is off for good, both PTT lines are off for good: the
\* service cannot lose an unkey in recovery, in a failed stop or in a restart.
UnkeyReaches == <>[](~request) => <>[](~dev.usb /\ ~dev.port)
=============================================================================
