---------------------------- MODULE ChannelHost ----------------------------
(***************************************************************************)
(* The Asterisk channel host: rust/asterisk/src/host/{channel,delivery,    *)
(* reload,lifecycle}.rs.  Every radio is hosted by one boxed `Channel'     *)
(* that four kinds of threads reach:                                       *)
(*                                                                         *)
(*   callback  Asterisk threads running a technology callback with the     *)
(*             owner's AO2 lock held (call, indicate, setoption);          *)
(*   hangup    the Asterisk thread that frees the Channel;                 *)
(*   worker    the delivery thread `call' spawns for a legacy channel;     *)
(*   reloader  the one configuration reload, and the CLI.                  *)
(*                                                                         *)
(* Three locks order them: the live-channel membership mutex (mlock), the  *)
(* control admission gate (gate) and the owner lock (olock).  Requests to  *)
(* the radio product run on the channel's taskprocessor, one at a time, so *)
(* each is one step here; a critical section that contains one such        *)
(* request and nothing another thread waits for is one step with it.       *)
(***************************************************************************)
EXTENDS Naturals, FiniteSets

CONSTANTS
    Channels,       \* the configured radio names
    NoIntent,       \* PendingTransmit::NONE
    MaxRequests,    \* bound: requester callbacks that succeed
    MaxIndications, \* bound: key and unkey indications
    MaxReloads,     \* bound: configuration reloads
    MaxCli          \* bound: CLI transmit commands

ASSUME ConstantsOK ==
    /\ IsFiniteSet(Channels)
    /\ NoIntent \notin {"key", "unkey"}
    /\ Channels \cap {"free", "reload"} = {}   \* the other values of mlock
    /\ {MaxRequests, MaxIndications, MaxReloads, MaxCli} \subseteq Nat

Intents == {"key", "unkey"}

VARIABLES
    host,        \* HOST is Some: the technologies are registered
    members,     \* LIVE_CHANNELS
    active,      \* ACTIVE_CHANNELS
    mlock,       \* holder of the membership mutex: "free", "reload" or a channel
    gate,        \* CONTROL_GATE: "open", "closing" (a writer waits), "closed"
    olock,       \* per channel, holder of the owner's AO2 lock
    ch,          \* per channel, the Channel and what Asterisk keeps of it
    radio,       \* per channel, the product's side of it
    worker,      \* per channel, the delivery thread
    callback,    \* per channel, the callback that holds the owner lock
    hang,        \* per channel, the hangup callback
    reloader,    \* the reload thread
    generation,  \* the committed configuration generation
    latest,      \* history: the last indication accepted for the channel
    overridden,  \* history: a rollback or the CLI replaced the request since
    budget       \* environment steps left

vars == <<host, members, active, mlock, gate, olock, ch, radio, worker,
          callback, hang, reloader, generation, latest, overridden, budget>>

(* What the threads of a channel share: the box, the Asterisk owner that   *)
(* refers to it (pvt), the owner published back to it, and its atomics.    *)
Unhosted ==
    [box |-> "none", pvt |-> FALSE, owner |-> FALSE, direct |-> FALSE,
     called |-> FALSE, stop |-> FALSE, failed |-> FALSE, pending |-> NoIntent,
     jitterPending |-> FALSE, jitterApplied |-> 0]

(* The product's channel: its hardware, the transmit request its current   *)
(* generation holds, and what a reload in progress keeps for a rollback.   *)
Unreserved == [state |-> "none", request |-> "unkey", adopted |-> "no", saved |-> "unkey"]

NoWorker == [pc |-> "none", raw |-> NoIntent]
NoCallback == [pc |-> "idle", intent |-> NoIntent]

Init ==
    /\ host = FALSE
    /\ members = {}
    /\ active = 0
    /\ mlock = "free"
    /\ gate = "open"
    /\ olock = [c \in Channels |-> "free"]
    /\ ch = [c \in Channels |-> Unhosted]
    /\ radio = [c \in Channels |-> Unreserved]
    /\ worker = [c \in Channels |-> NoWorker]
    /\ callback = [c \in Channels |-> NoCallback]
    /\ hang = [c \in Channels |-> "idle"]
    /\ reloader = [phase |-> "idle", todo |-> {}]
    /\ generation = 0
    /\ latest = [c \in Channels |-> NoIntent]
    /\ overridden = [c \in Channels |-> FALSE]
    /\ budget = [requests |-> MaxRequests, indications |-> MaxIndications,
                 reloads |-> MaxReloads, cli |-> MaxCli]

-----------------------------------------------------------------------------
(* control(): try_read on the gate.  A reader passes while no writer holds *)
(* it; it may be refused as soon as one waits.                             *)
Admitted == gate # "closed"
Refused == gate # "open"

(* channel_set_transmit succeeds once the hardware exists, running or not. *)
HasHardware(c) == radio[c].state \in {"running", "stopped"}

(* lock_owner(): trylock, then the published owner is looked at again.     *)
WorkerLocksOwner(c) == ch[c].owner /\ olock[c] = "free"

(* ControlOperation::Transmit on the taskprocessor.                        *)
ApplyTransmit(c, i) ==
    /\ HasHardware(c)
    /\ radio' = [radio EXCEPT ![c].request = i]
    /\ overridden' = [overridden EXCEPT ![c] = FALSE]

-----------------------------------------------------------------------------
(* Lifecycle: the technologies are registered and unregistered under the   *)
(* membership mutex, and only while no channel is hosted.  The lifecycle   *)
(* mutex keeps both apart from a reload.                                   *)
Register ==
    /\ ~host
    /\ mlock = "free"
    /\ active = 0
    /\ host' = TRUE
    /\ UNCHANGED <<members, active, mlock, gate, olock, ch, radio, worker,
                   callback, hang, reloader, generation, latest, overridden, budget>>

Unregister ==
    /\ host
    /\ reloader.phase = "idle"
    /\ mlock = "free"
    /\ active = 0
    /\ host' = FALSE
    /\ UNCHANGED <<members, active, mlock, gate, olock, ch, radio, worker,
                   callback, hang, reloader, generation, latest, overridden, budget>>

(* request(): reserves the radio, attaches an Asterisk owner, joins the    *)
(* membership and sets up the jitter buffer, all under the membership      *)
(* mutex.  Failures before the owner exists are undone by abandon() and    *)
(* leave no trace; a failed jitter setup hangs the new channel up.         *)
Request(c) ==
    /\ budget.requests > 0
    /\ mlock = "free"
    /\ host
    /\ radio[c].state = "none"
    /\ hang[c] = "idle"
    /\ budget' = [budget EXCEPT !.requests = @ - 1]
    /\ radio' = [radio EXCEPT ![c] = [Unreserved EXCEPT !.state = "reserved"]]
    /\ members' = members \cup {c}
    /\ active' = active + 1
    /\ \E configured \in BOOLEAN :
         /\ ch' = [ch EXCEPT ![c] = [Unhosted EXCEPT
                     !.box = "live", !.pvt = TRUE, !.owner = TRUE,
                     !.jitterApplied = IF configured THEN generation ELSE 0]]
         /\ hang' = [hang EXCEPT ![c] = IF configured THEN "idle" ELSE "failed"]
    /\ latest' = [latest EXCEPT ![c] = NoIntent]
    /\ overridden' = [overridden EXCEPT ![c] = FALSE]
    /\ UNCHANGED <<host, mlock, gate, olock, worker, callback, reloader, generation>>

-----------------------------------------------------------------------------
(* hangup().  Asterisk enters with the owner locked; the callback          *)
(* unpublishes the owner and releases it before it waits for membership,   *)
(* then takes both again.                                                  *)
HangupBegin(c) ==
    /\ ch[c].pvt
    /\ hang[c] \in {"idle", "failed"}
    /\ olock[c] = "free"
    /\ ch' = [ch EXCEPT ![c].owner = FALSE]
    /\ hang' = [hang EXCEPT ![c] = "membership"]
    /\ UNCHANGED <<host, members, active, mlock, gate, olock, radio, worker,
                   callback, reloader, generation, latest, overridden, budget>>

HangupLockMembership(c) ==
    /\ hang[c] = "membership"
    /\ mlock = "free"
    /\ mlock' = c
    /\ hang' = [hang EXCEPT ![c] = "owner"]
    /\ UNCHANGED <<host, members, active, gate, olock, ch, radio, worker,
                   callback, reloader, generation, latest, overridden, budget>>

HangupRelockOwner(c) ==
    /\ hang[c] = "owner"
    /\ olock[c] = "free"
    /\ olock' = [olock EXCEPT ![c] = "hangup"]
    /\ hang' = [hang EXCEPT ![c] = "remove"]
    /\ UNCHANGED <<host, members, active, mlock, gate, ch, radio, worker,
                   callback, reloader, generation, latest, overridden, budget>>

HangupStopWorker(c) ==
    /\ hang[c] = "remove"
    /\ members' = members \ {c}
    /\ ch' = [ch EXCEPT ![c].stop = TRUE]
    /\ hang' = [hang EXCEPT ![c] = "join"]
    /\ UNCHANGED <<host, active, mlock, gate, olock, radio, worker, callback,
                   reloader, generation, latest, overridden, budget>>

(* Mutant: the worker is told to stop but not joined.                      *)
HangupFree_NoJoin(c) ==
    /\ hang[c] = "join"
    /\ radio' = IF gate = "open" THEN [radio EXCEPT ![c] = Unreserved] ELSE radio
    /\ ch' = [ch EXCEPT ![c].box = "freed", ![c].pvt = FALSE]
    /\ active' = active - 1
    /\ mlock' = "free"
    /\ olock' = [olock EXCEPT ![c] = "free"]
    /\ hang' = [hang EXCEPT ![c] = "idle"]
    /\ UNCHANGED <<host, members, gate, worker, callback, reloader, generation,
                   latest, overridden, budget>>

(* join, Stop and Destroy through the gate, free, leave.                   *)
HangupFree(c) ==
    /\ hang[c] = "join"
    /\ worker[c].pc \in {"none", "done"}
    /\ radio' = IF gate = "open" THEN [radio EXCEPT ![c] = Unreserved] ELSE radio
    /\ ch' = [ch EXCEPT ![c].box = "freed", ![c].pvt = FALSE]
    /\ worker' = [worker EXCEPT ![c] = NoWorker]
    /\ active' = active - 1
    /\ mlock' = "free"
    /\ olock' = [olock EXCEPT ![c] = "free"]
    /\ hang' = [hang EXCEPT ![c] = "idle"]
    /\ UNCHANGED <<host, members, gate, callback, reloader, generation, latest,
                   overridden, budget>>

-----------------------------------------------------------------------------
(* Callbacks run with the owner locked.  They may still start while a      *)
(* hangup waits for membership, because the owner is released there.       *)
EnterCallback(c, pc, i) ==
    /\ ch[c].pvt
    /\ callback[c].pc = "idle"
    /\ olock[c] = "free"
    /\ olock' = [olock EXCEPT ![c] = "callback"]
    /\ callback' = [callback EXCEPT ![c] = [pc |-> pc, intent |-> i]]

LeaveCallback(c) ==
    /\ olock' = [olock EXCEPT ![c] = "free"]
    /\ callback' = [callback EXCEPT ![c] = NoCallback]

ContinueCallback(c, pc) ==
    /\ callback' = [callback EXCEPT ![c].pc = pc]
    /\ UNCHANGED olock

(* setoption(URP_AST_OPTION_DIRECT_CALLBACKS), before the channel starts.  *)
SetDirect(c) ==
    /\ ch[c].pvt /\ ~ch[c].called /\ ~ch[c].direct
    /\ olock[c] = "free"
    /\ Admitted
    /\ ch' = [ch EXCEPT ![c].direct = TRUE]
    /\ UNCHANGED <<host, members, active, mlock, gate, olock, radio, worker,
                   callback, hang, reloader, generation, latest, overridden, budget>>

(* call(): Asterisk calls a channel once.                                  *)
Call(c) ==
    /\ ~ch[c].called
    /\ EnterCallback(c, "call", NoIntent)
    /\ ch' = [ch EXCEPT ![c].called = TRUE]
    /\ UNCHANGED <<host, members, active, mlock, gate, radio, worker, hang,
                   reloader, generation, latest, overridden, budget>>

(* apply_pending_jitter() in call(): no change pending, or the change is   *)
(* queried and given to Asterisk, or the call fails.                       *)
CallJitter(c) ==
    /\ callback[c].pc = "call"
    /\ \/ /\ ~ch[c].jitterPending
          /\ ContinueCallback(c, "start")
          /\ UNCHANGED ch
       \/ /\ ch[c].jitterPending /\ ch[c].owner /\ Admitted
          /\ ch' = [ch EXCEPT ![c].jitterApplied = generation]
          /\ ContinueCallback(c, "clear")
       \/ /\ ch[c].jitterPending /\ (~ch[c].owner \/ Refused)
          /\ LeaveCallback(c)
          /\ UNCHANGED ch
    /\ UNCHANGED <<host, members, active, mlock, gate, radio, worker, hang,
                   reloader, generation, latest, overridden, budget>>

CallJitterClear(c) ==
    /\ callback[c].pc = "clear"
    /\ ch' = [ch EXCEPT ![c].jitterPending = FALSE]
    /\ ContinueCallback(c, "start")
    /\ UNCHANGED <<host, members, active, mlock, gate, radio, worker, hang,
                   reloader, generation, latest, overridden, budget>>

(* start_media(): Start through the gate.  A refusal or a failure, before  *)
(* or after the hardware was opened, ends the call; a direct controller    *)
(* polls readiness itself and has no worker.                               *)
CallStart(c) ==
    /\ callback[c].pc = "start"
    /\ \/ /\ Admitted
          /\ radio' = [radio EXCEPT ![c].state = "running"]
          /\ IF ch[c].direct THEN LeaveCallback(c) ELSE ContinueCallback(c, "spawn")
       \/ /\ Refused
          /\ LeaveCallback(c)
          /\ UNCHANGED radio
       \/ /\ Admitted
          /\ \E opened \in {"reserved", "stopped"} :
               radio' = [radio EXCEPT ![c].state = opened]
          /\ LeaveCallback(c)
    /\ UNCHANGED <<host, members, active, mlock, gate, ch, worker, hang,
                   reloader, generation, latest, overridden, budget>>

(* The delivery thread is spawned, or the media is stopped again if the    *)
(* gate lets the Stop through.                                             *)
CallSpawn(c) ==
    /\ callback[c].pc = "spawn"
    /\ ch' = [ch EXCEPT ![c].stop = FALSE, ![c].failed = FALSE]
    /\ \/ /\ worker' = [worker EXCEPT ![c] = [NoWorker EXCEPT !.pc = "loop"]]
          /\ UNCHANGED radio
       \/ /\ radio' = IF gate = "closed" THEN radio
                      ELSE [radio EXCEPT ![c].state = "stopped"]
          /\ UNCHANGED worker
    /\ LeaveCallback(c)
    /\ UNCHANGED <<host, members, active, mlock, gate, hang, reloader,
                   generation, latest, overridden, budget>>

(* indicate() and transmit(): an intent waiting for replay is overwritten, *)
(* otherwise the intent is applied through the gate, and only a refusal by *)
(* the gate defers it.                                                     *)
Indicate(c, i) ==
    /\ budget.indications > 0
    /\ EnterCallback(c, IF ch[c].pending # NoIntent THEN "store" ELSE "try", i)
    /\ budget' = [budget EXCEPT !.indications = @ - 1]
    /\ UNCHANGED <<host, members, active, mlock, gate, ch, radio, worker, hang,
                   reloader, generation, latest, overridden>>

TransmitApply(c) ==
    /\ callback[c].pc = "try"
    /\ Admitted
    /\ ApplyTransmit(c, callback[c].intent)
    /\ latest' = [latest EXCEPT ![c] = callback[c].intent]
    /\ LeaveCallback(c)
    /\ UNCHANGED <<host, members, active, mlock, gate, ch, worker, hang,
                   reloader, generation, budget>>

(* Any failure but the gate's refusal is the caller's to handle.           *)
TransmitFails(c) ==
    /\ callback[c].pc = "try"
    /\ Admitted
    /\ LeaveCallback(c)
    /\ UNCHANGED <<host, members, active, mlock, gate, ch, radio, worker, hang,
                   reloader, generation, latest, overridden, budget>>

TransmitDefer(c) ==
    /\ callback[c].pc = "try"
    /\ Refused
    /\ ContinueCallback(c, "store")
    /\ UNCHANGED <<host, members, active, mlock, gate, ch, radio, worker, hang,
                   reloader, generation, latest, overridden, budget>>

TransmitStore(c) ==
    /\ callback[c].pc = "store"
    /\ ch' = [ch EXCEPT ![c].pending = callback[c].intent]
    /\ latest' = [latest EXCEPT ![c] = callback[c].intent]
    /\ LeaveCallback(c)
    /\ UNCHANGED <<host, members, active, mlock, gate, radio, worker, hang,
                   reloader, generation, overridden, budget>>

-----------------------------------------------------------------------------
(* run_worker(): replay the deferred intent, configure a pending jitter    *)
(* change, deliver, repeat until told to stop.  Neither the replay nor the *)
(* delivery goes through the gate.                                         *)
WorkerLoop(c) ==
    /\ worker[c].pc = "loop"
    /\ worker' = [worker EXCEPT ![c] =
         IF ch[c].stop THEN [@ EXCEPT !.pc = "done"]
         ELSE [pc |-> IF ch[c].pending = NoIntent THEN "jitter" ELSE "replay",
               raw |-> ch[c].pending]]
    /\ UNCHANGED <<host, members, active, mlock, gate, olock, ch, radio,
                   callback, hang, reloader, generation, latest, overridden, budget>>

WorkerReplay(c) ==
    /\ worker[c].pc = "replay"
    /\ ApplyTransmit(c, worker[c].raw)
    /\ worker' = [worker EXCEPT ![c].pc = "clear_pending"]
    /\ UNCHANGED <<host, members, active, mlock, gate, olock, ch, callback,
                   hang, reloader, generation, latest, budget>>

(* Mutant: the replayed intent is cleared by a plain store.                *)
WorkerClearPending_Store(c) ==
    /\ worker[c].pc = "clear_pending"
    /\ ch' = [ch EXCEPT ![c].pending = NoIntent]
    /\ worker' = [worker EXCEPT ![c] = [pc |-> "jitter", raw |-> NoIntent]]
    /\ UNCHANGED <<host, members, active, mlock, gate, olock, radio, callback,
                   hang, reloader, generation, latest, overridden, budget>>

(* compare_exchange: an intent stored since the load stays.                *)
WorkerClearPending(c) ==
    /\ worker[c].pc = "clear_pending"
    /\ ch' = [ch EXCEPT ![c].pending = IF @ = worker[c].raw THEN NoIntent ELSE @]
    /\ worker' = [worker EXCEPT ![c] = [pc |-> "jitter", raw |-> NoIntent]]
    /\ UNCHANGED <<host, members, active, mlock, gate, olock, radio, callback,
                   hang, reloader, generation, latest, overridden, budget>>

(* configure_pending_jitter(): nothing is done, and the change stays       *)
(* pending, when the owner cannot be locked or the gate refuses.           *)
WorkerJitter(c) ==
    /\ worker[c].pc = "jitter"
    /\ \/ /\ ch[c].jitterPending /\ WorkerLocksOwner(c) /\ Admitted
          /\ ch' = [ch EXCEPT ![c].jitterApplied = generation]
          /\ worker' = [worker EXCEPT ![c].pc = "clear_jitter"]
       \/ /\ ~ch[c].jitterPending \/ ~WorkerLocksOwner(c) \/ Refused
          /\ worker' = [worker EXCEPT ![c].pc = "service"]
          /\ UNCHANGED ch
    /\ UNCHANGED <<host, members, active, mlock, gate, olock, radio, callback,
                   hang, reloader, generation, latest, overridden, budget>>

WorkerClearJitter(c) ==
    /\ worker[c].pc = "clear_jitter"
    /\ ch' = [ch EXCEPT ![c].jitterPending = FALSE]
    /\ worker' = [worker EXCEPT ![c].pc = "service"]
    /\ UNCHANGED <<host, members, active, mlock, gate, olock, radio, callback,
                   hang, reloader, generation, latest, overridden, budget>>

WorkerService(c) ==
    /\ worker[c].pc = "service"
    /\ worker' = [worker EXCEPT ![c].pc = "loop"]
    /\ UNCHANGED <<host, members, active, mlock, gate, olock, ch, radio,
                   callback, hang, reloader, generation, latest, overridden, budget>>

(* Mutant: a failed replay ends the thread without marking the channel.    *)
WorkerFails_Silent(c) ==
    /\ worker[c].pc \in {"replay", "service"}
    /\ worker' = [worker EXCEPT ![c] = [NoWorker EXCEPT !.pc = "done"]]
    /\ UNCHANGED <<host, members, active, mlock, gate, olock, ch, radio, callback,
                   hang, reloader, generation, latest, overridden, budget>>

(* A replay or a delivery that fails ends the thread and marks the         *)
(* channel: read() then returns no frame and Asterisk hangs it up.         *)
WorkerFails(c) ==
    /\ worker[c].pc \in {"replay", "service"}
    /\ ch' = [ch EXCEPT ![c].failed = TRUE]
    /\ worker' = [worker EXCEPT ![c] = [NoWorker EXCEPT !.pc = "done"]]
    /\ UNCHANGED <<host, members, active, mlock, gate, olock, radio, callback,
                   hang, reloader, generation, latest, overridden, budget>>

-----------------------------------------------------------------------------
(* The reload: freeze membership, close the gate, adopt every channel,     *)
(* publish or roll back, reopen the gate, release membership.  What each   *)
(* phase does inside the product is module ReloadTransaction; here only    *)
(* the transmit request and the jitter generation matter.                  *)
ReloadLock ==
    /\ reloader.phase = "idle"
    /\ budget.reloads > 0
    /\ host
    /\ mlock = "free"
    /\ mlock' = "reload"
    /\ gate' = "closing"
    /\ reloader' = [reloader EXCEPT !.phase = "gate"]
    /\ budget' = [budget EXCEPT !.reloads = @ - 1]
    /\ UNCHANGED <<host, members, active, olock, ch, radio, worker, callback,
                   hang, generation, latest, overridden>>

ReloadClose ==
    /\ reloader.phase = "gate"
    /\ gate' = "closed"
    /\ reloader' = [phase |-> "adopt", todo |-> members]
    /\ UNCHANGED <<host, members, active, mlock, olock, ch, radio, worker,
                   callback, hang, generation, latest, overridden, budget>>

(* channel_reload_activate: a live update leaves the request where it is;  *)
(* a replacement starts with a copy, and the retired generation keeps its  *)
(* own for a rollback.                                                     *)
ReloadAdopt(c) ==
    /\ reloader.phase = "adopt"
    /\ c \in reloader.todo
    /\ reloader' = [reloader EXCEPT !.todo = @ \ {c}]
    /\ \E kind \in {"live"} \cup (IF HasHardware(c) THEN {"replaced"} ELSE {}) :
         radio' = [radio EXCEPT ![c].adopted = kind, ![c].saved = radio[c].request]
    /\ UNCHANGED <<host, members, active, mlock, gate, olock, ch, worker,
                   callback, hang, generation, latest, overridden, budget>>

(* A preparation, an activation (its deadline included) or the driver      *)
(* commit fails.                                                           *)
AdoptionFails ==
    /\ reloader.phase = "adopt"
    /\ reloader' = [phase |-> "abort", todo |-> members]
    /\ UNCHANGED <<host, members, active, mlock, gate, olock, ch, radio, worker,
                   callback, hang, generation, latest, overridden, budget>>

(* channel_reload_finish(false): a replaced generation is discarded and    *)
(* the retired one is restored as it was when it was suspended.            *)
ReloadAbort(c) ==
    /\ reloader.phase = "abort"
    /\ c \in reloader.todo
    /\ reloader' = [reloader EXCEPT !.todo = @ \ {c}]
    /\ IF radio[c].adopted = "replaced"
       THEN /\ radio' = [radio EXCEPT ![c].request = radio[c].saved, ![c].adopted = "no"]
            /\ overridden' = [overridden EXCEPT ![c] = TRUE]
       ELSE /\ radio' = [radio EXCEPT ![c].adopted = "no"]
            /\ UNCHANGED overridden
    /\ UNCHANGED <<host, members, active, mlock, gate, olock, ch, worker,
                   callback, hang, generation, latest, budget>>

(* The driver generation is published, every rollback is retired, and      *)
(* every channel is told to configure its jitter buffer again.             *)
ReloadCommit ==
    /\ reloader.phase = "adopt"
    /\ reloader.todo = {}
    /\ generation' = generation + 1
    /\ radio' = [c \in Channels |-> [radio[c] EXCEPT !.adopted = "no"]]
    /\ ch' = [c \in Channels |->
         IF c \in members THEN [ch[c] EXCEPT !.jitterPending = TRUE] ELSE ch[c]]
    /\ reloader' = [phase |-> "reopen", todo |-> {}]
    /\ UNCHANGED <<host, members, active, mlock, gate, olock, worker, callback,
                   hang, latest, overridden, budget>>

(* set_control_gate(false): the gate reopens while membership is kept.     *)
ReloadReopen ==
    /\ reloader.phase \in {"abort", "reopen"}
    /\ reloader.todo = {}
    /\ gate' = "open"
    /\ reloader' = [reloader EXCEPT !.phase = "release"]
    /\ UNCHANGED <<host, members, active, mlock, olock, ch, radio, worker,
                   callback, hang, generation, latest, overridden, budget>>

ReloadRelease ==
    /\ reloader.phase = "release"
    /\ mlock' = "free"
    /\ reloader' = [reloader EXCEPT !.phase = "idle"]
    /\ UNCHANGED <<host, members, active, gate, olock, ch, radio, worker,
                   callback, hang, generation, latest, overridden, budget>>

(* CLI key and unkey: with_live_channel holds the membership mutex around  *)
(* one request through the gate.  It is no indication of the controller.   *)
CliTransmit(c, i) ==
    /\ budget.cli > 0
    /\ mlock = "free"
    /\ c \in members
    /\ Admitted
    /\ HasHardware(c)
    /\ radio' = [radio EXCEPT ![c].request = i]
    /\ overridden' = [overridden EXCEPT ![c] = TRUE]
    /\ budget' = [budget EXCEPT !.cli = @ - 1]
    /\ UNCHANGED <<host, members, active, mlock, gate, olock, ch, worker,
                   callback, hang, reloader, generation, latest>>

-----------------------------------------------------------------------------
HangupStep(c) ==
    \/ HangupLockMembership(c)
    \/ HangupRelockOwner(c)
    \/ HangupStopWorker(c)
    \/ HangupFree(c)

CallbackStep(c) ==
    \/ CallJitter(c)
    \/ CallJitterClear(c)
    \/ CallStart(c)
    \/ CallSpawn(c)
    \/ TransmitApply(c)
    \/ TransmitFails(c)
    \/ TransmitDefer(c)
    \/ TransmitStore(c)

WorkerStep(c) ==
    \/ WorkerLoop(c)
    \/ WorkerReplay(c)
    \/ WorkerClearPending(c)
    \/ WorkerJitter(c)
    \/ WorkerClearJitter(c)
    \/ WorkerService(c)
    \/ WorkerFails(c)

ReloadStep ==
    \/ ReloadClose
    \/ \E c \in Channels : ReloadAdopt(c) \/ ReloadAbort(c)
    \/ AdoptionFails
    \/ ReloadCommit
    \/ ReloadReopen
    \/ ReloadRelease

Environment(c) ==
    \/ Request(c)
    \/ HangupBegin(c)
    \/ SetDirect(c)
    \/ Call(c)
    \/ \E i \in Intents : Indicate(c, i) \/ CliTransmit(c, i)

Next ==
    \/ Register
    \/ Unregister
    \/ ReloadLock
    \/ ReloadStep
    \/ \E c \in Channels :
         Environment(c) \/ HangupStep(c) \/ CallbackStep(c) \/ WorkerStep(c)

Spec == Init /\ [][Next]_vars

(* Every thread that has work goes on: the worker and the callbacks never  *)
(* block, complete_phase bounds every wait of a reload by its deadline,    *)
(* and hangup is a synchronous callback.                                   *)
FairSpec ==
    /\ Spec
    /\ WF_vars(ReloadStep)
    /\ \A c \in Channels :
         WF_vars(HangupStep(c)) /\ WF_vars(CallbackStep(c)) /\ WF_vars(WorkerStep(c))

-----------------------------------------------------------------------------
(* Type invariant.                                                         *)
TypeOK ==
    /\ host \in BOOLEAN
    /\ members \subseteq Channels
    /\ active \in 0 .. Cardinality(Channels)
    /\ mlock \in {"free", "reload"} \cup Channels
    /\ gate \in {"open", "closing", "closed"}
    /\ olock \in [Channels -> {"free", "callback", "hangup"}]
    /\ ch \in [Channels -> [box : {"none", "live", "freed"}, pvt : BOOLEAN,
                owner : BOOLEAN, direct : BOOLEAN, called : BOOLEAN,
                stop : BOOLEAN, failed : BOOLEAN, pending : Intents \cup {NoIntent},
                jitterPending : BOOLEAN, jitterApplied : 0 .. MaxReloads]]
    /\ radio \in [Channels -> [state : {"none", "reserved", "running", "stopped"},
                request : Intents, adopted : {"no", "live", "replaced"}, saved : Intents]]
    /\ worker \in [Channels -> [pc : {"none", "loop", "replay", "clear_pending",
                "jitter", "clear_jitter", "service", "done"},
                raw : Intents \cup {NoIntent}]]
    /\ callback \in [Channels -> [pc : {"idle", "call", "clear", "start", "spawn",
                "try", "store"}, intent : Intents \cup {NoIntent}]]
    /\ hang \in [Channels -> {"idle", "failed", "membership", "owner", "remove", "join"}]
    /\ reloader \in [phase : {"idle", "gate", "adopt", "abort", "reopen", "release"},
                todo : SUBSET Channels]
    /\ generation \in 0 .. MaxReloads
    /\ latest \in [Channels -> Intents \cup {NoIntent}]
    /\ overridden \in [Channels -> BOOLEAN]
    /\ budget \in [requests : 0 .. MaxRequests, indications : 0 .. MaxIndications,
                reloads : 0 .. MaxReloads, cli : 0 .. MaxCli]

(* The Channel is freed only after its product handle was destroyed:       *)
(* hangup sends Stop and Destroy through the gate and ignores a refusal,   *)
(* so the radio would stay reserved, and perhaps keyed, for ever if a      *)
(* reload could close the gate under it.                                   *)
FreedIsDestroyed ==
    \A c \in Channels : ch[c].box # "live" => radio[c].state = "none"

(* No thread reaches a Channel after hangup has freed it: not the delivery *)
(* worker, which holds a bare pointer and is only joined, not a callback   *)
(* that entered through tech_pvt while hangup had released the owner, and  *)
(* not the reload or the CLI, which walk the membership; and nothing in    *)
(* the product outlives it.                                                *)
NoUseAfterFree ==
    /\ \A c \in members : ch[c].box = "live"
    /\ \A c \in Channels :
         worker[c].pc \notin {"none", "done"} \/ callback[c].pc # "idle" =>
            ch[c].box = "live"
    /\ FreedIsDestroyed

(* The registered technologies, whose module reference hangup gives back,  *)
(* outlive every hosted channel, and ACTIVE_CHANNELS counts exactly the    *)
(* channels that exist, so an unload is neither early nor refused for ever *)
HostOutlivesChannels ==
    LET hosted == {c \in Channels : ch[c].box = "live"}
    IN  active = Cardinality(hosted) /\ (hosted # {} => host)

(* The controller's indications take effect in order: once nothing is      *)
(* waiting for replay and no indication is half done, the radio holds the  *)
(* last one the host accepted, however deferrals, replays and direct       *)
(* applications interleaved, unless a reload has rolled it back or the CLI *)
(* has set the transmitter since an indication last reached the radio.     *)
LatestIntentWins ==
    \A c \in Channels :
       /\ ch[c].box = "live" /\ latest[c] # NoIntent /\ ch[c].pending = NoIntent
       /\ ~overridden[c]
       => radio[c].request = latest[c]

(* What the documentation says of the same indications with no exception   *)
(* for a rollback: an accepted unkey is not lost by a reload.              *)
UnkeySurvivesReload ==
    \A c \in Channels :
       /\ ch[c].box = "live" /\ latest[c] = "unkey" /\ ch[c].pending = NoIntent
       /\ gate = "open"
       => radio[c].request = "unkey"

(* An intent that waits for replay while the delivery worker runs is       *)
(* replayed, or the channel is marked failed or hung up.                   *)
IntentsReplayed ==
    \A c \in Channels :
       ch[c].pending # NoIntent /\ worker[c].pc \notin {"none", "done"} ~>
          ch[c].pending = NoIntent \/ ch[c].failed \/ hang[c] # "idle"

(* A hangup always ends, although it waits for a reload, for a callback    *)
(* that holds the owner and for the worker, which may itself want the      *)
(* owner that hangup holds.                                                *)
HangupsComplete ==
    \A c \in Channels : hang[c] = "membership" ~> ch[c].box = "freed"

(* Nothing outlives what it borrows: threads their channel, channels the   *)
(* registered technologies.                                                *)
LifetimesNest == NoUseAfterFree /\ HostOutlivesChannels

(* What waits in the host is dealt with: accepted intents and hangups.     *)
ChannelProgress == IntentsReplayed /\ HangupsComplete
=============================================================================
