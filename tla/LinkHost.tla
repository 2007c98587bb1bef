------------------------------ MODULE LinkHost ------------------------------
(* Incoming-link processing hooks on Asterisk channels and the module      *)
(* lifecycle that starts and stops them (rust/asterisk/src/host/link.rs,   *)
(* lifecycle.rs, relink.rs; the graphs are those of rust/product/src/lib.rs *)
(* and rust/asl3/src/link.rs).                                             *)
(*                                                                         *)
(* LINK_CONTROL serialises the control plane (scanner, relink, explicit    *)
(* binding, statistics, stop), so one record, control, is the operation in     *)
(* progress.  Asterisk is concurrent with every step of it: channels hang  *)
(* up, datastores are torn down, a masquerade moves a hook to another      *)
(* channel, the idle timer fails.  A step of control ends where the code drops *)
(* a channel lock or an audiohook lock.                                    *)
(*                                                                         *)
(* A graph is the description it was built from, its rate and its profile. *)
(* Its samples, its counters and the idle clock's credit are left out; the *)
(* clock is its rate.  Timer slots are the pairs <<channel, hook>> whose   *)
(* descriptor the channel polls.                                           *)
EXTENDS Integers, FiniteSets

CONSTANTS
    LinkChannels,   \* Asterisk channel objects
    Eligible,       \* the IAX2 channels running Rpt with "Remote Rx"
    HookIds,        \* LinkHook allocations the instance may make, 1..n
    Profiles,       \* configured radio profiles
    Descriptions,   \* graph descriptions of a link section
    Rates,          \* negotiated sample rates
    NoProfile,
    NoChannel,
    LinkBudgets     \* bound: operations and rate changes of a behaviour

ASSUME LinkConstants ==
    /\ Eligible \subseteq LinkChannels /\ NoChannel \notin LinkChannels
    /\ HookIds \subseteq Nat \ {0} /\ IsFiniteSet(HookIds) /\ Rates \subseteq Nat \ {0}
    /\ Descriptions \subseteq Nat \ {0} /\ NoProfile \notin Profiles
    /\ LinkBudgets \subseteq [loads : Nat, unloads : Nat, reloads : Nat, binds : Nat,
                         rates : Nat]

\* The other values of the scanner's word are no profiles.
ASSUME ScanWords ==
    {"off", "idle", "busy", "exit"} \cap (Profiles \cup {NoProfile}) = {}

VARIABLES
    life,       \* where LifecycleCoordinator::load or unload stands
    driver,     \* the product driver exists
    running,    \* running_host() holds a host
    stop,       \* the scanner's stop flag
    scan,       \* the scanner thread
    bind,       \* the setoption caller of bind_peer
    control,        \* the operation that holds LINK_CONTROL
    relink,     \* the reload thread, the hooks it has staged, those moved meanwhile
    config,     \* published link descriptions
    candidate,  \* the staged driver generation's link descriptions
    heap,       \* LinkHook allocations and the number of graphs alive
    lease,      \* the IdleLease of each hook
    ds,         \* each channel's link datastore: a hook, or 0
    removed,    \* hooks whose datastore left its channel, destroy not yet run
    fds,        \* timer descriptors registered with channels
    chan,       \* Asterisk's view of each channel
    rate,       \* negotiated rate of each channel
    strays,     \* hooks the last committed reload may have missed (history)
    linkBudget      \* operations and rate changes still allowed

linkVars == <<life, driver, running, stop, scan, bind, control, relink, config,
              candidate, heap, lease, ds, removed, fds, chan, rate,
              strays, linkBudget>>

astVars == <<lease, ds, removed, fds, chan>>
lifeVars == <<life, driver, running, stop, scan>>
cfgVars == <<config, candidate, linkBudget, rate>>

----------------------------------------------------------------------------
(* Hooks and graphs *)

NoGraph == [desc |-> 0, rate |-> 0, profile |-> NoProfile]

Unused == [refs |-> 0, att |-> "unused", active |-> NoGraph, staged |-> NoGraph,
           stagedRate |-> 0, clock |-> 0, pending |-> FALSE, bound |-> FALSE,
           profile |-> NoProfile, listed |-> FALSE]

\* LinkHook::new with the references that install stores before publication.
NewHook(profile, hz, graph, mode) ==
    [Unused EXCEPT !.refs = 2, !.att = "building",
                   !.active = IF mode = "staged" THEN NoGraph ELSE graph,
                   !.staged = IF mode = "staged" THEN graph ELSE NoGraph,
                   !.stagedRate = hz, !.clock = hz,
                   !.pending = (mode = "staged"), !.bound = (mode = "bound"),
                   !.profile = profile]

Prepared(hp) == [hp EXCEPT !.graphs = @ + 1]

Destroyed(hp, graph) ==
    IF graph = NoGraph THEN hp ELSE [hp EXCEPT !.graphs = @ - 1]

Retain(hp, h) == [hp EXCEPT !.hook[h].refs = @ + 1]

\* LinkHook::release: the last owner detaches a hook that is still attached
\* and destroys both graphs with it.
Release(hp, h) ==
    LET k == hp.hook[h]
    IN  IF k.refs # 1
        THEN [hp EXCEPT !.hook[h].refs = @ - 1]
        ELSE Destroyed(Destroyed(
                [hp EXCEPT !.hook[h] =
                    [Unused EXCEPT !.att = "freed",
                                   !.listed = k.listed /\ k.att # "attached"]],
                k.active), k.staged)

\* link_datastore_destroy
DatastoreDestroy(hp, h) ==
    Release([hp EXCEPT !.hook[h].att = "detached",
                       !.hook[h].listed = @ /\ hp.hook[h].att # "attached"], h)

----------------------------------------------------------------------------
(* Idle leases *)

NoLease == [on |-> FALSE, chan |-> NoChannel, moving |-> NoChannel,
            detaching |-> FALSE, asked |-> FALSE, slot |-> FALSE]

\* IdleLease::detach: framehook_detach finds the lease only on its channel.
LeaseDetach(l, c) ==
    [l EXCEPT !.detaching = TRUE, !.asked = @ \/ l.chan = c]

\* idle_event DETACHED, then idle_destroy: unregister, close the timer, drop
\* the lease's hook reference.
LeaseFds(S, h) ==
    S \ (IF lease[h].slot
         THEN {<<lease[h].chan, h>>, <<lease[h].moving, h>>} ELSE {})

LeaseEnds(h) ==
    /\ lease' = [lease EXCEPT ![h] = NoLease]
    /\ fds' = LeaseFds(fds, h)
    /\ heap' = Release(heap, h)

\* detach_channel up to the unlock: the datastore's current lease is asked to
\* detach and the datastore leaves the channel.
LeaseAsked(c) ==
    IF ds[c] # 0 /\ lease[ds[c]].on
    THEN [lease EXCEPT ![ds[c]] = LeaseDetach(@, c)] ELSE lease

----------------------------------------------------------------------------
(* Control operations *)

Free == [by |-> "none", todo |-> {}, at |-> NoChannel, pc |-> "visit",
         hook |-> 0, graph |-> NoGraph, hz |-> 0, want |-> NoProfile]

Up == {c \in LinkChannels : chan[c] = "up"}

LinkOperation(by, channels, want) ==
    [Free EXCEPT !.by = by, !.todo = channels, !.want = want]

\* The next channel of visit_channels, or the end of a binding.
NextVisit(c) ==
    IF c.by = "bind" THEN [LinkOperation("bind", {}, c.want) EXCEPT !.pc = "end"]
    ELSE LinkOperation(c.by, c.todo, c.want)

\* An error ends a reload and a binding; the scanner goes to the next channel.
Failed(c) ==
    IF c.by = "reload"
    THEN [LinkOperation("reload", {}, c.want) EXCEPT !.pc = "finish"]
    ELSE NextVisit(c)

Mode(by) == CASE by = "scan" -> "active" [] by = "reload" -> "staged"
              [] by = "bind" -> "bound"

GraphFor_Published(by, profile, hz) ==
    [desc |-> config[profile], rate |-> hz, profile |-> profile]

\* link_prepare reads the published configuration, link_prepare_reload the
\* staged one (prepare_link).
GraphFor(by, profile, hz) ==
    [desc |-> IF by = "reload" THEN candidate[profile] ELSE config[profile],
     rate |-> hz, profile |-> profile]

\* LinkHost::snapshot and the decision its caller takes on it: a found hook is
\* retained, a missing one is built where the operation may build it.
Snapshot(c) ==
    LET h == ds[c]
        step == [control EXCEPT !.todo = @ \ {c}, !.at = c, !.hz = rate[c]]
        found == [scan |-> "missing", reload |-> "compare",
                  bind |-> "bound"]
        uses == control.by # "scan" \/ c \in Eligible
        builds == \/ control.by = "bind"
                  \/ /\ control.by \in {"scan", "reload"} /\ control.want # NoProfile
                     /\ c \in Eligible
    IN  IF h # 0 /\ uses
        THEN /\ control' = [step EXCEPT !.hook = h, !.pc = found[control.by]]
             /\ heap' = Retain(heap, h)
        ELSE /\ control' = IF h = 0 /\ builds THEN [step EXCEPT !.pc = "build"]
                                          ELSE NextVisit(step)
             /\ heap' = heap

Visit ==
    /\ control.by \in {"scan", "reload", "bind"} /\ control.pc = "visit"
    /\ \E c \in control.todo :
          IF chan[c] = "up" \/ control.by = "bind"
          THEN Snapshot(c)
          ELSE control' = [control EXCEPT !.todo = @ \ {c}] /\ heap' = heap
    /\ UNCHANGED <<lifeVars, astVars, cfgVars, bind, relink, strays>>

\* prepare_active_if_missing up to the call of link_prepare.
PrepareMissing ==
    /\ control.pc = "missing"
    /\ LET k == heap.hook[control.hook]
           profile == IF k.bound THEN k.profile ELSE control.want
       IN  \/ /\ k.att = "attached" /\ k.active = NoGraph /\ ~k.pending
              /\ control' = [control EXCEPT !.pc = "publish",
                                    !.graph = GraphFor("scan", profile, control.hz)]
              /\ heap' = Prepared(heap)
           \/ /\ heap' = Release(heap, control.hook)
              /\ control' = NextVisit(control)
    /\ UNCHANGED <<lifeVars, astVars, cfgVars, bind, relink, strays>>

\* ... and its critical section: a hook torn down meanwhile gets no graph.
PublishMissing ==
    /\ control.pc = "publish"
    /\ LET h == control.hook
           set == [heap EXCEPT !.hook[h].active = control.graph,
                               !.hook[h].clock = control.hz]
       IN  heap' = Release(IF heap.hook[h].att = "attached" THEN set
                           ELSE Destroyed(heap, control.graph), h)
    /\ control' = NextVisit(control)
    /\ UNCHANGED <<lifeVars, astVars, cfgVars, bind, relink, strays>>

\* prepare_reload, first critical section (link_reload_unchanged).
Compare ==
    /\ control.pc = "compare"
    /\ LET h == control.hook
           k == heap.hook[h]
           same == /\ k.active # NoGraph /\ k.active.rate = control.hz
                   /\ k.active.desc = candidate[k.profile]
       IN  \/ /\ ~k.pending /\ same
              /\ heap' = Release(heap, h) /\ control' = NextVisit(control)
           \/ /\ ~k.pending /\ ~same
              /\ control' = [control EXCEPT !.pc = "stage"] /\ heap' = heap
           \/ heap' = Release(heap, h) /\ control' = Failed(control)
    /\ UNCHANGED <<lifeVars, astVars, cfgVars, bind, relink, strays>>

\* prepare_reload, the candidate and the second critical section; stage_channel
\* keeps the retained hook in the transaction.
Stage ==
    /\ control.pc = "stage"
    /\ LET h == control.hook
           profile == heap.hook[h].profile
       IN  \/ /\ heap' = Prepared([heap EXCEPT
                     !.hook[h].pending = TRUE,
                     !.hook[h].staged = GraphFor("reload", profile, control.hz),
                     !.hook[h].stagedRate = control.hz])
              /\ relink' = [relink EXCEPT !.hooks = @ \cup {h}]
              /\ control' = NextVisit(control)
           \/ heap' = Release(heap, h) /\ control' = Failed(control) /\ relink' = relink
    /\ UNCHANGED <<lifeVars, astVars, cfgVars, bind, strays>>

\* bind_channel on a channel that has a hook.
BindFound ==
    /\ control.pc = "bound"
    /\ LET h == control.hook
           k == heap.hook[h]
       IN  heap' = Release(
              [heap EXCEPT !.hook[h].bound =
                  @ \/ (k.profile = control.want /\ k.att = "attached")], h)
    /\ control' = NextVisit(control)
    /\ UNCHANGED <<lifeVars, astVars, cfgVars, bind, relink, strays>>

----------------------------------------------------------------------------
(* LinkHost::install *)

\* Up to datastore_alloc: everything is local, and every failure gives the
\* graph and the allocation back.
BuildHook ==
    /\ control.pc = "build"
    /\ \/ \E h \in HookIds :
             /\ heap.hook[h].att = "unused"
             /\ \A i \in HookIds : i < h => heap.hook[i].att # "unused"
             /\ heap' = Prepared([heap EXCEPT !.hook[h] =
                   NewHook(control.want, control.hz,
                           GraphFor(control.by, control.want, control.hz), Mode(control.by))])
             /\ control' = [control EXCEPT !.hook = h, !.pc = "add"]
       \/ control' = Failed(control) /\ heap' = heap
    /\ UNCHANGED <<lifeVars, astVars, cfgVars, bind, relink, strays>>

\* Duplicate detection and publication under the channel lock.
AddDatastore ==
    /\ control.pc = "add"
    /\ IF ds[control.at] = 0
       THEN /\ ds' = [ds EXCEPT ![control.at] = control.hook]
            /\ control' = [control EXCEPT !.pc = "attach"] /\ heap' = heap
       ELSE /\ heap' = Release(DatastoreDestroy(heap, control.hook), control.hook)
            /\ control' = NextVisit(control) /\ ds' = ds
    /\ UNCHANGED <<lifeVars, cfgVars, bind, relink, strays,
                   lease, removed, fds, chan>>

\* audiohook_attach; on failure the datastore is taken back if it is still here.
AttachAudiohook ==
    /\ control.pc = "attach"
    /\ LET h == control.hook
           here == ds[control.at] = h
       IN  \/ /\ heap' = [heap EXCEPT !.hook[h].listed = TRUE]
              /\ control' = [control EXCEPT !.pc = "cas"] /\ ds' = ds
           \/ /\ heap' = Release(IF here THEN DatastoreDestroy(heap, h)
                                 ELSE heap, h)
              /\ ds' = IF here THEN [ds EXCEPT ![control.at] = 0] ELSE ds
              /\ control' = Failed(control)
    /\ UNCHANGED <<lifeVars, cfgVars, bind, relink, strays,
                   lease, removed, fds, chan>>

\* The exchange from BUILDING to ATTACHED, lost to a concurrent teardown: the
\* audiohook that was just attached is detached again.
Balanced_KeepsListed(hp, h) == hp
Balanced(hp, h) == [hp EXCEPT !.hook[h].listed = FALSE]

PublishAttached ==
    /\ control.pc = "cas"
    /\ LET h == control.hook
       IN  IF heap.hook[h].att = "building"
           THEN /\ heap' = [heap EXCEPT !.hook[h].att = "attached"]
                /\ control' = [control EXCEPT !.pc = "lease"]
           ELSE /\ heap' = Release(Balanced(heap, h), h)
                /\ control' = Failed(control)
    /\ UNCHANGED <<lifeVars, astVars, cfgVars, bind, relink, strays>>

\* IdleLease::install: the timer's slot and the framehook are published
\* together under the channel lock, or not at all.
InstallLease ==
    /\ control.pc = "lease"
    /\ LET h == control.hook
       IN  \/ /\ heap.hook[h].att = "attached"
              /\ lease' = [lease EXCEPT ![h] =
                    [NoLease EXCEPT !.on = TRUE, !.chan = control.at, !.slot = TRUE]]
              /\ fds' = fds \cup {<<control.at, h>>}
              /\ heap' = Retain(heap, h)
              /\ control' = [control EXCEPT !.pc = "done"]
           \/ /\ control' = [control EXCEPT !.pc = "unwind"]
              /\ UNCHANGED <<lease, fds, heap>>
    /\ UNCHANGED <<lifeVars, cfgVars, bind, relink, strays,
                   ds, removed, chan>>

\* A failed lease: detach_channel, then the builder's reference.
Unwind ==
    /\ control.pc = "unwind"
    /\ LET here == ds[control.at]
       IN  heap' = Release(IF here # 0 THEN DatastoreDestroy(heap, here)
                           ELSE heap, control.hook)
    /\ lease' = LeaseAsked(control.at)
    /\ ds' = [ds EXCEPT ![control.at] = 0]
    /\ control' = Failed(control)
    /\ UNCHANGED <<lifeVars, cfgVars, bind, relink, strays,
                   removed, fds, chan>>

\* The builder's reference is dropped, or kept by the reload transaction.
Installed ==
    /\ control.pc = "done"
    /\ IF control.by = "reload"
       THEN relink' = [relink EXCEPT !.hooks = @ \cup {control.hook}] /\ heap' = heap
       ELSE relink' = relink /\ heap' = Release(heap, control.hook)
    /\ control' = NextVisit(control)
    /\ UNCHANGED <<lifeVars, astVars, cfgVars, bind, strays>>

----------------------------------------------------------------------------
(* The scanner thread *)

\* scan_loop: the stop flag, then the profile, which waits for a reload to give
\* the live-channel lock back.
ScanResolve ==
    /\ scan = "idle"
    /\ IF stop THEN scan' = "exit"
       ELSE relink.pc = "idle" /\ scan' \in Profiles \cup {NoProfile}
    /\ UNCHANGED <<life, driver, running, stop, bind, control, relink, cfgVars, heap,
                   astVars, strays>>

\* The stop flag again under LINK_CONTROL, then scan_all; no profile and a
\* failed iterator visit nothing.
ScanStart ==
    /\ scan \in Profiles \cup {NoProfile} /\ control.by = "none"
    /\ IF stop \/ scan = NoProfile THEN scan' = "idle" /\ control' = control
       ELSE control' = LinkOperation("scan", Up, scan) /\ scan' = "busy"
    /\ UNCHANGED <<life, driver, running, stop, bind, relink, cfgVars, heap,
                   astVars, strays>>

ScanEnd ==
    /\ control.by = "scan" /\ control.pc = "visit" /\ control.todo = {}
    /\ bind # "locked"
    /\ control' = Free /\ scan' = "idle"
    /\ UNCHANGED <<life, driver, running, stop, bind, relink, cfgVars, heap,
                   astVars, strays>>

----------------------------------------------------------------------------
(* Reload *)

NoReload == [pc |-> "idle", hooks |-> {}, commit |-> FALSE, moved |-> {}]

\* ReloadCoordinator: the live-channel lock is held from here to the end, and
\* driver_prepare stages a generation.
ReloadGate ==
    /\ relink.pc = "idle" /\ life = "loaded" /\ linkBudget.reloads > 0
    /\ linkBudget' = [linkBudget EXCEPT !.reloads = @ - 1]
    /\ candidate' \in [Profiles -> Descriptions]
    /\ relink' = [relink EXCEPT !.pc = "gated"]
    /\ UNCHANGED <<lifeVars, bind, control, config, rate, heap, astVars, strays>>

\* link_prepare / reload_prepare: LINK_CONTROL is held until the transaction
\* is finished or dropped.  A channel_prepare that fails, or a host that has
\* stopped, ends the reload before it.
ReloadStage ==
    /\ relink.pc = "gated"
    /\ \/ /\ running /\ control.by = "none"
          /\ \E first \in Profiles \cup {NoProfile} :
                control' = LinkOperation("reload", Up, first)
          /\ relink' = [relink EXCEPT !.pc = "staging"] /\ candidate' = candidate
       \/ /\ relink' = [relink EXCEPT !.pc = "idle"]
          /\ candidate' = config /\ control' = control
    /\ UNCHANGED <<lifeVars, bind, config, linkBudget, rate, heap, astVars, strays>>

\* stage_all is complete; channel_activate and driver_finish decide.
ReloadDecide ==
    /\ control.by = "reload" /\ control.pc = "visit" /\ control.todo = {}
    /\ bind # "locked"
    /\ control' = [control EXCEPT !.pc = "finish"]
    /\ \/ /\ relink' = [relink EXCEPT !.commit = TRUE] /\ config' = candidate
          /\ strays' = relink.moved
       \/ UNCHANGED <<relink, config, strays>>
    /\ UNCHANGED <<lifeVars, bind, candidate, linkBudget, rate, heap, astVars>>

Taken(hp, h) ==
    [hp EXCEPT !.hook[h].pending = FALSE, !.hook[h].staged = NoGraph]

Adopted(hp, h) ==
    [Taken(hp, h) EXCEPT !.hook[h].active = hp.hook[h].staged,
                         !.hook[h].clock = hp.hook[h].stagedRate]

\* LinkReload::finish_inner for one hook, and the reference it drains.
FinishHook ==
    /\ control.by = "reload" /\ control.pc = "finish"
    /\ \E h \in relink.hooks :
          LET k == heap.hook[h]
              adopts == relink.commit /\ k.att = "attached"
          IN  /\ heap' = Release(
                    IF adopts THEN Destroyed(Adopted(heap, h), k.active)
                    ELSE Destroyed(Taken(heap, h), k.staged), h)
              /\ relink' = [relink EXCEPT !.hooks = @ \ {h}]
    /\ UNCHANGED <<lifeVars, bind, control, cfgVars, astVars, strays>>

\* LINK_CONTROL is released, and after channel_finish the gate reopens.
ReloadEnd ==
    /\ control.by = "reload" /\ control.pc = "finish" /\ relink.hooks = {}
    /\ control' = Free
    /\ relink' = NoReload
    /\ candidate' = config
    /\ UNCHANGED <<lifeVars, bind, config, linkBudget, rate, heap, astVars, strays>>

----------------------------------------------------------------------------
(* Explicit binding and statistics *)

\* setoption is called with the radio channel locked; the lock is given back
\* while the binding waits for LINK_CONTROL.
BindCall ==
    /\ bind = "idle" /\ life = "loaded" /\ linkBudget.binds > 0
    /\ bind' = "locked" /\ linkBudget' = [linkBudget EXCEPT !.binds = @ - 1]
    /\ UNCHANGED <<lifeVars, control, relink, config, candidate, rate, heap, astVars,
                   strays>>

BindUnlock ==
    /\ bind = "locked" /\ bind' = "waiting"
    /\ UNCHANGED <<lifeVars, control, relink, cfgVars, heap, astVars, strays>>

\* bind_peer: the running host is read under LINK_CONTROL.
BindPeer ==
    /\ bind = "waiting" /\ control.by = "none"
    /\ \/ /\ running
          /\ \E c \in Up, profile \in Profiles :
                control' = LinkOperation("bind", {c}, profile)
          /\ bind' = bind
       \/ ~running /\ bind' = "idle" /\ control' = control
    /\ UNCHANGED <<lifeVars, relink, cfgVars, heap, astVars, strays>>

BindEnd ==
    /\ control.by = "bind" /\ control.pc = "end"
    /\ control' = Free /\ bind' = "idle"
    /\ UNCHANGED <<lifeVars, relink, cfgVars, heap, astVars, strays>>

\* statistics: observe_channel retains the hook and reads its counters under
\* the audiohook lock; each channel is taken as an operation of its own.
Statistics ==
    /\ control.by = "none" /\ running
    /\ \E c \in Up :
          /\ ds[c] # 0
          /\ control' = [LinkOperation("stats", {}, NoProfile) EXCEPT
                        !.hook = ds[c], !.pc = "observe"]
          /\ heap' = Retain(heap, ds[c])
    /\ UNCHANGED <<lifeVars, bind, relink, cfgVars, astVars, strays>>

Observe ==
    /\ control.pc = "observe"
    /\ heap' = Release(heap, control.hook) /\ control' = Free
    /\ UNCHANGED <<lifeVars, astVars, cfgVars, bind, relink, strays>>

----------------------------------------------------------------------------
(* LifecycleCoordinator *)

\* create_driver; the providers were validated before.  (One that fails leaves
\* nothing behind.)
LoadDriver ==
    /\ life = "unloaded" /\ linkBudget.loads > 0
    /\ linkBudget' = [linkBudget EXCEPT !.loads = @ - 1]
    /\ driver' = TRUE /\ life' = "created"
    /\ UNCHANGED <<running, stop, scan, bind, control, relink, config, candidate, rate,
                   heap, astVars, strays>>

\* register_cli and start_links, or the unwinding of what precedes the failure.
LoadLinks ==
    /\ life = "created"
    /\ \/ /\ ~running
          /\ life' = "links" /\ running' = TRUE /\ stop' = FALSE /\ scan' = "idle"
          /\ driver' = driver
       \/ life' = "unloaded" /\ driver' = FALSE /\ UNCHANGED <<running, stop, scan>>
    /\ UNCHANGED <<bind, control, relink, cfgVars, heap, astVars, strays>>

\* register_channels; a failure stops the links again.
LoadChannels ==
    /\ life = "links"
    /\ life' \in {"loaded", "unregistered"}
    /\ UNCHANGED <<driver, running, stop, scan, bind, control, relink, cfgVars, heap,
                   astVars, strays>>

\* unregister_channels needs the live-channel lock and refuses active channels.
Unload ==
    /\ life = "loaded" /\ relink.pc = "idle" /\ linkBudget.unloads > 0
    /\ life' = "unregistered" /\ linkBudget' = [linkBudget EXCEPT !.unloads = @ - 1]
    /\ UNCHANGED <<driver, running, stop, scan, bind, control, relink, config, candidate,
                   rate, heap, astVars, strays>>

\* stop: the host is taken, the scanner told and joined.
StopLinks ==
    /\ life = "unregistered"
    /\ life' = "joining" /\ running' = FALSE /\ stop' = TRUE
    /\ UNCHANGED <<driver, scan, bind, control, relink, cfgVars, heap, astVars, strays>>

\* LINK_CONTROL once the scanner has ended, for detach_all.
StopControl ==
    /\ life = "joining" /\ scan = "exit" /\ control.by = "none"
    /\ control' = LinkOperation("stop", Up, NoProfile)
    /\ scan' = "off" /\ life' = "detaching"
    /\ UNCHANGED <<driver, running, stop, bind, relink, cfgVars, heap, astVars,
                   strays>>

\* detach_channel of the next channel, up to the unlock ...
DetachChannel ==
    /\ control.by = "stop" /\ control.pc = "visit"
    /\ \E c \in control.todo :
          /\ lease' = LeaseAsked(c)
          /\ ds' = [ds EXCEPT ![c] = 0]
          /\ control' = [control EXCEPT !.todo = @ \ {c}, !.hook = ds[c],
                                !.pc = IF ds[c] = 0 THEN "visit" ELSE "free"]
    /\ UNCHANGED <<lifeVars, bind, relink, cfgVars, heap, removed, fds, chan,
                   strays>>

\* ... and datastore_free after it.
DetachFree ==
    /\ control.pc = "free"
    /\ heap' = DatastoreDestroy(heap, control.hook)
    /\ control' = NextVisit(control)
    /\ UNCHANGED <<lifeVars, bind, relink, cfgVars, astVars, strays>>

\* detach_all is complete: unregister_cli and destroy_driver.
DestroyDriver ==
    /\ control.by = "stop" /\ control.pc = "visit" /\ control.todo = {}
    /\ bind # "locked"
    /\ control' = Free /\ life' = "unloaded" /\ driver' = FALSE
    /\ UNCHANGED <<running, stop, scan, bind, relink, cfgVars, heap, astVars,
                   strays>>

----------------------------------------------------------------------------
(* Asterisk *)

\* A rate is read once, by an operation's snapshot of the channel, so a change
\* during an operation is one that came before it.
Renegotiated ==
    /\ control.by = "none" /\ linkBudget.rates > 0 /\ linkBudget' = [linkBudget EXCEPT !.rates = @ - 1]
    /\ \E c \in Up : \E hz \in Rates \ {rate[c]} : rate' = [rate EXCEPT ![c] = hz]
    /\ UNCHANGED <<lifeVars, bind, control, relink, config, candidate, heap, astVars,
                   strays>>

Hangup ==
    /\ \E c \in Up : chan' = [chan EXCEPT ![c] = "ending"]
    /\ UNCHANGED <<lifeVars, bind, control, relink, cfgVars, heap, lease, ds, removed,
                   fds, strays>>

\* The datastore leaves a channel that ends, and is freed afterwards.
DatastoreLeaves ==
    /\ \E c \in LinkChannels :
          /\ chan[c] = "ending" /\ ds[c] # 0
          /\ removed' = removed \cup {ds[c]} /\ ds' = [ds EXCEPT ![c] = 0]
    /\ UNCHANGED <<lifeVars, bind, control, relink, cfgVars, heap, lease, fds, chan,
                   strays>>

DatastoreFreed ==
    /\ \E h \in removed :
          heap' = DatastoreDestroy(heap, h) /\ removed' = removed \ {h}
    /\ UNCHANGED <<lifeVars, bind, control, relink, cfgVars, lease, ds, fds, chan,
                   strays>>

\* A framehook ends when its detachment is serviced, or with its channel.
FramehookEnds ==
    /\ \E h \in HookIds :
          /\ lease[h].on /\ (lease[h].asked \/ chan[lease[h].chan] = "ending")
          /\ LeaseEnds(h)
    /\ UNCHANGED <<lifeVars, bind, control, relink, cfgVars, ds, removed, chan,
                   strays>>

\* idle_event READ on the selected timer: a failed acknowledgement or rate
\* change, or a hook whose datastore is gone, asks for detachment.
IdleRead ==
    /\ \E h \in HookIds :
          LET l == lease[h]
          IN  /\ l.on /\ l.slot /\ ~l.detaching /\ chan[l.chan] = "up"
              /\ <<l.chan, h>> \in fds
              /\ lease' = [lease EXCEPT ![h] = LeaseDetach(l, l.chan)]
    /\ UNCHANGED <<lifeVars, bind, control, relink, cfgVars, heap, ds, removed, fds,
                   chan, strays>>

\* The lease that moves from one channel to another (idle_fixup): Asterisk's
\* new framehook does not carry the old one's pending detachment, and only
\* the copied slot stays.  A lease that could not be copied leaves neither.
Moved(l, to) ==
    [l EXCEPT !.chan = to, !.moving = NoChannel, !.asked = l.detaching]

MovedFds(slots, movers, copied, from) ==
    {p \in slots : p[2] \in movers => copied /\ p[1] # from}

\* The lease of the channel that receives another (idle_breakdown).
Received(l, ok) ==
    [l EXCEPT !.slot = IF l.detaching THEN @ ELSE ok,
              !.asked = l.detaching \/ ~ok,
              !.detaching = @ \/ ~ok]

\* A masquerade under both channel locks: link_datastore_fixup, the copy of
\* every descriptor slot, then the framehooks.  The framehook that cannot be
\* copied gets DETACHED on its old channel.
Masquerade ==
    /\ \E from, to \in Up, copied, added \in BOOLEAN :
          LET movers == {h \in HookIds : lease[h].on /\ lease[h].chan = from}
              hosts == {h \in HookIds : lease[h].on /\ lease[h].chan = to}
              copies == {<<to, h>> : h \in {i \in HookIds : <<from, i>> \in fds}}
              slots == {p \in fds : p[1] # to} \cup copies
              kept == {<<to, h>> : h \in {i \in hosts : ~lease[i].detaching /\ added}}
          IN  /\ from # to /\ (ds[from] = 0 \/ ds[to] = 0)
              /\ movers # {} \/ copied
              /\ hosts # {} \/ added
              /\ Cardinality(movers) <= 1
              /\ ds' = [ds EXCEPT ![from] = 0,
                                  ![to] = IF ds[from] # 0 THEN ds[from] ELSE @]
              /\ lease' = [h \in HookIds |->
                    CASE h \in movers -> IF copied THEN Moved(lease[h], to)
                                         ELSE NoLease
                      [] h \in hosts -> Received(lease[h], added)
                      [] h = ds[from] /\ lease[h].on /\ h \notin movers ->
                            [lease[h] EXCEPT !.moving = to]
                      [] OTHER -> lease[h]]
              /\ fds' = MovedFds(slots \cup kept, movers, copied, from)
              /\ heap' = IF copied THEN heap
                         ELSE Release(heap, CHOOSE h \in movers : TRUE)
              /\ chan' = [chan EXCEPT ![from] = "ending"]
              /\ relink' = IF relink.pc = "staging" /\ ~relink.commit
                           THEN [relink EXCEPT !.moved = @ \cup ({ds[from]} \ {0})]
                           ELSE relink
    /\ UNCHANGED <<lifeVars, bind, control, cfgVars, removed, strays>>

----------------------------------------------------------------------------

LinkInit ==
    /\ life = "unloaded" /\ driver = FALSE /\ running = FALSE /\ stop = FALSE
    /\ scan = "off" /\ bind = "idle" /\ control = Free
    /\ relink = NoReload
    /\ \E d \in Descriptions :
          /\ \A x \in Descriptions : d <= x
          /\ config = [p \in Profiles |-> d] /\ candidate = config
    /\ heap = [hook |-> [h \in HookIds |-> Unused], graphs |-> 0]
    /\ lease = [h \in HookIds |-> NoLease]
    /\ ds = [c \in LinkChannels |-> 0] /\ removed = {} /\ fds = {}
    /\ chan = [c \in LinkChannels |-> "up"]
    /\ rate = [c \in LinkChannels |-> CHOOSE x \in Rates : \A y \in Rates : x <= y]
    /\ strays = {}
    /\ linkBudget \in LinkBudgets

Install ==
    BuildHook \/ AddDatastore \/ AttachAudiohook \/ PublishAttached \/ InstallLease
    \/ Unwind \/ Installed

ControlStep ==
    Visit \/ PrepareMissing \/ PublishMissing \/ Compare \/ Stage \/ BindFound
    \/ Observe \/ Install \/ ScanEnd \/ ReloadDecide \/ FinishHook \/ ReloadEnd
    \/ BindEnd \/ DetachChannel \/ DetachFree \/ DestroyDriver

LifeStep == LoadLinks \/ LoadChannels \/ StopLinks

AsteriskCleans == DatastoreLeaves \/ DatastoreFreed \/ FramehookEnds

LinkNext ==
    \/ ControlStep \/ LifeStep \/ StopControl \/ AsteriskCleans
    \/ ScanResolve \/ ScanStart \/ ReloadGate \/ ReloadStage
    \/ BindCall \/ BindUnlock \/ BindPeer \/ Statistics
    \/ LoadDriver \/ Unload
    \/ Renegotiated \/ Hangup
    \/ IdleRead \/ Masquerade

LinkSpec == LinkInit /\ [][LinkNext]_linkVars

----------------------------------------------------------------------------
(* Properties *)

Count(P) == IF P THEN 1 ELSE 0

\* The owners of a hook: the operation in progress, its unpublished or removed
\* datastore, a channel's datastore, the reload transaction, the idle lease.
Owners(h) ==
    Count(control.hook = h) + Count(control.hook = h /\ control.pc = "add")
    + Count(h \in removed) + Cardinality({c \in LinkChannels : ds[c] = h})
    + Count(h \in relink.hooks) + Count(lease[h].on)

OwnedGraphs ==
    Cardinality({h \in HookIds : heap.hook[h].active # NoGraph})
    + Cardinality({h \in HookIds : heap.hook[h].staged # NoGraph})
    + Count(control.graph # NoGraph)

\* However Asterisk's teardown, a masquerade or an unload falls between the
\* steps of an installation or a relink, a hook lives exactly as long as it
\* has owners, Asterisk never keeps a freed hook in a channel's audiohook
\* list, a graph has exactly one owner, and no operation runs on a driver
\* that lifecycle has destroyed.
LinkOwnership ==
    /\ \A h \in HookIds :
          /\ heap.hook[h].refs = Owners(h)
          /\ heap.hook[h].refs = 0 => ~heap.hook[h].listed
    /\ heap.graphs = OwnedGraphs
    /\ control.by # "none" => driver

\* The idle lease keeps track of its channel through masquerades, failed
\* copies, failed registrations and detachments.  A channel polls a timer's
\* descriptor only while that timer's lease is published on this very
\* channel, so none keeps the slot of a timer that is closed or moved away;
\* and the lease of a hook that was torn down is always going to end, because
\* its detachment is asked for where it is, its channel ends, or its next
\* timer event will notice.
LeaseTracksChannel ==
    /\ \A s \in fds : lease[s[2]].on /\ lease[s[2]].slot /\ lease[s[2]].chan = s[1]
    /\ \A h \in HookIds :
          LET l == lease[h]
          IN  (l.on /\ heap.hook[h].att = "detached") =>
              \/ l.asked \/ chan[l.chan] = "ending"
              \/ l.slot /\ ~l.detaching /\ <<l.chan, h>> \in fds

\* Hooks, graphs and timers end with their owners, and not before.
LinkLifetimes == LinkOwnership /\ LeaseTracksChannel

\* Between reloads every attached link runs a graph of the published
\* configuration, at the rate its idle clock advances silence with: a reload
\* reaches all the links or none, and links that the scanner or a binding
\* installs around it are not left behind.  A hook that Asterisk takes off
\* its channel, or that changed channel while the last reload was visiting
\* them, is outside the transaction.
LinksFollowReload ==
    \A h \in HookIds :
        LET k == heap.hook[h]
        IN  k.att = "attached" /\ k.active # NoGraph =>
            /\ k.clock = k.active.rate
            /\ (relink.pc = "idle" /\ h \notin strays /\ \E c \in Up : ds[c] = h)
               => k.active.desc \in {config[k.profile], config[k.active.profile]}
============================================================================
