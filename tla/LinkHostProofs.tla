--------------------------- MODULE LinkHostProofs ---------------------------
(***************************************************************************)
(* Proofs about LinkHost for any link channels, any finite number of       *)
(* hooks, every set of profiles, descriptions and rates, any number of     *)
(* operations and any of Asterisk's own: hangups, masquerades, teardown.   *)
(*                                                                         *)
(* LinkInv says, at each point of each operation, who owns a hook (channel *)
(* datastores, those Asterisk has taken off, leases, the operation at hand *)
(* and the reload) and which graphs are held: LinkLifetimes follows.       *)
(* FollowInv and VisitedInv add what a hook runs.  Between its decision    *)
(* and the last hook it settles a reload has published the candidate while *)
(* hooks still run the old description, so a hook follows the              *)
(* configuration or is among those to be settled, and that no hook is      *)
(* forgotten is what the reload has already visited when it decides.       *)
(***************************************************************************)
EXTENDS LinkHost, FiniteSetTheorems, TLAPS

-----------------------------------------------------------------------------
(* LinkInv and LinkLifetimes *)

\* What the invariant says of types.
LinkHz == Rates \cup {0, CHOOSE x \in Rates : \A y \in Rates : x <= y}

Graphs == [desc : Descriptions, rate : LinkHz, profile : Profiles] \cup {NoGraph}

Hooks ==
    [refs : Int, att : {"unused", "building", "attached", "detached", "freed"},
     active : Graphs, staged : Graphs, stagedRate : LinkHz, clock : LinkHz,
     pending : BOOLEAN, bound : BOOLEAN, profile : Profiles \cup {NoProfile},
     listed : BOOLEAN]

Heaps == [hook : [HookIds -> Hooks], graphs : Int]

Leases ==
    [on : BOOLEAN, chan : LinkChannels \cup {NoChannel},
     moving : LinkChannels \cup {NoChannel}, detaching : BOOLEAN, asked : BOOLEAN,
     slot : BOOLEAN]

InstallPcs == {"add", "attach", "cas", "lease", "unwind", "done"}

HookPcs == {"missing", "publish", "compare", "stage", "bound", "observe", "free"}
           \cup InstallPcs

Pcs == {"visit", "build", "end", "finish"} \cup HookPcs

Controls ==
    [by : {"none", "scan", "reload", "bind", "stats", "stop"},
     todo : SUBSET LinkChannels, at : LinkChannels \cup {NoChannel},
     pc : Pcs,
     hook : HookIds \cup {0}, graph : Graphs, hz : LinkHz,
     want : Profiles \cup {NoProfile}]

LinkTypes ==
    /\ life \in {"unloaded", "created", "links", "loaded", "unregistered", "joining",
                 "detaching"}
    /\ driver \in BOOLEAN /\ running \in BOOLEAN /\ stop \in BOOLEAN
    /\ scan \in {"off", "idle", "busy", "exit"} \cup Profiles \cup {NoProfile}
    /\ control \in Controls
    /\ relink \in [pc : {"idle", "gated", "staging"}, hooks : SUBSET HookIds,
                   commit : BOOLEAN, moved : SUBSET HookIds]
    /\ config \in [Profiles -> Descriptions] /\ candidate \in [Profiles -> Descriptions]
    /\ heap \in Heaps
    /\ lease \in [HookIds -> Leases]
    /\ ds \in [LinkChannels -> HookIds \cup {0}]
    /\ removed \in SUBSET HookIds
    /\ fds \in SUBSET (LinkChannels \X HookIds)
    /\ chan \in [LinkChannels -> {"up", "ending"}]
    /\ rate \in [LinkChannels -> LinkHz]
    /\ strays \in SUBSET HookIds

\* Which places an operation can be at, and what it carries there.
Placed(c) ==
    /\ c.by = "none" => c.pc = "visit"
    /\ c.by = "stats" => c.pc = "observe"
    /\ c.by = "stop" => c.pc \in {"visit", "free"}
    /\ c.pc \in {"missing", "publish"} => c.by = "scan"
    /\ c.pc \in {"compare", "stage", "finish"} => c.by = "reload"
    /\ c.pc \in {"bound", "end"} => c.by = "bind"
    /\ c.pc = "observe" => c.by = "stats"
    /\ c.pc = "free" => c.by = "stop"
    /\ c.pc \in {"build"} \cup InstallPcs =>
          c.by \in {"scan", "reload", "bind"} /\ c.want \in Profiles
    /\ c.by \in {"scan", "bind"} => c.want \in Profiles
    /\ c.pc \in HookPcs <=> c.hook # 0
    /\ c.pc \in {"build"} \cup InstallPcs => c.at \in LinkChannels
    /\ c.pc = "publish" <=> c.graph # NoGraph

ControlInv == Placed(control)

LifeInv ==
    /\ driver <=> life # "unloaded"
    /\ running <=> life \in {"links", "loaded", "unregistered"}
    /\ scan = "off" <=> life \in {"unloaded", "created", "detaching"}
    /\ scan = "busy" <=> control.by = "scan"
    /\ life \in {"unloaded", "created"} => control.by = "none"
    /\ control.by = "stop" <=> life = "detaching"
    /\ control.by = "reload" <=> relink.pc = "staging"
    /\ relink.pc # "idle" => life = "loaded"
    /\ relink.hooks # {} => relink.pc = "staging"

Bound(h) == \E c \in LinkChannels : ds[c] = h

DatastoreInv ==
    /\ \A c, d \in LinkChannels : ds[c] = ds[d] /\ ds[c] # 0 => c = d
    /\ \A h \in removed : ~Bound(h)
    /\ control.pc = "add" => ~Bound(control.hook) /\ control.hook \notin removed

OwnerCount(h) ==
    Count(control.hook = h) + Count(control.hook = h /\ control.pc = "add")
    + Count(h \in removed) + Count(Bound(h))
    + Count(h \in relink.hooks) + Count(lease[h].on)

RefInv == \A h \in HookIds : heap.hook[h].refs = OwnerCount(h)

HookInv(h) ==
    LET k == heap.hook[h]
    IN  /\ k.refs = 0 <=> k.att \in {"unused", "freed"}
        /\ k.refs = 0 => k.active = NoGraph /\ k.staged = NoGraph
        /\ k.refs # 0 => k.profile \in Profiles
        /\ k.listed => k.att = "attached" \/ (control.hook = h /\ control.pc = "cas")
        /\ k.staged # NoGraph => k.pending
        /\ h \in relink.hooks => k.pending
        /\ control.hook = h =>
              /\ control.pc = "publish" => k.active = NoGraph
              /\ control.pc = "stage" => ~k.pending
              /\ control.pc \in InstallPcs => h \notin relink.hooks
              /\ control.pc \in {"add", "attach", "cas", "lease"} => ~lease[h].on
              /\ control.pc \in InstallPcs /\ control.by = "reload" => k.pending

HooksInv == \A h \in HookIds : HookInv(h)

Held(hp) ==
    Cardinality({h \in HookIds : hp.hook[h].active # NoGraph})
    + Cardinality({h \in HookIds : hp.hook[h].staged # NoGraph})

\* The graphs of a heap that no hook holds.
Spare(hp) == hp.graphs - Held(hp)

GraphInv == Spare(heap) = Count(control.graph # NoGraph)

Ending(c) == chan[c] = "ending"

LeaseInv ==
    /\ \A s \in fds : lease[s[2]].on /\ lease[s[2]].slot /\ lease[s[2]].chan = s[1]
    /\ \A h \in HookIds :
          LET l == lease[h]
          IN  /\ l.asked => l.detaching
              /\ l.on => l.chan \in LinkChannels
              /\ l.on => \/ l.asked \/ Ending(l.chan)
                         \/ l.slot /\ ~l.detaching /\ <<l.chan, h>> \in fds
              /\ \A c \in LinkChannels :
                    l.on /\ ds[c] = h /\ c # l.chan => Ending(l.chan)
    /\ \A c \in LinkChannels :
          control.pc \in {"attach", "cas", "lease"} /\ ds[c] = control.hook /\ c # control.at
          => Ending(control.at)

\* What a step that leaves hooks, leases and datastores alone preserves.
HeldInv == DatastoreInv /\ RefInv /\ HooksInv /\ GraphInv /\ LeaseInv

LinkInv ==
    LinkTypes /\ ControlInv /\ LifeInv /\ HeldInv

\* Of the configuration.
Follows(h) ==
    LET k == heap.hook[h]
    IN  k.active.desc \in {config[k.profile], config[k.active.profile]}

Linked(h) == \E c \in Up : ds[c] = h

Runs(h) == heap.hook[h].att = "attached" /\ heap.hook[h].active # NoGraph

\* Of a hook: its clock is its graph's rate, staged or active; what a reload
\* has put on it is the candidate's; one that an installation is giving a graph
\* follows the configuration; and so does one that runs on a linked channel,
\* until the reload that has committed settles it.
FollowHook(h) ==
    LET k == heap.hook[h]
    IN  /\ k.active # NoGraph => k.clock = k.active.rate
        /\ k.staged # NoGraph => k.stagedRate = k.staged.rate
        /\ (h \in relink.hooks \/ (control.hook = h /\ control.by = "reload"
                                   /\ control.pc \in InstallPcs)) =>
           (k.staged # NoGraph => k.staged.desc = candidate[k.staged.profile])
        /\ control.hook = h /\ control.pc \in InstallPcs /\ k.active # NoGraph =>
              control.by # "reload" /\ Follows(h)
        /\ Runs(h) /\ Linked(h) /\ h \notin strays =>
              Follows(h) \/ (relink.commit /\ h \in relink.hooks)

\* What is committed is the candidate's configuration, while hooks settle.
Committing ==
    /\ relink.commit => control.pc = "finish" /\ config = candidate
    /\ relink.pc = "idle" => ~relink.commit

\* The prepared graph is the configuration's.
Offered ==
    control.graph # NoGraph =>
    control.graph.desc = config[control.graph.profile] /\ control.graph.rate = control.hz

FollowInv == Committing /\ Offered /\ \A h \in HookIds : FollowHook(h)

\* A reload has visited every channel it has taken off its list: the hook there
\* is staged, at hand, or runs the candidate's description already.
VisitedInv ==
    control.by = "reload" /\ control.pc # "finish" =>
    \A c \in Up \ control.todo :
       LET h == ds[c] IN
       h # 0 => (
       Runs(h) /\ h \notin relink.moved =>
       \/ h \in relink.hooks
       \/ control.hook = h /\ control.pc \in {"compare", "stage"}
       \/ heap.hook[h].active.desc = candidate[heap.hook[h].profile])

Weight(k) == Count(k.active # NoGraph) + Count(k.staged # NoGraph)

\* Two finite sets that differ in one member at most.
LEMMA OneMember ==
    ASSUME NEW A, NEW B, IsFiniteSet(A), IsFiniteSet(B), NEW x, A \ {x} = B \ {x}
    PROVE  /\ Cardinality(A) \in Nat /\ Cardinality(B) \in Nat
           /\ Cardinality(B) = Cardinality(A) - Count(x \in A) + Count(x \in B)
<1>1. /\ Cardinality(A) \in Nat
      /\ Cardinality(A \ {x}) = IF x \in A THEN Cardinality(A) - 1 ELSE Cardinality(A)
  BY FS_CardinalityType, FS_RemoveElement
<1>2. /\ Cardinality(B) \in Nat
      /\ Cardinality(B \ {x}) = IF x \in B THEN Cardinality(B) - 1 ELSE Cardinality(B)
  BY FS_CardinalityType, FS_RemoveElement
<1> QED
  BY <1>1, <1>2 DEF Count

\* A heap that differs in one hook holds as many graphs more as that hook does.
LEMMA HeldStep ==
    ASSUME NEW hp \in Heaps, NEW hq \in Heaps, NEW h \in HookIds,
           \A i \in HookIds : i # h => hq.hook[i] = hp.hook[i]
    PROVE  /\ Held(hp) \in Nat /\ Held(hq) \in Nat
           /\ Held(hq) = Held(hp) - Weight(hp.hook[h]) + Weight(hq.hook[h])
<1> DEFINE A(x) == {i \in HookIds : x.hook[i].active # NoGraph}
           S(x) == {i \in HookIds : x.hook[i].staged # NoGraph}
<1>1. /\ IsFiniteSet(A(hp)) /\ IsFiniteSet(A(hq)) /\ IsFiniteSet(S(hp)) /\ IsFiniteSet(S(hq))
  <2>1. IsFiniteSet(HookIds)
    BY LinkConstants
  <2>2. A(hp) \subseteq HookIds /\ A(hq) \subseteq HookIds /\ S(hp) \subseteq HookIds
        /\ S(hq) \subseteq HookIds
    OBVIOUS
  <2> QED
    BY <2>1, <2>2, FS_Subset
<1>2. A(hp) \ {h} = A(hq) \ {h} /\ S(hp) \ {h} = S(hq) \ {h}
  OBVIOUS
<1>3. /\ Cardinality(A(hp)) \in Nat /\ Cardinality(A(hq)) \in Nat
      /\ Cardinality(A(hq)) = Cardinality(A(hp)) - Count(h \in A(hp)) + Count(h \in A(hq))
  <2> HIDE DEF A
  <2> QED
    BY <1>1, <1>2, OneMember
<1>4. /\ Cardinality(S(hp)) \in Nat /\ Cardinality(S(hq)) \in Nat
      /\ Cardinality(S(hq)) = Cardinality(S(hp)) - Count(h \in S(hp)) + Count(h \in S(hq))
  <2> HIDE DEF S
  <2> QED
    BY <1>1, <1>2, OneMember
<1>5. /\ Held(hp) = Cardinality(A(hp)) + Cardinality(S(hp))
      /\ Held(hq) = Cardinality(A(hq)) + Cardinality(S(hq))
  BY DEF Held
<1>6. /\ Count(h \in A(hp)) = Count(hp.hook[h].active # NoGraph)
      /\ Count(h \in A(hq)) = Count(hq.hook[h].active # NoGraph)
      /\ Count(h \in S(hp)) = Count(hp.hook[h].staged # NoGraph)
      /\ Count(h \in S(hq)) = Count(hq.hook[h].staged # NoGraph)
  BY DEF Count
<1> HIDE DEF A, S
<1>7. \A P, Q, R, T : Count(P) \in {0, 1}
  BY DEF Count
<1> QED
  BY <1>3, <1>4, <1>5, <1>6, <1>7 DEF Weight

\* What Release makes of the hook it takes a reference of.
Released(k) ==
    IF k.refs # 1 THEN [k EXCEPT !.refs = @ - 1]
    ELSE [Unused EXCEPT !.att = "freed", !.listed = k.listed /\ k.att # "attached"]

\* The hook keeps all but the reference that was taken.
Same(k, n) ==
    /\ n.att = k.att /\ n.active = k.active /\ n.staged = k.staged
    /\ n.stagedRate = k.stagedRate /\ n.clock = k.clock /\ n.pending = k.pending
    /\ n.bound = k.bound /\ n.profile = k.profile /\ n.listed = k.listed

\* The hook was given up with its last reference.
Gone(k, n) ==
    /\ n.att = "freed" /\ n.active = NoGraph /\ n.staged = NoGraph
    /\ ~n.pending /\ n.clock = 0 /\ n.stagedRate = 0
    /\ n.listed => k.listed /\ k.att # "attached"

\* The fields of a graph.
LEMMA NoGraphTyped == NoGraph \in Graphs /\ 0 \in LinkHz /\ \A g \in Graphs : g # NoGraph =>
    g.desc \in Descriptions /\ g.rate \in LinkHz /\ g.profile \in Profiles
BY DEF Graphs, LinkHz

\* The fields of a hook.
LEMMA HookFields ==
    ASSUME NEW k \in Hooks
    PROVE  /\ k.refs \in Int /\ k.att \in {"unused", "building", "attached", "detached", "freed"}
           /\ k.active \in Graphs /\ k.staged \in Graphs /\ k.stagedRate \in LinkHz
           /\ k.clock \in LinkHz /\ k.pending \in BOOLEAN /\ k.bound \in BOOLEAN
           /\ k.profile \in Profiles \cup {NoProfile} /\ k.listed \in BOOLEAN
BY DEF Hooks

\* A hook that holds nothing is a hook.
LEMMA PlainHook ==
    ASSUME NEW a \in {"unused", "freed"}, NEW f \in BOOLEAN, NEW b \in BOOLEAN, NEW n,
           n = [refs |-> 0, att |-> a, active |-> NoGraph, staged |-> NoGraph,
                stagedRate |-> 0, clock |-> 0, pending |-> f, bound |-> f,
                profile |-> NoProfile, listed |-> b]
    PROVE  /\ n \in Hooks /\ n.refs = 0 /\ n.att = a /\ n.active = NoGraph
           /\ n.staged = NoGraph /\ n.pending = f /\ n.clock = 0 /\ n.stagedRate = 0
           /\ n.listed = b
BY NoGraphTyped DEF Hooks

\* What releasing the last reference leaves.
LEMMA FreedHook ==
    ASSUME NEW b \in BOOLEAN, NEW n, n = [Unused EXCEPT !.att = "freed", !.listed = b]
    PROVE  /\ n \in Hooks /\ n.refs = 0 /\ n.att = "freed" /\ n.active = NoGraph
           /\ n.staged = NoGraph /\ n.pending = FALSE /\ n.clock = 0 /\ n.stagedRate = 0
           /\ n.listed = b
<1>1. n = [refs |-> 0, att |-> "freed", active |-> NoGraph, staged |-> NoGraph,
           stagedRate |-> 0, clock |-> 0, pending |-> FALSE, bound |-> FALSE,
           profile |-> NoProfile, listed |-> b]
  BY DEF Unused
<1>2. "freed" \in {"unused", "freed"} /\ FALSE \in BOOLEAN
  OBVIOUS
<1> QED
  BY <1>1, <1>2, PlainHook, Zenon

\* Releasing a reference drops one, and the last one frees the hook
\* (LinkHook::release).
LEMMA ReleasedHook ==
    ASSUME NEW k \in Hooks
    PROVE  /\ Released(k) \in Hooks /\ Released(k).refs = k.refs - 1
           /\ k.refs # 1 => Same(k, Released(k))
           /\ k.refs = 1 => Gone(k, Released(k))
           /\ Weight(Released(k)) = IF k.refs # 1 THEN Weight(k) ELSE 0
<1>1. CASE k.refs # 1
  <2>1. Released(k) = [k EXCEPT !.refs = k.refs - 1]
    BY <1>1 DEF Released
  <2>2. k.refs - 1 \in Int
    BY HookFields
  <2>3. /\ Released(k) \in Hooks /\ Released(k).refs = k.refs - 1 /\ Same(k, Released(k))
    BY <2>1, <2>2 DEF Hooks, Same
  <2> QED
    BY <1>1, <2>3 DEF Same, Weight
<1>2. CASE k.refs = 1
  <2>3. (k.listed /\ k.att # "attached") \in BOOLEAN
    OBVIOUS
  <2>4. Released(k) = [Unused EXCEPT !.att = "freed", !.listed = k.listed /\ k.att # "attached"]
    BY <1>2 DEF Released
  <2>5. /\ Released(k) \in Hooks /\ Released(k).refs = 0 /\ Released(k).att = "freed"
        /\ Released(k).active = NoGraph /\ Released(k).staged = NoGraph
        /\ Released(k).pending = FALSE /\ Released(k).clock = 0
        /\ Released(k).stagedRate = 0
        /\ Released(k).listed = (k.listed /\ k.att # "attached")
    <3> DEFINE n == Released(k)
    <3>1. n = [Unused EXCEPT !.att = "freed", !.listed = k.listed /\ k.att # "attached"]
      BY <2>4
    <3> HIDE DEF n
    <3>2. /\ n \in Hooks /\ n.refs = 0 /\ n.att = "freed" /\ n.active = NoGraph
          /\ n.staged = NoGraph /\ n.pending = FALSE /\ n.clock = 0 /\ n.stagedRate = 0
          /\ n.listed = (k.listed /\ k.att # "attached")
      BY <3>1, <2>3, FreedHook, Zenon
    <3> QED
      BY <3>2 DEF n
  <2>6. Gone(k, Released(k))
    BY <2>5, Zenon DEF Gone
  <2>7. Weight(Released(k)) = 0
    BY <2>5 DEF Weight, Count
  <2> QED
    BY <1>2, <2>5, <2>6, <2>7
<1> QED
  BY <1>1, <1>2

\* The fields of the heap.
LEMMA HeapFields ==
    ASSUME NEW hp \in Heaps
    PROVE  /\ hp.hook \in [HookIds -> Hooks] /\ hp.graphs \in Int
           /\ \A h \in HookIds : hp.hook[h] \in Hooks
           /\ DOMAIN hp = {"hook", "graphs"}
BY DEF Heaps

\* A heap with one hook replaced.
LEMMA HeapSet ==
    ASSUME NEW hp \in Heaps, NEW h \in HookIds, NEW k \in Hooks, NEW g \in Int,
           NEW hq, hq = [hook |-> [hp.hook EXCEPT ![h] = k], graphs |-> g]
    PROVE  /\ hq \in Heaps /\ hq.hook[h] = k
           /\ \A i \in HookIds : i # h => hq.hook[i] = hp.hook[i]
           /\ hq.hook = [hp.hook EXCEPT ![h] = k]
           /\ Spare(hp) \in Int
           /\ Spare(hq) = Spare(hp) + (g - hp.graphs) + Weight(hp.hook[h]) - Weight(k)
<1>1. hp.hook \in [HookIds -> Hooks] /\ hp.graphs \in Int
  BY HeapFields
<1>2. /\ hq \in Heaps /\ hq.hook[h] = k /\ hq.graphs = g
      /\ hq.hook = [hp.hook EXCEPT ![h] = k]
      /\ \A i \in HookIds : i # h => hq.hook[i] = hp.hook[i]
  BY <1>1 DEF Heaps
<1>3. /\ Held(hp) \in Nat /\ Held(hq) \in Nat
      /\ Held(hq) = Held(hp) - Weight(hp.hook[h]) + Weight(hq.hook[h])
  BY <1>2, HeldStep
<1>4. \A x : Weight(x) \in Nat
  BY DEF Weight, Count
<1> QED
  BY <1>1, <1>2, <1>3, <1>4 DEF Spare

\* Releasing a hook leaves the others alone, and frees the graphs it held
\* with it.
LEMMA ReleaseEffect ==
    ASSUME NEW hp \in Heaps, NEW h \in HookIds
    PROVE  /\ Release(hp, h) \in Heaps
           /\ Release(hp, h).hook[h] = Released(hp.hook[h])
           /\ \A i \in HookIds : i # h => Release(hp, h).hook[i] = hp.hook[i]
           /\ Spare(Release(hp, h)) = Spare(hp)
<1> DEFINE k == hp.hook[h]
           n == Released(k)
           r == Release(hp, h)
<1>1. /\ hp.hook \in [HookIds -> Hooks] /\ hp.graphs \in Int /\ k \in Hooks
      /\ DOMAIN hp = {"hook", "graphs"}
  BY HeapFields
<1>2. /\ n \in Hooks
      /\ Weight(n) = IF k.refs # 1 THEN Weight(k) ELSE 0
  BY <1>1, ReleasedHook
<1>3. Weight(k) \in Int
  BY DEF Weight, Count
<1>4. CASE k.refs # 1
  <2>1. r = [hp EXCEPT !.hook[h].refs = @ - 1]
    BY <1>4 DEF Release
  <2>2. n = [k EXCEPT !.refs = @ - 1]
    BY <1>4 DEF Released
  <2>3. r = [hook |-> [hp.hook EXCEPT ![h] = n], graphs |-> hp.graphs]
    BY <2>1, <2>2, <1>1 DEF Heaps
  <2> QED
    <3> HIDE DEF n, r
    <3> QED
      BY <2>3, <1>1, <1>2, <1>3, <1>4, HeapSet DEF n, r
<1>5. CASE k.refs = 1
  <2> DEFINE q == [hook |-> [hp.hook EXCEPT ![h] = n], graphs |-> hp.graphs]
  <2>1. n = [Unused EXCEPT !.att = "freed", !.listed = k.listed /\ k.att # "attached"]
    BY <1>5 DEF Released
  <2>2. [hp EXCEPT !.hook[h] = n] = q
    BY <1>1 DEF Heaps
  <2>3. r = Destroyed(Destroyed([hp EXCEPT !.hook[h] =
               [Unused EXCEPT !.att = "freed", !.listed = k.listed /\ k.att # "attached"]],
               k.active), k.staged)
    BY <1>5, Zenon DEF Release
  <2>4. r = Destroyed(Destroyed(q, k.active), k.staged)
    BY <2>1, <2>2, <2>3, Zenon
  <2> HIDE DEF n, k
  <2>5. PICK g \in Int : /\ r = [hook |-> [hp.hook EXCEPT ![h] = n], graphs |-> g]
                         /\ g = hp.graphs - Weight(k)
    <3>1. Destroyed(q, k.active) =
             [hook |-> [hp.hook EXCEPT ![h] = n],
              graphs |-> hp.graphs - Count(k.active # NoGraph)]
      BY <1>1 DEF Destroyed, Count
    <3>2. Destroyed([hook |-> [hp.hook EXCEPT ![h] = n],
                     graphs |-> hp.graphs - Count(k.active # NoGraph)], k.staged) =
             [hook |-> [hp.hook EXCEPT ![h] = n],
              graphs |-> hp.graphs - Count(k.active # NoGraph) - Count(k.staged # NoGraph)]
      BY <1>1 DEF Destroyed, Count
    <3>3. /\ hp.graphs - Count(k.active # NoGraph) - Count(k.staged # NoGraph) \in Int
          /\ hp.graphs - Count(k.active # NoGraph) - Count(k.staged # NoGraph)
             = hp.graphs - Weight(k)
      BY <1>1 DEF Count, Weight
    <3> QED
      BY <2>4, <3>1, <3>2, <3>3
  <2> HIDE DEF r
  <2>6. /\ r \in Heaps /\ r.hook[h] = n
        /\ \A i \in HookIds : i # h => r.hook[i] = hp.hook[i]
        /\ Spare(hp) \in Int
        /\ Spare(r) = Spare(hp) + (g - hp.graphs) + Weight(hp.hook[h]) - Weight(n)
    BY <2>5, <1>1, <1>2, HeapSet
  <2> QED
    BY <2>5, <2>6, <1>1, <1>2, <1>3, <1>5 DEF r, n, k
<1> QED
  BY <1>4, <1>5

\* What link_datastore_destroy writes before it releases.
Torn(k) == [k EXCEPT !.att = "detached", !.listed = @ /\ k.att # "attached"]

TornOf(k, b, n) ==
    /\ n \in Hooks /\ n.refs = k.refs /\ n.att = "detached" /\ n.active = k.active
    /\ n.staged = k.staged /\ n.stagedRate = k.stagedRate /\ n.clock = k.clock
    /\ n.pending = k.pending /\ n.bound = k.bound /\ n.profile = k.profile
    /\ n.listed = b

\* Tearing a hook down writes two fields.
LEMMA TornFields ==
    ASSUME NEW k \in Hooks, NEW b \in BOOLEAN
    PROVE  TornOf(k, b, [k EXCEPT !.att = "detached", !.listed = b])
BY DEF Hooks, TornOf

\* The same of Torn, which chooses what stays listed.
LEMMA TornHook ==
    ASSUME NEW k \in Hooks
    PROVE  /\ Torn(k) \in Hooks /\ Torn(k).refs = k.refs /\ Torn(k).att = "detached"
           /\ Torn(k).active = k.active /\ Torn(k).staged = k.staged
           /\ Torn(k).stagedRate = k.stagedRate /\ Torn(k).clock = k.clock
           /\ Torn(k).pending = k.pending /\ Torn(k).bound = k.bound
           /\ Torn(k).profile = k.profile
           /\ Torn(k).listed => k.listed /\ k.att # "attached"
<1> DEFINE b == k.listed /\ k.att # "attached"
<1>1. b \in BOOLEAN
  OBVIOUS
<1>2. Torn(k) = [k EXCEPT !.att = "detached", !.listed = b]
  BY Zenon DEF Torn
<1>3. TornOf(k, b, Torn(k))
  <2> HIDE DEF b
  <2> QED
    BY <1>1, <1>2, TornFields, Zenon
<1> QED
  BY <1>3, Zenon DEF TornOf

\* Writing the two fields in place writes the hook.
LEMMA TornHeap ==
    ASSUME NEW hp \in Heaps, NEW h \in HookIds, NEW b \in BOOLEAN
    PROVE  [hp EXCEPT !.hook[h].att = "detached", !.hook[h].listed = b] =
           [hook |-> [hp.hook EXCEPT ![h] = [hp.hook[h] EXCEPT !.att = "detached",
                                                               !.listed = b]],
            graphs |-> hp.graphs]
<1> DEFINE k1 == [hp.hook[h] EXCEPT !.att = "detached"]
           k2 == [k1 EXCEPT !.listed = b]
           p1 == [hook |-> [hp.hook EXCEPT ![h] = k1], graphs |-> hp.graphs]
<1>1. hp.hook \in [HookIds -> Hooks] /\ hp.hook[h] \in Hooks
  BY HeapFields
<1>2. [hp EXCEPT !.hook[h].att = "detached"] = p1
  BY <1>1 DEF Heaps
<1>3. p1.hook[h] = k1
  <2> HIDE DEF k1
  <2> QED
    BY <1>1
<1>4. [p1 EXCEPT !.hook[h].listed = b] =
      [hook |-> [hp.hook EXCEPT ![h] = k2], graphs |-> hp.graphs]
  <2>1. [p1 EXCEPT !.hook[h].listed = b] =
        [hook |-> [p1.hook EXCEPT ![h] = [p1.hook[h] EXCEPT !.listed = b]],
         graphs |-> p1.graphs]
    <3> HIDE DEF k1
    <3> QED
      BY <1>1
  <2>2. [p1.hook EXCEPT ![h] = k2] = [hp.hook EXCEPT ![h] = k2]
    <3> HIDE DEF k1, k2
    <3> QED
      BY <1>1
  <2>3. p1.graphs = hp.graphs
    OBVIOUS
  <2> HIDE DEF p1
  <2> QED
    BY <2>1, <2>2, <2>3, <1>3, Zenon
<1> QED
  BY <1>2, <1>4, Zenon

\* Destroying a datastore tears its hook down and releases it
\* (datastore_destroy).
LEMMA DestroyEffect ==
    ASSUME NEW hp \in Heaps, NEW h \in HookIds
    PROVE  /\ DatastoreDestroy(hp, h) \in Heaps
           /\ DatastoreDestroy(hp, h).hook[h] = Released(Torn(hp.hook[h]))
           /\ \A i \in HookIds : i # h => DatastoreDestroy(hp, h).hook[i] = hp.hook[i]
           /\ Spare(DatastoreDestroy(hp, h)) = Spare(hp)
<1> DEFINE k == hp.hook[h]
           q == [hp EXCEPT !.hook[h].att = "detached",
                           !.hook[h].listed = @ /\ hp.hook[h].att # "attached"]
<1>1. /\ hp.hook \in [HookIds -> Hooks] /\ hp.graphs \in Int /\ k \in Hooks
  BY HeapFields
<1>2. q = [hook |-> [hp.hook EXCEPT ![h] = Torn(k)], graphs |-> hp.graphs]
  <2> DEFINE b == k.listed /\ k.att # "attached"
             p == [hp EXCEPT !.hook[h].att = "detached", !.hook[h].listed = b]
  <2>1. b \in BOOLEAN
    OBVIOUS
  <2>2. q = p
    BY Zenon
  <2>3. Torn(k) = [k EXCEPT !.att = "detached", !.listed = b]
    BY Zenon DEF Torn
  <2>4. p = [hook |-> [hp.hook EXCEPT ![h] = [hp.hook[h] EXCEPT !.att = "detached",
                                                               !.listed = b]],
            graphs |-> hp.graphs]
    <3> HIDE DEF b
    <3> QED
      BY <2>1, TornHeap, Zenon
  <2> QED
    BY <2>2, <2>3, <2>4, Zenon
<1>3. Torn(k) \in Hooks /\ Weight(Torn(k)) = Weight(k) /\ Weight(k) \in Int
  BY <1>1, TornHook DEF Weight, Count
<1>4. /\ q \in Heaps /\ q.hook[h] = Torn(k)
      /\ \A i \in HookIds : i # h => q.hook[i] = hp.hook[i]
      /\ Spare(hp) \in Int /\ Spare(q) = Spare(hp)
  <2> HIDE DEF q
  <2> QED
    BY <1>1, <1>2, <1>3, HeapSet
<1>5. DatastoreDestroy(hp, h) = Release(q, h)
  BY Zenon DEF DatastoreDestroy
<1> HIDE DEF q, k
<1> QED
  BY <1>4, <1>5, ReleaseEffect DEF k

\* Retaining a hook adds a reference and nothing else.
LEMMA RetainEffect ==
    ASSUME NEW hp \in Heaps, NEW h \in HookIds
    PROVE  /\ Retain(hp, h) \in Heaps
           /\ Retain(hp, h).hook[h].refs = hp.hook[h].refs + 1
           /\ Same(hp.hook[h], Retain(hp, h).hook[h])
           /\ \A i \in HookIds : i # h => Retain(hp, h).hook[i] = hp.hook[i]
           /\ Spare(Retain(hp, h)) = Spare(hp)
<1> DEFINE k == hp.hook[h]
           n == [k EXCEPT !.refs = k.refs + 1]
           r == Retain(hp, h)
<1>1. /\ hp.hook \in [HookIds -> Hooks] /\ hp.graphs \in Int /\ k \in Hooks
  BY HeapFields
<1>2. n \in Hooks /\ n.refs = k.refs + 1 /\ Same(k, n) /\ Weight(n) = Weight(k)
      /\ Weight(k) \in Int
  BY <1>1 DEF Hooks, Same, Weight, Count
<1>3. r = [hook |-> [hp.hook EXCEPT ![h] = n], graphs |-> hp.graphs]
  BY <1>1 DEF Retain, Heaps
<1> HIDE DEF n, r, k
<1>4. /\ r \in Heaps /\ r.hook[h] = n
      /\ \A i \in HookIds : i # h => r.hook[i] = hp.hook[i]
      /\ Spare(hp) \in Int
      /\ Spare(r) = Spare(hp) + (hp.graphs - hp.graphs) + Weight(hp.hook[h]) - Weight(n)
  BY <1>1, <1>2, <1>3, HeapSet DEF k
<1> QED
  BY <1>1, <1>2, <1>4 DEF k, r

\* A prepared graph is one that no hook holds yet.
LEMMA PreparedEffect ==
    ASSUME NEW hp \in Heaps
    PROVE  /\ Prepared(hp) \in Heaps /\ Prepared(hp).hook = hp.hook
           /\ Spare(hp) \in Int /\ Spare(Prepared(hp)) = Spare(hp) + 1
<1>1. hp.hook \in [HookIds -> Hooks] /\ hp.graphs \in Int
  BY HeapFields
<1>2. /\ Prepared(hp) = [hook |-> hp.hook, graphs |-> hp.graphs + 1]
      /\ Prepared(hp).hook = hp.hook /\ Prepared(hp).graphs = hp.graphs + 1
      /\ Prepared(hp) \in Heaps
  BY <1>1 DEF Prepared, Heaps
<1>3. Held(Prepared(hp)) = Held(hp)
  BY <1>2 DEF Held
<1>4. Held(hp) \in Int
  <2> DEFINE A == {i \in HookIds : hp.hook[i].active # NoGraph}
             S == {i \in HookIds : hp.hook[i].staged # NoGraph}
  <2>1. A \subseteq HookIds /\ S \subseteq HookIds /\ IsFiniteSet(HookIds)
    BY LinkConstants
  <2>2. Cardinality(A) \in Nat /\ Cardinality(S) \in Nat
    <3> HIDE DEF A, S
    <3> QED
      BY <2>1, FS_Subset, FS_CardinalityType
  <2> QED
    BY <2>2 DEF Held
<1> QED
  BY <1>1, <1>2, <1>3, <1>4 DEF Spare

\* The owners of a hook, one by one: each of them owns it once at most.
LEMMA OwnersCounted ==
    ASSUME LinkTypes, DatastoreInv, NEW h \in HookIds
    PROVE  Owners(h) = OwnerCount(h)
<1> DEFINE C == {c \in LinkChannels : ds[c] = h}
<1>1. Cardinality(C) = Count(Bound(h))
  <2>1. CASE Bound(h)
    <3>1. PICK c \in LinkChannels : ds[c] = h
      BY <2>1 DEF Bound
    <3>2. h # 0
      BY LinkConstants
    <3>3. C = {c}
      BY <3>1, <3>2 DEF DatastoreInv
    <3> QED
      BY <3>3, <2>1, FS_Singleton DEF Count
  <2>2. CASE ~Bound(h)
    <3>1. C = {}
      BY <2>2 DEF Bound
    <3> QED
      BY <3>1, <2>2, FS_EmptySet DEF Count
  <2> QED
    BY <2>1, <2>2
<1> QED
  BY <1>1 DEF Owners, OwnerCount

\* An operation that carries no hook stays without one.
Empty == control.hook = 0 /\ control.graph = NoGraph /\ control.pc \notin HookPcs

\* A step that leaves hooks, leases, datastores and framehooks alone keeps
\* what holds of them.
LEMMA HooksUntouched ==
    ASSUME LinkTypes, ControlInv, HeldInv, UNCHANGED <<heap, lease, ds, removed, fds>>,
           relink'.hooks = relink.hooks,
           control' = control \/ (Empty /\ Empty'),
           \A c \in LinkChannels : Ending(c) => Ending(c)'
    PROVE  HeldInv'
<1>0. /\ heap' = heap /\ lease' = lease /\ ds' = ds /\ removed' = removed /\ fds' = fds
  OBVIOUS
<1>1. \A h \in HookIds : h # 0
  BY LinkConstants
<1>2. /\ DatastoreInv /\ RefInv /\ HooksInv /\ GraphInv /\ LeaseInv
  BY DEF HeldInv
<1>b. \A h \in HookIds : Bound(h)' <=> Bound(h)
  BY <1>0 DEF Bound
<1>3. DatastoreInv'
  BY <1>0, <1>2, <1>b DEF DatastoreInv, Empty, HookPcs, InstallPcs, Bound, LinkTypes
<1>4. RefInv'
  <2> SUFFICES ASSUME NEW h \in HookIds
               PROVE  OwnerCount(h)' = OwnerCount(h)
    BY <1>0, <1>2 DEF RefInv
  <2>1. CASE control' = control
    BY <2>1, <1>0 DEF OwnerCount, Bound, Count
  <2>2. CASE Empty /\ Empty'
    <3>1. control.hook # h /\ control'.hook # h
      BY <2>2, <1>1 DEF Empty
    <3> QED
      BY <3>1, <1>0, <1>b DEF OwnerCount, Count
  <2> QED
    BY <2>1, <2>2
<1>5. HooksInv'
  <2> SUFFICES ASSUME NEW h \in HookIds
               PROVE  HookInv(h)'
    BY DEF HooksInv
  <2>1. HookInv(h)
    BY <1>2 DEF HooksInv
  <2>2. CASE control' = control
    BY <2>1, <2>2, <1>0 DEF HookInv
  <2>3. CASE Empty /\ Empty'
    <3>1. control.hook # h /\ control'.hook # h
      BY <2>3, <1>1 DEF Empty
    <3> QED
      BY <3>1, <2>1, <1>0 DEF HookInv
  <2> QED
    BY <2>2, <2>3
<1>6. GraphInv'
  BY <1>0, <1>2 DEF GraphInv, Empty, Spare, Held, Count
<1>7. LeaseInv'
  <2>1. CASE control' = control
    <3>1. control.pc \in {"attach", "cas", "lease"} => control.at \in LinkChannels
      BY DEF ControlInv, Placed, InstallPcs
    <3>2. \A c \in LinkChannels : chan[c] = "ending" => chan'[c] = "ending"
      BY DEF Ending
    <3>3. LeaseInv
      BY <1>2
    <3> QED
      BY <3>1, <3>2, <3>3, <2>1, <1>0 DEF LeaseInv, Ending
  <2>2. CASE Empty /\ Empty'
    BY <2>2, <1>0, <1>2 DEF LeaseInv, LinkTypes, Empty, HookPcs, InstallPcs
  <2> QED
    BY <2>1, <2>2
<1> QED
  BY <1>3, <1>4, <1>5, <1>6, <1>7 DEF HeldInv

\* Nothing is loaded and no hook is in use at the start.
LEMMA LinkStarts ==
    ASSUME LinkInit
    PROVE  LinkInv
<1>1. /\ life = "unloaded" /\ driver = FALSE /\ running = FALSE /\ stop = FALSE
      /\ scan = "off" /\ control = Free /\ relink = NoReload
      /\ heap = [hook |-> [h \in HookIds |-> Unused], graphs |-> 0]
      /\ lease = [h \in HookIds |-> NoLease]
      /\ ds = [c \in LinkChannels |-> 0] /\ removed = {} /\ fds = {}
      /\ chan = [c \in LinkChannels |-> "up"]
      /\ rate = [c \in LinkChannels |-> CHOOSE x \in Rates : \A y \in Rates : x <= y]
      /\ strays = {}
  BY DEF LinkInit
<1>2. PICK d \in Descriptions : config = [p \in Profiles |-> d] /\ candidate = config
  BY DEF LinkInit
<1>3. Unused \in Hooks /\ Unused.refs = 0 /\ Unused.att = "unused"
      /\ Unused.active = NoGraph /\ Unused.staged = NoGraph /\ Unused.listed = FALSE
  <2>1. Unused = [refs |-> 0, att |-> "unused", active |-> NoGraph, staged |-> NoGraph,
           stagedRate |-> 0, clock |-> 0, pending |-> FALSE, bound |-> FALSE,
           profile |-> NoProfile, listed |-> FALSE]
    BY Zenon DEF Unused
  <2>2. "unused" \in {"unused", "freed"} /\ FALSE \in BOOLEAN
    OBVIOUS
  <2> QED
    BY <2>1, <2>2, PlainHook, Zenon
<1>4. NoLease \in Leases /\ NoLease.on = FALSE /\ NoLease.asked = FALSE
  BY DEF NoLease, Leases
<1>5. control \in Controls /\ control.by = "none" /\ control.pc = "visit"
      /\ control.hook = 0 /\ control.graph = NoGraph
  BY <1>1, NoGraphTyped DEF Free, Controls, Pcs
<1>6. /\ heap \in Heaps /\ heap.graphs = 0
      /\ \A h \in HookIds : heap.hook[h] = Unused
  BY <1>1, <1>3 DEF Heaps
<1>7. /\ relink.pc = "idle" /\ relink.hooks = {}
      /\ relink \in [pc : {"idle", "gated", "staging"}, hooks : SUBSET HookIds,
                   commit : BOOLEAN, moved : SUBSET HookIds]
  BY <1>1 DEF NoReload
<1>8. LinkTypes
  <2>1. rate \in [LinkChannels -> LinkHz]
    BY <1>1 DEF LinkHz
  <2>2. lease \in [HookIds -> Leases]
    BY <1>1, <1>4
  <2>3. config \in [Profiles -> Descriptions] /\ candidate \in [Profiles -> Descriptions]
    BY <1>2
  <2> QED
    BY <1>1, <1>5, <1>6, <1>7, <2>1, <2>2, <2>3 DEF LinkTypes
<1>9. ControlInv
  BY <1>5 DEF ControlInv, Placed, HookPcs, InstallPcs
<1>10. LifeInv
  BY <1>1, <1>5, <1>7 DEF LifeInv
<1>11. \A h \in HookIds : h # 0 /\ ~Bound(h)
  BY <1>1, LinkConstants DEF Bound
<1>12. HeldInv
  <2>1. DatastoreInv
    BY <1>1, <1>5 DEF DatastoreInv
  <2>2. RefInv
    BY <1>1, <1>3, <1>4, <1>5, <1>6, <1>7, <1>11 DEF RefInv, OwnerCount, Count
  <2>3. HooksInv
    BY <1>3, <1>5, <1>6, <1>7, <1>11 DEF HooksInv, HookInv
  <2>4. GraphInv
    <3>1. {h \in HookIds : heap.hook[h].active # NoGraph} = {}
      BY <1>3, <1>6
    <3>2. {h \in HookIds : heap.hook[h].staged # NoGraph} = {}
      BY <1>3, <1>6
    <3>3. Held(heap) = 0
      <4> DEFINE A == {h \in HookIds : heap.hook[h].active # NoGraph}
                 S == {h \in HookIds : heap.hook[h].staged # NoGraph}
      <4>1. Held(heap) = Cardinality(A) + Cardinality(S)
        BY DEF Held
      <4>2. A = {} /\ S = {}
        BY <3>1, <3>2
      <4> HIDE DEF A, S
      <4> QED
        BY <4>1, <4>2, FS_EmptySet
    <3>4. Count(control.graph # NoGraph) = 0
      BY <1>5 DEF Count
    <3> QED
      BY <3>3, <3>4, <1>6 DEF GraphInv, Spare
  <2>5. LeaseInv
    BY <1>1, <1>4, <1>5 DEF LeaseInv
  <2> QED
    BY <2>1, <2>2, <2>3, <2>4, <2>5 DEF HeldInv
<1> QED
  BY <1>8, <1>9, <1>10, <1>12 DEF LinkInv

\* What the lifecycle, the callers and Asterisk do without an operation.
LEMMA SurroundingsKeep ==
    ASSUME LinkInv,
           \/ BindCall \/ BindUnlock \/ LoadDriver \/ LoadLinks \/ LoadChannels
           \/ Unload \/ StopLinks \/ ScanResolve \/ Renegotiated \/ Hangup \/ ReloadGate
    PROVE  LinkInv'
<1>1. LinkTypes /\ ControlInv /\ LifeInv /\ HeldInv
  BY DEF LinkInv
<1>2. /\ control' = control /\ heap' = heap /\ lease' = lease /\ ds' = ds
      /\ removed' = removed /\ fds' = fds /\ relink'.hooks = relink.hooks
  <2>1. relink \in [pc : {"idle", "gated", "staging"}, hooks : SUBSET HookIds,
                    commit : BOOLEAN, moved : SUBSET HookIds]
    BY <1>1 DEF LinkTypes
  <2>2. ReloadGate => relink'.hooks = relink.hooks
    BY <2>1 DEF ReloadGate
  <2> QED
    BY <2>2 DEF BindCall, BindUnlock, LoadDriver, LoadLinks, LoadChannels, Unload,
                StopLinks, ScanResolve, Renegotiated, Hangup, ReloadGate, astVars, lifeVars,
                cfgVars
<1>3. \A c \in LinkChannels : Ending(c) => Ending(c)'
  <2>1. CASE Hangup
    BY <2>1, <1>1 DEF Hangup, Up, Ending, LinkTypes
  <2>2. CASE ~Hangup
    <3>1. chan' = chan
      BY <2>2 DEF BindCall, BindUnlock, LoadDriver, LoadLinks, LoadChannels, Unload,
                StopLinks, ScanResolve, Renegotiated, ReloadGate, astVars, lifeVars,
                cfgVars
    <3> QED
      BY <3>1 DEF Ending
  <2> QED
    BY <2>1, <2>2
<1>4. HeldInv'
  BY <1>1, <1>2, <1>3, HooksUntouched
<1>5. ControlInv'
  BY <1>1, <1>2 DEF ControlInv, Placed
<1>6. LinkTypes' /\ LifeInv'
  <2>1. CASE BindCall \/ BindUnlock
    BY <2>1, <1>1 DEF LinkTypes, LifeInv, BindCall, BindUnlock, astVars, lifeVars, cfgVars
  <2>2. CASE LoadDriver
    BY <2>2, <1>1 DEF LinkTypes, LifeInv, LoadDriver, astVars, lifeVars, cfgVars
  <2>3. CASE LoadLinks
    <3>1. /\ life = "created"
          /\ UNCHANGED <<control, relink, config, candidate, rate, heap, lease, ds, removed,
                         fds, chan, strays>>
          /\ \/ life' = "links" /\ running' = TRUE /\ stop' = FALSE /\ scan' = "idle"
                /\ driver' = driver
             \/ life' = "unloaded" /\ driver' = FALSE
                /\ UNCHANGED <<running, stop, scan>>
      BY <2>3 DEF LoadLinks, astVars, cfgVars
    <3>2. LinkTypes'
      BY <3>1, <1>1 DEF LinkTypes
    <3>3. driver /\ ~running /\ scan = "off" /\ control.by = "none" /\ relink.pc = "idle"
          /\ relink.hooks = {}
      BY <3>1, <1>1 DEF LifeInv, LinkTypes
    <3>4. /\ control' = control /\ relink' = relink
          /\ (life' = "links" /\ running' /\ driver' /\ scan' = "idle")
             \/ (life' = "unloaded" /\ ~driver' /\ ~running' /\ scan' = "off")
      <4>1. control' = control /\ relink' = relink
        BY <3>1
      <4>2. CASE life' = "links" /\ running' = TRUE /\ scan' = "idle" /\ driver' = driver
        BY <4>1, <4>2, <3>3, Zenon
      <4>3. CASE life' = "unloaded" /\ driver' = FALSE /\ running' = running /\ scan' = scan
        BY <4>1, <4>3, <3>3, Zenon
      <4> QED
        BY <3>1, <4>2, <4>3
    <3>5. LifeInv'
      BY <3>3, <3>4 DEF LifeInv
    <3> QED
      BY <3>2, <3>5
  <2>4. CASE LoadChannels \/ Unload
    BY <2>4, <1>1 DEF LinkTypes, LifeInv, LoadChannels, Unload, astVars, lifeVars, cfgVars
  <2>5. CASE StopLinks
    BY <2>5, <1>1 DEF LinkTypes, LifeInv, StopLinks, astVars, lifeVars, cfgVars
  <2>6. CASE ScanResolve
    BY <2>6, <1>1, ScanWords DEF LinkTypes, LifeInv, ScanResolve, astVars, lifeVars, cfgVars
  <2>7. CASE Renegotiated
    <3>1. rate' \in [LinkChannels -> LinkHz]
      BY <2>7, <1>1 DEF LinkTypes, Renegotiated, LinkHz
    <3> QED
      BY <3>1, <2>7, <1>1 DEF LinkTypes, LifeInv, Renegotiated, astVars, lifeVars, cfgVars
  <2>8. CASE Hangup
    <3>1. chan' \in [LinkChannels -> {"up", "ending"}]
      BY <2>8, <1>1 DEF LinkTypes, Hangup
    <3> QED
      BY <3>1, <2>8, <1>1 DEF LinkTypes, LifeInv, Hangup, astVars, lifeVars, cfgVars
  <2>9. CASE ReloadGate
    BY <2>9, <1>1 DEF LinkTypes, LifeInv, ReloadGate, astVars, lifeVars, cfgVars
  <2> QED
    BY <2>1, <2>2, <2>3, <2>4, <2>5, <2>6, <2>7, <2>8, <2>9
<1> QED
  BY <1>1, <1>4, <1>5, <1>6 DEF LinkInv

\* The fields of an operation that begins.
LEMMA OperationFacts ==
    ASSUME NEW by \in {"none", "scan", "reload", "bind", "stats", "stop"},
           NEW chs \in SUBSET LinkChannels, NEW w \in Profiles \cup {NoProfile}
    PROVE  LET o == LinkOperation(by, chs, w)
           IN  /\ o \in Controls /\ o.by = by /\ o.todo = chs /\ o.want = w
               /\ o.pc = "visit" /\ o.hook = 0 /\ o.graph = NoGraph
<1>1. LinkOperation(by, chs, w) =
      [by |-> by, todo |-> chs, at |-> NoChannel, pc |-> "visit",
       hook |-> 0, graph |-> NoGraph, hz |-> 0, want |-> w]
  <2>1. LinkOperation(by, chs, w) = [Free EXCEPT !.by = by, !.todo = chs, !.want = w]
    BY Zenon DEF LinkOperation
  <2>2. Free = [by |-> "none", todo |-> {}, at |-> NoChannel, pc |-> "visit",
                hook |-> 0, graph |-> NoGraph, hz |-> 0, want |-> NoProfile]
    BY Zenon DEF Free
  <2> QED
    BY <2>1, <2>2
<1> QED
  BY <1>1, NoGraphTyped DEF Controls, Pcs

\* Moving an operation on changes its place only.
LEMMA AtPlace ==
    ASSUME NEW p \in Controls, NEW s \in Pcs
    PROVE  LET e == [p EXCEPT !.pc = s]
           IN  /\ e \in Controls /\ e.by = p.by /\ e.todo = p.todo /\ e.want = p.want
               /\ e.pc = s /\ e.hook = p.hook /\ e.graph = p.graph /\ e.at = p.at
               /\ e.hz = p.hz
BY DEF Controls

\* The places of an operation.
LEMMA PlaceNames ==
    /\ {"visit", "build", "end", "finish", "missing", "publish", "compare", "stage", "bound",
        "observe", "free", "add", "attach", "cas", "lease", "unwind", "done"} \subseteq Pcs
BY DEF Pcs, HookPcs, InstallPcs

Hooked(p, i, s, n) ==
    /\ n \in Controls /\ n.by = p.by /\ n.todo = p.todo /\ n.want = p.want
    /\ n.pc = s /\ n.hook = i /\ n.graph = p.graph /\ n.at = p.at /\ n.hz = p.hz

\* Taking up a hook changes place and hook only.
LEMMA WithHook ==
    \A p \in Controls, i \in HookIds \cup {0}, s \in Pcs :
       Hooked(p, i, s, [p EXCEPT !.hook = i, !.pc = s])
<1> TAKE p \in Controls, i \in HookIds \cup {0}, s \in Pcs
<1> DEFINE n == [p EXCEPT !.hook = i, !.pc = s]
<1>1. /\ n \in Controls /\ n.by = p.by /\ n.todo = p.todo /\ n.want = p.want
      /\ n.pc = s /\ n.hook = i /\ n.graph = p.graph /\ n.at = p.at /\ n.hz = p.hz
  BY DEF Controls
<1> QED
  BY <1>1, Zenon DEF Hooked

\* The control lock when it is free.
LEMMA FreeFacts ==
    /\ Free \in Controls /\ Free.by = "none" /\ Free.pc = "visit" /\ Free.hook = 0
    /\ Free.graph = NoGraph /\ Placed(Free)
<1>1. Free \in Controls /\ Free.by = "none" /\ Free.pc = "visit" /\ Free.hook = 0
      /\ Free.graph = NoGraph
  BY NoGraphTyped DEF Free, Controls, Pcs
<1> QED
  BY <1>1 DEF Placed, HookPcs, InstallPcs

\* Where an operation goes when it is done with a channel, well or badly.
Onward(c, o) ==
    /\ o \in Controls /\ Placed(o) /\ o.by = c.by /\ o.want = c.want
    /\ o.hook = 0 /\ o.graph = NoGraph /\ o.todo \subseteq c.todo
    /\ o.pc \notin HookPcs

\* NextVisit and Failed leave the hook and the graph behind.
LEMMA NextVisitFacts ==
    ASSUME NEW c \in Controls, Placed(c), c.by \in {"scan", "reload", "bind", "stop"}
    PROVE  /\ Onward(c, NextVisit(c)) /\ Onward(c, Failed(c))
           /\ NextVisit(c).pc = (IF c.by = "bind" THEN "end" ELSE "visit")
           /\ c.by # "bind" => NextVisit(c).todo = c.todo
           /\ c.by = "reload" => Failed(c).pc = "finish"
           /\ c.by # "reload" => Failed(c) = NextVisit(c)
<1> DEFINE o == LinkOperation(c.by, c.todo, c.want)
           e == [LinkOperation("bind", {}, c.want) EXCEPT !.pc = "end"]
           f == [LinkOperation("reload", {}, c.want) EXCEPT !.pc = "finish"]
<1>1. c.todo \in SUBSET LinkChannels /\ c.want \in Profiles \cup {NoProfile}
  BY DEF Controls
<1>2. /\ o \in Controls /\ o.by = c.by /\ o.todo = c.todo /\ o.want = c.want
      /\ o.pc = "visit" /\ o.hook = 0 /\ o.graph = NoGraph
  BY <1>1, OperationFacts
<1>3. /\ e \in Controls /\ e.by = "bind" /\ e.todo = {} /\ e.want = c.want
      /\ e.pc = "end" /\ e.hook = 0 /\ e.graph = NoGraph
  <2> DEFINE p == LinkOperation("bind", {}, c.want)
  <2>1. /\ p \in Controls /\ p.by = "bind" /\ p.todo = {} /\ p.want = c.want
        /\ p.pc = "visit" /\ p.hook = 0 /\ p.graph = NoGraph
    BY <1>1, OperationFacts
  <2> QED
    BY <2>1, AtPlace, PlaceNames
<1>4. /\ f \in Controls /\ f.by = "reload" /\ f.todo = {} /\ f.want = c.want
      /\ f.pc = "finish" /\ f.hook = 0 /\ f.graph = NoGraph
  <2> DEFINE p == LinkOperation("reload", {}, c.want)
  <2>1. /\ p \in Controls /\ p.by = "reload" /\ p.todo = {} /\ p.want = c.want
        /\ p.pc = "visit" /\ p.hook = 0 /\ p.graph = NoGraph
    BY <1>1, OperationFacts
  <2> QED
    BY <2>1, AtPlace, PlaceNames
<1>5. NextVisit(c) = IF c.by = "bind" THEN e ELSE o
  BY DEF NextVisit
<1>6. Failed(c) = IF c.by = "reload" THEN f ELSE NextVisit(c)
  BY DEF Failed
<1> HIDE DEF o, e, f
<1>7. Onward(c, NextVisit(c))
  BY <1>2, <1>3, <1>5 DEF Onward, Placed, HookPcs, InstallPcs
<1>8. Onward(c, Failed(c))
  BY <1>4, <1>6, <1>7 DEF Onward, Placed, HookPcs, InstallPcs
<1> QED
  BY <1>2, <1>3, <1>4, <1>5, <1>6, <1>7, <1>8

Relinks == [pc : {"idle", "gated", "staging"}, hooks : SUBSET HookIds,
            commit : BOOLEAN, moved : SUBSET HookIds]

\* An operation without a hook takes a step on its own.
LEMMA ControlMoves ==
    ASSUME LinkInv, UNCHANGED <<heap, lease, ds, removed, fds, chan, rate>>,
           relink'.hooks = relink.hooks, Empty \/ control' = control,
           control' \in Controls, Placed(control'), Empty' \/ control' = control,
           /\ life' \in {"unloaded", "created", "links", "loaded", "unregistered", "joining",
                         "detaching"}
           /\ driver' \in BOOLEAN /\ running' = running /\ stop' = stop
           /\ scan' \in {"off", "idle", "busy", "exit"} \cup Profiles \cup {NoProfile}
           /\ relink' \in Relinks
           /\ config' \in [Profiles -> Descriptions]
           /\ candidate' \in [Profiles -> Descriptions]
           /\ strays' \in SUBSET HookIds,
           LifeInv'
    PROVE  LinkInv'
<1>1. LinkTypes /\ ControlInv /\ HeldInv
  BY DEF LinkInv
<1>2. \A c \in LinkChannels : Ending(c) => Ending(c)'
  BY DEF Ending
<1>3. HeldInv'
  BY <1>1, <1>2, HooksUntouched
<1>4. ControlInv'
  BY DEF ControlInv
<1>5. LinkTypes'
  BY <1>1 DEF LinkTypes, Relinks
<1> QED
  BY <1>3, <1>4, <1>5 DEF LinkInv

\* The invariant, with the facts most steps need.
LEMMA TypeFacts ==
    ASSUME LinkInv
    PROVE  /\ LinkTypes /\ ControlInv /\ LifeInv /\ HeldInv
           /\ control \in Controls /\ Placed(control) /\ relink \in Relinks
           /\ heap \in Heaps /\ lease \in [HookIds -> Leases]
           /\ ds \in [LinkChannels -> HookIds \cup {0}]
           /\ life \in {"unloaded", "created", "links", "loaded", "unregistered", "joining",
                        "detaching"}
           /\ driver \in BOOLEAN /\ running \in BOOLEAN /\ stop \in BOOLEAN
           /\ scan \in {"off", "idle", "busy", "exit"} \cup Profiles \cup {NoProfile}
           /\ config \in [Profiles -> Descriptions]
           /\ candidate \in [Profiles -> Descriptions]
           /\ strays \in SUBSET HookIds /\ removed \in SUBSET HookIds
           /\ rate \in [LinkChannels -> LinkHz]
           /\ chan \in [LinkChannels -> {"up", "ending"}]
           /\ fds \in SUBSET (LinkChannels \X HookIds)
           /\ DatastoreInv /\ RefInv /\ HooksInv /\ GraphInv /\ LeaseInv
           /\ Up \subseteq LinkChannels
           /\ \A h \in HookIds : h # 0 /\ heap.hook[h] \in Hooks
BY LinkConstants, HeapFields DEF LinkInv, LinkTypes, ControlInv, HeldInv, Relinks, Up

\* Between hooks an operation holds neither hook nor graph.
LEMMA EmptyAt ==
    ASSUME LinkInv, control.pc \in {"visit", "build", "end", "finish"}
    PROVE  Empty
BY TypeFacts DEF Placed, Empty, HookPcs, InstallPcs

\* A binding takes the control lock.
LEMMA BindPeerKeeps == ASSUME LinkInv, BindPeer PROVE LinkInv'
<1>1. UNCHANGED <<lifeVars, relink, cfgVars, heap, astVars, strays>> /\ control.by = "none"
  BY DEF BindPeer
<1>2. Empty
  BY <1>1, EmptyAt, TypeFacts DEF Placed
<1>3. CASE control' = control
  BY <1>1, <1>2, <1>3, TypeFacts, ControlMoves DEF lifeVars, cfgVars, astVars, LifeInv
<1>4. CASE running /\ \E c \in Up, profile \in Profiles :
                         control' = LinkOperation("bind", {c}, profile)
  <2>1. PICK c \in Up, profile \in Profiles : control' = LinkOperation("bind", {c}, profile)
    BY <1>4
  <2>2. {c} \in SUBSET LinkChannels /\ profile \in Profiles \cup {NoProfile}
    BY TypeFacts
  <2>3. /\ control' \in Controls /\ control'.by = "bind" /\ control'.want = profile
        /\ control'.pc = "visit" /\ control'.hook = 0 /\ control'.graph = NoGraph
    BY <2>1, <2>2, OperationFacts
  <2>4. Placed(control') /\ Empty'
    BY <2>3 DEF Placed, HookPcs, InstallPcs, Empty
  <2>5. LifeInv'
    BY <1>1, <1>4, <2>3, TypeFacts DEF LifeInv, lifeVars
  <2> QED
    BY <1>1, <1>2, <2>3, <2>4, <2>5, TypeFacts, ControlMoves DEF lifeVars, cfgVars, astVars
<1> QED
  BY <1>3, <1>4 DEF BindPeer

\* A binding ends.
LEMMA BindEndKeeps == ASSUME LinkInv, BindEnd PROVE LinkInv'
<1>1. /\ UNCHANGED <<lifeVars, relink, cfgVars, heap, astVars, strays>>
      /\ control.by = "bind" /\ control.pc = "end" /\ control' = Free
  BY DEF BindEnd
<1>2. Empty
  BY <1>1, EmptyAt
<1>3. Placed(control') /\ Empty' /\ control' \in Controls /\ control'.by = "none"
  BY <1>1, FreeFacts DEF Empty, HookPcs, InstallPcs
<1>4. LifeInv'
  BY <1>1, <1>3, TypeFacts DEF LifeInv, lifeVars
<1> QED
  BY <1>1, <1>2, <1>3, <1>4, TypeFacts, ControlMoves DEF lifeVars, cfgVars, astVars

\* The scanner takes the control lock.
LEMMA ScanStartKeeps == ASSUME LinkInv, ScanStart PROVE LinkInv'
<1>1. /\ UNCHANGED <<life, driver, running, stop, bind, relink, cfgVars, heap, astVars, strays>>
      /\ control.by = "none" /\ scan \in Profiles \cup {NoProfile}
      /\ \/ scan' = "idle" /\ control' = control
         \/ /\ scan # NoProfile /\ control' = LinkOperation("scan", Up, scan)
            /\ scan' = "busy"
  BY DEF ScanStart
<1>2. Empty
  BY <1>1, EmptyAt, TypeFacts DEF Placed
<1>3. scan \notin {"off", "busy"}
  BY <1>1, ScanWords
<1>4. CASE scan' = "idle" /\ control' = control
  <2>1. LifeInv'
    BY <1>1, <1>3, <1>4, TypeFacts DEF LifeInv
  <2> QED
    BY <1>1, <1>2, <1>4, <2>1, TypeFacts, ControlMoves DEF cfgVars, astVars
<1>5. CASE scan # NoProfile /\ control' = LinkOperation("scan", Up, scan) /\ scan' = "busy"
  <2>1. Up \in SUBSET LinkChannels /\ scan \in Profiles
    BY <1>1, <1>5, TypeFacts
  <2>3. /\ control' \in Controls /\ control'.by = "scan" /\ control'.want = scan
        /\ control'.pc = "visit" /\ control'.hook = 0 /\ control'.graph = NoGraph
    BY <1>5, <2>1, OperationFacts
  <2>4. Placed(control') /\ Empty'
    BY <2>1, <2>3 DEF Placed, HookPcs, InstallPcs, Empty
  <2>5. LifeInv'
    BY <1>1, <1>3, <1>5, <2>3, TypeFacts DEF LifeInv
  <2> QED
    BY <1>1, <1>2, <1>5, <2>3, <2>4, <2>5, TypeFacts, ControlMoves DEF cfgVars, astVars
<1> QED
  BY <1>1, <1>4, <1>5

\* The scanner is done with a round.
LEMMA ScanEndKeeps == ASSUME LinkInv, ScanEnd PROVE LinkInv'
<1>1. /\ UNCHANGED <<life, driver, running, stop, bind, relink, cfgVars, heap, astVars, strays>>
      /\ control.by = "scan" /\ control.pc = "visit" /\ control' = Free /\ scan' = "idle"
  BY DEF ScanEnd
<1>2. Empty
  BY <1>1, EmptyAt
<1>3. Placed(control') /\ Empty' /\ control' \in Controls /\ control'.by = "none"
  BY <1>1, FreeFacts DEF Empty, HookPcs, InstallPcs
<1>4. LifeInv'
  BY <1>1, <1>3, TypeFacts DEF LifeInv
<1> QED
  BY <1>1, <1>2, <1>3, <1>4, TypeFacts, ControlMoves DEF cfgVars, astVars

\* A reload takes the control lock and begins to stage.
LEMMA ReloadStageKeeps == ASSUME LinkInv, ReloadStage PROVE LinkInv'
<1>1. /\ UNCHANGED <<lifeVars, bind, config, linkBudget, rate, heap, astVars, strays>>
      /\ relink.pc = "gated"
      /\ \/ /\ control.by = "none"
            /\ \E first \in Profiles \cup {NoProfile} :
                  control' = LinkOperation("reload", Up, first)
            /\ relink' = [relink EXCEPT !.pc = "staging"] /\ candidate' = candidate
         \/ /\ relink' = [relink EXCEPT !.pc = "idle"]
            /\ candidate' = config /\ control' = control
  BY DEF ReloadStage
<1>2. CASE /\ control.by = "none"
           /\ \E first \in Profiles \cup {NoProfile} :
                  control' = LinkOperation("reload", Up, first)
           /\ relink' = [relink EXCEPT !.pc = "staging"] /\ candidate' = candidate
  <2>1. PICK first \in Profiles \cup {NoProfile} : control' = LinkOperation("reload", Up, first)
    BY <1>2
  <2>2. Up \in SUBSET LinkChannels
    BY TypeFacts
  <2>3. /\ control' \in Controls /\ control'.by = "reload" /\ control'.want = first
        /\ control'.pc = "visit" /\ control'.hook = 0 /\ control'.graph = NoGraph
    BY <2>1, <2>2, OperationFacts
  <2>4. Placed(control') /\ Empty' /\ Empty
    BY <1>2, <2>3, EmptyAt, TypeFacts DEF Placed, HookPcs, InstallPcs, Empty
  <2>5. relink' \in Relinks /\ relink'.pc = "staging" /\ relink'.hooks = relink.hooks
    BY <1>2, TypeFacts DEF Relinks
  <2>6. LifeInv'
    BY <1>1, <1>2, <2>3, <2>5, TypeFacts DEF LifeInv, lifeVars
  <2> QED
    BY <1>1, <1>2, <2>3, <2>4, <2>5, <2>6, TypeFacts, ControlMoves DEF lifeVars, cfgVars, astVars
<1>3. CASE relink' = [relink EXCEPT !.pc = "idle"] /\ candidate' = config /\ control' = control
  <2>1. relink' \in Relinks /\ relink'.pc = "idle" /\ relink'.hooks = relink.hooks
    BY <1>3, TypeFacts DEF Relinks
  <2>2. LifeInv'
    BY <1>1, <1>3, <2>1, TypeFacts DEF LifeInv, lifeVars
  <2> QED
    BY <1>1, <1>3, <2>1, <2>2, TypeFacts, ControlMoves DEF lifeVars, cfgVars, astVars
<1> QED
  BY <1>1, <1>2, <1>3

\* A reload commits, or is refused.
LEMMA ReloadDecideKeeps == ASSUME LinkInv, ReloadDecide PROVE LinkInv'
<1>1. /\ UNCHANGED <<lifeVars, bind, candidate, linkBudget, rate, heap, astVars>>
      /\ control.by = "reload" /\ control.pc = "visit"
      /\ control' = [control EXCEPT !.pc = "finish"]
      /\ \/ /\ relink' = [relink EXCEPT !.commit = TRUE] /\ config' = candidate
            /\ strays' = relink.moved
         \/ UNCHANGED <<relink, config, strays>>
  BY DEF ReloadDecide
<1>2. Empty
  BY <1>1, EmptyAt
<1>3. /\ control' \in Controls /\ control'.by = "reload" /\ control'.hook = 0
      /\ control'.graph = NoGraph /\ control'.pc = "finish"
  BY <1>1, <1>2, AtPlace, PlaceNames, TypeFacts DEF Empty
<1>4. Placed(control') /\ Empty'
  BY <1>3 DEF Placed, Empty, HookPcs, InstallPcs
<1>5. relink' \in Relinks /\ relink'.pc = relink.pc /\ relink'.hooks = relink.hooks
  BY <1>1, TypeFacts DEF Relinks
<1>6. config' \in [Profiles -> Descriptions] /\ strays' \in SUBSET HookIds
  BY <1>1, TypeFacts DEF Relinks
<1>7. LifeInv'
  BY <1>1, <1>3, <1>5, TypeFacts DEF LifeInv, lifeVars
<1> QED
  BY <1>1, <1>2, <1>3, <1>4, <1>5, <1>6, <1>7, TypeFacts, ControlMoves
     DEF lifeVars, cfgVars, astVars

\* A reload lets go.
LEMMA ReloadEndKeeps == ASSUME LinkInv, ReloadEnd PROVE LinkInv'
<1>1. /\ UNCHANGED <<lifeVars, bind, config, linkBudget, rate, heap, astVars, strays>>
      /\ control.by = "reload" /\ control.pc = "finish" /\ relink.hooks = {}
      /\ control' = Free /\ relink' = NoReload /\ candidate' = config
  BY DEF ReloadEnd
<1>2. Empty
  BY <1>1, EmptyAt
<1>3. Placed(control') /\ Empty' /\ control' \in Controls /\ control'.by = "none"
  BY <1>1, FreeFacts DEF Empty, HookPcs, InstallPcs
<1>4. relink' \in Relinks /\ relink'.pc = "idle" /\ relink'.hooks = {}
  BY <1>1 DEF NoReload, Relinks
<1>5. LifeInv'
  BY <1>1, <1>3, <1>4, TypeFacts DEF LifeInv, lifeVars
<1> QED
  BY <1>1, <1>2, <1>3, <1>4, <1>5, TypeFacts, ControlMoves DEF lifeVars, cfgVars, astVars

\* Unloading takes the control lock.
LEMMA StopControlKeeps == ASSUME LinkInv, StopControl PROVE LinkInv'
<1>1. /\ UNCHANGED <<driver, running, stop, bind, relink, cfgVars, heap, astVars, strays>>
      /\ life = "joining" /\ scan = "exit" /\ control.by = "none"
      /\ control' = LinkOperation("stop", Up, NoProfile)
      /\ scan' = "off" /\ life' = "detaching"
  BY DEF StopControl
<1>2. Up \in SUBSET LinkChannels
  BY TypeFacts
<1>3. /\ control' \in Controls /\ control'.by = "stop"
      /\ control'.pc = "visit" /\ control'.hook = 0 /\ control'.graph = NoGraph
  BY <1>1, <1>2, OperationFacts
<1>4. Placed(control') /\ Empty' /\ Empty
  BY <1>1, <1>3, EmptyAt, TypeFacts DEF Placed, HookPcs, InstallPcs, Empty
<1>5. LifeInv'
  BY <1>1, <1>3, TypeFacts DEF LifeInv
<1> QED
  BY <1>1, <1>3, <1>4, <1>5, TypeFacts, ControlMoves DEF cfgVars, astVars

\* Unloading destroys the driver.
LEMMA DestroyDriverKeeps == ASSUME LinkInv, DestroyDriver PROVE LinkInv'
<1>1. /\ UNCHANGED <<running, stop, scan, bind, relink, cfgVars, heap, astVars, strays>>
      /\ control.by = "stop" /\ control.pc = "visit"
      /\ control' = Free /\ life' = "unloaded" /\ driver' = FALSE
  BY DEF DestroyDriver
<1>2. Empty
  BY <1>1, EmptyAt
<1>3. Placed(control') /\ Empty' /\ control' \in Controls /\ control'.by = "none"
  BY <1>1, FreeFacts DEF Empty, HookPcs, InstallPcs
<1>4. LifeInv'
  BY <1>1, <1>3, TypeFacts DEF LifeInv
<1> QED
  BY <1>1, <1>2, <1>3, <1>4, TypeFacts, ControlMoves DEF cfgVars, astVars

\* What the invariant says of one hook.
LEMMA OneHook ==
    ASSUME LinkInv, NEW h \in HookIds
    PROVE  /\ HookInv(h) /\ heap.hook[h].refs = OwnerCount(h)
           /\ heap.hook[h] \in Hooks
           /\ control.hook = h => heap.hook[h].refs >= 1
           /\ h \in relink.hooks => heap.hook[h].refs >= 1
           /\ h \in removed => heap.hook[h].refs >= 1
           /\ lease[h].on => heap.hook[h].refs >= 1
           /\ control.hook = h /\ h \in removed => heap.hook[h].refs >= 2
           /\ control.hook = h /\ h \in relink.hooks => heap.hook[h].refs >= 2
           /\ control.hook = h /\ lease[h].on => heap.hook[h].refs >= 2
           /\ lease[h].on /\ h \in relink.hooks => heap.hook[h].refs >= 2
           /\ h \in removed /\ h \in relink.hooks => heap.hook[h].refs >= 2
           /\ h \in removed /\ lease[h].on => heap.hook[h].refs >= 2
           /\ Bound(h) /\ control.hook = h => heap.hook[h].refs >= 2
           /\ Bound(h) => heap.hook[h].refs >= 1
<1>1. HookInv(h) /\ heap.hook[h].refs = OwnerCount(h) /\ heap.hook[h] \in Hooks
  BY TypeFacts DEF HooksInv, RefInv
<1>2. heap.hook[h].refs \in Int
  BY <1>1, HookFields
<1> QED
  BY <1>1, <1>2 DEF OwnerCount, Count

\* The operation drops its reference and goes on.  The hook may have been given
\* or refused a graph, or been taken off the audiohook list, before.
LEMMA GiveBack ==
    ASSUME LinkInv, UNCHANGED <<lifeVars, astVars, config, candidate, rate, relink, strays>>,
           NEW h \in HookIds, control.hook = h, control.pc \notin {"add", "free"},
           NEW hp \in Heaps,
           \A i \in HookIds : i # h => hp.hook[i] = heap.hook[i],
           hp.hook[h].refs = heap.hook[h].refs, hp.hook[h].att = heap.hook[h].att,
           hp.hook[h].profile = heap.hook[h].profile,
           hp.hook[h].listed => hp.hook[h].att = "attached",
           hp.hook[h].staged # NoGraph => hp.hook[h].pending,
           heap.hook[h].pending => hp.hook[h].pending,
           Spare(hp) = 0, heap' = Release(hp, h),
           control' \in Controls, Placed(control'), Empty', LifeInv'
    PROVE  LinkInv'
<1>1. /\ LinkTypes /\ ControlInv /\ LifeInv /\ HeldInv /\ DatastoreInv /\ RefInv
      /\ HooksInv /\ GraphInv /\ LeaseInv
  BY TypeFacts
<1>2. /\ life' = life /\ driver' = driver /\ running' = running /\ stop' = stop
      /\ scan' = scan /\ lease' = lease /\ ds' = ds /\ removed' = removed /\ fds' = fds
      /\ chan' = chan /\ relink' = relink
  BY DEF lifeVars, astVars
<1>3. /\ heap' \in Heaps /\ heap'.hook[h] = Released(hp.hook[h])
      /\ \A i \in HookIds : i # h => heap'.hook[i] = heap.hook[i]
      /\ Spare(heap') = 0
  BY ReleaseEffect
<1>4. LinkTypes'
  BY <1>1, <1>2, <1>3 DEF LinkTypes
<1>5. ControlInv'
  BY DEF ControlInv
<1>6. DatastoreInv'
  BY <1>1, <1>2 DEF DatastoreInv, Bound, Empty, HookPcs, InstallPcs
<1>7. \A i \in HookIds : control'.hook # i /\ i # 0
  BY TypeFacts DEF Empty
<1>8. hp.hook[h] \in Hooks
  BY HeapFields
<1>9. RefInv'
  <2> SUFFICES ASSUME NEW i \in HookIds
               PROVE  heap'.hook[i].refs = OwnerCount(i)'
    BY DEF RefInv
  <2>1. heap.hook[i].refs = OwnerCount(i)
    BY <1>1 DEF RefInv
  <2>2. CASE i = h
    <3>1. heap'.hook[h].refs = heap.hook[h].refs - 1
      BY <1>3, <1>8, ReleasedHook
    <3>2. OwnerCount(h)' = OwnerCount(h) - 1
      BY <1>2, <1>7 DEF OwnerCount, Count, Bound
    <3> QED
      BY <3>1, <3>2, <2>1, <2>2
  <2>3. CASE i # h
    <3>1. OwnerCount(i)' = OwnerCount(i)
      BY <1>2, <1>7, <2>3 DEF OwnerCount, Count, Bound
    <3> QED
      BY <3>1, <2>1, <2>3, <1>3
  <2> QED
    BY <2>2, <2>3
<1>10. HooksInv'
  <2> SUFFICES ASSUME NEW i \in HookIds
               PROVE  HookInv(i)'
    BY DEF HooksInv
  <2>1. HookInv(i)
    BY <1>1 DEF HooksInv
  <2>2. CASE i = h
    <3>1. CASE hp.hook[h].refs = 1
      <4>1. Gone(hp.hook[h], heap'.hook[h]) /\ heap'.hook[h].refs = 0
        BY <3>1, <1>3, <1>8, ReleasedHook
      <4>2. h \notin relink.hooks
        <5>1. control.hook = h /\ h \in relink.hooks => heap.hook[h].refs >= 2
          BY OneHook, Zenon
        <5> QED
          BY <5>1, <3>1
      <4> QED
        BY <4>1, <4>2, <2>2, <1>2, <1>7 DEF HookInv, Gone
    <3>2. CASE hp.hook[h].refs # 1
      <4>1. Same(hp.hook[h], heap'.hook[h]) /\ heap'.hook[h].refs = hp.hook[h].refs - 1
        BY <3>2, <1>3, <1>8, ReleasedHook
      <4>2. heap.hook[h].refs \in Int /\ heap.hook[h].refs >= 1
        BY OneHook, HookFields
      <4> QED
        BY <4>1, <4>2, <3>2, <2>1, <2>2, <1>2, <1>7 DEF HookInv, Same
    <3> QED
      BY <3>1, <3>2
  <2>3. CASE i # h
    BY <2>1, <2>3, <1>2, <1>3, <1>7 DEF HookInv
  <2> QED
    BY <2>2, <2>3
<1>11. GraphInv'
  BY <1>3 DEF GraphInv, Count, Empty
<1>12. LeaseInv'
  BY <1>1, <1>2 DEF LeaseInv, Ending, Empty, HookPcs, InstallPcs
<1> QED
  BY <1>4, <1>5, <1>6, <1>9, <1>10, <1>11, <1>12 DEF LinkInv, HeldInv

\* An operation takes a reference of a hook that a datastore holds.
LEMMA TakeUp ==
    ASSUME LinkInv, UNCHANGED <<lifeVars, astVars, config, candidate, rate, relink, strays>>,
           NEW h \in HookIds, Bound(h), Empty, heap' = Retain(heap, h),
           control' \in Controls, Placed(control'), control'.hook = h,
           control'.pc \in {"missing", "compare", "bound", "observe"}, LifeInv'
    PROVE  LinkInv'
<1>1. /\ LinkTypes /\ ControlInv /\ LifeInv /\ HeldInv /\ DatastoreInv /\ RefInv
      /\ HooksInv /\ GraphInv /\ LeaseInv /\ heap \in Heaps
  BY TypeFacts
<1>2. /\ life' = life /\ driver' = driver /\ running' = running /\ stop' = stop
      /\ scan' = scan /\ lease' = lease /\ ds' = ds /\ removed' = removed /\ fds' = fds
      /\ chan' = chan /\ relink' = relink
  BY DEF lifeVars, astVars
<1>3. /\ heap' \in Heaps /\ heap'.hook[h].refs = heap.hook[h].refs + 1
      /\ Same(heap.hook[h], heap'.hook[h])
      /\ \A i \in HookIds : i # h => heap'.hook[i] = heap.hook[i]
      /\ Spare(heap') = Spare(heap)
  BY <1>1, RetainEffect
<1>4. LinkTypes'
  BY <1>1, <1>2, <1>3 DEF LinkTypes
<1>5. ControlInv'
  BY DEF ControlInv
<1>6. DatastoreInv'
  BY <1>1, <1>2 DEF DatastoreInv, Bound
<1>7. \A i \in HookIds : control.hook # i /\ i # 0
  BY TypeFacts DEF Empty
<1>8. heap.hook[h].refs \in Int /\ heap.hook[h].refs >= 1
  BY OneHook, HookFields
<1>9. RefInv'
  <2> SUFFICES ASSUME NEW i \in HookIds
               PROVE  heap'.hook[i].refs = OwnerCount(i)'
    BY DEF RefInv
  <2>1. heap.hook[i].refs = OwnerCount(i)
    BY <1>1 DEF RefInv
  <2>2. CASE i = h
    <3>1. OwnerCount(h)' = OwnerCount(h) + 1
      BY <1>2, <1>7 DEF OwnerCount, Count, Bound
    <3> QED
      BY <3>1, <2>1, <2>2, <1>3
  <2>3. CASE i # h
    <3>1. OwnerCount(i)' = OwnerCount(i)
      BY <1>2, <1>7, <2>3 DEF OwnerCount, Count, Bound
    <3> QED
      BY <3>1, <2>1, <2>3, <1>3
  <2> QED
    BY <2>2, <2>3
<1>10. HooksInv'
  <2> SUFFICES ASSUME NEW i \in HookIds
               PROVE  HookInv(i)'
    BY DEF HooksInv
  <2>1. HookInv(i)
    BY <1>1 DEF HooksInv
  <2>2. CASE i = h
    BY <2>1, <2>2, <1>2, <1>3, <1>7, <1>8 DEF HookInv, Same, InstallPcs
  <2>3. CASE i # h
    BY <2>1, <2>3, <1>2, <1>3, <1>7 DEF HookInv
  <2> QED
    BY <2>2, <2>3
<1>11. GraphInv'
  <2>1. control'.graph = NoGraph
    BY DEF Placed
  <2> QED
    BY <2>1, <1>1, <1>3 DEF GraphInv, Count, Empty
<1>12. LeaseInv'
  BY <1>1, <1>2 DEF LeaseInv, Ending
<1> QED
  BY <1>4, <1>5, <1>6, <1>9, <1>10, <1>11, <1>12 DEF LinkInv, HeldInv

\* An operation looks at its next channel.
LEMMA VisitKeeps == ASSUME LinkInv, Visit PROVE LinkInv'
<1>1. PICK c \in control.todo :
          IF chan[c] = "up" \/ control.by = "bind"
          THEN Snapshot(c)
          ELSE control' = [control EXCEPT !.todo = @ \ {c}] /\ heap' = heap
  BY DEF Visit
<1>2. /\ UNCHANGED <<lifeVars, astVars, config, candidate, rate, relink, strays>>
      /\ control.by \in {"scan", "reload", "bind"} /\ control.pc = "visit"
  BY DEF Visit, cfgVars
<1>3. Empty /\ c \in LinkChannels
  BY <1>2, EmptyAt, TypeFacts DEF Controls
<1> DEFINE h == ds[c]
           step == [control EXCEPT !.todo = @ \ {c}, !.at = c, !.hz = rate[c]]
<1>4. rate[c] \in LinkHz /\ h \in HookIds \cup {0}
  BY <1>3, TypeFacts
<1>5. /\ step \in Controls /\ step.by = control.by /\ step.todo = control.todo \ {c}
      /\ step.at = c /\ step.pc = "visit" /\ step.hook = 0 /\ step.graph = NoGraph
      /\ step.want = control.want /\ Placed(step)
  <2>1. /\ step \in Controls /\ step.by = control.by /\ step.todo = control.todo \ {c}
        /\ step.at = c /\ step.pc = "visit" /\ step.hook = 0 /\ step.graph = NoGraph
        /\ step.want = control.want
    BY <1>2, <1>3, <1>4, TypeFacts DEF Controls, Empty
  <2> QED
    BY <2>1, <1>2, TypeFacts DEF Placed, HookPcs, InstallPcs
<1> HIDE DEF step
<1>6. \A i \in HookIds \cup {0}, pc \in Pcs :
         Hooked(step, i, pc, [step EXCEPT !.hook = i, !.pc = pc])
  BY <1>5, WithHook, Zenon
<1>7. CASE ~(chan[c] = "up" \/ control.by = "bind")
  <2>1. control' = [control EXCEPT !.todo = @ \ {c}] /\ heap' = heap
    BY <1>1, <1>7
  <2>2. /\ control' \in Controls /\ control'.by = control.by /\ control'.pc = "visit"
        /\ control'.hook = 0 /\ control'.graph = NoGraph /\ control'.want = control.want
    BY <2>1, <1>2, <1>3, TypeFacts DEF Controls, Empty
  <2>3. Placed(control') /\ Empty'
    BY <2>2, <1>2, TypeFacts DEF Placed, HookPcs, InstallPcs, Empty
  <2>4. LifeInv'
    BY <1>2, <2>2, TypeFacts DEF LifeInv, lifeVars
  <2> QED
    BY <1>2, <1>3, <2>1, <2>2, <2>3, <2>4, TypeFacts, ControlMoves DEF lifeVars, astVars
<1>8. CASE chan[c] = "up" \/ control.by = "bind"
  <2> DEFINE found == [scan |-> "missing", reload |-> "compare", bind |-> "bound"]
             uses == control.by # "scan" \/ c \in Eligible
             builds == \/ control.by = "bind"
                       \/ /\ control.by \in {"scan", "reload"} /\ control.want # NoProfile
                          /\ c \in Eligible
  <2>1. Snapshot(c)
    BY <1>1, <1>8
  <2>2. CASE h # 0 /\ uses
    <3>1. control' = [step EXCEPT !.hook = h, !.pc = found[control.by]] /\ heap' = Retain(heap, h)
      BY <2>1, <2>2 DEF Snapshot, step
    <3>2. h \in HookIds /\ Bound(h)
      BY <2>2, <1>3, <1>4 DEF Bound
    <3>3. found[control.by] \in {"missing", "compare", "bound"} /\ found[control.by] \in Pcs
      BY <1>2 DEF Pcs, HookPcs
    <3>4. /\ control' \in Controls /\ control'.by = control.by
          /\ control'.pc = found[control.by] /\ control'.hook = h /\ control'.graph = NoGraph
          /\ control'.want = control.want
      <4>1. Hooked(step, h, found[control.by], control')
        <5> HIDE DEF found, h
        <5> QED
          BY <3>1, <3>2, <3>3, <1>6, Zenon
      <4> HIDE DEF found, h
      <4> QED
        BY <4>1, <1>5 DEF Hooked
    <3>5. Placed(control')
      BY <3>2, <3>4, <1>2, <1>5, TypeFacts DEF Placed, HookPcs, InstallPcs
    <3>6. LifeInv'
      BY <1>2, <3>4, TypeFacts DEF LifeInv, lifeVars
    <3> QED
      BY <1>2, <1>3, <3>1, <3>2, <3>3, <3>4, <3>5, <3>6, TakeUp
  <2>3. CASE ~(h # 0 /\ uses)
    <3>1. /\ control' = IF h = 0 /\ builds THEN [step EXCEPT !.pc = "build"]
                                          ELSE NextVisit(step)
          /\ heap' = heap
      BY <2>1, <2>3 DEF Snapshot, step
    <3>2. CASE h = 0 /\ builds
      <4>1. control' = [step EXCEPT !.pc = "build"]
        BY <3>1, <3>2
      <4>2. /\ control' \in Controls /\ control'.by = control.by /\ control'.pc = "build"
            /\ control'.hook = 0 /\ control'.graph = NoGraph
            /\ control'.want = control.want /\ control'.at = c
        BY <4>1, <1>5, AtPlace, PlaceNames
      <4>3. control.want \in Profiles
        BY <3>2, <1>2, TypeFacts DEF Placed, Controls
      <4>4. Placed(control') /\ Empty'
        BY <4>2, <4>3, <1>2, <1>3 DEF Placed, HookPcs, InstallPcs, Empty
      <4>5. LifeInv'
        BY <1>2, <4>2, TypeFacts DEF LifeInv, lifeVars
      <4> QED
        BY <1>2, <1>3, <3>1, <4>2, <4>4, <4>5, TypeFacts, ControlMoves DEF lifeVars, astVars
    <3>3. CASE ~(h = 0 /\ builds)
      <4>1. control' = NextVisit(step)
        BY <3>1, <3>3
      <4>2. Onward(step, control')
        BY <4>1, <1>2, <1>5, NextVisitFacts
      <4>3. Empty'
        BY <4>2 DEF Onward, Empty
      <4>4. LifeInv'
        BY <1>2, <1>5, <4>2, TypeFacts DEF LifeInv, lifeVars, Onward
      <4> QED
        BY <1>2, <1>3, <3>1, <4>2, <4>3, <4>4, TypeFacts, ControlMoves
           DEF lifeVars, astVars, Onward
    <3> QED
      BY <3>2, <3>3
  <2> QED
    BY <2>2, <2>3
<1> QED
  BY <1>7, <1>8

\* Statistics look at a hook.
LEMMA StatisticsKeeps == ASSUME LinkInv, Statistics PROVE LinkInv'
<1>1. /\ UNCHANGED <<lifeVars, astVars, config, candidate, rate, relink, strays>>
      /\ control.by = "none" /\ running
  BY DEF Statistics, cfgVars
<1>2. PICK c \in Up :
          /\ ds[c] # 0
          /\ control' = [LinkOperation("stats", {}, NoProfile) EXCEPT
                        !.hook = ds[c], !.pc = "observe"]
          /\ heap' = Retain(heap, ds[c])
  BY DEF Statistics
<1>3. c \in LinkChannels /\ ds[c] \in HookIds /\ Bound(ds[c])
  BY <1>2, TypeFacts DEF Bound
<1>4. PICK p \in Controls : /\ p = LinkOperation("stats", {}, NoProfile) /\ p.by = "stats"
                            /\ p.graph = NoGraph
  <2>1. {} \in SUBSET LinkChannels /\ NoProfile \in Profiles \cup {NoProfile}
    OBVIOUS
  <2> QED
    BY <2>1, OperationFacts
<1>5. /\ control' \in Controls /\ control'.by = "stats" /\ control'.pc = "observe"
      /\ control'.hook = ds[c] /\ control'.graph = NoGraph
  <2>1. control' = [p EXCEPT !.hook = ds[c], !.pc = "observe"]
    BY <1>2, <1>4
  <2> QED
    BY <2>1, <1>3, <1>4 DEF Controls, Pcs, HookPcs
<1>6. Placed(control')
  BY <1>3, <1>5, TypeFacts DEF Placed, HookPcs, InstallPcs
<1>7. Empty
  BY <1>1, EmptyAt, TypeFacts DEF Placed
<1>8. LifeInv'
  BY <1>1, <1>5, TypeFacts DEF LifeInv, lifeVars
<1> QED
  BY <1>1, <1>2, <1>3, <1>5, <1>6, <1>7, <1>8, TakeUp

\* The heap with hook h written.
Put(hp, h, n) == [hook |-> [hp.hook EXCEPT ![h] = n], graphs |-> hp.graphs]

\* Replacing a hook replaces what it weighs.
LEMMA PutFacts ==
    ASSUME NEW hp \in Heaps, NEW h \in HookIds, NEW n \in Hooks
    PROVE  /\ Put(hp, h, n) \in Heaps /\ Put(hp, h, n).hook[h] = n
           /\ \A i \in HookIds : i # h => Put(hp, h, n).hook[i] = hp.hook[i]
           /\ Spare(hp) \in Int /\ Weight(hp.hook[h]) \in Nat /\ Weight(n) \in Nat
           /\ Spare(Put(hp, h, n)) = Spare(hp) + Weight(hp.hook[h]) - Weight(n)
<1>1. hp.hook \in [HookIds -> Hooks] /\ hp.graphs \in Int /\ hp.hook[h] \in Hooks
  BY HeapFields
<1> DEFINE q == Put(hp, h, n)
<1>2. q = [hook |-> [hp.hook EXCEPT ![h] = n], graphs |-> hp.graphs]
  BY DEF Put
<1> HIDE DEF q
<1>3. /\ q \in Heaps /\ q.hook[h] = n
      /\ \A i \in HookIds : i # h => q.hook[i] = hp.hook[i]
      /\ Spare(hp) \in Int
      /\ Spare(q) = Spare(hp) + (hp.graphs - hp.graphs) + Weight(hp.hook[h]) - Weight(n)
  BY <1>1, <1>2, HeapSet
<1>4. Weight(hp.hook[h]) \in Nat /\ Weight(n) \in Nat
  BY DEF Weight, Count
<1> QED
  BY <1>1, <1>3, <1>4 DEF q

\* The last of two replacements counts.
LEMMA PutTwice ==
    ASSUME NEW hp \in Heaps, NEW h \in HookIds, NEW n \in Hooks, NEW m \in Hooks
    PROVE  Put(Put(hp, h, n), h, m) = Put(hp, h, m)
<1>1. hp.hook \in [HookIds -> Hooks]
  BY HeapFields
<1> QED
  BY <1>1 DEF Put

\* Writing a field of a hook writes the hook.
LEMMA PutFields ==
    ASSUME NEW hp \in Heaps, NEW h \in HookIds
    PROVE  /\ \A v : [hp EXCEPT !.hook[h].active = v] =
                     Put(hp, h, [hp.hook[h] EXCEPT !.active = v])
           /\ \A v : [hp EXCEPT !.hook[h].staged = v] =
                     Put(hp, h, [hp.hook[h] EXCEPT !.staged = v])
           /\ \A v : [hp EXCEPT !.hook[h].stagedRate = v] =
                     Put(hp, h, [hp.hook[h] EXCEPT !.stagedRate = v])
           /\ \A v : [hp EXCEPT !.hook[h].clock = v] =
                     Put(hp, h, [hp.hook[h] EXCEPT !.clock = v])
           /\ \A v : [hp EXCEPT !.hook[h].att = v] =
                     Put(hp, h, [hp.hook[h] EXCEPT !.att = v])
           /\ \A b \in BOOLEAN : [hp EXCEPT !.hook[h].pending = b] =
                     Put(hp, h, [hp.hook[h] EXCEPT !.pending = b])
           /\ \A b \in BOOLEAN : [hp EXCEPT !.hook[h].bound = b] =
                     Put(hp, h, [hp.hook[h] EXCEPT !.bound = b])
           /\ \A b \in BOOLEAN : [hp EXCEPT !.hook[h].listed = b] =
                     Put(hp, h, [hp.hook[h] EXCEPT !.listed = b])
           /\ \A n : [hp EXCEPT !.hook[h] = n] = Put(hp, h, n)
BY DEF Heaps, Put

\* A hook with a field written.
LEMMA WrittenHook ==
    ASSUME NEW k \in Hooks
    PROVE  /\ \A g \in Graphs : [k EXCEPT !.active = g] \in Hooks
           /\ \A g \in Graphs : [k EXCEPT !.staged = g] \in Hooks
           /\ \A r \in LinkHz : [k EXCEPT !.stagedRate = r] \in Hooks
           /\ \A r \in LinkHz : [k EXCEPT !.clock = r] \in Hooks
           /\ \A b \in BOOLEAN : [k EXCEPT !.pending = b] \in Hooks
           /\ \A b \in BOOLEAN : [k EXCEPT !.bound = b] \in Hooks
           /\ \A b \in BOOLEAN : [k EXCEPT !.listed = b] \in Hooks
           /\ [k EXCEPT !.att = "attached"] \in Hooks
<1>1. \A g \in Graphs : [k EXCEPT !.active = g] \in Hooks /\ [k EXCEPT !.staged = g] \in Hooks
  BY DEF Hooks
<1>2. \A r \in LinkHz : [k EXCEPT !.stagedRate = r] \in Hooks /\ [k EXCEPT !.clock = r] \in Hooks
  BY DEF Hooks
<1>3. \A b \in BOOLEAN : [k EXCEPT !.pending = b] \in Hooks /\ [k EXCEPT !.bound = b] \in Hooks
                         /\ [k EXCEPT !.listed = b] \in Hooks
  BY DEF Hooks
<1>4. [k EXCEPT !.att = "attached"] \in Hooks
  BY DEF Hooks
<1> QED
  BY <1>1, <1>2, <1>3, <1>4

\* A step within an operation keeps what holds of the module's life.
LEMMA LifeSame ==
    ASSUME LinkInv, UNCHANGED lifeVars, relink'.pc = relink.pc,
           relink'.hooks # {} => relink.pc = "staging",
           control'.by = control.by
    PROVE  LifeInv'
BY TypeFacts DEF LifeInv, lifeVars

\* Where NextVisit and Failed lead from an operation with a hook.
LEMMA MovesOn ==
    ASSUME LinkInv, control.by \in {"scan", "reload", "bind", "stop"},
           control' \in {NextVisit(control), Failed(control)}
    PROVE  /\ control' \in Controls /\ Placed(control') /\ Empty' /\ control'.by = control.by
           /\ control'.todo \subseteq control.todo
<1>1. Onward(control, control')
  BY TypeFacts, NextVisitFacts
<1> QED
  BY <1>1 DEF Onward, Empty

\* What the invariant says of the hook an operation is at.
LEMMA AtHook ==
    ASSUME LinkInv, control.pc \in HookPcs
    PROVE  control.hook \in HookIds /\ heap.hook[control.hook] \in Hooks
           /\ HookInv(control.hook) /\ heap.hook[control.hook].refs >= 1
           /\ heap.hook[control.hook].profile \in Profiles
<1>1. control.hook \in HookIds
  BY TypeFacts DEF Placed, Controls
<1>2. /\ HookInv(control.hook) /\ heap.hook[control.hook].refs >= 1
      /\ heap.hook[control.hook] \in Hooks
  BY <1>1, OneHook
<1>3. heap.hook[control.hook].refs \in Int
  BY <1>2, HookFields
<1> QED
  BY <1>1, <1>2, <1>3 DEF HookInv

\* The reference goes back and nothing else happened to the hook.
LEMMA GiveBackPlain ==
    ASSUME LinkInv, UNCHANGED <<lifeVars, astVars, config, candidate, rate, relink, strays>>,
           control.pc \in HookPcs \ {"add", "free", "cas", "publish"},
           heap' = Release(heap, control.hook),
           control' \in Controls, Placed(control'), Empty', LifeInv'
    PROVE  LinkInv'
<1> DEFINE h == control.hook
<1>1. h \in HookIds /\ HookInv(h) /\ heap \in Heaps
  BY AtHook, TypeFacts
<1>2. heap.hook[h].listed => heap.hook[h].att = "attached"
  BY <1>1 DEF HookInv
<1>3. heap.hook[h].staged # NoGraph => heap.hook[h].pending
  BY <1>1 DEF HookInv
<1>4. Spare(heap) = 0
  BY TypeFacts DEF GraphInv, Count, Placed
<1> QED
  BY <1>1, <1>2, <1>3, <1>4, GiveBack

\* A graph is made from the candidate by a reload, from the configuration by
\* the others.
LEMMA GraphMade ==
    ASSUME LinkInv, NEW by, NEW p \in Profiles, NEW hz \in LinkHz
    PROVE  /\ GraphFor(by, p, hz) \in Graphs /\ GraphFor(by, p, hz) # NoGraph
           /\ GraphFor(by, p, hz).rate = hz /\ GraphFor(by, p, hz).profile = p
           /\ GraphFor(by, p, hz).desc =
                 (IF by = "reload" THEN candidate[p] ELSE config[p])
<1>1. config[p] \in Descriptions /\ candidate[p] \in Descriptions
  BY TypeFacts
<1>2. \A d \in Descriptions : d # 0
  BY LinkConstants
<1> QED
  BY <1>1, <1>2 DEF GraphFor, Graphs, NoGraph

\* A hook without a graph gets one prepared.
LEMMA PrepareMissingKeeps == ASSUME LinkInv, PrepareMissing PROVE LinkInv'
<1> DEFINE h == control.hook
           k == heap.hook[h]
           profile == IF k.bound THEN k.profile ELSE control.want
<1>1. /\ UNCHANGED <<lifeVars, astVars, config, candidate, rate, relink, strays>>
      /\ control.pc = "missing"
      /\ \/ /\ k.active = NoGraph
            /\ control' = [control EXCEPT !.pc = "publish",
                                    !.graph = GraphFor("scan", profile, control.hz)]
            /\ heap' = Prepared(heap)
         \/ heap' = Release(heap, h) /\ control' = NextVisit(control)
  BY DEF PrepareMissing, cfgVars
<1>2. h \in HookIds /\ HookInv(h) /\ k \in Hooks /\ k.refs >= 1 /\ k.profile \in Profiles
      /\ control.by = "scan" /\ control.want \in Profiles /\ control \in Controls
      /\ control.hz \in LinkHz /\ control.graph = NoGraph /\ h # 0
  <2>1. control.pc \in HookPcs
    BY <1>1 DEF HookPcs
  <2> QED
    BY <2>1, <1>1, AtHook, TypeFacts DEF Placed, Controls
<1>3. CASE heap' = Release(heap, h) /\ control' = NextVisit(control)
  <2>1. /\ control' \in Controls /\ Placed(control') /\ Empty' /\ control'.by = control.by
    BY <1>2, <1>3, MovesOn
  <2>2. LifeInv'
    BY <1>1, <2>1, TypeFacts DEF LifeInv, lifeVars
  <2>3. control.pc \in HookPcs \ {"add", "free", "cas", "publish"}
    BY <1>1 DEF HookPcs
  <2> QED
    BY <1>1, <1>3, <2>1, <2>2, <2>3, GiveBackPlain
<1>4. CASE /\ k.active = NoGraph
           /\ control' = [control EXCEPT !.pc = "publish",
                                    !.graph = GraphFor("scan", profile, control.hz)]
           /\ heap' = Prepared(heap)
  <2> DEFINE g == GraphFor("scan", profile, control.hz)
  <2>1. profile \in Profiles
    BY <1>2
  <2>2. g \in Graphs /\ g # NoGraph
    BY <1>2, <2>1, GraphMade
  <2> HIDE DEF g, profile
  <2>3. /\ control' \in Controls /\ control'.by = "scan" /\ control'.pc = "publish"
        /\ control'.hook = h /\ control'.graph = g /\ control'.want = control.want
        /\ control'.at = control.at
    <3>1. control' = [control EXCEPT !.pc = "publish", !.graph = g] /\ "publish" \in Pcs
      BY <1>4, PlaceNames DEF g
    <3> QED
      BY <3>1, <2>2, <1>2 DEF Controls
  <2>4. Placed(control')
    BY <2>2, <2>3, <1>2 DEF Placed, HookPcs, InstallPcs
  <2>5. LifeInv'
    BY <1>1, <1>2, <2>3, TypeFacts DEF LifeInv, lifeVars
  <2>6. /\ life' = life /\ driver' = driver /\ running' = running /\ stop' = stop
      /\ scan' = scan /\ lease' = lease /\ ds' = ds /\ removed' = removed /\ fds' = fds
      /\ chan' = chan /\ relink' = relink
    BY <1>1 DEF lifeVars, astVars
  <2>7. /\ heap' \in Heaps /\ heap'.hook = heap.hook /\ Spare(heap') = Spare(heap) + 1
        /\ Spare(heap) = 0
    BY <1>2, <1>4, PreparedEffect, TypeFacts DEF GraphInv, Count
  <2>8. LinkTypes'
    BY <1>1, <2>3, <2>6, <2>7, TypeFacts DEF LinkTypes
  <2>9. DatastoreInv'
    BY <2>3, <2>6, TypeFacts DEF DatastoreInv, Bound
  <2>10. RefInv'
    BY <1>1, <2>3, <2>6, <2>7, TypeFacts DEF RefInv, OwnerCount, Count, Bound
  <2>11. HooksInv'
    <3> SUFFICES ASSUME NEW i \in HookIds
                 PROVE  HookInv(i)'
      BY DEF HooksInv
    <3>1. HookInv(i)
      BY TypeFacts DEF HooksInv
    <3> QED
      BY <3>1, <1>1, <1>4, <2>3, <2>6, <2>7 DEF HookInv, InstallPcs
  <2>12. GraphInv'
    BY <2>2, <2>3, <2>7 DEF GraphInv, Count
  <2>13. LeaseInv'
    BY <2>3, <2>6, TypeFacts DEF LeaseInv, Ending
  <2> QED
    BY <2>4, <2>5, <2>8, <2>9, <2>10, <2>11, <2>12, <2>13 DEF LinkInv, HeldInv, ControlInv
<1> QED
  BY <1>1, <1>3, <1>4

\* A binding finds a hook on its channel.
LEMMA BindFoundKeeps == ASSUME LinkInv, BindFound PROVE LinkInv'
<1> DEFINE h == control.hook
           k == heap.hook[h]
           b == k.bound \/ (k.profile = control.want /\ k.att = "attached")
           hp == [heap EXCEPT !.hook[h].bound = b]
<1>1. /\ UNCHANGED <<lifeVars, astVars, config, candidate, rate, relink, strays>>
      /\ control.pc = "bound" /\ control' = NextVisit(control)
  BY DEF BindFound, cfgVars
<1>2. heap' = Release(hp, h)
  <2>1. heap' = Release([heap EXCEPT !.hook[h].bound =
                             @ \/ (k.profile = control.want /\ k.att = "attached")], h)
    BY DEF BindFound
  <2> QED
    BY <2>1, Zenon
<1>3. /\ h \in HookIds /\ HookInv(h) /\ k \in Hooks /\ control.by = "bind"
      /\ heap \in Heaps /\ Spare(heap) = 0
  <2>1. control.pc \in HookPcs
    BY <1>1 DEF HookPcs
  <2> QED
    BY <2>1, <1>1, AtHook, TypeFacts DEF Placed, GraphInv, Count
<1>4. b \in BOOLEAN
  BY <1>3, HookFields
<1> DEFINE n == [k EXCEPT !.bound = b]
<1>5. n \in Hooks /\ n.refs = k.refs /\ n.att = k.att /\ n.profile = k.profile
      /\ n.listed = k.listed /\ n.staged = k.staged /\ n.pending = k.pending
      /\ n.active = k.active
  <2> HIDE DEF b
  <2> QED
    BY <1>3, <1>4 DEF Hooks
<1>6. hp = Put(heap, h, n)
  <2> HIDE DEF b
  <2> QED
    <3>1. \A v \in BOOLEAN : [heap EXCEPT !.hook[h].bound = v] =
                     Put(heap, h, [heap.hook[h] EXCEPT !.bound = v])
      BY <1>3, PutFields
    <3> QED
      BY <3>1, <1>4, Zenon
<1> HIDE DEF n, hp, b
<1>7. /\ hp \in Heaps /\ hp.hook[h] = n
      /\ \A i \in HookIds : i # h => hp.hook[i] = heap.hook[i]
      /\ Spare(hp) = 0
  <2>1. Weight(n) = Weight(k) /\ Weight(k) \in Int
    BY <1>5 DEF Weight, Count
  <2> QED
    BY <2>1, <1>3, <1>5, <1>6, PutFacts
<1>8. /\ control' \in Controls /\ Placed(control') /\ Empty' /\ control'.by = control.by
  BY <1>1, <1>3, MovesOn
<1>9. LifeInv'
  BY <1>1, <1>8, TypeFacts DEF LifeInv, lifeVars
<1>10. /\ n.listed => n.att = "attached"
       /\ n.staged # NoGraph => n.pending
  BY <1>1, <1>3, <1>5 DEF HookInv
<1> QED
  BY <1>1, <1>2, <1>3, <1>5, <1>7, <1>8, <1>9, <1>10, GiveBack

\* The statistics of a hook are read.
LEMMA ObserveKeeps == ASSUME LinkInv, Observe PROVE LinkInv'
<1>1. /\ UNCHANGED <<lifeVars, astVars, config, candidate, rate, relink, strays>>
      /\ control.pc = "observe" /\ control' = Free /\ heap' = Release(heap, control.hook)
  BY DEF Observe, cfgVars
<1>2. Placed(control') /\ Empty' /\ control' \in Controls /\ control'.by = "none"
  BY <1>1, FreeFacts DEF Empty, HookPcs, InstallPcs
<1>3. control.by = "stats"
  BY <1>1, TypeFacts DEF Placed
<1>4. LifeInv'
  BY <1>1, <1>2, <1>3, TypeFacts DEF LifeInv, lifeVars
<1>5. control.pc \in HookPcs \ {"add", "free", "cas", "publish"}
  BY <1>1 DEF HookPcs
<1> QED
  BY <1>1, <1>2, <1>4, <1>5, GiveBackPlain

\* The prepared graph is published.
LEMMA PublishMissingKeeps == ASSUME LinkInv, PublishMissing PROVE LinkInv'
<1> DEFINE h == control.hook
           k == heap.hook[h]
           g == control.graph
           n == [[k EXCEPT !.active = g] EXCEPT !.clock = control.hz]
           set == [heap EXCEPT !.hook[h].active = control.graph,
                               !.hook[h].clock = control.hz]
           hp == IF k.att = "attached" THEN set ELSE Destroyed(heap, g)
<1>1. /\ UNCHANGED <<lifeVars, astVars, config, candidate, rate, relink, strays>>
      /\ control.pc = "publish" /\ control' = NextVisit(control)
      /\ heap' = Release(hp, h)
  BY DEF PublishMissing, cfgVars
<1>2. /\ h \in HookIds /\ HookInv(h) /\ k \in Hooks /\ control.by = "scan"
      /\ heap \in Heaps /\ Spare(heap) = 1 /\ g \in Graphs /\ g # NoGraph
      /\ control.hz \in LinkHz /\ k.active = NoGraph
  <2>1. control.pc \in HookPcs
    BY <1>1 DEF HookPcs
  <2> QED
    BY <2>1, <1>1, AtHook, TypeFacts DEF Placed, GraphInv, Count, Controls, HookInv
<1>3. n \in Hooks /\ n.refs = k.refs /\ n.att = k.att /\ n.profile = k.profile
      /\ n.listed = k.listed /\ n.staged = k.staged /\ n.pending = k.pending
      /\ n.active = g
  <2> HIDE DEF g
  <2> QED
    BY <1>2 DEF Hooks
<1>4. set = Put(heap, h, n)
  <2> DEFINE m == [k EXCEPT !.active = g]
             q == [heap EXCEPT !.hook[h].active = g]
  <2>1. m \in Hooks
    BY <1>2, WrittenHook
  <2>2. q = Put(heap, h, m)
    BY <1>2, PutFields
  <2>3. q \in Heaps /\ q.hook[h] = m
    <3> HIDE DEF m, q
    <3> QED
      BY <1>2, <2>1, <2>2, PutFacts
  <2>4. set = [q EXCEPT !.hook[h].clock = control.hz]
    OBVIOUS
  <2>5. [q EXCEPT !.hook[h].clock = control.hz] =
           Put(q, h, [q.hook[h] EXCEPT !.clock = control.hz])
    <3> HIDE DEF q
    <3> QED
      BY <1>2, <2>3, PutFields
  <2>6. Put(q, h, n) = Put(heap, h, n)
    <3> HIDE DEF m, q, n
    <3> QED
      BY <1>2, <1>3, <2>1, <2>2, PutTwice
  <2>7. n = [q.hook[h] EXCEPT !.clock = control.hz]
    <3> HIDE DEF q
    <3> QED
      BY <2>3
  <2> HIDE DEF q, n, m, set
  <2> QED
    BY <2>4, <2>5, <2>6, <2>7
<1> HIDE DEF n, set
<1>5. Weight(n) = Weight(k) + 1 /\ Weight(k) \in Nat
  BY <1>2, <1>3 DEF Weight, Count
<1>6. /\ hp \in Heaps
      /\ \A i \in HookIds : i # h => hp.hook[i] = heap.hook[i]
      /\ Spare(hp) = 0 /\ hp.hook[h].refs = k.refs /\ hp.hook[h].att = k.att
      /\ hp.hook[h].profile = k.profile /\ hp.hook[h].listed = k.listed
      /\ hp.hook[h].staged = k.staged /\ hp.hook[h].pending = k.pending
  <2>1. CASE k.att = "attached"
    <3>1. hp = Put(heap, h, n)
      BY <2>1, <1>4
    <3>2. /\ hp \in Heaps /\ hp.hook[h] = n
          /\ \A i \in HookIds : i # h => hp.hook[i] = heap.hook[i]
          /\ Spare(hp) = Spare(heap) + Weight(k) - Weight(n)
      <4> HIDE DEF hp
      <4> QED
        BY <3>1, <1>2, <1>3, PutFacts
    <3> HIDE DEF hp
    <3> QED
      BY <3>2, <1>2, <1>3, <1>5
  <2>2. CASE k.att # "attached"
    <3>1. hp = [heap EXCEPT !.graphs = @ - 1]
      BY <2>2, <1>2 DEF Destroyed
    <3> HIDE DEF hp
    <3>2. /\ hp \in Heaps /\ hp.hook = heap.hook /\ hp.graphs = heap.graphs - 1
          /\ heap.graphs \in Int
      BY <3>1, <1>2 DEF Heaps
    <3>3. Held(hp) = Held(heap)
      BY <3>2 DEF Held
    <3>4. Held(heap) \in Nat
      BY <1>2, HeldStep
    <3> QED
      BY <3>2, <3>3, <3>4, <1>2 DEF Spare
  <2> QED
    BY <2>1, <2>2
<1>7. /\ control' \in Controls /\ Placed(control') /\ Empty' /\ control'.by = control.by
  BY <1>1, <1>2, MovesOn
<1>8. LifeInv'
  BY <1>1, <1>7, TypeFacts DEF LifeInv, lifeVars
<1>9. /\ k.listed => k.att = "attached"
      /\ k.staged # NoGraph => k.pending
  BY <1>1, <1>2 DEF HookInv
<1> HIDE DEF hp
<1>10. control.pc \notin {"add", "free"}
  BY <1>1
<1>11. /\ hp.hook[h].listed => hp.hook[h].att = "attached"
       /\ hp.hook[h].staged # NoGraph => hp.hook[h].pending
       /\ k.pending => hp.hook[h].pending
  BY <1>6, <1>9, Zenon
<1> QED
  BY <1>1, <1>2, <1>6, <1>7, <1>8, <1>10, <1>11, GiveBack

\* The operation keeps its hook and goes to another place; hooks that do not
\* matter to the bookkeeping may have been written.
LEMMA Proceeds ==
    ASSUME LinkInv, UNCHANGED <<lifeVars, astVars, config, candidate, rate, relink, strays>>,
           control.hook # 0, control' = [control EXCEPT !.pc = control'.pc],
           control.pc \notin {"add", "publish"}, control'.pc \notin {"add", "publish"},
           control'.pc \in Pcs, Placed(control'),
           control'.pc \in {"attach", "cas", "lease"} => control.pc \in {"attach", "cas", "lease"},
           heap' \in Heaps, Spare(heap') = Spare(heap),
           \A i \in HookIds : heap'.hook[i].refs = heap.hook[i].refs,
           \A i \in HookIds : HookInv(i)'
    PROVE  LinkInv'
<1>1. /\ control' \in Controls /\ control'.by = control.by /\ control'.hook = control.hook
      /\ control'.graph = control.graph /\ control'.at = control.at
  BY TypeFacts DEF Controls
<1>2. /\ life' = life /\ driver' = driver /\ running' = running /\ stop' = stop
      /\ scan' = scan /\ lease' = lease /\ ds' = ds /\ removed' = removed /\ fds' = fds
      /\ chan' = chan /\ relink' = relink
  BY DEF lifeVars, astVars
<1>3. LifeInv'
  BY <1>1, <1>2, TypeFacts DEF LifeInv
<1>4. LinkTypes'
  BY <1>1, <1>2, TypeFacts DEF LinkTypes
<1>5. DatastoreInv'
  BY <1>1, <1>2, TypeFacts DEF DatastoreInv, Bound
<1>6. RefInv'
  BY <1>1, <1>2, TypeFacts DEF RefInv, OwnerCount, Count, Bound
<1>7. HooksInv'
  BY DEF HooksInv
<1>8. GraphInv'
  BY <1>1, TypeFacts DEF GraphInv
<1>9. LeaseInv'
  BY <1>1, <1>2, TypeFacts DEF LeaseInv, Ending
<1> QED
  BY <1>3, <1>4, <1>5, <1>6, <1>7, <1>8, <1>9 DEF LinkInv, HeldInv, ControlInv

\* A reload compares the description a hook runs.
LEMMA CompareKeeps == ASSUME LinkInv, Compare PROVE LinkInv'
<1> DEFINE h == control.hook
           k == heap.hook[h]
<1>1. /\ UNCHANGED <<lifeVars, astVars, config, candidate, rate, relink, strays>>
      /\ control.pc = "compare"
      /\ \/ /\ heap' = Release(heap, h)
            /\ control' \in {NextVisit(control), Failed(control)}
         \/ /\ ~k.pending /\ control' = [control EXCEPT !.pc = "stage"] /\ heap' = heap
  BY DEF Compare, cfgVars
<1>2. h \in HookIds /\ HookInv(h) /\ k \in Hooks /\ control.by = "reload"
      /\ control \in Controls /\ h # 0 /\ heap \in Heaps
  <2>1. control.pc \in HookPcs
    BY <1>1 DEF HookPcs
  <2> QED
    BY <2>1, <1>1, AtHook, TypeFacts DEF Placed
<1>3. CASE heap' = Release(heap, h) /\ control' \in {NextVisit(control), Failed(control)}
  <2>1. /\ control' \in Controls /\ Placed(control') /\ Empty' /\ control'.by = control.by
    BY <1>2, <1>3, MovesOn
  <2>2. LifeInv'
    BY <1>1, <2>1, TypeFacts DEF LifeInv, lifeVars
  <2>3. control.pc \in HookPcs \ {"add", "free", "cas", "publish"}
    BY <1>1 DEF HookPcs
  <2> QED
    BY <1>1, <1>3, <2>1, <2>2, <2>3, GiveBackPlain
<1>4. CASE ~k.pending /\ control' = [control EXCEPT !.pc = "stage"] /\ heap' = heap
  <2>1. control'.pc = "stage" /\ control'.by = "reload" /\ control'.hook = h
        /\ control'.graph = control.graph /\ control'.at = control.at
        /\ control'.want = control.want
    BY <1>2, <1>4, AtPlace, PlaceNames
  <2>2. Placed(control')
    BY <2>1, <1>1, <1>2, TypeFacts DEF Placed, HookPcs, InstallPcs
  <2>3. ASSUME NEW i \in HookIds PROVE HookInv(i)'
    <3>1. HookInv(i) /\ relink' = relink /\ lease' = lease
      BY <1>1, TypeFacts DEF HooksInv, astVars
    <3> QED
      BY <3>1, <1>1, <1>4, <2>1 DEF HookInv, InstallPcs
  <2> QED
    BY <1>1, <1>2, <1>4, <2>1, <2>2, <2>3, PlaceNames, Proceeds
<1> QED
  BY <1>1, <1>3, <1>4

\* A hook that the step does not touch.
LEMMA OtherHook ==
    ASSUME LinkInv, NEW h \in HookIds \cup {0}, NEW i \in HookIds, i # h,
           control.hook \in {h, 0}, control'.hook \in {h, 0},
           heap'.hook[i] = heap.hook[i], i \in relink'.hooks <=> i \in relink.hooks,
           lease'[i].on <=> lease[i].on, i \in removed' <=> i \in removed,
           Bound(i)' <=> Bound(i)
    PROVE  HookInv(i)' /\ heap'.hook[i].refs = OwnerCount(i)'
<1>1. HookInv(i) /\ heap.hook[i].refs = OwnerCount(i) /\ i # 0
  BY OneHook, TypeFacts
<1>2. control.hook # i /\ control'.hook # i
  BY <1>1
<1>3. HookInv(i)'
  BY <1>1, <1>2 DEF HookInv
<1>4. OwnerCount(i)' = OwnerCount(i)
  BY <1>2 DEF OwnerCount, Count
<1> QED
  BY <1>1, <1>3, <1>4

\* A reload stages a graph on a hook.
LEMMA StageKeeps == ASSUME LinkInv, Stage PROVE LinkInv'
<1> DEFINE h == control.hook
           k == heap.hook[h]
           g == GraphFor("reload", k.profile, control.hz)
           hp == [heap EXCEPT !.hook[h].pending = TRUE, !.hook[h].staged = g,
                              !.hook[h].stagedRate = control.hz]
           n == [[[k EXCEPT !.pending = TRUE] EXCEPT !.staged = g]
                    EXCEPT !.stagedRate = control.hz]
<1>1. /\ UNCHANGED <<lifeVars, astVars, config, candidate, rate, strays>>
      /\ control.pc = "stage"
      /\ \/ /\ heap' = Prepared(hp) /\ relink' = [relink EXCEPT !.hooks = @ \cup {h}]
            /\ control' = NextVisit(control)
         \/ heap' = Release(heap, h) /\ control' = Failed(control) /\ relink' = relink
  BY DEF Stage, cfgVars
<1>2. h \in HookIds /\ HookInv(h) /\ k \in Hooks /\ control.by = "reload"
      /\ control \in Controls /\ h # 0 /\ heap \in Heaps /\ ~k.pending
      /\ k.profile \in Profiles /\ control.hz \in LinkHz /\ k.refs >= 1 /\ Spare(heap) = 0
      /\ h \notin relink.hooks /\ k.staged = NoGraph
  <2>1. control.pc \in HookPcs
    BY <1>1 DEF HookPcs
  <2> QED
    BY <2>1, <1>1, AtHook, TypeFacts DEF Placed, Controls, HookInv, GraphInv, Count
<1>3. CASE heap' = Release(heap, h) /\ control' = Failed(control) /\ relink' = relink
  <2>1. /\ control' \in Controls /\ Placed(control') /\ Empty' /\ control'.by = control.by
    BY <1>2, <1>3, MovesOn
  <2>2. LifeInv'
    BY <1>1, <1>3, <2>1, TypeFacts DEF LifeInv, lifeVars
  <2>3. control.pc \in HookPcs \ {"add", "free", "cas", "publish"}
    BY <1>1 DEF HookPcs
  <2> QED
    BY <1>1, <1>3, <2>1, <2>2, <2>3, GiveBackPlain
<1>4. CASE /\ heap' = Prepared(hp) /\ relink' = [relink EXCEPT !.hooks = @ \cup {h}]
           /\ control' = NextVisit(control)
  <2>1. g \in Graphs /\ g # NoGraph
    BY <1>2, GraphMade
  <2> DEFINE t == TRUE
             k1 == [k EXCEPT !.pending = t]
             k2 == [k1 EXCEPT !.staged = g]
             k3 == [k2 EXCEPT !.stagedRate = control.hz]
  <2> HIDE DEF g
  <2>2. t \in BOOLEAN /\ n = k3 /\ hp = [[[heap EXCEPT !.hook[h].pending = t]
                                    EXCEPT !.hook[h].staged = g]
                                    EXCEPT !.hook[h].stagedRate = control.hz]
    BY Zenon
  <2> HIDE DEF t, n
  <2>3. k1 \in Hooks /\ k1.refs = k.refs /\ k1.att = k.att /\ k1.profile = k.profile
        /\ k1.listed = k.listed /\ k1.staged = k.staged /\ k1.active = k.active
        /\ k1.pending = t
    BY <1>2, <2>2 DEF Hooks
  <2> HIDE DEF k1
  <2>4. k2 \in Hooks /\ k2.refs = k.refs /\ k2.att = k.att /\ k2.profile = k.profile
        /\ k2.listed = k.listed /\ k2.staged = g /\ k2.active = k.active
        /\ k2.pending = t
    BY <2>1, <2>3 DEF Hooks
  <2> HIDE DEF k2
  <2>5. k3 \in Hooks /\ k3.refs = k.refs /\ k3.att = k.att /\ k3.profile = k.profile
        /\ k3.listed = k.listed /\ k3.staged = g /\ k3.active = k.active
        /\ k3.pending = t
    BY <1>2, <2>4 DEF Hooks
  <2> HIDE DEF k3
  <2>6. hp = Put(heap, h, k3)
    <3> DEFINE h1 == [heap EXCEPT !.hook[h].pending = t]
               h2 == [h1 EXCEPT !.hook[h].staged = g]
               h3 == [h2 EXCEPT !.hook[h].stagedRate = control.hz]
    <3>1. h1 = Put(heap, h, k1)
      <4>1. \A v \in BOOLEAN : [heap EXCEPT !.hook[h].pending = v] =
                     Put(heap, h, [heap.hook[h] EXCEPT !.pending = v])
        BY <1>2, PutFields
      <4> QED
        BY <4>1, <2>2, Zenon DEF k1
    <3> HIDE DEF h1
    <3>2. h1 \in Heaps /\ h1.hook[h] = k1
      BY <3>1, <1>2, <2>3, PutFacts
    <3>3. h2 = Put(h1, h, k2)
      BY <3>2, <1>2, PutFields DEF k2
    <3> HIDE DEF h2
    <3>4. h2 \in Heaps /\ h2.hook[h] = k2
      BY <3>2, <3>3, <1>2, <2>4, PutFacts
    <3>5. h3 = Put(h2, h, k3)
      BY <3>4, <1>2, PutFields DEF k3
    <3>6. h2 = Put(heap, h, k2)
      BY <3>1, <3>3, <1>2, <2>3, <2>4, PutTwice
    <3>7. h3 = Put(heap, h, k3)
      BY <3>5, <3>6, <1>2, <2>4, <2>5, PutTwice
    <3> QED
      BY <2>2, <3>7, Zenon DEF h3, h2, h1
  <2> HIDE DEF hp
  <2>7. Weight(k3) = Weight(k) + 1 /\ Weight(k) \in Nat
    BY <1>2, <2>1, <2>5 DEF Weight, Count
  <2>8. /\ hp \in Heaps /\ hp.hook[h] = k3 /\ Spare(hp) = 0 - 1
        /\ \A i \in HookIds : i # h => hp.hook[i] = heap.hook[i]
    BY <1>2, <2>5, <2>6, <2>7, PutFacts
  <2>9. /\ heap' \in Heaps /\ heap'.hook = hp.hook /\ Spare(heap') = 0
    <3>1. heap' = Prepared(hp)
      BY <1>4
    <3>2. /\ Prepared(hp) \in Heaps /\ Prepared(hp).hook = hp.hook
          /\ Spare(Prepared(hp)) = Spare(hp) + 1
      BY <2>8, PreparedEffect
    <3> QED
      BY <3>1, <3>2, <2>8
  <2>10. /\ control' \in Controls /\ Placed(control') /\ Empty' /\ control'.by = control.by
    BY <1>2, <1>4, MovesOn
  <2>11. relink' \in Relinks /\ relink'.hooks = relink.hooks \cup {h} /\ relink'.pc = relink.pc
    BY <1>2, <1>4, TypeFacts DEF Relinks
  <2>12. LifeInv'
    BY <1>1, <1>2, <2>10, <2>11, TypeFacts DEF LifeInv, lifeVars
  <2>13. /\ life' = life /\ driver' = driver /\ running' = running /\ stop' = stop
        /\ scan' = scan /\ lease' = lease /\ ds' = ds /\ removed' = removed /\ fds' = fds
        /\ chan' = chan
    BY <1>1 DEF lifeVars, astVars
  <2>14. LinkTypes'
    BY <1>1, <2>9, <2>10, <2>11, <2>13, TypeFacts DEF LinkTypes, Relinks
  <2>15. DatastoreInv'
    BY <2>10, <2>13, TypeFacts DEF DatastoreInv, Bound, Empty, HookPcs, InstallPcs
  <2>16. ASSUME NEW i \in HookIds
         PROVE  HookInv(i)' /\ heap'.hook[i].refs = OwnerCount(i)'
    <3>1. CASE i # h
      <4>1. /\ heap'.hook[i] = heap.hook[i] /\ (i \in relink'.hooks <=> i \in relink.hooks)
            /\ (Bound(i)' <=> Bound(i)) /\ control'.hook = 0
        BY <3>1, <2>8, <2>9, <2>10, <2>11, <2>13 DEF Bound, Empty
      <4> QED
        BY <3>1, <4>1, <1>2, <2>13, OtherHook
    <3>2. CASE i = h
      <4>1. /\ control'.hook # i /\ heap.hook[i].refs = OwnerCount(i) /\ heap'.hook[i] = k3
            /\ control.hook = i /\ HookInv(i) /\ i # 0
        BY <3>2, <1>2, <2>8, <2>9, <2>10, OneHook DEF Empty
      <4>2. OwnerCount(i)' = OwnerCount(i)
        BY <3>2, <4>1, <1>1, <1>2, <2>11, <2>13 DEF OwnerCount, Count, Bound
      <4>3. k3.pending
        BY <2>5, Zenon DEF t
      <4>4. k3.refs = heap.hook[i].refs /\ k3.att = heap.hook[i].att
            /\ k3.profile = heap.hook[i].profile /\ k3.active = heap.hook[i].active
            /\ k3.listed = heap.hook[i].listed /\ heap.hook[i].refs >= 1
            /\ heap.hook[i].refs \in Int
        BY <3>2, <2>5, <1>2, HookFields
      <4>5. HookInv(i)'
        BY <4>1, <4>3, <4>4, <1>1, <2>13 DEF HookInv
      <4> QED
        BY <4>1, <4>2, <4>4, <4>5
    <3> QED
      BY <3>1, <3>2
  <2>17. GraphInv'
    BY <2>9, <2>10 DEF GraphInv, Count, Empty
  <2>18. LeaseInv'
    BY <2>10, <2>13, TypeFacts DEF LeaseInv, Ending, Empty, HookPcs, InstallPcs
  <2> QED
    BY <2>10, <2>12, <2>14, <2>15, <2>16, <2>17, <2>18
       DEF LinkInv, HeldInv, ControlInv, RefInv, HooksInv
<1> QED
  BY <1>1, <1>3, <1>4

\* The fields of a hook that is being built.
LEMMA BuiltRecord ==
    ASSUME NEW p \in Profiles, NEW hz \in LinkHz, NEW a \in Graphs, NEW s \in Graphs,
           NEW b \in BOOLEAN, NEW d \in BOOLEAN, NEW f \in BOOLEAN, NEW n,
           n = [refs |-> 2, att |-> "building", active |-> a, staged |-> s,
                stagedRate |-> hz, clock |-> hz, pending |-> b, bound |-> d,
                profile |-> p, listed |-> f]
    PROVE  /\ n \in Hooks /\ n.refs = 2 /\ n.att = "building" /\ n.active = a
           /\ n.staged = s /\ n.stagedRate = hz /\ n.clock = hz /\ n.pending = b
           /\ n.bound = d /\ n.profile = p /\ n.listed = f
BY DEF Hooks

\* A new hook carries its graph as active or, for a reload, as staged
\* (LinkHook::new).
LEMMA NewHookFacts ==
    ASSUME NEW p \in Profiles, NEW hz \in LinkHz, NEW g \in Graphs, g # NoGraph, NEW mode,
           NEW n, n = NewHook(p, hz, g, mode)
    PROVE  /\ n \in Hooks /\ n.refs = 2 /\ n.att = "building" /\ Weight(n) = 1
           /\ n.active = (IF mode = "staged" THEN NoGraph ELSE g)
           /\ n.staged = (IF mode = "staged" THEN g ELSE NoGraph)
           /\ n.stagedRate = hz /\ n.clock = hz /\ n.profile = p
           /\ n.pending <=> mode = "staged"
           /\ ~n.listed
<1> DEFINE a == IF mode = "staged" THEN NoGraph ELSE g
           s == IF mode = "staged" THEN g ELSE NoGraph
           b == mode = "staged"
           d == mode = "bound"
           f == FALSE
<1>1. a \in Graphs /\ s \in Graphs /\ NoGraph \in Graphs
  BY NoGraphTyped
<1>2. b \in BOOLEAN /\ d \in BOOLEAN /\ f \in BOOLEAN
  OBVIOUS
<1>3. Unused = [refs |-> 0, att |-> "unused", active |-> NoGraph, staged |-> NoGraph,
                stagedRate |-> 0, clock |-> 0, pending |-> f, bound |-> f,
                profile |-> NoProfile, listed |-> f]
  BY Zenon DEF Unused
<1>4. n = [Unused EXCEPT !.refs = 2, !.att = "building", !.active = a, !.staged = s,
                         !.stagedRate = hz, !.clock = hz, !.pending = b, !.bound = d,
                         !.profile = p]
  BY Zenon DEF NewHook
<1> HIDE DEF a, s, b, d, f
<1>5. n = [refs |-> 2, att |-> "building", active |-> a, staged |-> s,
                stagedRate |-> hz, clock |-> hz, pending |-> b, bound |-> d,
                profile |-> p, listed |-> f]
  BY <1>2, <1>3, <1>4
<1>6. /\ n \in Hooks /\ n.refs = 2 /\ n.att = "building" /\ n.active = a
      /\ n.staged = s /\ n.stagedRate = hz /\ n.clock = hz /\ n.pending = b
      /\ n.bound = d /\ n.profile = p /\ n.listed = f
  BY <1>1, <1>2, <1>5, BuiltRecord
<1>7. (n.pending <=> mode = "staged") /\ ~n.listed
  BY <1>6, Zenon DEF b, f
<1>8. /\ n.active = (IF mode = "staged" THEN NoGraph ELSE g)
      /\ n.staged = (IF mode = "staged" THEN g ELSE NoGraph)
  BY <1>6 DEF a, s
<1>9. Weight(n) = 1
  BY <1>8 DEF Weight, Count
<1> QED
  BY <1>6, <1>7, <1>8, <1>9

\* A hook is built.
LEMMA BuildHookKeeps == ASSUME LinkInv, BuildHook PROVE LinkInv'
<1> DEFINE g == GraphFor(control.by, control.want, control.hz)
           m == Mode(control.by)
           n == NewHook(control.want, control.hz, g, m)
<1>1. /\ UNCHANGED <<lifeVars, astVars, config, candidate, rate, relink, strays>>
      /\ control.pc = "build"
      /\ \/ \E h \in HookIds :
               /\ heap.hook[h].att = "unused"
               /\ heap' = Prepared([heap EXCEPT !.hook[h] = n])
               /\ control' = [control EXCEPT !.hook = h, !.pc = "add"]
         \/ control' = Failed(control) /\ heap' = heap
  BY DEF BuildHook, cfgVars
<1>2. /\ control \in Controls /\ Placed(control) /\ control.by \in {"scan", "reload", "bind"}
      /\ control.want \in Profiles /\ control.hz \in LinkHz /\ Empty /\ heap \in Heaps
      /\ control.at \in LinkChannels /\ Spare(heap) = 0
  BY <1>1, EmptyAt, TypeFacts DEF Placed, Controls, GraphInv, Count, Empty
<1>3. CASE control' = Failed(control) /\ heap' = heap
  <2>1. /\ control' \in Controls /\ Placed(control') /\ Empty' /\ control'.by = control.by
    BY <1>2, <1>3, MovesOn
  <2>2. LifeInv'
    BY <1>1, <1>3, <2>1, TypeFacts DEF LifeInv, lifeVars
  <2> QED
    BY <1>1, <1>2, <1>3, <2>1, <2>2, TypeFacts, ControlMoves DEF lifeVars, astVars
<1>4. ASSUME NEW h \in HookIds, heap.hook[h].att = "unused",
             heap' = Prepared([heap EXCEPT !.hook[h] = n]),
             control' = [control EXCEPT !.hook = h, !.pc = "add"]
      PROVE  LinkInv'
  <2>1. g \in Graphs /\ g # NoGraph
    BY <1>2, GraphMade
  <2>2. /\ n \in Hooks /\ n.refs = 2 /\ n.att = "building" /\ Weight(n) = 1
        /\ n.active = (IF m = "staged" THEN NoGraph ELSE g)
        /\ n.staged = (IF m = "staged" THEN g ELSE NoGraph)
        /\ n.profile = control.want
        /\ n.pending <=> m = "staged"
        /\ ~n.listed
    <3> HIDE DEF g, m
    <3> QED
      BY <1>2, <2>1, NewHookFacts
  <2>3. m = "staged" <=> control.by = "reload"
    BY <1>2 DEF Mode
  <2> DEFINE hp == [heap EXCEPT !.hook[h] = n]
  <2> HIDE DEF n, m
  <2>4. hp = Put(heap, h, n)
    BY <1>2, PutFields
  <2>5. HookInv(h) /\ heap.hook[h].refs = 0 /\ OwnerCount(h) = 0 /\ h # 0
        /\ Weight(heap.hook[h]) = 0
    <3>1. HookInv(h) /\ heap.hook[h].refs = OwnerCount(h) /\ heap.hook[h] \in Hooks /\ h # 0
      BY OneHook, TypeFacts
    <3>2. heap.hook[h].refs = 0
      BY <3>1, <1>4 DEF HookInv
    <3> QED
      BY <3>1, <3>2 DEF HookInv, Weight, Count
  <2> HIDE DEF hp
  <2>6. /\ hp \in Heaps /\ hp.hook[h] = n /\ Spare(hp) = 0 - 1
        /\ \A i \in HookIds : i # h => hp.hook[i] = heap.hook[i]
    BY <1>2, <2>2, <2>4, <2>5, PutFacts
  <2>7. /\ heap' \in Heaps /\ heap'.hook = hp.hook /\ Spare(heap') = 0
    <3>1. heap' = Prepared(hp)
      BY <1>4 DEF hp
    <3>2. /\ Prepared(hp) \in Heaps /\ Prepared(hp).hook = hp.hook
          /\ Spare(Prepared(hp)) = Spare(hp) + 1
      BY <2>6, PreparedEffect
    <3> QED
      BY <3>1, <3>2, <2>6
  <2>8. ~Bound(h) /\ h \notin removed /\ h \notin relink.hooks /\ ~lease[h].on
    BY <2>5 DEF OwnerCount, Count
  <2>9. Hooked(control, h, "add", control')
    BY <1>2, <1>4, WithHook, PlaceNames
  <2>10. /\ control' \in Controls /\ control'.by = control.by /\ control'.hook = h
         /\ control'.pc = "add" /\ control'.graph = NoGraph /\ control'.want = control.want
         /\ control'.at = control.at
    BY <1>2, <2>9 DEF Hooked, Empty
  <2>11. Placed(control')
    BY <1>2, <2>5, <2>10 DEF Placed, HookPcs, InstallPcs
  <2>12. LifeInv'
    BY <1>1, <2>10, TypeFacts DEF LifeInv, lifeVars
  <2>13. /\ life' = life /\ driver' = driver /\ running' = running /\ stop' = stop
         /\ scan' = scan /\ lease' = lease /\ ds' = ds /\ removed' = removed /\ fds' = fds
         /\ chan' = chan /\ relink' = relink
    BY <1>1 DEF lifeVars, astVars
  <2>14. LinkTypes'
    BY <1>1, <2>7, <2>10, <2>13, TypeFacts DEF LinkTypes
  <2>15. DatastoreInv'
    BY <2>8, <2>10, <2>13, TypeFacts DEF DatastoreInv, Bound
  <2>16. ASSUME NEW i \in HookIds
         PROVE  HookInv(i)' /\ heap'.hook[i].refs = OwnerCount(i)'
    <3>1. CASE i # h
      <4>1. /\ heap'.hook[i] = heap.hook[i] /\ (Bound(i)' <=> Bound(i))
            /\ control.hook = 0 /\ control'.hook = h
        BY <3>1, <1>2, <2>6, <2>7, <2>10, <2>13 DEF Bound, Empty
      <4> QED
        BY <3>1, <4>1, <2>13, OtherHook
    <3>2. CASE i = h
      <4>1. /\ heap'.hook[h] = n /\ control.hook # h
        BY <1>2, <2>5, <2>6, <2>7 DEF Empty
      <4>2. OwnerCount(h)' = 2
        BY <2>8, <2>10, <2>13 DEF OwnerCount, Count, Bound
      <4>3. n.staged # NoGraph => n.pending
        BY <2>2
      <4>4. HookInv(h)'
        BY <4>1, <4>3, <1>2, <2>2, <2>3, <2>8, <2>10, <2>13 DEF HookInv
      <4> QED
        BY <3>2, <4>1, <4>2, <4>4, <2>2
    <3> QED
      BY <3>1, <3>2
  <2>17. GraphInv'
    BY <2>7, <2>10 DEF GraphInv, Count
  <2>18. LeaseInv'
    BY <2>10, <2>13, TypeFacts DEF LeaseInv, Ending
  <2> QED
    BY <2>11, <2>12, <2>14, <2>15, <2>16, <2>17, <2>18
       DEF LinkInv, HeldInv, ControlInv, RefInv, HooksInv
<1> QED
  BY <1>1, <1>3, <1>4

\* What the loss of a reference, of the datastore or of both makes of a hook.
Dropped(k, n) ==
    \/ n = k
    \/ /\ n.listed => k.listed /\ (n.att = "attached" \/ k.att # "attached")
       /\ n.refs = 0 =>
             n.att = "freed" /\ n.active = NoGraph /\ n.staged = NoGraph /\ ~n.pending
       /\ n.refs # 0 =>
             /\ k.refs # 0 /\ n.att \in {k.att, "detached"}
             /\ n.active = k.active /\ n.staged = k.staged /\ n.stagedRate = k.stagedRate
             /\ n.clock = k.clock /\ (n.pending <=> k.pending) /\ n.profile = k.profile

\* A release never gives a hook anything.
LEMMA ReleaseDrops ==
    ASSUME NEW hp \in Heaps, NEW h \in HookIds, hp.hook[h].refs >= 1
    PROVE  /\ Dropped(hp.hook[h], Release(hp, h).hook[h])
           /\ Release(hp, h).hook[h].refs = hp.hook[h].refs - 1
<1> DEFINE k == hp.hook[h]
           n == Release(hp, h).hook[h]
<1>1. k \in Hooks /\ k.refs \in Int
  BY HeapFields, HookFields
<1>2. n = Released(k)
  BY ReleaseEffect
<1> HIDE DEF n
<1>3. /\ n.refs = k.refs - 1
      /\ k.refs # 1 => Same(k, n)
      /\ k.refs = 1 => Gone(k, n)
  BY <1>1, <1>2, ReleasedHook
<1>4. CASE k.refs = 1
  <2>1. Gone(k, n) /\ n.refs = 0
    BY <1>1, <1>3, <1>4
  <2> QED
    BY <1>3, <2>1 DEF Dropped, Gone, n
<1>5. CASE k.refs # 1
  <2>1. Same(k, n) /\ n.refs # 0 /\ k.refs # 0
    BY <1>1, <1>3, <1>5
  <2> QED
    BY <1>3, <2>1 DEF Dropped, Same, n
<1> QED
  BY <1>4, <1>5

\* Nor does the end of its datastore.
LEMMA DestroyDrops ==
    ASSUME NEW hp \in Heaps, NEW h \in HookIds, hp.hook[h].refs >= 1
    PROVE  /\ Dropped(hp.hook[h], DatastoreDestroy(hp, h).hook[h])
           /\ DatastoreDestroy(hp, h).hook[h].refs = hp.hook[h].refs - 1
           /\ DatastoreDestroy(hp, h).hook[h].att \in {"detached", "freed"}
<1> DEFINE k == hp.hook[h]
           t == Torn(k)
           n == DatastoreDestroy(hp, h).hook[h]
<1>1. k \in Hooks /\ k.refs \in Int
  BY HeapFields, HookFields
<1>2. n = Released(t)
  BY DestroyEffect
<1>3. /\ t \in Hooks /\ t.refs = k.refs /\ t.att = "detached"
      /\ t.active = k.active /\ t.staged = k.staged
      /\ t.stagedRate = k.stagedRate /\ t.clock = k.clock
      /\ t.pending = k.pending /\ t.profile = k.profile
      /\ t.listed => k.listed /\ k.att # "attached"
  BY <1>1, TornHook
<1> HIDE DEF n, t
<1>4. /\ n.refs = k.refs - 1
      /\ k.refs # 1 => Same(t, n)
      /\ k.refs = 1 => Gone(t, n)
  BY <1>1, <1>2, <1>3, ReleasedHook
<1>5. CASE k.refs = 1
  <2>1. Gone(t, n) /\ n.refs = 0
    BY <1>1, <1>4, <1>5
  <2>2. n.att = "freed" /\ n.active = NoGraph /\ n.staged = NoGraph /\ ~n.pending
        /\ (n.listed => t.listed)
    BY <2>1, Zenon DEF Gone
  <2>3. n.listed => k.listed /\ k.att # "attached"
    BY <1>3, <2>2, Zenon
  <2>4. Dropped(k, n)
    BY <2>1, <2>2, <2>3, Zenon DEF Dropped
  <2> QED
    BY <1>4, <2>2, <2>4 DEF n
<1>6. CASE k.refs # 1
  <2>1. Same(t, n) /\ n.refs # 0 /\ k.refs # 0
    BY <1>1, <1>4, <1>6
  <2>2. /\ n.att = "detached" /\ n.active = k.active /\ n.staged = k.staged
        /\ n.stagedRate = k.stagedRate /\ n.clock = k.clock /\ (n.pending <=> k.pending)
        /\ n.profile = k.profile /\ (n.listed => t.listed)
    BY <1>3, <2>1 DEF Same
  <2>3. n.listed => k.listed /\ k.att # "attached"
    BY <1>3, <2>2, Zenon
  <2>4. n.att \in {k.att, "detached"}
    BY <2>2
  <2>5. Dropped(k, n)
    BY <2>1, <2>2, <2>3, <2>4, Zenon DEF Dropped
  <2> QED
    BY <1>4, <2>2, <2>5 DEF n
<1> QED
  BY <1>5, <1>6

\* Nor do two such steps.
LEMMA DropTwice ==
    ASSUME NEW k, NEW n, NEW m, Dropped(k, n), Dropped(n, m), m.refs # 0 => n.refs # 0
    PROVE  Dropped(k, m)
<1>1. CASE n = k \/ m = n
  BY <1>1
<1>2. CASE n # k /\ m # n
  <2>1. m.listed => k.listed /\ (m.att = "attached" \/ k.att # "attached")
    BY <1>2, Zenon DEF Dropped
  <2>2. m.refs = 0 =>
             m.att = "freed" /\ m.active = NoGraph /\ m.staged = NoGraph /\ ~m.pending
    BY <1>2, Zenon DEF Dropped
  <2>3. ASSUME m.refs # 0
        PROVE  /\ k.refs # 0 /\ m.att \in {k.att, "detached"}
               /\ m.active = k.active /\ m.staged = k.staged /\ m.stagedRate = k.stagedRate
               /\ m.clock = k.clock /\ (m.pending <=> k.pending) /\ m.profile = k.profile
    BY <1>2, <2>3 DEF Dropped
  <2> QED
    BY <2>1, <2>2, <2>3, Zenon DEF Dropped
<1> QED
  BY <1>1, <1>2

\* References that are given up keep the bookkeeping of hooks and graphs.
LEMMA DropsHeld ==
    ASSUME LinkInv, heap' \in Heaps, Spare(heap') = Spare(heap),
           \A i \in HookIds : /\ Dropped(heap.hook[i], heap'.hook[i])
                              /\ heap'.hook[i].refs = OwnerCount(i)'
                              /\ lease'[i].on => lease[i].on,
           relink'.hooks = relink.hooks,
           \/ control' = control
           \/ Empty' /\ control.graph = NoGraph /\ control.pc # "cas"
    PROVE  RefInv' /\ HooksInv' /\ GraphInv'
<1>1. ASSUME NEW i \in HookIds PROVE HookInv(i)'
  <2> DEFINE k == heap.hook[i]
             n == heap'.hook[i]
  <2>1. HookInv(i) /\ i # 0 /\ k.refs \in Int /\ k.refs = OwnerCount(i)
    BY OneHook, TypeFacts, HookFields
  <2>2. Dropped(k, n) /\ n.refs = OwnerCount(i)' /\ (lease'[i].on => lease[i].on)
    OBVIOUS
  <2>3. control'.hook = i => control' = control
    BY <2>1 DEF Empty
  <2>4. control'.hook = i => n.refs # 0
    BY <2>2 DEF OwnerCount, Count
  <2>5. i \in relink.hooks => n.refs # 0
    BY <2>2 DEF OwnerCount, Count
  <2>6. CASE n = k
    <3>1. k.listed => k.att = "attached" \/ (control'.hook = i /\ control'.pc = "cas")
      BY <2>1 DEF HookInv
    <3> QED
      BY <2>1, <2>2, <2>3, <2>6, <3>1 DEF HookInv
  <2>7. CASE n # k
    <3>1. /\ n.listed => k.listed /\ (n.att = "attached" \/ k.att # "attached")
          /\ n.refs = 0 =>
             n.att = "freed" /\ n.active = NoGraph /\ n.staged = NoGraph /\ ~n.pending
          /\ n.refs # 0 =>
             /\ k.refs # 0 /\ n.att \in {k.att, "detached"}
             /\ n.active = k.active /\ n.staged = k.staged
             /\ (n.pending <=> k.pending) /\ n.profile = k.profile
      BY <2>2, <2>7, Zenon DEF Dropped
    <3>2. n.listed => n.att = "attached" \/ (control'.hook = i /\ control'.pc = "cas")
      BY <2>1, <3>1 DEF HookInv
    <3>3. n.staged # NoGraph => n.pending
      BY <2>1, <3>1 DEF HookInv
    <3>4. i \in relink.hooks => n.pending
      BY <2>1, <2>5, <3>1 DEF HookInv
    <3>5. (n.refs = 0 <=> n.att \in {"unused", "freed"}) /\ (n.refs # 0 => n.profile \in Profiles)
      BY <2>1, <3>1 DEF HookInv
    <3>6. ASSUME control'.hook = i
          PROVE  /\ control'.pc = "publish" => n.active = NoGraph
                 /\ control'.pc = "stage" => ~n.pending
                 /\ control'.pc \in InstallPcs => i \notin relink.hooks
                 /\ control'.pc \in {"add", "attach", "cas", "lease"} => ~lease'[i].on
                 /\ control'.pc \in InstallPcs /\ control'.by = "reload" => n.pending
      BY <2>1, <2>2, <2>3, <2>4, <3>1, <3>6 DEF HookInv
    <3> HIDE DEF n, k
    <3>7. n.refs = 0 => n.active = NoGraph /\ n.staged = NoGraph
      BY <3>1
    <3> QED
      BY <3>2, <3>3, <3>4, <3>5, <3>6, <3>7, Zenon DEF HookInv, n
  <2> QED
    BY <2>6, <2>7
<1>2. GraphInv'
  <2>1. Spare(heap) = Count(control.graph # NoGraph)
    BY TypeFacts DEF GraphInv
  <2> QED
    BY <2>1 DEF GraphInv, Count, Empty
<1> QED
  BY <1>1, <1>2 DEF RefInv, HooksInv

\* A hook loses its datastore's reference and the operation's.
LEMMA DropBoth ==
    ASSUME NEW hp \in Heaps, NEW h \in HookIds, hp.hook[h].refs >= 2,
           NEW hq, hq = Release(DatastoreDestroy(hp, h), h)
    PROVE  /\ hq \in Heaps /\ Spare(hq) = Spare(hp)
           /\ Dropped(hp.hook[h], hq.hook[h]) /\ hq.hook[h].refs = hp.hook[h].refs - 2
           /\ \A i \in HookIds : i # h => hq.hook[i] = hp.hook[i]
<1> DEFINE d == DatastoreDestroy(hp, h)
<1>1. hp.hook[h].refs \in Int
  BY HeapFields, HookFields
<1>2. /\ d \in Heaps /\ Spare(d) = Spare(hp)
      /\ \A i \in HookIds : i # h => d.hook[i] = hp.hook[i]
  BY DestroyEffect
<1>3. Dropped(hp.hook[h], d.hook[h]) /\ d.hook[h].refs = hp.hook[h].refs - 1
  BY <1>1, DestroyDrops
<1> HIDE DEF d
<1>4. d.hook[h].refs >= 1
  BY <1>1, <1>3
<1>5. /\ hq \in Heaps /\ Spare(hq) = Spare(d)
      /\ \A i \in HookIds : i # h => hq.hook[i] = d.hook[i]
  BY <1>2, ReleaseEffect DEF d
<1>6. Dropped(d.hook[h], hq.hook[h]) /\ hq.hook[h].refs = d.hook[h].refs - 1
  BY <1>2, <1>4, ReleaseDrops DEF d
<1>7. Dropped(hp.hook[h], hq.hook[h])
  <2>1. hq.hook[h].refs # 0 => d.hook[h].refs # 0
    BY <1>1, <1>3, <1>4
  <2> QED
    BY <1>3, <1>6, <2>1, DropTwice
<1> QED
  BY <1>1, <1>2, <1>3, <1>5, <1>6, <1>7

\* Its datastore is added.
LEMMA AddDatastoreKeeps == ASSUME LinkInv, AddDatastore PROVE LinkInv'
<1>0. PICK h \in HookIds : control.hook = h
  BY AtHook DEF AddDatastore, HookPcs, InstallPcs
<1> DEFINE at == control.at
<1>1. /\ UNCHANGED <<lifeVars, config, candidate, rate, relink, strays, lease, removed, fds, chan>>
      /\ control.pc = "add"
      /\ IF ds[control.at] = 0
         THEN /\ ds' = [ds EXCEPT ![control.at] = control.hook]
              /\ control' = [control EXCEPT !.pc = "attach"] /\ heap' = heap
         ELSE /\ heap' = Release(DatastoreDestroy(heap, control.hook), control.hook)
              /\ control' = NextVisit(control) /\ ds' = ds
  BY DEF AddDatastore, cfgVars
<1>2. /\ life' = life /\ driver' = driver /\ running' = running /\ stop' = stop
      /\ scan' = scan /\ lease' = lease /\ removed' = removed /\ fds' = fds
      /\ chan' = chan /\ relink' = relink
  BY <1>1 DEF lifeVars
<1>3. /\ h \in HookIds /\ HookInv(h) /\ control.by \in {"scan", "reload", "bind"}
      /\ control \in Controls /\ Placed(control) /\ h # 0 /\ heap \in Heaps
      /\ at \in LinkChannels /\ ~Bound(h) /\ h \notin removed /\ h \notin relink.hooks
      /\ ~lease[h].on /\ control.graph = NoGraph
  <2>1. control.pc \in HookPcs /\ control.pc \in InstallPcs
    BY <1>1 DEF HookPcs, InstallPcs
  <2>2. h \in HookIds /\ HookInv(h)
    BY <2>1, <1>0, AtHook
  <2> QED
    BY <2>1, <2>2, <1>0, <1>1, TypeFacts DEF Placed, HookInv, DatastoreInv
<1>4. CASE ds[at] = 0
  <2>1. ds' = [ds EXCEPT ![at] = h] /\ control' = [control EXCEPT !.pc = "attach"] /\ heap' = heap
    BY <1>0, <1>1, <1>4
  <2>2. control'.pc = "attach" /\ control' \in Controls /\ control'.by = control.by
        /\ control'.hook = h /\ control'.graph = control.graph /\ control'.at = at
        /\ control'.want = control.want
    BY <1>0, <1>3, <2>1, AtPlace, PlaceNames
  <2>3. Placed(control')
    BY <2>2, <1>1, <1>3 DEF Placed, HookPcs, InstallPcs
  <2>4. LifeInv'
    BY <1>2, <2>2, TypeFacts DEF LifeInv
  <2>5. ds' \in [LinkChannels -> HookIds \cup {0}] /\ ds'[at] = h
        /\ \A c \in LinkChannels : c # at => ds'[c] = ds[c]
    BY <2>1, <1>3, TypeFacts
  <2>6. LinkTypes'
    BY <1>1, <1>2, <2>1, <2>2, <2>5, TypeFacts DEF LinkTypes
  <2>7. Bound(h)' /\ \A i \in HookIds : i # h => (Bound(i)' <=> Bound(i))
    <3>1. Bound(h)'
      BY <2>5, <1>3 DEF Bound
    <3>2. ASSUME NEW i \in HookIds, i # h PROVE Bound(i)' <=> Bound(i)
      <4>1. \A c \in LinkChannels : ds'[c] = i <=> ds[c] = i
        BY <2>5, <3>2, <1>4, TypeFacts
      <4> QED
        BY <4>1 DEF Bound
    <3> QED
      BY <3>1, <3>2
  <2>8. DatastoreInv'
    <3>1. DatastoreInv
      BY TypeFacts
    <3>2. \A c \in LinkChannels : ds[c] # h
      BY <1>3 DEF Bound
    <3>3. \A c, d \in LinkChannels : ds'[c] = ds'[d] /\ ds'[c] # 0 => c = d
      BY <2>5, <3>1, <3>2 DEF DatastoreInv
    <3>4. \A i \in removed' : ~Bound(i)'
      BY <1>2, <1>3, <2>7, <3>1, TypeFacts DEF DatastoreInv
    <3> QED
      BY <2>2, <3>3, <3>4 DEF DatastoreInv
  <2>9. ASSUME NEW i \in HookIds
        PROVE  HookInv(i)' /\ heap'.hook[i].refs = OwnerCount(i)'
    <3>1. CASE i # h
      BY <3>1, <1>2, <1>0, <1>3, <2>1, <2>2, <2>7, OtherHook
    <3>2. CASE i = h
      <4>1. HookInv(i) /\ heap.hook[i].refs = OwnerCount(i) /\ control.hook = i
        BY <3>2, <1>0, <1>3, OneHook
      <4>2. OwnerCount(i)' = OwnerCount(i)
        BY <3>2, <1>0, <1>1, <1>2, <1>3, <2>2, <2>7 DEF OwnerCount, Count
      <4>3. HookInv(i)'
        BY <4>1, <1>1, <1>2, <2>1, <2>2 DEF HookInv, InstallPcs
      <4> QED
        BY <4>1, <4>2, <4>3, <2>1
    <3> QED
      BY <3>1, <3>2
  <2>10. GraphInv'
    BY <2>1, <2>2, TypeFacts DEF GraphInv
  <2>11. LeaseInv'
    <3>1. LeaseInv
      BY TypeFacts
    <3>2. ASSUME NEW i \in HookIds, NEW c \in LinkChannels, lease[i].on, ds'[c] = i,
                 c # lease[i].chan
          PROVE  Ending(lease[i].chan)
      <4>1. i # h
        BY <3>2, <1>3
      <4>2. ds[c] = i
        BY <4>1, <3>2, <2>5
      <4> QED
        BY <4>2, <3>1, <3>2 DEF LeaseInv
    <3>3. \A c \in LinkChannels : ds'[c] = h => c = at
      BY <2>5, <1>3 DEF Bound
    <3> QED
      BY <3>1, <3>2, <3>3, <1>2, <2>2 DEF LeaseInv, Ending
  <2> QED
    BY <2>3, <2>4, <2>6, <2>8, <2>9, <2>10, <2>11
       DEF LinkInv, HeldInv, ControlInv, RefInv, HooksInv
<1>5. CASE ds[at] # 0
  <2>1. ds' = ds /\ control' = NextVisit(control)
        /\ heap' = Release(DatastoreDestroy(heap, h), h)
    BY <1>0, <1>1, <1>5
  <2>2. /\ control' \in Controls /\ Placed(control') /\ Empty' /\ control'.by = control.by
    BY <1>3, <2>1, MovesOn
  <2>3. LifeInv'
    BY <1>2, <2>2, TypeFacts DEF LifeInv
  <2>4. heap.hook[h].refs = 2 /\ OwnerCount(h)' = 0
    <3>1. heap.hook[h].refs = OwnerCount(h)
      BY <1>3, OneHook
    <3>2. OwnerCount(h) = 2
      BY <1>0, <1>1, <1>3 DEF OwnerCount, Count
    <3>3. OwnerCount(h)' = 0
      BY <1>2, <1>3, <2>1, <2>2 DEF OwnerCount, Count, Bound, Empty
    <3> QED
      BY <3>1, <3>2, <3>3
  <2>5. /\ heap' \in Heaps /\ Spare(heap') = Spare(heap)
        /\ Dropped(heap.hook[h], heap'.hook[h]) /\ heap'.hook[h].refs = 0
        /\ \A i \in HookIds : i # h => heap'.hook[i] = heap.hook[i]
    BY <1>3, <2>1, <2>4, DropBoth
  <2>6. ASSUME NEW i \in HookIds
        PROVE  /\ Dropped(heap.hook[i], heap'.hook[i])
               /\ heap'.hook[i].refs = OwnerCount(i)'
               /\ lease'[i].on => lease[i].on
    <3>1. CASE i = h
      BY <3>1, <1>2, <2>4, <2>5
    <3>2. CASE i # h
      <4>1. OwnerCount(i)' = OwnerCount(i)
        BY <3>2, <1>0, <1>2, <2>1, <2>2, TypeFacts DEF OwnerCount, Count, Bound, Empty
      <4> QED
        BY <3>2, <4>1, <1>2, <2>5, OneHook DEF Dropped
    <3> QED
      BY <3>1, <3>2
  <2>7. RefInv' /\ HooksInv' /\ GraphInv'
    BY <1>1, <1>2, <1>3, <2>2, <2>5, <2>6, DropsHeld
  <2>8. LinkTypes'
    BY <1>1, <1>2, <2>1, <2>2, <2>5, TypeFacts DEF LinkTypes
  <2>9. DatastoreInv'
    BY <1>2, <2>1, <2>2, TypeFacts DEF DatastoreInv, Bound, Empty, HookPcs, InstallPcs
  <2>10. LeaseInv'
    BY <1>2, <2>1, <2>2, TypeFacts DEF LeaseInv, Ending, Empty, HookPcs, InstallPcs
  <2> QED
    BY <2>2, <2>3, <2>7, <2>8, <2>9, <2>10 DEF LinkInv, HeldInv, ControlInv
<1> QED
  BY <1>4, <1>5

\* A step that gives references up and clears datastores or leases.
LEMMA DropsKeep ==
    ASSUME LinkInv, UNCHANGED <<lifeVars, config, candidate, rate, strays>>,
           relink' \in Relinks, relink'.pc = relink.pc, relink'.hooks = relink.hooks,
           heap' \in Heaps, Spare(heap') = Spare(heap),
           \A i \in HookIds : /\ Dropped(heap.hook[i], heap'.hook[i])
                              /\ heap'.hook[i].refs = OwnerCount(i)'
                              /\ lease'[i].on => lease[i].on,
           \/ control' = control
           \/ /\ control' \in {NextVisit(control), Failed(control)}
              /\ control.by \in {"scan", "reload", "bind", "stop"}
              /\ control.pc \notin {"cas", "publish"},
           ds' \in [LinkChannels -> HookIds \cup {0}], removed' \in SUBSET HookIds,
           lease' \in [HookIds -> Leases], fds' \in SUBSET (LinkChannels \X HookIds),
           chan' \in [LinkChannels -> {"up", "ending"}], DatastoreInv', LeaseInv'
    PROVE  LinkInv'
<1>1. /\ control' \in Controls /\ Placed(control') /\ control'.by = control.by
      /\ \/ control' = control
         \/ Empty' /\ control.graph = NoGraph /\ control.pc # "cas"
  <2>1. CASE control' = control
    BY <2>1, TypeFacts
  <2>2. CASE control' # control
    <3>1. /\ control' \in Controls /\ Placed(control') /\ Empty' /\ control'.by = control.by
      BY <2>2, MovesOn
    <3> QED
      BY <2>2, <3>1, TypeFacts DEF Placed
  <2> QED
    BY <2>1, <2>2
<1>2. RefInv' /\ HooksInv' /\ GraphInv'
  BY <1>1, DropsHeld
<1>3. /\ life' = life /\ driver' = driver /\ running' = running /\ stop' = stop
      /\ scan' = scan
  BY DEF lifeVars
<1>4. LifeInv'
  BY <1>1, <1>3, TypeFacts DEF LifeInv
<1>5. LinkTypes'
  BY <1>1, <1>3, TypeFacts DEF LinkTypes, Relinks
<1> QED
  BY <1>1, <1>2, <1>4, <1>5 DEF LinkInv, HeldInv, ControlInv

\* The operation's reference goes, and before it that of a channel's datastore.
LEMMA LetGo ==
    ASSUME LinkInv, NEW h \in HookIds, control.hook = h, NEW b \in HookIds \cup {0},
           b # 0 => Bound(b),
           heap' = Release(IF b # 0 THEN DatastoreDestroy(heap, b) ELSE heap, h)
    PROVE  /\ heap' \in Heaps /\ Spare(heap') = Spare(heap)
           /\ \A i \in HookIds :
                 /\ Dropped(heap.hook[i], heap'.hook[i])
                 /\ heap'.hook[i].refs = OwnerCount(i) - Count(i = h) - Count(i = b)
                 /\ OwnerCount(i) \in Int
<1>1. /\ heap \in Heaps
      /\ \A i \in HookIds : heap.hook[i].refs = OwnerCount(i) /\ i # 0
                            /\ heap.hook[i].refs \in Int
  BY TypeFacts, OneHook, HookFields
<1>2. heap.hook[h].refs >= 1
  BY OneHook
<1>3. CASE b = 0
  <2>1. heap' = Release(heap, h)
    BY <1>3
  <2>2. /\ heap' \in Heaps /\ Spare(heap') = Spare(heap)
        /\ \A i \in HookIds : i # h => heap'.hook[i] = heap.hook[i]
    BY <1>1, <2>1, ReleaseEffect
  <2>3. Dropped(heap.hook[h], heap'.hook[h]) /\ heap'.hook[h].refs = heap.hook[h].refs - 1
    BY <1>1, <1>2, <2>1, ReleaseDrops
  <2> QED
    BY <1>1, <1>3, <2>2, <2>3 DEF Count, Dropped
<1>4. CASE b = h
  <2>1. heap' = Release(DatastoreDestroy(heap, h), h)
    BY <1>1, <1>4
  <2>2. heap.hook[h].refs >= 2
    BY <1>1, <1>4, OneHook
  <2>3. /\ heap' \in Heaps /\ Spare(heap') = Spare(heap)
        /\ Dropped(heap.hook[h], heap'.hook[h]) /\ heap'.hook[h].refs = heap.hook[h].refs - 2
        /\ \A i \in HookIds : i # h => heap'.hook[i] = heap.hook[i]
    BY <1>1, <2>1, <2>2, DropBoth
  <2>4. ASSUME NEW i \in HookIds
        PROVE  /\ Dropped(heap.hook[i], heap'.hook[i])
               /\ heap'.hook[i].refs = OwnerCount(i) - Count(i = h) - Count(i = b)
    <3>1. CASE i = h
      <4>1. Count(i = h) = 1 /\ Count(i = b) = 1
        BY <3>1, <1>4 DEF Count
      <4> QED
        BY <3>1, <4>1, <1>1, <2>3
    <3>2. CASE i # h
      <4>1. Count(i = h) = 0 /\ Count(i = b) = 0
        BY <3>2, <1>4 DEF Count
      <4> QED
        BY <3>2, <4>1, <1>1, <2>3 DEF Dropped
    <3> QED
      BY <3>1, <3>2
  <2> QED
    BY <1>1, <2>3, <2>4
<1>5. CASE b # h /\ b \in HookIds
  <2> DEFINE d == DatastoreDestroy(heap, b)
  <2>1. heap' = Release(d, h)
    BY <1>1, <1>5
  <2>2. heap.hook[b].refs >= 1
    BY <1>1, <1>5, OneHook
  <2>3. /\ d \in Heaps /\ Spare(d) = Spare(heap)
        /\ \A i \in HookIds : i # b => d.hook[i] = heap.hook[i]
    BY <1>1, <1>5, DestroyEffect
  <2>4. Dropped(heap.hook[b], d.hook[b]) /\ d.hook[b].refs = heap.hook[b].refs - 1
    BY <1>1, <1>5, <2>2, DestroyDrops
  <2> HIDE DEF d
  <2>5. /\ heap' \in Heaps /\ Spare(heap') = Spare(d)
        /\ \A i \in HookIds : i # h => heap'.hook[i] = d.hook[i]
    BY <2>1, <2>3, ReleaseEffect
  <2>6. Dropped(d.hook[h], heap'.hook[h]) /\ heap'.hook[h].refs = d.hook[h].refs - 1
    <3>1. d.hook[h] = heap.hook[h]
      BY <1>5, <2>3
    <3> QED
      BY <3>1, <1>2, <2>1, <2>3, ReleaseDrops
  <2>7. ASSUME NEW i \in HookIds
        PROVE  /\ Dropped(heap.hook[i], heap'.hook[i])
               /\ heap'.hook[i].refs = OwnerCount(i) - Count(i = h) - Count(i = b)
    <3>1. CASE i = h
      BY <3>1, <1>1, <1>5, <2>3, <2>6 DEF Count
    <3>2. CASE i = b
      BY <3>2, <1>1, <1>5, <2>4, <2>5 DEF Count
    <3>3. CASE i # h /\ i # b
      BY <3>3, <1>1, <2>3, <2>5 DEF Count, Dropped
    <3> QED
      BY <3>1, <3>2, <3>3
  <2> QED
    BY <1>1, <2>3, <2>5, <2>7
<1> QED
  BY <1>1, <1>3, <1>4, <1>5

AskedOf(l, c, n) ==
    /\ n \in Leases /\ n.on = l.on /\ n.chan = l.chan /\ n.moving = l.moving
    /\ n.slot = l.slot /\ n.detaching = TRUE
    /\ n.asked <=> (l.asked \/ l.chan = c)

LeaseOf(l, t, b, n) ==
    /\ n \in Leases /\ n.on = l.on /\ n.chan = l.chan /\ n.moving = l.moving
    /\ n.slot = l.slot /\ n.detaching = t /\ n.asked = b

\* Detaching writes two fields of a lease.
LEMMA LeaseFields ==
    \A l \in Leases, t \in BOOLEAN, b \in BOOLEAN :
       LeaseOf(l, t, b, [l EXCEPT !.detaching = t, !.asked = b])
BY DEF Leases, LeaseOf

\* The same of LeaseDetach.
LEMMA LeaseDetachFacts ==
    ASSUME NEW l \in Leases, NEW c
    PROVE  AskedOf(l, c, LeaseDetach(l, c))
<1> DEFINE b == l.asked \/ l.chan = c
           t == TRUE
           n == LeaseDetach(l, c)
<1>1. b \in BOOLEAN /\ t \in BOOLEAN
  BY DEF Leases
<1>2. n = [l EXCEPT !.detaching = t, !.asked = b]
  BY Zenon DEF LeaseDetach
<1> HIDE DEF b, t, n
<1>3. LeaseOf(l, t, b, n)
  BY <1>1, <1>2, LeaseFields, Zenon
<1> QED
  BY <1>3, Zenon DEF LeaseOf, AskedOf, b, t, n

\* A datastore that goes leaves the other invariants of datastores alone.
LEMMA FewerDatastores ==
    ASSUME LinkInv, NEW c \in LinkChannels, ds' = [ds EXCEPT ![c] = 0],
           \A i \in removed' : i \in removed \/ i = ds[c],
           removed' \in SUBSET HookIds, control'.pc # "add"
    PROVE  /\ DatastoreInv' /\ ds' \in [LinkChannels -> HookIds \cup {0}]
           /\ \A i \in HookIds : Bound(i)' <=> Bound(i) /\ i # ds[c]
           /\ ds[c] # 0 => ds[c] \in HookIds /\ Bound(ds[c])
<1>1. /\ ds \in [LinkChannels -> HookIds \cup {0}] /\ DatastoreInv
      /\ \A i \in HookIds : i # 0
  BY TypeFacts
<1>2. /\ ds' \in [LinkChannels -> HookIds \cup {0}] /\ ds'[c] = 0
      /\ \A d \in LinkChannels : d # c => ds'[d] = ds[d]
  BY <1>1
<1>3. ASSUME NEW i \in HookIds PROVE Bound(i)' <=> Bound(i) /\ i # ds[c]
  <2>1. ASSUME NEW d \in LinkChannels, ds'[d] = i PROVE ds[d] = i /\ i # ds[c]
    BY <1>1, <1>2, <2>1 DEF DatastoreInv
  <2>2. ASSUME NEW d \in LinkChannels, ds[d] = i, i # ds[c] PROVE ds'[d] = i
    BY <1>2, <2>2
  <2> QED
    BY <2>1, <2>2 DEF Bound
<1>4. DatastoreInv'
  <2>1. \A d, e \in LinkChannels : ds'[d] = ds'[e] /\ ds'[d] # 0 => d = e
    BY <1>1, <1>2 DEF DatastoreInv
  <2>2. \A i \in removed' : ~Bound(i)'
    BY <1>1, <1>3 DEF DatastoreInv
  <2> QED
    BY <2>1, <2>2 DEF DatastoreInv
<1> QED
  BY <1>1, <1>2, <1>3, <1>4 DEF Bound

\* Its audiohook is attached.
LEMMA AttachAudiohookKeeps == ASSUME LinkInv, AttachAudiohook PROVE LinkInv'
<1>0. PICK h \in HookIds : control.hook = h
  BY AtHook DEF AttachAudiohook, HookPcs, InstallPcs
<1> DEFINE at == control.at
           here == ds[at] = h
<1>1. /\ UNCHANGED <<lifeVars, config, candidate, rate, relink, strays, lease, removed, fds, chan>>
      /\ control.pc = "attach"
      /\ \/ /\ heap' = [heap EXCEPT !.hook[h].listed = TRUE]
            /\ control' = [control EXCEPT !.pc = "cas"] /\ ds' = ds
         \/ /\ heap' = Release(IF here THEN DatastoreDestroy(heap, h) ELSE heap, h)
            /\ ds' = IF here THEN [ds EXCEPT ![control.at] = 0] ELSE ds
            /\ control' = Failed(control)
  BY <1>0 DEF AttachAudiohook, cfgVars
<1>2. /\ lease' = lease /\ removed' = removed /\ fds' = fds
      /\ chan' = chan /\ relink' = relink
  BY <1>1
<1>3. /\ HookInv(h) /\ control.by \in {"scan", "reload", "bind"} /\ heap.hook[h] \in Hooks
      /\ control \in Controls /\ Placed(control) /\ h # 0 /\ heap \in Heaps
      /\ at \in LinkChannels
  <2>1. control.pc \in HookPcs /\ control.pc \in InstallPcs
    BY <1>1 DEF HookPcs, InstallPcs
  <2> QED
    BY <2>1, <1>0, <1>1, TypeFacts, OneHook DEF Placed
<1>4. CASE /\ heap' = [heap EXCEPT !.hook[h].listed = TRUE]
           /\ control' = [control EXCEPT !.pc = "cas"] /\ ds' = ds
  <2> DEFINE k == heap.hook[h]
             t == TRUE
             n == [k EXCEPT !.listed = t]
  <2>1. control'.pc = "cas" /\ control'.by = control.by
        /\ control'.hook = h /\ control'.graph = control.graph /\ control'.at = at
        /\ control'.want = control.want
    BY <1>0, <1>3, <1>4, AtPlace, PlaceNames
  <2>2. Placed(control')
    BY <2>1, <1>1, <1>3 DEF Placed, HookPcs, InstallPcs
  <2>3. t \in BOOLEAN /\ heap' = [heap EXCEPT !.hook[h].listed = t]
    BY <1>4
  <2> HIDE DEF t
  <2>4. n \in Hooks /\ n.refs = k.refs /\ n.att = k.att /\ n.profile = k.profile
        /\ n.staged = k.staged /\ n.pending = k.pending /\ n.active = k.active
    BY <1>3, <2>3 DEF Hooks
  <2>5. heap' = Put(heap, h, n)
    <3>1. \A v \in BOOLEAN : [heap EXCEPT !.hook[h].listed = v] =
                     Put(heap, h, [heap.hook[h] EXCEPT !.listed = v])
      BY <1>3, PutFields
    <3> QED
      BY <3>1, <2>3, Zenon
  <2> HIDE DEF n
  <2>6. /\ heap' \in Heaps /\ heap'.hook[h] = n
        /\ \A i \in HookIds : i # h => heap'.hook[i] = heap.hook[i]
        /\ Spare(heap') = Spare(heap)
    <3>1. Weight(n) = Weight(k) /\ Weight(k) \in Int
      BY <2>4 DEF Weight, Count
    <3> QED
      BY <3>1, <1>3, <2>4, <2>5, PutFacts
  <2>7. ASSUME NEW i \in HookIds PROVE HookInv(i)' /\ heap'.hook[i].refs = heap.hook[i].refs
    <3>1. HookInv(i)
      BY TypeFacts DEF HooksInv
    <3>2. CASE i = h
      BY <3>1, <3>2, <1>0, <1>1, <1>2, <2>1, <2>4, <2>6 DEF HookInv, InstallPcs
    <3>3. CASE i # h
      BY <3>1, <3>3, <1>0, <1>2, <2>1, <2>6 DEF HookInv
    <3> QED
      BY <3>2, <3>3
  <2> QED
    BY <1>0, <1>1, <1>3, <1>4, <2>1, <2>2, <2>6, <2>7, PlaceNames, Proceeds DEF astVars
<1>5. CASE /\ heap' = Release(IF here THEN DatastoreDestroy(heap, h) ELSE heap, h)
           /\ ds' = IF here THEN [ds EXCEPT ![at] = 0] ELSE ds
           /\ control' = Failed(control)
  <2> DEFINE b == IF here THEN h ELSE 0
  <2>1. b \in HookIds \cup {0} /\ (b # 0 => Bound(b)) /\ (b # 0 <=> here)
    BY <1>3 DEF Bound
  <2>2. /\ heap' \in Heaps /\ Spare(heap') = Spare(heap)
        /\ \A i \in HookIds :
                 /\ Dropped(heap.hook[i], heap'.hook[i])
                 /\ heap'.hook[i].refs = OwnerCount(i) - Count(i = h) - Count(i = b)
                 /\ OwnerCount(i) \in Int
    <3>1. heap' = Release(IF b # 0 THEN DatastoreDestroy(heap, b) ELSE heap, h)
      BY <1>3, <1>5
    <3> HIDE DEF b
    <3> QED
      BY <3>1, <2>1, <1>0, LetGo
  <2>3. /\ control' \in Controls /\ Placed(control') /\ Empty' /\ control'.by = control.by
    BY <1>3, <1>5, MovesOn
  <2>4. /\ DatastoreInv' /\ ds' \in [LinkChannels -> HookIds \cup {0}]
        /\ \A i \in HookIds : Bound(i)' <=> Bound(i) /\ i # b
    <3>1. CASE here
      <4>1. control'.pc # "add" /\ ds[at] = b
        BY <3>1, <2>3 DEF Empty, HookPcs, InstallPcs
      <4> HIDE DEF b
      <4> QED
        BY <3>1, <4>1, <1>2, <1>3, <1>5, TypeFacts, FewerDatastores
    <3>2. CASE ~here
      BY <3>2, <1>2, <1>5, <2>3, TypeFacts DEF DatastoreInv, Bound, Empty, HookPcs, InstallPcs
    <3> QED
      BY <3>1, <3>2
  <2> HIDE DEF b
  <2>5. ASSUME NEW i \in HookIds PROVE heap'.hook[i].refs = OwnerCount(i)'
    <3>1. control'.hook # i /\ i # 0
      BY <2>3, TypeFacts DEF Empty
    <3>2. OwnerCount(i)' = OwnerCount(i) - Count(i = h) - Count(i = b)
      BY <3>1, <2>1, <2>4, <1>0, <1>1, <1>2 DEF OwnerCount, Count
    <3> QED
      BY <3>2, <2>2
  <2>6. LeaseInv'
    <3>1. \A c \in LinkChannels : ds'[c] = ds[c] \/ ds'[c] = 0
      BY <1>3, <1>5, TypeFacts
    <3> QED
      BY <3>1, <1>2, <2>3, TypeFacts DEF LeaseInv, Ending, Empty, HookPcs, InstallPcs
  <2> QED
    BY <1>1, <1>2, <1>3, <1>5, <2>2, <2>4, <2>5, <2>6, TypeFacts, DropsKeep
<1> QED
  BY <1>1, <1>4, <1>5

\* The attachment is published.
LEMMA PublishAttachedKeeps == ASSUME LinkInv, PublishAttached PROVE LinkInv'
<1>0. PICK h \in HookIds : control.hook = h
  BY AtHook DEF PublishAttached, HookPcs, InstallPcs
<1> DEFINE k == heap.hook[h]
<1>1. /\ UNCHANGED <<lifeVars, astVars, config, candidate, rate, relink, strays>>
      /\ control.pc = "cas"
      /\ IF k.att = "building"
         THEN /\ heap' = [heap EXCEPT !.hook[h].att = "attached"]
              /\ control' = [control EXCEPT !.pc = "lease"]
         ELSE /\ heap' = Release(Balanced(heap, h), h)
              /\ control' = Failed(control)
  BY <1>0 DEF PublishAttached, cfgVars
<1>2. /\ lease' = lease /\ ds' = ds /\ removed' = removed /\ relink' = relink
  BY <1>1 DEF astVars
<1>3. /\ HookInv(h) /\ control.by \in {"scan", "reload", "bind"} /\ k \in Hooks
      /\ control \in Controls /\ Placed(control) /\ h # 0 /\ heap \in Heaps
      /\ control.want \in Profiles /\ control.at \in LinkChannels
      /\ k.refs >= 1 /\ k.refs \in Int /\ Spare(heap) = 0
  <2>1. control.pc \in HookPcs /\ control.pc \in InstallPcs
    BY <1>1 DEF HookPcs, InstallPcs
  <2> QED
    BY <2>1, <1>0, <1>1, TypeFacts, OneHook, HookFields DEF Placed, GraphInv, Count
<1>4. CASE /\ k.att = "building"
           /\ heap' = [heap EXCEPT !.hook[h].att = "attached"]
           /\ control' = [control EXCEPT !.pc = "lease"]
  <2> DEFINE n == [k EXCEPT !.att = "attached"]
  <2>1. control'.pc = "lease" /\ control'.by = control.by
        /\ control'.hook = h /\ control'.graph = control.graph /\ control'.at = control.at
        /\ control'.want = control.want
    BY <1>0, <1>3, <1>4, AtPlace, PlaceNames
  <2>2. Placed(control')
    BY <2>1, <1>1, <1>3 DEF Placed, HookPcs, InstallPcs
  <2>4. n \in Hooks /\ n.refs = k.refs /\ n.att = "attached" /\ n.profile = k.profile
        /\ n.staged = k.staged /\ n.pending = k.pending /\ n.active = k.active
    BY <1>3 DEF Hooks
  <2>5. heap' = Put(heap, h, n)
    BY <1>3, <1>4, PutFields
  <2> HIDE DEF n
  <2>6. /\ heap' \in Heaps /\ heap'.hook[h] = n
        /\ \A i \in HookIds : i # h => heap'.hook[i] = heap.hook[i]
        /\ Spare(heap') = Spare(heap)
    <3>1. Weight(n) = Weight(k) /\ Weight(k) \in Int
      BY <2>4 DEF Weight, Count
    <3> QED
      BY <3>1, <1>3, <2>4, <2>5, PutFacts
  <2>7. ASSUME NEW i \in HookIds PROVE HookInv(i)' /\ heap'.hook[i].refs = heap.hook[i].refs
    <3>1. HookInv(i)
      BY TypeFacts DEF HooksInv
    <3>2. CASE i = h
      BY <3>1, <3>2, <1>0, <1>1, <1>2, <1>3, <2>1, <2>4, <2>6 DEF HookInv, InstallPcs
    <3>3. CASE i # h
      BY <3>1, <3>3, <1>0, <1>2, <2>1, <2>6 DEF HookInv
    <3> QED
      BY <3>2, <3>3
  <2> QED
    BY <1>0, <1>1, <1>3, <1>4, <2>1, <2>2, <2>6, <2>7, PlaceNames, Proceeds
<1>5. CASE heap' = Release(Balanced(heap, h), h) /\ control' = Failed(control)
  <2> DEFINE f == FALSE
             n == [k EXCEPT !.listed = f]
             hp == Balanced(heap, h)
  <2>1. f \in BOOLEAN /\ hp = [heap EXCEPT !.hook[h].listed = f]
    BY DEF Balanced
  <2>2. ~f
    OBVIOUS
  <2> HIDE DEF f, hp
  <2>3. n \in Hooks /\ n.refs = k.refs /\ n.att = k.att /\ n.profile = k.profile
        /\ n.staged = k.staged /\ n.pending = k.pending /\ n.active = k.active
        /\ n.listed = f
    BY <1>3, <2>1 DEF Hooks
  <2>4. hp = Put(heap, h, n)
    <3>1. \A v \in BOOLEAN : [heap EXCEPT !.hook[h].listed = v] =
                     Put(heap, h, [heap.hook[h] EXCEPT !.listed = v])
      BY <1>3, PutFields
    <3> QED
      BY <3>1, <2>1, Zenon
  <2> HIDE DEF n
  <2>5. /\ hp \in Heaps /\ hp.hook[h] = n
        /\ \A i \in HookIds : i # h => hp.hook[i] = heap.hook[i]
        /\ Spare(hp) = 0
    <3>1. Weight(n) = Weight(k) /\ Weight(k) \in Int
      BY <2>3 DEF Weight, Count
    <3> QED
      BY <3>1, <1>3, <2>3, <2>4, PutFacts
  <2>6. /\ control' \in Controls /\ Placed(control') /\ Empty' /\ control'.by = control.by
    BY <1>3, <1>5, MovesOn
  <2>7. LifeInv'
    BY <1>1, <2>6, TypeFacts DEF LifeInv, lifeVars
  <2>8. ~n.listed
    BY <2>2, <2>3, Zenon
  <2>9. (n.staged # NoGraph => n.pending) /\ (k.pending => n.pending)
    BY <1>3, <2>3 DEF HookInv
  <2>10. heap' = Release(hp, h)
    BY <1>5 DEF hp
  <2> QED
    BY <1>0, <1>1, <1>3, <2>3, <2>5, <2>6, <2>7, <2>8, <2>9, <2>10, GiveBack
<1> QED
  BY <1>1, <1>4, <1>5

\* The fields of a lease that is taken.
LEMMA NewLease ==
    ASSUME NEW c \in LinkChannels, NEW n,
           n = [NoLease EXCEPT !.on = TRUE, !.chan = c, !.slot = TRUE]
    PROVE  /\ n \in Leases /\ n.on /\ n.chan = c /\ n.slot /\ ~n.detaching /\ ~n.asked
BY DEF NoLease, Leases

\* Its lease is taken.
LEMMA InstallLeaseKeeps == ASSUME LinkInv, InstallLease PROVE LinkInv'
<1>0. PICK h \in HookIds : control.hook = h
  BY AtHook DEF InstallLease, HookPcs, InstallPcs
<1> DEFINE at == control.at
           nl == [NoLease EXCEPT !.on = TRUE, !.chan = at, !.slot = TRUE]
<1>1. /\ UNCHANGED <<lifeVars, config, candidate, rate, relink, strays, ds, removed, chan>>
      /\ control.pc = "lease"
      /\ \/ /\ lease' = [lease EXCEPT ![h] = nl]
            /\ fds' = fds \cup {<<at, h>>}
            /\ heap' = Retain(heap, h)
            /\ control' = [control EXCEPT !.pc = "done"]
         \/ /\ control' = [control EXCEPT !.pc = "unwind"]
            /\ UNCHANGED <<lease, fds, heap>>
  BY <1>0 DEF InstallLease, cfgVars
<1>2. /\ life' = life /\ driver' = driver /\ running' = running /\ stop' = stop
      /\ scan' = scan /\ ds' = ds /\ removed' = removed /\ chan' = chan /\ relink' = relink
  BY <1>1 DEF lifeVars
<1>3. /\ HookInv(h) /\ control.by \in {"scan", "reload", "bind"} /\ heap.hook[h] \in Hooks
      /\ control \in Controls /\ Placed(control) /\ h # 0 /\ heap \in Heaps
      /\ control.want \in Profiles /\ at \in LinkChannels
      /\ heap.hook[h].refs >= 1 /\ heap.hook[h].refs \in Int /\ ~lease[h].on
      /\ heap.hook[h].refs = OwnerCount(h)
  <2>1. control.pc \in HookPcs /\ control.pc \in InstallPcs
    BY <1>1 DEF HookPcs, InstallPcs
  <2>2. HookInv(h) /\ heap.hook[h].refs = OwnerCount(h) /\ heap.hook[h] \in Hooks
        /\ heap.hook[h].refs >= 1
    BY <1>0, OneHook
  <2>3. ~lease[h].on
    BY <1>0, <1>1, <2>2 DEF HookInv
  <2> QED
    BY <2>1, <2>2, <2>3, <1>0, <1>1, TypeFacts, HookFields DEF Placed
<1>4. CASE control' = [control EXCEPT !.pc = "unwind"] /\ UNCHANGED <<lease, fds, heap>>
  <2>1. control'.pc = "unwind" /\ control'.by = control.by
        /\ control'.hook = h /\ control'.graph = control.graph /\ control'.at = at
        /\ control'.want = control.want
    BY <1>0, <1>3, <1>4, AtPlace, PlaceNames
  <2>2. Placed(control')
    BY <2>1, <1>1, <1>3 DEF Placed, HookPcs, InstallPcs
  <2>3. ASSUME NEW i \in HookIds PROVE HookInv(i)'
    <3>1. HookInv(i)
      BY TypeFacts DEF HooksInv
    <3> QED
      BY <3>1, <1>0, <1>1, <1>2, <1>4, <2>1 DEF HookInv, InstallPcs
  <2> QED
    BY <1>0, <1>1, <1>3, <1>4, <2>1, <2>2, <2>3, PlaceNames, TypeFacts, Proceeds DEF astVars
<1>5. CASE /\ lease' = [lease EXCEPT ![h] = nl]
           /\ fds' = fds \cup {<<at, h>>}
           /\ heap' = Retain(heap, h)
           /\ control' = [control EXCEPT !.pc = "done"]
  <2>1. /\ nl \in Leases /\ nl.on /\ nl.chan = at /\ nl.slot /\ ~nl.detaching /\ ~nl.asked
    <3> HIDE DEF at
    <3> QED
      BY <1>3, NewLease
  <2> HIDE DEF nl
  <2>2. /\ lease' \in [HookIds -> Leases] /\ lease'[h] = nl
        /\ \A i \in HookIds : i # h => lease'[i] = lease[i]
    BY <1>5, <2>1, TypeFacts
  <2>3. control'.pc = "done" /\ control'.by = control.by /\ control' \in Controls
        /\ control'.hook = h /\ control'.graph = control.graph /\ control'.at = at
        /\ control'.want = control.want
    BY <1>0, <1>3, <1>5, AtPlace, PlaceNames
  <2>4. Placed(control')
    BY <2>3, <1>1, <1>3 DEF Placed, HookPcs, InstallPcs
  <2>5. LifeInv'
    BY <1>2, <2>3, TypeFacts DEF LifeInv
  <2>6. /\ heap' \in Heaps /\ heap'.hook[h].refs = heap.hook[h].refs + 1
        /\ Same(heap.hook[h], heap'.hook[h])
        /\ \A i \in HookIds : i # h => heap'.hook[i] = heap.hook[i]
        /\ Spare(heap') = Spare(heap)
    BY <1>3, <1>5, RetainEffect
  <2>7. fds' \in SUBSET (LinkChannels \X HookIds)
    BY <1>3, <1>5, TypeFacts
  <2>8. LinkTypes'
    BY <1>1, <1>2, <2>2, <2>3, <2>6, <2>7, TypeFacts DEF LinkTypes
  <2>9. DatastoreInv'
    BY <1>2, <2>3, TypeFacts DEF DatastoreInv, Bound
  <2>10. ASSUME NEW i \in HookIds
         PROVE  HookInv(i)' /\ heap'.hook[i].refs = OwnerCount(i)'
    <3>1. CASE i # h
      <4>1. Bound(i)' <=> Bound(i)
        BY <1>2 DEF Bound
      <4> QED
        BY <3>1, <4>1, <1>0, <1>2, <1>3, <2>2, <2>3, <2>6, OtherHook
    <3>2. CASE i = h
      <4>1. HookInv(i) /\ control.hook = i /\ control'.hook = i /\ Same(heap.hook[i], heap'.hook[i])
            /\ heap'.hook[i].refs = heap.hook[i].refs + 1
            /\ heap.hook[i].refs = OwnerCount(i) /\ ~lease[i].on /\ lease'[i].on
        BY <3>2, <1>0, <1>3, <2>1, <2>2, <2>3, <2>6
      <4>2. OwnerCount(i)' = OwnerCount(i) + 1
        BY <4>1, <1>1, <1>2, <2>3 DEF OwnerCount, Count, Bound
      <4>3. HookInv(i)'
        <5>1. heap.hook[i].refs >= 1 /\ heap.hook[i].refs \in Int
          BY <3>2, <1>3
        <5> QED
          BY <4>1, <5>1, <1>1, <1>2, <2>3 DEF HookInv, Same, InstallPcs
      <4> QED
        BY <4>1, <4>2, <4>3
    <3> QED
      BY <3>1, <3>2
  <2>11. GraphInv'
    BY <2>3, <2>6, TypeFacts DEF GraphInv
  <2>12. LeaseInv'
    <3>1. LeaseInv
      BY TypeFacts
    <3>2. ASSUME NEW s \in fds'
          PROVE  lease'[s[2]].on /\ lease'[s[2]].slot /\ lease'[s[2]].chan = s[1]
      <4>1. CASE s \in fds
        <5>1. s[2] \in HookIds /\ lease[s[2]].on /\ lease[s[2]].slot /\ lease[s[2]].chan = s[1]
          BY <4>1, <3>1, TypeFacts DEF LeaseInv
        <5>2. s[2] # h
          BY <5>1, <1>3
        <5> QED
          BY <5>1, <5>2, <2>2
      <4>2. CASE s = <<at, h>>
        BY <4>2, <2>1, <2>2
      <4> QED
        BY <1>5, <4>1, <4>2
    <3>3. ASSUME NEW i \in HookIds
          PROVE  LET l == lease'[i]
                 IN  /\ l.asked => l.detaching
                     /\ l.on => l.chan \in LinkChannels
                     /\ l.on => \/ l.asked \/ Ending(l.chan)
                                \/ l.slot /\ ~l.detaching /\ <<l.chan, i>> \in fds'
                     /\ \A c \in LinkChannels :
                           l.on /\ ds[c] = i /\ c # l.chan => Ending(l.chan)
      <4>1. CASE i = h
        <5>1. \A c \in LinkChannels : ds[c] = h /\ c # at => Ending(at)
          BY <1>0, <1>1, <3>1 DEF LeaseInv
        <5>2. <<at, h>> \in fds'
          BY <1>5
        <5> HIDE DEF at
        <5> QED
          BY <4>1, <5>1, <5>2, <1>3, <2>1, <2>2, Zenon
      <4>2. CASE i # h
        <5>1. lease'[i] = lease[i] /\ fds \subseteq fds'
          BY <4>2, <2>2, <1>5
        <5> QED
          BY <5>1, <3>1 DEF LeaseInv
      <4> QED
        BY <4>1, <4>2
    <3> QED
      BY <3>2, <3>3, <1>2, <2>3 DEF LeaseInv, Ending
  <2> QED
    BY <2>4, <2>5, <2>8, <2>9, <2>10, <2>11, <2>12
       DEF LinkInv, HeldInv, ControlInv, RefInv, HooksInv
<1> QED
  BY <1>1, <1>4, <1>5

\* The lease of the datastore that leaves is asked to go as well.
LEMMA AskedFacts ==
    ASSUME LinkInv, NEW c \in LinkChannels, lease' = LeaseAsked(c),
           \A d \in LinkChannels : ds'[d] = ds[d] \/ ds'[d] = 0,
           fds' = fds, chan' = chan, control'.pc \notin {"attach", "cas", "lease"}
    PROVE  /\ lease' \in [HookIds -> Leases] /\ LeaseInv'
           /\ \A i \in HookIds : lease'[i].on <=> lease[i].on
<1> DEFINE h == ds[c]
<1>1. /\ lease \in [HookIds -> Leases] /\ ds \in [LinkChannels -> HookIds \cup {0}] /\ LeaseInv
      /\ \A i \in HookIds : i # 0
  BY TypeFacts
<1>2. CASE ~(h # 0 /\ lease[h].on)
  <2>1. lease' = lease
    BY <1>2 DEF LeaseAsked
  <2> QED
    BY <1>1, <2>1 DEF LeaseInv, Ending
<1>3. CASE h # 0 /\ lease[h].on
  <2>1. h \in HookIds
    BY <1>1, <1>3
  <2>2. PICK i \in HookIds : i = h
    BY <2>1
  <2> DEFINE n == LeaseDetach(lease[i], c)
  <2>3. AskedOf(lease[i], c, n)
    BY <1>1, <2>2, LeaseDetachFacts
  <2>4. lease' = [lease EXCEPT ![i] = n]
    BY <1>3, <2>2 DEF LeaseAsked
  <2> HIDE DEF n
  <2>5. /\ n \in Leases /\ n.on = lease[i].on /\ n.chan = lease[i].chan
        /\ n.slot = lease[i].slot
        /\ n.detaching /\ (n.asked <=> (lease[i].asked \/ lease[i].chan = c))
    BY <2>3 DEF AskedOf
  <2>6. /\ lease' \in [HookIds -> Leases] /\ lease'[i] = n
        /\ \A j \in HookIds : j # i => lease'[j] = lease[j]
    BY <1>1, <2>4, <2>5
  <2>7. ASSUME NEW j \in HookIds
        PROVE  /\ lease'[j].on = lease[j].on /\ lease'[j].slot = lease[j].slot
               /\ lease'[j].chan = lease[j].chan
    BY <2>5, <2>6
  <2>8. ASSUME NEW j \in HookIds
        PROVE  LET l == lease'[j]
               IN  /\ l.asked => l.detaching
                   /\ l.on => l.chan \in LinkChannels
                   /\ l.on => \/ l.asked \/ Ending(l.chan)
                              \/ l.slot /\ ~l.detaching /\ <<l.chan, j>> \in fds
                   /\ \A d \in LinkChannels :
                         l.on /\ ds'[d] = j /\ d # l.chan => Ending(l.chan)
    <3>1. \A d \in LinkChannels : ds'[d] = j => ds[d] = j
      BY <1>1
    <3>2. LET l == lease[j]
          IN  /\ l.asked => l.detaching
              /\ l.on => l.chan \in LinkChannels
              /\ l.on => \/ l.asked \/ Ending(l.chan)
                         \/ l.slot /\ ~l.detaching /\ <<l.chan, j>> \in fds
              /\ \A d \in LinkChannels :
                    l.on /\ ds[d] = j /\ d # l.chan => Ending(l.chan)
      BY <1>1 DEF LeaseInv
    <3>3. CASE j = i
      <4>1. lease[i].chan # c => Ending(lease[i].chan)
        BY <1>3, <2>2, <3>2, <3>3
      <4> QED
        BY <3>1, <3>2, <3>3, <4>1, <2>5, <2>6, Zenon
    <3>4. CASE j # i
      BY <3>1, <3>2, <3>4, <2>6
    <3> QED
      BY <3>3, <3>4
  <2>9. ASSUME NEW s \in fds
        PROVE  lease'[s[2]].on /\ lease'[s[2]].slot /\ lease'[s[2]].chan = s[1]
    <3>1. s[2] \in HookIds
      BY TypeFacts
    <3> QED
      BY <3>1, <1>1, <2>7 DEF LeaseInv
  <2>10. LeaseInv'
    BY <2>8, <2>9 DEF LeaseInv, Ending
  <2> QED
    BY <2>6, <2>7, <2>10
<1> QED
  BY <1>2, <1>3

\* An installation is undone.
LEMMA UnwindKeeps == ASSUME LinkInv, Unwind PROVE LinkInv'
<1>0. PICK h \in HookIds : control.hook = h
  BY AtHook DEF Unwind, HookPcs, InstallPcs
<1> DEFINE at == control.at
<1>1. /\ UNCHANGED <<lifeVars, config, candidate, rate, relink, strays, removed, fds, chan>>
      /\ control.pc = "unwind" /\ control' = Failed(control)
      /\ lease' = LeaseAsked(at) /\ ds' = [ds EXCEPT ![at] = 0]
      /\ heap' = Release(IF ds[at] # 0 THEN DatastoreDestroy(heap, ds[at]) ELSE heap, h)
  BY <1>0 DEF Unwind, cfgVars
<1>2. removed' = removed /\ fds' = fds /\ chan' = chan /\ relink' = relink
  BY <1>1
<1>3. /\ control.by \in {"scan", "reload", "bind"} /\ control \in Controls
      /\ at \in LinkChannels /\ relink \in Relinks
  BY <1>1, TypeFacts DEF Placed, InstallPcs
<1>4. PICK b \in HookIds \cup {0} : b = ds[at]
  BY <1>3, TypeFacts
<1>5. /\ control' \in Controls /\ Placed(control') /\ Empty' /\ control'.by = control.by
  BY <1>1, <1>3, MovesOn
<1>6. control'.pc # "add" /\ control'.pc \notin {"attach", "cas", "lease"}
  BY <1>5 DEF Empty, HookPcs, InstallPcs
<1>7. /\ DatastoreInv' /\ ds' \in [LinkChannels -> HookIds \cup {0}]
      /\ \A i \in HookIds : Bound(i)' <=> Bound(i) /\ i # b
      /\ b # 0 => Bound(b)
  BY <1>1, <1>2, <1>3, <1>4, <1>6, TypeFacts, FewerDatastores
<1>8. /\ heap' \in Heaps /\ Spare(heap') = Spare(heap)
      /\ \A i \in HookIds :
            /\ Dropped(heap.hook[i], heap'.hook[i])
            /\ heap'.hook[i].refs = OwnerCount(i) - Count(i = h) - Count(i = b)
            /\ OwnerCount(i) \in Int
  BY <1>0, <1>1, <1>4, <1>7, LetGo
<1>9. /\ lease' \in [HookIds -> Leases] /\ LeaseInv'
      /\ \A i \in HookIds : lease'[i].on <=> lease[i].on
  <2>1. \A d \in LinkChannels : ds'[d] = ds[d] \/ ds'[d] = 0
    BY <1>1, TypeFacts
  <2> QED
    BY <1>1, <1>2, <1>3, <1>6, <2>1, AskedFacts
<1>10. ASSUME NEW i \in HookIds PROVE heap'.hook[i].refs = OwnerCount(i)'
  <2>1. control'.hook # i /\ i # 0
    BY <1>5, TypeFacts DEF Empty
  <2>2. OwnerCount(i)' = OwnerCount(i) - Count(i = h) - Count(i = b)
    BY <2>1, <1>0, <1>1, <1>2, <1>7, <1>9 DEF OwnerCount, Count
  <2> QED
    BY <2>2, <1>8
<1> QED
  BY <1>1, <1>2, <1>3, <1>7, <1>8, <1>9, <1>10, TypeFacts, DropsKeep

\* An installation is done.
LEMMA InstalledKeeps == ASSUME LinkInv, Installed PROVE LinkInv'
<1>0. PICK h \in HookIds : control.hook = h
  BY AtHook DEF Installed, HookPcs, InstallPcs
<1>1. /\ UNCHANGED <<lifeVars, astVars, config, candidate, rate, strays>>
      /\ control.pc = "done" /\ control' = NextVisit(control)
      /\ IF control.by = "reload"
         THEN relink' = [relink EXCEPT !.hooks = @ \cup {h}] /\ heap' = heap
         ELSE relink' = relink /\ heap' = Release(heap, h)
  BY <1>0 DEF Installed, cfgVars
<1>2. /\ HookInv(h) /\ control.by \in {"scan", "reload", "bind"} /\ relink \in Relinks
      /\ heap.hook[h].refs = OwnerCount(h)
      /\ control.graph = NoGraph
  BY <1>0, <1>1, TypeFacts, OneHook DEF Placed, InstallPcs
<1>3. /\ control' \in Controls /\ Placed(control') /\ Empty' /\ control'.by = control.by
  BY <1>1, <1>2, MovesOn
<1>4. CASE control.by # "reload"
  <2>1. LifeInv'
    BY <1>1, <1>3, <1>4, TypeFacts DEF LifeInv, lifeVars
  <2>2. control.pc \in HookPcs \ {"add", "free", "cas", "publish"}
    BY <1>1 DEF HookPcs, InstallPcs
  <2> QED
    BY <1>0, <1>1, <1>3, <1>4, <2>1, <2>2, GiveBackPlain
<1>5. CASE control.by = "reload"
  <2>1. relink' \in Relinks /\ relink'.pc = relink.pc /\ relink'.hooks = relink.hooks \cup {h}
        /\ heap' = heap
    BY <1>1, <1>2, <1>5 DEF Relinks
  <2>2. /\ life' = life /\ driver' = driver /\ running' = running /\ stop' = stop
        /\ scan' = scan /\ lease' = lease /\ ds' = ds /\ removed' = removed /\ fds' = fds
        /\ chan' = chan
    BY <1>1 DEF lifeVars, astVars
  <2>3. LifeInv'
    BY <1>3, <1>5, <2>1, <2>2, TypeFacts DEF LifeInv
  <2>4. LinkTypes'
    BY <1>1, <1>3, <2>1, <2>2, TypeFacts DEF LinkTypes, Relinks
  <2>5. DatastoreInv'
    BY <1>3, <2>2, TypeFacts DEF DatastoreInv, Bound, Empty, HookPcs, InstallPcs
  <2>6. ASSUME NEW i \in HookIds
        PROVE  HookInv(i)' /\ heap'.hook[i].refs = OwnerCount(i)'
    <3>1. CASE i # h
      <4>1. (Bound(i)' <=> Bound(i)) /\ control'.hook = 0
        BY <1>3, <2>2 DEF Bound, Empty
      <4> QED
        BY <3>1, <4>1, <1>0, <2>1, <2>2, OtherHook
    <3>2. CASE i = h
      <4>1. /\ control'.hook # i /\ control.hook = i /\ HookInv(i) /\ i # 0
            /\ heap.hook[i].refs = OwnerCount(i)
        BY <3>2, <1>0, <1>2, <1>3, TypeFacts DEF Empty
      <4>2. i \notin relink.hooks /\ heap.hook[i].pending
        BY <4>1, <1>1, <1>5 DEF HookInv, InstallPcs
      <4>3. OwnerCount(i)' = OwnerCount(i)
        BY <3>2, <4>1, <4>2, <1>1, <2>1, <2>2 DEF OwnerCount, Count, Bound
      <4>4. HookInv(i)'
        BY <4>1, <4>2, <1>1, <2>1, <2>2 DEF HookInv, InstallPcs
      <4> QED
        BY <4>1, <4>3, <4>4, <2>1
    <3> QED
      BY <3>1, <3>2
  <2>7. GraphInv'
    BY <1>2, <1>3, <2>1, TypeFacts DEF GraphInv, Count, Empty
  <2>8. LeaseInv'
    BY <1>3, <2>2, TypeFacts DEF LeaseInv, Ending, Empty, HookPcs, InstallPcs
  <2> QED
    BY <1>3, <2>3, <2>4, <2>5, <2>6, <2>7, <2>8
       DEF LinkInv, HeldInv, ControlInv, RefInv, HooksInv
<1> QED
  BY <1>4, <1>5

\* Unloading takes a channel's datastore off.
LEMMA DetachChannelKeeps == ASSUME LinkInv, DetachChannel PROVE LinkInv'
<1>1. PICK c \in control.todo :
          /\ lease' = LeaseAsked(c)
          /\ ds' = [ds EXCEPT ![c] = 0]
          /\ control' = [control EXCEPT !.todo = @ \ {c}, !.hook = ds[c],
                                !.pc = IF ds[c] = 0 THEN "visit" ELSE "free"]
  BY DEF DetachChannel
<1>2. /\ UNCHANGED <<lifeVars, relink, config, candidate, rate, heap, removed, fds, chan, strays>>
      /\ control.by = "stop" /\ control.pc = "visit"
  BY DEF DetachChannel, cfgVars
<1>3. /\ life' = life /\ driver' = driver /\ running' = running /\ stop' = stop
      /\ scan' = scan /\ removed' = removed /\ fds' = fds /\ chan' = chan /\ relink' = relink
      /\ heap' = heap
  BY <1>2 DEF lifeVars
<1>4. Empty /\ c \in LinkChannels
  BY <1>2, EmptyAt, TypeFacts DEF Controls
<1>5. PICK b \in HookIds \cup {0} : b = ds[c]
  BY <1>4, TypeFacts
<1>6. /\ control' \in Controls /\ control'.by = "stop" /\ control'.hook = b
      /\ control'.graph = NoGraph /\ control'.want = control.want
      /\ control'.pc = (IF b = 0 THEN "visit" ELSE "free")
  BY <1>1, <1>2, <1>4, <1>5, TypeFacts DEF Controls, Pcs, HookPcs, Empty
<1>7. Placed(control')
  BY <1>6, <1>5 DEF Placed, HookPcs, InstallPcs
<1>8. LifeInv'
  BY <1>2, <1>3, <1>6, TypeFacts DEF LifeInv
<1>9. control'.pc # "add" /\ control'.pc \notin {"attach", "cas", "lease"}
  BY <1>6
<1>10. /\ DatastoreInv' /\ ds' \in [LinkChannels -> HookIds \cup {0}]
       /\ \A i \in HookIds : Bound(i)' <=> Bound(i) /\ i # b
       /\ b # 0 => Bound(b)
  BY <1>1, <1>3, <1>4, <1>5, <1>9, TypeFacts, FewerDatastores
<1>11. /\ lease' \in [HookIds -> Leases] /\ LeaseInv'
       /\ \A i \in HookIds : lease'[i].on <=> lease[i].on
  <2>1. \A d \in LinkChannels : ds'[d] = ds[d] \/ ds'[d] = 0
    BY <1>1, <1>4, TypeFacts
  <2> QED
    BY <1>1, <1>3, <1>4, <1>9, <2>1, AskedFacts
<1>12. LinkTypes'
  BY <1>2, <1>3, <1>6, <1>10, <1>11, TypeFacts DEF LinkTypes
<1>13. ASSUME NEW i \in HookIds
       PROVE  HookInv(i)' /\ heap'.hook[i].refs = OwnerCount(i)'
  <2>1. HookInv(i) /\ heap.hook[i].refs = OwnerCount(i) /\ control.hook # i /\ i # 0
    BY <1>4, OneHook, TypeFacts DEF Empty
  <2>2. OwnerCount(i)' = OwnerCount(i)
    <3>1. CASE i = b
      <4>1. Bound(i) /\ ~Bound(i)' /\ control'.hook = i /\ control'.pc # "add"
        BY <3>1, <1>6, <1>10, <2>1
      <4> QED
        BY <4>1, <2>1, <1>3, <1>11 DEF OwnerCount, Count
    <3>2. CASE i # b
      <4>1. (Bound(i)' <=> Bound(i)) /\ control'.hook # i
        BY <3>2, <1>6, <1>10
      <4> QED
        BY <4>1, <2>1, <1>3, <1>11 DEF OwnerCount, Count
    <3> QED
      BY <3>1, <3>2
  <2>3. HookInv(i)'
    BY <2>1, <1>2, <1>3, <1>6, <1>11 DEF HookInv, InstallPcs
  <2> QED
    BY <2>1, <2>2, <2>3, <1>3
<1>14. GraphInv'
  BY <1>3, <1>4, <1>6, TypeFacts DEF GraphInv, Empty, Count
<1> QED
  BY <1>7, <1>8, <1>10, <1>11, <1>12, <1>13, <1>14
     DEF LinkInv, HeldInv, ControlInv, RefInv, HooksInv

\* Unloading destroys that datastore.
LEMMA DetachFreeKeeps == ASSUME LinkInv, DetachFree PROVE LinkInv'
<1>0. PICK h \in HookIds : control.hook = h
  BY AtHook DEF DetachFree, HookPcs
<1>1. /\ UNCHANGED <<lifeVars, astVars, config, candidate, rate, relink, strays>>
      /\ control.pc = "free" /\ control' = NextVisit(control)
      /\ heap' = DatastoreDestroy(heap, h)
  BY <1>0 DEF DetachFree, cfgVars
<1>2. /\ lease' = lease /\ ds' = ds /\ removed' = removed /\ fds' = fds
      /\ chan' = chan /\ relink' = relink
  BY <1>1 DEF astVars
<1>3. /\ control.by = "stop" /\ heap \in Heaps /\ heap.hook[h].refs >= 1
      /\ \A i \in HookIds : heap.hook[i].refs = OwnerCount(i)
  BY <1>0, <1>1, TypeFacts, OneHook DEF Placed
<1>4. /\ control' \in Controls /\ Placed(control') /\ Empty' /\ control'.by = control.by
  BY <1>1, <1>3, MovesOn
<1>5. /\ heap' \in Heaps /\ Spare(heap') = Spare(heap)
      /\ \A i \in HookIds : i # h => heap'.hook[i] = heap.hook[i]
  BY <1>1, <1>3, DestroyEffect
<1>6. Dropped(heap.hook[h], heap'.hook[h]) /\ heap'.hook[h].refs = heap.hook[h].refs - 1
  BY <1>1, <1>3, DestroyDrops
<1>7. ASSUME NEW i \in HookIds
      PROVE  /\ Dropped(heap.hook[i], heap'.hook[i])
             /\ heap'.hook[i].refs = OwnerCount(i)'
             /\ lease'[i].on => lease[i].on
  <2>1. control'.hook # i
    BY <1>4, TypeFacts DEF Empty
  <2>2. OwnerCount(i)' = OwnerCount(i) - Count(i = h)
    BY <2>1, <1>0, <1>1, <1>2 DEF OwnerCount, Count, Bound
  <2>3. CASE i = h
    BY <2>2, <2>3, <1>2, <1>3, <1>6 DEF Count
  <2>4. CASE i # h
    <3>1. OwnerCount(i) \in Int
      BY DEF OwnerCount, Count
    <3> QED
      BY <3>1, <2>2, <2>4, <1>2, <1>3, <1>5 DEF Count, Dropped
  <2> QED
    BY <2>3, <2>4
<1>8. DatastoreInv'
  BY <1>2, <1>4, TypeFacts DEF DatastoreInv, Bound, Empty, HookPcs, InstallPcs
<1>9. LeaseInv'
  BY <1>2, <1>4, TypeFacts DEF LeaseInv, Ending, Empty, HookPcs, InstallPcs
<1> QED
  BY <1>1, <1>2, <1>3, <1>5, <1>7, <1>8, <1>9, TypeFacts, DropsKeep

\* Asterisk takes the datastore of a channel off its list.
LEMMA DatastoreLeavesKeeps == ASSUME LinkInv, DatastoreLeaves PROVE LinkInv'
<1>1. PICK c \in LinkChannels :
          /\ ds[c] # 0
          /\ removed' = removed \cup {ds[c]} /\ ds' = [ds EXCEPT ![c] = 0]
  BY DEF DatastoreLeaves
<1>2. /\ UNCHANGED <<lifeVars, relink, config, candidate, rate, heap, lease, fds, chan, strays>>
      /\ control' = control
  BY DEF DatastoreLeaves, cfgVars
<1>3. /\ life' = life /\ driver' = driver /\ running' = running /\ stop' = stop
      /\ scan' = scan /\ lease' = lease /\ fds' = fds /\ chan' = chan /\ relink' = relink
      /\ heap' = heap
  BY <1>2 DEF lifeVars
<1>4. PICK b \in HookIds : b = ds[c]
  BY <1>1, TypeFacts
<1>5. /\ ds' \in [LinkChannels -> HookIds \cup {0}] /\ ds'[c] = 0
      /\ \A d \in LinkChannels : d # c => ds'[d] = ds[d]
  BY <1>1, TypeFacts
<1>6. Bound(b) /\ b \notin removed
  BY <1>4, TypeFacts DEF Bound, DatastoreInv
<1>7. ASSUME NEW i \in HookIds PROVE Bound(i)' <=> Bound(i) /\ i # b
  <2>1. DatastoreInv /\ i # 0
    BY TypeFacts
  <2>2. ASSUME NEW d \in LinkChannels, ds'[d] = i PROVE ds[d] = i /\ i # b
    BY <1>4, <1>5, <2>1, <2>2 DEF DatastoreInv
  <2>3. ASSUME NEW d \in LinkChannels, ds[d] = i, i # b PROVE ds'[d] = i
    BY <1>4, <1>5, <2>3
  <2> QED
    BY <2>2, <2>3 DEF Bound
<1>8. DatastoreInv'
  <2>1. \A d, e \in LinkChannels : ds'[d] = ds'[e] /\ ds'[d] # 0 => d = e
    BY <1>5, TypeFacts DEF DatastoreInv
  <2>2. \A i \in removed' : ~Bound(i)'
    BY <1>1, <1>4, <1>7, TypeFacts DEF DatastoreInv
  <2>3. ASSUME control'.pc = "add" PROVE ~Bound(control.hook)' /\ control'.hook \notin removed'
    <3>1. ~Bound(control.hook) /\ control.hook \notin removed /\ control.hook \in HookIds
      BY <2>3, <1>2, TypeFacts, AtHook DEF DatastoreInv, HookPcs, InstallPcs
    <3>2. PICK i \in HookIds : i = control.hook
      BY <3>1
    <3>3. ~Bound(i)' /\ i \notin removed'
      BY <3>1, <3>2, <1>1, <1>4, <1>6, <1>7
    <3> QED
      BY <3>2, <3>3, <1>2
  <2> QED
    BY <2>1, <2>2, <2>3 DEF DatastoreInv
<1>9. ASSUME NEW i \in HookIds
      PROVE  HookInv(i)' /\ heap'.hook[i].refs = OwnerCount(i)'
  <2>1. HookInv(i) /\ heap.hook[i].refs = OwnerCount(i)
    BY OneHook
  <2>2. OwnerCount(i)' = OwnerCount(i)
    <3>1. CASE i = b
      <4>1. i \in removed' /\ i \notin removed /\ Bound(i) /\ ~Bound(i)'
        BY <3>1, <1>1, <1>4, <1>6, <1>7
      <4> QED
        BY <4>1, <1>2, <1>3 DEF OwnerCount, Count
    <3>2. CASE i # b
      <4>1. (i \in removed' <=> i \in removed) /\ (Bound(i) <=> Bound(i)')
        BY <3>2, <1>1, <1>4, <1>7
      <4> QED
        BY <4>1, <1>2, <1>3 DEF OwnerCount, Count
    <3> QED
      BY <3>1, <3>2
  <2>3. HookInv(i)'
    BY <2>1, <1>2, <1>3 DEF HookInv
  <2> QED
    BY <2>1, <2>2, <2>3, <1>3
<1>10. LeaseInv'
  <2>1. \A d \in LinkChannels : ds'[d] = ds[d] \/ ds'[d] = 0
    BY <1>5
  <2>2. \A i \in HookIds, d \in LinkChannels : ds'[d] = i => ds[d] = i
    BY <2>1, TypeFacts
  <2>3. control.pc \in {"attach", "cas", "lease"} => control.hook \in HookIds
    BY AtHook DEF HookPcs, InstallPcs
  <2> QED
    BY <2>2, <2>3, <1>2, <1>3, TypeFacts DEF LeaseInv, Ending
<1>11. GraphInv'
  BY <1>2, <1>3, TypeFacts DEF GraphInv
<1>12. LifeInv' /\ ControlInv'
  BY <1>2, <1>3, TypeFacts DEF LifeInv, ControlInv
<1>13. LinkTypes'
  <2>1. removed' \in SUBSET HookIds
    BY <1>1, <1>4, TypeFacts
  <2> QED
    BY <2>1, <1>2, <1>3, <1>5, TypeFacts DEF LinkTypes
<1> QED
  BY <1>8, <1>9, <1>10, <1>11, <1>12, <1>13 DEF LinkInv, HeldInv, RefInv, HooksInv

\* Asterisk destroys it.
LEMMA DatastoreFreedKeeps == ASSUME LinkInv, DatastoreFreed PROVE LinkInv'
<1>0. PICK h \in removed : heap' = DatastoreDestroy(heap, h) /\ removed' = removed \ {h}
  BY DEF DatastoreFreed
<1>1. /\ UNCHANGED <<lifeVars, relink, config, candidate, rate, lease, ds, fds, chan, strays>>
      /\ control' = control /\ h \in HookIds
  BY TypeFacts DEF DatastoreFreed, cfgVars
<1>2. /\ lease' = lease /\ ds' = ds /\ fds' = fds /\ chan' = chan /\ relink' = relink
  BY <1>1
<1>3. /\ heap \in Heaps /\ heap.hook[h].refs >= 1 /\ removed' \in SUBSET HookIds
      /\ \A i \in HookIds : heap.hook[i].refs = OwnerCount(i)
  BY <1>0, <1>1, TypeFacts, OneHook
<1>5. /\ heap' \in Heaps /\ Spare(heap') = Spare(heap)
      /\ \A i \in HookIds : i # h => heap'.hook[i] = heap.hook[i]
  BY <1>0, <1>1, <1>3, DestroyEffect
<1>6. Dropped(heap.hook[h], heap'.hook[h]) /\ heap'.hook[h].refs = heap.hook[h].refs - 1
  BY <1>0, <1>1, <1>3, DestroyDrops
<1>7. ASSUME NEW i \in HookIds
      PROVE  /\ Dropped(heap.hook[i], heap'.hook[i])
             /\ heap'.hook[i].refs = OwnerCount(i)'
             /\ lease'[i].on => lease[i].on
  <2>2. OwnerCount(i)' = OwnerCount(i) - Count(i = h)
    BY <1>0, <1>1, <1>2 DEF OwnerCount, Count, Bound
  <2>3. CASE i = h
    BY <2>2, <2>3, <1>2, <1>3, <1>6 DEF Count
  <2>4. CASE i # h
    <3>1. OwnerCount(i) \in Int
      BY DEF OwnerCount, Count
    <3> QED
      BY <3>1, <2>2, <2>4, <1>2, <1>3, <1>5 DEF Count, Dropped
  <2> QED
    BY <2>3, <2>4
<1>8. DatastoreInv'
  BY <1>0, <1>1, <1>2, TypeFacts DEF DatastoreInv, Bound
<1>9. LeaseInv'
  BY <1>1, <1>2, TypeFacts DEF LeaseInv, Ending
<1> QED
  BY <1>1, <1>2, <1>3, <1>5, <1>7, <1>8, <1>9, TypeFacts, DropsKeep

\* A framehook ends.
LEMMA FramehookEndsKeeps == ASSUME LinkInv, FramehookEnds PROVE LinkInv'
<1>0. PICK h \in HookIds : lease[h].on /\ LeaseEnds(h)
  BY DEF FramehookEnds
<1>1. /\ UNCHANGED <<lifeVars, relink, config, candidate, rate, ds, removed, chan, strays>>
      /\ control' = control
  BY DEF FramehookEnds, cfgVars
<1>2. /\ ds' = ds /\ removed' = removed /\ chan' = chan /\ relink' = relink
      /\ lease' = [lease EXCEPT ![h] = NoLease] /\ fds' = LeaseFds(fds, h)
      /\ heap' = Release(heap, h)
  BY <1>0, <1>1 DEF LeaseEnds
<1>3. /\ heap \in Heaps /\ heap.hook[h].refs >= 1
      /\ \A i \in HookIds : heap.hook[i].refs = OwnerCount(i)
  BY <1>0, TypeFacts, OneHook
<1>4. NoLease \in Leases /\ ~NoLease.on /\ ~NoLease.asked
  BY DEF NoLease, Leases
<1>5. /\ lease' \in [HookIds -> Leases] /\ lease'[h] = NoLease
      /\ \A i \in HookIds : i # h => lease'[i] = lease[i]
  BY <1>2, <1>4, TypeFacts
<1>6. /\ heap' \in Heaps /\ Spare(heap') = Spare(heap)
      /\ \A i \in HookIds : i # h => heap'.hook[i] = heap.hook[i]
  BY <1>2, <1>3, ReleaseEffect
<1>7. Dropped(heap.hook[h], heap'.hook[h]) /\ heap'.hook[h].refs = heap.hook[h].refs - 1
  BY <1>2, <1>3, ReleaseDrops
<1>8. ASSUME NEW i \in HookIds
      PROVE  /\ Dropped(heap.hook[i], heap'.hook[i])
             /\ heap'.hook[i].refs = OwnerCount(i)'
             /\ lease'[i].on => lease[i].on
  <2>1. CASE i = h
    <3>1. lease[i].on /\ ~lease'[i].on
      BY <2>1, <1>0, <1>4, <1>5
    <3>2. OwnerCount(i)' = OwnerCount(i) - 1
      BY <3>1, <1>1, <1>2 DEF OwnerCount, Count, Bound
    <3> QED
      BY <3>1, <3>2, <2>1, <1>3, <1>7
  <2>2. CASE i # h
    <3>1. lease'[i] = lease[i]
      BY <2>2, <1>5
    <3>2. OwnerCount(i)' = OwnerCount(i)
      BY <3>1, <1>1, <1>2 DEF OwnerCount, Count, Bound
    <3> QED
      BY <3>1, <3>2, <2>2, <1>3, <1>6 DEF Dropped
  <2> QED
    BY <2>1, <2>2
<1>9. DatastoreInv'
  BY <1>1, <1>2, TypeFacts DEF DatastoreInv, Bound
<1>10. fds' \subseteq fds /\ \A s \in fds' : s[2] # h
  <2>1. fds' \subseteq fds
    BY <1>2 DEF LeaseFds
  <2>2. ASSUME NEW s \in fds', s[2] = h PROVE FALSE
    <3>1. s \in fds /\ s \in LinkChannels \X HookIds
      BY <2>1, TypeFacts
    <3>2. lease[h].slot /\ lease[h].chan = s[1]
      BY <3>1, <2>2, TypeFacts DEF LeaseInv
    <3>3. s = <<lease[h].chan, h>>
      BY <3>1, <3>2, <2>2
    <3> QED
      BY <3>2, <3>3, <2>2, <1>2 DEF LeaseFds
  <2> QED
    BY <2>1, <2>2
<1>11. LeaseInv'
  <2>1. LeaseInv
    BY TypeFacts
  <2>2. ASSUME NEW s \in fds'
        PROVE  lease'[s[2]].on /\ lease'[s[2]].slot /\ lease'[s[2]].chan = s[1]
    <3>1. s \in fds /\ s[2] \in HookIds /\ s[2] # h
      BY <1>10, TypeFacts
    <3> QED
      BY <3>1, <2>1, <1>5 DEF LeaseInv
  <2>3. ASSUME NEW i \in HookIds
        PROVE  LET l == lease'[i]
               IN  /\ l.asked => l.detaching
                   /\ l.on => l.chan \in LinkChannels
                   /\ l.on => \/ l.asked \/ Ending(l.chan)
                              \/ l.slot /\ ~l.detaching /\ <<l.chan, i>> \in fds'
                   /\ \A c \in LinkChannels :
                         l.on /\ ds[c] = i /\ c # l.chan => Ending(l.chan)
    <3>1. CASE i = h
      BY <3>1, <1>4, <1>5
    <3>2. CASE i # h
      <4>1. lease'[i] = lease[i]
        BY <3>2, <1>5
      <4>2. \A c : <<c, i>> \in fds => <<c, i>> \in fds'
        BY <3>2, <1>2 DEF LeaseFds
      <4> QED
        BY <4>1, <4>2, <2>1 DEF LeaseInv
    <3> QED
      BY <3>1, <3>2
  <2> QED
    BY <2>1, <2>2, <2>3, <1>1, <1>2 DEF LeaseInv, Ending
<1>12. fds' \in SUBSET (LinkChannels \X HookIds)
  BY <1>10, TypeFacts
<1> QED
  BY <1>1, <1>2, <1>5, <1>6, <1>8, <1>9, <1>11, <1>12, TypeFacts, DropsKeep

\* An idle timer's event is read.
LEMMA IdleReadKeeps == ASSUME LinkInv, IdleRead PROVE LinkInv'
<1>0. PICK h \in HookIds :
          /\ lease[h].on
          /\ lease' = [lease EXCEPT ![h] = LeaseDetach(lease[h], lease[h].chan)]
  BY DEF IdleRead
<1>1. /\ UNCHANGED <<lifeVars, relink, config, candidate, rate, ds, removed, chan, fds, strays, heap>>
      /\ control' = control
  BY DEF IdleRead, cfgVars
<1>2. /\ ds' = ds /\ removed' = removed /\ chan' = chan /\ relink' = relink /\ fds' = fds
      /\ heap' = heap
  BY <1>1
<1> DEFINE n == LeaseDetach(lease[h], lease[h].chan)
<1>3. AskedOf(lease[h], lease[h].chan, n)
  <2>1. lease[h] \in Leases
    BY TypeFacts
  <2> QED
    BY <2>1, LeaseDetachFacts
<1> HIDE DEF n
<1>4. /\ n \in Leases /\ n.on = lease[h].on /\ n.chan = lease[h].chan
      /\ n.slot = lease[h].slot /\ n.detaching /\ n.asked
  BY <1>3 DEF AskedOf
<1>5. /\ lease' \in [HookIds -> Leases] /\ lease'[h] = n
      /\ \A i \in HookIds : i # h => lease'[i] = lease[i]
  BY <1>0, <1>4, TypeFacts DEF n
<1>6. ASSUME NEW i \in HookIds
      PROVE  /\ Dropped(heap.hook[i], heap'.hook[i])
             /\ heap'.hook[i].refs = OwnerCount(i)'
             /\ lease'[i].on => lease[i].on
  <2>1. lease'[i].on = lease[i].on
    BY <1>4, <1>5
  <2>2. OwnerCount(i)' = OwnerCount(i)
    BY <2>1, <1>1, <1>2 DEF OwnerCount, Count, Bound
  <2> QED
    BY <2>1, <2>2, <1>2, OneHook DEF Dropped
<1>7. DatastoreInv'
  BY <1>1, <1>2, TypeFacts DEF DatastoreInv, Bound
<1>8. LeaseInv'
  <2>1. LeaseInv
    BY TypeFacts
  <2>2. ASSUME NEW s \in fds
        PROVE  lease'[s[2]].on /\ lease'[s[2]].slot /\ lease'[s[2]].chan = s[1]
    <3>1. s[2] \in HookIds
      BY TypeFacts
    <3> QED
      BY <3>1, <2>1, <1>4, <1>5 DEF LeaseInv
  <2>3. ASSUME NEW i \in HookIds
        PROVE  LET l == lease'[i]
               IN  /\ l.asked => l.detaching
                   /\ l.on => l.chan \in LinkChannels
                   /\ l.on => \/ l.asked \/ Ending(l.chan)
                              \/ l.slot /\ ~l.detaching /\ <<l.chan, i>> \in fds
                   /\ \A c \in LinkChannels :
                         l.on /\ ds[c] = i /\ c # l.chan => Ending(l.chan)
    <3>1. CASE i = h
      <4>1. n.chan \in LinkChannels /\ \A c \in LinkChannels : ds[c] = h /\ c # n.chan => Ending(n.chan)
        BY <2>1, <1>0, <1>4 DEF LeaseInv
      <4> QED
        BY <3>1, <4>1, <1>4, <1>5
    <3>2. CASE i # h
      BY <3>2, <2>1, <1>5 DEF LeaseInv
    <3> QED
      BY <3>1, <3>2
  <2> QED
    BY <2>1, <2>2, <2>3, <1>1, <1>2 DEF LeaseInv, Ending
<1>9. /\ heap' \in Heaps /\ Spare(heap') = Spare(heap)
  BY <1>2, TypeFacts
<1> QED
  BY <1>1, <1>2, <1>5, <1>6, <1>7, <1>8, <1>9, TypeFacts, DropsKeep

\* Destroying a graph takes it out of the count.
LEMMA DestroyedEffect ==
    ASSUME NEW hp \in Heaps, NEW g
    PROVE  /\ Destroyed(hp, g) \in Heaps /\ Destroyed(hp, g).hook = hp.hook
           /\ Spare(hp) \in Int /\ Spare(Destroyed(hp, g)) = Spare(hp) - Count(g # NoGraph)
<1>1. hp.hook \in [HookIds -> Hooks] /\ hp.graphs \in Int
  BY HeapFields
<1>2. /\ Destroyed(hp, g) \in Heaps /\ Destroyed(hp, g).hook = hp.hook
      /\ Destroyed(hp, g).graphs = hp.graphs - Count(g # NoGraph)
  BY <1>1 DEF Destroyed, Heaps, Count
<1>3. Held(Destroyed(hp, g)) = Held(hp)
  BY <1>2 DEF Held
<1>4. Spare(hp) \in Int
  BY PreparedEffect
<1>5. Held(hp) \in Int
  <2> DEFINE A == {i \in HookIds : hp.hook[i].active # NoGraph}
             S == {i \in HookIds : hp.hook[i].staged # NoGraph}
  <2>1. A \subseteq HookIds /\ S \subseteq HookIds /\ IsFiniteSet(HookIds)
    BY LinkConstants
  <2>2. Cardinality(A) \in Nat /\ Cardinality(S) \in Nat
    <3> HIDE DEF A, S
    <3> QED
      BY <2>1, FS_Subset, FS_CardinalityType
  <2> QED
    BY <2>2 DEF Held
<1>6. Count(g # NoGraph) \in Int
  BY DEF Count
<1> QED
  BY <1>1, <1>2, <1>3, <1>4, <1>5, <1>6 DEF Spare

\* The hook without its staged graph, or with it in the place of the active one.
TakenHook(k) == [[k EXCEPT !.pending = FALSE] EXCEPT !.staged = NoGraph]

AdoptedHook(k) ==
    [[TakenHook(k) EXCEPT !.active = k.staged] EXCEPT !.clock = k.stagedRate]

Settled(k, n) ==
    /\ n \in Hooks /\ n.refs = k.refs /\ n.att = k.att /\ n.profile = k.profile
    /\ (n.listed <=> k.listed) /\ ~n.pending /\ n.staged = NoGraph

\* A hook that settles drops what was staged, or runs it instead of what was
\* active.
LEMMA SettledHook ==
    ASSUME NEW k \in Hooks
    PROVE  /\ Settled(k, TakenHook(k))
           /\ TakenHook(k).active = k.active /\ TakenHook(k).clock = k.clock
           /\ Settled(k, AdoptedHook(k))
           /\ AdoptedHook(k).active = k.staged /\ AdoptedHook(k).clock = k.stagedRate
<1> DEFINE f == FALSE
           k1 == [k EXCEPT !.pending = f]
           k2 == [k1 EXCEPT !.staged = NoGraph]
           k3 == [k2 EXCEPT !.active = k.staged]
           k4 == [k3 EXCEPT !.clock = k.stagedRate]
<1>1. f \in BOOLEAN /\ ~f /\ NoGraph \in Graphs /\ k.staged \in Graphs /\ k.stagedRate \in LinkHz
  BY NoGraphTyped, HookFields
<1>2. TakenHook(k) = k2 /\ AdoptedHook(k) = k4
  BY Zenon DEF TakenHook, AdoptedHook
<1> HIDE DEF f
<1>3. /\ k1 \in Hooks /\ k1.refs = k.refs /\ k1.att = k.att /\ k1.profile = k.profile
      /\ k1.listed = k.listed /\ k1.pending = f /\ k1.active = k.active /\ k1.clock = k.clock
  BY <1>1 DEF Hooks
<1> HIDE DEF k1
<1>4. /\ k2 \in Hooks /\ k2.refs = k.refs /\ k2.att = k.att /\ k2.profile = k.profile
      /\ k2.listed = k.listed /\ k2.pending = f /\ k2.active = k.active /\ k2.clock = k.clock
      /\ k2.staged = NoGraph
  BY <1>1, <1>3 DEF Hooks
<1> HIDE DEF k2
<1>5. /\ k3 \in Hooks /\ k3.refs = k.refs /\ k3.att = k.att /\ k3.profile = k.profile
      /\ k3.listed = k.listed /\ k3.pending = f /\ k3.active = k.staged
      /\ k3.staged = NoGraph
  BY <1>1, <1>4 DEF Hooks
<1> HIDE DEF k3
<1>6. /\ k4 \in Hooks /\ k4.refs = k.refs /\ k4.att = k.att /\ k4.profile = k.profile
      /\ k4.listed = k.listed /\ k4.pending = f /\ k4.active = k.staged
      /\ k4.staged = NoGraph /\ k4.clock = k.stagedRate
  BY <1>1, <1>5 DEF Hooks
<1> HIDE DEF k4
<1>7. Settled(k, k2) /\ Settled(k, k4)
  BY <1>1, <1>4, <1>6, Zenon DEF Settled
<1> QED
  BY <1>2, <1>4, <1>6, <1>7

\* Settling a hook in place replaces the hook.
LEMMA TakenPut ==
    ASSUME NEW hp \in Heaps, NEW h \in HookIds
    PROVE  /\ Taken(hp, h) = Put(hp, h, TakenHook(hp.hook[h]))
           /\ Adopted(hp, h) = Put(hp, h, AdoptedHook(hp.hook[h]))
<1> DEFINE k == hp.hook[h]
           f == FALSE
           k1 == [k EXCEPT !.pending = f]
           k2 == TakenHook(k)
           k3 == [k2 EXCEPT !.active = k.staged]
           k4 == AdoptedHook(k)
           h1 == [hp EXCEPT !.hook[h].pending = f]
           h2 == [h1 EXCEPT !.hook[h].staged = NoGraph]
           h3 == [h2 EXCEPT !.hook[h].active = k.staged]
           h4 == [h3 EXCEPT !.hook[h].clock = k.stagedRate]
<1>1. f \in BOOLEAN /\ k \in Hooks /\ k.staged \in Graphs /\ k.stagedRate \in LinkHz
  BY HeapFields, HookFields
<1>2. Taken(hp, h) = h2
  BY Zenon DEF Taken
<1>3. Adopted(hp, h) = [h2 EXCEPT !.hook[h].active = k.staged, !.hook[h].clock = k.stagedRate]
  BY <1>2, Zenon DEF Adopted
<1>a. Adopted(hp, h) = h4
  <2> HIDE DEF h2
  <2> QED
    BY <1>3, Zenon
<1>4. k2 = [k1 EXCEPT !.staged = NoGraph] /\ k4 = [k3 EXCEPT !.clock = k.stagedRate]
  BY Zenon DEF TakenHook, AdoptedHook
<1>5. k2 \in Hooks /\ k4 \in Hooks
  BY <1>1, SettledHook, Zenon DEF Settled
<1> HIDE DEF f, k2, k4
<1>6. k1 \in Hooks /\ k3 \in Hooks
  BY <1>1, <1>5, WrittenHook
<1>7. h1 = Put(hp, h, k1)
  <2>1. \A v \in BOOLEAN : [hp EXCEPT !.hook[h].pending = v] =
                     Put(hp, h, [hp.hook[h] EXCEPT !.pending = v])
    BY PutFields
  <2> QED
    BY <2>1, <1>1, Zenon
<1> HIDE DEF h1, k1
<1>8. h1 \in Heaps /\ h1.hook[h] = k1
  BY <1>6, <1>7, PutFacts
<1>9. h2 = Put(h1, h, k2)
  BY <1>4, <1>8, PutFields
<1> HIDE DEF h2
<1>10. h2 = Put(hp, h, k2) /\ h2 \in Heaps /\ h2.hook[h] = k2
  <2>1. h2 = Put(hp, h, k2)
    BY <1>5, <1>6, <1>7, <1>9, PutTwice
  <2> QED
    BY <2>1, <1>5, PutFacts
<1>11. h3 = Put(h2, h, k3)
  BY <1>10, PutFields
<1> HIDE DEF h3, k3
<1>12. h3 = Put(hp, h, k3) /\ h3 \in Heaps /\ h3.hook[h] = k3
  <2>1. h3 = Put(hp, h, k3)
    BY <1>5, <1>6, <1>10, <1>11, PutTwice
  <2> QED
    BY <2>1, <1>6, PutFacts
<1>13. h4 = Put(h3, h, k4)
  BY <1>4, <1>12, PutFields
<1> HIDE DEF h4
<1>14. h4 = Put(hp, h, k4)
  BY <1>5, <1>6, <1>12, <1>13, PutTwice
<1> QED
  BY <1>2, <1>a, <1>10, <1>14 DEF k2, k4

\* What LinkReload::finish_inner makes of a hook before it gives it back.
LEMMA FinishedHook ==
    ASSUME NEW hp \in Heaps, NEW h \in HookIds, NEW adopts \in BOOLEAN,
           NEW hq, hq = IF adopts THEN Destroyed(Adopted(hp, h), hp.hook[h].active)
                        ELSE Destroyed(Taken(hp, h), hp.hook[h].staged)
    PROVE  /\ hq \in Heaps /\ Spare(hq) = Spare(hp) /\ Settled(hp.hook[h], hq.hook[h])
           /\ \A i \in HookIds : i # h => hq.hook[i] = hp.hook[i]
           /\ adopts => /\ hq.hook[h].active = hp.hook[h].staged
                        /\ hq.hook[h].clock = hp.hook[h].stagedRate
           /\ ~adopts => /\ hq.hook[h].active = hp.hook[h].active
                         /\ hq.hook[h].clock = hp.hook[h].clock
<1> DEFINE k == hp.hook[h]
<1>1. k \in Hooks
  BY HeapFields
<1>2. /\ Settled(k, TakenHook(k))
      /\ TakenHook(k).active = k.active /\ TakenHook(k).clock = k.clock
      /\ Settled(k, AdoptedHook(k))
      /\ AdoptedHook(k).active = k.staged /\ AdoptedHook(k).clock = k.stagedRate
  BY <1>1, SettledHook
<1>3. /\ TakenHook(k) \in Hooks /\ TakenHook(k).staged = NoGraph
      /\ AdoptedHook(k) \in Hooks /\ AdoptedHook(k).staged = NoGraph
  BY <1>2 DEF Settled
<1>4. CASE adopts
  <2> DEFINE p == Put(hp, h, AdoptedHook(k))
  <2>1. hq = Destroyed(p, k.active)
    BY <1>4, TakenPut
  <2>2. /\ p \in Heaps /\ p.hook[h] = AdoptedHook(k)
        /\ \A i \in HookIds : i # h => p.hook[i] = hp.hook[i]
        /\ Spare(hp) \in Int /\ Spare(p) = Spare(hp) + Weight(k) - Weight(AdoptedHook(k))
    BY <1>3, PutFacts
  <2> HIDE DEF p
  <2>3. /\ hq \in Heaps /\ hq.hook = p.hook /\ Spare(hq) = Spare(p) - Count(k.active # NoGraph)
    BY <2>1, <2>2, DestroyedEffect
  <2>4. Weight(k) - Weight(AdoptedHook(k)) = Count(k.active # NoGraph)
        /\ Weight(k) \in Int /\ Weight(AdoptedHook(k)) \in Int /\ Count(k.active # NoGraph) \in Int
    BY <1>2, <1>3 DEF Weight, Count
  <2>5. Spare(hq) = Spare(hp)
    BY <2>2, <2>3, <2>4
  <2> QED
    BY <1>2, <1>4, <2>2, <2>3, <2>5
<1>5. CASE ~adopts
  <2> DEFINE p == Put(hp, h, TakenHook(k))
  <2>1. hq = Destroyed(p, k.staged)
    BY <1>5, TakenPut
  <2>2. /\ p \in Heaps /\ p.hook[h] = TakenHook(k)
        /\ \A i \in HookIds : i # h => p.hook[i] = hp.hook[i]
        /\ Spare(hp) \in Int /\ Spare(p) = Spare(hp) + Weight(k) - Weight(TakenHook(k))
    BY <1>3, PutFacts
  <2> HIDE DEF p
  <2>3. /\ hq \in Heaps /\ hq.hook = p.hook /\ Spare(hq) = Spare(p) - Count(k.staged # NoGraph)
    BY <2>1, <2>2, DestroyedEffect
  <2>4. Weight(k) - Weight(TakenHook(k)) = Count(k.staged # NoGraph)
        /\ Weight(k) \in Int /\ Weight(TakenHook(k)) \in Int /\ Count(k.staged # NoGraph) \in Int
    BY <1>2, <1>3 DEF Weight, Count
  <2>5. Spare(hq) = Spare(hp)
    BY <2>2, <2>3, <2>4
  <2> QED
    BY <1>2, <1>5, <2>2, <2>3, <2>5
<1> QED
  BY <1>4, <1>5

\* A reload settles a hook, the new way or the old.
LEMMA FinishHookKeeps == ASSUME LinkInv, FinishHook PROVE LinkInv'
<1>0. PICK h \in relink.hooks, adopts \in BOOLEAN :
         /\ adopts <=> relink.commit /\ heap.hook[h].att = "attached"
         /\ heap' = Release(
               IF adopts THEN Destroyed(Adopted(heap, h), heap.hook[h].active)
               ELSE Destroyed(Taken(heap, h), heap.hook[h].staged), h)
         /\ relink' = [relink EXCEPT !.hooks = @ \ {h}]
  <2>1. PICK h \in relink.hooks :
          LET k == heap.hook[h]
              adopts == relink.commit /\ k.att = "attached"
          IN  /\ heap' = Release(
                    IF adopts THEN Destroyed(Adopted(heap, h), k.active)
                    ELSE Destroyed(Taken(heap, h), k.staged), h)
              /\ relink' = [relink EXCEPT !.hooks = @ \ {h}]
    BY DEF FinishHook
  <2>2. (relink.commit /\ heap.hook[h].att = "attached") \in BOOLEAN
    OBVIOUS
  <2> QED
    BY <2>1, <2>2, Zenon
<1>1. /\ UNCHANGED <<lifeVars, astVars, config, candidate, rate, strays>> /\ control' = control
      /\ control.by = "reload" /\ control.pc = "finish"
  BY DEF FinishHook, cfgVars
<1>2. /\ h \in HookIds /\ relink \in Relinks /\ heap \in Heaps /\ Empty
      /\ relink.pc = "staging"
  BY <1>1, EmptyAt, TypeFacts DEF Relinks, LifeInv
<1> DEFINE k == heap.hook[h]
           hq == IF adopts THEN Destroyed(Adopted(heap, h), k.active)
                 ELSE Destroyed(Taken(heap, h), k.staged)
           m == hq.hook[h]
<1>3. /\ hq \in Heaps /\ Spare(hq) = Spare(heap) /\ Settled(k, m)
      /\ \A i \in HookIds : i # h => hq.hook[i] = heap.hook[i]
  <2> DEFINE q == hq
  <2>1. q = IF adopts THEN Destroyed(Adopted(heap, h), k.active)
                 ELSE Destroyed(Taken(heap, h), k.staged)
    OBVIOUS
  <2> HIDE DEF q
  <2>2. /\ q \in Heaps /\ Spare(q) = Spare(heap) /\ Settled(k, q.hook[h])
        /\ \A i \in HookIds : i # h => q.hook[i] = heap.hook[i]
    BY <2>1, <1>2, FinishedHook
  <2> QED
    BY <2>2 DEF q
<1>4. heap' = Release(hq, h)
  BY <1>0
<1> HIDE DEF hq
<1>5. HookInv(h) /\ k.refs = OwnerCount(h) /\ k.refs >= 1 /\ k.refs \in Int /\ h # 0
      /\ control.hook = 0
  BY <1>0, <1>2, OneHook, TypeFacts, HookFields DEF Empty
<1>6. /\ m.refs = k.refs /\ m.att = k.att /\ m.profile = k.profile
      /\ (m.listed <=> k.listed) /\ ~m.pending /\ m.staged = NoGraph
  BY <1>3 DEF Settled
<1>7. /\ heap' \in Heaps /\ Spare(heap') = Spare(heap)
      /\ \A i \in HookIds : i # h => heap'.hook[i] = heap.hook[i]
  BY <1>2, <1>3, <1>4, ReleaseEffect
<1>8. Dropped(m, heap'.hook[h]) /\ heap'.hook[h].refs = m.refs - 1
  BY <1>2, <1>3, <1>4, <1>5, <1>6, ReleaseDrops
<1>9. relink' \in Relinks /\ relink'.pc = relink.pc /\ relink'.hooks = relink.hooks \ {h}
  BY <1>0, <1>2 DEF Relinks
<1>10. /\ life' = life /\ driver' = driver /\ running' = running /\ stop' = stop
       /\ scan' = scan /\ lease' = lease /\ ds' = ds /\ removed' = removed /\ fds' = fds
       /\ chan' = chan
  BY <1>1 DEF lifeVars, astVars
<1>11. LifeInv'
  BY <1>1, <1>2, <1>9, <1>10, TypeFacts DEF LifeInv
<1>12. LinkTypes'
  BY <1>1, <1>7, <1>9, <1>10, TypeFacts DEF LinkTypes, Relinks
<1>13. DatastoreInv' /\ LeaseInv' /\ ControlInv'
  BY <1>1, <1>10, TypeFacts DEF DatastoreInv, Bound, LeaseInv, Ending, ControlInv
<1>14. ASSUME NEW i \in HookIds
       PROVE  HookInv(i)' /\ heap'.hook[i].refs = OwnerCount(i)'
  <2>1. CASE i # h
    <3>1. (Bound(i)' <=> Bound(i)) /\ control'.hook = 0
      BY <1>1, <1>5, <1>10 DEF Bound
    <3> QED
      BY <2>1, <3>1, <1>2, <1>5, <1>7, <1>9, <1>10, OtherHook
  <2>2. CASE i = h
    <3> DEFINE n == heap'.hook[h]
    <3>1. i \in relink.hooks /\ i \notin relink'.hooks /\ control'.hook # i
      BY <2>2, <1>0, <1>1, <1>2, <1>5, <1>9
    <3>2. OwnerCount(i)' = OwnerCount(i) - 1
      BY <3>1, <1>1, <1>10 DEF OwnerCount, Count, Bound
    <3>3. n.refs = 0 =>
             n.att = "freed" /\ n.active = NoGraph /\ n.staged = NoGraph /\ ~n.pending
      BY <1>5, <1>6, <1>8 DEF Dropped
    <3>4. n.refs # 0 => n.att \in {k.att, "detached"} /\ n.profile = k.profile
                        /\ n.staged = NoGraph
      BY <1>5, <1>6, <1>8 DEF Dropped
    <3>5. n.listed => k.listed /\ (n.att = "attached" \/ k.att # "attached")
      BY <1>6, <1>8 DEF Dropped
    <3>6. k.listed => k.att = "attached"
      BY <1>5 DEF HookInv
    <3>7. (k.refs = 0 <=> k.att \in {"unused", "freed"}) /\ (k.refs # 0 => k.profile \in Profiles)
      BY <1>5 DEF HookInv
    <3> HIDE DEF n
    <3>8. (n.refs = 0 <=> n.att \in {"unused", "freed"})
          /\ (n.refs # 0 => n.profile \in Profiles) /\ n.staged = NoGraph
          /\ (n.listed => n.att = "attached")
          /\ (n.refs = 0 => n.active = NoGraph)
      BY <3>3, <3>4, <3>5, <3>6, <3>7, <1>5
    <3>9. HookInv(h)'
      BY <3>1, <3>8, <2>2 DEF HookInv, n
    <3> QED
      BY <2>2, <3>2, <3>9, <1>5, <1>6, <1>8
  <2> QED
    BY <2>1, <2>2
<1>15. GraphInv'
  BY <1>1, <1>7, TypeFacts DEF GraphInv
<1> QED
  BY <1>11, <1>12, <1>13, <1>14, <1>15 DEF LinkInv, HeldInv, RefInv, HooksInv

MovedOf(l, to, n) ==
    /\ n \in Leases /\ (n.on <=> l.on) /\ n.chan = to /\ (n.slot <=> l.slot)
    /\ (n.detaching <=> l.detaching) /\ (n.asked <=> l.detaching)

\* What a masquerade does to a lease that moves with its framehook.
LEMMA MovedFacts ==
    ASSUME NEW l \in Leases, NEW to \in LinkChannels
    PROVE  MovedOf(l, to, Moved(l, to))
BY DEF Moved, MovedOf, Leases

ReceivedOf(l, ok, n) ==
    /\ n \in Leases /\ (n.on <=> l.on) /\ n.chan = l.chan
    /\ (l.detaching => (n.slot <=> l.slot)) /\ (~l.detaching => (n.slot <=> ok))
    /\ (n.detaching <=> l.detaching \/ ~ok) /\ (n.asked <=> l.detaching \/ ~ok)

ReceivedAs(l, s, b, d, n) ==
    /\ n \in Leases /\ n.on = l.on /\ n.chan = l.chan
    /\ n.slot = s /\ n.asked = b /\ n.detaching = d

\* Receiving a channel writes three fields of a lease.
LEMMA ReceivedFields ==
    \A l \in Leases, s \in BOOLEAN, b \in BOOLEAN, d \in BOOLEAN :
       ReceivedAs(l, s, b, d, [l EXCEPT !.slot = s, !.asked = b, !.detaching = d])
<1> TAKE l \in Leases, s \in BOOLEAN, b \in BOOLEAN, d \in BOOLEAN
<1> DEFINE n == [l EXCEPT !.slot = s]
           m == [n EXCEPT !.asked = b]
           o == [m EXCEPT !.detaching = d]
<1>1. n \in Leases /\ n.on = l.on /\ n.chan = l.chan /\ n.slot = s
  BY DEF Leases
<1>2. [l EXCEPT !.slot = s, !.asked = b, !.detaching = d] = o
  BY Zenon
<1> HIDE DEF n
<1>3. m \in Leases /\ m.on = l.on /\ m.chan = l.chan /\ m.slot = s /\ m.asked = b
  BY <1>1 DEF Leases
<1> HIDE DEF m
<1>4. o \in Leases /\ o.on = l.on /\ o.chan = l.chan /\ o.slot = s /\ o.asked = b
      /\ o.detaching = d
  BY <1>3 DEF Leases
<1> HIDE DEF o
<1> QED
  BY <1>2, <1>4, Zenon DEF ReceivedAs

\* What a masquerade does to a lease on the channel that is taken over.
LEMMA ReceivedFacts ==
    ASSUME NEW l \in Leases, NEW ok \in BOOLEAN
    PROVE  ReceivedOf(l, ok, Received(l, ok))
<1> DEFINE s == IF l.detaching THEN l.slot ELSE ok
           d == l.detaching \/ ~ok
           n == Received(l, ok)
<1>1. l.detaching \in BOOLEAN /\ l.slot \in BOOLEAN
  BY DEF Leases
<1>2. s \in BOOLEAN /\ d \in BOOLEAN
  BY <1>1
<1>3. n = [l EXCEPT !.slot = s, !.asked = d, !.detaching = d]
  BY Zenon DEF Received
<1>4. (l.detaching => (s <=> l.slot)) /\ (~l.detaching => (s <=> ok))
  OBVIOUS
<1>5. d <=> l.detaching \/ ~ok
  OBVIOUS
<1> HIDE DEF s, d, n
<1>6. ReceivedAs(l, s, d, d, n)
  BY <1>2, <1>3, ReceivedFields, Zenon
<1>7. ReceivedOf(l, ok, n)
  BY <1>4, <1>5, <1>6, Zenon DEF ReceivedOf, ReceivedAs
<1> QED
  BY <1>7 DEF n

\* What a masquerade leaves of the lease of a third channel.
Elsewhere(l, n) ==
    /\ n \in Leases /\ (n.on <=> l.on) /\ n.chan = l.chan /\ (n.slot <=> l.slot)
    /\ (n.detaching <=> l.detaching) /\ (n.asked <=> l.asked)

\* What it does to the other leases.
LEMMA ElsewhereFacts ==
    ASSUME NEW l \in Leases, NEW to \in LinkChannels
    PROVE  Elsewhere(l, l) /\ Elsewhere(l, [l EXCEPT !.moving = to])
BY DEF Elsewhere, Leases

\* The one lease that a masquerade moves.
LEMMA OneMover ==
    ASSUME NEW M \in SUBSET HookIds, Cardinality(M) <= 1, NEW a \in M
    PROVE  M = {a} /\ (CHOOSE x \in M : TRUE) = a
<1>1. IsFiniteSet(M) /\ IsFiniteSet(M \ {a})
  BY LinkConstants, FS_Subset
<1>2. Cardinality(M) \in Nat /\ Cardinality(M \ {a}) = Cardinality(M) - 1
      /\ Cardinality(M \ {a}) \in Nat
  BY <1>1, FS_CardinalityType, FS_RemoveElement
<1>3. Cardinality(M \ {a}) = 0
  BY <1>2
<1>4. M \ {a} = {}
  BY <1>1, <1>3, FS_EmptySet
<1>5. M = {a}
  BY <1>4
<1> QED
  BY <1>5

\* A channel takes over another.
LEMMA MasqueradeKeeps == ASSUME LinkInv, Masquerade PROVE LinkInv'
<1>1. /\ UNCHANGED <<lifeVars, config, candidate, rate, strays, removed>> /\ control' = control
      /\ removed' = removed
  BY DEF Masquerade, cfgVars
<1>2. PICK from \in Up, to \in Up, copied \in BOOLEAN, added \in BOOLEAN :
          LET movers == {h \in HookIds : lease[h].on /\ lease[h].chan = from}
              hosts == {h \in HookIds : lease[h].on /\ lease[h].chan = to}
              copies == {<<to, h>> : h \in {i \in HookIds : <<from, i>> \in fds}}
              slots == {p \in fds : p[1] # to} \cup copies
              kept == {<<to, h>> : h \in {i \in hosts : ~lease[i].detaching /\ added}}
          IN  /\ from # to /\ (ds[from] = 0 \/ ds[to] = 0)
              /\ movers # {} \/ copied
              /\ hosts # {} \/ added
              /\ Cardinality(movers) <= 1
              /\ ds' = [ds EXCEPT ![from] = 0,
                                  ![to] = IF ds[from] # 0 THEN ds[from] ELSE @]
              /\ lease' = [h \in HookIds |->
                    CASE h \in movers -> IF copied THEN Moved(lease[h], to)
                                         ELSE NoLease
                      [] h \in hosts -> Received(lease[h], added)
                      [] h = ds[from] /\ lease[h].on /\ h \notin movers ->
                            [lease[h] EXCEPT !.moving = to]
                      [] OTHER -> lease[h]]
              /\ fds' = MovedFds(slots \cup kept, movers, copied, from)
              /\ heap' = IF copied THEN heap
                         ELSE Release(heap, CHOOSE h \in movers : TRUE)
              /\ chan' = [chan EXCEPT ![from] = "ending"]
              /\ relink' = IF relink.pc = "staging" /\ ~relink.commit
                           THEN [relink EXCEPT !.moved = @ \cup ({ds[from]} \ {0})]
                           ELSE relink
  BY DEF Masquerade
<1> DEFINE movers == {h \in HookIds : lease[h].on /\ lease[h].chan = from}
           hosts == {h \in HookIds : lease[h].on /\ lease[h].chan = to}
           copies == {<<to, h>> : h \in {i \in HookIds : <<from, i>> \in fds}}
           slots == {p \in fds : p[1] # to} \cup copies
           kept == {<<to, h>> : h \in {i \in hosts : ~lease[i].detaching /\ added}}
<1>3. /\ from # to /\ from \in LinkChannels /\ to \in LinkChannels
      /\ ~Ending(from) /\ ~Ending(to)
      /\ ds[from] = 0 \/ ds[to] = 0
      /\ movers # {} \/ copied
      /\ Cardinality(movers) <= 1
  BY <1>2, TypeFacts DEF Up, Ending
<1>4. /\ ds' \in [LinkChannels -> HookIds \cup {0}] /\ ds'[from] = 0
      /\ ds'[to] = (IF ds[from] # 0 THEN ds[from] ELSE ds[to])
      /\ \A c \in LinkChannels : c # from /\ c # to => ds'[c] = ds[c]
  <2>1. ds' = [ds EXCEPT ![from] = 0, ![to] = IF ds[from] # 0 THEN ds[from] ELSE @]
    BY <1>2
  <2> QED
    BY <2>1, <1>3, TypeFacts
<1>5. /\ chan' \in [LinkChannels -> {"up", "ending"}] /\ chan'[from] = "ending"
      /\ \A c \in LinkChannels : Ending(c) => Ending(c)'
  <2>1. chan' = [chan EXCEPT ![from] = "ending"]
    BY <1>2
  <2> QED
    BY <2>1, <1>3, TypeFacts DEF Ending
<1>6. relink' \in Relinks /\ relink'.pc = relink.pc /\ relink'.hooks = relink.hooks
  <2>1. relink' = relink \/ relink' = [relink EXCEPT !.moved = @ \cup ({ds[from]} \ {0})]
    BY <1>2
  <2>2. {ds[from]} \ {0} \subseteq HookIds
    BY <1>3, TypeFacts
  <2> QED
    BY <2>1, <2>2, TypeFacts DEF Relinks
<1>7. /\ fds' = MovedFds(slots \cup kept, movers, copied, from)
      /\ heap' = IF copied THEN heap ELSE Release(heap, CHOOSE h \in movers : TRUE)
  BY <1>2
<1>8. ASSUME NEW i \in HookIds
      PROVE  /\ i \in movers => lease'[i] = (IF copied THEN Moved(lease[i], to) ELSE NoLease)
             /\ i \in hosts => lease'[i] = Received(lease[i], added)
             /\ i \notin movers /\ i \notin hosts =>
                   lease'[i] \in {lease[i], [lease[i] EXCEPT !.moving = to]}
  <2>1. lease'[i] =
           CASE i \in movers -> IF copied THEN Moved(lease[i], to) ELSE NoLease
             [] i \in hosts -> Received(lease[i], added)
             [] i = ds[from] /\ lease[i].on /\ i \notin movers -> [lease[i] EXCEPT !.moving = to]
             [] OTHER -> lease[i]
    BY <1>2
  <2>2. ~(i \in movers /\ i \in hosts)
    BY <1>3
  <2>3. i \in hosts => ~(i = ds[from] /\ lease[i].on /\ i \notin movers)
    BY <1>3, TypeFacts DEF LeaseInv
  <2> HIDE DEF movers, hosts
  <2> QED
    BY <2>1, <2>2, <2>3
<1>9. ASSUME NEW i \in HookIds
      PROVE  /\ i \in movers /\ copied => MovedOf(lease[i], to, lease'[i])
             /\ i \in movers /\ ~copied => lease'[i] = NoLease
             /\ i \in hosts => ReceivedOf(lease[i], added, lease'[i])
             /\ i \notin movers /\ i \notin hosts => Elsewhere(lease[i], lease'[i])
  <2>1. lease[i] \in Leases /\ to \in LinkChannels /\ added \in BOOLEAN
    BY <1>3, TypeFacts
  <2>2. MovedOf(lease[i], to, Moved(lease[i], to))
    BY <2>1, MovedFacts
  <2>3. ReceivedOf(lease[i], added, Received(lease[i], added))
    BY <2>1, ReceivedFacts, Zenon
  <2>4. Elsewhere(lease[i], lease[i]) /\ Elsewhere(lease[i], [lease[i] EXCEPT !.moving = to])
    BY <2>1, ElsewhereFacts
  <2> HIDE DEF movers, hosts
  <2> QED
    BY <1>8, <2>2, <2>3, <2>4
<1>10. NoLease \in Leases /\ ~NoLease.on /\ ~NoLease.asked
  BY DEF NoLease, Leases
<1>11. ASSUME NEW i \in HookIds PROVE i \in movers <=> lease[i].on /\ lease[i].chan = from
  OBVIOUS
<1>12. ASSUME NEW i \in HookIds PROVE i \in hosts <=> lease[i].on /\ lease[i].chan = to
  OBVIOUS
<1>13. ASSUME NEW i, NEW c PROVE <<c, i>> \in copies <=> c = to /\ i \in HookIds /\ <<from, i>> \in fds
  OBVIOUS
<1>14. ASSUME NEW i, NEW c
       PROVE  <<c, i>> \in kept <=> c = to /\ i \in hosts /\ ~lease[i].detaching /\ added
  OBVIOUS
<1>15. ASSUME NEW s \in fds'
       PROVE  /\ (s \in fds /\ s[1] # to) \/ s \in copies \/ s \in kept
              /\ s[2] \in movers => copied /\ s[1] # from
  BY <1>7 DEF MovedFds
<1>16. ASSUME NEW s, (s \in fds /\ s[1] # to) \/ s \in copies \/ s \in kept,
              s[2] \in movers => copied /\ s[1] # from
       PROVE  s \in fds'
  BY <1>7, <1>16 DEF MovedFds
<1>17. copies \subseteq LinkChannels \X HookIds /\ kept \subseteq LinkChannels \X HookIds
  <2>1. ASSUME NEW s \in copies PROVE s \in LinkChannels \X HookIds
    <3>1. PICK i \in HookIds : s = <<to, i>>
      OBVIOUS
    <3> HIDE DEF copies
    <3> QED
      BY <3>1, <1>3
  <2>2. ASSUME NEW s \in kept PROVE s \in LinkChannels \X HookIds
    <3>1. PICK i \in HookIds : s = <<to, i>>
      OBVIOUS
    <3> HIDE DEF kept
    <3> QED
      BY <3>1, <1>3
  <2> HIDE DEF copies, kept
  <2> QED
    BY <2>1, <2>2
<1>18. movers \in SUBSET HookIds
  OBVIOUS
<1> HIDE DEF movers, hosts, copies, slots, kept
<1>19. lease' \in [HookIds -> Leases]
  <2>1. \A i \in HookIds : lease'[i] \in Leases
    BY <1>9, <1>10, <1>11, <1>12, Zenon DEF MovedOf, ReceivedOf, Elsewhere
  <2>2. lease' = [i \in HookIds |-> lease'[i]]
    BY <1>2
  <2> QED
    BY <2>1, <2>2
<1>20. fds' \in SUBSET (LinkChannels \X HookIds)
  BY <1>15, <1>17, TypeFacts
<1>21. ASSUME NEW i \in HookIds PROVE Bound(i)' <=> Bound(i)
  <2>1. i # 0 /\ DatastoreInv
    BY TypeFacts
  <2>2. ASSUME NEW c \in LinkChannels, ds[c] = i PROVE \E d \in LinkChannels : ds'[d] = i
    BY <2>1, <2>2, <1>3, <1>4
  <2>3. ASSUME NEW c \in LinkChannels, ds'[c] = i PROVE \E d \in LinkChannels : ds[d] = i
    BY <2>1, <2>3, <1>3, <1>4
  <2> QED
    BY <2>2, <2>3 DEF Bound
<1>22. DatastoreInv'
  <2>1. \A c, d \in LinkChannels : ds'[c] = ds'[d] /\ ds'[c] # 0 => c = d
    BY <1>3, <1>4, TypeFacts DEF DatastoreInv
  <2>2. \A h \in removed' : ~Bound(h)'
    BY <1>1, <1>21, TypeFacts DEF DatastoreInv
  <2>3. ASSUME control'.pc = "add" PROVE ~Bound(control.hook)' /\ control'.hook \notin removed'
    <3>1. ~Bound(control.hook) /\ control.hook \notin removed /\ control.hook \in HookIds
      BY <2>3, <1>1, TypeFacts, AtHook DEF DatastoreInv, HookPcs, InstallPcs
    <3>2. PICK i \in HookIds : i = control.hook
      BY <3>1
    <3>3. ~Bound(i)' /\ i \notin removed'
      BY <3>1, <3>2, <1>1, <1>21
    <3> QED
      BY <3>2, <3>3, <1>1
  <2> QED
    BY <2>1, <2>2, <2>3 DEF DatastoreInv
<1>23. /\ heap' \in Heaps /\ Spare(heap') = Spare(heap)
       /\ \A i \in HookIds : /\ Dropped(heap.hook[i], heap'.hook[i])
                             /\ heap'.hook[i].refs = OwnerCount(i)'
                             /\ lease'[i].on => lease[i].on
  <2>1. heap \in Heaps /\ \A i \in HookIds : heap.hook[i].refs = OwnerCount(i)
    BY TypeFacts, OneHook
  <2>2. ASSUME NEW i \in HookIds, i \notin movers \/ copied
        PROVE  (lease'[i].on <=> lease[i].on) /\ OwnerCount(i)' = OwnerCount(i)
    <3>1. lease'[i].on <=> lease[i].on
      BY <2>2, <1>9, Zenon DEF MovedOf, ReceivedOf, Elsewhere
    <3> QED
      BY <3>1, <1>1, <1>6, <1>21 DEF OwnerCount, Count
  <2>3. CASE copied
    <3>1. heap' = heap
      BY <2>3, <1>7
    <3> QED
      BY <3>1, <2>1, <2>2, <2>3 DEF Dropped
  <2>4. CASE ~copied
    <3>1. PICK h \in movers : TRUE
      BY <2>4, <1>3
    <3>2. movers = {h} /\ heap' = Release(heap, h) /\ h \in HookIds
      BY <2>4, <3>1, <1>3, <1>7, <1>18, OneMover
    <3>3. lease[h].on /\ lease'[h] = NoLease
      BY <2>4, <3>1, <3>2, <1>9, <1>11
    <3>4. heap.hook[h].refs >= 1
      BY <3>2, <3>3, OneHook
    <3>5. /\ heap' \in Heaps /\ Spare(heap') = Spare(heap)
          /\ \A i \in HookIds : i # h => heap'.hook[i] = heap.hook[i]
      BY <2>1, <3>2, ReleaseEffect
    <3>6. Dropped(heap.hook[h], heap'.hook[h]) /\ heap'.hook[h].refs = heap.hook[h].refs - 1
      BY <2>1, <3>2, <3>4, ReleaseDrops
    <3>7. OwnerCount(h)' = OwnerCount(h) - 1
      BY <3>2, <3>3, <1>1, <1>6, <1>10, <1>21 DEF OwnerCount, Count
    <3>8. ASSUME NEW i \in HookIds
          PROVE  /\ Dropped(heap.hook[i], heap'.hook[i])
                 /\ heap'.hook[i].refs = OwnerCount(i)'
                 /\ lease'[i].on => lease[i].on
      <4>1. CASE i = h
        BY <4>1, <2>1, <3>2, <3>3, <3>6, <3>7
      <4>2. CASE i # h
        BY <4>2, <2>1, <2>2, <3>2, <3>5 DEF Dropped
      <4> QED
        BY <4>1, <4>2
    <3> QED
      BY <3>5, <3>8
  <2> QED
    BY <2>3, <2>4
<1>24. LeaseInv'
  <2>1. LeaseInv
    BY TypeFacts
  <2>2. ASSUME NEW c, NEW i, <<c, i>> \in fds'
        PROVE  lease'[i].on /\ lease'[i].slot /\ lease'[i].chan = c
    <3>1. i \in HookIds
      BY <2>2, <1>20
    <3>2. /\ (<<c, i>> \in fds /\ c # to) \/ <<c, i>> \in copies \/ <<c, i>> \in kept
          /\ i \in movers => copied /\ c # from
      BY <2>2, <1>15
    <3>3. \A d : <<d, i>> \in fds => lease[i].on /\ lease[i].slot /\ lease[i].chan = d
      BY <2>1 DEF LeaseInv
    <3>4. CASE <<c, i>> \in fds /\ c # to
      <4>1. lease[i].on /\ lease[i].slot /\ lease[i].chan = c
        BY <3>3, <3>4
      <4>2. i \notin hosts /\ i \notin movers
        BY <3>1, <3>2, <3>4, <4>1, <1>11, <1>12
      <4>3. Elsewhere(lease[i], lease'[i])
        BY <3>1, <4>2, <1>9
      <4> QED
        BY <4>1, <4>3 DEF Elsewhere
    <3>5. CASE <<c, i>> \in copies
      <4>1. c = to /\ <<from, i>> \in fds
        BY <3>5, <1>13
      <4>2. lease[i].on /\ lease[i].slot /\ lease[i].chan = from
        BY <3>3, <4>1
      <4>3. i \in movers
        BY <3>1, <4>2, <1>11
      <4>4. MovedOf(lease[i], to, lease'[i])
        BY <3>1, <3>2, <4>3, <1>9
      <4> QED
        BY <4>1, <4>2, <4>4 DEF MovedOf
    <3>6. CASE <<c, i>> \in kept
      <4>1. c = to /\ i \in hosts /\ ~lease[i].detaching /\ added
        BY <3>6, <1>14
      <4>2. lease[i].on /\ lease[i].chan = to
        BY <3>1, <4>1, <1>12
      <4>3. ReceivedOf(lease[i], added, lease'[i])
        BY <3>1, <4>1, <1>9
      <4> QED
        BY <4>1, <4>2, <4>3 DEF ReceivedOf
    <3> QED
      BY <3>2, <3>4, <3>5, <3>6
  <2>3. ASSUME NEW i \in HookIds
        PROVE  LET l == lease'[i]
               IN  /\ l.asked => l.detaching
                   /\ l.on => l.chan \in LinkChannels
                   /\ l.on => \/ l.asked \/ chan'[l.chan] = "ending"
                              \/ l.slot /\ ~l.detaching /\ <<l.chan, i>> \in fds'
                   /\ \A c \in LinkChannels :
                         l.on /\ ds'[c] = i /\ c # l.chan => chan'[l.chan] = "ending"
    <3> DEFINE l == lease[i]
               n == lease'[i]
    <3>1. /\ l.asked => l.detaching
          /\ l.on => l.chan \in LinkChannels
          /\ l.on => \/ l.asked \/ Ending(l.chan)
                     \/ l.slot /\ ~l.detaching /\ <<l.chan, i>> \in fds
          /\ \A c \in LinkChannels : l.on /\ ds[c] = i /\ c # l.chan => Ending(l.chan)
          /\ i # 0
      BY <2>1, TypeFacts DEF LeaseInv
    <3>2. \A c \in LinkChannels : ds'[c] = i => (c = to /\ ds[from] = i) \/ (c # from /\ ds[c] = i)
      BY <1>3, <1>4, <3>1
    <3>3. CASE i \in movers /\ copied
      <4>1. MovedOf(l, to, n) /\ l.on /\ l.chan = from
        BY <3>3, <1>9, <1>11
      <4>2. n.on /\ n.chan = to /\ (n.slot <=> l.slot) /\ (n.detaching <=> l.detaching)
            /\ (n.asked <=> l.detaching)
        BY <4>1 DEF MovedOf
      <4>3. n.asked \/ (n.slot /\ ~n.detaching /\ <<to, i>> \in fds')
        <5>1. CASE l.detaching
          BY <5>1, <4>2
        <5>2. CASE ~l.detaching
          <6>1. l.slot /\ <<from, i>> \in fds
            BY <5>2, <3>1, <4>1, <1>3
          <6>2. <<to, i>> \in copies
            BY <6>1, <1>13
          <6>3. <<to, i>> \in fds'
            BY <6>2, <3>3, <1>3, <1>16
          <6> QED
            BY <5>2, <6>1, <6>3, <4>2
        <5> QED
          BY <5>1, <5>2
      <4>4. ASSUME NEW c \in LinkChannels, ds'[c] = i, c # to PROVE FALSE
        BY <4>4, <3>1, <3>2, <4>1, <1>3
      <4> QED
        BY <4>2, <4>3, <4>4, <1>3
    <3>4. CASE i \in movers /\ ~copied
      BY <3>4, <1>9, <1>10
    <3>5. CASE i \in hosts
      <4>1. ReceivedOf(l, added, n) /\ l.on /\ l.chan = to
        BY <3>5, <1>9, <1>12
      <4>2. n.on /\ n.chan = to /\ (~l.detaching => (n.slot <=> added))
            /\ (n.detaching <=> l.detaching \/ ~added) /\ (n.asked <=> l.detaching \/ ~added)
        BY <4>1 DEF ReceivedOf
      <4>3. n.asked \/ (n.slot /\ ~n.detaching /\ <<to, i>> \in fds')
        <5>1. CASE l.detaching \/ ~added
          BY <5>1, <4>2
        <5>2. CASE ~l.detaching /\ added
          <6>1. <<to, i>> \in kept
            BY <5>2, <3>5, <1>14
          <6>2. i \notin movers
            BY <4>1, <1>3, <1>11
          <6>3. <<to, i>> \in fds'
            BY <6>1, <6>2, <1>16
          <6> QED
            BY <5>2, <6>3, <4>2
        <5> QED
          BY <5>1, <5>2
      <4>4. ASSUME NEW c \in LinkChannels, ds'[c] = i, c # to PROVE FALSE
        BY <4>4, <3>1, <3>2, <4>1, <1>3
      <4> QED
        BY <4>2, <4>3, <4>4, <1>3
    <3>6. CASE i \notin movers /\ i \notin hosts
      <4>1. Elsewhere(l, n)
        BY <3>6, <1>9
      <4>2. (n.on <=> l.on) /\ n.chan = l.chan /\ (n.slot <=> l.slot)
            /\ (n.detaching <=> l.detaching) /\ (n.asked <=> l.asked)
        BY <4>1 DEF Elsewhere
      <4>3. l.on => l.chan # from /\ l.chan # to
        BY <3>6, <1>11, <1>12
      <4>4. l.on /\ <<l.chan, i>> \in fds => <<l.chan, i>> \in fds'
        BY <3>6, <4>3, <1>16
      <4>5. l.on /\ Ending(l.chan) => chan'[l.chan] = "ending"
        BY <3>1, <1>5 DEF Ending
      <4>6. ASSUME NEW c \in LinkChannels, l.on, ds'[c] = i, c # l.chan
            PROVE  Ending(l.chan)
        BY <4>6, <4>3, <3>1, <3>2, <1>3
      <4> HIDE DEF l, n
      <4> QED
        BY <4>2, <4>4, <4>5, <4>6, <3>1 DEF n
    <3> QED
      BY <3>3, <3>4, <3>5, <3>6
  <2>4. ASSUME NEW c \in LinkChannels, control.pc \in {"attach", "cas", "lease"},
               ds'[c] = control.hook, c # control.at
        PROVE  chan'[control.at] = "ending"
    <3>1. control.hook \in HookIds /\ control.at \in LinkChannels /\ control.hook # 0
      BY <2>4, AtHook, TypeFacts DEF Placed, HookPcs, InstallPcs
    <3>2. \A d \in LinkChannels : ds[d] = control.hook /\ d # control.at => Ending(control.at)
      BY <2>1, <2>4 DEF LeaseInv
    <3>3. (c = to /\ ds[from] = control.hook) \/ (c # from /\ ds[c] = control.hook)
      BY <2>4, <3>1, <1>3, <1>4
    <3> QED
      BY <2>4, <3>1, <3>2, <3>3, <1>3, <1>5 DEF Ending
  <2>5. \A s \in fds' : lease'[s[2]].on /\ lease'[s[2]].slot /\ lease'[s[2]].chan = s[1]
    <3> TAKE s \in fds'
    <3>1. s = <<s[1], s[2]>>
      BY <1>20
    <3> QED
      BY <3>1, <2>2
  <2> QED
    BY <2>3, <2>4, <2>5, <1>1 DEF LeaseInv, Ending
<1>25. /\ heap' \in Heaps /\ Spare(heap') = Spare(heap)
       /\ \A i \in HookIds : /\ Dropped(heap.hook[i], heap'.hook[i])
                             /\ heap'.hook[i].refs = OwnerCount(i)'
                             /\ lease'[i].on => lease[i].on
  BY <1>23
<1>26. removed' \in SUBSET HookIds
  BY <1>1, TypeFacts
<1> QED
  BY <1>1, <1>4, <1>5, <1>6, <1>19, <1>20, <1>22, <1>24, <1>25, <1>26, DropsKeep

\* Every step of the link host preserves the invariant.
LEMMA LinkKeeps ==
    ASSUME LinkInv, [LinkNext]_linkVars
    PROVE  LinkInv'
<1>1. CASE ControlStep
  <2>1. CASE Install
    BY <2>1, BuildHookKeeps, AddDatastoreKeeps, AttachAudiohookKeeps, PublishAttachedKeeps,
       InstallLeaseKeeps, UnwindKeeps, InstalledKeeps, Zenon DEF Install
  <2>2. CASE Visit \/ PrepareMissing \/ PublishMissing \/ Compare \/ Stage \/ BindFound
    BY <2>2, VisitKeeps, PrepareMissingKeeps, PublishMissingKeeps, CompareKeeps, StageKeeps,
       BindFoundKeeps, Zenon
  <2>3. CASE Observe \/ ScanEnd \/ ReloadDecide \/ FinishHook \/ ReloadEnd \/ BindEnd
    BY <2>3, ObserveKeeps, ScanEndKeeps, ReloadDecideKeeps, FinishHookKeeps, ReloadEndKeeps,
       BindEndKeeps, Zenon
  <2>4. CASE DetachChannel \/ DetachFree \/ DestroyDriver
    BY <2>4, DetachChannelKeeps, DetachFreeKeeps, DestroyDriverKeeps, Zenon
  <2> QED
    BY <1>1, <2>1, <2>2, <2>3, <2>4, Zenon DEF ControlStep
<1>2. CASE AsteriskCleans
  BY <1>2, DatastoreLeavesKeeps, DatastoreFreedKeeps, FramehookEndsKeeps, Zenon
     DEF AsteriskCleans
<1>3. CASE LifeStep
  BY <1>3, SurroundingsKeep, Zenon DEF LifeStep
<1>4. CASE \/ BindCall \/ BindUnlock \/ LoadDriver \/ Unload \/ ScanResolve \/ Renegotiated
           \/ Hangup \/ ReloadGate
  BY <1>4, SurroundingsKeep, Zenon
<1>5. CASE StopControl \/ ScanStart \/ ReloadStage \/ BindPeer \/ Statistics \/ IdleRead
           \/ Masquerade
  BY <1>5, StopControlKeeps, ScanStartKeeps, ReloadStageKeeps, BindPeerKeeps, StatisticsKeeps,
     IdleReadKeeps, MasqueradeKeeps, Zenon
<1>6. CASE UNCHANGED linkVars
  <2>1. /\ UNCHANGED <<life, driver, running, stop, scan>>
        /\ UNCHANGED <<control, relink, config, candidate, heap, lease, ds, removed, fds>>
        /\ UNCHANGED <<chan, rate, strays>>
    BY <1>6 DEF linkVars, lifeVars, astVars, cfgVars
  <2>2. LinkTypes' /\ ControlInv' /\ LifeInv'
    BY <2>1 DEF LinkInv, LinkTypes, ControlInv, LifeInv
  <2>3. HeldInv'
    <3>1. LinkTypes /\ ControlInv /\ HeldInv
      BY DEF LinkInv
    <3>2. \A c \in LinkChannels : Ending(c) => Ending(c)'
      BY <2>1 DEF Ending
    <3> QED
      BY <3>1, <3>2, <2>1, HooksUntouched, Zenon
  <2> QED
    BY <2>2, <2>3 DEF LinkInv
<1> QED
  BY <1>1, <1>2, <1>3, <1>4, <1>5, <1>6, Zenon DEF LinkNext

\* What the invariant says of the owners of hooks and graphs.
LEMMA OwnershipHolds ==
    ASSUME LinkInv
    PROVE  LinkOwnership
<1>1. ASSUME NEW h \in HookIds PROVE heap.hook[h].refs = Owners(h)
  BY OwnersCounted DEF LinkInv, HeldInv, RefInv
<1>2. ASSUME NEW h \in HookIds, heap.hook[h].refs = 0 PROVE ~heap.hook[h].listed
  <2>1. HookInv(h)
    BY DEF LinkInv, HeldInv, HooksInv
  <2>2. control.hook # h
    BY <1>2, OneHook
  <2> QED
    BY <2>1, <2>2, <1>2 DEF HookInv
<1>3. heap.graphs = OwnedGraphs
  <2>1. heap \in Heaps
    BY DEF LinkInv, LinkTypes
  <2>2. ASSUME NEW S \in SUBSET HookIds PROVE Cardinality(S) \in Nat
    BY LinkConstants, FS_Subset, FS_CardinalityType
  <2>3. Held(heap) \in Nat /\ heap.graphs \in Int
    <3>1. /\ {h \in HookIds : heap.hook[h].active # NoGraph} \in SUBSET HookIds
          /\ {h \in HookIds : heap.hook[h].staged # NoGraph} \in SUBSET HookIds
      OBVIOUS
    <3>2. Held(heap) \in Nat
      BY <3>1, <2>2 DEF Held
    <3> QED
      BY <3>2, <2>1 DEF Heaps
  <2>4. heap.graphs - Held(heap) = Count(control.graph # NoGraph)
    BY DEF LinkInv, HeldInv, GraphInv, Spare
  <2>5. Count(control.graph # NoGraph) \in Int
    BY DEF Count
  <2>6. OwnedGraphs = Held(heap) + Count(control.graph # NoGraph)
    BY DEF OwnedGraphs, Held
  <2> QED
    BY <2>3, <2>4, <2>5, <2>6
<1>4. control.by # "none" => driver
  BY DEF LinkInv, LifeInv
<1> QED
  BY <1>1, <1>2, <1>3, <1>4 DEF LinkOwnership

\* The invariant implies LinkLifetimes.
LEMMA LifetimesHold ==
    ASSUME LinkInv
    PROVE  LinkLifetimes
<1>1. LinkOwnership
  BY OwnershipHolds
<1>2. LeaseInv /\ HooksInv
  BY DEF LinkInv, HeldInv
<1>3. LeaseTracksChannel
  BY <1>2 DEF LeaseInv, LeaseTracksChannel, Ending
<1> QED
  BY <1>1, <1>3 DEF LinkLifetimes

\* However Asterisk's teardown, masquerades, bindings, the scanner, reloads
\* and unloads interleave, hooks, graphs, timers and leases end with their
\* owners and not before.
THEOREM LifetimesAlways == LinkSpec => []LinkLifetimes
<1>1. LinkInit => LinkInv
  BY LinkStarts
<1>2. LinkInv /\ [LinkNext]_linkVars => LinkInv'
  BY LinkKeeps
<1>3. LinkInv => LinkLifetimes
  BY LifetimesHold
<1> QED
  BY <1>1, <1>2, <1>3, PTL DEF LinkSpec

-----------------------------------------------------------------------------
(* LinksFollowReload *)

\* What a step may do to a hook without giving it anything to run.
Wanes(k, n) ==
    /\ n.active # NoGraph => n.active = k.active /\ n.clock = k.clock /\ n.profile = k.profile
    /\ n.staged # NoGraph => n.staged = k.staged /\ n.stagedRate = k.stagedRate
    /\ n.att = "attached" => k.att = "attached"

HeapWanes(hp, hq) == \A i \in HookIds : Wanes(hp.hook[i], hq.hook[i])

\* Giving nothing, twice, is giving nothing.
LEMMA WanesOn ==
    /\ \A k : Wanes(k, k)
    /\ \A k, m, n : Wanes(k, m) /\ Wanes(m, n) => Wanes(k, n)
BY DEF Wanes

\* A release or the end of a datastore gives a hook nothing to run.
LEMMA ReleasedWanes ==
    ASSUME NEW k \in Hooks
    PROVE  Wanes(k, Released(k)) /\ Wanes(k, Torn(k))
<1>1. k.refs # 1 => Wanes(k, Released(k))
  BY ReleasedHook DEF Wanes, Same
<1>2. k.refs = 1 => Wanes(k, Released(k))
  BY ReleasedHook DEF Wanes, Gone
<1>3. Wanes(k, Torn(k))
  BY TornHook DEF Wanes
<1> QED
  BY <1>1, <1>2, <1>3

\* Giving a reference up, tearing a datastore down and taking a reference.
LEMMA ReleaseWanes ==
    ASSUME NEW hp \in Heaps, NEW h \in HookIds
    PROVE  /\ Release(hp, h) \in Heaps /\ HeapWanes(hp, Release(hp, h))
           /\ DatastoreDestroy(hp, h) \in Heaps /\ HeapWanes(hp, DatastoreDestroy(hp, h))
           /\ Retain(hp, h) \in Heaps /\ HeapWanes(hp, Retain(hp, h))
<1>1. hp.hook[h] \in Hooks
  BY HeapFields
<1>2. Torn(hp.hook[h]) \in Hooks
  BY <1>1, TornHook
<1>3. Release(hp, h) \in Heaps /\ HeapWanes(hp, Release(hp, h))
  BY <1>1, ReleaseEffect, ReleasedWanes, WanesOn DEF HeapWanes
<1>4. DatastoreDestroy(hp, h) \in Heaps /\ HeapWanes(hp, DatastoreDestroy(hp, h))
  <2>1. Wanes(hp.hook[h], Torn(hp.hook[h]))
        /\ Wanes(Torn(hp.hook[h]), Released(Torn(hp.hook[h])))
    BY <1>1, <1>2, ReleasedWanes
  <2>2. Wanes(hp.hook[h], Released(Torn(hp.hook[h])))
    BY <2>1, WanesOn
  <2> QED
    BY <2>2, DestroyEffect, WanesOn DEF HeapWanes
<1>5. Retain(hp, h) \in Heaps /\ HeapWanes(hp, Retain(hp, h))
  <2>1. Wanes(hp.hook[h], Retain(hp, h).hook[h])
    BY RetainEffect DEF Same, Wanes
  <2> QED
    BY <2>1, RetainEffect, WanesOn DEF HeapWanes
<1> QED
  BY <1>3, <1>4, <1>5

\* The same of the whole heap.
LEMMA HeapWanesOn ==
    /\ \A hp : HeapWanes(hp, hp)
    /\ \A hp, hq, hr : HeapWanes(hp, hq) /\ HeapWanes(hq, hr) => HeapWanes(hp, hr)
BY WanesOn DEF HeapWanes

\* The parts of FollowInv.
LEMMA FollowParts ==
    FollowInv <=> Committing /\ Offered /\ \A h \in HookIds : FollowHook(h)
BY DEF FollowInv, Committing, Offered, FollowHook

\* A hook that is given nothing, and that no operation takes up, still follows.
LEMMA HookWanes ==
    ASSUME NEW h \in HookIds, FollowHook(h), Wanes(heap.hook[h], heap'.hook[h]),
           config' = config,
           h \in strays => h \in strays',
           Linked(h)' => Linked(h),
           h \in relink'.hooks => h \in relink.hooks /\ candidate' = candidate,
           control'.hook = h /\ control'.pc \in InstallPcs =>
              control.hook = h /\ control.pc \in InstallPcs /\ control'.by = control.by
              /\ (control.by = "reload" => candidate' = candidate),
           relink.commit /\ h \in relink.hooks => relink'.commit /\ h \in relink'.hooks
    PROVE  FollowHook(h)'
<1> DEFINE k == heap.hook[h]
           n == heap'.hook[h]
<1>1. n.active # NoGraph => n.active = k.active /\ n.clock = k.clock /\ n.profile = k.profile
  BY DEF Wanes
<1>2. n.staged # NoGraph => n.staged = k.staged /\ n.stagedRate = k.stagedRate
  BY DEF Wanes
<1>3. n.att = "attached" => k.att = "attached"
  BY DEF Wanes
<1>4. n.active # NoGraph /\ Follows(h) => Follows(h)'
  BY <1>1 DEF Follows
<1>5. Runs(h)' => Runs(h)
  BY <1>1, <1>3 DEF Runs
<1>6. n.active # NoGraph => n.clock = n.active.rate
  BY <1>1 DEF FollowHook
<1>7. n.staged # NoGraph => n.stagedRate = n.staged.rate
  BY <1>2 DEF FollowHook
<1>8. ASSUME \/ h \in relink'.hooks
             \/ control'.hook = h /\ control'.by = "reload" /\ control'.pc \in InstallPcs,
             n.staged # NoGraph
      PROVE  n.staged.desc = candidate'[n.staged.profile]
  <2>1. /\ candidate' = candidate
        /\ \/ h \in relink.hooks
           \/ control.hook = h /\ control.by = "reload" /\ control.pc \in InstallPcs
    BY <1>8
  <2> QED
    BY <2>1, <1>2, <1>8 DEF FollowHook
<1>9. ASSUME control'.hook = h, control'.pc \in InstallPcs, n.active # NoGraph
      PROVE  control'.by # "reload" /\ Follows(h)'
  BY <1>1, <1>4, <1>9 DEF FollowHook
<1>10. ASSUME Runs(h)', Linked(h)', h \notin strays'
       PROVE  Follows(h)' \/ (relink'.commit /\ h \in relink'.hooks)
  <2>1. Follows(h) \/ (relink.commit /\ h \in relink.hooks)
    BY <1>5, <1>10 DEF FollowHook
  <2>2. n.active # NoGraph
    BY <1>10 DEF Runs
  <2> QED
    BY <2>1, <2>2, <1>4
<1> QED
  BY <1>6, <1>7, <1>8, <1>9, <1>10 DEF FollowHook

\* A step that gives no hook anything and decides nothing.
LEMMA QuietFollows ==
    ASSUME FollowInv, HeapWanes(heap, heap'), config' = config, candidate' = candidate,
           strays' = strays, relink'.hooks = relink.hooks, relink'.commit = relink.commit,
           relink'.pc = "idle" => relink.pc = "idle",
           \A h \in HookIds : Linked(h)' => Linked(h),
           \/ control'.pc \notin InstallPcs
           \/ control'.hook = control.hook /\ control.pc \in InstallPcs
              /\ control'.by = control.by,
           \/ control'.graph = NoGraph
           \/ control'.graph = control.graph /\ control'.hz = control.hz,
           relink.commit => control'.pc = "finish"
    PROVE  FollowInv'
<1>1. Committing /\ Offered /\ \A h \in HookIds : FollowHook(h)
  BY FollowParts
<1>2. Committing'
  BY <1>1 DEF Committing
<1>3. Offered'
  BY <1>1 DEF Offered
<1>4. ASSUME NEW h \in HookIds PROVE FollowHook(h)'
  <2>1. FollowHook(h) /\ Wanes(heap.hook[h], heap'.hook[h])
    BY <1>1 DEF HeapWanes
  <2> QED
    BY <2>1, HookWanes
<1> QED
  BY <1>2, <1>3, <1>4 DEF FollowInv, Committing, Offered, FollowHook

\* A step after which the reload has visited no other channels.
LEMMA QuietVisited ==
    ASSUME LinkTypes, VisitedInv, HeapWanes(heap, heap'),
           control'.by = "reload" /\ control'.pc # "finish" =>
              /\ control.by = "reload" /\ control.pc # "finish" /\ candidate' = candidate
              /\ relink.hooks \subseteq relink'.hooks /\ relink.moved \subseteq relink'.moved
              /\ Up' \ control'.todo \subseteq Up \ control.todo
              /\ \A c \in Up' : ds'[c] \in {0, ds[c]} \/ ds'[c] \in relink'.moved
              /\ control.pc \in {"compare", "stage"} =>
                    control'.hook = control.hook /\ control'.pc \in {"compare", "stage"}
    PROVE  VisitedInv'
<1> SUFFICES ASSUME control'.by = "reload", control'.pc # "finish",
                    NEW c \in Up' \ control'.todo, ds'[c] # 0,
                    heap'.hook[ds'[c]].att = "attached",
                    heap'.hook[ds'[c]].active # NoGraph, ds'[c] \notin relink'.moved
             PROVE  \/ ds'[c] \in relink'.hooks
                    \/ control'.hook = ds'[c] /\ control'.pc \in {"compare", "stage"}
                    \/ heap'.hook[ds'[c]].active.desc
                          = candidate'[heap'.hook[ds'[c]].profile]
  BY DEF VisitedInv, Runs
<1>1. ds'[c] = ds[c] /\ c \in Up \ control.todo
  OBVIOUS
<1>2. ds[c] \in HookIds
  <2>1. c \in LinkChannels
    BY <1>1 DEF Up
  <2> QED
    BY <2>1, <1>1 DEF LinkTypes
<1>3. PICK h \in HookIds : h = ds[c]
  BY <1>2
<1>4. Wanes(heap.hook[h], heap'.hook[h])
  BY DEF HeapWanes
<1>5. heap'.hook[h].att = "attached" /\ heap'.hook[h].active # NoGraph
  BY <1>1, <1>3
<1>6. /\ heap.hook[h].att = "attached" /\ heap.hook[h].active # NoGraph
      /\ heap'.hook[h].active = heap.hook[h].active
      /\ heap'.hook[h].profile = heap.hook[h].profile
  BY <1>4, <1>5 DEF Wanes
<1>7. Runs(ds[c]) /\ ds[c] \notin relink.moved
  BY <1>1, <1>3, <1>6 DEF Runs
<1>8. \/ ds[c] \in relink.hooks
      \/ control.hook = ds[c] /\ control.pc \in {"compare", "stage"}
      \/ heap.hook[ds[c]].active.desc = candidate[heap.hook[ds[c]].profile]
  BY <1>1, <1>3, <1>7 DEF VisitedInv
<1> QED
  BY <1>1, <1>3, <1>6, <1>8

\* A step that takes hooks or channels away, beside the reload or at the end
\* of an operation on a channel.
LEMMA Aside ==
    ASSUME LinkInv, FollowInv, VisitedInv, HeapWanes(heap, heap'),
           UNCHANGED <<config, candidate, strays, relink>>,
           Up' \subseteq Up, \A c \in LinkChannels : ds'[c] \in {0, ds[c]},
           \/ control' = control
           \/ /\ control.pc # "finish" /\ control'.pc \notin InstallPcs
              /\ control'.graph = NoGraph
              /\ control'.by = "reload" /\ control'.pc # "finish" =>
                    /\ control.by = "reload" /\ control.pc \notin {"compare", "stage"}
                    /\ control.todo \subseteq control'.todo
    PROVE  FollowInv' /\ VisitedInv'
<1>1. Committing
  BY FollowParts
<1>2. ASSUME NEW h \in HookIds, Linked(h)' PROVE Linked(h)
  BY <1>2, TypeFacts DEF Linked, Up
<1>3. relink.commit => control'.pc = "finish"
  BY <1>1 DEF Committing
<1>4. /\ \/ control'.pc \notin InstallPcs
         \/ control'.hook = control.hook /\ control.pc \in InstallPcs
            /\ control'.by = control.by
      /\ \/ control'.graph = NoGraph
         \/ control'.graph = control.graph /\ control'.hz = control.hz
  OBVIOUS
<1>5. FollowInv'
  BY <1>2, <1>3, <1>4, QuietFollows
<1>6. ASSUME control'.by = "reload", control'.pc # "finish"
      PROVE  /\ control.by = "reload" /\ control.pc # "finish"
             /\ Up' \ control'.todo \subseteq Up \ control.todo
             /\ \A c \in Up' : ds'[c] \in {0, ds[c]}
             /\ control.pc \in {"compare", "stage"} =>
                   control'.hook = control.hook /\ control'.pc \in {"compare", "stage"}
  BY <1>6, TypeFacts
<1>7. VisitedInv'
  BY <1>6, TypeFacts, QuietVisited
<1> QED
  BY <1>5, <1>7

\* The steps around the operations leave the hooks as they are.
LEMMA SurroundingsFollow ==
    ASSUME LinkInv, FollowInv, VisitedInv,
           \/ BindCall \/ BindUnlock \/ LoadDriver \/ LoadLinks \/ LoadChannels
           \/ Unload \/ StopLinks \/ ScanResolve \/ Renegotiated \/ Hangup
    PROVE  FollowInv' /\ VisitedInv'
<1>1. /\ heap' = heap /\ control' = control /\ relink' = relink /\ ds' = ds
      /\ config' = config /\ candidate' = candidate /\ strays' = strays
  BY DEF BindCall, BindUnlock, LoadDriver, LoadLinks, LoadChannels, Unload, StopLinks,
     ScanResolve, Renegotiated, Hangup, lifeVars, astVars, cfgVars
<1>2. Up' \subseteq Up
  <2>1. CASE Hangup
    <3>1. PICK c \in Up : chan' = [chan EXCEPT ![c] = "ending"]
      BY <2>1 DEF Hangup
    <3> QED
      BY <3>1, TypeFacts DEF Up
  <2>2. CASE ~Hangup
    <3>1. chan' = chan
      BY <2>2 DEF BindCall, BindUnlock, LoadDriver, LoadLinks, LoadChannels, Unload, StopLinks,
         ScanResolve, Renegotiated, lifeVars, astVars, cfgVars
    <3> QED
      BY <3>1 DEF Up
  <2> QED
    BY <2>1, <2>2
<1> QED
  BY <1>1, <1>2, HeapWanesOn, Aside

\* Operations that begin and end, outside a reload.
LEMMA OperationsFollow ==
    ASSUME LinkInv, FollowInv, VisitedInv,
           \/ BindPeer \/ BindEnd \/ ScanStart \/ ScanEnd \/ StopControl \/ DestroyDriver
    PROVE  FollowInv' /\ VisitedInv'
<1>1. /\ heap' = heap /\ relink' = relink /\ ds' = ds /\ chan' = chan
      /\ config' = config /\ candidate' = candidate /\ strays' = strays
  BY DEF BindPeer, BindEnd, ScanStart, ScanEnd, StopControl, DestroyDriver, lifeVars, astVars,
     cfgVars
<1>2. \/ control' = control
      \/ control' = Free
      \/ \E chs \in SUBSET LinkChannels, w \in Profiles \cup {NoProfile} :
            control' \in {LinkOperation("scan", chs, w), LinkOperation("bind", chs, w),
                          LinkOperation("stop", chs, w)}
  <2>1. Up \subseteq LinkChannels /\ \A c \in Up : {c} \subseteq LinkChannels
    BY TypeFacts
  <2> QED
    BY <2>1 DEF BindPeer, BindEnd, ScanStart, ScanEnd, StopControl, DestroyDriver
<1>3. \/ control' = control
      \/ control'.pc = "visit" /\ control'.graph = NoGraph /\ control'.by # "reload"
  <2>1. \A chs \in SUBSET LinkChannels, w \in Profiles \cup {NoProfile} :
           \A by \in {"scan", "bind", "stop"} :
              /\ LinkOperation(by, chs, w).pc = "visit" /\ LinkOperation(by, chs, w).by = by
              /\ LinkOperation(by, chs, w).graph = NoGraph
    BY OperationFacts
  <2> QED
    BY <1>2, <2>1, FreeFacts
<1>4. control' = control \/ control.pc # "finish"
  BY TypeFacts DEF BindPeer, BindEnd, ScanStart, ScanEnd, StopControl, DestroyDriver, Placed
<1>5. "visit" \notin InstallPcs
  BY DEF InstallPcs
<1>6. Up' \subseteq Up
  BY <1>1 DEF Up
<1> QED
  BY <1>1, <1>3, <1>4, <1>5, <1>6, HeapWanesOn, Aside

\* Asterisk's own steps: datastores and framehooks end, timers are read.
LEMMA AsteriskFollows ==
    ASSUME LinkInv, FollowInv, VisitedInv,
           DatastoreLeaves \/ DatastoreFreed \/ FramehookEnds \/ IdleRead
    PROVE  FollowInv' /\ VisitedInv'
<1>1. /\ control' = control /\ relink' = relink /\ chan' = chan
      /\ config' = config /\ candidate' = candidate /\ strays' = strays
  BY DEF DatastoreLeaves, DatastoreFreed, FramehookEnds, IdleRead, LeaseEnds, lifeVars, cfgVars
<1>2. HeapWanes(heap, heap')
  <2>1. CASE DatastoreFreed
    <3>1. PICK h \in removed : heap' = DatastoreDestroy(heap, h)
      BY <2>1 DEF DatastoreFreed
    <3> QED
      BY <3>1, TypeFacts, ReleaseWanes
  <2>2. CASE FramehookEnds
    <3>1. PICK h \in HookIds : heap' = Release(heap, h)
      BY <2>2 DEF FramehookEnds, LeaseEnds
    <3> QED
      BY <3>1, TypeFacts, ReleaseWanes
  <2>3. CASE DatastoreLeaves \/ IdleRead
    BY <2>3, HeapWanesOn DEF DatastoreLeaves, IdleRead
  <2> QED
    BY <2>1, <2>2, <2>3
<1>3. \A c \in LinkChannels : ds'[c] \in {0, ds[c]}
  <2>1. CASE DatastoreLeaves
    <3>1. PICK c \in LinkChannels : ds' = [ds EXCEPT ![c] = 0]
      BY <2>1 DEF DatastoreLeaves
    <3> QED
      BY <3>1, TypeFacts
  <2>2. CASE DatastoreFreed \/ FramehookEnds \/ IdleRead
    BY <2>2 DEF DatastoreFreed, FramehookEnds, IdleRead
  <2> QED
    BY <2>1, <2>2
<1>4. Up' \subseteq Up
  BY <1>1 DEF Up
<1> QED
  BY <1>1, <1>2, <1>3, <1>4, Aside

\* What a hook runs after the step, it ran before it.
RanBefore(k, n) ==
    n.att = "attached" /\ n.active # NoGraph =>
    k.att = "attached" /\ n.active = k.active /\ n.profile = k.profile

\* What wanes ran before.
LEMMA WanesRan == \A k, n : Wanes(k, n) => RanBefore(k, n)
BY DEF Wanes, RanBefore

\* A step of a reload that visits a channel, or is done with the hook it compares.
LEMMA ReloadVisits ==
    ASSUME LinkTypes, VisitedInv,
           control'.by = "reload" /\ control'.pc # "finish" =>
              /\ control.by = "reload" /\ control.pc # "finish" /\ candidate' = candidate
              /\ relink.hooks \subseteq relink'.hooks /\ relink.moved \subseteq relink'.moved
              /\ \A h \in HookIds : RanBefore(heap.hook[h], heap'.hook[h])
              /\ \A c \in Up' \ control'.todo :
                    \/ ds'[c] = 0
                    \/ ds'[c] \in relink'.moved
                    \/ heap'.hook[ds'[c]].active = NoGraph
                    \/ control'.hook = ds'[c] /\ control'.pc \in {"compare", "stage"}
                    \/ ds'[c] = ds[c] /\ c \in Up \ control.todo
              /\ control.pc \in {"compare", "stage"} =>
                    \/ control'.hook = control.hook /\ control'.pc \in {"compare", "stage"}
                    \/ control.hook \in relink'.hooks
                    \/ heap.hook[control.hook].active.desc
                          = candidate[heap.hook[control.hook].profile]
    PROVE  VisitedInv'
<1> SUFFICES ASSUME control'.by = "reload", control'.pc # "finish",
                    NEW c \in Up' \ control'.todo, ds'[c] # 0,
                    heap'.hook[ds'[c]].att = "attached",
                    heap'.hook[ds'[c]].active # NoGraph, ds'[c] \notin relink'.moved
             PROVE  \/ ds'[c] \in relink'.hooks
                    \/ control'.hook = ds'[c] /\ control'.pc \in {"compare", "stage"}
                    \/ heap'.hook[ds'[c]].active.desc
                          = candidate'[heap'.hook[ds'[c]].profile]
  BY DEF VisitedInv, Runs
<1>1. \/ control'.hook = ds'[c] /\ control'.pc \in {"compare", "stage"}
      \/ ds'[c] = ds[c] /\ c \in Up \ control.todo
  OBVIOUS
<1>2. CASE ds'[c] = ds[c] /\ c \in Up \ control.todo
  <2>1. ds[c] \in HookIds
    <3>1. c \in LinkChannels
      BY <1>2 DEF Up
    <3> QED
      BY <3>1, <1>2 DEF LinkTypes
  <2>2. PICK h \in HookIds : h = ds[c]
    BY <2>1
  <2>3. /\ heap.hook[h].att = "attached" /\ heap.hook[h].active # NoGraph
        /\ heap'.hook[h].active = heap.hook[h].active
        /\ heap'.hook[h].profile = heap.hook[h].profile
    BY <1>2, <2>2 DEF RanBefore
  <2>4. Runs(ds[c]) /\ ds[c] \notin relink.moved
    BY <1>2, <2>2, <2>3 DEF Runs
  <2>5. \/ ds[c] \in relink.hooks
        \/ control.hook = ds[c] /\ control.pc \in {"compare", "stage"}
        \/ heap.hook[ds[c]].active.desc = candidate[heap.hook[ds[c]].profile]
    BY <1>2, <2>4 DEF VisitedInv
  <2> QED
    BY <1>2, <2>2, <2>3, <2>5
<1> QED
  BY <1>1, <1>2

\* Which operation a place belongs to keeps a commit away from it.
LEMMA NoCommit ==
    ASSUME LinkInv, FollowInv, control.pc # "finish"
    PROVE  ~relink.commit /\ relink \in Relinks
BY TypeFacts, FollowParts DEF Committing

\* Visiting a channel gives nothing to a hook, and leaves the reload at the hook.
LEMMA VisitFollows == ASSUME LinkInv, FollowInv, VisitedInv, Visit PROVE FollowInv' /\ VisitedInv'
<1>1. PICK c \in control.todo :
          IF chan[c] = "up" \/ control.by = "bind"
          THEN Snapshot(c)
          ELSE control' = [control EXCEPT !.todo = @ \ {c}] /\ heap' = heap
  BY DEF Visit
<1>2. /\ ds' = ds /\ chan' = chan /\ relink' = relink
      /\ config' = config /\ candidate' = candidate /\ strays' = strays
      /\ control.by \in {"scan", "reload", "bind"} /\ control.pc = "visit"
  BY DEF Visit, cfgVars, astVars
<1>3. Empty /\ c \in LinkChannels /\ ds[c] \in HookIds \cup {0} /\ rate[c] \in LinkHz
      /\ heap \in Heaps /\ control \in Controls
  BY <1>2, EmptyAt, TypeFacts DEF Controls
<1> DEFINE h == ds[c]
           step == [control EXCEPT !.todo = @ \ {c}, !.at = c, !.hz = rate[c]]
<1>4. /\ step \in Controls /\ step.by = control.by /\ step.todo = control.todo \ {c}
      /\ step.pc = "visit" /\ step.hook = 0 /\ step.graph = NoGraph /\ Placed(step)
  <2>1. /\ step \in Controls /\ step.by = control.by /\ step.todo = control.todo \ {c}
        /\ step.at = c /\ step.pc = "visit" /\ step.hook = 0 /\ step.graph = NoGraph
        /\ step.want = control.want
    BY <1>2, <1>3 DEF Controls, Empty
  <2> QED
    BY <2>1, <1>2, TypeFacts DEF Placed, HookPcs, InstallPcs
<1> HIDE DEF step
<1>5. \A i \in HookIds \cup {0}, pc \in Pcs :
         Hooked(step, i, pc, [step EXCEPT !.hook = i, !.pc = pc])
  BY <1>4, WithHook, Zenon
<1>6. CASE \E pc \in {"missing", "compare", "bound"} :
              /\ pc = "compare" <=> control.by = "reload"
              /\ control' = [step EXCEPT !.hook = h, !.pc = pc]
              /\ h # 0 /\ heap' = Retain(heap, h)
  <2>1. PICK pc \in {"missing", "compare", "bound"} :
              /\ pc = "compare" <=> control.by = "reload"
              /\ control' = [step EXCEPT !.hook = h, !.pc = pc]
              /\ h # 0 /\ heap' = Retain(heap, h)
    BY <1>6
  <2>2. Hooked(step, h, pc, control')
    BY <2>1, <1>3, <1>5, PlaceNames
  <2>3. /\ control'.pc = pc /\ control'.hook = h /\ control'.graph = NoGraph
        /\ control'.todo = control.todo \ {c} /\ control'.by = control.by
    BY <2>2, <1>4 DEF Hooked
  <2>4. HeapWanes(heap, heap')
    BY <2>1, <1>3, ReleaseWanes
  <2>5. control'.pc \notin InstallPcs /\ control'.pc # "finish"
    BY <2>1, <2>3 DEF InstallPcs
  <2>6. ~relink.commit /\ \A i \in HookIds : Linked(i)' => Linked(i)
    BY <1>2, NoCommit DEF Linked, Up
  <2>7. FollowInv'
    BY <1>2, <2>3, <2>4, <2>5, <2>6, QuietFollows
  <2>8. \A i \in HookIds : RanBefore(heap.hook[i], heap'.hook[i])
    BY <2>4, WanesRan DEF HeapWanes
  <2>9. ASSUME NEW d \in Up' \ control'.todo, control.by = "reload"
        PROVE  \/ control'.hook = ds'[d] /\ control'.pc \in {"compare", "stage"}
               \/ ds'[d] = ds[d] /\ d \in Up \ control.todo
    BY <2>1, <2>3, <2>9, <1>2 DEF Up
  <2>10. VisitedInv'
    BY <1>2, <2>3, <2>8, <2>9, TypeFacts, ReloadVisits
  <2> QED
    BY <2>7, <2>10
<1>7. CASE /\ heap' = heap /\ control'.pc \notin InstallPcs \cup {"finish"}
           /\ control'.graph = NoGraph
           /\ control'.by = "reload" =>
                 /\ control.by = "reload" /\ control.todo \ {c} \subseteq control'.todo
                 /\ ds[c] = 0 \/ chan[c] # "up"
  <2>1. HeapWanes(heap, heap') /\ \A i \in HookIds : RanBefore(heap.hook[i], heap'.hook[i])
    BY <1>7, HeapWanesOn, WanesRan DEF HeapWanes
  <2>2. ~relink.commit /\ \A i \in HookIds : Linked(i)' => Linked(i)
    BY <1>2, NoCommit DEF Linked, Up
  <2>3. FollowInv'
    BY <1>2, <1>7, <2>1, <2>2, QuietFollows
  <2>4. ASSUME NEW d \in Up' \ control'.todo, control'.by = "reload"
        PROVE  ds'[d] = 0 \/ (ds'[d] = ds[d] /\ d \in Up \ control.todo)
    <3>1. chan[d] = "up" /\ d \notin control'.todo /\ d \in Up
      BY <1>2, <2>4 DEF Up
    <3>2. CASE d = c
      BY <3>1, <3>2, <1>2, <1>7, <2>4
    <3>3. CASE d # c
      BY <3>1, <3>3, <1>2, <1>7, <2>4
    <3> QED
      BY <3>2, <3>3
  <2>5. VisitedInv'
    BY <1>2, <1>7, <2>1, <2>4, TypeFacts, ReloadVisits
  <2> QED
    BY <2>3, <2>5
<1>8. CASE ~(chan[c] = "up" \/ control.by = "bind")
  <2>1. control' = [control EXCEPT !.todo = @ \ {c}] /\ heap' = heap
    BY <1>1, <1>8
  <2>2. /\ control'.by = control.by /\ control'.pc = "visit" /\ control'.graph = NoGraph
        /\ control'.todo = control.todo \ {c}
    BY <2>1, <1>2, <1>3 DEF Controls, Empty
  <2> QED
    BY <2>1, <2>2, <1>7, <1>8 DEF InstallPcs
<1>9. CASE Snapshot(c) /\ (chan[c] = "up" \/ control.by = "bind")
  <2>1. CASE h # 0 /\ (control.by # "scan" \/ c \in Eligible)
    <3>1. /\ control' = [step EXCEPT !.hook = h, !.pc =
                [scan |-> "missing", reload |-> "compare", bind |-> "bound"][control.by]]
          /\ heap' = Retain(heap, h)
      BY <1>9, <2>1 DEF Snapshot, step
    <3>2. [scan |-> "missing", reload |-> "compare", bind |-> "bound"][control.by]
             \in {"missing", "compare", "bound"}
          /\ ([scan |-> "missing", reload |-> "compare", bind |-> "bound"][control.by] = "compare"
                <=> control.by = "reload")
      BY <1>2
    <3> QED
      BY <1>6, <2>1, <3>1, <3>2
  <2>2. CASE ~(h # 0 /\ (control.by # "scan" \/ c \in Eligible))
    <3>1. /\ control' = [step EXCEPT !.pc = "build"] \/ control' = NextVisit(step)
          /\ heap' = heap
      BY <1>9, <2>2 DEF Snapshot, step
    <3>2. CASE control' = [step EXCEPT !.pc = "build"]
      <4>1. control'.pc = "build" /\ control'.by = control.by /\ control'.graph = NoGraph
            /\ control'.todo = control.todo \ {c}
        BY <3>2, <1>4, AtPlace, PlaceNames
      <4> QED
        BY <4>1, <3>1, <2>2, <1>7 DEF InstallPcs
    <3>3. CASE control' = NextVisit(step)
      <4>1. /\ Onward(step, NextVisit(step))
            /\ NextVisit(step).pc = (IF step.by = "bind" THEN "end" ELSE "visit")
            /\ step.by # "bind" => NextVisit(step).todo = step.todo
        BY <1>2, <1>4, NextVisitFacts
      <4> QED
        BY <4>1, <3>1, <3>3, <1>4, <2>2, <1>7 DEF InstallPcs, Onward
    <3> QED
      BY <3>1, <3>2, <3>3
  <2> QED
    BY <2>1, <2>2
<1> QED
  BY <1>1, <1>8, <1>9

\* Writing a flag of a hook gives it nothing to run.
LEMMA FlagWanes ==
    ASSUME NEW hp \in Heaps, NEW h \in HookIds
    PROVE  \A b \in BOOLEAN :
              /\ [hp EXCEPT !.hook[h].listed = b] \in Heaps
              /\ HeapWanes(hp, [hp EXCEPT !.hook[h].listed = b])
              /\ [hp EXCEPT !.hook[h].bound = b] \in Heaps
              /\ HeapWanes(hp, [hp EXCEPT !.hook[h].bound = b])
<1> TAKE b \in BOOLEAN
<1> DEFINE k == hp.hook[h]
           n == [k EXCEPT !.listed = b]
           m == [k EXCEPT !.bound = b]
<1>1. k \in Hooks
  BY HeapFields
<1>2. n \in Hooks /\ Wanes(k, n) /\ m \in Hooks /\ Wanes(k, m)
  BY <1>1 DEF Hooks, Wanes
<1>3. /\ [hp EXCEPT !.hook[h].listed = b] = Put(hp, h, n)
      /\ [hp EXCEPT !.hook[h].bound = b] = Put(hp, h, m)
  <2>1. /\ \A v \in BOOLEAN : [hp EXCEPT !.hook[h].bound = v] =
                     Put(hp, h, [hp.hook[h] EXCEPT !.bound = v])
        /\ \A v \in BOOLEAN : [hp EXCEPT !.hook[h].listed = v] =
                     Put(hp, h, [hp.hook[h] EXCEPT !.listed = v])
    BY PutFields
  <2> QED
    BY <2>1, Zenon
<1> HIDE DEF n, m
<1>4. /\ Put(hp, h, n) \in Heaps /\ HeapWanes(hp, Put(hp, h, n))
      /\ Put(hp, h, m) \in Heaps /\ HeapWanes(hp, Put(hp, h, m))
  <2>1. /\ Put(hp, h, n) \in Heaps /\ Put(hp, h, n).hook[h] = n
        /\ \A i \in HookIds : i # h => Put(hp, h, n).hook[i] = hp.hook[i]
    BY <1>2, PutFacts
  <2>2. /\ Put(hp, h, m) \in Heaps /\ Put(hp, h, m).hook[h] = m
        /\ \A i \in HookIds : i # h => Put(hp, h, m).hook[i] = hp.hook[i]
    BY <1>2, PutFacts
  <2> QED
    BY <1>2, <2>1, <2>2, WanesOn DEF HeapWanes
<1> QED
  BY <1>3, <1>4, Zenon

\* An operation that is done with its channel, well or badly.
LEMMA DoneFollows ==
    ASSUME LinkInv, FollowInv, VisitedInv, HeapWanes(heap, heap'),
           UNCHANGED <<config, candidate, strays, relink, chan>>,
           \A c \in LinkChannels : ds'[c] \in {0, ds[c]},
           control.by \in {"scan", "reload", "bind", "stop"}, control.pc # "finish",
           \/ control' = Failed(control)
           \/ control' = NextVisit(control) /\ control.pc \notin {"compare", "stage"}
    PROVE  FollowInv' /\ VisitedInv'
<1>1. /\ Onward(control, NextVisit(control)) /\ Onward(control, Failed(control))
      /\ control.by # "bind" => NextVisit(control).todo = control.todo
      /\ control.by = "reload" => Failed(control).pc = "finish"
      /\ control.by # "reload" => Failed(control) = NextVisit(control)
  BY TypeFacts, NextVisitFacts
<1>2. control'.by = control.by /\ control'.graph = NoGraph /\ control'.pc \notin InstallPcs
  BY <1>1 DEF Onward, HookPcs
<1>3. control'.by = "reload" /\ control'.pc # "finish" =>
         /\ control.by = "reload" /\ control.pc \notin {"compare", "stage"}
         /\ control.todo \subseteq control'.todo
  BY <1>1, <1>2
<1>4. Up' \subseteq Up
  BY DEF Up
<1> QED
  BY <1>2, <1>3, <1>4, Aside

\* Statistics, bindings of linked channels and the end of the driver's links.
LEMMA LookersFollow ==
    ASSUME LinkInv, FollowInv, VisitedInv,
           Statistics \/ Observe \/ BindFound \/ DetachChannel \/ DetachFree
    PROVE  FollowInv' /\ VisitedInv'
<1>1. /\ relink' = relink /\ chan' = chan /\ config' = config /\ candidate' = candidate
      /\ strays' = strays
  BY DEF Statistics, Observe, BindFound, DetachChannel, DetachFree, lifeVars, astVars, cfgVars
<1>2. Up' \subseteq Up /\ heap \in Heaps
  BY <1>1, TypeFacts DEF Up
<1>3. CASE Statistics
  <2>1. PICK c \in Up :
          /\ ds[c] # 0
          /\ control' = [LinkOperation("stats", {}, NoProfile) EXCEPT
                        !.hook = ds[c], !.pc = "observe"]
          /\ heap' = Retain(heap, ds[c])
    BY <1>3 DEF Statistics
  <2>2. ds[c] \in HookIds /\ ds' = ds /\ control.pc = "visit"
    BY <1>3, <2>1, TypeFacts DEF Statistics, astVars, Placed
  <2>3. PICK p \in Controls : /\ p = LinkOperation("stats", {}, NoProfile) /\ p.by = "stats"
                              /\ p.graph = NoGraph
    <3>1. {} \in SUBSET LinkChannels /\ NoProfile \in Profiles \cup {NoProfile}
      OBVIOUS
    <3> QED
      BY <3>1, OperationFacts
  <2>4. control'.by = "stats" /\ control'.pc = "observe" /\ control'.graph = NoGraph
    <3>1. control' = [p EXCEPT !.hook = ds[c], !.pc = "observe"]
      BY <2>1, <2>3
    <3> QED
      BY <3>1, <2>3 DEF Controls
  <2>5. HeapWanes(heap, heap')
    BY <1>2, <2>1, <2>2, ReleaseWanes
  <2> QED
    BY <1>1, <1>2, <2>2, <2>4, <2>5, Aside DEF InstallPcs
<1>4. CASE Observe
  <2>1. control.pc = "observe" /\ heap' = Release(heap, control.hook) /\ control' = Free
        /\ ds' = ds
    BY <1>4 DEF Observe, astVars
  <2>2. control.hook \in HookIds
    BY <2>1, AtHook DEF HookPcs
  <2>3. HeapWanes(heap, heap')
    BY <1>2, <2>1, <2>2, ReleaseWanes
  <2> QED
    BY <1>1, <1>2, <2>1, <2>3, FreeFacts, Aside DEF InstallPcs
<1>5. CASE BindFound
  <2> DEFINE h == control.hook
             k == heap.hook[h]
             b == k.bound \/ (k.profile = control.want /\ k.att = "attached")
             hp == [heap EXCEPT !.hook[h].bound = b]
  <2>1. control.pc = "bound" /\ control' = NextVisit(control) /\ ds' = ds
    BY <1>5 DEF BindFound, astVars
  <2>2. heap' = Release(hp, h)
    <3>1. heap' = Release([heap EXCEPT !.hook[h].bound =
                             @ \/ (k.profile = control.want /\ k.att = "attached")], h)
      BY <1>5 DEF BindFound
    <3> QED
      BY <3>1, Zenon
  <2>3. h \in HookIds /\ k \in Hooks /\ control.by = "bind"
    BY <2>1, AtHook, TypeFacts DEF Placed, HookPcs
  <2>4. b \in BOOLEAN
    BY <2>3, HookFields
  <2>5. hp \in Heaps /\ HeapWanes(heap, hp)
    <3> HIDE DEF b
    <3> QED
      BY <1>2, <2>3, <2>4, FlagWanes
  <2> HIDE DEF hp
  <2>6. HeapWanes(heap, heap')
    BY <2>2, <2>3, <2>5, ReleaseWanes, HeapWanesOn
  <2> QED
    BY <1>1, <2>1, <2>3, <2>6, DoneFollows
<1>6. CASE DetachChannel
  <2>1. PICK c \in control.todo :
          /\ ds' = [ds EXCEPT ![c] = 0]
          /\ control' = [control EXCEPT !.todo = @ \ {c}, !.hook = ds[c],
                                !.pc = IF ds[c] = 0 THEN "visit" ELSE "free"]
    BY <1>6 DEF DetachChannel
  <2>2. heap' = heap /\ control.by = "stop" /\ control.pc = "visit"
    BY <1>6 DEF DetachChannel
  <2>3. control'.by = "stop" /\ control'.graph = control.graph /\ control'.pc \in {"visit", "free"}
    BY <2>1, <2>2, TypeFacts DEF Controls
  <2>4. control.graph = NoGraph /\ \A c1 \in LinkChannels : ds'[c1] \in {0, ds[c1]}
    BY <2>1, <2>2, TypeFacts DEF Placed
  <2> QED
    BY <1>1, <1>2, <2>2, <2>3, <2>4, HeapWanesOn, Aside DEF InstallPcs
<1>7. CASE DetachFree
  <2>1. control.pc = "free" /\ heap' = DatastoreDestroy(heap, control.hook)
        /\ control' = NextVisit(control) /\ ds' = ds
    BY <1>7 DEF DetachFree, astVars
  <2>2. control.hook \in HookIds /\ control.by = "stop"
    BY <2>1, AtHook, TypeFacts DEF HookPcs, Placed
  <2>3. HeapWanes(heap, heap')
    BY <1>2, <2>1, <2>2, ReleaseWanes
  <2> QED
    BY <1>1, <2>1, <2>2, <2>3, DoneFollows
<1> QED
  BY <1>3, <1>4, <1>5, <1>6, <1>7

\* link_reload_unchanged leaves a hook that runs the candidate's graph alone.
LEMMA CompareFollows ==
    ASSUME LinkInv, FollowInv, VisitedInv, Compare
    PROVE  FollowInv' /\ VisitedInv'
<1> DEFINE h == control.hook
           k == heap.hook[h]
<1>1. /\ ds' = ds /\ chan' = chan /\ relink' = relink
      /\ config' = config /\ candidate' = candidate /\ strays' = strays
      /\ control.pc = "compare"
  BY DEF Compare, astVars, cfgVars
<1>2. \/ /\ k.active.desc = candidate[k.profile]
         /\ heap' = Release(heap, h) /\ control' = NextVisit(control)
      \/ control' = [control EXCEPT !.pc = "stage"] /\ heap' = heap
      \/ heap' = Release(heap, h) /\ control' = Failed(control)
  BY DEF Compare
<1>3. h \in HookIds /\ control.by = "reload" /\ heap \in Heaps /\ control \in Controls
  BY <1>1, AtHook, TypeFacts DEF HookPcs, Placed
<1>4. HeapWanes(heap, heap')
  BY <1>2, <1>3, ReleaseWanes, HeapWanesOn
<1>5. CASE heap' = Release(heap, h) /\ control' = Failed(control)
  BY <1>1, <1>3, <1>4, <1>5, DoneFollows
<1>6. CASE \/ /\ k.active.desc = candidate[k.profile]
              /\ heap' = Release(heap, h) /\ control' = NextVisit(control)
           \/ control' = [control EXCEPT !.pc = "stage"] /\ heap' = heap
  <2>1. /\ control'.by = "reload" /\ control'.todo = control.todo
        /\ control'.graph = NoGraph /\ control'.pc \in {"visit", "stage"}
        /\ control'.pc = "stage" => control'.hook = h
        /\ control'.pc = "visit" => k.active.desc = candidate[k.profile]
    <3>1. CASE control' = [control EXCEPT !.pc = "stage"]
      BY <3>1, <1>1, <1>3, AtPlace, PlaceNames, TypeFacts DEF Placed
    <3>2. CASE k.active.desc = candidate[k.profile] /\ control' = NextVisit(control)
      BY <3>2, <1>3, TypeFacts, NextVisitFacts DEF Onward
    <3> QED
      BY <1>6, <3>1, <3>2
  <2>2. ~relink.commit /\ \A i \in HookIds : Linked(i)' => Linked(i)
    BY <1>1, NoCommit DEF Linked, Up
  <2>3. FollowInv'
    BY <1>1, <1>4, <2>1, <2>2, QuietFollows DEF InstallPcs
  <2>4. \A i \in HookIds : RanBefore(heap.hook[i], heap'.hook[i])
    BY <1>4, WanesRan DEF HeapWanes
  <2>5. Up' = Up
    BY <1>1 DEF Up
  <2>6. VisitedInv'
    BY <1>1, <1>3, <2>1, <2>4, <2>5, TypeFacts, ReloadVisits
  <2> QED
    BY <2>3, <2>6
<1> QED
  BY <1>2, <1>5, <1>6

\* A hook with the candidate's graph staged.
StagedOf(k, g, r, n) ==
    /\ n.att = k.att /\ n.active = k.active /\ n.clock = k.clock /\ n.profile = k.profile
    /\ n.staged = g /\ n.stagedRate = r

StagedHeap(hp, h, g, r) ==
    [hp EXCEPT !.hook[h].pending = TRUE, !.hook[h].staged = g, !.hook[h].stagedRate = r]

\* Staging writes a hook's staged graph, its rate and its mark.
LEMMA StagedHook ==
    ASSUME NEW hp \in Heaps, NEW h \in HookIds, NEW g \in Graphs, NEW r \in LinkHz
    PROVE  LET hq == StagedHeap(hp, h, g, r)
           IN  /\ hq \in Heaps /\ StagedOf(hp.hook[h], g, r, hq.hook[h])
               /\ \A i \in HookIds : i # h => hq.hook[i] = hp.hook[i]
<1> DEFINE hq == StagedHeap(hp, h, g, r)
           t == TRUE
           k == hp.hook[h]
           k1 == [k EXCEPT !.pending = t]
           k2 == [k1 EXCEPT !.staged = g]
           k3 == [k2 EXCEPT !.stagedRate = r]
           h1 == [hp EXCEPT !.hook[h].pending = t]
           h2 == [h1 EXCEPT !.hook[h].staged = g]
           h3 == [h2 EXCEPT !.hook[h].stagedRate = r]
<1>1. k \in Hooks /\ t \in BOOLEAN
  BY HeapFields
<1>2. hq = h3
  BY Zenon DEF StagedHeap
<1> HIDE DEF t, hq
<1>3. k1 \in Hooks /\ StagedOf(k, k.staged, k.stagedRate, k1)
  BY <1>1 DEF Hooks, StagedOf
<1>4. k2 \in Hooks /\ StagedOf(k, g, k.stagedRate, k2)
  <2> HIDE DEF k1
  <2> QED
    BY <1>3 DEF Hooks, StagedOf
<1>5. k3 \in Hooks /\ StagedOf(k, g, r, k3)
  <2> HIDE DEF k2
  <2> QED
    BY <1>4 DEF Hooks, StagedOf
<1>6. h1 \in Heaps /\ h1.hook[h] = k1
      /\ \A i \in HookIds : i # h => h1.hook[i] = hp.hook[i]
  <2>1. \A v \in BOOLEAN : [hp EXCEPT !.hook[h].pending = v] =
                     Put(hp, h, [hp.hook[h] EXCEPT !.pending = v])
    BY PutFields
  <2>2. h1 = Put(hp, h, k1)
    BY <2>1, <1>1, Zenon
  <2> HIDE DEF h1, k1
  <2> QED
    BY <2>2, <1>3, PutFacts
<1> HIDE DEF h1
<1>7. h2 \in Heaps /\ h2.hook[h] = k2
      /\ \A i \in HookIds : i # h => h2.hook[i] = hp.hook[i]
  <2>1. h2 = Put(h1, h, k2)
    BY <1>6, PutFields
  <2> HIDE DEF h2, k2
  <2> QED
    BY <2>1, <1>4, <1>6, PutFacts
<1> HIDE DEF h2
<1>8. h3 \in Heaps /\ h3.hook[h] = k3
      /\ \A i \in HookIds : i # h => h3.hook[i] = hp.hook[i]
  <2>1. h3 = Put(h2, h, k3)
    BY <1>7, PutFields
  <2> HIDE DEF h3, k3
  <2> QED
    BY <2>1, <1>5, <1>7, PutFacts
<1> HIDE DEF h3, k1, k2, k3
<1> QED
  BY <1>2, <1>5, <1>8 DEF hq

\* The reload stages a graph of the candidate and keeps the hook.
LEMMA StageFollows ==
    ASSUME LinkInv, FollowInv, VisitedInv, Stage
    PROVE  FollowInv' /\ VisitedInv'
<1>0. PICK h \in HookIds : control.hook = h
  BY AtHook DEF Stage, HookPcs
<1> DEFINE k == heap.hook[h]
           g == GraphFor("reload", k.profile, control.hz)
           hp == StagedHeap(heap, h, g, control.hz)
<1>1. /\ ds' = ds /\ chan' = chan /\ config' = config /\ candidate' = candidate
      /\ strays' = strays /\ control.pc = "stage"
  BY DEF Stage, astVars, cfgVars
<1>2. \/ /\ heap' = Prepared(hp) /\ relink' = [relink EXCEPT !.hooks = @ \cup {h}]
         /\ control' = NextVisit(control)
      \/ heap' = Release(heap, h) /\ control' = Failed(control) /\ relink' = relink
  BY <1>0, Zenon DEF Stage, StagedHeap
<1>3. /\ control.by = "reload" /\ heap \in Heaps /\ control \in Controls
      /\ k.profile \in Profiles /\ control.hz \in LinkHz /\ Placed(control)
  BY <1>0, <1>1, AtHook, TypeFacts DEF HookPcs, Placed, Controls
<1>4. CASE heap' = Release(heap, h) /\ control' = Failed(control) /\ relink' = relink
  BY <1>0, <1>1, <1>3, <1>4, ReleaseWanes, DoneFollows
<1>5. CASE /\ heap' = Prepared(hp) /\ relink' = [relink EXCEPT !.hooks = @ \cup {h}]
           /\ control' = NextVisit(control)
  <2>1. /\ g \in Graphs /\ g.rate = control.hz /\ g.profile = k.profile
        /\ g.desc = candidate[k.profile]
    BY <1>3, GraphMade
  <2>2. /\ hp \in Heaps /\ StagedOf(k, g, control.hz, hp.hook[h])
        /\ \A i \in HookIds : i # h => hp.hook[i] = heap.hook[i]
    <3> HIDE DEF g
    <3> QED
      BY <2>1, <1>3, StagedHook
  <2> HIDE DEF hp, g
  <2>3. /\ StagedOf(k, g, control.hz, heap'.hook[h])
        /\ \A i \in HookIds : i # h => heap'.hook[i] = heap.hook[i]
    BY <1>5, <2>2, PreparedEffect
  <2>4. ~relink.commit /\ ~relink'.commit /\ relink'.hooks = relink.hooks \cup {h}
        /\ relink'.moved = relink.moved /\ relink'.pc = relink.pc
    BY <1>1, <1>5, NoCommit DEF Relinks
  <2>5. /\ control'.by = "reload" /\ control'.todo = control.todo /\ control'.pc = "visit"
        /\ control'.graph = NoGraph
    BY <1>3, <1>5, NextVisitFacts DEF Onward
  <2>6. "visit" \notin InstallPcs /\ Up' = Up /\ \A i \in HookIds : Linked(i)' <=> Linked(i)
    BY <1>1 DEF InstallPcs, Linked, Up
  <2>7. Committing /\ \A i \in HookIds : FollowHook(i)
    BY FollowParts
  <2>8. Committing' /\ Offered'
    BY <2>4, <2>5, <2>7 DEF Committing, Offered
  <2>9. ASSUME NEW i \in HookIds PROVE FollowHook(i)'
    <3>1. CASE i # h
      <4>1. FollowHook(i) /\ Wanes(heap.hook[i], heap'.hook[i])
        BY <2>3, <2>7, <3>1, WanesOn
      <4>2. i \in relink'.hooks => i \in relink.hooks
        BY <2>4, <3>1
      <4> QED
        BY <4>1, <4>2, <1>1, <2>4, <2>5, <2>6, HookWanes
    <3>2. CASE i = h
      <4>1. FollowHook(h) /\ (Follows(h)' <=> Follows(h)) /\ (Runs(h)' <=> Runs(h))
        BY <1>1, <2>3, <2>7 DEF StagedOf, Follows, Runs
      <4> QED
        BY <3>2, <4>1, <1>1, <2>1, <2>3, <2>4, <2>5, <2>6 DEF FollowHook, StagedOf
    <3> QED
      BY <3>1, <3>2
  <2>10. FollowInv'
    BY <2>8, <2>9 DEF FollowInv, Committing, Offered, FollowHook
  <2>11. \A i \in HookIds : RanBefore(heap.hook[i], heap'.hook[i])
    BY <2>3 DEF RanBefore, StagedOf
  <2>12. VisitedInv'
    BY <1>0, <1>1, <1>3, <2>4, <2>5, <2>6, <2>11, TypeFacts, ReloadVisits
  <2> QED
    BY <2>10, <2>12
<1> QED
  BY <1>2, <1>4, <1>5

\* The scanner's new graph comes from the published configuration.
LEMMA PrepareMissingFollows ==
    ASSUME LinkInv, FollowInv, VisitedInv, PrepareMissing
    PROVE  FollowInv' /\ VisitedInv'
<1> DEFINE h == control.hook
           k == heap.hook[h]
           profile == IF k.bound THEN k.profile ELSE control.want
           g == GraphFor("scan", profile, control.hz)
<1>1. /\ ds' = ds /\ chan' = chan /\ relink' = relink
      /\ config' = config /\ candidate' = candidate /\ strays' = strays
      /\ control.pc = "missing"
  BY DEF PrepareMissing, astVars, cfgVars
<1>2. \/ /\ control' = [control EXCEPT !.pc = "publish", !.graph = g]
         /\ heap' = Prepared(heap)
      \/ heap' = Release(heap, h) /\ control' = NextVisit(control)
  BY DEF PrepareMissing
<1>3. /\ h \in HookIds /\ control.by = "scan" /\ heap \in Heaps /\ control \in Controls
      /\ profile \in Profiles /\ control.hz \in LinkHz
  BY <1>1, AtHook, TypeFacts DEF HookPcs, Placed, Controls
<1>4. CASE heap' = Release(heap, h) /\ control' = NextVisit(control)
  BY <1>1, <1>3, <1>4, ReleaseWanes, DoneFollows
<1>5. CASE /\ control' = [control EXCEPT !.pc = "publish", !.graph = g]
           /\ heap' = Prepared(heap)
  <2>1. g.rate = control.hz /\ g.profile = profile /\ g.desc = config[profile]
    BY <1>3, GraphMade
  <2> HIDE DEF g, profile
  <2>2. control'.pc = "publish" /\ control'.graph = g /\ control'.hz = control.hz
        /\ control'.by = "scan"
    BY <1>3, <1>5 DEF Controls
  <2>3. HeapWanes(heap, heap')
    BY <1>3, <1>5, PreparedEffect, WanesOn DEF HeapWanes
  <2>4. ~relink.commit /\ Committing /\ \A i \in HookIds : FollowHook(i)
    BY <1>1, NoCommit, FollowParts
  <2>5. Committing' /\ Offered'
    BY <1>1, <2>1, <2>2, <2>4 DEF Committing, Offered
  <2>6. ASSUME NEW i \in HookIds PROVE FollowHook(i)'
    <3>1. FollowHook(i) /\ Wanes(heap.hook[i], heap'.hook[i])
      BY <2>3, <2>4 DEF HeapWanes
    <3>2. control'.pc \notin InstallPcs /\ (Linked(i)' => Linked(i))
      BY <1>1, <2>2 DEF InstallPcs, Linked, Up
    <3> QED
      BY <3>1, <3>2, <1>1, HookWanes
  <2>7. FollowInv'
    BY <2>5, <2>6 DEF FollowInv, Committing, Offered, FollowHook
  <2>8. VisitedInv'
    BY <2>2 DEF VisitedInv
  <2> QED
    BY <2>7, <2>8
<1> QED
  BY <1>2, <1>4, <1>5

\* A hook that was given a graph and the rate of its idle clock.
GivenOf(k, g, r, n) ==
    /\ n.att = k.att /\ n.active = g /\ n.clock = r /\ n.profile = k.profile
    /\ n.staged = k.staged /\ n.stagedRate = k.stagedRate

GivenHeap(hp, h, g, r) ==
    [hp EXCEPT !.hook[h].active = g, !.hook[h].clock = r]

\* Publishing writes a hook's graph and its idle clock.
LEMMA GivenHook ==
    ASSUME NEW hp \in Heaps, NEW h \in HookIds, NEW g \in Graphs, NEW r \in LinkHz
    PROVE  LET hq == GivenHeap(hp, h, g, r)
           IN  /\ hq \in Heaps /\ GivenOf(hp.hook[h], g, r, hq.hook[h])
               /\ \A i \in HookIds : i # h => hq.hook[i] = hp.hook[i]
<1> DEFINE hq == GivenHeap(hp, h, g, r)
           k == hp.hook[h]
           k1 == [k EXCEPT !.active = g]
           k2 == [k1 EXCEPT !.clock = r]
           h1 == [hp EXCEPT !.hook[h].active = g]
           h2 == [h1 EXCEPT !.hook[h].clock = r]
<1>1. k \in Hooks
  BY HeapFields
<1>2. hq = h2
  BY Zenon DEF GivenHeap
<1> HIDE DEF hq
<1>3. k1 \in Hooks /\ GivenOf(k, g, k.clock, k1)
  BY <1>1 DEF Hooks, GivenOf
<1>4. k2 \in Hooks /\ GivenOf(k, g, r, k2)
  <2> HIDE DEF k1
  <2> QED
    BY <1>3 DEF Hooks, GivenOf
<1>5. h1 \in Heaps /\ h1.hook[h] = k1
      /\ \A i \in HookIds : i # h => h1.hook[i] = hp.hook[i]
  <2>1. h1 = Put(hp, h, k1)
    BY PutFields
  <2> HIDE DEF h1, k1
  <2> QED
    BY <2>1, <1>3, PutFacts
<1> HIDE DEF h1
<1>6. h2 \in Heaps /\ h2.hook[h] = k2
      /\ \A i \in HookIds : i # h => h2.hook[i] = hp.hook[i]
  <2>1. h2 = Put(h1, h, k2)
    BY <1>5, PutFields
  <2> HIDE DEF h2, k2
  <2> QED
    BY <2>1, <1>4, <1>5, PutFacts
<1> HIDE DEF h2, k1, k2
<1> QED
  BY <1>2, <1>4, <1>6 DEF hq

\* The graph that a hook is given follows the configuration it was made from.
LEMMA PublishMissingFollows ==
    ASSUME LinkInv, FollowInv, VisitedInv, PublishMissing
    PROVE  FollowInv' /\ VisitedInv'
<1>0. PICK h \in HookIds : control.hook = h
  BY AtHook DEF PublishMissing, HookPcs
<1> DEFINE k == heap.hook[h]
           g == control.graph
           r == control.hz
           hp == GivenHeap(heap, h, g, r)
<1>1. /\ ds' = ds /\ chan' = chan /\ relink' = relink
      /\ config' = config /\ candidate' = candidate /\ strays' = strays
      /\ control.pc = "publish" /\ control' = NextVisit(control)
      /\ heap' = Release(IF k.att = "attached" THEN hp ELSE Destroyed(heap, g), h)
  BY <1>0, Zenon DEF PublishMissing, GivenHeap, astVars, cfgVars
<1>2. /\ control.by = "scan" /\ heap \in Heaps /\ control \in Controls
      /\ g \in Graphs /\ g # NoGraph /\ r \in LinkHz /\ Placed(control)
  BY <1>1, TypeFacts DEF Placed, Controls
<1>3. CASE k.att # "attached"
  <2>1. /\ Destroyed(heap, g) \in Heaps /\ HeapWanes(heap, Destroyed(heap, g))
    BY <1>2, DestroyedEffect, WanesOn DEF HeapWanes
  <2>2. HeapWanes(heap, heap')
    BY <1>0, <1>1, <1>3, <2>1, ReleaseWanes, HeapWanesOn
  <2> QED
    BY <1>1, <1>2, <2>2, DoneFollows
<1>4. CASE k.att = "attached"
  <2>1. /\ hp \in Heaps /\ GivenOf(k, g, r, hp.hook[h])
        /\ \A i \in HookIds : i # h => hp.hook[i] = heap.hook[i]
    BY <1>2, GivenHook
  <2> HIDE DEF hp
  <2>2. HeapWanes(hp, heap')
    BY <1>1, <1>4, <2>1, ReleaseWanes
  <2>3. /\ control'.by = "scan" /\ control'.pc = "visit" /\ control'.graph = NoGraph
    BY <1>1, <1>2, NextVisitFacts DEF Onward
  <2>4. ~relink.commit /\ Committing /\ Offered /\ \A i \in HookIds : FollowHook(i)
    BY <1>1, NoCommit, FollowParts
  <2>5. Committing' /\ Offered'
    BY <1>1, <2>3, <2>4 DEF Committing, Offered
  <2>6. "visit" \notin InstallPcs /\ \A i \in HookIds : Linked(i)' => Linked(i)
    BY <1>1 DEF InstallPcs, Linked, Up
  <2>7. ASSUME NEW i \in HookIds PROVE FollowHook(i)'
    <3>1. CASE i # h
      <4>1. FollowHook(i) /\ Wanes(heap.hook[i], heap'.hook[i])
        BY <2>1, <2>2, <2>4, <3>1 DEF HeapWanes
      <4> QED
        BY <4>1, <1>1, <2>3, <2>6, HookWanes
    <3>2. CASE i = h
      <4> DEFINE n == heap'.hook[h]
      <4>1. /\ n.active # NoGraph => n.active = g /\ n.clock = r
            /\ n.staged # NoGraph => n.staged = k.staged /\ n.stagedRate = k.stagedRate
        BY <2>1, <2>2 DEF HeapWanes, Wanes, GivenOf
      <4>2. g.desc = config[g.profile] /\ g.rate = r
        BY <2>4, <1>2 DEF Offered
      <4>3. n.active # NoGraph => Follows(h)'
        BY <4>1, <4>2, <1>1 DEF Follows
      <4>4. Runs(h)' => Follows(h)'
        BY <4>3 DEF Runs
      <4>5. FollowHook(h)
        BY <2>4
      <4> QED
        BY <3>2, <4>1, <4>2, <4>4, <4>5, <1>1, <2>3, <2>6 DEF FollowHook
    <3> QED
      BY <3>1, <3>2
  <2>8. FollowInv'
    BY <2>5, <2>7 DEF FollowInv, Committing, Offered, FollowHook
  <2>9. VisitedInv'
    BY <2>3 DEF VisitedInv
  <2> QED
    BY <2>8, <2>9
<1> QED
  BY <1>3, <1>4

\* A hook that is built runs or stages a graph of its operation's configuration.
LEMMA BuildHookFollows ==
    ASSUME LinkInv, FollowInv, VisitedInv, BuildHook
    PROVE  FollowInv' /\ VisitedInv'
<1> DEFINE w == control.want
           r == control.hz
           g == GraphFor(control.by, w, r)
           m == Mode(control.by)
           n == NewHook(w, r, g, m)
<1>1. /\ ds' = ds /\ chan' = chan /\ relink' = relink
      /\ config' = config /\ candidate' = candidate /\ strays' = strays
      /\ control.pc = "build"
  BY DEF BuildHook, astVars, cfgVars
<1>2. \/ \E h \in HookIds :
               /\ heap.hook[h].att = "unused"
               /\ heap' = Prepared([heap EXCEPT !.hook[h] = n])
               /\ control' = [control EXCEPT !.hook = h, !.pc = "add"]
      \/ control' = Failed(control) /\ heap' = heap
  BY DEF BuildHook
<1>3. /\ control \in Controls /\ Placed(control) /\ control.by \in {"scan", "reload", "bind"}
      /\ w \in Profiles /\ r \in LinkHz /\ heap \in Heaps /\ control.graph = NoGraph
  BY <1>1, TypeFacts DEF Placed, Controls
<1>4. CASE control' = Failed(control) /\ heap' = heap
  BY <1>1, <1>3, <1>4, HeapWanesOn, DoneFollows
<1>5. ASSUME NEW h \in HookIds, heap.hook[h].att = "unused",
             heap' = Prepared([heap EXCEPT !.hook[h] = n]),
             control' = [control EXCEPT !.hook = h, !.pc = "add"]
      PROVE  FollowInv' /\ VisitedInv'
  <2>1. /\ g \in Graphs /\ g # NoGraph /\ g.rate = r /\ g.profile = w
        /\ g.desc = (IF control.by = "reload" THEN candidate[w] ELSE config[w])
    BY <1>3, GraphMade
  <2>2. m = "staged" <=> control.by = "reload"
    BY <1>3 DEF Mode
  <2>3. /\ n \in Hooks /\ n.att = "building"
        /\ n.active = (IF m = "staged" THEN NoGraph ELSE g)
        /\ n.staged = (IF m = "staged" THEN g ELSE NoGraph)
        /\ n.stagedRate = r /\ n.clock = r /\ n.profile = w
    <3> HIDE DEF g, m
    <3> QED
      BY <1>3, <2>1, NewHookFacts
  <2> DEFINE hp == [heap EXCEPT !.hook[h] = n]
  <2> HIDE DEF n, m, g
  <2>4. /\ hp \in Heaps /\ hp.hook[h] = n
        /\ \A i \in HookIds : i # h => hp.hook[i] = heap.hook[i]
    <3>1. hp = Put(heap, h, n)
      BY <1>3, PutFields
    <3> HIDE DEF hp
    <3> QED
      BY <3>1, <1>3, <2>3, PutFacts
  <2>5. heap'.hook[h] = n /\ \A i \in HookIds : i # h => heap'.hook[i] = heap.hook[i]
    <3> HIDE DEF hp
    <3>1. heap' = Prepared(hp)
      BY <1>5 DEF hp
    <3> QED
      BY <3>1, <2>4, PreparedEffect
  <2> HIDE DEF hp
  <2>6. /\ control'.pc = "add" /\ control'.hook = h /\ control'.by = control.by
        /\ control'.todo = control.todo /\ control'.graph = NoGraph
    <3>1. Hooked(control, h, "add", [control EXCEPT !.hook = h, !.pc = "add"])
      BY <1>3, WithHook, PlaceNames, Zenon
    <3> QED
      BY <3>1, <1>3, <1>5 DEF Hooked
  <2>7. h \notin relink.hooks
    <3>1. HookInv(h) /\ (h \in relink.hooks => heap.hook[h].refs >= 1)
      BY OneHook
    <3> QED
      BY <3>1, <1>5 DEF HookInv
  <2>8. ~relink.commit /\ Committing /\ \A i \in HookIds : FollowHook(i)
    BY <1>1, NoCommit, FollowParts
  <2>9. Committing' /\ Offered'
    BY <1>1, <2>6, <2>8 DEF Committing, Offered
  <2>10. Up' = Up /\ \A i \in HookIds : Linked(i)' => Linked(i)
    BY <1>1 DEF Linked, Up
  <2>11. ASSUME NEW i \in HookIds PROVE FollowHook(i)'
    <3>1. CASE i # h
      <4>1. FollowHook(i) /\ Wanes(heap.hook[i], heap'.hook[i])
        BY <2>5, <2>8, <3>1, WanesOn
      <4> QED
        BY <4>1, <3>1, <1>1, <2>6, <2>10, HookWanes
    <3>2. CASE i = h
      <4>1. n.active # NoGraph => control.by # "reload" /\ Follows(h)'
        BY <1>1, <2>1, <2>2, <2>3, <2>5 DEF Follows
      <4>2. ~Runs(h)'
        BY <2>3, <2>5 DEF Runs
      <4> QED
        BY <3>2, <4>1, <4>2, <1>1, <2>1, <2>2, <2>3, <2>5, <2>6, <2>7 DEF FollowHook
    <3> QED
      BY <3>1, <3>2
  <2>12. FollowInv'
    BY <2>9, <2>11 DEF FollowInv, Committing, Offered, FollowHook
  <2>13. \A i \in HookIds : RanBefore(heap.hook[i], heap'.hook[i])
    BY <2>3, <2>5 DEF RanBefore
  <2>14. VisitedInv'
    BY <1>1, <2>6, <2>10, <2>13, TypeFacts, ReloadVisits
  <2> QED
    BY <2>12, <2>14
<1> QED
  BY <1>2, <1>4, <1>5

\* What an installation may do to its own hook.
Carries(k, n) ==
    /\ n.active # NoGraph => n.active = k.active /\ n.clock = k.clock /\ n.profile = k.profile
    /\ n.staged # NoGraph => n.staged = k.staged /\ n.stagedRate = k.stagedRate

\* The next step of an installation: the hook it builds may become bound,
\* listed or attached, with the graph it was built with.
LEMMA InstallGoesOn ==
    ASSUME LinkInv, FollowInv, VisitedInv, NEW h \in HookIds, control.hook = h,
           control.pc \in InstallPcs,
           UNCHANGED <<config, candidate, strays, relink, chan>>,
           \A i \in HookIds : i # h => Wanes(heap.hook[i], heap'.hook[i]),
           Carries(heap.hook[h], heap'.hook[h]),
           \A c \in LinkChannels : ds'[c] \in {h, ds[c]},
           NEW pc \in InstallPcs, control' = [control EXCEPT !.pc = pc]
    PROVE  FollowInv' /\ VisitedInv'
<1> DEFINE k == heap.hook[h]
           n == heap'.hook[h]
<1>1. /\ n.active # NoGraph => n.active = k.active /\ n.clock = k.clock /\ n.profile = k.profile
      /\ n.staged # NoGraph => n.staged = k.staged /\ n.stagedRate = k.stagedRate
  BY DEF Carries
<1>2. /\ control'.pc = pc /\ control'.hook = h /\ control'.by = control.by
      /\ control'.todo = control.todo /\ control'.graph = control.graph
      /\ control'.hz = control.hz
  BY TypeFacts DEF Controls
<1>3. control.pc # "finish" /\ control.pc \notin {"compare", "stage"}
  BY DEF InstallPcs
<1>4. ~relink.commit /\ Committing /\ Offered /\ \A i \in HookIds : FollowHook(i)
  BY <1>3, NoCommit, FollowParts
<1>5. Committing' /\ Offered'
  BY <1>2, <1>4 DEF Committing, Offered
<1>6. Up' = Up /\ h # 0
  BY TypeFacts DEF Up
<1>7. n.active # NoGraph => control.by # "reload" /\ Follows(h)'
  <2>1. n.active # NoGraph => control.by # "reload" /\ Follows(h)
    BY <1>1, <1>4 DEF FollowHook
  <2> QED
    BY <1>1, <2>1 DEF Follows
<1>8. ASSUME NEW i \in HookIds PROVE FollowHook(i)'
  <2>1. CASE i # h
    <3>1. FollowHook(i) /\ Wanes(heap.hook[i], heap'.hook[i])
      BY <1>4, <2>1
    <3>2. Linked(i)' => Linked(i)
      BY <1>6, <2>1, TypeFacts DEF Linked
    <3> QED
      BY <3>1, <3>2, <2>1, <1>2, HookWanes
  <2>2. CASE i = h
    <3>1. FollowHook(h)
      BY <1>4
    <3>2. Runs(h)' => Follows(h)'
      BY <1>7 DEF Runs
    <3> QED
      BY <2>2, <3>1, <3>2, <1>1, <1>2, <1>7 DEF FollowHook
  <2> QED
    BY <2>1, <2>2
<1>9. FollowInv'
  BY <1>5, <1>8 DEF FollowInv, Committing, Offered, FollowHook
<1>10. control.by = "reload" => n.active = NoGraph
  BY <1>7
<1>11. ASSUME NEW i \in HookIds, control.by = "reload"
       PROVE  RanBefore(heap.hook[i], heap'.hook[i])
  BY <1>10, <1>11, WanesRan DEF RanBefore
<1>12. ASSUME NEW c \in Up' \ control'.todo, control.by = "reload"
       PROVE  \/ heap'.hook[ds'[c]].active = NoGraph
              \/ ds'[c] = ds[c] /\ c \in Up \ control.todo
  BY <1>2, <1>6, <1>10, <1>12, TypeFacts
<1>13. VisitedInv'
  BY <1>2, <1>3, <1>11, <1>12, TypeFacts, ReloadVisits
<1> QED
  BY <1>9, <1>13

\* Adding the datastore of a hook that is being installed.
LEMMA AddDatastoreFollows ==
    ASSUME LinkInv, FollowInv, VisitedInv, AddDatastore
    PROVE  FollowInv' /\ VisitedInv'
<1>0. PICK h \in HookIds : control.hook = h
  BY AtHook DEF AddDatastore, HookPcs, InstallPcs
<1>1. /\ chan' = chan /\ relink' = relink
      /\ config' = config /\ candidate' = candidate /\ strays' = strays
      /\ control.pc = "add"
  BY DEF AddDatastore, cfgVars
<1>2. /\ control.by \in {"scan", "reload", "bind"} /\ heap \in Heaps
      /\ control.at \in LinkChannels
  BY <1>1, TypeFacts DEF Placed, InstallPcs
<1>3. CASE ds[control.at] = 0
  <2>1. /\ ds' = [ds EXCEPT ![control.at] = h]
        /\ control' = [control EXCEPT !.pc = "attach"] /\ heap' = heap
    BY <1>0, <1>3 DEF AddDatastore
  <2>2. \A c \in LinkChannels : ds'[c] \in {h, ds[c]}
    BY <2>1, <1>2, TypeFacts
  <2>3. "add" \in InstallPcs /\ "attach" \in InstallPcs
    BY DEF InstallPcs
  <2>4. Carries(heap.hook[h], heap'.hook[h])
    BY <2>1 DEF Carries
  <2> QED
    BY <1>0, <1>1, <2>1, <2>2, <2>3, <2>4, WanesOn, InstallGoesOn
<1>4. CASE ds[control.at] # 0
  <2>1. /\ heap' = Release(DatastoreDestroy(heap, h), h)
        /\ control' = NextVisit(control) /\ ds' = ds
    BY <1>0, <1>4 DEF AddDatastore
  <2>2. HeapWanes(heap, heap')
    BY <1>0, <1>2, <2>1, ReleaseWanes, HeapWanesOn
  <2> QED
    BY <1>1, <1>2, <2>1, <2>2, DoneFollows
<1> QED
  BY <1>3, <1>4

\* Attaching it.
LEMMA AttachAudiohookFollows ==
    ASSUME LinkInv, FollowInv, VisitedInv, AttachAudiohook
    PROVE  FollowInv' /\ VisitedInv'
<1>0. PICK h \in HookIds : control.hook = h
  BY AtHook DEF AttachAudiohook, HookPcs, InstallPcs
<1> DEFINE here == ds[control.at] = h
<1>1. /\ chan' = chan /\ relink' = relink
      /\ config' = config /\ candidate' = candidate /\ strays' = strays
      /\ control.pc = "attach"
      /\ \/ /\ heap' = [heap EXCEPT !.hook[h].listed = TRUE]
            /\ control' = [control EXCEPT !.pc = "cas"] /\ ds' = ds
         \/ /\ heap' = Release(IF here THEN DatastoreDestroy(heap, h) ELSE heap, h)
            /\ ds' = IF here THEN [ds EXCEPT ![control.at] = 0] ELSE ds
            /\ control' = Failed(control)
  BY <1>0 DEF AttachAudiohook, cfgVars
<1>2. /\ control.by \in {"scan", "reload", "bind"} /\ heap \in Heaps
      /\ control.at \in LinkChannels
  BY <1>1, TypeFacts DEF Placed, InstallPcs
<1>3. CASE /\ heap' = [heap EXCEPT !.hook[h].listed = TRUE]
           /\ control' = [control EXCEPT !.pc = "cas"] /\ ds' = ds
  <2>1. HeapWanes(heap, heap')
    <3>1. \A b \in BOOLEAN : HeapWanes(heap, [heap EXCEPT !.hook[h].listed = b])
      BY <1>0, <1>2, FlagWanes
    <3>2. TRUE \in BOOLEAN
      OBVIOUS
    <3> QED
      BY <3>1, <3>2, <1>3, Zenon
  <2>2. "attach" \in InstallPcs /\ "cas" \in InstallPcs
    BY DEF InstallPcs
  <2>3. Carries(heap.hook[h], heap'.hook[h])
    BY <1>0, <2>1 DEF Carries, HeapWanes, Wanes
  <2>4. \A i \in HookIds : Wanes(heap.hook[i], heap'.hook[i])
    BY <2>1 DEF HeapWanes
  <2>5. control' = [control EXCEPT !.pc = "cas"] /\ ds' = ds
    BY <1>3
  <2> QED
    BY <1>0, <1>1, <2>5, <2>2, <2>3, <2>4, InstallGoesOn
<1>4. CASE /\ heap' = Release(IF here THEN DatastoreDestroy(heap, h) ELSE heap, h)
           /\ ds' = IF here THEN [ds EXCEPT ![control.at] = 0] ELSE ds
           /\ control' = Failed(control)
  <2>1. HeapWanes(heap, heap')
    <3>1. CASE here
      BY <3>1, <1>0, <1>2, <1>4, ReleaseWanes, HeapWanesOn
    <3>2. CASE ~here
      BY <3>2, <1>0, <1>2, <1>4, ReleaseWanes
    <3> QED
      BY <3>1, <3>2
  <2>2. \A c \in LinkChannels : ds'[c] \in {0, ds[c]}
    BY <1>2, <1>4, TypeFacts
  <2> QED
    BY <1>1, <1>2, <1>4, <2>1, <2>2, DoneFollows
<1> QED
  BY <1>1, <1>3, <1>4

\* Publishing that it is attached, or finding that Asterisk detached it.
LEMMA PublishAttachedFollows ==
    ASSUME LinkInv, FollowInv, VisitedInv, PublishAttached
    PROVE  FollowInv' /\ VisitedInv'
<1>0. PICK h \in HookIds : control.hook = h
  BY AtHook DEF PublishAttached, HookPcs, InstallPcs
<1> DEFINE k == heap.hook[h]
<1>1. /\ ds' = ds /\ chan' = chan /\ relink' = relink
      /\ config' = config /\ candidate' = candidate /\ strays' = strays
      /\ control.pc = "cas"
      /\ \/ /\ heap' = [heap EXCEPT !.hook[h].att = "attached"]
            /\ control' = [control EXCEPT !.pc = "lease"]
         \/ heap' = Release(Balanced(heap, h), h) /\ control' = Failed(control)
  BY <1>0 DEF PublishAttached, astVars, cfgVars
<1>2. /\ control.by \in {"scan", "reload", "bind"} /\ heap \in Heaps /\ k \in Hooks
  BY <1>0, <1>1, TypeFacts DEF Placed, InstallPcs
<1>3. CASE /\ heap' = [heap EXCEPT !.hook[h].att = "attached"]
           /\ control' = [control EXCEPT !.pc = "lease"]
  <2> DEFINE n == [k EXCEPT !.att = "attached"]
  <2>1. n \in Hooks /\ Carries(k, n)
    BY <1>2 DEF Hooks, Carries
  <2>2. heap' = Put(heap, h, n)
    BY <1>0, <1>2, <1>3, PutFields
  <2> HIDE DEF n
  <2>3. heap'.hook[h] = n /\ \A i \in HookIds : i # h => heap'.hook[i] = heap.hook[i]
    BY <1>0, <1>2, <2>1, <2>2, PutFacts
  <2>4. "cas" \in InstallPcs /\ "lease" \in InstallPcs
    BY DEF InstallPcs
  <2>5. /\ Carries(heap.hook[h], heap'.hook[h])
        /\ \A i \in HookIds : i # h => Wanes(heap.hook[i], heap'.hook[i])
    BY <2>1, <2>3, WanesOn
  <2>6. control' = [control EXCEPT !.pc = "lease"]
    BY <1>3
  <2> QED
    BY <1>0, <1>1, <2>4, <2>5, <2>6, InstallGoesOn
<1>4. CASE heap' = Release(Balanced(heap, h), h) /\ control' = Failed(control)
  <2>1. Balanced(heap, h) \in Heaps /\ HeapWanes(heap, Balanced(heap, h))
    <3>1. \A b \in BOOLEAN : /\ [heap EXCEPT !.hook[h].listed = b] \in Heaps
                             /\ HeapWanes(heap, [heap EXCEPT !.hook[h].listed = b])
      BY <1>0, <1>2, FlagWanes
    <3>2. FALSE \in BOOLEAN
      OBVIOUS
    <3> QED
      BY <3>1, <3>2, Zenon DEF Balanced
  <2>2. HeapWanes(heap, heap')
    BY <1>0, <1>4, <2>1, ReleaseWanes, HeapWanesOn
  <2> QED
    BY <1>1, <1>2, <1>4, <2>2, DoneFollows
<1> QED
  BY <1>1, <1>3, <1>4

\* Taking its lease.
LEMMA InstallLeaseFollows ==
    ASSUME LinkInv, FollowInv, VisitedInv, InstallLease
    PROVE  FollowInv' /\ VisitedInv'
<1>0. PICK h \in HookIds : control.hook = h
  BY AtHook DEF InstallLease, HookPcs, InstallPcs
<1>1. /\ ds' = ds /\ chan' = chan /\ relink' = relink
      /\ config' = config /\ candidate' = candidate /\ strays' = strays
      /\ control.pc = "lease"
      /\ heap' = Retain(heap, h) \/ heap' = heap
      /\ \E pc \in {"done", "unwind"} : control' = [control EXCEPT !.pc = pc]
  BY <1>0 DEF InstallLease, cfgVars
<1>2. HeapWanes(heap, heap')
  BY <1>0, <1>1, TypeFacts, ReleaseWanes, HeapWanesOn
<1>3. Carries(heap.hook[h], heap'.hook[h]) /\ \A i \in HookIds : Wanes(heap.hook[i], heap'.hook[i])
  BY <1>0, <1>2 DEF Carries, HeapWanes, Wanes
<1>4. PICK pc \in {"done", "unwind"} : control' = [control EXCEPT !.pc = pc]
  BY <1>1
<1>5. pc \in InstallPcs /\ control.pc \in InstallPcs
  BY <1>1, <1>4 DEF InstallPcs
<1> QED
  BY <1>0, <1>1, <1>3, <1>4, <1>5, InstallGoesOn

\* Undoing an installation.
LEMMA UnwindFollows ==
    ASSUME LinkInv, FollowInv, VisitedInv, Unwind
    PROVE  FollowInv' /\ VisitedInv'
<1>0. PICK h \in HookIds : control.hook = h
  BY AtHook DEF Unwind, HookPcs, InstallPcs
<1> DEFINE at == control.at
<1>1. /\ chan' = chan /\ relink' = relink
      /\ config' = config /\ candidate' = candidate /\ strays' = strays
      /\ control.pc = "unwind" /\ control' = Failed(control)
      /\ ds' = [ds EXCEPT ![at] = 0]
      /\ heap' = Release(IF ds[at] # 0 THEN DatastoreDestroy(heap, ds[at]) ELSE heap, h)
  BY <1>0 DEF Unwind, cfgVars
<1>2. /\ control.by \in {"scan", "reload", "bind"} /\ heap \in Heaps
      /\ at \in LinkChannels /\ ds[at] \in HookIds \cup {0}
  BY <1>1, TypeFacts DEF Placed, InstallPcs
<1>3. HeapWanes(heap, heap')
  <2>1. CASE ds[at] = 0
    BY <2>1, <1>0, <1>1, <1>2, ReleaseWanes
  <2>2. CASE ds[at] # 0
    BY <2>2, <1>0, <1>1, <1>2, ReleaseWanes, HeapWanesOn
  <2> QED
    BY <2>1, <2>2
<1>4. \A c \in LinkChannels : ds'[c] \in {0, ds[c]}
  BY <1>1, <1>2, TypeFacts
<1> QED
  BY <1>1, <1>2, <1>3, <1>4, DoneFollows

\* A hook that the reload built joins its transaction.
LEMMA InstalledFollows ==
    ASSUME LinkInv, FollowInv, VisitedInv, Installed
    PROVE  FollowInv' /\ VisitedInv'
<1>0. PICK h \in HookIds : control.hook = h
  BY AtHook DEF Installed, HookPcs, InstallPcs
<1>1. /\ ds' = ds /\ chan' = chan /\ control' = NextVisit(control)
      /\ config' = config /\ candidate' = candidate /\ strays' = strays
      /\ control.pc = "done"
  BY DEF Installed, astVars, cfgVars
<1>2. /\ control.by \in {"scan", "reload", "bind"} /\ heap \in Heaps
      /\ control \in Controls /\ Placed(control)
  BY <1>1, TypeFacts DEF Placed, InstallPcs
<1>3. CASE control.by # "reload"
  <2>1. relink' = relink /\ heap' = Release(heap, h)
    BY <1>0, <1>3 DEF Installed
  <2>2. HeapWanes(heap, heap')
    BY <1>0, <1>2, <2>1, ReleaseWanes
  <2> QED
    BY <1>1, <1>2, <2>1, <2>2, DoneFollows
<1>4. CASE control.by = "reload"
  <2>1. relink' = [relink EXCEPT !.hooks = @ \cup {h}] /\ heap' = heap
    BY <1>0, <1>4 DEF Installed
  <2>2. ~relink.commit /\ ~relink'.commit /\ relink'.hooks = relink.hooks \cup {h}
        /\ relink'.moved = relink.moved /\ relink'.pc = relink.pc
    BY <1>1, <2>1, NoCommit DEF Relinks
  <2>3. /\ control'.by = "reload" /\ control'.todo = control.todo /\ control'.pc = "visit"
        /\ control'.graph = NoGraph
    BY <1>1, <1>2, <1>4, NextVisitFacts DEF Onward
  <2>4. Committing /\ \A i \in HookIds : FollowHook(i)
    BY FollowParts
  <2>5. Committing' /\ Offered'
    BY <2>2, <2>3, <2>4 DEF Committing, Offered
  <2>6. "visit" \notin InstallPcs /\ "done" \in InstallPcs /\ Up' = Up
        /\ \A i \in HookIds : Linked(i)' <=> Linked(i)
    BY <1>1 DEF InstallPcs, Linked, Up
  <2>7. ASSUME NEW i \in HookIds PROVE FollowHook(i)'
    <3>1. FollowHook(i) /\ (Follows(i)' <=> Follows(i)) /\ (Runs(i)' <=> Runs(i))
      BY <1>1, <2>1, <2>4 DEF Follows, Runs
    <3>2. i \in relink'.hooks =>
             (heap.hook[i].staged # NoGraph =>
                 heap.hook[i].staged.desc = candidate[heap.hook[i].staged.profile])
      BY <3>1, <1>0, <1>1, <1>4, <2>2, <2>6 DEF FollowHook
    <3> QED
      BY <3>1, <3>2, <1>1, <2>1, <2>2, <2>3, <2>6 DEF FollowHook
  <2>8. FollowInv'
    BY <2>5, <2>7 DEF FollowInv, Committing, Offered, FollowHook
  <2>9. \A i \in HookIds : RanBefore(heap.hook[i], heap'.hook[i])
    BY <2>1 DEF RanBefore
  <2>10. VisitedInv'
    BY <1>1, <1>4, <2>2, <2>3, <2>6, <2>9, TypeFacts, ReloadVisits
  <2> QED
    BY <2>8, <2>10
<1> QED
  BY <1>3, <1>4

\* A reload begins, stages nothing yet, or is over.
LEMMA ReloadTurns ==
    ASSUME LinkInv, FollowInv, VisitedInv, ReloadGate \/ ReloadStage \/ ReloadEnd
    PROVE  FollowInv' /\ VisitedInv'
<1>1. /\ ds' = ds /\ chan' = chan /\ heap' = heap /\ config' = config /\ strays' = strays
  BY DEF ReloadGate, ReloadStage, ReloadEnd, astVars
<1>2. /\ relink.hooks = {} /\ control \in Controls /\ relink \in Relinks
  BY TypeFacts DEF ReloadGate, ReloadStage, ReloadEnd, LifeInv
<1>3. Committing /\ Offered /\ \A h \in HookIds : FollowHook(h)
  BY FollowParts
<1>4. /\ relink'.hooks = {}
      /\ relink'.commit => relink.commit /\ relink'.pc # "idle" /\ control' = control
  <2>1. CASE ReloadGate
    BY <2>1, <1>2, <1>3 DEF ReloadGate, Relinks, Committing
  <2>2. CASE ReloadStage
    <3>1. ~relink.commit
      BY <2>2, <1>3, TypeFacts DEF ReloadStage, Committing, LifeInv, Placed
    <3> QED
      BY <2>2, <3>1, <1>2 DEF ReloadStage, Relinks
  <2>3. CASE ReloadEnd
    BY <2>3 DEF ReloadEnd, NoReload
  <2> QED
    BY <2>1, <2>2, <2>3
<1>5. /\ \/ control' = control /\ control.by # "reload"
         \/ /\ control'.graph = NoGraph /\ control'.pc = "visit"
            /\ control'.by = "reload" => control'.todo = Up
  <2>1. CASE ReloadGate
    BY <2>1, TypeFacts DEF ReloadGate, LifeInv
  <2>2. CASE ReloadStage
    <3>1. Up \in SUBSET LinkChannels
      BY TypeFacts
    <3> QED
      BY <2>2, <3>1, TypeFacts, OperationFacts DEF ReloadStage, LifeInv
  <2>3. CASE ReloadEnd
    BY <2>3, FreeFacts DEF ReloadEnd
  <2> QED
    BY <2>1, <2>2, <2>3
<1>6. relink.pc = "gated" \/ relink.pc = "idle" => ~relink.commit
  BY <1>3, TypeFacts DEF Committing, LifeInv, Placed
<1>7. Committing'
  <2>1. ~relink'.commit
    BY <1>2, <1>6, FreeFacts DEF ReloadGate, ReloadStage, ReloadEnd, NoReload, Relinks
  <2> QED
    BY <2>1 DEF Committing
<1>8. Offered'
  BY <1>1, <1>3, <1>5 DEF Offered
<1>9. "visit" \notin InstallPcs /\ Up' = Up
  BY <1>1 DEF InstallPcs, Up
<1>10. ASSUME NEW h \in HookIds PROVE FollowHook(h)'
  <2>1. FollowHook(h) /\ Wanes(heap.hook[h], heap'.hook[h]) /\ (Linked(h)' => Linked(h))
    BY <1>1, <1>3, <1>9, WanesOn DEF Linked
  <2>2. h \notin relink'.hooks /\ h \notin relink.hooks
    BY <1>2, <1>4
  <2> QED
    BY <2>1, <2>2, <1>1, <1>5, <1>9, HookWanes
<1>11. FollowInv'
  BY <1>7, <1>8, <1>10 DEF FollowInv, Committing, Offered, FollowHook
<1>12. VisitedInv'
  BY <1>5, <1>9 DEF VisitedInv
<1> QED
  BY <1>11, <1>12

\* The decision reaches every linked hook that was visited and has not moved.
LEMMA ReloadDecideFollows ==
    ASSUME LinkInv, FollowInv, VisitedInv, ReloadDecide
    PROVE  FollowInv' /\ VisitedInv'
<1>1. /\ ds' = ds /\ chan' = chan /\ heap' = heap /\ candidate' = candidate
      /\ control.by = "reload" /\ control.pc = "visit" /\ control.todo = {}
      /\ control' = [control EXCEPT !.pc = "finish"]
      /\ \/ /\ relink' = [relink EXCEPT !.commit = TRUE] /\ config' = candidate
            /\ strays' = relink.moved
         \/ UNCHANGED <<relink, config, strays>>
  BY DEF ReloadDecide, astVars
<1>2. /\ control'.pc = "finish" /\ control'.by = "reload" /\ control'.graph = NoGraph
      /\ control'.hook = 0 /\ relink.pc = "staging"
  BY <1>1, AtPlace, PlaceNames, TypeFacts DEF Placed, LifeInv, HookPcs, InstallPcs
<1>3. VisitedInv'
  BY <1>2 DEF VisitedInv
<1>4. Committing /\ Offered /\ \A h \in HookIds : FollowHook(h)
  BY FollowParts
<1>5. relink'.hooks = relink.hooks /\ relink'.pc = "staging" /\ Up' = Up
  BY <1>1, <1>2, TypeFacts DEF Relinks, Up
<1>6. "finish" \notin InstallPcs /\ ~relink.commit
  BY <1>1, NoCommit DEF InstallPcs
<1>7. CASE UNCHANGED <<relink, config, strays>>
  BY <1>1, <1>2, <1>3, <1>5, <1>6, <1>7, HeapWanesOn, QuietFollows DEF Linked
<1>8. CASE /\ relink' = [relink EXCEPT !.commit = TRUE] /\ config' = candidate
           /\ strays' = relink.moved
  <2>1. Committing' /\ Offered'
    BY <1>1, <1>2, <1>5, <1>8 DEF Committing, Offered
  <2>2. relink'.commit
    <3>1. relink' = [pc |-> relink.pc, hooks |-> relink.hooks, commit |-> TRUE,
                     moved |-> relink.moved]
      BY <1>8, TypeFacts DEF Relinks
    <3> QED
      BY <3>1
  <2>3. ASSUME NEW h \in HookIds PROVE FollowHook(h)'
    <3>1. FollowHook(h) /\ (Runs(h)' <=> Runs(h)) /\ (Linked(h)' <=> Linked(h))
      BY <1>1, <1>4, <1>5 DEF Runs, Linked
    <3>2. ASSUME Runs(h), Linked(h), h \notin relink.moved
          PROVE  Follows(h)' \/ h \in relink.hooks
      <4>1. PICK c \in Up : ds[c] = h
        BY <3>2 DEF Linked
      <4>2. h # 0 /\ c \in Up \ control.todo
        BY <1>1, <4>1, TypeFacts
      <4>3. \/ h \in relink.hooks
            \/ heap.hook[h].active.desc = candidate[heap.hook[h].profile]
        BY <1>1, <3>2, <4>1, <4>2 DEF VisitedInv
      <4> QED
        BY <4>3, <1>1, <1>8 DEF Follows
    <3> QED
      BY <3>1, <3>2, <1>1, <1>2, <1>5, <1>6, <1>8, <2>2 DEF FollowHook
  <2>4. FollowInv'
    BY <2>1, <2>3 DEF FollowInv, Committing, Offered, FollowHook
  <2> QED
    BY <2>4, <1>3
<1> QED
  BY <1>1, <1>7, <1>8

\* Each hook of a committed reload takes its graph, or runs none afterwards.
LEMMA FinishHookFollows ==
    ASSUME LinkInv, FollowInv, VisitedInv, FinishHook
    PROVE  FollowInv' /\ VisitedInv'
<1>0. PICK h \in relink.hooks, adopts \in BOOLEAN :
         /\ adopts <=> relink.commit /\ heap.hook[h].att = "attached"
         /\ heap' = Release(
               IF adopts THEN Destroyed(Adopted(heap, h), heap.hook[h].active)
               ELSE Destroyed(Taken(heap, h), heap.hook[h].staged), h)
         /\ relink' = [relink EXCEPT !.hooks = @ \ {h}]
  <2>1. PICK h \in relink.hooks :
          LET k == heap.hook[h]
              adopts == relink.commit /\ k.att = "attached"
          IN  /\ heap' = Release(
                    IF adopts THEN Destroyed(Adopted(heap, h), k.active)
                    ELSE Destroyed(Taken(heap, h), k.staged), h)
              /\ relink' = [relink EXCEPT !.hooks = @ \ {h}]
    BY DEF FinishHook
  <2>2. (relink.commit /\ heap.hook[h].att = "attached") \in BOOLEAN
    OBVIOUS
  <2> QED
    BY <2>1, <2>2, Zenon
<1>1. /\ ds' = ds /\ chan' = chan /\ config' = config /\ candidate' = candidate
      /\ strays' = strays /\ control' = control
      /\ control.by = "reload" /\ control.pc = "finish"
  BY DEF FinishHook, astVars, cfgVars
<1>2. /\ h \in HookIds /\ relink \in Relinks /\ heap \in Heaps /\ control.hook = 0
      /\ control.graph = NoGraph
  BY <1>0, <1>1, TypeFacts DEF Relinks, Placed, HookPcs, InstallPcs
<1> DEFINE k == heap.hook[h]
           hq == IF adopts THEN Destroyed(Adopted(heap, h), k.active)
                 ELSE Destroyed(Taken(heap, h), k.staged)
<1>3. /\ hq \in Heaps /\ Settled(k, hq.hook[h])
      /\ \A i \in HookIds : i # h => hq.hook[i] = heap.hook[i]
      /\ adopts => hq.hook[h].active = k.staged /\ hq.hook[h].clock = k.stagedRate
      /\ ~adopts => hq.hook[h].active = k.active /\ hq.hook[h].clock = k.clock
  <2> DEFINE q == hq
  <2>1. q = IF adopts THEN Destroyed(Adopted(heap, h), k.active)
                 ELSE Destroyed(Taken(heap, h), k.staged)
    OBVIOUS
  <2> HIDE DEF q
  <2>2. /\ q \in Heaps /\ Settled(k, q.hook[h])
        /\ \A i \in HookIds : i # h => q.hook[i] = heap.hook[i]
        /\ adopts => q.hook[h].active = k.staged /\ q.hook[h].clock = k.stagedRate
        /\ ~adopts => q.hook[h].active = k.active /\ q.hook[h].clock = k.clock
    BY <2>1, <1>2, FinishedHook
  <2> QED
    BY <2>2 DEF q
<1>4. heap' = Release(hq, h)
  BY <1>0
<1> HIDE DEF hq
<1>5. HeapWanes(hq, heap')
  BY <1>2, <1>3, <1>4, ReleaseWanes
<1>6. relink'.hooks = relink.hooks \ {h} /\ relink'.pc = relink.pc
      /\ (relink'.commit <=> relink.commit)
  BY <1>0, <1>2 DEF Relinks
<1>7. Committing /\ Offered /\ \A i \in HookIds : FollowHook(i)
  BY FollowParts
<1>8. Committing' /\ Offered'
  BY <1>1, <1>6, <1>7 DEF Committing, Offered
<1>9. \A i \in HookIds : Linked(i)' <=> Linked(i)
  BY <1>1 DEF Linked, Up
<1>10. "finish" \notin InstallPcs
  BY DEF InstallPcs
<1>11. ASSUME NEW i \in HookIds PROVE FollowHook(i)'
  <2>1. CASE i # h
    <3>1. FollowHook(i) /\ Wanes(heap.hook[i], heap'.hook[i])
      BY <1>3, <1>5, <1>7, <2>1 DEF HeapWanes
    <3>2. /\ i \in relink'.hooks => i \in relink.hooks
          /\ relink.commit /\ i \in relink.hooks => relink'.commit /\ i \in relink'.hooks
      BY <1>6, <2>1
    <3> QED
      BY <3>1, <3>2, <1>1, <1>9, <1>10, HookWanes
  <2>2. CASE i = h
    <3> DEFINE n == heap'.hook[h]
               m == hq.hook[h]
    <3>1. FollowHook(h) /\ Wanes(m, n)
      BY <1>2, <1>5, <1>7 DEF HeapWanes
    <3>2. m.att = k.att /\ m.profile = k.profile /\ m.staged = NoGraph
      BY <1>3 DEF Settled
    <3>3. n.staged = NoGraph
      BY <3>1, <3>2 DEF Wanes
    <3>4. n.active # NoGraph => n.clock = n.active.rate
      BY <3>1, <1>0, <1>3 DEF Wanes, FollowHook
    <3>5. ASSUME Runs(h)', Linked(h)', h \notin strays' PROVE Follows(h)'
      <4>1. n.att = "attached" /\ n.active # NoGraph
        BY <3>5 DEF Runs
      <4>2. n.active = m.active /\ n.profile = k.profile /\ k.att = "attached"
        BY <3>1, <3>2, <4>1 DEF Wanes
      <4>3. CASE adopts
        <5>1. n.active = k.staged /\ k.staged.desc = candidate[k.staged.profile]
          BY <3>1, <4>1, <4>2, <4>3, <1>0, <1>3 DEF FollowHook
        <5>2. config = candidate
          BY <1>0, <1>7, <4>3 DEF Committing
        <5> QED
          BY <5>1, <5>2, <1>1 DEF Follows
      <4>4. CASE ~adopts
        <5>1. ~relink.commit /\ n.active = k.active
          BY <4>2, <4>4, <1>0, <1>3
        <5>2. Runs(h) /\ Linked(h) /\ h \notin strays
          BY <4>1, <4>2, <5>1, <3>5, <1>1, <1>2, <1>9 DEF Runs
        <5>3. Follows(h)
          BY <3>1, <5>1, <5>2 DEF FollowHook
        <5> QED
          BY <5>1, <5>3, <4>2, <1>1 DEF Follows
      <4> QED
        BY <4>3, <4>4
    <3>6. control'.pc \notin InstallPcs
      BY <1>1, <1>10
    <3> QED
      BY <2>2, <3>3, <3>4, <3>5, <3>6 DEF FollowHook
  <2> QED
    BY <2>1, <2>2
<1>12. FollowInv'
  BY <1>8, <1>11 DEF FollowInv, Committing, Offered, FollowHook
<1>13. VisitedInv'
  BY <1>1 DEF VisitedInv
<1> QED
  BY <1>12, <1>13

\* A masquerade during the staging is remembered.
LEMMA MasqueradeFollows ==
    ASSUME LinkInv, FollowInv, VisitedInv, Masquerade
    PROVE  FollowInv' /\ VisitedInv'
<1>1. PICK from \in Up, to \in Up, copied \in BOOLEAN, added \in BOOLEAN :
          LET movers == {h \in HookIds : lease[h].on /\ lease[h].chan = from}
              hosts == {h \in HookIds : lease[h].on /\ lease[h].chan = to}
              copies == {<<to, h>> : h \in {i \in HookIds : <<from, i>> \in fds}}
              slots == {p \in fds : p[1] # to} \cup copies
              kept == {<<to, h>> : h \in {i \in hosts : ~lease[i].detaching /\ added}}
          IN  /\ from # to /\ (ds[from] = 0 \/ ds[to] = 0)
              /\ movers # {} \/ copied
              /\ hosts # {} \/ added
              /\ Cardinality(movers) <= 1
              /\ ds' = [ds EXCEPT ![from] = 0,
                                  ![to] = IF ds[from] # 0 THEN ds[from] ELSE @]
              /\ lease' = [h \in HookIds |->
                    CASE h \in movers -> IF copied THEN Moved(lease[h], to)
                                         ELSE NoLease
                      [] h \in hosts -> Received(lease[h], added)
                      [] h = ds[from] /\ lease[h].on /\ h \notin movers ->
                            [lease[h] EXCEPT !.moving = to]
                      [] OTHER -> lease[h]]
              /\ fds' = MovedFds(slots \cup kept, movers, copied, from)
              /\ heap' = IF copied THEN heap
                         ELSE Release(heap, CHOOSE h \in movers : TRUE)
              /\ chan' = [chan EXCEPT ![from] = "ending"]
              /\ relink' = IF relink.pc = "staging" /\ ~relink.commit
                           THEN [relink EXCEPT !.moved = @ \cup ({ds[from]} \ {0})]
                           ELSE relink
  BY DEF Masquerade
<1>0. /\ from # to
      /\ ({h \in HookIds : lease[h].on /\ lease[h].chan = from} # {} \/ copied)
      /\ ds' = [ds EXCEPT ![from] = 0,
                          ![to] = IF ds[from] # 0 THEN ds[from] ELSE @]
      /\ heap' = IF copied THEN heap
                 ELSE Release(heap, CHOOSE h \in {i \in HookIds : lease[i].on /\ lease[i].chan = from}
                                        : TRUE)
      /\ chan' = [chan EXCEPT ![from] = "ending"]
      /\ relink' = IF relink.pc = "staging" /\ ~relink.commit
                   THEN [relink EXCEPT !.moved = @ \cup ({ds[from]} \ {0})]
                   ELSE relink
  BY <1>1
<1>2. /\ control' = control /\ config' = config /\ candidate' = candidate /\ strays' = strays
  BY DEF Masquerade, cfgVars
<1>3. from \in LinkChannels /\ to \in LinkChannels
  BY TypeFacts
<1>4. HeapWanes(heap, heap')
  <2> DEFINE movers == {h \in HookIds : lease[h].on /\ lease[h].chan = from}
  <2>1. CASE copied
    BY <2>1, <1>0, <1>1, HeapWanesOn
  <2>2. CASE ~copied
    <3>1. PICK i \in movers : i = CHOOSE h \in movers : TRUE
      <4>1. movers # {}
        BY <2>2, <1>1
      <4> HIDE DEF movers
      <4> QED
        BY <4>1
    <3>2. i \in HookIds /\ heap' = Release(heap, i)
      BY <2>2, <3>1, <1>1
    <3> QED
      BY <3>2, TypeFacts, ReleaseWanes
  <2> QED
    BY <2>1, <2>2
<1>5. /\ relink'.hooks = relink.hooks /\ relink'.pc = relink.pc
      /\ relink'.commit = relink.commit /\ relink.moved \subseteq relink'.moved
      /\ relink.pc = "staging" /\ ~relink.commit => ds[from] \in relink'.moved \cup {0}
  <2>1. relink \in Relinks
    BY TypeFacts
  <2> QED
    BY <1>0, <1>1, <2>1 DEF Relinks
<1>6. /\ ds'[from] = 0 /\ ds'[to] = (IF ds[from] # 0 THEN ds[from] ELSE ds[to])
      /\ \A c \in LinkChannels : c # from /\ c # to => ds'[c] = ds[c]
  BY <1>0, <1>1, <1>3, TypeFacts
<1>7. Up' = Up \ {from}
  BY <1>0, <1>3, TypeFacts DEF Up
<1>8. ASSUME NEW h \in HookIds, Linked(h)' PROVE Linked(h)
  <2>1. PICK c \in Up' : ds'[c] = h
    BY <1>8 DEF Linked
  <2> QED
    BY <2>1, <1>0, <1>1, <1>6, <1>7, TypeFacts DEF Linked
<1>9. Committing
  BY FollowParts
<1>10. FollowInv'
  BY <1>2, <1>4, <1>5, <1>8, <1>9, QuietFollows DEF Committing
<1>11. ASSUME control'.by = "reload", control'.pc # "finish",
              NEW c \in Up' \ control'.todo
       PROVE  \/ ds'[c] = 0
              \/ ds'[c] \in relink'.moved
              \/ ds'[c] = ds[c] /\ c \in Up \ control.todo
  <2>1. relink.pc = "staging" /\ ~relink.commit
    BY <1>2, <1>9, <1>11, TypeFacts DEF LifeInv, Committing
  <2> QED
    BY <2>1, <1>2, <1>5, <1>6, <1>7, <1>11, TypeFacts
<1>12. \A i \in HookIds : RanBefore(heap.hook[i], heap'.hook[i])
  BY <1>4, WanesRan DEF HeapWanes
<1>13. VisitedInv'
  BY <1>2, <1>5, <1>11, <1>12, TypeFacts, ReloadVisits
<1> QED
  BY <1>10, <1>13

\* No hook runs before the first installation.
LEMMA FollowStarts ==
    ASSUME LinkInit
    PROVE  FollowInv /\ VisitedInv
<1>1. /\ control = Free /\ relink = NoReload
      /\ heap = [hook |-> [h \in HookIds |-> Unused], graphs |-> 0]
  BY DEF LinkInit
<1>2. Unused.att = "unused" /\ Unused.active = NoGraph /\ Unused.staged = NoGraph
  BY DEF Unused
<1>3. \A h \in HookIds : heap.hook[h] = Unused
  BY <1>1
<1>4. relink.pc = "idle" /\ ~relink.commit
  BY <1>1 DEF NoReload
<1>5. control.by = "none" /\ control.graph = NoGraph
  BY <1>1, FreeFacts
<1>6. Committing /\ Offered
  BY <1>4, <1>5 DEF Committing, Offered
<1>7. ASSUME NEW h \in HookIds PROVE FollowHook(h)
  <2>1. /\ heap.hook[h].active = NoGraph /\ heap.hook[h].staged = NoGraph
        /\ ~Runs(h)
    BY <1>2, <1>3 DEF Runs
  <2> QED
    BY <2>1 DEF FollowHook
<1>8. FollowInv
  BY <1>6, <1>7, FollowParts
<1>9. VisitedInv
  BY <1>5 DEF VisitedInv
<1> QED
  BY <1>8, <1>9

\* Every step keeps the links with the configuration that is published.
LEMMA FollowKeeps ==
    ASSUME LinkInv, FollowInv, VisitedInv, [LinkNext]_linkVars
    PROVE  FollowInv' /\ VisitedInv'
<1>1. CASE ControlStep
  <2>1. CASE Install
    BY <2>1, BuildHookFollows, AddDatastoreFollows, AttachAudiohookFollows,
       PublishAttachedFollows, InstallLeaseFollows, UnwindFollows, InstalledFollows, Zenon
       DEF Install
  <2>2. CASE Visit \/ PrepareMissing \/ PublishMissing \/ Compare \/ Stage
    BY <2>2, VisitFollows, PrepareMissingFollows, PublishMissingFollows, CompareFollows,
       StageFollows, Zenon
  <2>3. CASE Observe \/ BindFound \/ DetachChannel \/ DetachFree
    BY <2>3, LookersFollow, Zenon
  <2>4. CASE ScanEnd \/ BindEnd \/ DestroyDriver
    BY <2>4, OperationsFollow, Zenon
  <2>5. CASE ReloadDecide \/ FinishHook \/ ReloadEnd
    BY <2>5, ReloadDecideFollows, FinishHookFollows, ReloadTurns, Zenon
  <2> QED
    BY <1>1, <2>1, <2>2, <2>3, <2>4, <2>5, Zenon DEF ControlStep
<1>2. CASE AsteriskCleans \/ IdleRead
  BY <1>2, AsteriskFollows, Zenon DEF AsteriskCleans
<1>3. CASE \/ LifeStep \/ BindCall \/ BindUnlock \/ LoadDriver \/ Unload \/ ScanResolve
           \/ Renegotiated \/ Hangup
  BY <1>3, SurroundingsFollow, Zenon DEF LifeStep
<1>4. CASE StopControl \/ ScanStart \/ BindPeer
  BY <1>4, OperationsFollow, Zenon
<1>5. CASE ReloadGate \/ ReloadStage \/ Statistics \/ Masquerade
  BY <1>5, ReloadTurns, LookersFollow, MasqueradeFollows, Zenon
<1>6. CASE UNCHANGED linkVars
  <2>1. UNCHANGED <<control, relink, config, candidate, heap, ds, chan, strays>>
    BY <1>6 DEF linkVars, lifeVars, astVars, cfgVars
  <2>2. HeapWanes(heap, heap')
    BY <2>1, HeapWanesOn
  <2>3. Up' \subseteq Up /\ \A c \in LinkChannels : ds'[c] \in {0, ds[c]}
    BY <2>1 DEF Up
  <2> QED
    BY <2>1, <2>2, <2>3, Aside
<1> QED
  BY <1>1, <1>2, <1>3, <1>4, <1>5, <1>6, Zenon DEF LinkNext

\* Outside a reload nothing is committed, so every linked hook follows.
LEMMA FollowHolds ==
    ASSUME LinkInv, FollowInv
    PROVE  LinksFollowReload
<1> SUFFICES ASSUME NEW h \in HookIds, heap.hook[h].att = "attached",
                    heap.hook[h].active # NoGraph
             PROVE  LET k == heap.hook[h]
                    IN  /\ k.clock = k.active.rate
                        /\ (relink.pc = "idle" /\ h \notin strays /\ \E c \in Up : ds[c] = h)
                           => k.active.desc \in {config[k.profile], config[k.active.profile]}
  BY DEF LinksFollowReload
<1>1. Committing /\ FollowHook(h)
  BY FollowParts
<1> QED
  BY <1>1 DEF Committing, FollowHook, Runs, Linked, Follows

\* Between reloads every attached link runs a graph of the published
\* configuration at the rate its idle clock advances with: LinkInv with
\* FollowInv and VisitedInv is inductive.
THEOREM FollowAlways == LinkSpec => []LinksFollowReload
<1>1. LinkInit => LinkInv /\ FollowInv /\ VisitedInv
  BY LinkStarts, FollowStarts
<1>2. LinkInv /\ FollowInv /\ VisitedInv /\ [LinkNext]_linkVars
      => (LinkInv /\ FollowInv /\ VisitedInv)'
  BY LinkKeeps, FollowKeeps
<1>3. LinkInv /\ FollowInv /\ VisitedInv => LinksFollowReload
  BY FollowHolds
<1> QED
  BY <1>1, <1>2, <1>3, PTL DEF LinkSpec

=============================================================================
