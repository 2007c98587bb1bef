-------------------------- MODULE ProcessingHandoff --------------------------
(***************************************************************************)
(* How a live update hands the sound of one audio callback from the        *)
(* processors of one generation to those of the next (runtime/             *)
(* processing.rs), and back when the update is rolled back.                *)
(*                                                                         *)
(* A generation keeps the stages whose description did not change and      *)
(* makes new ones for the rest.  A new graph runs unheard behind its       *)
(* predecessor until it is primed, is then faded in, and at last becomes   *)
(* the audible one; which graph that is is published in a pointer shared   *)
(* by all stages of the chain, because the control thread builds the next  *)
(* stage while the callback may be finishing the fade of this one.  The    *)
(* forward and the reverse generation of an update are both built before   *)
(* either is offered.                                                      *)
(*                                                                         *)
(* The model has the receive dynamics as its graph stage, the noise        *)
(* reduction, and the loudness meter bound to the graph.  Time is in       *)
(* units: a block is 1..MaxBlock of them.  The mailbox is reduced to what  *)
(* one callback sees of it (StationUpdate has it in full); the other       *)
(* callback's answer only decides between commit and rollback.             *)
(***************************************************************************)
EXTENDS Integers, FiniteSets

CONSTANTS
    ProcessingPlans,  \* records [dynamics, denoise, gain]
    BootProcessing,   \* the plan the station was opened with
    Prime,            \* units a new graph runs before it is faded in
    Fade,             \* units of a fade
    FrameUnits,       \* units of a frame of the noise reduction model
    MaxBlock,         \* bound on the units of a block
    MaxChanges        \* bound on the updates prepared

ASSUME ProcessingAssumption ==
    /\ BootProcessing \in ProcessingPlans
    /\ \A p \in ProcessingPlans :
          /\ p = [dynamics |-> p.dynamics, denoise |-> p.denoise, gain |-> p.gain]
          /\ p.denoise \in BOOLEAN
    /\ MaxChanges \in Nat
    /\ Fade \in Nat \ {0} /\ FrameUnits \in Nat \ {0}
    /\ MaxBlock \in Nat \ {0} /\ Prime \in Nat /\ Prime >= MaxBlock

\* Stages, graphs, streams and meters are named for the generation that made
\* them: 0 at boot, then one forward and one reverse generation per update.
Makers == 0 .. (2 * MaxChanges)
NoOne == -1

\* The dry bridge of a denoiser enabled live: two frames, then a fade.
Startup == 2 * FrameUnits

\* What generations differ by.
Generations == [plan : ProcessingPlans, graph : Makers,
                denoise : Makers \union {NoOne}, meter : Makers]

VARIABLES
    inForce,    \* the generation the mailbox retains as current
    change,     \* the update under way: its step and its two generations
    offered,    \* the callback's slot of the mailbox
    answered,   \* the callback's result
    runs,       \* the generation whose ports the callback runs
    stages,     \* GraphStage
    audible,    \* the pointer the stages of the chain share
    denoisers,  \* DenoiseStage
    streams,    \* DenoiseStream
    meters,     \* OutputLoudnessStage: the graph stage it runs
    made,       \* updates prepared so far
    ran,        \* history: units a graph has run without a break, up to Prime + 1
    out,        \* history: the graphs heard at the end of the last block, and
                \* whether it began with one that was heard already
    noise,      \* history: the stream the last block was run through, and whether
                \* a bridge let samples through that no model made
    measured    \* history: the plans a meter was fed under

control == <<inForce, change, made>>
mailboxSide == <<offered, answered, runs>>
processors == <<stages, audible, denoisers, streams, meters>>
heard == <<ran, out, noise, measured>>
processingVars == <<control, mailboxSide, processors, heard>>

\* A stage with no predecessor, as prepare_graph makes it.
FlatStage(g) == [primary |-> g, current |-> NoOne, pending |-> NoOne, chosen |-> NoOne,
                 prime |-> 0, faded |-> 0, complete |-> TRUE]
IdleStream == [input |-> 0, output |-> 0, primed |-> FALSE, active |-> FALSE,
               failed |-> FALSE, gap |-> FALSE]
\* activation: NoOne, or the units since a live enable.
NoDenoiser == [stream |-> NoOne, activation |-> NoOne]
NoNoise == [stream |-> NoOne, filler |-> FALSE]
NoChange == [step |-> "idle", forward |-> NoOne, reverse |-> NoOne]

\* prepare_explicit_graphs: all processors are new, and the denoiser starts
\* without a bridge.
BootGeneration ==
    [plan |-> BootProcessing, graph |-> 0,
     denoise |-> IF BootProcessing.denoise THEN 0 ELSE NoOne, meter |-> 0]

ProcessingInit ==
    /\ inForce = BootGeneration /\ runs = BootGeneration
    /\ change = NoChange /\ made = 0
    /\ offered = "none" /\ answered = 0
    /\ stages = [m \in Makers |-> FlatStage(m)]
    /\ audible = 0
    /\ denoisers = [m \in Makers |-> IF m = 0 THEN [NoDenoiser EXCEPT !.stream = 0] ELSE NoDenoiser]
    /\ streams = [m \in Makers |-> IdleStream]
    /\ meters = [m \in Makers |-> m]
    /\ ran = [m \in Makers |-> IF m = 0 THEN Prime + 1 ELSE 0]
    /\ out = [joined |-> TRUE, last |-> {0}]
    /\ noise = NoNoise
    /\ measured = [m \in Makers |-> {}]

-----------------------------------------------------------------------------
(* Preparation, on the control thread.                                     *)

\* SharedGraph::lease_for finds these.
Leases(stage) == {stage.primary, stage.current, stage.pending} \ {NoOne}

\* Faulty variant: only the graph audible now is kept as predecessor.
TransitionGraph_Audible(primary, previous) ==
    [primary |-> primary, current |-> audible, pending |-> NoOne, chosen |-> NoOne,
     prime |-> Prime, faded |-> 0, complete |-> FALSE]

\* transition_graph: the predecessor is the graph audible now, or the previous
\* stage's own graph if its fade ends before the new stage runs.
TransitionGraph(primary, previous) ==
    [primary |-> primary,
     current |-> audible,
     pending |-> IF audible # previous.primary THEN previous.primary ELSE NoOne,
     chosen |-> NoOne, prime |-> Prime, faded |-> 0, complete |-> FALSE]

\* same_receive_path: nothing before the meter differs.
SamePath(g, old) ==
    g.plan.gain = old.plan.gain /\ g.graph = old.graph /\ g.denoise = old.denoise

\* with_output_meters: the meter of an unchanged path goes on.
Metered(g, id, previous) ==
    [g EXCEPT !.meter = IF SamePath(g, previous) THEN previous.meter ELSE id]

NewMeter(g, id) == IF g.meter = id THEN [meters EXCEPT ![id] = g.graph] ELSE meters

\* prepare_replacement from the generation in force.  (A graph that cannot be
\* built ends the preparation with nothing changed.)
PrepareReplacement(p) ==
    LET id == 2 * made + 1
        g  == Metered([plan    |-> p,
                       graph   |-> IF p.dynamics = inForce.plan.dynamics
                                   THEN inForce.graph ELSE id,
                       denoise |-> IF ~p.denoise THEN NoOne
                                   ELSE IF inForce.denoise # NoOne THEN inForce.denoise
                                   ELSE id,
                       meter   |-> id], id, inForce)
    IN  /\ change.step = "idle" /\ made < MaxChanges
        /\ g.graph = id => audible \in Leases(stages[inForce.graph])
        /\ change' = [step |-> "forward", forward |-> g, reverse |-> NoOne]
        /\ stages' = IF g.graph = id
                     THEN [stages EXCEPT ![id] = TransitionGraph(id, stages[inForce.graph])]
                     ELSE stages
        /\ denoisers' = IF g.denoise = id
                        THEN [denoisers EXCEPT ![id] = [stream |-> id, activation |-> 0]]
                        ELSE denoisers
        /\ meters' = NewMeter(g, id)
        /\ made' = made + 1
        /\ UNCHANGED <<inForce, mailboxSide, audible, streams, heard>>

\* prepare_restore for a graph: an unchanged stage is the same one; a changed
\* one gets a new stage round its original graph.
RestoredGraph(id) ==
    IF stages[inForce.graph].primary = stages[change.forward.graph].primary
    THEN inForce.graph ELSE id

\* prepare_restore for the noise reduction: one that the forward generation
\* does without gets a new bridge round its original stream.
RestoredDenoiser(id) ==
    IF inForce.denoise # NoOne /\ change.forward.denoise = NoOne THEN id ELSE inForce.denoise

PrepareRestore ==
    LET id == 2 * made
        g  == Metered([plan |-> inForce.plan, graph |-> RestoredGraph(id),
                       denoise |-> RestoredDenoiser(id), meter |-> id], id, change.forward)
    IN  /\ change.step = "forward"
        /\ g.graph = id => audible \in Leases(stages[change.forward.graph])
        /\ change' = [change EXCEPT !.step = "ready", !.reverse = g]
        /\ stages' = IF g.graph = id
                     THEN [stages EXCEPT ![id] = TransitionGraph(stages[inForce.graph].primary,
                                                                 stages[change.forward.graph])]
                     ELSE stages
        /\ denoisers' = IF g.denoise = id
                        THEN [denoisers EXCEPT ![id] =
                                [stream |-> denoisers[inForce.denoise].stream, activation |-> 0]]
                        ELSE denoisers
        /\ meters' = NewMeter(g, id)
        /\ UNCHANGED <<inForce, made, mailboxSide, audible, streams, heard>>

-----------------------------------------------------------------------------
(* The mailbox, as the callback of this direction sees it.                 *)

\* What no retained generation uses is freed: the leases of g and, for the life
\* of the station, of the boot generation.
FreeAllBut(g) ==
    LET kept    == {g.graph, 0}
        bridges == {g.denoise, 0}
    IN  /\ stages' = [m \in Makers |-> IF m \in kept THEN stages[m] ELSE FlatStage(m)]
        /\ denoisers' = [m \in Makers |-> IF m \in bridges THEN denoisers[m] ELSE NoDenoiser]
        /\ streams' = [m \in Makers |->
                          IF m \in {denoisers[b].stream : b \in bridges \ {NoOne}}
                          THEN streams[m] ELSE IdleStream]
        /\ meters' = [m \in Makers |-> IF m = g.meter THEN meters[m] ELSE m]
        /\ measured' = [m \in Makers |-> IF m = g.meter THEN measured[m] ELSE {}]

Settle(g) ==
    /\ inForce' = g /\ change' = NoChange
    /\ FreeAllBut(g)
    /\ UNCHANGED <<made, mailboxSide, audible, ran, out, noise>>

\* A preparation that is not admitted is dropped.
DropPreparation == change.step \in {"forward", "ready"} /\ Settle(inForce)

OfferForward ==
    /\ change.step = "ready"
    /\ change' = [change EXCEPT !.step = "begun"]
    /\ offered' = "forward" /\ answered' = 0
    /\ UNCHANGED <<inForce, made, runs, processors, heard>>

Offered == IF offered = "forward" THEN change.forward ELSE change.reverse

\* The callback swaps the slot and applies the update, or is refused.
AdoptOffered ==
    /\ offered # "none"
    /\ runs' = Offered /\ answered' = 1 /\ offered' = "none"
    /\ UNCHANGED <<control, processors, heard>>

RefuseOffered ==
    /\ offered # "none"
    /\ answered' = -1 /\ offered' = "none"
    /\ UNCHANGED <<control, runs, processors, heard>>

\* finish_update: the other callback adopted the forward generation as well.
CommitForward == change.step = "begun" /\ answered = 1 /\ Settle(change.forward)

\* finish_update without commit, whatever this callback answered.
OfferReverse ==
    /\ change.step = "begun" /\ answered # 0
    /\ change' = [change EXCEPT !.step = "reversing"]
    /\ offered' = "reverse" /\ answered' = 0
    /\ UNCHANGED <<inForce, made, runs, processors, heard>>

SettleReverse == change.step = "reversing" /\ answered = 1 /\ Settle(change.reverse)

-----------------------------------------------------------------------------
(* One receive block of n units.                                           *)

Least(a, b) == IF a < b THEN a ELSE b

\* The predecessor, chosen when the stage runs for the first time.
Predecessor(stage) ==
    IF stage.chosen # NoOne THEN stage.chosen
    ELSE IF stage.pending # NoOne /\ stage.pending = audible THEN stage.pending
    ELSE stage.current

\* The stage's own graph is the audible one already.
Alone(stage) == stage.complete \/ (stage.chosen = NoOne /\ stage.primary = audible)

\* graph_process: the stage after n units, and what they were made of.
Processed(stage, n) ==
    IF Alone(stage)
    THEN [stage |-> [stage EXCEPT !.complete = TRUE],
          first |-> stage.primary, last |-> {stage.primary}, graphs |-> {stage.primary}]
    ELSE LET p     == Predecessor(stage)
             prime == IF stage.prime > n THEN stage.prime - n ELSE 0
             faded == Least(Fade, stage.faded + n - (stage.prime - prime))
         IN  [stage  |-> [stage EXCEPT !.chosen = p, !.prime = prime, !.faded = faded,
                                       !.complete = (faded = Fade)],
              first  |-> p,
              last   |-> IF faded = 0 THEN {p} ELSE IF faded = Fade THEN {stage.primary}
                         ELSE {p, stage.primary},
              graphs |-> {p, stage.primary}]

\* DenoiseStream::bypass.
Bypassed(s) == IF s.active THEN IdleStream ELSE s

\* DenoiseStream::process of one unit: a full frame gives the model's answer to
\* it, except the first one.
StreamUnit(s) ==
    LET full == s.input + 1 = FrameUnits
    IN  [s EXCEPT !.active = TRUE,
                  !.input  = IF full THEN 0 ELSE @ + 1,
                  !.output = IF full /\ s.primed THEN FrameUnits ELSE IF @ > 0 THEN @ - 1 ELSE 0,
                  !.primed = @ \/ full,
                  !.failed = @ /\ ~(full /\ s.primed)]

\* The stream after 0..n units.
StreamAfter(s, n) ==
    LET after[k \in 0 .. n] == IF k = 0 THEN s ELSE StreamUnit(after[k - 1]) IN after

\* The k-th unit of a block lets the model's output through the bridge.
Wet(activation, k) == activation + k > Startup

\* denoise_process.
Denoised(d, n) ==
    LET start == IF d.activation = 0 THEN Bypassed(streams[d.stream]) ELSE streams[d.stream]
        after == StreamAfter(start, n)
        next  == d.activation + n
    IN  [stream     |-> after[n],
         activation |-> IF d.activation = NoOne \/ next >= Startup + Fade THEN NoOne ELSE next,
         filler     |-> d.activation # NoOne
                        /\ \E k \in 1 .. n : /\ Wet(d.activation, k)
                                            /\ after[k - 1].output = 0 /\ ~after[k - 1].failed]

\* A stream with queued samples that a block passes by.
PassedBy(s) == [s EXCEPT !.gap = @ \/ s.active]

StreamsWith(d, s) == [m \in Makers |-> IF m = d THEN s ELSE PassedBy(streams[m])]

\* The noise reduction of a block: absent, bypassed or run.
NoReduction ==
    /\ runs.denoise = NoOne
    /\ streams' = StreamsWith(NoOne, IdleStream) /\ noise' = NoNoise
    /\ UNCHANGED denoisers

\* denoise_bypass.
DenoiseBypass ==
    LET d == denoisers[runs.denoise]
    IN  /\ runs.denoise # NoOne
        /\ streams' = StreamsWith(d.stream, Bypassed(streams[d.stream])) /\ noise' = NoNoise
        /\ denoisers' = [denoisers EXCEPT ![runs.denoise].activation =
                            IF @ = NoOne THEN NoOne ELSE 0]

DenoiseProcess(n) ==
    LET d == denoisers[runs.denoise]
        r == Denoised(d, n)
    IN  /\ runs.denoise # NoOne
        /\ streams' = StreamsWith(d.stream, r.stream)
        /\ noise' = [stream |-> d.stream, filler |-> r.filler]
        /\ denoisers' = [denoisers EXCEPT ![runs.denoise].activation = r.activation]

Reduction(n) == NoReduction \/ DenoiseBypass \/ DenoiseProcess(n)

\* metered_graph_process: graph_process, then the meter.
ReceiveBlock(n) ==
    LET g == meters[runs.meter]
        r == Processed(stages[g], n)
    IN  /\ Reduction(n)
        /\ stages' = [stages EXCEPT ![g] = r.stage]
        /\ audible' = IF r.stage.complete THEN r.stage.primary ELSE audible
        /\ out' = [joined |-> r.first \in out.last, last |-> r.last]
        /\ ran' = [m \in Makers |-> IF m \in r.graphs THEN Least(Prime + 1, ran[m] + n) ELSE 0]
        /\ measured' = [measured EXCEPT ![runs.meter] = @ \union {runs.plan}]
        /\ UNCHANGED <<control, mailboxSide, meters>>

\* A graph refuses the block: the stage's own before anything happens, or its
\* predecessor once it has been chosen.  The radio gets no block.
GraphFails(n) ==
    LET g == meters[runs.meter]
    IN  /\ Reduction(n)
        /\ \/ UNCHANGED stages
           \/ /\ ~Alone(stages[g])
              /\ stages' = [stages EXCEPT ![g].chosen = Predecessor(stages[g])]
        /\ UNCHANGED <<control, mailboxSide, audible, meters, ran, out, measured>>

\* The model refuses a full frame; its samples are lost and the bridge waits.
DenoiseFails(n) ==
    LET d     == denoisers[runs.denoise]
        start == IF d.activation = 0 THEN Bypassed(streams[d.stream]) ELSE streams[d.stream]
        full  == FrameUnits - start.input
    IN  /\ runs.denoise # NoOne /\ full <= n
        /\ streams' = StreamsWith(d.stream,
                          [StreamAfter(start, full)[full] EXCEPT
                              !.input = 0, !.output = 0, !.primed = start.primed, !.failed = TRUE])
        /\ noise' = NoNoise
        /\ UNCHANGED <<control, mailboxSide, stages, audible, denoisers, meters, ran, out,
                       measured>>

-----------------------------------------------------------------------------

ProcessingNext ==
    \/ \E p \in ProcessingPlans : PrepareReplacement(p)
    \/ PrepareRestore \/ DropPreparation
    \/ OfferForward \/ AdoptOffered \/ RefuseOffered
    \/ CommitForward \/ OfferReverse \/ SettleReverse
    \/ \E n \in 1 .. MaxBlock : ReceiveBlock(n) \/ GraphFails(n) \/ DenoiseFails(n)

ProcessingSpec == ProcessingInit /\ [][ProcessingNext]_processingVars

-----------------------------------------------------------------------------
(* Properties.                                                             *)

\* The audible graph is one the running stage holds a lease of, so the shared
\* pointer never names a graph that is gone (or another one at its address).
AudibleIsLeased == audible \in Leases(stages[runs.graph])

\* A block begins with a graph that was heard at the end of the one before, and
\* only a graph that has run for its whole priming, up to now, is heard.
GraphsJoin == out.joined /\ \A g \in out.last : ran[g] > Prime

\* Noise reduction never plays samples queued before a pause of its stream, and
\* the bridge of a live enable ends where the model's output begins.
NoiseJoins ==
    /\ noise.stream # NoOne => ~streams[noise.stream].gap
    /\ ~noise.filler

\* The metered port runs the generation's own graph, and a meter measures one
\* path only.
MetersOnePath == meters[runs.meter] = runs.graph /\ Cardinality(measured[runs.meter]) <= 1

\* A live update, committed or rolled back, half refused, or made while the
\* fade of the last one is still under way, never breaks the sound of a stage:
\* see the four parts (graph_process, transition_graph, prepare_restore,
\* denoise_process, with_output_meters).
SoundContinues == AudibleIsLeased /\ GraphsJoin /\ NoiseJoins /\ MetersOnePath
=============================================================================
