--------------------------- MODULE RemoteBaseProofs ---------------------------
(***************************************************************************)
(* Proofs about RemoteBase, for any requests, wirings and queue capacity:  *)
(* what the station is told of PTT is true, the radio is written only with *)
(* every output off, the rig is given up only unkeyed, and a request has   *)
(* one result.                                                             *)
(*                                                                         *)
(* Whether a line is off at a step depends on where the thread stands, so  *)
(* the inductive invariant follows it: Soundness says, for each place of   *)
(* the thread and each fate of the generation, what is known of the lines, *)
(* of the handles and of the words published about them.                   *)
(***************************************************************************)
EXTENDS RemoteBase, TLAPS

Places == {"start", "open", "reject", "loop", "prove", "urgent", "advance",
           "apply", "program", "acknowledge", "complete", "ordinary",
           "auxiliary", "idle", "write", "publish", "failed", "cycle",
           "retire", "close", "exited"}

\* Places only a thread with a generation reaches.
Serving == {"prove", "urgent", "advance", "apply", "program", "acknowledge",
            "complete", "ordinary", "auxiliary", "idle", "write", "publish",
            "failed", "retire"}

Fates == {"none", "lost", "rejected", "live"}

Workers == [at : Places, remote : Fates, retiring : BOOLEAN, busy : BOOLEAN,
            source : {"idle", "active", "cancelled"}, ok : BOOLEAN]

Devices == [gpio : BOOLEAN, rig : BOOLEAN, handle : BOOLEAN, open : BOOLEAN]

Dark(d) == ~d.gpio /\ ~d.rig

\* The thread at place a of a generation with fate r, with devices d: the PTT
\* state it published, the level it selected and the permission it gave.
Soundness(a, r, d, published, level, permission) ==
    /\ setup.ptt = "rig" => ~d.gpio
    /\ setup.ptt # "rig" => ~d.rig
    /\ published = "off" => Dark(d) /\ (setup.ptt # "rig" => ~level)
    /\ r # "live" => published = "unknown" /\ ~level
    /\ a \in Serving => r = "live"
    /\ a \in {"start", "open", "reject"} => r = "none"
    /\ a \notin {"loop", "retire", "close", "exited"} => d.open
    /\ ~d.open => ~d.gpio
    /\ a \in {"apply", "program", "acknowledge", "write"} => Dark(d)
    /\ a \in {"program", "acknowledge"} => ~permission
    /\ r = "live" /\ a \notin {"retire", "close", "exited"} =>
          (setup.rig => d.handle)
    /\ r = "live" /\ setup.rig /\ ~d.handle => ~d.rig
    /\ r = "rejected" => ~d.rig /\ ~d.handle
    /\ r = "live" /\ a \in {"close", "exited"} => ~d.rig /\ ~d.handle
    /\ r = "live" /\ a = "exited" => ~d.gpio /\ ~d.open

Typed ==
    /\ setup \in Setups
    /\ worker \in Workers
    /\ dev \in Devices
    /\ physical \in {"unknown", "on", "off"}
    /\ key \in BOOLEAN
    /\ permitted \in BOOLEAN

Inv ==
    /\ Typed
    /\ Soundness(worker.at, worker.remote, dev, physical, key, permitted)

\* A request's ticket, and where its work can be.
TicketStates ==
    [at : {"new", "submitted", "queued", "pending", "auxiliary", "done"},
     valid : BOOLEAN, active : BOOLEAN, result : Results]

Engines ==
    [op : Tickets \cup {"none", "startup"}, outcome : Results, critical : Tickets \cup {"none"}]

\* Only issued tickets have results, and all work is somebody's request.
TicketInv ==
    /\ ticket \in [Tickets -> TicketStates]
    /\ ordinary \in Seq(Tickets) /\ urgent \in Seq(Tickets)
    /\ engine \in Engines
    /\ \A t \in Tickets :
          ticket[t].at \in {"new", "submitted"} => ticket[t].result = "none"

-----------------------------------------------------------------------------
(* The device calls.                                                       *)

\* A call that succeeds sets the line; one that fails may have set it.
LEMMA DriveFacts ==
    ASSUME NEW line \in BOOLEAN, NEW level \in BOOLEAN, NEW yes \in BOOLEAN, yes,
           NEW no \in BOOLEAN, ~no,
           NEW g \in {[on |-> level, ok |-> yes], [on |-> level, ok |-> no],
                      [on |-> line, ok |-> no]}
    PROVE  /\ g.on \in BOOLEAN /\ g.ok \in BOOLEAN
           /\ (g.on <=> level) \/ (~g.ok /\ (g.on <=> line))
<1>1. ASSUME NEW on \in BOOLEAN, NEW ok \in BOOLEAN, g = [on |-> on, ok |-> ok]
      PROVE  /\ g.on \in BOOLEAN /\ g.ok \in BOOLEAN
             /\ g.on <=> on
             /\ g.ok <=> ok
  BY <1>1
<1>2. CASE g = [on |-> level, ok |-> yes]
  BY <1>1, <1>2
<1>3. CASE g = [on |-> level, ok |-> no]
  BY <1>1, <1>3
<1>4. CASE g = [on |-> line, ok |-> no]
  BY <1>1, <1>4
<1> QED
  BY <1>2, <1>3, <1>4, Zenon

\* What driving one line to a level leaves of it.
LEMMA Driven ==
    ASSUME NEW line \in BOOLEAN, NEW level \in BOOLEAN, NEW g \in Drives(line, level)
    PROVE  /\ g.on \in BOOLEAN /\ g.ok \in BOOLEAN
           /\ (g.on <=> level) \/ (~g.ok /\ (g.on <=> line))
  BY DriveFacts, TRUE \in BOOLEAN, FALSE \in BOOLEAN, Zenon DEF Drives

\* A line that is not the selected output, or is driven off, only goes off.
LEMMA DrivenOff ==
    ASSUME NEW line \in BOOLEAN, NEW level \in BOOLEAN, ~level,
           NEW g \in Drives(line, level)
    PROVE  /\ g.on \in BOOLEAN /\ g.ok \in BOOLEAN
           /\ g.on => line
           /\ g.ok => ~g.on
  BY Driven

\* What trying to set PTT leaves of the devices.
Attempted(d, keyed, n, ok) ==
    /\ n \in Devices
    /\ n.handle <=> d.handle
    /\ n.open <=> d.open
    /\ n.gpio => d.gpio \/ (keyed /\ setup.ptt = "gpio")
    /\ n.rig => d.rig \/ (keyed /\ setup.ptt = "rig")
    /\ ok /\ ~keyed => ~n.gpio /\ (setup.ptt = "rig" => ~n.rig)

\* Setting both lines leaves the handle and the opening alone.
LEMMA DevicesSet ==
    ASSUME NEW d \in Devices, NEW a \in BOOLEAN, NEW b \in BOOLEAN
    PROVE  /\ [d EXCEPT !.gpio = a, !.rig = b] \in Devices
           /\ [d EXCEPT !.gpio = a, !.rig = b].gpio <=> a
           /\ [d EXCEPT !.gpio = a, !.rig = b].rig <=> b
           /\ [d EXCEPT !.gpio = a, !.rig = b].handle <=> d.handle
           /\ [d EXCEPT !.gpio = a, !.rig = b].open <=> d.open
  BY DEF Devices

\* What driving the rig leaves of its line.
LEMMA RigDriven ==
    ASSUME NEW d \in Devices, NEW keyed \in BOOLEAN, NEW r \in RigDrives(d, keyed)
    PROVE  /\ r.on \in BOOLEAN /\ r.ok \in BOOLEAN
           /\ r.on => d.rig \/ (keyed /\ setup.ptt = "rig")
           /\ r.ok /\ ~keyed => (setup.ptt = "rig" => ~r.on)
<1>1. d.rig \in BOOLEAN
  BY DEF Devices
<1>2. CASE setup.ptt = "rig"
  <2>1. r \in Drives(d.rig, keyed)
    BY <1>2, Zenon DEF RigDrives
  <2> QED
    BY <1>1, <1>2, <2>1, Driven
<1>3. CASE setup.ptt # "rig"
  <2>1. r = [on |-> d.rig, ok |-> TRUE]
    BY <1>3, Zenon DEF RigDrives
  <2>2. ASSUME NEW yes \in BOOLEAN, r = [on |-> d.rig, ok |-> yes]
        PROVE  (r.on <=> d.rig) /\ r.on \in BOOLEAN /\ r.ok \in BOOLEAN
    BY <1>1, <2>2
  <2>3. (r.on <=> d.rig) /\ r.on \in BOOLEAN /\ r.ok \in BOOLEAN
    BY <2>1, <2>2, TRUE \in BOOLEAN, Zenon
  <2> QED
    BY <1>3, <2>3
<1> QED
  BY <1>2, <1>3

\* An attempt to set PTT turns on no line but the selected one.
LEMMA AttemptFacts ==
    ASSUME NEW d \in Devices, NEW keyed \in BOOLEAN, NEW o \in PttAttempt(d, keyed)
    PROVE  o.ok \in BOOLEAN /\ Attempted(d, keyed, o.dev, o.ok)
<1>1. d.gpio \in BOOLEAN /\ d.rig \in BOOLEAN
  BY DEF Devices
<1>2. PICK g \in Drives(d.gpio, keyed /\ setup.ptt = "gpio") :
        o \in {[dev |-> [d EXCEPT !.gpio = g.on, !.rig = r.on], ok |-> g.ok /\ r.ok] :
                 r \in IF keyed /\ ~g.ok THEN {[on |-> d.rig, ok |-> FALSE]}
                       ELSE RigDrives(d, keyed)}
  BY Zenon DEF PttAttempt
<1>3. PICK r \in IF keyed /\ ~g.ok THEN {[on |-> d.rig, ok |-> FALSE]}
                 ELSE RigDrives(d, keyed) :
        o = [dev |-> [d EXCEPT !.gpio = g.on, !.rig = r.on], ok |-> g.ok /\ r.ok]
  BY <1>2, Zenon
<1>4. /\ g.on \in BOOLEAN /\ g.ok \in BOOLEAN
      /\ (g.on <=> (keyed /\ setup.ptt = "gpio")) \/ (~g.ok /\ (g.on <=> d.gpio))
  BY <1>1, Driven, (keyed /\ setup.ptt = "gpio") \in BOOLEAN, Zenon
<1>5. ASSUME NEW on \in BOOLEAN, ~on, NEW x, x = [on |-> d.rig, ok |-> on]
      PROVE  x.on \in BOOLEAN /\ x.ok \in BOOLEAN /\ (x.on <=> d.rig) /\ ~x.ok
  BY <1>1, <1>5
<1>6. /\ r.on \in BOOLEAN /\ r.ok \in BOOLEAN
      /\ r.on => d.rig \/ (keyed /\ setup.ptt = "rig")
      /\ r.ok /\ ~keyed => (setup.ptt = "rig" => ~r.on)
  <2>1. CASE keyed /\ ~g.ok
    <3>1. r = [on |-> d.rig, ok |-> FALSE]
      BY <2>1, Zenon
    <3>2. r.on \in BOOLEAN /\ r.ok \in BOOLEAN /\ (r.on <=> d.rig) /\ ~r.ok
      BY <1>5, <3>1, FALSE \in BOOLEAN, Zenon
    <3> QED
      BY <3>2
  <2>2. CASE ~(keyed /\ ~g.ok)
    <3>1. r \in RigDrives(d, keyed)
      BY <2>2, Zenon
    <3> QED
      BY <3>1, RigDriven
  <2> QED
    BY <2>1, <2>2
<1> DEFINE n == [d EXCEPT !.gpio = g.on, !.rig = r.on]
<1>7. /\ n \in Devices /\ (n.gpio <=> g.on) /\ (n.rig <=> r.on)
      /\ (n.handle <=> d.handle) /\ (n.open <=> d.open)
  BY <1>4, <1>6, DevicesSet
<1>8. o = [dev |-> n, ok |-> g.ok /\ r.ok]
  BY <1>3, Zenon
<1> HIDE DEF n
<1>9. o.dev = n /\ o.ok \in BOOLEAN /\ (o.ok <=> g.ok /\ r.ok)
  <2>1. ASSUME NEW b \in BOOLEAN, o = [dev |-> n, ok |-> b]
        PROVE  o.dev = n /\ o.ok \in BOOLEAN /\ (o.ok <=> b)
    BY <2>1
  <2> QED
    BY <1>8, <2>1, (g.ok /\ r.ok) \in BOOLEAN, Zenon
<1>10. Attempted(d, keyed, n, o.ok)
  BY <1>1, <1>4, <1>6, <1>7, <1>9 DEF Attempted
<1> QED
  BY <1>9, <1>10

\* What a PTT write that unkeys leaves: no line comes on, and success proves the
\* selected line, and the GPIO lines in any case, off.
Extinguished(d, n, ok) ==
    /\ n \in Devices
    /\ n.handle <=> d.handle
    /\ n.open <=> d.open
    /\ n.gpio => d.gpio
    /\ n.rig => d.rig
    /\ ok => ~n.gpio /\ (setup.ptt = "rig" => ~n.rig)

\* An attempt to unkey turns no line on, and success has the GPIO line and a selected rig off.
LEMMA UnkeyFacts ==
    ASSUME NEW d \in Devices, NEW o \in PttAttempt(d, FALSE)
    PROVE  o.ok \in BOOLEAN /\ Extinguished(d, o.dev, o.ok)
<1>1. ASSUME NEW keyed \in BOOLEAN, ~keyed, o \in PttAttempt(d, keyed)
      PROVE  o.ok \in BOOLEAN /\ Extinguished(d, o.dev, o.ok)
  BY <1>1, AttemptFacts DEF Attempted, Extinguished
<1> QED
  BY <1>1, FALSE \in BOOLEAN, Zenon

\* set_ptt: the published state is "off" only after an unkey that succeeded.
LEMMA PttSet ==
    ASSUME NEW d \in Devices, NEW keyed \in BOOLEAN, NEW ok \in BOOLEAN,
           SetPtt(d, keyed, ok)
    PROVE  /\ Attempted(d, keyed, dev', ok)
           /\ key' \in BOOLEAN /\ (key' <=> keyed)
           /\ physical' \in {"unknown", "on", "off"}
           /\ physical' = "off" => ok /\ ~keyed
<1>1. PICK o \in PttAttempt(d, keyed) : o.ok = ok /\ dev' = o.dev
  BY Zenon DEF SetPtt
<1>2. o.ok \in BOOLEAN /\ Attempted(d, keyed, o.dev, o.ok)
  BY AttemptFacts
<1>3. Attempted(d, keyed, dev', ok)
  BY <1>1, <1>2, Zenon
<1>4. key' = keyed /\ physical' = IF ~ok THEN "unknown" ELSE IF keyed THEN "on" ELSE "off"
  BY Zenon DEF SetPtt
<1> QED
  BY <1>3, <1>4

\* Unkeying publishes off only when it succeeded.
LEMMA PttCleared ==
    ASSUME NEW d \in Devices, NEW ok \in BOOLEAN, SetPtt(d, FALSE, ok)
    PROVE  /\ Extinguished(d, dev', ok)
           /\ key' \in BOOLEAN /\ ~key'
           /\ physical' \in {"unknown", "on", "off"}
           /\ physical' = "off" => ok
<1>1. ASSUME NEW keyed \in BOOLEAN, ~keyed, SetPtt(d, keyed, ok)
      PROVE  /\ Extinguished(d, dev', ok)
             /\ key' \in BOOLEAN /\ ~key'
             /\ physical' \in {"unknown", "on", "off"}
             /\ physical' = "off" => ok
  BY <1>1, PttSet DEF Attempted, Extinguished
<1> QED
  BY <1>1, FALSE \in BOOLEAN, Zenon

\* Keying never publishes off.
LEMMA PttKeyed ==
    ASSUME NEW d \in Devices, NEW ok \in BOOLEAN, SetPtt(d, TRUE, ok)
    PROVE  /\ dev' \in Devices
           /\ dev'.handle <=> d.handle
           /\ dev'.open <=> d.open
           /\ dev'.gpio => d.gpio \/ setup.ptt = "gpio"
           /\ dev'.rig => d.rig \/ setup.ptt = "rig"
           /\ key' \in BOOLEAN
           /\ physical' \in {"unknown", "on", "off"}
           /\ physical' # "off"
<1>1. ASSUME NEW keyed \in BOOLEAN, keyed, SetPtt(d, keyed, ok)
      PROVE  /\ dev' \in Devices
             /\ dev'.handle <=> d.handle
             /\ dev'.open <=> d.open
             /\ dev'.gpio => d.gpio \/ setup.ptt = "gpio"
             /\ dev'.rig => d.rig \/ setup.ptt = "rig"
             /\ key' \in BOOLEAN
             /\ physical' \in {"unknown", "on", "off"}
             /\ physical' # "off"
  BY <1>1, PttSet DEF Attempted
<1> QED
  BY <1>1, TRUE \in BOOLEAN, Zenon

\* close_outputs: the GPIO line goes off with the handle.
Closed(d, n, ok) ==
    /\ n \in Devices
    /\ n.handle <=> d.handle
    /\ n.rig <=> d.rig
    /\ n.gpio => d.gpio
    /\ ok => ~n.gpio /\ ~n.open
    /\ ~ok => n.open

\* Closing the outputs turns no line on, and success has the GPIO line off.
LEMMA CloseFacts ==
    ASSUME NEW d \in Devices, NEW c \in Closes(d)
    PROVE  c.ok \in BOOLEAN /\ Closed(d, c.dev, c.ok)
<1>1. d.gpio \in BOOLEAN
  BY DEF Devices
<1>2. PICK g \in Drives(d.gpio, FALSE) :
        c = [dev |-> [d EXCEPT !.gpio = g.on, !.open = ~g.ok], ok |-> g.ok]
  BY Zenon DEF Closes
<1>3. ASSUME NEW level \in BOOLEAN, ~level, NEW x \in Drives(d.gpio, level)
      PROVE  /\ x.on \in BOOLEAN /\ x.ok \in BOOLEAN
             /\ x.on => d.gpio
             /\ x.ok => ~x.on
  BY <1>1, <1>3, DrivenOff
<1>4. /\ g.on \in BOOLEAN /\ g.ok \in BOOLEAN
      /\ g.on => d.gpio
      /\ g.ok => ~g.on
  BY <1>3, FALSE \in BOOLEAN, Zenon
<1> DEFINE n == [d EXCEPT !.gpio = g.on, !.open = ~g.ok]
<1>5. ASSUME NEW a \in BOOLEAN, NEW b \in BOOLEAN, NEW x, x = [d EXCEPT !.gpio = a, !.open = b]
      PROVE  /\ x \in Devices
             /\ x.gpio <=> a
             /\ x.open <=> b
             /\ x.handle <=> d.handle
             /\ x.rig <=> d.rig
  BY <1>5 DEF Devices
<1>6. /\ n \in Devices
      /\ n.gpio <=> g.on
      /\ n.open <=> ~g.ok
      /\ n.handle <=> d.handle
      /\ n.rig <=> d.rig
  BY <1>4, <1>5, (~g.ok) \in BOOLEAN, Zenon
<1>7. c = [dev |-> n, ok |-> g.ok]
  BY <1>2, Zenon
<1> HIDE DEF n
<1>8. c.dev = n /\ c.ok \in BOOLEAN /\ (c.ok <=> g.ok)
  BY <1>4, <1>7
<1> QED
  BY <1>4, <1>6, <1>8 DEF Closed

-----------------------------------------------------------------------------
(* Where the thread goes.                                                  *)

\* A thread that moves on keeps its remote generation.
LEMMA Moved ==
    ASSUME Typed, NEW a \in Places, To(a)
    PROVE  /\ worker' \in Workers
           /\ worker'.at = a
           /\ worker'.remote = worker.remote
  BY DEF Typed, To, Workers

\* The same with the outcome of the step.
LEMMA MovedWith ==
    ASSUME Typed, NEW a \in Places, NEW ok \in BOOLEAN,
           worker' = [worker EXCEPT !.at = a, !.ok = ok]
    PROVE  /\ worker' \in Workers
           /\ worker'.at = a
           /\ worker'.remote = worker.remote
  BY DEF Typed, Workers

\* A thread back at its loop keeps its remote generation.
LEMMA IdledWorker ==
    ASSUME Typed, worker' = Idle(worker)
    PROVE  /\ worker' \in Workers
           /\ worker'.at = "loop"
           /\ worker'.remote = worker.remote
<1>1. ASSUME NEW no \in BOOLEAN, NEW yes \in BOOLEAN,
             worker' = [worker EXCEPT !.at = "loop", !.busy = no, !.source = "idle", !.ok = yes]
      PROVE  /\ worker' \in Workers
             /\ worker'.at = "loop"
             /\ worker'.remote = worker.remote
  BY <1>1 DEF Typed, Workers, Places
<1> QED
  BY <1>1, TRUE \in BOOLEAN, FALSE \in BOOLEAN, Zenon DEF Idle

-----------------------------------------------------------------------------
(* Opening the generation.                                                 *)

\* The hardware a generation is configured with.
LEMMA SetupFacts ==
    ASSUME Typed
    PROVE  setup.rig \in BOOLEAN /\ setup.ptt \in {"gpio", "rig"} /\ setup.native \in BOOLEAN
  BY ConstantsAssumption DEF Typed

\* A step of the thread, with the devices and the published words it leaves.
LEMMA Settled ==
    ASSUME Inv, UNCHANGED setup,
           worker' \in Workers, dev' \in Devices,
           physical' \in {"unknown", "on", "off"}, key' \in BOOLEAN, permitted' \in BOOLEAN,
           Soundness(worker'.at, worker'.remote, dev', physical', key', permitted')
    PROVE  Inv'
<1>1. Typed'
  BY Zenon DEF Inv, Typed
<1>2. Soundness(worker.at, worker.remote, dev, physical, key, permitted)'
  BY DEF Soundness
<1> QED
  BY <1>1, <1>2, Zenon DEF Inv

\* Before a generation is opened the GPIO outputs are driven off.
LEMMA ProveStartKeeps ==
    ASSUME Inv, NEW ok \in BOOLEAN, ProveStart(ok)
    PROVE  Inv'
<1> USE DEF Inv, Typed
<1>1. worker.at = "start" /\ UNCHANGED <<setup, physical, key, permitted>>
  BY DEF ProveStart
<1>2. PICK g \in Drives(dev.gpio, FALSE) : dev' = [dev EXCEPT !.gpio = g.on]
  BY Zenon DEF ProveStart
<1>3. ASSUME NEW level \in BOOLEAN, ~level, NEW x \in Drives(dev.gpio, level)
      PROVE  x.on \in BOOLEAN /\ (x.on => dev.gpio)
  BY <1>3, DrivenOff DEF Devices
<1>4. g.on \in BOOLEAN /\ (g.on => dev.gpio)
  BY <1>3, FALSE \in BOOLEAN, Zenon
<1>5. /\ dev' \in Devices
      /\ dev'.gpio => dev.gpio
      /\ dev'.rig <=> dev.rig
      /\ dev'.handle <=> dev.handle
      /\ dev'.open <=> dev.open
  BY <1>2, <1>4 DEF Devices
<1>6. ASSUME NEW b \in BOOLEAN, worker' = [worker EXCEPT !.at = "open", !.retiring = b]
      PROVE  worker' \in Workers /\ worker'.at = "open" /\ worker'.remote = worker.remote
  BY <1>6 DEF Workers, Places
<1>7. worker' \in Workers /\ worker'.at = "open" /\ worker'.remote = worker.remote
  BY <1>6, (~ok) \in BOOLEAN, Zenon DEF ProveStart
<1>8. Soundness(worker'.at, worker'.remote, dev', physical', key', permitted')
  BY <1>1, <1>5, <1>7 DEF Soundness, Serving, Dark
<1> QED
  BY <1>1, <1>5, <1>7, <1>8, Settled

\* An open that fails leaves no generation to serve.
LEMMA OpenFailsKeeps ==
    ASSUME Inv, OpenFails
    PROVE  Inv'
<1> USE DEF Inv, Typed
<1>1. worker.at = "open" /\ UNCHANGED <<setup, dev, physical, key, permitted>>
  BY DEF OpenFails, radio
<1>2. worker' \in Workers /\ worker'.at = "loop" /\ worker'.remote = "lost"
  BY DEF OpenFails, Workers, Places, Fates
<1>3. Soundness(worker'.at, worker'.remote, dev', physical', key', permitted')
  BY <1>1, <1>2 DEF Soundness, Serving
<1> QED
  BY <1>1, <1>2, <1>3, Settled

\* The rig's handle is set.
LEMMA Handled ==
    ASSUME NEW d \in Devices, NEW h \in BOOLEAN
    PROVE  /\ [d EXCEPT !.handle = h] \in Devices
           /\ [d EXCEPT !.handle = h].handle <=> h
           /\ [d EXCEPT !.handle = h].gpio <=> d.gpio
           /\ [d EXCEPT !.handle = h].rig <=> d.rig
           /\ [d EXCEPT !.handle = h].open <=> d.open
  BY DEF Devices

\* A generation that is not admitted has a rig still to be dropped.
LEMMA OpenRejectedKeeps ==
    ASSUME Inv, OpenRejected
    PROVE  Inv'
<1> USE DEF Inv, Typed
<1>1. /\ worker.at = "open" /\ UNCHANGED <<setup, physical, key, permitted>>
      /\ dev' = [dev EXCEPT !.handle = setup.rig]
      /\ To("reject")
  BY Zenon DEF OpenRejected
<1>2. worker' \in Workers /\ worker'.at = "reject" /\ worker'.remote = worker.remote
  BY <1>1, Moved DEF Places
<1>3. /\ dev' \in Devices
      /\ dev'.gpio <=> dev.gpio
      /\ dev'.rig <=> dev.rig
      /\ dev'.open <=> dev.open
  BY <1>1, SetupFacts, Handled
<1>4. Soundness(worker'.at, worker'.remote, dev', physical', key', permitted')
  BY <1>1, <1>2, <1>3 DEF Soundness, Serving, Dark
<1> QED
  BY <1>1, <1>2, <1>3, <1>4, Settled

\* The rig of a rejected generation is dropped only once every output is off.
LEMMA RejectKeeps ==
    ASSUME Inv, NEW ok \in BOOLEAN, Reject(ok)
    PROVE  Inv'
<1> USE DEF Inv, Typed
<1>1. worker.at = "reject" /\ UNCHANGED <<setup, physical, key, permitted>>
  BY DEF Reject
<1>2. PICK o \in PttAttempt(dev, FALSE) :
        o.ok = ok /\ dev' = [o.dev EXCEPT !.handle = @ /\ ~ok]
  BY Zenon DEF Reject
<1>3. Extinguished(dev, o.dev, ok)
  BY <1>2, UnkeyFacts
<1>4. o.dev \in Devices /\ (o.dev.handle /\ ~ok) \in BOOLEAN
  BY <1>3, Zenon DEF Extinguished
<1>5. dev' = [o.dev EXCEPT !.handle = o.dev.handle /\ ~ok]
  BY <1>2, Zenon
<1>6. /\ dev' \in Devices
      /\ dev'.handle <=> (o.dev.handle /\ ~ok)
      /\ dev'.gpio <=> o.dev.gpio
      /\ dev'.rig <=> o.dev.rig
      /\ dev'.open <=> o.dev.open
  BY <1>4, <1>5, Handled
<1>7. CASE ok
  <2>1. worker' \in Workers /\ worker'.at = "loop" /\ worker'.remote = "rejected"
    BY <1>7 DEF Reject, Workers, Places, Fates
  <2>2. Soundness(worker'.at, worker'.remote, dev', physical', key', permitted')
    BY <1>1, <1>3, <1>6, <1>7, <2>1 DEF Soundness, Serving, Dark, Extinguished
  <2> QED
    BY <1>1, <1>6, <2>1, <2>2, Settled
<1>8. CASE ~ok
  <2>1. worker' = worker
    BY <1>8, Zenon DEF Reject
  <2>2. Soundness(worker'.at, worker'.remote, dev', physical', key', permitted')
    BY <1>1, <1>3, <1>6, <1>8, <2>1 DEF Soundness, Serving, Dark, Extinguished
  <2> QED
    BY <1>1, <1>6, <2>1, <2>2, Settled
<1> QED
  BY <1>7, <1>8

\* A generation that is opened has its rig and an unknown PTT state.
LEMMA OpenSucceedsKeeps ==
    ASSUME Inv, OpenSucceeds
    PROVE  Inv'
<1> USE DEF Inv, Typed
<1>1. /\ worker.at = "open" /\ UNCHANGED setup
      /\ dev' = [dev EXCEPT !.handle = setup.rig]
      /\ physical' = "unknown"
  BY Zenon DEF OpenSucceeds
<1>2. key' \in BOOLEAN /\ ~key' /\ permitted' \in BOOLEAN
  BY Zenon DEF OpenSucceeds
<1>3. worker' \in Workers /\ worker'.at = "loop" /\ worker'.remote = "live"
  BY DEF OpenSucceeds, Workers, Places, Fates
<1>4. /\ dev' \in Devices
      /\ dev'.handle <=> setup.rig
      /\ dev'.gpio <=> dev.gpio
      /\ dev'.rig <=> dev.rig
      /\ dev'.open <=> dev.open
  BY <1>1, SetupFacts, Handled
<1>5. Soundness(worker'.at, worker'.remote, dev', physical', key', permitted')
  BY <1>1, <1>2, <1>3, <1>4 DEF Soundness, Serving, Dark
<1> QED
  BY <1>1, <1>2, <1>3, <1>4, <1>5, Settled

-----------------------------------------------------------------------------
(* One iteration of the service.                                           *)

\* Where service may go on whatever the lines do.
Onward == {"loop", "prove", "urgent", "advance", "complete", "ordinary", "auxiliary", "idle",
           "publish", "failed", "cycle"}

\* A step that touches neither lines nor published words.
LEMMA ServiceGoesOn ==
    ASSUME Inv, worker.at \in Serving \ {"retire"}, UNCHANGED <<setup, radio>>,
           worker' \in Workers, worker'.remote = worker.remote, worker'.at \in Onward
    PROVE  Inv'
<1> USE DEF Inv, Typed
<1>1. UNCHANGED <<setup, dev, physical, key, permitted>>
  BY DEF radio
<1>2. Soundness(worker'.at, worker'.remote, dev', physical', key', permitted')
  BY <1>1 DEF Soundness, Serving, Onward
<1> QED
  BY <1>1, <1>2, Settled

\* An unkey in the middle of service.
LEMMA ServiceUnkeyed ==
    ASSUME Inv, worker.at \in Serving \ {"retire"}, NEW ok \in BOOLEAN,
           SetPtt(dev, FALSE, ok), UNCHANGED setup, permitted' \in BOOLEAN,
           worker' \in Workers, worker'.remote = worker.remote,
           worker'.at \in Onward \/ (ok /\ worker'.at = "apply")
    PROVE  Inv'
<1> USE DEF Inv, Typed
<1>1. /\ Extinguished(dev, dev', ok)
      /\ key' \in BOOLEAN /\ ~key'
      /\ physical' \in {"unknown", "on", "off"}
      /\ physical' = "off" => ok
  BY PttCleared
<1>2. dev' \in Devices
  BY <1>1 DEF Extinguished
<1>3. Soundness(worker'.at, worker'.remote, dev', physical', key', permitted')
  BY <1>1 DEF Soundness, Serving, Onward, Extinguished, Dark
<1> QED
  BY <1>1, <1>2, <1>3, Settled

\* Only a live generation is served, and an unknown PTT state is proved off first.
LEMMA BeginServiceKeeps ==
    ASSUME Inv, BeginService
    PROVE  Inv'
<1> USE DEF Inv, Typed
<1>1. worker.at = "loop" /\ dev.open /\ UNCHANGED <<setup, dev, physical, key, permitted>>
  BY DEF BeginService, radio
<1>2. ASSUME NEW a \in Places, NEW b \in BOOLEAN, worker' = [worker EXCEPT !.at = a, !.busy = b]
      PROVE  worker' \in Workers /\ worker'.at = a /\ worker'.remote = worker.remote
  BY <1>2 DEF Workers
<1>3. CASE worker.remote = "live"
  <2>1. (physical = "on") \in BOOLEAN
    OBVIOUS
  <2>2. CASE physical = "unknown"
    <3>1. worker' = [worker EXCEPT !.at = "prove", !.busy = (physical = "on")]
      BY <1>3, <2>2, Zenon DEF BeginService, Live
    <3>2. worker' \in Workers /\ worker'.at = "prove" /\ worker'.remote = worker.remote
      BY <1>2, <2>1, <3>1, "prove" \in Places, Zenon DEF Places
    <3>3. Soundness(worker'.at, worker'.remote, dev', physical', key', permitted')
      BY <1>1, <1>3, <3>2 DEF Soundness, Serving
    <3> QED
      BY <1>1, <3>2, <3>3, Settled
  <2>3. CASE physical # "unknown"
    <3>1. worker' = [worker EXCEPT !.at = "urgent", !.busy = (physical = "on")]
      BY <1>3, <2>3, Zenon DEF BeginService, Live
    <3>2. worker' \in Workers /\ worker'.at = "urgent" /\ worker'.remote = worker.remote
      BY <1>2, <2>1, <3>1, "urgent" \in Places, Zenon DEF Places
    <3>3. Soundness(worker'.at, worker'.remote, dev', physical', key', permitted')
      BY <1>1, <1>3, <3>2 DEF Soundness, Serving
    <3> QED
      BY <1>1, <3>2, <3>3, Settled
  <2> QED
    BY <2>2, <2>3
<1>4. CASE worker.remote # "live"
  <2>1. worker' \in Workers /\ worker'.at = "cycle" /\ worker'.remote = worker.remote
    BY <1>4 DEF BeginService, Live, Workers, Places
  <2>2. Soundness(worker'.at, worker'.remote, dev', physical', key', permitted')
    BY <1>1, <2>1 DEF Soundness, Serving
  <2> QED
    BY <1>1, <2>1, <2>2, Settled
<1> QED
  BY <1>3, <1>4

\* Proving PTT off publishes off only when it is.
LEMMA ProveKeeps ==
    ASSUME Inv, NEW ok \in BOOLEAN, Prove(ok)
    PROVE  Inv'
<1>1. /\ worker.at = "prove" /\ SetPtt(dev, FALSE, ok)
      /\ UNCHANGED setup /\ permitted' = permitted
      /\ To(IF ok THEN "urgent" ELSE "failed")
  BY Zenon DEF Prove
<1>2. worker' \in Workers /\ worker'.remote = worker.remote /\ worker'.at \in Onward
  BY <1>1, Moved DEF Inv, Places, Onward
<1>3. permitted' \in BOOLEAN
  BY <1>1, Zenon DEF Inv, Typed
<1> QED
  BY <1>1, <1>2, <1>3, ServiceUnkeyed DEF Serving

\* Taking urgent work from the port touches no line.
LEMMA AdmitUrgentKeeps ==
    ASSUME Inv, AdmitUrgent
    PROVE  Inv'
<1>1. Source \in {"idle", "active", "cancelled"}
  BY Zenon DEF Source
<1>2. worker' = [worker EXCEPT !.at = "advance", !.source = Source]
  BY Zenon DEF AdmitUrgent
<1>3. worker' \in Workers /\ worker'.remote = worker.remote /\ worker'.at \in Onward
  BY <1>1, <1>2 DEF Inv, Typed, Workers, Places, Onward
<1>4. worker.at = "urgent" /\ UNCHANGED <<setup, radio>>
  BY Zenon DEF AdmitUrgent
<1> QED
  BY <1>3, <1>4, ServiceGoesOn DEF Serving

\* An engine that waits touches no line.
LEMMA WaitsKeeps ==
    ASSUME Inv, Waits
    PROVE  Inv'
<1>1. worker.at = "advance" /\ To("complete") /\ UNCHANGED <<setup, radio>>
  BY Zenon DEF Waits
<1>2. worker' \in Workers /\ worker'.remote = worker.remote /\ worker'.at \in Onward
  BY <1>1, Moved DEF Inv, Places, Onward
<1> QED
  BY <1>1, <1>2, ServiceGoesOn DEF Serving

\* Keying publishes on or unknown.
LEMMA KeysKeeps ==
    ASSUME Inv, NEW ok \in BOOLEAN, Keys(ok)
    PROVE  Inv'
<1> USE DEF Inv, Typed
<1>1. /\ worker.at = "advance" /\ SetPtt(dev, TRUE, ok)
      /\ UNCHANGED setup /\ permitted' = permitted
      /\ worker' = [worker EXCEPT !.at = "complete", !.ok = ok]
  BY Zenon DEF Keys
<1>2. worker' \in Workers /\ worker'.remote = worker.remote /\ worker'.at = "complete"
  BY <1>1, MovedWith DEF Places
<1>3. /\ dev' \in Devices
      /\ dev'.handle <=> dev.handle
      /\ dev'.open <=> dev.open
      /\ dev'.gpio => dev.gpio \/ setup.ptt = "gpio"
      /\ dev'.rig => dev.rig \/ setup.ptt = "rig"
      /\ key' \in BOOLEAN
      /\ physical' \in {"unknown", "on", "off"}
      /\ physical' # "off"
  BY <1>1, PttKeyed
<1>4. permitted' \in BOOLEAN
  BY <1>1, Zenon
<1>5. Soundness(worker'.at, worker'.remote, dev', physical', key', permitted')
  BY <1>1, <1>2, <1>3 DEF Soundness, Serving
<1> QED
  BY <1>1, <1>2, <1>3, <1>4, <1>5, Settled

\* Programming begins only after an unkey that succeeded.
LEMMA UnkeysKeeps ==
    ASSUME Inv, NEW ok \in BOOLEAN, NEW tune \in BOOLEAN, Unkeys(ok, tune)
    PROVE  Inv'
<1>1. /\ worker.at = "advance" /\ SetPtt(dev, FALSE, ok)
      /\ UNCHANGED setup /\ permitted' = permitted
      /\ worker' = [worker EXCEPT !.at = IF ok /\ tune THEN "apply" ELSE "complete", !.ok = ok]
  BY Zenon DEF Unkeys
<1>2. /\ worker' \in Workers /\ worker'.remote = worker.remote
      /\ worker'.at \in Onward \/ (ok /\ worker'.at = "apply")
  <2>1. CASE ok /\ tune
    <3>1. worker' = [worker EXCEPT !.at = "apply", !.ok = ok]
      BY <1>1, <2>1, Zenon
    <3> QED
      BY <2>1, <3>1, MovedWith DEF Inv, Places
  <2>2. CASE ~(ok /\ tune)
    <3>1. worker' = [worker EXCEPT !.at = "complete", !.ok = ok]
      BY <1>1, <2>2, Zenon
    <3> QED
      BY <3>1, MovedWith DEF Inv, Places, Onward
  <2> QED
    BY <2>1, <2>2
<1>3. permitted' \in BOOLEAN
  BY <1>1, Zenon DEF Inv, Typed
<1> QED
  BY <1>1, <1>2, <1>3, ServiceUnkeyed DEF Serving

\* Work that ends goes to its completion.
LEMMA ApplyEnded ==
    ASSUME Inv, NEW outcome, ApplyEnds(outcome)
    PROVE  worker' \in Workers /\ worker'.remote = worker.remote /\ worker'.at = "complete"
<1>1. PICK ok \in {TRUE, outcome = "ok"} : worker' = [worker EXCEPT !.at = "complete", !.ok = ok]
  BY Zenon DEF ApplyEnds
<1>2. ok \in BOOLEAN
  BY <1>1, Zenon
<1> QED
  BY <1>1, <1>2, MovedWith DEF Inv, Places

\* Transmit permission is withdrawn before the first exchange of a programming.
LEMMA ApplyStateKeeps ==
    ASSUME Inv, ApplyState
    PROVE  Inv'
<1> USE DEF Inv, Typed
<1>1. worker.at = "apply" /\ UNCHANGED <<setup, dev, physical, key>>
  BY DEF ApplyState
<1>2. permitted' \in BOOLEAN /\ ~permitted'
  BY Zenon DEF ApplyState
<1>3. ApplyEnds("error") \/ To("program")
  BY Zenon DEF ApplyState
<1>4. /\ worker' \in Workers /\ worker'.remote = worker.remote
      /\ worker'.at \in {"complete", "program"}
  BY <1>3, ApplyEnded, Moved DEF Places
<1>5. Soundness(worker'.at, worker'.remote, dev', physical', key', permitted')
  BY <1>1, <1>2, <1>4 DEF Soundness, Serving
<1> QED
  BY <1>1, <1>2, <1>4, <1>5, Settled

\* Programming the radio drives no line.
LEMMA ProgramKeeps ==
    ASSUME Inv, Program
    PROVE  Inv'
<1> USE DEF Inv, Typed
<1>1. worker.at = "program" /\ UNCHANGED <<setup, dev, physical, key, permitted>>
  BY DEF Program, radio
<1>2. ApplyEnds("error") \/ To("acknowledge")
  BY Zenon DEF Program
<1>3. /\ worker' \in Workers /\ worker'.remote = worker.remote
      /\ worker'.at \in {"complete", "acknowledge"}
  BY <1>2, ApplyEnded, Moved DEF Places
<1>4. Soundness(worker'.at, worker'.remote, dev', physical', key', permitted')
  BY <1>1, <1>3 DEF Soundness, Serving
<1> QED
  BY <1>1, <1>3, <1>4, Settled

\* The acknowledgment of a programming drives no line.
LEMMA AcknowledgeKeeps ==
    ASSUME Inv, Acknowledge
    PROVE  Inv'
<1>1. worker.at = "acknowledge" /\ UNCHANGED <<setup, radio>>
  BY Zenon DEF Acknowledge
<1>2. PICK outcome \in {"ok", "error"} : ApplyEnds(outcome)
  BY Zenon DEF Acknowledge
<1> QED
  BY <1>1, <1>2, ApplyEnded, ServiceGoesOn DEF Serving, Onward

\* Completion and admission leave the lines alone.
LEMMA CompletionKeeps ==
    ASSUME Inv, CompleteCritical \/ CompleteOrdinary
    PROVE  Inv'
<1>1. worker.at = "complete" /\ UNCHANGED <<setup, radio>>
  BY Zenon DEF CompleteCritical, CompleteOrdinary
<1>2. worker' = worker \/ To("ordinary")
  BY Zenon DEF CompleteCritical, CompleteOrdinary
<1>3. worker' \in Workers /\ worker'.remote = worker.remote /\ worker'.at \in Onward
  BY <1>1, <1>2, Moved DEF Inv, Typed, Places, Onward
<1> QED
  BY <1>1, <1>3, ServiceGoesOn DEF Serving

\* Taking ordinary work from the port touches no line.
LEMMA AdmitOrdinaryKeeps ==
    ASSUME Inv, AdmitOrdinary
    PROVE  Inv'
<1>1. worker.at = "ordinary" /\ UNCHANGED <<setup, radio>>
  BY Zenon DEF AdmitOrdinary
<1>2. To(IF worker.ok THEN "auxiliary" ELSE "publish")
  BY Zenon DEF AdmitOrdinary
<1>3. worker' \in Workers /\ worker'.remote = worker.remote /\ worker'.at \in Onward
  BY <1>2, Moved DEF Inv, Places, Onward
<1> QED
  BY <1>1, <1>3, ServiceGoesOn DEF Serving

\* Auxiliary work that goes stale, waits, falls due or writes a setting drives no line.
LEMMA AuxiliaryKeeps ==
    ASSUME Inv, AuxiliaryStale \/ AuxiliaryWaits \/ AuxiliaryDue \/ WriteSetting
    PROVE  Inv'
<1>1. worker.at \in {"auxiliary", "write"} /\ UNCHANGED <<setup, radio>>
  BY Zenon DEF AuxiliaryStale, AuxiliaryWaits, AuxiliaryDue, WriteSetting
<1>2. To("publish") \/ To("idle")
  BY Zenon DEF AuxiliaryStale, AuxiliaryWaits, AuxiliaryDue, WriteSetting
<1>3. worker' \in Workers /\ worker'.remote = worker.remote /\ worker'.at \in Onward
  BY <1>2, Moved DEF Inv, Places, Onward
<1> QED
  BY <1>1, <1>3, ServiceGoesOn DEF Serving

\* A setting is written only after every output was found off: the selected one by
\* the rig's answer or by proof, the other because it is never driven.
LEMMA TransmitIdleKeeps ==
    ASSUME Inv, TransmitIdle
    PROVE  Inv'
<1> USE DEF Inv, Typed
<1>1. /\ worker.at = "idle" /\ UNCHANGED <<setup, dev, key, permitted>>
      /\ physical' = Observed
  BY Zenon DEF TransmitIdle
<1>2. /\ worker' \in Workers /\ worker'.remote = worker.remote
      /\ worker'.at \in {"write", "publish"}
      /\ worker'.at = "write" => IdleNow
  <2>1. CASE IdleNow
    <3>1. To("write")
      BY <2>1, Zenon DEF TransmitIdle
    <3> QED
      BY <2>1, <3>1, Moved DEF Places
  <2>2. CASE ~IdleNow
    <3>1. To("publish")
      BY <2>2, Zenon DEF TransmitIdle
    <3> QED
      BY <2>2, <3>1, Moved DEF Places
  <2> QED
    BY <2>1, <2>2
<1>3. physical' \in {"unknown", "on", "off"} /\ (physical' = "off" => Dark(dev))
  BY <1>1 DEF Observed, Soundness, Dark
<1>4. IdleNow => Dark(dev)
  BY DEF IdleNow, Soundness, Dark
<1>5. setup.ptt # "rig" => physical' = physical
  BY <1>1, Zenon DEF Observed
<1>6. Soundness(worker'.at, worker'.remote, dev', physical', key', permitted')
  BY <1>1, <1>2, <1>3, <1>4, <1>5 DEF Soundness, Serving
<1> QED
  BY <1>1, <1>2, <1>3, <1>6, Settled

\* The published state becomes unknown, or what the rig answers, and service goes on.
LEMMA ServicePublishes ==
    ASSUME Inv, worker.at \in Serving \ {"retire"}, UNCHANGED <<setup, dev, key>>,
           physical' \in {physical, "unknown", Observed}, permitted' \in BOOLEAN,
           worker' \in Workers, worker'.remote = worker.remote, worker'.at \in Onward
    PROVE  Inv'
<1> USE DEF Inv, Typed
<1>1. physical' \in {"unknown", "on", "off"}
  BY Zenon DEF Observed
<1>2. physical' = "off" => Dark(dev) /\ (setup.ptt # "rig" => ~key)
  BY DEF Observed, Soundness, Dark
<1>3. Soundness(worker'.at, worker'.remote, dev', physical', key', permitted')
  BY <1>2 DEF Soundness, Serving, Onward
<1> QED
  BY <1>1, <1>3, Settled

\* A rig that does not say whether it transmits leaves PTT unknown.
LEMMA TransmitIdleFailsKeeps ==
    ASSUME Inv, TransmitIdleFails
    PROVE  Inv'
<1>1. /\ worker.at = "idle" /\ UNCHANGED <<setup, dev, key>>
      /\ physical' = "unknown" /\ permitted' = permitted /\ To("publish")
  BY Zenon DEF TransmitIdleFails
<1>2. worker' \in Workers /\ worker'.remote = worker.remote /\ worker'.at \in Onward
  BY <1>1, Moved DEF Inv, Places, Onward
<1>3. permitted' \in BOOLEAN
  BY <1>1, Zenon DEF Inv, Typed
<1> QED
  BY <1>1, <1>2, <1>3, ServicePublishes DEF Serving

\* A poll that fails may leave PTT unknown.
LEMMA PollFailsKeeps ==
    ASSUME Inv, PollFails
    PROVE  Inv'
<1>1. /\ worker.at = "publish" /\ UNCHANGED <<setup, dev, key>>
      /\ permitted' = permitted /\ To("failed")
  BY Zenon DEF PollFails
<1>2. physical' \in {physical, "unknown", Observed}
  BY Zenon DEF PollFails
<1>3. worker' \in Workers /\ worker'.remote = worker.remote /\ worker'.at \in Onward
  BY <1>1, Moved DEF Inv, Places, Onward
<1>4. permitted' \in BOOLEAN
  BY <1>1, Zenon DEF Inv, Typed
<1> QED
  BY <1>1, <1>2, <1>3, <1>4, ServicePublishes DEF Serving

\* PTT is published as it was observed, or as it was.
LEMMA PublishControlKeeps ==
    ASSUME Inv, NEW ok \in BOOLEAN, PublishControl(ok)
    PROVE  Inv'
<1>1. /\ worker.at = "publish" /\ UNCHANGED <<setup, dev, key>>
      /\ permitted' = worker.ok /\ To(IF ok THEN "cycle" ELSE "failed")
  BY Zenon DEF PublishControl
<1>2. physical' \in {physical, "unknown", Observed}
  BY Zenon DEF PublishControl
<1>3. worker' \in Workers /\ worker'.remote = worker.remote /\ worker'.at \in Onward
  BY <1>1, Moved DEF Inv, Places, Onward
<1>4. permitted' \in BOOLEAN
  BY <1>1 DEF Inv, Typed, Workers
<1> QED
  BY <1>1, <1>2, <1>3, <1>4, ServicePublishes DEF Serving

\* A failed service is followed by one unkey.
LEMMA ServiceFailedKeeps ==
    ASSUME Inv, NEW ok \in BOOLEAN, ServiceFailed(ok)
    PROVE  Inv'
<1>1. /\ worker.at = "failed" /\ SetPtt(dev, FALSE, ok) /\ UNCHANGED setup /\ To("cycle")
  BY Zenon DEF ServiceFailed, Unkey, UnkeyFrom
<1>2. permitted' \in BOOLEAN
  BY Zenon DEF ServiceFailed, Unkey, UnkeyFrom
<1>3. worker' \in Workers /\ worker'.remote = worker.remote /\ worker'.at \in Onward
  BY <1>1, Moved DEF Inv, Places, Onward
<1> QED
  BY <1>1, <1>2, <1>3, ServiceUnkeyed DEF Serving

-----------------------------------------------------------------------------
(* The GPIO line follows PhysicalPttControl; devices are given up.         *)

\* The GPIO line is set.
LEMMA LineSet ==
    ASSUME NEW d \in Devices, NEW level \in BOOLEAN
    PROVE  /\ [d EXCEPT !.gpio = level] \in Devices
           /\ [d EXCEPT !.gpio = level].gpio <=> level
           /\ [d EXCEPT !.gpio = level].rig <=> d.rig
           /\ [d EXCEPT !.gpio = level].handle <=> d.handle
           /\ [d EXCEPT !.gpio = level].open <=> d.open
  BY DEF Devices

\* The GPIO line follows the selected level, which is low while PTT is published off.
LEMMA CycleKeeps ==
    ASSUME Inv, Cycle
    PROVE  Inv'
<1> USE DEF Inv, Typed
<1>1. /\ worker.at = "cycle" /\ UNCHANGED <<setup, physical, key, permitted>>
      /\ dev' = [dev EXCEPT !.gpio = KeyLevel] /\ worker' = Idle(worker)
  BY Zenon DEF Cycle
<1>2. worker' \in Workers /\ worker'.remote = worker.remote /\ worker'.at = "loop"
  BY <1>1, IdledWorker
<1>3. KeyLevel \in BOOLEAN /\ (KeyLevel <=> key /\ setup.ptt = "gpio")
  BY Zenon DEF KeyLevel
<1>4. /\ dev' \in Devices
      /\ dev'.gpio <=> KeyLevel
      /\ dev'.rig <=> dev.rig
      /\ dev'.handle <=> dev.handle
      /\ dev'.open <=> dev.open
  BY <1>1, <1>3, LineSet
<1>5. Soundness(worker'.at, worker'.remote, dev', physical', key', permitted')
  BY <1>1, <1>2, <1>3, <1>4 DEF Soundness, Serving, Dark
<1> QED
  BY <1>1, <1>2, <1>4, <1>5, Settled

\* A failed cycle may leave the GPIO line at any level, and a live generation is unkeyed
\* after it.
LEMMA CycleFailsKeeps ==
    ASSUME Inv, NEW ok \in BOOLEAN, CycleFails(ok)
    PROVE  Inv'
<1> USE DEF Inv, Typed
<1>1. worker.at = "cycle" /\ UNCHANGED setup
  BY DEF CycleFails
<1>2. /\ worker' \in Workers /\ worker'.remote = worker.remote /\ worker'.at = "loop"
  <2>1. ASSUME NEW no \in BOOLEAN, NEW yes \in BOOLEAN, NEW b \in BOOLEAN,
               worker' = [[worker EXCEPT !.at = "loop", !.busy = no, !.source = "idle",
                                         !.ok = yes] EXCEPT !.retiring = b]
        PROVE  worker' \in Workers /\ worker'.remote = worker.remote /\ worker'.at = "loop"
    BY <2>1 DEF Workers, Places
  <2>2. worker' = [[worker EXCEPT !.at = "loop", !.busy = FALSE, !.source = "idle",
                                  !.ok = TRUE] EXCEPT !.retiring = ~setup.native]
    BY Zenon DEF CycleFails, Idle
  <2> QED
    BY <2>1, <2>2, TRUE \in BOOLEAN, FALSE \in BOOLEAN, (~setup.native) \in BOOLEAN, Zenon
<1>3. PICK level \in {dev.gpio, KeyLevel, FALSE} :
        IF Live THEN UnkeyFrom([dev EXCEPT !.gpio = level], ok)
        ELSE dev' = [dev EXCEPT !.gpio = level] /\ UNCHANGED <<physical, key, permitted>>
  BY Zenon DEF CycleFails
<1>4. level \in BOOLEAN /\ (level => dev.gpio \/ (key /\ setup.ptt = "gpio"))
  <2>1. dev.gpio \in BOOLEAN
    BY DEF Devices
  <2>2. CASE level = dev.gpio
    BY <2>1, <2>2, Zenon
  <2>3. CASE level = KeyLevel
    BY <2>3, Zenon DEF KeyLevel
  <2>4. CASE level = FALSE
    BY <2>4, Zenon
  <2> QED
    BY <2>2, <2>3, <2>4, Zenon
<1> DEFINE failed == [dev EXCEPT !.gpio = level]
<1>5. /\ failed \in Devices
      /\ failed.gpio <=> level
      /\ failed.rig <=> dev.rig
      /\ failed.handle <=> dev.handle
      /\ failed.open <=> dev.open
  BY <1>4, LineSet
<1>6. IF Live THEN UnkeyFrom(failed, ok)
      ELSE dev' = failed /\ UNCHANGED <<physical, key, permitted>>
  BY <1>3, Zenon
<1> HIDE DEF failed
<1>7. CASE Live
  <2>1. SetPtt(failed, FALSE, ok) /\ permitted' \in BOOLEAN
    BY <1>6, <1>7, Zenon DEF UnkeyFrom
  <2>2. /\ Extinguished(failed, dev', ok)
        /\ key' \in BOOLEAN /\ ~key'
        /\ physical' \in {"unknown", "on", "off"}
        /\ physical' = "off" => ok
    BY <1>5, <2>1, PttCleared
  <2>3. dev' \in Devices
    BY <2>2 DEF Extinguished
  <2>4. Soundness(worker'.at, worker'.remote, dev', physical', key', permitted')
    BY <1>1, <1>2, <1>4, <1>5, <1>7, <2>2
       DEF Soundness, Serving, Extinguished, Dark, Live
  <2> QED
    BY <1>1, <1>2, <2>1, <2>2, <2>3, <2>4, Settled
<1>8. CASE ~Live
  <2>1. dev' = failed /\ UNCHANGED <<physical, key, permitted>>
    BY <1>6, <1>8, Zenon
  <2>2. Soundness(worker'.at, worker'.remote, dev', physical', key', permitted')
    BY <1>1, <1>2, <1>4, <1>5, <1>8, <2>1 DEF Soundness, Serving, Dark, Live
  <2> QED
    BY <1>1, <1>2, <1>5, <2>1, <2>2, Settled
<1> QED
  BY <1>7, <1>8

\* What unkeying succeeded, or not having to, leaves to the closing of the GPIO
\* devices that follows it.
LEMMA ClosingFacts ==
    ASSUME Inv,
           NEW o \in IF Live THEN {x \in PttAttempt(dev, FALSE) : x.ok} ELSE {[dev |-> dev]},
           NEW c \in Closes(o.dev), dev' = c.dev, UnkeyPublished
    PROVE  /\ c.ok \in BOOLEAN
           /\ dev' \in Devices
           /\ dev'.handle <=> dev.handle
           /\ dev'.rig => dev.rig
           /\ dev'.gpio => dev.gpio
           /\ c.ok => ~dev'.gpio /\ ~dev'.open
           /\ ~c.ok => dev'.open
           /\ Live => ~dev'.gpio /\ (setup.ptt = "rig" => ~dev'.rig)
           /\ physical' \in {"unknown", "on", "off"}
           /\ key' \in BOOLEAN
           /\ permitted' \in BOOLEAN
           /\ Live => ~key'
           /\ ~Live => physical' = physical /\ (key' <=> key)
<1> USE DEF Inv, Typed
<1>1. CASE Live
  <2>1. o \in PttAttempt(dev, FALSE) /\ o.ok
    BY <1>1, Zenon
  <2>2. o.ok \in BOOLEAN /\ Extinguished(dev, o.dev, o.ok)
    BY <2>1, UnkeyFacts
  <2>3. o.dev \in Devices
    BY <2>2 DEF Extinguished
  <2>4. c.ok \in BOOLEAN /\ Closed(o.dev, c.dev, c.ok)
    BY <2>3, CloseFacts
  <2>5. physical' = "off" /\ key' \in BOOLEAN /\ ~key' /\ permitted' \in BOOLEAN
    BY <1>1, Zenon DEF UnkeyPublished, Live
  <2> QED
    BY <1>1, <2>1, <2>2, <2>4, <2>5 DEF Extinguished, Closed
<1>2. CASE ~Live
  <2>1. o = [dev |-> dev]
    BY <1>2, Zenon
  <2>2. o.dev = dev
    BY <2>1
  <2>3. c.ok \in BOOLEAN /\ Closed(dev, c.dev, c.ok)
    BY <2>2, CloseFacts, Zenon
  <2>4. UNCHANGED <<physical, key, permitted>>
    BY <1>2, Zenon DEF UnkeyPublished, Live
  <2> QED
    BY <1>2, <2>3, <2>4 DEF Closed
<1> QED
  BY <1>1, <1>2

\* Devices whose outputs cannot be proved off, or closed, stay to be retired.
LEMMA RetireDevicesFailsKeeps ==
    ASSUME Inv, RetireDevicesFails
    PROVE  Inv'
<1> USE DEF Inv, Typed
<1>1. worker.at = "loop" /\ UNCHANGED <<setup, worker>>
  BY DEF RetireDevicesFails
<1>2. CASE Live /\ Unkey(FALSE)
  <2>1. ASSUME NEW ok \in BOOLEAN, ~ok, SetPtt(dev, FALSE, ok)
        PROVE  /\ Extinguished(dev, dev', ok)
               /\ key' \in BOOLEAN /\ ~key'
               /\ physical' \in {"unknown", "on", "off"}
               /\ physical' # "off"
    BY <2>1, PttCleared
  <2>2. SetPtt(dev, FALSE, FALSE) /\ permitted' \in BOOLEAN
    BY <1>2, Zenon DEF Unkey, UnkeyFrom
  <2>3. PICK ok \in BOOLEAN : ~ok /\ SetPtt(dev, FALSE, ok)
    BY <2>2, FALSE \in BOOLEAN, Zenon
  <2>4. /\ Extinguished(dev, dev', ok)
        /\ key' \in BOOLEAN /\ ~key'
        /\ physical' \in {"unknown", "on", "off"}
        /\ physical' # "off"
    BY <2>1, <2>3
  <2>5. dev' \in Devices
    BY <2>4 DEF Extinguished
  <2>6. Soundness(worker'.at, worker'.remote, dev', physical', key', permitted')
    BY <1>1, <1>2, <2>4 DEF Soundness, Serving, Extinguished, Dark, Live
  <2> QED
    BY <1>1, <2>2, <2>4, <2>5, <2>6, Settled
<1>3. CASE \E o \in IF Live THEN {x \in PttAttempt(dev, FALSE) : x.ok} ELSE {[dev |-> dev]} :
           \E c \in Closes(o.dev) : ~c.ok /\ dev' = c.dev /\ UnkeyPublished
  <2>1. PICK o \in IF Live THEN {x \in PttAttempt(dev, FALSE) : x.ok} ELSE {[dev |-> dev]} :
             \E c \in Closes(o.dev) : ~c.ok /\ dev' = c.dev /\ UnkeyPublished
    BY <1>3, Zenon
  <2>2. PICK c \in Closes(o.dev) : ~c.ok /\ dev' = c.dev /\ UnkeyPublished
    BY <2>1, Zenon
  <2>3. /\ dev' \in Devices
        /\ dev'.handle <=> dev.handle
        /\ dev'.rig => dev.rig
        /\ dev'.gpio => dev.gpio
        /\ dev'.open
        /\ Live => ~dev'.gpio /\ (setup.ptt = "rig" => ~dev'.rig)
        /\ physical' \in {"unknown", "on", "off"}
        /\ key' \in BOOLEAN
        /\ permitted' \in BOOLEAN
        /\ Live => ~key'
        /\ ~Live => physical' = physical /\ (key' <=> key)
    BY <2>2, ClosingFacts
  <2>4. Soundness(worker'.at, worker'.remote, dev', physical', key', permitted')
    BY <1>1, <2>3 DEF Soundness, Serving, Dark, Live
  <2> QED
    BY <1>1, <2>3, <2>4, Settled
<1> QED
  BY <1>2, <1>3, Zenon DEF RetireDevicesFails

\* Retired devices had their outputs off when they were closed.
LEMMA RetireDevicesKeeps ==
    ASSUME Inv, RetireDevices
    PROVE  Inv'
<1> USE DEF Inv, Typed
<1>1. worker.at = "loop" /\ UNCHANGED setup
  BY DEF RetireDevices
<1>2. worker' \in Workers /\ worker'.remote = worker.remote /\ worker'.at = worker.at
  <2>1. ASSUME NEW b \in BOOLEAN, worker' = [worker EXCEPT !.retiring = b]
        PROVE  worker' \in Workers /\ worker'.remote = worker.remote /\ worker'.at = worker.at
    BY <2>1 DEF Workers
  <2> QED
    BY <2>1, FALSE \in BOOLEAN, Zenon DEF RetireDevices
<1>3. PICK o \in IF Live THEN {x \in PttAttempt(dev, FALSE) : x.ok} ELSE {[dev |-> dev]} :
           \E c \in Closes(o.dev) : c.ok /\ dev' = c.dev /\ UnkeyPublished
  BY Zenon DEF RetireDevices
<1>4. PICK c \in Closes(o.dev) : c.ok /\ dev' = c.dev /\ UnkeyPublished
  BY <1>3, Zenon
<1>5. /\ dev' \in Devices
      /\ dev'.handle <=> dev.handle
      /\ dev'.rig => dev.rig
      /\ ~dev'.gpio /\ ~dev'.open
      /\ Live => (setup.ptt = "rig" => ~dev'.rig)
      /\ physical' \in {"unknown", "on", "off"}
      /\ key' \in BOOLEAN
      /\ permitted' \in BOOLEAN
      /\ Live => ~key'
      /\ ~Live => physical' = physical /\ (key' <=> key)
  BY <1>4, ClosingFacts
<1>6. Soundness(worker'.at, worker'.remote, dev', physical', key', permitted')
  BY <1>1, <1>2, <1>5 DEF Soundness, Serving, Dark, Live
<1> QED
  BY <1>1, <1>2, <1>5, <1>6, Settled

\* Reopened devices have the GPIO line off.
LEMMA ReopenKeeps ==
    ASSUME Inv, Reopen
    PROVE  Inv'
<1> USE DEF Inv, Typed
<1>1. /\ worker.at \in {"loop", "retire"}
      /\ UNCHANGED <<setup, worker, physical, key, permitted>>
  BY DEF Reopen
<1>2. ASSUME NEW off \in BOOLEAN, ~off, NEW on \in BOOLEAN,
             dev' = [dev EXCEPT !.gpio = off, !.open = on]
      PROVE  /\ dev' \in Devices
             /\ ~dev'.gpio
             /\ dev'.rig <=> dev.rig
             /\ dev'.handle <=> dev.handle
             /\ dev'.open <=> on
  BY <1>2 DEF Devices
<1>3. /\ dev' \in Devices
      /\ ~dev'.gpio
      /\ dev'.rig <=> dev.rig
      /\ dev'.handle <=> dev.handle
      /\ dev'.open
  BY <1>2, TRUE \in BOOLEAN, FALSE \in BOOLEAN, Zenon DEF Reopen
<1>4. Soundness(worker'.at, worker'.remote, dev', physical', key', permitted')
  BY <1>1, <1>3 DEF Soundness, Serving, Dark
<1> QED
  BY <1>1, <1>3, <1>4, Settled

-----------------------------------------------------------------------------
(* Retirement.                                                             *)

\* A thread that stops retires a live generation before it closes the outputs.
LEMMA LeaveLoopKeeps ==
    ASSUME Inv, LeaveLoop
    PROVE  Inv'
<1> USE DEF Inv, Typed
<1>1. worker.at = "loop" /\ UNCHANGED <<setup, dev, physical, key, permitted>>
  BY DEF LeaveLoop, radio
<1>2. /\ worker' \in Workers /\ worker'.remote = worker.remote
      /\ worker'.at = IF Live THEN "retire" ELSE "close"
  <2>1. CASE Live
    <3>1. To("retire")
      BY <2>1, Zenon DEF LeaveLoop
    <3> QED
      BY <2>1, <3>1, Moved DEF Places
  <2>2. CASE ~Live
    <3>1. To("close")
      BY <2>2, Zenon DEF LeaveLoop
    <3> QED
      BY <2>2, <3>1, Moved DEF Places
  <2> QED
    BY <2>1, <2>2
<1>3. Soundness(worker'.at, worker'.remote, dev', physical', key', permitted')
  BY <1>1, <1>2 DEF Soundness, Serving, Live
<1> QED
  BY <1>1, <1>2, <1>3, Settled

\* A retirement that fails turns no line on.
LEMMA RetireFailsKeeps ==
    ASSUME Inv, RetireFails
    PROVE  Inv'
<1> USE DEF Inv, Typed
<1>1. worker.at = "retire" /\ UNCHANGED <<setup, worker>>
  BY DEF RetireFails
<1>2. CASE UNCHANGED radio
  <2>1. UNCHANGED <<dev, physical, key, permitted>>
    BY <1>2 DEF radio
  <2>2. Soundness(worker'.at, worker'.remote, dev', physical', key', permitted')
    BY <1>1, <2>1 DEF Soundness
  <2> QED
    BY <1>1, <2>1, <2>2, Settled
<1>3. CASE Unkey(FALSE)
  <2>1. ASSUME NEW ok \in BOOLEAN, ~ok, SetPtt(dev, FALSE, ok)
        PROVE  /\ Extinguished(dev, dev', ok)
               /\ key' \in BOOLEAN /\ ~key'
               /\ physical' \in {"unknown", "on", "off"}
               /\ physical' # "off"
    BY <2>1, PttCleared
  <2>2. SetPtt(dev, FALSE, FALSE) /\ permitted' \in BOOLEAN
    BY <1>3, Zenon DEF Unkey, UnkeyFrom
  <2>3. PICK ok \in BOOLEAN : ~ok /\ SetPtt(dev, FALSE, ok)
    BY <2>2, FALSE \in BOOLEAN, Zenon
  <2>4. /\ Extinguished(dev, dev', ok)
        /\ key' \in BOOLEAN /\ ~key'
        /\ physical' \in {"unknown", "on", "off"}
        /\ physical' # "off"
    BY <2>1, <2>3
  <2>5. dev' \in Devices
    BY <2>4 DEF Extinguished
  <2>6. Soundness(worker'.at, worker'.remote, dev', physical', key', permitted')
    BY <1>1, <2>4 DEF Soundness, Serving, Extinguished, Dark
  <2> QED
    BY <1>1, <2>2, <2>4, <2>5, <2>6, Settled
<1> QED
  BY <1>2, <1>3, Zenon DEF RetireFails

\* The rig is closed only after an unkey that succeeded; a retry that finds no handle
\* has nothing to close, and the line was off when the handle went.
LEMMA RetireSucceedsKeeps ==
    ASSUME Inv, RetireSucceeds
    PROVE  Inv'
<1> USE DEF Inv, Typed
<1>1. worker.at = "retire" /\ dev.open /\ UNCHANGED setup
  BY DEF RetireSucceeds
<1>2. CASE setup.rig /\ ~dev.handle
  <2>1. To("close") /\ UNCHANGED radio
    BY <1>2, Zenon DEF RetireSucceeds
  <2>2. worker' \in Workers /\ worker'.remote = worker.remote /\ worker'.at = "close"
    BY <2>1, Moved DEF Places
  <2>3. UNCHANGED <<dev, physical, key, permitted>>
    BY <2>1 DEF radio
  <2>4. Soundness(worker'.at, worker'.remote, dev', physical', key', permitted')
    BY <1>1, <1>2, <2>2, <2>3 DEF Soundness, Serving
  <2> QED
    BY <1>1, <2>2, <2>3, <2>4, Settled
<1>3. CASE ~(setup.rig /\ ~dev.handle)
  <2>1. /\ \E o \in PttAttempt(dev, FALSE) : o.ok /\ dev' = [o.dev EXCEPT !.handle = FALSE]
        /\ key' = FALSE /\ permitted' = FALSE /\ physical' = "off"
        /\ \E closed \in BOOLEAN :
              (closed \/ setup.rig) /\ To(IF closed THEN "close" ELSE "retire")
    BY <1>3, Zenon DEF RetireSucceeds
  <2>2. PICK o \in PttAttempt(dev, FALSE) : o.ok /\ dev' = [o.dev EXCEPT !.handle = FALSE]
    BY <2>1, Zenon
  <2>3. o.ok \in BOOLEAN /\ Extinguished(dev, o.dev, o.ok)
    BY UnkeyFacts
  <2>4. o.dev \in Devices
    BY <2>3 DEF Extinguished
  <2>5. ASSUME NEW h \in BOOLEAN, ~h, dev' = [o.dev EXCEPT !.handle = h]
        PROVE  /\ dev' \in Devices
               /\ ~dev'.handle
               /\ dev'.gpio <=> o.dev.gpio
               /\ dev'.rig <=> o.dev.rig
               /\ dev'.open <=> o.dev.open
    BY <2>4, <2>5, Handled
  <2>6. /\ dev' \in Devices
        /\ ~dev'.handle
        /\ dev'.gpio <=> o.dev.gpio
        /\ dev'.rig <=> o.dev.rig
        /\ dev'.open <=> o.dev.open
    BY <2>2, <2>5, FALSE \in BOOLEAN, Zenon
  <2>7. /\ key' \in BOOLEAN /\ ~key' /\ permitted' \in BOOLEAN
        /\ physical' = "off"
    BY <2>1, Zenon
  <2>8. PICK closed \in BOOLEAN :
              (closed \/ setup.rig) /\ To(IF closed THEN "close" ELSE "retire")
    BY <2>1, Zenon
  <2>9. /\ worker' \in Workers /\ worker'.remote = worker.remote
        /\ worker'.at \in {"close", "retire"}
    BY <2>8, Moved DEF Places
  <2>10. Soundness(worker'.at, worker'.remote, dev', physical', key', permitted')
    BY <1>1, <2>2, <2>3, <2>6, <2>7, <2>9 DEF Soundness, Serving, Extinguished, Dark
  <2> QED
    BY <1>1, <2>6, <2>7, <2>9, <2>10, Settled
<1> QED
  BY <1>2, <1>3

\* The outputs of a live generation are closed before the thread exits.
LEMMA CloseAtExitKeeps ==
    ASSUME Inv, NEW ok \in BOOLEAN, CloseAtExit(ok)
    PROVE  Inv'
<1> USE DEF Inv, Typed
<1>1. worker.at = "close" /\ UNCHANGED <<setup, physical, key, permitted>>
  BY DEF CloseAtExit
<1>2. PICK c \in IF dev.open THEN Closes(dev) ELSE {[dev |-> dev, ok |-> TRUE]} :
        c.ok = ok /\ dev' = c.dev
  BY Zenon DEF CloseAtExit
<1>3. /\ dev' \in Devices
      /\ dev'.handle <=> dev.handle
      /\ dev'.rig <=> dev.rig
      /\ dev'.gpio => dev.gpio
      /\ ok => ~dev'.gpio /\ ~dev'.open
      /\ ~ok => dev'.open
  <2>1. CASE dev.open
    <3>1. c \in Closes(dev)
      BY <1>2, <2>1, Zenon
    <3>2. c.ok \in BOOLEAN /\ Closed(dev, c.dev, c.ok)
      BY <3>1, CloseFacts
    <3> QED
      BY <1>2, <3>2 DEF Closed
  <2>2. CASE ~dev.open
    <3>1. c = [dev |-> dev, ok |-> TRUE]
      BY <1>2, <2>2, Zenon
    <3>2. ASSUME NEW yes \in BOOLEAN, yes, c = [dev |-> dev, ok |-> yes]
          PROVE  c.dev = dev /\ c.ok
      BY <3>2
    <3>3. c.dev = dev /\ c.ok
      BY <3>1, <3>2, TRUE \in BOOLEAN, Zenon
    <3>4. dev' = dev /\ ok
      BY <1>2, <3>3
    <3> QED
      BY <2>2, <3>4 DEF Soundness
  <2> QED
    BY <2>1, <2>2
<1>4. /\ worker' \in Workers /\ worker'.remote = worker.remote
      /\ worker'.at \in {"close", "exited"}
      /\ worker'.at = "exited" => ok \/ ~Live
  <2>1. CASE ok \/ ~Live
    <3>1. To("exited")
      BY <2>1, Zenon DEF CloseAtExit
    <3> QED
      BY <2>1, <3>1, Moved DEF Places
  <2>2. CASE ~(ok \/ ~Live)
    <3>1. To("close")
      BY <2>2, Zenon DEF CloseAtExit
    <3> QED
      BY <2>2, <3>1, Moved DEF Places
  <2> QED
    BY <2>1, <2>2
<1>5. Soundness(worker'.at, worker'.remote, dev', physical', key', permitted')
  BY <1>1, <1>3, <1>4 DEF Soundness, Serving, Dark, Live
<1> QED
  BY <1>1, <1>3, <1>4, <1>5, Settled

-----------------------------------------------------------------------------
(* The invariant.                                                          *)

\* What leaves the thread and its devices alone keeps the invariant.
LEMMA UntouchedKeeps ==
    ASSUME Inv, UNCHANGED <<setup, worker, radio>>
    PROVE  Inv'
<1> USE DEF Inv, Typed
<1>1. UNCHANGED <<setup, worker, dev, physical, key, permitted>>
  BY DEF radio
<1>2. Soundness(worker'.at, worker'.remote, dev', physical', key', permitted')
  BY <1>1 DEF Soundness
<1> QED
  BY <1>1, <1>2, Settled

\* At the start no generation exists.
LEMMA Initially == Init => Inv
<1> SUFFICES ASSUME Init
             PROVE  Inv
  OBVIOUS
<1>1. setup \in Setups /\ setup.rig \in BOOLEAN /\ setup.ptt \in {"gpio", "rig"}
  BY ConstantsAssumption DEF Init
<1>2. physical = "unknown" /\ key \in BOOLEAN /\ ~key /\ permitted \in BOOLEAN
  BY Zenon DEF Init
<1>3. ASSUME NEW no \in BOOLEAN, NEW yes \in BOOLEAN,
             worker = [at |-> "start", remote |-> "none", retiring |-> no, busy |-> no,
                       source |-> "idle", ok |-> yes]
      PROVE  worker \in Workers /\ worker.at = "start" /\ worker.remote = "none"
  BY <1>3 DEF Workers, Places, Fates
<1>4. worker \in Workers /\ worker.at = "start" /\ worker.remote = "none"
  BY <1>3, TRUE \in BOOLEAN, FALSE \in BOOLEAN, Zenon DEF Init
<1>5. ASSUME NEW no \in BOOLEAN, ~no, NEW yes \in BOOLEAN, yes, NEW on \in BOOLEAN,
             dev = [gpio |-> no, rig |-> on, handle |-> no, open |-> yes]
      PROVE  dev \in Devices /\ ~dev.gpio /\ (dev.rig <=> on) /\ ~dev.handle /\ dev.open
  BY <1>5 DEF Devices
<1>6. PICK keyed \in BOOLEAN :
        dev = [gpio |-> FALSE, rig |-> keyed /\ setup.ptt = "rig", handle |-> FALSE,
               open |-> TRUE]
  BY Zenon DEF Init
<1>7. /\ dev \in Devices /\ ~dev.gpio /\ ~dev.handle /\ dev.open
      /\ dev.rig <=> keyed /\ setup.ptt = "rig"
  BY <1>5, <1>6, (keyed /\ setup.ptt = "rig") \in BOOLEAN, TRUE \in BOOLEAN,
     FALSE \in BOOLEAN, Zenon
<1>8. Soundness(worker.at, worker.remote, dev, physical, key, permitted)
  BY <1>1, <1>2, <1>4, <1>7 DEF Soundness, Serving, Dark
<1> QED
  BY <1>1, <1>2, <1>4, <1>7, <1>8, Zenon DEF Inv, Typed

\* Every step keeps the invariant.
LEMMA Inductive == Inv /\ [Next]_vars => Inv'
<1> SUFFICES ASSUME Inv, [Next]_vars
             PROVE  Inv'
  OBVIOUS
<1>1. CASE Callers \/ RetirePort \/ RequestStop \/ Ended \/ UNCHANGED vars
  <2>1. UNCHANGED <<setup, worker, radio>>
    BY <1>1, Zenon
       DEF Callers, Submit, Push, SourceActive, Revoke, TakeStopped, RetirePort,
           RequestStop, Ended, vars
  <2> QED
    BY <2>1, UntouchedKeeps
<1>2. CASE \E ok \in BOOLEAN : Attempt(ok)
  <2>1. PICK ok \in BOOLEAN : Attempt(ok)
    BY <1>2, Zenon
  <2>2. \/ ProveStart(ok) \/ Reject(ok) \/ Prove(ok)
        \/ Keys(ok) \/ (\E tune \in BOOLEAN : Unkeys(ok, tune))
        \/ PublishControl(ok) \/ ServiceFailed(ok)
        \/ CycleFails(ok) \/ CloseAtExit(ok)
    BY <2>1, Zenon DEF Attempt
  <2> QED
    BY <2>2, ProveStartKeeps, RejectKeeps, ProveKeeps, KeysKeeps, UnkeysKeeps,
       PublishControlKeeps, ServiceFailedKeeps, CycleFailsKeeps, CloseAtExitKeeps, Zenon
<1>3. CASE Worker /\ ~(\E ok \in BOOLEAN : Attempt(ok))
  <2>1. \/ OpenFails \/ OpenRejected \/ OpenSucceeds
        \/ PollFails \/ BeginService \/ AdmitUrgent \/ Waits \/ ApplyState \/ Program
        \/ Acknowledge \/ (CompleteCritical \/ CompleteOrdinary) \/ AdmitOrdinary
        \/ (AuxiliaryStale \/ AuxiliaryWaits \/ AuxiliaryDue \/ WriteSetting)
        \/ TransmitIdle \/ TransmitIdleFails
        \/ Cycle \/ RetireDevices \/ RetireDevicesFails \/ Reopen \/ LeaveLoop
        \/ RetireFails \/ RetireSucceeds
    BY <1>3, Zenon DEF Worker
  <2> QED
    BY <2>1, OpenFailsKeeps, OpenRejectedKeeps, OpenSucceedsKeeps, PollFailsKeeps,
       BeginServiceKeeps, AdmitUrgentKeeps, WaitsKeeps, ApplyStateKeeps, ProgramKeeps,
       AcknowledgeKeeps, CompletionKeeps, AdmitOrdinaryKeeps, AuxiliaryKeeps,
       TransmitIdleKeeps, TransmitIdleFailsKeeps, CycleKeeps, RetireDevicesKeeps,
       RetireDevicesFailsKeeps, ReopenKeeps, LeaveLoopKeeps, RetireFailsKeeps,
       RetireSucceedsKeeps, Zenon
<1> QED
  BY <1>1, <1>2, <1>3, Zenon DEF Next

\* The thread's place, the lines and what is said of them agree at every step.
THEOREM GenerationInvariant == Spec => []Inv
  BY Initially, Inductive, PTL DEF Spec

\* What the station is told of PTT is true, and the radio is written only with every
\* output off (publish_physical_ptt, RemoteGeneration::service, RemoteOwner).
THEOREM PttWordIsTrue == Spec => []RadioIdleWhenSaid
<1>1. Inv => RadioIdleWhenSaid
  BY DEF Inv, Typed, Soundness, Dark, RadioIdleWhenSaid, KnownOffIsOff, RadioWrittenSafely
<1> QED
  BY <1>1, GenerationInvariant, PTL

\* The rig is never let go while it may be keyed (RemoteGeneration::open, retire).
THEOREM RigGivenUpUnkeyed == Spec => []ReleasedRigUnkeyed
<1>1. Inv => ReleasedRigUnkeyed
  BY DEF Inv, Typed, Soundness, Dark, Live, ReleasedRigUnkeyed
<1> QED
  BY <1>1, GenerationInvariant, PTL

-----------------------------------------------------------------------------
(* Tickets: who completes one last changes nothing.                        *)

\* What a step may make of one ticket: results come with being issued, and stay.
Follows(x, y) ==
    /\ y \in TicketStates
    /\ y.at \in {"new", "submitted"} => y.result = "none"
    /\ x.result # "none" => y.result = x.result

TicketStep ==
    /\ ticket' \in [Tickets -> TicketStates]
    /\ \A t \in Tickets : Follows(ticket[t], ticket'[t])
    /\ ordinary' \in Seq(Tickets) /\ urgent' \in Seq(Tickets)
    /\ engine' \in Engines

\* A step that takes every ticket where it may go keeps the tickets' invariant.
LEMMA TicketStepKeeps ==
    ASSUME TicketStep
    PROVE  TicketInv'
  BY DEF TicketStep, TicketInv, Follows

\* A ticket that stays is where it may go.
LEMMA TicketSame ==
    ASSUME TicketInv, NEW t \in Tickets
    PROVE  Follows(ticket[t], ticket[t])
  BY DEF TicketInv, Follows

\* A step on one ticket leaves the others alone.
LEMMA OneTicket ==
    ASSUME TicketInv, NEW t \in Tickets, NEW x, Follows(ticket[t], x),
           ticket' = [ticket EXCEPT ![t] = x]
    PROVE  /\ ticket' \in [Tickets -> TicketStates]
           /\ \A u \in Tickets : Follows(ticket[u], ticket'[u])
<1>1. x \in TicketStates
  BY DEF Follows
<1>2. ticket' \in [Tickets -> TicketStates]
  BY <1>1 DEF TicketInv
<1>3. ASSUME NEW u \in Tickets
      PROVE  Follows(ticket[u], ticket'[u])
  <2>1. ticket'[u] = IF u = t THEN x ELSE ticket[u]
    BY DEF TicketInv
  <2> QED
    BY <2>1, TicketSame
<1> QED
  BY <1>2, <1>3

\* The source of a ticket.
LEMMA TicketSourced ==
    ASSUME NEW x \in TicketStates, NEW v \in BOOLEAN, NEW c \in BOOLEAN
    PROVE  /\ [x EXCEPT !.valid = v, !.active = c] \in TicketStates
           /\ [x EXCEPT !.valid = v, !.active = c].at = x.at
           /\ [x EXCEPT !.valid = v, !.active = c].result = x.result
  BY DEF TicketStates

\* Completing a ticket that has a result keeps that result.
LEMMA CompletedFacts ==
    ASSUME NEW x \in TicketStates, NEW r \in {"ok", "error"}
    PROVE  /\ Completed(x, r) \in TicketStates
           /\ Completed(x, r).at = x.at
           /\ x.result # "none" => Completed(x, r).result = x.result
<1>1. CASE x.result = "none"
  <2>1. Completed(x, r) = [x EXCEPT !.result = r]
    BY <1>1, Zenon DEF Completed
  <2> QED
    BY <1>1, <2>1 DEF TicketStates, Results
<1>2. CASE x.result # "none"
  <2>1. Completed(x, r) = x
    BY <1>2, Zenon DEF Completed
  <2> QED
    BY <2>1
<1> QED
  BY <1>1, <1>2

\* A finished ticket is where it may go.
LEMMA FinishedFacts ==
    ASSUME TicketInv, NEW t \in Tickets, NEW r \in {"ok", "error"}
    PROVE  Follows(ticket[t], Finished(t, r))
<1>1. ticket[t] \in TicketStates
  BY DEF TicketInv
<1>2. Outcome(t, r) \in {"ok", "error"}
  BY Zenon DEF Outcome
<1> DEFINE x == Completed(ticket[t], Outcome(t, r))
<1>3. /\ x \in TicketStates
      /\ ticket[t].result # "none" => x.result = ticket[t].result
  BY <1>1, <1>2, CompletedFacts
<1>4. Finished(t, r) = [x EXCEPT !.at = "done", !.valid = FALSE, !.active = FALSE]
  BY Zenon DEF Finished
<1> HIDE DEF x
<1>5. ASSUME NEW no \in BOOLEAN, NEW y, y = [x EXCEPT !.at = "done", !.valid = no, !.active = no]
      PROVE  y \in TicketStates /\ y.at = "done" /\ y.result = x.result
  BY <1>3, <1>5 DEF TicketStates
<1>6. /\ Finished(t, r) \in TicketStates
      /\ Finished(t, r).at = "done"
      /\ Finished(t, r).result = x.result
  BY <1>4, <1>5, FALSE \in BOOLEAN, Zenon
<1> QED
  BY <1>3, <1>6 DEF Follows

\* Finishing one ticket is a step of the tickets.
LEMMA FinishStep ==
    ASSUME TicketInv, NEW t \in Tickets, NEW r \in {"ok", "error"}, Finish(t, r)
    PROVE  /\ ticket' \in [Tickets -> TicketStates]
           /\ \A u \in Tickets : Follows(ticket[u], ticket'[u])
<1>1. ticket' = [ticket EXCEPT ![t] = Finished(t, r)]
  BY Zenon DEF Finish
<1> QED
  BY <1>1, FinishedFacts, OneTicket

\* Moving one ticket along the queues is a step of the tickets.
LEMMA PlaceStep ==
    ASSUME TicketInv, NEW t \in Tickets,
           NEW a \in {"queued", "pending", "auxiliary"},
           ticket' = [ticket EXCEPT ![t].at = a]
    PROVE  /\ ticket' \in [Tickets -> TicketStates]
           /\ \A u \in Tickets : Follows(ticket[u], ticket'[u])
<1>1. ticket[t] \in TicketStates
  BY DEF TicketInv
<1> DEFINE x == [ticket[t] EXCEPT !.at = a]
<1>2. x \in TicketStates /\ x.at = a /\ x.result = ticket[t].result
  BY <1>1 DEF TicketStates
<1>3. ticket' = [ticket EXCEPT ![t] = x]
  BY Zenon
<1> HIDE DEF x
<1>4. Follows(ticket[t], x)
  BY <1>2 DEF Follows
<1> QED
  BY <1>3, <1>4, OneTicket

\* A step that leaves tickets and work alone.
LEMMA TicketsLeft ==
    ASSUME TicketInv, UNCHANGED ticket
    PROVE  /\ ticket' \in [Tickets -> TicketStates]
           /\ \A u \in Tickets : Follows(ticket[u], ticket'[u])
  BY TicketSame DEF TicketInv

\* What callers do takes every ticket where it may go.
LEMMA CallersStep ==
    ASSUME TicketInv, Callers
    PROVE  TicketStep
<1> USE DEF TicketInv
<1>1. PICK t \in Tickets : Submit(t) \/ Push(t) \/ SourceActive(t) \/ Revoke(t) \/ TakeStopped(t)
  BY Zenon DEF Callers
<1>2. ticket[t] \in TicketStates /\ engine' = engine
  BY <1>1 DEF Submit, Push, SourceActive, Revoke, TakeStopped
<1>3. ASSUME NEW no \in BOOLEAN, NEW x, x = [at |-> "new", valid |-> no, active |-> no,
                                             result |-> "none"]
      PROVE  x \in TicketStates /\ x.at = "new" /\ x.result = "none"
  BY <1>3 DEF TicketStates, Results
<1>4. NewTicket \in TicketStates /\ NewTicket.at = "new" /\ NewTicket.result = "none"
  BY <1>3, FALSE \in BOOLEAN, Zenon DEF NewTicket
<1>5. CASE Submit(t)
  <2>1. ticket[t].at = "new" /\ UNCHANGED <<ordinary, urgent>>
    BY <1>5 DEF Submit, port
  <2>2. PICK active \in BOOLEAN :
          ticket' = [ticket EXCEPT ![t] =
                [NewTicket EXCEPT !.at = "submitted", !.valid = TRUE, !.active = active]]
    BY <1>5, Zenon DEF Submit
  <2> DEFINE x == [NewTicket EXCEPT !.at = "submitted", !.valid = TRUE, !.active = active]
  <2>3. ASSUME NEW yes \in BOOLEAN, NEW y,
               y = [NewTicket EXCEPT !.at = "submitted", !.valid = yes, !.active = active]
        PROVE  y \in TicketStates /\ y.result = "none"
    BY <1>4, <2>3 DEF TicketStates
  <2>4. x \in TicketStates /\ x.result = "none"
    BY <2>3, TRUE \in BOOLEAN, Zenon
  <2>5. ticket' = [ticket EXCEPT ![t] = x]
    BY <2>2, Zenon
  <2> HIDE DEF x
  <2>6. ticket[t].result = "none"
    BY <2>1
  <2>7. Follows(ticket[t], x)
    BY <2>4, <2>6 DEF Follows
  <2> QED
    BY <1>2, <2>1, <2>5, <2>7, OneTicket DEF TicketStep
<1>6. CASE Push(t)
  <2>1. ticket[t].result = "none"
    BY <1>6 DEF Push
  <2>2. CASE Room(t)
    <3>1. ticket' = [ticket EXCEPT ![t].at = "queued"]
      BY <1>6, <2>2, Zenon DEF Push
    <3>2. \/ urgent' = Append(urgent, t) /\ ordinary' = ordinary
          \/ ordinary' = Append(ordinary, t) /\ urgent' = urgent
      BY <1>6, <2>2, Zenon DEF Push
    <3>3. Append(urgent, t) \in Seq(Tickets) /\ Append(ordinary, t) \in Seq(Tickets)
      OBVIOUS
    <3>4. ordinary' \in Seq(Tickets) /\ urgent' \in Seq(Tickets)
      BY <3>2, <3>3, Zenon
    <3> QED
      BY <1>2, <3>1, <3>4, PlaceStep DEF TicketStep
  <2>3. CASE ~Room(t)
    <3>1. ticket' = [ticket EXCEPT ![t] = NewTicket] /\ UNCHANGED <<ordinary, urgent>>
      BY <1>6, <2>3, Zenon DEF Push
    <3>2. Follows(ticket[t], NewTicket)
      BY <1>4, <2>1 DEF Follows
    <3> QED
      BY <1>2, <3>1, <3>2, OneTicket DEF TicketStep
  <2> QED
    BY <2>2, <2>3
<1>7. CASE SourceActive(t)
  <2>1. /\ ticket[t].at \notin {"new", "submitted"} /\ UNCHANGED <<ordinary, urgent>>
        /\ ticket' = [ticket EXCEPT ![t].active = ~@]
    BY <1>7, Zenon DEF SourceActive, Issued, port
  <2> DEFINE x == [ticket[t] EXCEPT !.active = ~ticket[t].active]
  <2>2. ASSUME NEW c \in BOOLEAN, NEW y, y = [ticket[t] EXCEPT !.active = c]
        PROVE  y \in TicketStates /\ y.at = ticket[t].at /\ y.result = ticket[t].result
    BY <1>2, <2>2 DEF TicketStates
  <2>3. x \in TicketStates /\ x.at = ticket[t].at /\ x.result = ticket[t].result
    BY <2>2, (~ticket[t].active) \in BOOLEAN, Zenon
  <2>4. ticket' = [ticket EXCEPT ![t] = x]
    BY <2>1, Zenon
  <2> HIDE DEF x
  <2>5. Follows(ticket[t], x)
    BY <2>1, <2>3 DEF Follows
  <2> QED
    BY <1>2, <2>1, <2>4, <2>5, OneTicket DEF TicketStep
<1>8. CASE Revoke(t)
  <2>1. /\ ticket[t].at \notin {"new", "submitted"} /\ UNCHANGED <<ordinary, urgent>>
        /\ ticket' = [ticket EXCEPT ![t].valid = FALSE, ![t].active = FALSE]
    BY <1>8, Zenon DEF Revoke, Issued, port
  <2>2. ASSUME NEW no \in BOOLEAN, ticket' = [ticket EXCEPT ![t].valid = no, ![t].active = no]
        PROVE  ticket' = [ticket EXCEPT ![t] = [ticket[t] EXCEPT !.valid = no, !.active = no]]
    BY <1>2, <2>2
  <2>3. PICK no \in BOOLEAN :
          ticket' = [ticket EXCEPT ![t] = [ticket[t] EXCEPT !.valid = no, !.active = no]]
    BY <2>1, <2>2, FALSE \in BOOLEAN, Zenon
  <2>4. Follows(ticket[t], [ticket[t] EXCEPT !.valid = no, !.active = no])
    BY <1>2, <2>1, TicketSourced DEF Follows
  <2> QED
    BY <1>2, <2>1, <2>3, <2>4, OneTicket DEF TicketStep
<1>9. CASE TakeStopped(t)
  <2>1. /\ ticket[t].at \notin {"new", "submitted"} /\ UNCHANGED <<ordinary, urgent>>
        /\ ticket' = [ticket EXCEPT ![t] = Completed(ticket[t], "error")]
    BY <1>9, Zenon DEF TakeStopped, Issued, port
  <2>2. Follows(ticket[t], Completed(ticket[t], "error"))
    BY <1>2, <2>1, CompletedFacts DEF Follows
  <2> QED
    BY <1>2, <2>1, <2>2, OneTicket DEF TicketStep
<1> QED
  BY <1>1, <1>5, <1>6, <1>7, <1>8, <1>9, Zenon

\* Whatever admission decides.
LEMMA AdmitStep ==
    ASSUME TicketInv, NEW t \in Tickets, Admit(t)
    PROVE  /\ ticket' \in [Tickets -> TicketStates]
           /\ \A u \in Tickets : Follows(ticket[u], ticket'[u])
           /\ engine' \in Engines
<1>1. CASE (Finish(t, "error") \/ Finish(t, "ok")) /\ engine' = engine
  BY <1>1, FinishStep DEF TicketInv
<1>2. CASE ticket' = [ticket EXCEPT ![t].at = "auxiliary"] /\ engine' = engine
  BY <1>2, PlaceStep DEF TicketInv
<1>3. CASE ToEngine(t)
  <2>1. ticket' = [ticket EXCEPT ![t].at = "pending"]
    BY <1>3, Zenon DEF ToEngine
  <2>2. \/ engine' = [engine EXCEPT !.critical = t]
        \/ engine' = [engine EXCEPT !.op = t, !.outcome = "none"]
    BY <1>3, Zenon DEF ToEngine
  <2>3. engine' \in Engines
    BY <2>2 DEF TicketInv, Engines, Results
  <2> QED
    BY <2>1, <2>3, PlaceStep
<1> QED
  BY <1>1, <1>2, <1>3, Zenon DEF Admit

\* Admission answers a ticket, keeps it or hands it to the engine.
LEMMA AdmissionStep ==
    ASSUME TicketInv, AdmitUrgent \/ AdmitOrdinary
    PROVE  TicketStep
<1> USE DEF TicketInv
<1>1. CASE AdmitUrgent
  <2>1. ordinary' = ordinary
    BY <1>1, Zenon DEF AdmitUrgent
  <2>2. CASE urgent = <<>>
    <3>1. UNCHANGED <<urgent, ticket, engine>>
      BY <1>1, <2>2, Zenon DEF AdmitUrgent
    <3> QED
      BY <2>1, <3>1, TicketsLeft DEF TicketStep
  <2>3. CASE urgent # <<>>
    <3>1. Admit(Head(urgent)) /\ urgent' = Tail(urgent)
      BY <1>1, <2>3, Zenon DEF AdmitUrgent
    <3>2. Head(urgent) \in Tickets /\ urgent' \in Seq(Tickets)
      BY <2>3, <3>1
    <3> QED
      BY <2>1, <3>1, <3>2, AdmitStep DEF TicketStep
  <2> QED
    BY <2>2, <2>3
<1>2. CASE AdmitOrdinary
  <2>1. urgent' = urgent
    BY <1>2, Zenon DEF AdmitOrdinary
  <2>2. CASE Waiting # {} \/ ordinary = <<>>
    <3>1. UNCHANGED <<ordinary, ticket, engine>>
      BY <1>2, <2>2, Zenon DEF AdmitOrdinary
    <3> QED
      BY <2>1, <3>1, TicketsLeft DEF TicketStep
  <2>3. CASE ~(Waiting # {} \/ ordinary = <<>>)
    <3>1. Admit(Head(ordinary)) /\ ordinary' = Tail(ordinary)
      BY <1>2, <2>3, Zenon DEF AdmitOrdinary
    <3>2. Head(ordinary) \in Tickets /\ ordinary' \in Seq(Tickets)
      BY <2>3, <3>1
    <3> QED
      BY <2>1, <3>1, <3>2, AdmitStep DEF TicketStep
  <2> QED
    BY <2>2, <2>3
<1> QED
  BY <1>1, <1>2

\* apply_state and what follows it: only the engine's outcome is set.
LEMMA ApplyingStep ==
    ASSUME TicketInv, ApplyState \/ Program \/ Acknowledge
    PROVE  TicketStep
<1> USE DEF TicketInv
<1>1. UNCHANGED <<ordinary, urgent, ticket>>
  BY Zenon DEF ApplyState, Program, Acknowledge, port
<1>2. engine' = engine \/ \E r \in {"ok", "error"} : engine' = [engine EXCEPT !.outcome = r]
  BY Zenon DEF ApplyState, Program, Acknowledge, ApplyEnds
<1>3. engine' \in Engines
  <2>1. CASE engine' = engine
    BY <2>1
  <2>2. CASE \E r \in {"ok", "error"} : engine' = [engine EXCEPT !.outcome = r]
    BY <2>2 DEF Engines, Results
  <2> QED
    BY <1>2, <2>1, <2>2
<1> QED
  BY <1>1, <1>3, TicketsLeft DEF TicketStep

\* Completion answers the ticket at hand, if nobody has.
LEMMA CompletionStep ==
    ASSUME TicketInv, CompleteCritical \/ CompleteOrdinary
    PROVE  TicketStep
<1> USE DEF TicketInv
<1>1. UNCHANGED <<ordinary, urgent>>
  BY Zenon DEF CompleteCritical, CompleteOrdinary
<1>2. CASE CompleteCritical
  <2>1. engine.critical \in Tickets
    BY <1>2 DEF CompleteCritical, Engines
  <2>2. Finish(engine.critical, "ok") \/ Finish(engine.critical, "error")
    BY <1>2, Zenon DEF CompleteCritical
  <2>3. PICK outcome \in {engine.outcome} \union (IF engine.op # "none" THEN {"error"} ELSE {}) :
          engine' = [engine EXCEPT !.critical = "none", !.outcome = outcome]
    BY <1>2, Zenon DEF CompleteCritical
  <2>4. engine' \in Engines
    BY <2>3 DEF Engines, Results
  <2> QED
    BY <1>1, <2>1, <2>2, <2>4, FinishStep DEF TicketStep
<1>3. CASE CompleteOrdinary
  <2>1. engine' = [engine EXCEPT !.op = IF OrdinaryEnds THEN "none" ELSE engine.op,
                                 !.outcome = "none"]
    BY <1>3, Zenon DEF CompleteOrdinary
  <2>2. engine' \in Engines
    BY <2>1 DEF Engines, Results
  <2>3. CASE Ordinary /\ OrdinaryEnds
    <3>1. Finish(engine.op, "ok") \/ Finish(engine.op, "error")
      BY <1>3, <2>3, Zenon DEF CompleteOrdinary
    <3>2. engine.op \in Tickets
      BY <2>3, Zenon DEF Ordinary
    <3> QED
      BY <1>1, <2>2, <3>1, <3>2, FinishStep DEF TicketStep
  <2>4. CASE ~(Ordinary /\ OrdinaryEnds)
    <3>1. ticket' = ticket
      BY <1>3, <2>4, Zenon DEF CompleteOrdinary
    <3> QED
      BY <1>1, <2>2, <3>1, TicketsLeft DEF TicketStep
  <2> QED
    BY <2>3, <2>4
<1> QED
  BY <1>2, <1>3

\* The kept auxiliary request is finished, or kept.
LEMMA SettingStep ==
    ASSUME TicketInv, AuxiliaryStale \/ TransmitIdleFails \/ WriteSetting
    PROVE  TicketStep
<1> USE DEF TicketInv
<1>1. UNCHANGED <<ordinary, urgent, engine>>
  BY Zenon DEF AuxiliaryStale, TransmitIdleFails, WriteSetting
<1>2. \/ ticket' = ticket
      \/ \E t \in Tickets : Finish(t, "ok") \/ Finish(t, "error")
  BY Zenon DEF AuxiliaryStale, TransmitIdleFails, WriteSetting, Waiting
<1>3. CASE ticket' = ticket
  BY <1>1, <1>3, TicketsLeft DEF TicketStep
<1>4. CASE \E t \in Tickets : Finish(t, "ok") \/ Finish(t, "error")
  <2>1. PICK t \in Tickets : Finish(t, "ok") \/ Finish(t, "error")
    BY <1>4
  <2> QED
    BY <1>1, <2>1, FinishStep DEF TicketStep
<1> QED
  BY <1>2, <1>3, <1>4

\* Retirement answers the tickets the owner still keeps.
LEMMA RetirementStep ==
    ASSUME TicketInv, RetireFails \/ RetireSucceeds
    PROVE  TicketStep
<1> USE DEF TicketInv
<1>1. OwnerRetired /\ UNCHANGED <<ordinary, urgent>>
  BY Zenon DEF RetireFails, RetireSucceeds
<1>2. ticket' = [t \in Tickets |-> IF t \in Kept THEN Finished(t, "error") ELSE ticket[t]]
  BY <1>1, Zenon DEF OwnerRetired
<1>3. ASSUME NEW t \in Tickets
      PROVE  Follows(ticket[t], ticket'[t])
  <2>1. ticket'[t] = IF t \in Kept THEN Finished(t, "error") ELSE ticket[t]
    BY <1>2
  <2>2. Follows(ticket[t], Finished(t, "error"))
    BY FinishedFacts
  <2> QED
    BY <2>1, <2>2, TicketSame
<1>4. ticket' \in [Tickets -> TicketStates]
  <2>1. ASSUME NEW t \in Tickets
        PROVE  (IF t \in Kept THEN Finished(t, "error") ELSE ticket[t]) \in TicketStates
    <3>1. Follows(ticket[t], Finished(t, "error"))
      BY FinishedFacts
    <3> QED
      BY <3>1 DEF Follows
  <2> QED
    BY <1>2, <2>1, Zenon
<1>5. engine' = [engine EXCEPT !.op = "none", !.critical = "none", !.outcome = "none"]
  BY <1>1, Zenon DEF OwnerRetired
<1>6. engine' \in Engines
  BY <1>5 DEF Engines, Results
<1> QED
  BY <1>1, <1>3, <1>4, <1>6, Zenon DEF TicketStep

\* Every step takes every ticket where it may go.
LEMMA TicketsStep ==
    ASSUME TicketInv, [Next]_vars
    PROVE  TicketStep
<1>1. CASE UNCHANGED <<ordinary, urgent, ticket, engine>>
  BY <1>1, TicketsLeft DEF TicketInv, TicketStep
<1>2. CASE RetirePort \/ RequestStop \/ Ended \/ UNCHANGED vars
  <2>1. UNCHANGED <<ordinary, urgent, ticket, engine>>
    BY <1>2, Zenon DEF RetirePort, RequestStop, Ended, vars, port
  <2> QED
    BY <1>1, <2>1
<1>3. CASE \E ok \in BOOLEAN : Attempt(ok)
  <2>1. UNCHANGED <<ordinary, urgent, ticket, engine>>
    BY <1>3, Zenon
       DEF Attempt, ProveStart, Reject, Prove, Keys, Unkeys, PublishControl, ServiceFailed,
           CycleFails, CloseAtExit, port
  <2> QED
    BY <1>1, <2>1
<1>4. CASE \/ OpenFails \/ OpenRejected \/ OpenSucceeds \/ PollFails \/ BeginService
           \/ Waits \/ AuxiliaryWaits \/ AuxiliaryDue \/ TransmitIdle
           \/ Cycle \/ RetireDevices \/ RetireDevicesFails \/ Reopen \/ LeaveLoop
  <2>1. UNCHANGED <<ordinary, urgent, ticket, engine>>
    BY <1>4, Zenon
       DEF OpenFails, OpenRejected, OpenSucceeds, PollFails, BeginService, Waits,
           AuxiliaryWaits, AuxiliaryDue, TransmitIdle, Cycle, RetireDevices,
           RetireDevicesFails, Reopen, LeaveLoop, port
  <2> QED
    BY <1>1, <2>1
<1>5. CASE \/ Callers
           \/ (AdmitUrgent \/ AdmitOrdinary) \/ (ApplyState \/ Program \/ Acknowledge)
           \/ (CompleteCritical \/ CompleteOrdinary)
           \/ (AuxiliaryStale \/ TransmitIdleFails \/ WriteSetting)
           \/ (RetireFails \/ RetireSucceeds)
  BY <1>5, CallersStep, AdmissionStep, ApplyingStep, CompletionStep, SettingStep,
     RetirementStep, Zenon
<1> QED
  BY <1>2, <1>3, <1>4, <1>5, Zenon DEF Next, Worker

\* At the start no ticket is issued.
LEMMA TicketsInitially == Init => TicketInv
<1> SUFFICES ASSUME Init
             PROVE  TicketInv
  OBVIOUS
<1>1. ASSUME NEW no \in BOOLEAN, NEW x, x = [at |-> "new", valid |-> no, active |-> no,
                                             result |-> "none"]
      PROVE  x \in TicketStates /\ x.result = "none"
  BY <1>1 DEF TicketStates, Results
<1>2. NewTicket \in TicketStates /\ NewTicket.result = "none"
  BY <1>1, FALSE \in BOOLEAN, Zenon DEF NewTicket
<1>3. ticket = [t \in Tickets |-> NewTicket] /\ ordinary = <<>> /\ urgent = <<>>
  BY Zenon DEF Init
<1>4. engine \in Engines
  BY DEF Init, Engines, Results
<1> QED
  BY <1>2, <1>3, <1>4 DEF TicketInv

\* Only issued tickets have results.
THEOREM TicketInvariant == Spec => []TicketInv
<1>1. TicketInv /\ [Next]_vars => TicketInv'
  BY TicketsStep, TicketStepKeeps
<1> QED
  BY <1>1, TicketsInitially, PTL DEF Spec

\* A ticket has one result (TicketState::complete): the caller that finds the port
\* retired and the thread that completes or drops the work race for it.
THEOREM ResultIsFinal == Spec => OneResult
<1>1. TicketInv /\ [Next]_vars =>
        [\A t \in Tickets : ticket[t].result # "none" => ticket'[t].result = ticket[t].result]_vars
  BY TicketsStep DEF TicketStep, Follows
<1> QED
  BY <1>1, TicketInvariant, PTL DEF Spec, OneResult

=============================================================================
