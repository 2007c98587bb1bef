----------------------- MODULE HardwareServiceProofs -----------------------
(***************************************************************************)
(* Proofs about HardwareService for every set of site bindings, every      *)
(* number of ownership tokens and every length of the command queue.       *)
(***************************************************************************)
EXTENDS HardwareService, TLAPS

Devices ==
    [ptt : BOOLEAN, pin : BOOLEAN, pulse : BOOLEAN, usb : BOOLEAN, port : BOOLEAN,
     level : BOOLEAN, cm119 : BOOLEAN, parallel : BOOLEAN]

Banks ==
    [pin : BOOLEAN, claimed : BOOLEAN, safe : BOOLEAN, generation : 0 .. (MaxGeneration - 1)]

Staged ==
    [pin : BOOLEAN, safe : BOOLEAN, promise : SUBSET BOOLEAN, present : BOOLEAN]

Commands ==
    [kind : {"level", "pulse", "bind", "publish", "snapshot", "abandoned"}, generation : Nat,
     claim : BOOLEAN, high : BOOLEAN, safe : BOOLEAN, current : BOOLEAN]

\* Types, in a form that the proofs use.
Typed ==
    /\ native \in BOOLEAN /\ request \in BOOLEAN /\ stop \in BOOLEAN /\ granted \in BOOLEAN
    /\ owner \in [at : {"stopped", "running", "waiting", "stopping"}, retiring : BOOLEAN,
                  pending : Staged]
    /\ worker \in [at : {"none", "loop", "commands", "exited"}, retiring : BOOLEAN]
    /\ bank \in Banks
    /\ dev \in Devices
    /\ cache \in [generation : Nat, claimed : BOOLEAN, current : BOOLEAN]
    /\ token \in 1 .. MaxGeneration
    /\ promise \in SUBSET BOOLEAN

QueueTyped == queue \in Seq(Commands) /\ Len(queue) <= QueueCapacity

\* Who holds which device, at every point of the owner and of the thread.
HoldsInv ==
    /\ (worker.at = "none") = (owner.at = "stopped")
    /\ owner.retiring => owner.at = "stopped"
    /\ owner.at = "stopped" /\ ~owner.retiring => ~dev.cm119 /\ ~dev.parallel
    /\ worker.at = "commands" => ~worker.retiring /\ dev.cm119 /\ dev.parallel
    /\ worker.at = "loop" => IF worker.retiring THEN dev.cm119 ELSE (dev.cm119 <=> dev.parallel)
    /\ worker.at = "exited" /\ ~worker.retiring => ~dev.cm119 /\ ~dev.parallel
    /\ ~dev.cm119 => ~dev.usb
    /\ ~dev.parallel => ~dev.port

\* A bank is in use by the thread, or by the owner that has to close it.
InUse == worker.at # "none" \/ owner.retiring

\* What is promised about the pin is what the bank, a closed device and a staged
\* state hold.
PromiseInv ==
    /\ \A level \in promise :
          /\ InUse => bank.pin = level /\ bank.safe = level
          /\ ~dev.cm119 => dev.level = level
    /\ \A level \in owner.pending.promise : owner.pending.pin = level /\ owner.pending.safe = level
    /\ InUse /\ bank.claimed => promise = IF bank.generation = 0 THEN {bank.safe} ELSE {}
    /\ worker.at = "loop" /\ (worker.retiring \/ ~dev.cm119) => bank.generation = 0
    /\ worker.at = "exited" \/ owner.retiring => bank.generation = 0

\* A token in circulation was drawn, and only requests of the ownership in force
\* carry its token.
TokenInv ==
    /\ bank.generation < token
    /\ cache.generation < token
    /\ cache.generation # 0 /\ cache.generation = bank.generation => cache.current
    /\ \A i \in 1 .. Len(queue) :
          /\ queue[i].generation < token
          /\ queue[i].kind = "publish" /\ ValidGeneration(queue[i].generation) => queue[i].current

ClaimInv == bank.claimed /\ bank.generation # 0 => bank.pin = granted /\ ~dev.pulse

Inv == Typed /\ QueueTyped /\ HoldsInv /\ PromiseInv /\ TokenInv /\ ClaimInv

-----------------------------------------------------------------------------
(* What an attempt to write the CM119 report does: the handles and the     *)
(* port stay, a pulse may only stop, and success means the lines are set.  *)
LEMMA Cm119Facts ==
    ASSUME NEW d \in Devices, NEW ptt \in BOOLEAN, NEW pin \in BOOLEAN, NEW pulse \in BOOLEAN,
           NEW o \in Cm119Drives(d, ptt, pin, pulse)
    PROVE  /\ o.dev \in Devices /\ o.ok \in BOOLEAN
           /\ o.dev.cm119 = d.cm119 /\ o.dev.parallel = d.parallel /\ o.dev.port = d.port
           /\ o.dev.pulse \in {d.pulse, pulse}
           /\ o.ok => o.dev.usb = ptt
           /\ o.ok /\ ~pulse => o.dev.level = pin
  <1> DEFINE level == (pin # pulse)
             new == [d EXCEPT !.ptt = ptt, !.pin = pin, !.pulse = pulse]
             driven == [new EXCEPT !.usb = ptt, !.level = level]
  <1>1. level \in BOOLEAN
    BY Zenon
  <1>2. Cm119Drives(d, ptt, pin, pulse) =
            {[dev |-> x, ok |-> FALSE] : x \in {d, [d EXCEPT !.pulse = pulse], new, driven}}
            \union {[dev |-> driven, ok |-> TRUE]}
    BY Zenon DEF Cm119Drives
  <1> HIDE DEF level
  <1>3. \/ \E x \in {d, [d EXCEPT !.pulse = pulse], new, driven} : o = [dev |-> x, ok |-> FALSE]
        \/ o = [dev |-> driven, ok |-> TRUE]
    BY <1>2, Zenon
  <1>4. /\ o.dev \in {d, [d EXCEPT !.pulse = pulse], new, driven} /\ o.ok \in BOOLEAN
        /\ o.ok => o.dev = driven
    <2> HIDE DEF new, driven
    <2>1. CASE o = [dev |-> driven, ok |-> TRUE]
      BY <2>1
    <2>2. ASSUME NEW x \in {d, [d EXCEPT !.pulse = pulse], new, driven},
                 o = [dev |-> x, ok |-> FALSE]
          PROVE  o.dev = x /\ o.ok = FALSE
      BY <2>2
    <2> QED BY <1>3, <2>1, <2>2, Zenon
  <1>5. \A x \in {d, [d EXCEPT !.pulse = pulse], new, driven} :
            /\ x \in Devices
            /\ x.cm119 = d.cm119 /\ x.parallel = d.parallel /\ x.port = d.port
            /\ x.pulse \in {d.pulse, pulse}
    BY <1>1 DEF Devices
  <1>6. driven.usb = ptt /\ driven.level = level
    BY DEF Devices
  <1> QED
    <2> HIDE DEF new, driven
    <2>1. o.ok => o.dev.usb = ptt /\ o.dev.level = level
      BY <1>4, <1>6
    <2>2. ~pulse => level = pin
      BY Zenon DEF level
    <2> QED BY <1>4, <1>5, <2>1, <2>2, Zenon

(* A write to the parallel port changes its line and nothing else.         *)
LEMMA ParallelFacts ==
    ASSUME NEW d \in Devices, NEW ptt \in BOOLEAN, NEW o \in ParallelDrives(d, ptt)
    PROVE  /\ o.dev \in Devices /\ o.ok \in BOOLEAN
           /\ o.dev.cm119 = d.cm119 /\ o.dev.parallel = d.parallel /\ o.dev.usb = d.usb
           /\ o.dev.pulse = d.pulse /\ o.dev.level = d.level
           /\ o.ok => o.dev.port = ptt
  <1> DEFINE new == [d EXCEPT !.port = ptt]
  <1>1. o \in {[dev |-> d, ok |-> FALSE], [dev |-> new, ok |-> FALSE], [dev |-> new, ok |-> TRUE]}
    BY Zenon DEF ParallelDrives
  <1>2. /\ new \in Devices
        /\ new.cm119 = d.cm119 /\ new.parallel = d.parallel /\ new.usb = d.usb
        /\ new.pulse = d.pulse /\ new.level = d.level /\ new.port = ptt
    BY DEF Devices
  <1> HIDE DEF new
  <1>3. (o.dev = d /\ o.ok = FALSE) \/ (o.dev = new /\ o.ok = FALSE) \/ (o.dev = new /\ o.ok = TRUE)
    BY <1>1
  <1> QED
    BY <1>2, <1>3

(* Closing the port lets the handle go only with the line off.             *)
LEMMA ParallelClosesFacts ==
    ASSUME NEW d \in Devices, ~d.parallel => ~d.port, NEW o \in ParallelCloses(d)
    PROVE  /\ o.dev \in Devices /\ o.ok \in BOOLEAN
           /\ o.dev.cm119 = d.cm119 /\ o.dev.usb = d.usb
           /\ o.dev.pulse = d.pulse /\ o.dev.level = d.level
           /\ ~o.dev.parallel => ~o.dev.port
           /\ o.ok => ~o.dev.parallel
  <1>1. CASE ~d.parallel
    <2>1. o = [dev |-> d, ok |-> TRUE]
      BY <1>1, Zenon DEF ParallelCloses
    <2>2. o.dev = d /\ o.ok = TRUE
      BY <2>1
    <2> QED
      BY <1>1, <2>2
  <1>2. CASE d.parallel
    <2>1. PICK x \in ParallelDrives(d, FALSE) : o = [dev |-> [x.dev EXCEPT !.parallel = ~x.ok], ok |-> x.ok]
      BY <1>2, Zenon DEF ParallelCloses
    <2> DEFINE p == ~x.ok
    <2>2. p \in BOOLEAN
      BY Zenon
    <2>3. o = [dev |-> [x.dev EXCEPT !.parallel = p], ok |-> x.ok] /\ (x.ok => ~p) /\ (~x.ok => p)
      BY <2>1, Zenon
    <2>4. /\ x.dev \in Devices /\ x.ok \in BOOLEAN
          /\ x.dev.cm119 = d.cm119 /\ x.dev.usb = d.usb
          /\ x.dev.pulse = d.pulse /\ x.dev.level = d.level
          /\ x.ok => x.dev.port = FALSE
      BY ParallelFacts
    <2> HIDE DEF p
    <2> QED
      BY <2>2, <2>3, <2>4 DEF Devices
  <1> QED
    BY <1>1, <1>2 DEF Devices

(* Making both banks safe: success leaves both PTT lines off, the pin at   *)
(* the level asked for, and the port closed.                               *)
LEMMA CloseFacts ==
    ASSUME NEW d \in Devices, NEW pin \in BOOLEAN, ~d.parallel => ~d.port,
           NEW o \in CloseOutputs(d, pin)
    PROVE  /\ o.dev \in Devices /\ o.ok \in BOOLEAN
           /\ o.dev.cm119 = d.cm119
           /\ o.dev.pulse => d.pulse
           /\ ~o.dev.parallel => ~o.dev.port
           /\ o.ok => ~o.dev.parallel /\ ~o.dev.usb /\ o.dev.level = pin
  <1>a. PICK x \in Cm119Drives(d, FALSE, pin, FALSE) : \E y \in ParallelCloses(x.dev) :
            o = [dev |-> y.dev, ok |-> x.ok /\ y.ok]
    BY Zenon DEF CloseOutputs
  <1>1. PICK y \in ParallelCloses(x.dev) : o = [dev |-> y.dev, ok |-> x.ok /\ y.ok]
    BY <1>a, Zenon
  <1>2. /\ x.dev \in Devices /\ x.ok \in BOOLEAN
        /\ x.dev.cm119 = d.cm119 /\ x.dev.parallel = d.parallel /\ x.dev.port = d.port
        /\ x.dev.pulse => d.pulse
        /\ x.ok => ~x.dev.usb /\ x.dev.level = pin
    <2> DEFINE off == FALSE
    <2>1. off \in BOOLEAN /\ x \in Cm119Drives(d, off, pin, off) /\ ~off
      BY Zenon
    <2> HIDE DEF off
    <2>2. x.dev.pulse \in {d.pulse, off} /\ (x.ok => x.dev.usb = off)
      BY <2>1, Cm119Facts
    <2> QED
      BY <2>1, <2>2, Cm119Facts DEF Devices
  <1>3. /\ y.dev \in Devices /\ y.ok \in BOOLEAN
        /\ y.dev.cm119 = x.dev.cm119 /\ y.dev.usb = x.dev.usb
        /\ y.dev.pulse = x.dev.pulse /\ y.dev.level = x.dev.level
        /\ ~y.dev.parallel => ~y.dev.port
        /\ y.ok => ~y.dev.parallel
    BY <1>2, ParallelClosesFacts
  <1> DEFINE k == x.ok /\ y.ok
  <1>5. k \in BOOLEAN /\ (k => x.ok /\ y.ok)
    BY Zenon
  <1>6. o = [dev |-> y.dev, ok |-> k]
    BY <1>1, Zenon
  <1> HIDE DEF k
  <1>7. o.dev = y.dev /\ o.ok = k
    BY <1>6
  <1> QED
    BY <1>2, <1>3, <1>5, <1>7

(* A service cycle keeps the handles and may only stop a pulse.            *)
LEMMA CycleFacts ==
    ASSUME NEW d \in Devices, NEW keyed \in BOOLEAN, NEW pin \in BOOLEAN,
           NEW o \in AsteriskCycle(d, keyed, pin) \union NativeCycle(d, keyed, pin)
    PROVE  /\ o.dev \in Devices /\ o.ok \in BOOLEAN
           /\ o.dev.cm119 = d.cm119 /\ o.dev.parallel = d.parallel
           /\ o.dev.pulse => d.pulse
  <1>0. d.ptt \in BOOLEAN /\ d.pin \in BOOLEAN /\ d.pulse \in BOOLEAN
    BY DEF Devices
  <1>1. CASE o \in AsteriskCycle(d, keyed, pin)
    <2>1. \/ o \in Cm119Drives(d, keyed, pin, d.pulse)
          \/ \E x \in Cm119Drives(d, keyed, pin, d.pulse) : \E y \in ParallelDrives(x.dev, keyed),
                read \in BOOLEAN : o = [dev |-> y.dev, ok |-> y.ok /\ read]
      <3> DEFINE E(y, read) == [dev |-> y.dev, ok |-> y.ok /\ read]
                 C == Cm119Drives(d, keyed, pin, d.pulse)
      <3>1. o \in {x \in C : ~x.ok} \union
                UNION {{E(y, read) : y \in ParallelDrives(x.dev, keyed), read \in BOOLEAN} :
                       x \in {x \in C : x.ok}}
        BY <1>1, SMT DEF AsteriskCycle
      <3> HIDE DEF E, C
      <3>2. \/ o \in C
            \/ \E x \in C : \E y \in ParallelDrives(x.dev, keyed), read \in BOOLEAN : o = E(y, read)
        BY <3>1
      <3> QED
        BY <3>2, Zenon DEF E, C
    <2>2. CASE o \in Cm119Drives(d, keyed, pin, d.pulse)
      BY <1>0, <2>2, Cm119Facts
    <2>3. CASE \E x \in Cm119Drives(d, keyed, pin, d.pulse) : \E y \in ParallelDrives(x.dev, keyed),
                read \in BOOLEAN : o = [dev |-> y.dev, ok |-> y.ok /\ read]
      <3>a. PICK x \in Cm119Drives(d, keyed, pin, d.pulse) : \E y \in ParallelDrives(x.dev, keyed),
                read \in BOOLEAN : o = [dev |-> y.dev, ok |-> y.ok /\ read]
        BY <2>3, Zenon
      <3>1. PICK y \in ParallelDrives(x.dev, keyed), read \in BOOLEAN :
                o = [dev |-> y.dev, ok |-> y.ok /\ read]
        BY <3>a, Zenon
      <3>2. /\ x.dev \in Devices /\ x.dev.cm119 = d.cm119 /\ x.dev.parallel = d.parallel
            /\ x.dev.pulse = d.pulse
        BY <1>0, Cm119Facts
      <3>3. /\ y.dev \in Devices /\ y.dev.cm119 = x.dev.cm119 /\ y.dev.parallel = x.dev.parallel
            /\ y.dev.pulse = x.dev.pulse
        BY <3>2, ParallelFacts
      <3> DEFINE k == y.ok /\ read
      <3>4. k \in BOOLEAN
        BY Zenon
      <3>5. o = [dev |-> y.dev, ok |-> k]
        BY <3>1, Zenon
      <3> HIDE DEF k
      <3>6. o.dev = y.dev /\ o.ok = k
        BY <3>5
      <3> QED
        BY <3>2, <3>3, <3>4, <3>6
    <2> QED
      BY <2>1, <2>2, <2>3
  <1>2. CASE o \in NativeCycle(d, keyed, pin)
    <2>a. PICK x \in Cm119Drives(d, d.ptt, d.pin, d.pulse) :
            \E y \in ParallelDrives(x.dev, x.ok /\ keyed), published \in BOOLEAN :
               o = [dev |-> IF published THEN [y.dev EXCEPT !.ptt = x.ok /\ keyed, !.pin = pin]
                            ELSE y.dev,
                    ok  |-> x.ok /\ y.ok /\ published]
      <3> DEFINE E(x, y, published) ==
                     [dev |-> IF published THEN [y.dev EXCEPT !.ptt = x.ok /\ keyed, !.pin = pin]
                              ELSE y.dev,
                      ok  |-> x.ok /\ y.ok /\ published]
                 P(x) == ParallelDrives(x.dev, x.ok /\ keyed)
                 T(x) == {E(x, y, published) : y \in P(x), published \in BOOLEAN}
      <3>0. ASSUME NEW x PROVE NativeOutcomes(x, x.ok /\ keyed, pin) = T(x)
        BY SMT DEF NativeOutcomes
      <3> HIDE DEF E, P, T
      <3>2. PICK x \in Cm119Drives(d, d.ptt, d.pin, d.pulse) :
                o \in NativeOutcomes(x, x.ok /\ keyed, pin)
        BY <1>2, Zenon DEF NativeCycle
      <3>3. \E y \in P(x), published \in BOOLEAN : o = E(x, y, published)
        <4>1. o \in T(x)
          BY <3>0, <3>2, Zenon
        <4> QED
          BY <4>1 DEF T
      <3> QED
        BY <3>2, <3>3, Zenon DEF E, P
    <2>1. PICK y \in ParallelDrives(x.dev, x.ok /\ keyed), published \in BOOLEAN :
               o = [dev |-> IF published THEN [y.dev EXCEPT !.ptt = x.ok /\ keyed, !.pin = pin]
                            ELSE y.dev,
                    ok  |-> x.ok /\ y.ok /\ published]
      BY <2>a, Zenon
    <2> DEFINE ptt == x.ok /\ keyed
               k == x.ok /\ y.ok /\ published
               z == IF published THEN [y.dev EXCEPT !.ptt = ptt, !.pin = pin] ELSE y.dev
    <2>2. ptt \in BOOLEAN /\ k \in BOOLEAN
      BY Zenon
    <2>3. o = [dev |-> z, ok |-> k] /\ y \in ParallelDrives(x.dev, ptt)
      BY <2>1, Zenon
    <2>4. /\ x.dev \in Devices /\ x.dev.cm119 = d.cm119 /\ x.dev.parallel = d.parallel
          /\ x.dev.pulse = d.pulse
      BY <1>0, Cm119Facts
    <2> HIDE DEF ptt, k
    <2>5. /\ y.dev \in Devices /\ y.dev.cm119 = x.dev.cm119 /\ y.dev.parallel = x.dev.parallel
          /\ y.dev.pulse = x.dev.pulse
      BY <2>2, <2>3, <2>4, ParallelFacts
    <2>6. /\ z \in Devices /\ z.cm119 = y.dev.cm119 /\ z.parallel = y.dev.parallel
          /\ z.pulse = y.dev.pulse
      BY <2>2, <2>5 DEF Devices
    <2> HIDE DEF z
    <2>7. o.dev = z /\ o.ok = k
      BY <2>3
    <2> QED
      BY <2>2, <2>4, <2>5, <2>6, <2>7
  <1> QED
    BY <1>1, <1>2

(* Opening: nothing, the initial levels alone, or both handles.            *)
LEMMA OpenFacts ==
    ASSUME NEW d \in Devices, NEW pin \in BOOLEAN, NEW o \in OpenAtOutputs(d, pin)
    PROVE  /\ o.dev \in Devices /\ o.ok \in BOOLEAN
           /\ o.dev = d \/ (~o.dev.pulse /\ ~o.dev.usb /\ o.dev.level = pin)
           /\ o.ok => o.dev.cm119 /\ o.dev.parallel /\ ~o.dev.pulse
           /\ ~o.ok => o.dev.cm119 = d.cm119 /\ o.dev.parallel = d.parallel /\ o.dev.port = d.port
  <1> DEFINE opened == [d EXCEPT !.ptt = FALSE, !.pin = pin, !.pulse = FALSE,
                                 !.usb = FALSE, !.level = pin]
             held == [opened EXCEPT !.port = FALSE, !.cm119 = TRUE, !.parallel = TRUE]
  <1>1. o \in {[dev |-> d, ok |-> FALSE], [dev |-> opened, ok |-> FALSE], [dev |-> held, ok |-> TRUE]}
    BY Zenon DEF OpenAtOutputs
  <1>2. /\ opened \in Devices /\ ~opened.pulse /\ ~opened.usb /\ opened.level = pin
        /\ opened.cm119 = d.cm119 /\ opened.parallel = d.parallel /\ opened.port = d.port
    BY DEF Devices
  <1>3. /\ held \in Devices /\ ~held.pulse /\ ~held.usb /\ held.level = pin
        /\ held.cm119 /\ held.parallel
    BY DEF Devices
  <1> HIDE DEF opened, held
  <1>4. (o.dev = d /\ o.ok = FALSE) \/ (o.dev = opened /\ o.ok = FALSE) \/ (o.dev = held /\ o.ok = TRUE)
    BY <1>1
  <1> QED
    BY <1>2, <1>3, <1>4

-----------------------------------------------------------------------------
(* The numbers the constants stand for.                                    *)
LEMMA Limits ==
    /\ MaxGeneration \in Nat /\ MaxGeneration >= 1 /\ 0 \in 0 .. (MaxGeneration - 1)
    /\ QueueCapacity \in Nat /\ QueueCapacity >= 1
    /\ InitialHigh \in BOOLEAN
  BY ConstantsAssumption

(* A retired bank has no valid token, and its pin the safe level if a site *)
(* owned it; a pin that already has the safe level keeps it.               *)
LEMMA RetireFacts ==
    ASSUME NEW b \in Banks
    PROVE  /\ Retire(b) \in Banks
           /\ RetiredOutput(b) \in BOOLEAN /\ Retire(b).pin = RetiredOutput(b)
           /\ Retire(b).claimed = b.claimed /\ Retire(b).safe = b.safe
           /\ Retire(b).generation = 0
           /\ b.claimed => RetiredOutput(b) = b.safe
           /\ b.pin = b.safe => RetiredOutput(b) = b.safe
  <1> DEFINE r == RetiredOutput(b)
  <1>1. b.pin \in BOOLEAN /\ b.claimed \in BOOLEAN /\ b.safe \in BOOLEAN
    BY DEF Banks
  <1>2. /\ r \in BOOLEAN
        /\ b.claimed => r = b.safe
        /\ b.pin = b.safe => r = b.safe
    BY <1>1, Zenon DEF RetiredOutput
  <1>3. Retire(b) = [b EXCEPT !.pin = r, !.generation = 0]
    BY Zenon DEF Retire
  <1> HIDE DEF r
  <1>4. /\ Retire(b) \in Banks /\ Retire(b).pin = r
        /\ Retire(b).claimed = b.claimed /\ Retire(b).safe = b.safe
        /\ Retire(b).generation = 0
    BY <1>2, <1>3, Limits DEF Banks
  <1> QED
    BY <1>2, <1>4 DEF r

(* A prepared bank has no owner.                                           *)
LEMMA PrepareFacts ==
    ASSUME NEW pin \in BOOLEAN, NEW safe \in BOOLEAN, NEW g \in 0 .. (MaxGeneration - 1)
    PROVE  /\ PrepareSite(pin, safe, g) \in Banks
           /\ PrepareSite(pin, safe, g).pin = pin
           /\ PrepareSite(pin, safe, g).safe = safe
           /\ ~PrepareSite(pin, safe, g).claimed
           /\ PrepareSite(pin, safe, g).generation = g
  BY DEF PrepareSite, NewBank, Banks

(* Tokens are drawn in order, and nothing drawn later is drawn again.      *)
LEMMA TokenFacts ==
    ASSUME token \in 1 .. MaxGeneration, NEW n \in Nat
    PROVE  /\ Token(n) \in 0 .. (MaxGeneration - 1)
           /\ TokenAfter(n) \in 1 .. MaxGeneration
           /\ TokenAfter(n) >= token
           /\ Token(n) # 0 => Token(n) = token + n
           /\ Token(n) < TokenAfter(n + 1)
  BY Limits DEF Token, TokenAfter

(* A queue whose ownership has ended differs in its history alone.         *)
LEMMA OutdatedFacts ==
    ASSUME NEW q \in Seq(Commands)
    PROVE  /\ Outdated(q) \in Seq(Commands) /\ Len(Outdated(q)) = Len(q)
           /\ \A i \in 1 .. Len(q) : Outdated(q)[i].generation = q[i].generation
  <1>1. DOMAIN q = 1 .. Len(q) /\ Len(q) \in Nat
    OBVIOUS
  <1>2. \A i \in 1 .. Len(q) : q[i] \in Commands
    OBVIOUS
  <1>3. \A i \in 1 .. Len(q) : [q[i] EXCEPT !.current = FALSE] \in Commands
    BY <1>2 DEF Commands
  <1>4. Outdated(q) \in [1 .. Len(q) -> Commands]
    BY <1>1, <1>3 DEF Outdated
  <1>5. Outdated(q) \in Seq(Commands)
    BY <1>1, <1>4
  <1>6. Len(Outdated(q)) = Len(q)
    BY <1>1, <1>4
  <1>7. ASSUME NEW i \in 1 .. Len(q) PROVE Outdated(q)[i].generation = q[i].generation
    <2>1. Outdated(q)[i] = [q[i] EXCEPT !.current = FALSE]
      BY <1>1 DEF Outdated
    <2> QED
      BY <1>2, <2>1 DEF Commands
  <1> QED
    BY <1>5, <1>6, <1>7

(* Binding gives a valid token, the level asked for to a pin that is new,  *)
(* and the safe level to one that is released.                             *)
LEMMA BoundFacts ==
    ASSUME bank \in Banks, token \in 1 .. MaxGeneration, NEW c \in Commands
    PROVE  /\ Bound(c) \in Banks
           /\ Bound(c).claimed = c.claim /\ Bound(c).generation = Token(0)
           /\ Bound(c).safe = IF c.claim THEN c.safe ELSE bank.safe
           /\ ~c.claim => Bound(c).pin = IF bank.claimed THEN bank.safe ELSE bank.pin
  <1>1. Token(0) \in 0 .. (MaxGeneration - 1)
    BY TokenFacts
  <1> QED
    BY <1>1 DEF Bound, Banks, Commands

(* The inductive invariant holds at the start.                             *)
LEMMA InitInv == Init => Inv
  <1> SUFFICES ASSUME Init PROVE Inv
    OBVIOUS
  <1>2. /\ NoState \in Staged /\ NoState.promise = {} /\ NewDevices \in Devices
        /\ NewBank(InitialHigh, 0) \in Banks
    BY Limits DEF NoState, Staged, NewDevices, Devices, NewBank, Banks
  <1>3. Typed
    <2>1. /\ native \in BOOLEAN /\ request \in BOOLEAN /\ stop \in BOOLEAN
          /\ granted \in BOOLEAN /\ promise \in SUBSET BOOLEAN
      BY Zenon DEF Init
    <2>2. owner \in [at : {"stopped", "running", "waiting", "stopping"}, retiring : BOOLEAN,
                     pending : Staged]
      BY <1>2 DEF Init
    <2>3. /\ worker \in [at : {"none", "loop", "commands", "exited"}, retiring : BOOLEAN]
          /\ cache \in [generation : Nat, claimed : BOOLEAN, current : BOOLEAN]
          /\ token \in 1 .. MaxGeneration
      BY Limits DEF Init
    <2>4. bank \in Banks /\ dev \in Devices
      BY <1>2 DEF Init
    <2> QED
      BY <2>1, <2>2, <2>3, <2>4, Zenon DEF Typed
  <1>4. QueueTyped
    BY Limits DEF Init, QueueTyped
  <1>5. HoldsInv /\ ClaimInv
    BY DEF Init, HoldsInv, ClaimInv, NewDevices, NewBank
  <1>6. PromiseInv
    BY <1>2 DEF Init, PromiseInv, InUse, NewBank
  <1>7. TokenInv
    BY DEF Init, TokenInv, NewBank, ValidGeneration
  <1> QED
    BY <1>3, <1>4, <1>5, <1>6, <1>7 DEF Inv

-----------------------------------------------------------------------------
(* The types of the fields the steps read.                                 *)
LEMMA FieldTypes ==
    ASSUME Typed
    PROVE  /\ bank.pin \in BOOLEAN /\ bank.safe \in BOOLEAN /\ bank.claimed \in BOOLEAN
           /\ bank.generation \in 0 .. (MaxGeneration - 1) /\ bank.generation \in Nat
           /\ token \in Nat
           /\ StartPin \in BOOLEAN /\ StartPromise \in SUBSET BOOLEAN
           /\ owner.pending \in Staged /\ owner.pending.safe \in BOOLEAN
           /\ dev \in Devices /\ bank \in Banks
           /\ request \in BOOLEAN
  BY Limits DEF Typed, Banks, StartPin, StartPromise, Staged

(* What the queue holds.                                                   *)
LEMMA QueueFacts ==
    ASSUME QueueTyped
    PROVE  /\ \A i \in 1 .. Len(queue) : queue[i] \in Commands /\ queue[i].generation \in Nat
           /\ queue # <<>> => /\ Head(queue) \in Commands /\ Head(queue) = queue[1]
                             /\ Tail(queue) \in Seq(Commands) /\ Len(queue) >= 1
                             /\ Len(Tail(queue)) = Len(queue) - 1
                             /\ \A i \in 1 .. Len(Tail(queue)) :
                                   i + 1 \in 1 .. Len(queue) /\ Tail(queue)[i] = queue[i + 1]
  <1>1. queue \in Seq(Commands)
    BY DEF QueueTyped
  <1>2. \A i \in 1 .. Len(queue) : queue[i] \in Commands
    BY <1>1
  <1>3. \A c \in Commands : c.generation \in Nat
    BY DEF Commands
  <1>4. ASSUME queue # <<>>
        PROVE  /\ Head(queue) \in Commands /\ Head(queue) = queue[1]
               /\ Tail(queue) \in Seq(Commands) /\ Len(queue) >= 1
               /\ Len(Tail(queue)) = Len(queue) - 1
    BY <1>1, <1>4
  <1>5. ASSUME queue # <<>>, NEW i \in 1 .. Len(Tail(queue))
        PROVE  i + 1 \in 1 .. Len(queue) /\ Tail(queue)[i] = queue[i + 1]
    BY <1>1, <1>5
  <1> QED
    BY <1>2, <1>3, <1>4, <1>5

(* start() whose open fails.                                               *)
LEMMA StartFailsStep == ASSUME Inv, StartFails PROVE Inv'
  <1>1. PICK o \in OpenAtOutputs(dev, StartPin) :
            /\ ~o.ok /\ dev' = o.dev
            /\ promise' = IF o.dev = dev THEN promise ELSE StartPromise
    BY DEF StartFails
  <1>2. /\ UNCHANGED <<native, request, owner, stop, worker, queue, bank, cache, granted>>
        /\ token' = TokenAfter(1)
        /\ owner.at = "stopped" /\ ~owner.retiring
    BY DEF StartFails, CanStart
  <1>t. Typed
    BY DEF Inv
  <1>3. /\ dev' \in Devices
        /\ dev' = dev \/ (~dev'.pulse /\ ~dev'.usb /\ dev'.level = StartPin)
        /\ dev'.cm119 = dev.cm119 /\ dev'.parallel = dev.parallel /\ dev'.port = dev.port
    BY <1>1, <1>t, OpenFacts, FieldTypes
  <1>4. token' \in 1 .. MaxGeneration /\ token' >= token /\ token' \in Nat
    BY <1>2, <1>t, TokenFacts DEF Typed
  <1>5. promise' \in SUBSET BOOLEAN
    BY <1>1, <1>t, FieldTypes DEF Typed
  <1>6. Typed'
    BY <1>2, <1>3, <1>4, <1>5, <1>t, Zenon DEF Typed
  <1>7. HoldsInv'
    BY <1>2, <1>3 DEF Inv, HoldsInv
  <1>8. PromiseInv'
    BY <1>1, <1>2, <1>3 DEF Inv, HoldsInv, PromiseInv, InUse, StartPin, StartPromise
  <1>9. TokenInv' /\ QueueTyped'
    <2>1. \A i \in 1 .. Len(queue) : queue[i].generation \in Nat
      BY QueueFacts DEF Inv
    <2>2. bank.generation \in Nat /\ cache.generation \in Nat /\ token \in Nat
      BY <1>t, FieldTypes DEF Typed
    <2> QED
      BY <1>2, <1>4, <2>1, <2>2 DEF Inv, TokenInv, QueueTyped, ValidGeneration
  <1>10. ClaimInv'
    BY <1>2, <1>3 DEF Inv, ClaimInv
  <1> QED
    BY <1>6, <1>7, <1>8, <1>9, <1>10 DEF Inv

(* The owner's retry.                                                      *)
LEMMA OwnerRetiresStep == ASSUME Inv, NEW ok \in BOOLEAN, OwnerRetires(ok) PROVE Inv'
  <1>1. PICK o \in CloseOutputs(dev, bank.pin) : o.ok = ok /\ dev' = [o.dev EXCEPT !.cm119 = ~ok]
    BY DEF OwnerRetires
  <1> DEFINE kept == ~ok
  <1>2. /\ kept \in BOOLEAN /\ (ok => ~kept) /\ (~ok => kept)
        /\ dev' = [o.dev EXCEPT !.cm119 = kept]
        /\ owner' = [owner EXCEPT !.retiring = kept]
        /\ UNCHANGED <<native, request, stop, worker, queue, bank, cache, token, granted, promise>>
        /\ owner.at = "stopped" /\ owner.retiring
    BY <1>1, Zenon DEF OwnerRetires, site
  <1> HIDE DEF kept
  <1>t. Typed
    BY DEF Inv
  <1>3. /\ o.dev \in Devices /\ (o.dev.pulse => dev.pulse)
        /\ ~o.dev.parallel => ~o.dev.port
        /\ ok => ~o.dev.parallel /\ ~o.dev.usb /\ o.dev.level = bank.pin
    BY <1>1, <1>t, CloseFacts, FieldTypes DEF Inv, HoldsInv
  <1>4. /\ dev' \in Devices /\ (dev'.pulse => dev.pulse)
        /\ ~dev'.parallel => ~dev'.port
        /\ dev'.cm119 = kept
        /\ ok => ~dev'.parallel /\ ~dev'.usb /\ dev'.level = bank.pin
    BY <1>2, <1>3 DEF Devices
  <1>5. /\ owner' \in [at : {"stopped", "running", "waiting", "stopping"}, retiring : BOOLEAN,
                       pending : Staged]
        /\ owner'.at = "stopped" /\ owner'.retiring = kept /\ owner'.pending = owner.pending
    BY <1>2, <1>t DEF Typed
  <1>6. Typed'
    BY <1>2, <1>4, <1>5, <1>t, Zenon DEF Typed
  <1>7. HoldsInv'
    BY <1>2, <1>4, <1>5 DEF Inv, HoldsInv
  <1>8. PromiseInv'
    BY <1>2, <1>4, <1>5 DEF Inv, HoldsInv, PromiseInv, InUse
  <1>9. TokenInv' /\ QueueTyped'
    BY <1>2 DEF Inv, TokenInv, QueueTyped, ValidGeneration
  <1>10. ClaimInv'
    BY <1>2, <1>4 DEF Inv, ClaimInv
  <1> QED
    BY <1>6, <1>7, <1>8, <1>9, <1>10 DEF Inv

(* The thread makes failed devices safe.                                   *)
LEMMA RetireDevicesStep == ASSUME Inv, NEW ok \in BOOLEAN, RetireDevices(ok) PROVE Inv'
  <1>1. PICK o \in CloseOutputs(dev, bank.pin) : o.ok = ok /\ dev' = [o.dev EXCEPT !.cm119 = ~ok]
    BY DEF RetireDevices
  <1> DEFINE kept == ~ok
  <1>2. /\ kept \in BOOLEAN /\ (ok => ~kept) /\ (~ok => kept)
        /\ dev' = [o.dev EXCEPT !.cm119 = kept]
        /\ worker' = [worker EXCEPT !.retiring = kept]
        /\ UNCHANGED <<native, request, owner, stop, queue, bank, token, granted, promise>>
        /\ worker.at = "loop" /\ worker.retiring
        /\ cache' = Publish(bank)
    BY <1>1, Zenon DEF RetireDevices, AtLoop
  <1> HIDE DEF kept
  <1>t. Typed
    BY DEF Inv
  <1>3. /\ o.dev \in Devices /\ (o.dev.pulse => dev.pulse)
        /\ ~o.dev.parallel => ~o.dev.port
        /\ ok => ~o.dev.parallel /\ ~o.dev.usb /\ o.dev.level = bank.pin
    BY <1>1, <1>t, CloseFacts, FieldTypes DEF Inv, HoldsInv
  <1>4. /\ dev' \in Devices /\ (dev'.pulse => dev.pulse)
        /\ ~dev'.parallel => ~dev'.port
        /\ dev'.cm119 = kept
        /\ ok => ~dev'.parallel /\ ~dev'.usb /\ dev'.level = bank.pin
    BY <1>2, <1>3 DEF Devices
  <1>5. /\ worker' \in [at : {"none", "loop", "commands", "exited"}, retiring : BOOLEAN]
        /\ worker'.at = "loop" /\ worker'.retiring = kept
        /\ cache' \in [generation : Nat, claimed : BOOLEAN, current : BOOLEAN]
        /\ cache'.generation = bank.generation /\ cache'.current
    BY <1>2, <1>t, FieldTypes DEF Typed, Publish
  <1>6. Typed'
    BY <1>2, <1>4, <1>5, <1>t, Zenon DEF Typed
  <1>7. HoldsInv'
    BY <1>2, <1>4, <1>5 DEF Inv, HoldsInv
  <1>8. PromiseInv'
    BY <1>2, <1>4, <1>5 DEF Inv, HoldsInv, PromiseInv, InUse
  <1>9. TokenInv' /\ QueueTyped'
    BY <1>2, <1>5 DEF Inv, TokenInv, QueueTyped, ValidGeneration
  <1>10. ClaimInv'
    BY <1>2, <1>4 DEF Inv, ClaimInv
  <1> QED
    BY <1>6, <1>7, <1>8, <1>9, <1>10 DEF Inv

(* The thread, or start(), reopens the devices.                            *)
LEMMA ReopenStep == ASSUME Inv, Reopen PROVE Inv'
  <1> DEFINE fresh == PrepareSite(bank.pin, bank.safe, Token(0))
  <1>1. PICK o \in OpenAtOutputs(dev, bank.pin), prepared \in BOOLEAN :
              /\ dev' = o.dev
              /\ IF o.ok /\ prepared
                 THEN /\ bank' = fresh
                      /\ cache' = Publish(fresh)
                      /\ worker' = [worker EXCEPT !.at = "commands"]
                      /\ token' = TokenAfter(1)
                 ELSE /\ worker' = [worker EXCEPT !.retiring = o.ok]
                      /\ UNCHANGED <<bank, cache, token>>
    BY DEF Reopen
  <1>2. /\ UNCHANGED <<native, request, stop, granted, promise>>
        /\ queue' = <<>> /\ owner' = Discarded
        /\ worker.at = "loop" /\ ~worker.retiring /\ ~dev.cm119
    BY DEF Reopen, AtLoop
  <1>t. Typed
    BY DEF Inv
  <1>3. /\ dev' \in Devices /\ o.ok \in BOOLEAN
        /\ dev' = dev \/ (~dev'.pulse /\ ~dev'.usb /\ dev'.level = bank.pin)
        /\ o.ok => dev'.cm119 /\ dev'.parallel /\ ~dev'.pulse
        /\ ~o.ok => dev'.cm119 = dev.cm119 /\ dev'.parallel = dev.parallel /\ dev'.port = dev.port
    BY <1>1, <1>t, OpenFacts, FieldTypes
  <1>4. /\ owner' \in [at : {"stopped", "running", "waiting", "stopping"}, retiring : BOOLEAN,
                       pending : Staged]
        /\ owner'.retiring = owner.retiring /\ owner'.pending = owner.pending
        /\ owner'.at = "stopped" <=> owner.at = "stopped"
    BY <1>2, <1>t DEF Typed, Discarded
  <1>5. QueueTyped'
    BY <1>2, Limits DEF QueueTyped
  <1>6. /\ owner.at # "stopped" /\ ~owner.retiring /\ bank.generation = 0
        /\ dev.parallel <=> dev.cm119
        /\ dev.usb => dev.cm119
        /\ dev.port => dev.parallel
    BY <1>2 DEF Inv, HoldsInv, PromiseInv
  <1>7. CASE o.ok /\ prepared
    <2>1. /\ Token(0) \in 0 .. (MaxGeneration - 1)
          /\ token' \in 1 .. MaxGeneration
          /\ Token(0) < token'
      <3>1. 0 \in Nat /\ 0 + 1 = 1
        OBVIOUS
      <3> QED
        BY <1>1, <1>7, <1>t, <3>1, TokenFacts DEF Typed
    <2>2. /\ bank' \in Banks
          /\ bank'.pin = bank.pin /\ bank'.safe = bank.safe /\ ~bank'.claimed
          /\ bank'.generation = Token(0)
      <3>1. bank' = PrepareSite(bank.pin, bank.safe, Token(0))
        BY <1>1, <1>7
      <3>2. bank.pin \in BOOLEAN /\ bank.safe \in BOOLEAN
        BY <1>t, FieldTypes
      <3> QED
        BY <2>1, <3>1, <3>2, PrepareFacts
    <2>3. cache' = Publish(bank') /\ worker' = [worker EXCEPT !.at = "commands"]
      BY <1>1, <1>7
    <2>4. /\ worker' \in [at : {"none", "loop", "commands", "exited"}, retiring : BOOLEAN]
          /\ worker'.at = "commands" /\ ~worker'.retiring
          /\ cache' \in [generation : Nat, claimed : BOOLEAN, current : BOOLEAN]
          /\ cache'.generation = bank'.generation /\ cache'.current
      BY <1>2, <1>t, <2>2, <2>3, Limits DEF Typed, Publish, Banks
    <2>5. Typed'
      BY <1>2, <1>3, <1>4, <1>t, <2>1, <2>2, <2>4, Zenon DEF Typed
    <2>6. HoldsInv'
      BY <1>3, <1>4, <1>6, <1>7, <2>4 DEF HoldsInv
    <2>7. PromiseInv'
      BY <1>2, <1>3, <1>4, <1>6, <1>7, <2>2, <2>4 DEF Inv, PromiseInv, InUse
    <2>8. TokenInv'
      BY <1>2, <2>1, <2>2, <2>4 DEF TokenInv
    <2>9. ClaimInv'
      BY <2>2 DEF ClaimInv
    <2> QED
      BY <1>5, <2>5, <2>6, <2>7, <2>8, <2>9 DEF Inv
  <1>8. CASE ~(o.ok /\ prepared)
    <2>1. worker' = [worker EXCEPT !.retiring = o.ok] /\ UNCHANGED <<bank, cache, token>>
      BY <1>1, <1>8
    <2>2. /\ worker' \in [at : {"none", "loop", "commands", "exited"}, retiring : BOOLEAN]
          /\ worker'.at = "loop" /\ worker'.retiring = o.ok
      BY <1>2, <1>3, <1>t, <2>1 DEF Typed
    <2>3. Typed'
      BY <1>2, <1>3, <1>4, <1>t, <2>1, <2>2, Zenon DEF Typed
    <2>4. HoldsInv'
      BY <1>2, <1>3, <1>4, <1>6, <2>2 DEF HoldsInv
    <2>5. PromiseInv'
      BY <1>2, <1>3, <1>4, <1>6, <2>1, <2>2 DEF Inv, PromiseInv, InUse
    <2>6. TokenInv' /\ ClaimInv'
      BY <1>2, <1>6, <2>1 DEF Inv, TokenInv, ClaimInv
    <2> QED
      BY <1>5, <2>3, <2>4, <2>5, <2>6 DEF Inv
  <1> QED
    BY <1>7, <1>8

(* What retiring a bank leaves: no valid token, the pin at what is         *)
(* promised; a bank that was retired before promises nothing new.          *)
LEMMA RetireSiteFacts ==
    ASSUME Typed, PromiseInv, worker.at # "none", RetireSite
    PROVE  /\ bank' \in Banks /\ bank'.generation = 0 /\ bank'.pin = RetiredOutput(bank)
           /\ promise' \in SUBSET BOOLEAN
           /\ \A level \in promise' : bank'.pin = level /\ bank'.safe = level
           /\ bank'.claimed => promise' = {bank'.safe}
           /\ bank.generation = 0 => promise' = promise
           /\ cache' \in [generation : Nat, claimed : BOOLEAN, current : BOOLEAN]
           /\ cache'.generation = 0
  <1>1. bank' = Retire(bank) /\ promise' = PromiseOnRetire /\ cache' = Publish(bank')
    BY DEF RetireSite
  <1>2. bank \in Banks /\ bank.safe \in BOOLEAN /\ promise \in SUBSET BOOLEAN
    BY FieldTypes DEF Typed
  <1>3. /\ bank' \in Banks
        /\ bank'.pin = RetiredOutput(bank)
        /\ bank'.claimed = bank.claimed /\ bank'.safe = bank.safe
        /\ bank'.generation = 0
        /\ bank.claimed => bank'.pin = bank.safe
        /\ bank.pin = bank.safe => bank'.pin = bank.safe
    BY <1>1, <1>2, RetireFacts
  <1>4. /\ cache' \in [generation : Nat, claimed : BOOLEAN, current : BOOLEAN]
        /\ cache'.generation = 0
    BY <1>1, <1>3 DEF Publish, Banks
  <1>5. promise' = IF bank.claimed THEN {bank.safe} ELSE promise
    BY <1>1 DEF PromiseOnRetire
  <1>6. \A level \in promise : bank.pin = level /\ bank.safe = level
    BY DEF PromiseInv, InUse
  <1>7. bank.claimed /\ bank.generation = 0 => promise = {bank.safe}
    BY DEF PromiseInv, InUse
  <1> QED
    BY <1>2, <1>3, <1>4, <1>5, <1>6, <1>7

(* A failed command or cycle.                                              *)
LEMMA ServiceFailedStep ==
    ASSUME Inv, worker.at = "commands",
           NEW q \in Seq(Commands), Len(q) <= QueueCapacity,
           \A i \in 1 .. Len(q) : \E j \in 1 .. Len(queue) : q[i] = queue[j],
           ServiceFailed(q),
           UNCHANGED <<native, request, owner, stop, token, granted>>,
           dev' \in Devices, dev'.cm119, dev'.parallel, dev'.pulse => dev.pulse
    PROVE  Inv'
  <1>t. Typed
    BY DEF Inv
  <1>f. bank.generation \in Nat /\ token \in Nat /\ bank \in Banks
    BY <1>t, FieldTypes
  <1>h. owner.at # "stopped" /\ ~owner.retiring /\ ~worker.retiring
    BY DEF Inv, HoldsInv
  <1>q. \A i \in 1 .. Len(q) : q[i].generation \in Nat /\ q[i].generation < token
    BY QueueFacts DEF Inv, TokenInv
  <1>1. CASE native
    <2>1. /\ worker' = [worker EXCEPT !.at = "loop"] /\ cache' = Publish(bank) /\ queue' = q
          /\ UNCHANGED <<bank, promise>>
      BY <1>1 DEF ServiceFailed
    <2>2. /\ worker' \in [at : {"none", "loop", "commands", "exited"}, retiring : BOOLEAN]
          /\ worker'.at = "loop" /\ worker'.retiring = worker.retiring
          /\ cache' \in [generation : Nat, claimed : BOOLEAN, current : BOOLEAN]
          /\ cache'.generation = bank.generation /\ cache'.current
      BY <1>t, <1>f, <2>1 DEF Typed, Publish, Banks
    <2>3. Typed'
      BY <1>t, <2>1, <2>2, Zenon DEF Typed
    <2>4. QueueTyped'
      BY <2>1 DEF QueueTyped
    <2>5. HoldsInv'
      BY <1>h, <2>2 DEF HoldsInv
    <2>6. PromiseInv'
      BY <1>h, <2>1, <2>2 DEF Inv, PromiseInv, InUse
    <2>7. TokenInv'
      BY <1>q, <2>1, <2>2 DEF Inv, TokenInv, ValidGeneration
    <2>8. ClaimInv'
      BY <2>1 DEF Inv, ClaimInv
    <2> QED
      BY <2>3, <2>4, <2>5, <2>6, <2>7, <2>8 DEF Inv
  <1>2. CASE ~native
    <2>1. worker' = [at |-> "loop", retiring |-> TRUE] /\ RetireSite /\ queue' = Outdated(q)
      BY <1>2 DEF ServiceFailed
    <2>2. /\ worker' \in [at : {"none", "loop", "commands", "exited"}, retiring : BOOLEAN]
          /\ worker'.at = "loop" /\ worker'.retiring
      BY <2>1
    <2>3. /\ bank' \in Banks /\ bank'.generation = 0
          /\ promise' \in SUBSET BOOLEAN
          /\ \A level \in promise' : bank'.pin = level /\ bank'.safe = level
          /\ bank'.claimed => promise' = {bank'.safe}
          /\ cache' \in [generation : Nat, claimed : BOOLEAN, current : BOOLEAN]
          /\ cache'.generation = 0
      BY <1>t, <2>1, RetireSiteFacts DEF Inv
    <2>4. Typed'
      BY <1>t, <2>2, <2>3, Zenon DEF Typed
    <2>5. QueueTyped'
      BY <2>1, OutdatedFacts DEF QueueTyped
    <2>6. HoldsInv'
      BY <1>h, <2>2 DEF HoldsInv
    <2>7. PromiseInv'
      BY <1>h, <2>2, <2>3 DEF Inv, PromiseInv, InUse
    <2>8. TokenInv'
      <3>1. \A i \in 1 .. Len(queue') : queue'[i].generation < token
        BY <1>q, <2>1, OutdatedFacts
      <3>2. token > 0
        BY <1>t DEF Typed
      <3> QED
        BY <2>3, <3>1, <3>2 DEF TokenInv, ValidGeneration
    <2>9. ClaimInv'
      BY <2>3 DEF ClaimInv
    <2> QED
      BY <2>4, <2>5, <2>6, <2>7, <2>8, <2>9 DEF Inv
  <1> QED
    BY <1>1, <1>2

(* The call a command makes fails.                                         *)
LEMMA CommandFailsStep == ASSUME Inv, CommandFails PROVE Inv'
  <1>1. /\ worker.at = "commands" /\ queue # <<>>
        /\ ServiceFailed(Tail(queue))
        /\ UNCHANGED <<native, request, owner, stop, token, granted, dev>>
    BY DEF CommandFails, Executes
  <1>2. dev \in Devices /\ dev.cm119 /\ dev.parallel
    BY <1>1 DEF Inv, Typed, HoldsInv
  <1>3. /\ Tail(queue) \in Seq(Commands) /\ Len(Tail(queue)) = Len(queue) - 1
        /\ \A i \in 1 .. Len(Tail(queue)) : \E j \in 1 .. Len(queue) : Tail(queue)[i] = queue[j]
    BY <1>1, QueueFacts DEF Inv
  <1>4. Len(Tail(queue)) <= QueueCapacity
    <2>1. Len(queue) <= QueueCapacity /\ Len(queue) \in Nat
      BY DEF Inv, QueueTyped
    <2> QED
      BY <1>3, <2>1, Limits
  <1> QED
    BY <1>1, <1>2, <1>3, <1>4, ServiceFailedStep

(* A service cycle.                                                        *)
LEMMA ServiceCycleStep == ASSUME Inv, NEW ok \in BOOLEAN, ServiceCycle(ok) PROVE Inv'
  <1>1. PICK o \in ServiceOnce(dev, bank.pin) : o.ok = ok /\ dev' = o.dev
    BY DEF ServiceCycle
  <1>2. /\ worker.at = "commands" /\ queue = <<>>
        /\ UNCHANGED <<native, request, owner, stop, token, granted>>
    BY DEF ServiceCycle
  <1>t. Typed
    BY DEF Inv
  <1>f. bank.generation \in Nat /\ bank \in Banks
    BY <1>t, FieldTypes
  <1>3. o \in AsteriskCycle(dev, request, bank.pin) \union NativeCycle(dev, request, bank.pin)
    BY <1>1, Zenon DEF ServiceOnce
  <1>4. /\ dev' \in Devices /\ dev'.cm119 = dev.cm119 /\ dev'.parallel = dev.parallel
        /\ dev'.pulse => dev.pulse
    BY <1>1, <1>3, <1>t, CycleFacts, FieldTypes
  <1>5. dev'.cm119 /\ dev'.parallel
    BY <1>2, <1>4 DEF Inv, HoldsInv
  <1>6. CASE ~ok
    <2>1. ServiceFailed(queue)
      BY <1>6 DEF ServiceCycle
    <2>2. queue \in Seq(Commands) /\ Len(queue) <= QueueCapacity
      BY DEF Inv, QueueTyped
    <2> QED
      BY <1>2, <1>4, <1>5, <2>1, <2>2, ServiceFailedStep
  <1>7. CASE ok
    <2>1. worker' = [worker EXCEPT !.at = "loop"] /\ cache' = Publish(bank)
          /\ UNCHANGED <<bank, promise, queue>>
      BY <1>7 DEF ServiceCycle
    <2>2. /\ worker' \in [at : {"none", "loop", "commands", "exited"}, retiring : BOOLEAN]
          /\ worker'.at = "loop" /\ worker'.retiring = worker.retiring
          /\ cache' \in [generation : Nat, claimed : BOOLEAN, current : BOOLEAN]
          /\ cache'.generation = bank.generation /\ cache'.current
      BY <1>t, <1>f, <2>1 DEF Typed, Publish, Banks
    <2>3. Typed'
      BY <1>t, <1>2, <1>4, <2>1, <2>2, Zenon DEF Typed
    <2>4. QueueTyped'
      BY <2>1 DEF Inv, QueueTyped
    <2>5. HoldsInv'
      BY <1>2, <1>5, <2>2 DEF Inv, HoldsInv
    <2>6. PromiseInv'
      BY <1>2, <1>5, <2>1, <2>2 DEF Inv, HoldsInv, PromiseInv, InUse
    <2>7. TokenInv'
      BY <1>2, <2>1, <2>2 DEF Inv, TokenInv, ValidGeneration
    <2>8. ClaimInv'
      BY <1>2, <1>4, <2>1 DEF Inv, ClaimInv
    <2> QED
      BY <2>3, <2>4, <2>5, <2>6, <2>7, <2>8 DEF Inv
  <1> QED
    BY <1>6, <1>7

(* The end of the thread.                                                  *)
LEMMA ExitStep == ASSUME Inv, Exit PROVE Inv'
  <1>1. /\ worker.at = "loop" /\ RetireSite /\ queue' = Outdated(queue)
        /\ UNCHANGED <<native, request, owner, stop, token, granted>>
    BY DEF Exit, AtLoop
  <1>t. Typed
    BY DEF Inv
  <1>2. /\ bank' \in Banks /\ bank'.generation = 0 /\ bank'.pin = RetiredOutput(bank)
        /\ promise' \in SUBSET BOOLEAN
        /\ \A level \in promise' : bank'.pin = level /\ bank'.safe = level
        /\ bank'.claimed => promise' = {bank'.safe}
        /\ bank.generation = 0 => promise' = promise
        /\ cache' \in [generation : Nat, claimed : BOOLEAN, current : BOOLEAN]
        /\ cache'.generation = 0
    BY <1>t, <1>1, RetireSiteFacts DEF Inv
  <1>h. /\ owner.at # "stopped" /\ ~owner.retiring
        /\ ~dev.parallel => ~dev.port
    BY <1>1 DEF Inv, HoldsInv
  <1>3. /\ worker' \in [at : {"none", "loop", "commands", "exited"}, retiring : BOOLEAN]
        /\ worker'.at = "exited"
        /\ dev' \in Devices
        /\ dev'.cm119 => worker'.retiring
        /\ dev'.parallel => worker'.retiring
        /\ ~dev'.cm119 => ~dev'.usb
        /\ ~dev'.parallel => ~dev'.port
        /\ ~dev'.cm119 => \A level \in promise' : dev'.level = level
    <2>1. CASE dev.cm119
      <3>1. PICK o \in CloseOutputs(dev, RetiredOutput(bank)) :
                /\ dev' = [o.dev EXCEPT !.cm119 = ~o.ok]
                /\ worker' = [at |-> "exited", retiring |-> ~o.ok]
        BY <2>1 DEF Exit
      <3> DEFINE kept == ~o.ok
      <3>2. /\ kept \in BOOLEAN /\ (o.ok => ~kept) /\ (~o.ok => kept)
            /\ dev' = [o.dev EXCEPT !.cm119 = kept]
            /\ worker' = [at |-> "exited", retiring |-> kept]
        BY <3>1, Zenon
      <3> HIDE DEF kept
      <3>3. /\ o.dev \in Devices
            /\ ~o.dev.parallel => ~o.dev.port
            /\ o.ok => ~o.dev.parallel /\ ~o.dev.usb /\ o.dev.level = RetiredOutput(bank)
        BY <1>h, <1>t, CloseFacts, FieldTypes, RetireFacts
      <3> QED
        BY <1>2, <3>2, <3>3 DEF Devices
    <2>2. CASE ~dev.cm119
      <3>1. worker' = [at |-> "exited", retiring |-> FALSE] /\ dev' = dev
        BY <2>2 DEF Exit
      <3>2. /\ bank.generation = 0 /\ ~dev.parallel /\ ~dev.usb
            /\ \A level \in promise : dev.level = level
        BY <1>1, <2>2 DEF Inv, HoldsInv, PromiseInv
      <3> QED
        BY <1>2, <1>h, <1>t, <2>2, <3>1, <3>2 DEF Typed
    <2> QED
      BY <2>1, <2>2
  <1>4. Typed'
    BY <1>t, <1>1, <1>2, <1>3, Zenon DEF Typed
  <1>5. QueueTyped'
    BY <1>1, OutdatedFacts DEF Inv, QueueTyped
  <1>6. HoldsInv'
    BY <1>1, <1>h, <1>3 DEF HoldsInv
  <1>7. PromiseInv'
    BY <1>1, <1>h, <1>2, <1>3 DEF Inv, PromiseInv, InUse
  <1>8. TokenInv'
    <2>1. \A i \in 1 .. Len(queue') : queue'[i].generation < token
      BY <1>1, OutdatedFacts DEF Inv, QueueTyped, TokenInv
    <2>2. token > 0
      BY <1>t DEF Typed
    <2> QED
      BY <1>1, <1>2, <2>1, <2>2 DEF TokenInv, ValidGeneration
  <1>9. ClaimInv'
    BY <1>2 DEF ClaimInv
  <1> QED
    BY <1>4, <1>5, <1>6, <1>7, <1>8, <1>9 DEF Inv

(* start() with open devices.                                              *)
LEMMA StartStep == ASSUME Inv, Start PROVE Inv'
  <1> DEFINE fresh == PrepareSite(StartPin, owner.pending.safe, Token(1))
  <1>1. PICK o \in {o \in OpenAtOutputs(dev, StartPin) : o.ok} :
        \E first \in {[dev |-> o.dev, ok |-> FALSE]} \union
                     IF native THEN {[dev |-> o.dev, ok |-> TRUE]}
                     ELSE AsteriskCycle(o.dev, request, StartPin) :
              /\ dev' = first.dev
              /\ IF first.ok
                 THEN /\ bank' = fresh
                      /\ worker' = [at |-> "loop", retiring |-> FALSE]
                      /\ owner' = [at |-> "running", retiring |-> FALSE, pending |-> NoState]
                 ELSE /\ bank' = Retire(fresh)
                      /\ owner' = [owner EXCEPT !.retiring = TRUE]
                      /\ UNCHANGED worker
    BY Zenon DEF Start
  <1>2. PICK first \in {[dev |-> o.dev, ok |-> FALSE]} \union
                     IF native THEN {[dev |-> o.dev, ok |-> TRUE]}
                     ELSE AsteriskCycle(o.dev, request, StartPin) :
              /\ dev' = first.dev
              /\ IF first.ok
                 THEN /\ bank' = fresh
                      /\ worker' = [at |-> "loop", retiring |-> FALSE]
                      /\ owner' = [at |-> "running", retiring |-> FALSE, pending |-> NoState]
                 ELSE /\ bank' = Retire(fresh)
                      /\ owner' = [owner EXCEPT !.retiring = TRUE]
                      /\ UNCHANGED worker
    BY <1>1, Zenon
  <1>3. /\ UNCHANGED <<native, request, granted>>
        /\ cache' = Publish(bank') /\ token' = TokenAfter(2) /\ promise' = StartPromise
        /\ stop' = FALSE /\ queue' = <<>>
        /\ owner.at = "stopped" /\ ~owner.retiring /\ worker.at = "none"
    BY DEF Start, CanStart, Inv, HoldsInv
  <1>t. Typed
    BY DEF Inv
  <1>f. StartPin \in BOOLEAN /\ dev \in Devices /\ request \in BOOLEAN
        /\ owner.pending.safe \in BOOLEAN /\ StartPromise \in SUBSET BOOLEAN
    BY <1>t, FieldTypes
  <1>4. /\ o.dev \in Devices /\ o.dev.cm119 /\ o.dev.parallel /\ ~o.dev.pulse
    BY <1>f, OpenFacts
  <1>5. dev' \in Devices /\ dev'.cm119 /\ dev'.parallel
    <2>1. CASE first \in AsteriskCycle(o.dev, request, StartPin)
      BY <1>2, <1>4, <1>f, <2>1, CycleFacts
    <2>2. CASE first \in {[dev |-> o.dev, ok |-> FALSE], [dev |-> o.dev, ok |-> TRUE]}
      BY <1>2, <1>4, <2>2
    <2> QED
      BY <2>1, <2>2
  <1>6. /\ Token(1) \in 0 .. (MaxGeneration - 1)
        /\ token' \in 1 .. MaxGeneration
        /\ Token(1) < token'
    <2>1. 1 \in Nat /\ 2 \in Nat /\ 1 + 1 = 2
      OBVIOUS
    <2> QED
      BY <1>3, <1>t, <2>1, TokenFacts DEF Typed
  <1>7. /\ fresh \in Banks /\ fresh.pin = StartPin /\ fresh.safe = owner.pending.safe
        /\ ~fresh.claimed /\ fresh.generation = Token(1)
    BY <1>f, <1>6, PrepareFacts
  <1> HIDE DEF fresh
  <1>8. \A level \in promise' : fresh.pin = level /\ fresh.safe = level
    BY <1>3, <1>7 DEF Inv, PromiseInv, StartPin, StartPromise
  <1>9. /\ bank' \in Banks /\ ~bank'.claimed /\ bank'.generation < token'
        /\ \A level \in promise' : bank'.pin = level /\ bank'.safe = level
        /\ ~first.ok => bank'.generation = 0
    <2>1. CASE first.ok
      BY <1>2, <1>6, <1>7, <1>8, <2>1
    <2>2. CASE ~first.ok
      <3>1. bank' = Retire(fresh)
        BY <1>2, <2>2
      <3>2. /\ bank' \in Banks /\ bank'.claimed = fresh.claimed
            /\ bank'.generation = 0 /\ bank'.safe = fresh.safe
            /\ fresh.pin = fresh.safe => bank'.pin = fresh.safe
        BY <1>7, <3>1, RetireFacts
      <3> QED
        BY <1>6, <1>7, <1>8, <3>2
    <2> QED
      BY <2>1, <2>2
  <1>10. /\ cache' \in [generation : Nat, claimed : BOOLEAN, current : BOOLEAN]
         /\ cache'.generation = bank'.generation /\ cache'.current
    BY <1>3, <1>9, Limits DEF Publish, Banks
  <1>11. NoState \in Staged /\ NoState.promise = {}
    BY Limits DEF NoState, Staged
  <1>12. /\ owner' \in [at : {"stopped", "running", "waiting", "stopping"}, retiring : BOOLEAN,
                        pending : Staged]
         /\ worker' \in [at : {"none", "loop", "commands", "exited"}, retiring : BOOLEAN]
         /\ first.ok => /\ owner'.at = "running" /\ ~owner'.retiring
                        /\ owner'.pending = NoState
                        /\ worker'.at = "loop" /\ ~worker'.retiring
         /\ ~first.ok => /\ owner'.at = "stopped" /\ owner'.retiring
                         /\ owner'.pending = owner.pending
                         /\ worker'.at = "none"
    <2>1. CASE first.ok
      <3>1. /\ worker' = [at |-> "loop", retiring |-> FALSE]
            /\ owner' = [at |-> "running", retiring |-> FALSE, pending |-> NoState]
        BY <1>2, <2>1, Zenon
      <3> HIDE DEF NoState
      <3> QED
        BY <1>11, <2>1, <3>1
    <2>2. CASE ~first.ok
      BY <1>2, <1>3, <1>t, <2>2 DEF Typed
    <2> QED
      BY <2>1, <2>2
  <1>13. Typed'
    <2>1. stop' \in BOOLEAN
      BY <1>3
    <2> QED
      BY <1>3, <1>5, <1>6, <1>9, <1>10, <1>12, <1>f, <1>t, <2>1, Zenon DEF Typed
  <1>14. QueueTyped'
    BY <1>3, Limits DEF QueueTyped
  <1>15. HoldsInv'
    BY <1>5, <1>12 DEF HoldsInv
  <1>16. PromiseInv'
    BY <1>5, <1>9, <1>11, <1>12 DEF Inv, PromiseInv, InUse
  <1>17. TokenInv'
    BY <1>3, <1>9, <1>10 DEF TokenInv
  <1>18. ClaimInv'
    BY <1>9 DEF ClaimInv
  <1> QED
    BY <1>13, <1>14, <1>15, <1>16, <1>17, <1>18 DEF Inv

-----------------------------------------------------------------------------
(* A command the owner queues carries the token the cache shows, or none.  *)
LEMMA QueueStep ==
    ASSUME Inv, NEW c \in Commands, Queue(c),
           c.generation < token,
           c.kind = "publish" /\ ValidGeneration(c.generation) => c.current,
           owner' = owner \/ owner' = [owner EXCEPT !.at = "waiting"]
    PROVE  Inv'
  <1>1. /\ owner.at = "running" /\ Len(queue) < QueueCapacity /\ queue' = Append(queue, c)
        /\ UNCHANGED <<native, request, stop, worker, dev, bank, cache, token, granted, promise>>
    BY DEF Queue, site
  <1>t. Typed
    BY DEF Inv
  <1>2. /\ owner' \in [at : {"stopped", "running", "waiting", "stopping"}, retiring : BOOLEAN,
                       pending : Staged]
        /\ owner'.at # "stopped"
        /\ owner'.retiring = owner.retiring /\ owner'.pending = owner.pending
    BY <1>1, <1>t DEF Typed
  <1>3. Typed'
    BY <1>1, <1>2, <1>t, Zenon DEF Typed
  <1>4. /\ queue' \in Seq(Commands) /\ Len(queue') = Len(queue) + 1 /\ Len(queue) \in Nat
        /\ \A i \in 1 .. Len(queue') : queue'[i] = IF i <= Len(queue) THEN queue[i] ELSE c
    BY <1>1 DEF Inv, QueueTyped
  <1>5. QueueTyped'
    BY <1>1, <1>4, Limits DEF QueueTyped
  <1>6. HoldsInv' /\ PromiseInv' /\ ClaimInv'
    BY <1>1, <1>2 DEF Inv, HoldsInv, PromiseInv, ClaimInv, InUse
  <1>7. TokenInv'
    <2>1. ASSUME NEW i \in 1 .. Len(queue')
          PROVE  /\ queue'[i].generation < token
                 /\ queue'[i].kind = "publish" /\ ValidGeneration(queue'[i].generation)
                       => queue'[i].current
      <3>1. CASE i <= Len(queue)
        <4>1. i \in 1 .. Len(queue) /\ queue'[i] = queue[i]
          BY <1>4, <3>1
        <4> QED
          BY <4>1 DEF Inv, TokenInv
      <3>2. CASE ~(i <= Len(queue))
        BY <1>4, <3>2
      <3> QED
        BY <3>1, <3>2
    <2> QED
      BY <1>1, <2>1 DEF Inv, TokenInv, ValidGeneration
  <1> QED
    BY <1>3, <1>5, <1>6, <1>7 DEF Inv

(* The four kinds of commands.                                             *)
LEMMA CommandFacts ==
    ASSUME NEW kind \in {"level", "pulse", "bind", "publish", "snapshot", "abandoned"}
    PROVE  /\ Command(kind) \in Commands
           /\ Command(kind).kind = kind /\ Command(kind).generation = 0
  BY DEF Command, Commands

\* Requests that queue an output, a binding, a control word or a snapshot leave the thread
\* and its stream alone.
LEMMA QueuesStep ==
    ASSUME Inv,
           \/ \E kind \in {"level", "pulse"}, high \in BOOLEAN : QueueOutput(kind, high)
           \/ \E binding \in Bindings : QueueBind(binding)
           \/ \E high \in BOOLEAN : QueuePublish(high)
           \/ QueueSnapshot
    PROVE  Inv'
  <1>t. token \in Nat /\ token > 0 /\ cache.generation \in Nat /\ cache.generation < token
        /\ cache.claimed \in BOOLEAN /\ cache.current \in BOOLEAN
    BY Limits DEF Inv, Typed, TokenInv
  <1>1. ASSUME NEW kind \in {"level", "pulse"}, NEW high \in BOOLEAN, QueueOutput(kind, high)
        PROVE  Inv'
    <2> DEFINE c == [Command(kind) EXCEPT !.high = high]
    <2>1. c \in Commands /\ c.kind = kind /\ c.generation = 0
      BY CommandFacts DEF Commands
    <2>2. Queue(c) /\ owner' = owner
      BY <1>1 DEF QueueOutput
    <2> HIDE DEF c
    <2> QED
      BY <1>t, <2>1, <2>2, QueueStep
  <1>2. ASSUME NEW b \in Bindings, QueueBind(b)
        PROVE  Inv'
    <2> DEFINE c == [Command("bind") EXCEPT !.generation = cache.generation, !.claim = b.claim,
                                            !.high = b.high, !.safe = b.safe]
    <2>1. b.claim \in BOOLEAN /\ b.high \in BOOLEAN /\ b.safe \in BOOLEAN
      BY ConstantsAssumption
    <2>2. c \in Commands /\ c.kind = "bind" /\ c.generation = cache.generation
      BY <1>t, <2>1, CommandFacts DEF Commands
    <2>3. Queue(c) /\ owner' = owner
      BY <1>2 DEF QueueBind
    <2> HIDE DEF c
    <2> QED
      BY <1>t, <2>2, <2>3, QueueStep
  <1>3. ASSUME NEW high \in BOOLEAN, QueuePublish(high)
        PROVE  Inv'
    <2> DEFINE c == [Command("publish") EXCEPT !.generation = cache.generation, !.high = high,
                                               !.current = cache.current]
    <2>1. c \in Commands /\ c.generation = cache.generation /\ c.current = cache.current
      BY <1>t, CommandFacts DEF Commands
    <2>2. Queue(c) /\ owner' = owner /\ cache.generation # 0
      BY <1>3 DEF QueuePublish
    <2> HIDE DEF c
    <2>3. ValidGeneration(c.generation) => c.current
      BY <2>1, <2>2 DEF ValidGeneration, Inv, TokenInv
    <2> QED
      BY <1>t, <2>1, <2>2, <2>3, QueueStep
  <1>4. CASE QueueSnapshot
    <2> DEFINE c == Command("snapshot")
    <2>1. c \in Commands /\ c.kind = "snapshot" /\ c.generation = 0
      BY CommandFacts
    <2>2. Queue(c) /\ owner' = [owner EXCEPT !.at = "waiting"]
      BY <1>4 DEF QueueSnapshot
    <2> HIDE DEF c
    <2> QED
      BY <1>t, <2>1, <2>2, QueueStep
  <1> QED
    BY <1>1, <1>2, <1>3, <1>4

(* The wait for a snapshot ends without one.                               *)
LEMMA SnapshotTimesOutStep == ASSUME Inv, SnapshotTimesOut PROVE Inv'
  <1>1. /\ owner.at = "waiting" /\ owner' = [owner EXCEPT !.at = "running"]
        /\ queue' = [i \in DOMAIN queue |->
                        IF queue[i].kind = "snapshot" THEN [queue[i] EXCEPT !.kind = "abandoned"]
                        ELSE queue[i]]
        /\ UNCHANGED <<native, request, stop, worker, dev, bank, cache, token, granted, promise>>
    BY DEF SnapshotTimesOut, site
  <1>t. Typed
    BY DEF Inv
  <1>2. /\ owner' \in [at : {"stopped", "running", "waiting", "stopping"}, retiring : BOOLEAN,
                       pending : Staged]
        /\ owner'.at # "stopped"
        /\ owner'.retiring = owner.retiring /\ owner'.pending = owner.pending
    BY <1>1, <1>t DEF Typed
  <1>3. Typed'
    BY <1>1, <1>2, <1>t, Zenon DEF Typed
  <1>4. DOMAIN queue = 1 .. Len(queue) /\ Len(queue) \in Nat /\ Len(queue) <= QueueCapacity
    BY DEF Inv, QueueTyped
  <1>5. \A i \in 1 .. Len(queue) : queue[i] \in Commands
    BY QueueFacts DEF Inv
  <1>6. \A i \in 1 .. Len(queue) :
            /\ queue'[i] \in Commands
            /\ queue'[i].generation = queue[i].generation
            /\ queue'[i].current = queue[i].current
            /\ queue'[i].kind = "publish" => queue[i].kind = "publish"
    BY <1>1, <1>4, <1>5 DEF Commands
  <1>7. queue' \in [1 .. Len(queue) -> Commands]
    BY <1>1, <1>4, <1>6
  <1>8. queue' \in Seq(Commands) /\ Len(queue') = Len(queue)
    BY <1>4, <1>7
  <1>9. QueueTyped'
    BY <1>4, <1>8 DEF QueueTyped
  <1>10. HoldsInv' /\ PromiseInv' /\ ClaimInv'
    BY <1>1, <1>2 DEF Inv, HoldsInv, PromiseInv, ClaimInv, InUse
  <1>11. TokenInv'
    BY <1>1, <1>6, <1>8 DEF Inv, TokenInv, ValidGeneration
  <1> QED
    BY <1>3, <1>9, <1>10, <1>11 DEF Inv

(* What is left when the command at the head of the queue has been taken.  *)
LEMMA TailFacts ==
    ASSUME QueueTyped, TokenInv, queue # <<>>
    PROVE  /\ Tail(queue) \in Seq(Commands) /\ Len(Tail(queue)) <= QueueCapacity
           /\ \A i \in 1 .. Len(Tail(queue)) :
                 /\ Tail(queue)[i].generation \in Nat
                 /\ Tail(queue)[i].generation < token
                 /\ Tail(queue)[i].kind = "publish" /\ ValidGeneration(Tail(queue)[i].generation)
                       => Tail(queue)[i].current
  <1>1. Len(queue) \in Nat /\ Len(queue) <= QueueCapacity
    BY DEF QueueTyped
  <1>2. /\ Tail(queue) \in Seq(Commands)
        /\ Len(Tail(queue)) = Len(queue) - 1
    BY QueueFacts
  <1>3. ASSUME NEW i \in 1 .. Len(Tail(queue))
        PROVE  /\ Tail(queue)[i].generation \in Nat
               /\ Tail(queue)[i].generation < token
               /\ Tail(queue)[i].kind = "publish" /\ ValidGeneration(Tail(queue)[i].generation)
                     => Tail(queue)[i].current
    <2>1. i + 1 \in 1 .. Len(queue) /\ Tail(queue)[i] = queue[i + 1]
      BY QueueFacts
    <2> QED
      BY <2>1, QueueFacts DEF TokenInv
  <1> QED
    BY <1>1, <1>2, <1>3, Limits

(* Taking a command that changes neither ownership nor a token.            *)
LEMMA TailStep ==
    ASSUME QueueTyped, TokenInv, queue # <<>>, queue' = Tail(queue),
           UNCHANGED <<cache, token>>, bank'.generation = bank.generation
    PROVE  QueueTyped' /\ TokenInv'
  <1>1. QueueTyped'
    BY TailFacts DEF QueueTyped
  <1>2. TokenInv'
    BY TailFacts DEF TokenInv, ValidGeneration
  <1> QED
    BY <1>1, <1>2

(* Steps that leave the bank, its history, the tokens and the queue.       *)
LEMMA FrameStep ==
    ASSUME Inv, UNCHANGED <<native, queue, dev, bank, cache, token, granted, promise>>,
           SetRequest \/ RequestStop \/ BeginService
    PROVE  Inv'
  <1>t. Typed
    BY DEF Inv
  <1>1. QueueTyped' /\ TokenInv' /\ ClaimInv'
    BY DEF Inv, QueueTyped, TokenInv, ClaimInv, ValidGeneration
  <1>2. CASE SetRequest
    <2>1. UNCHANGED <<owner, stop, worker>> /\ request' \in BOOLEAN
      BY <1>2, Zenon DEF SetRequest
    <2>2. Typed'
      BY <1>t, <2>1, Zenon DEF Typed
    <2>3. HoldsInv' /\ PromiseInv'
      BY <2>1 DEF Inv, HoldsInv, PromiseInv, InUse
    <2> QED
      BY <1>1, <2>2, <2>3 DEF Inv
  <1>3. CASE RequestStop
    <2>1. /\ UNCHANGED <<request, worker>> /\ stop' \in BOOLEAN
          /\ owner' = [owner EXCEPT !.at = "stopping"] /\ owner.at = "running"
      BY <1>3 DEF RequestStop
    <2>2. /\ owner' \in [at : {"stopped", "running", "waiting", "stopping"}, retiring : BOOLEAN,
                         pending : Staged]
          /\ owner'.at # "stopped"
          /\ owner'.retiring = owner.retiring /\ owner'.pending = owner.pending
      BY <1>t, <2>1 DEF Typed
    <2>3. Typed'
      BY <1>t, <2>1, <2>2, Zenon DEF Typed
    <2>4. HoldsInv' /\ PromiseInv'
      BY <2>1, <2>2 DEF Inv, HoldsInv, PromiseInv, InUse
    <2> QED
      BY <1>1, <2>3, <2>4 DEF Inv
  <1>4. CASE BeginService
    <2>1. /\ UNCHANGED <<request, owner, stop>>
          /\ worker' = [worker EXCEPT !.at = "commands"]
          /\ worker.at = "loop" /\ ~worker.retiring /\ dev.cm119
      BY <1>4 DEF BeginService, AtLoop
    <2>2. /\ worker' \in [at : {"none", "loop", "commands", "exited"}, retiring : BOOLEAN]
          /\ worker'.at = "commands" /\ worker'.retiring = worker.retiring
      BY <1>t, <2>1 DEF Typed
    <2>3. Typed'
      BY <1>t, <2>1, <2>2, Zenon DEF Typed
    <2>4. HoldsInv' /\ PromiseInv'
      BY <2>1, <2>2 DEF Inv, HoldsInv, PromiseInv, InUse
    <2> QED
      BY <1>1, <2>3, <2>4 DEF Inv
  <1> QED
    BY <1>2, <1>3, <1>4

(* A pulse ends.                                                           *)
LEMMA PulseEndsStep == ASSUME Inv, PulseEnds PROVE Inv'
  <1>1. /\ dev' = [dev EXCEPT !.pulse = FALSE]
        /\ UNCHANGED <<native, request, owner, stop, worker, queue, bank, cache, token, granted,
                       promise>>
    BY DEF PulseEnds, site
  <1>t. Typed
    BY DEF Inv
  <1>2. /\ dev' \in Devices /\ ~dev'.pulse
        /\ dev'.usb = dev.usb /\ dev'.port = dev.port /\ dev'.level = dev.level
        /\ dev'.cm119 = dev.cm119 /\ dev'.parallel = dev.parallel
    BY <1>t, <1>1 DEF Typed, Devices
  <1>3. Typed'
    BY <1>t, <1>1, <1>2, Zenon DEF Typed
  <1>4. HoldsInv' /\ PromiseInv' /\ ClaimInv'
    BY <1>1, <1>2 DEF Inv, HoldsInv, PromiseInv, ClaimInv, InUse
  <1>5. QueueTyped' /\ TokenInv'
    BY <1>1 DEF Inv, QueueTyped, TokenInv, ValidGeneration
  <1> QED
    BY <1>3, <1>4, <1>5 DEF Inv

(* The thread is joined.                                                   *)
LEMMA JoinStep == ASSUME Inv, Join PROVE Inv'
  <1>1. /\ owner.at = "stopping" /\ worker.at = "exited"
        /\ owner' = [owner EXCEPT !.at = "stopped", !.retiring = worker.retiring]
        /\ worker' = [at |-> "none", retiring |-> FALSE]
        /\ queue' = <<>>
        /\ UNCHANGED <<native, request, stop, dev, bank, cache, token, granted, promise>>
    BY DEF Join, site
  <1>t. Typed
    BY DEF Inv
  <1>2. /\ owner' \in [at : {"stopped", "running", "waiting", "stopping"}, retiring : BOOLEAN,
                       pending : Staged]
        /\ owner'.at = "stopped"
        /\ owner'.retiring = worker.retiring /\ owner'.pending = owner.pending
        /\ worker' \in [at : {"none", "loop", "commands", "exited"}, retiring : BOOLEAN]
        /\ worker'.at = "none"
    BY <1>t, <1>1 DEF Typed
  <1>3. Typed'
    BY <1>t, <1>1, <1>2, Zenon DEF Typed
  <1>4. HoldsInv' /\ PromiseInv' /\ ClaimInv'
    BY <1>1, <1>2 DEF Inv, HoldsInv, PromiseInv, ClaimInv, InUse
  <1>5. QueueTyped'
    BY <1>1, Limits DEF QueueTyped
  <1>6. TokenInv'
    BY <1>1 DEF Inv, TokenInv
  <1> QED
    BY <1>3, <1>4, <1>5, <1>6 DEF Inv

(* An ordinary command takes effect.                                       *)
LEMMA OutputStep == ASSUME Inv, NEW kind \in {"level", "pulse"}, Output(kind) PROVE Inv'
  <1> DEFINE level == IF kind = "level" THEN Head(queue).high ELSE bank.pin
             pulse == kind = "pulse"
  <1>1. /\ bank' = [bank EXCEPT !.pin = level, !.safe = FALSE]
        /\ dev' = [dev EXCEPT !.pulse = pulse]
        /\ promise' = {} /\ queue' = Tail(queue)
        /\ worker.at = "commands" /\ queue # <<>> /\ ~bank.claimed
        /\ UNCHANGED <<native, request, owner, stop, worker, cache, token, granted>>
    BY Zenon DEF Output, Executes, PermitsOrdinary
  <1>t. Typed
    BY DEF Inv
  <1>2. level \in BOOLEAN
    BY <1>1, <1>t, FieldTypes, QueueFacts DEF Inv, Commands
  <1>3. pulse \in BOOLEAN
    BY Zenon
  <1> HIDE DEF level, pulse
  <1>4. /\ bank' \in Banks /\ bank'.claimed = bank.claimed /\ bank'.generation = bank.generation
        /\ dev' \in Devices
        /\ dev'.usb = dev.usb /\ dev'.port = dev.port /\ dev'.level = dev.level
        /\ dev'.cm119 = dev.cm119 /\ dev'.parallel = dev.parallel
    BY <1>t, <1>1, <1>2, <1>3 DEF Typed, Devices, Banks
  <1>5. Typed'
    <2>1. promise' \in SUBSET BOOLEAN
      BY <1>1
    <2> QED
      BY <1>t, <1>1, <1>4, <2>1, Zenon DEF Typed
  <1>6. HoldsInv' /\ PromiseInv' /\ ClaimInv'
    BY <1>1, <1>4 DEF Inv, HoldsInv, PromiseInv, ClaimInv, InUse
  <1>7. QueueTyped' /\ TokenInv'
    BY <1>1, <1>4, TailStep DEF Inv
  <1> QED
    BY <1>5, <1>6, <1>7 DEF Inv

(* A site owner's level is accepted.                                       *)
LEMMA SitePublishStep == ASSUME Inv, SitePublish PROVE Inv'
  <1> DEFINE c == Head(queue)
  <1>1. /\ worker.at = "commands" /\ queue # <<>> /\ c.kind = "publish"
        /\ ValidGeneration(c.generation) /\ bank.claimed
        /\ bank' = [bank EXCEPT !.pin = c.high]
        /\ granted' = IF c.current THEN c.high ELSE granted
        /\ queue' = Tail(queue)
        /\ UNCHANGED <<native, request, owner, stop, worker, dev, cache, token, promise>>
    BY DEF SitePublish, Executes
  <1>t. Typed
    BY DEF Inv
  <1>2. c \in Commands /\ c = queue[1] /\ 1 \in 1 .. Len(queue)
    <2>1. Len(queue) \in Nat
      BY DEF Inv, QueueTyped
    <2> QED
      BY <1>1, <2>1, QueueFacts DEF Inv
  <1>3. c.current
    BY <1>1, <1>2 DEF Inv, TokenInv
  <1> HIDE DEF c
  <1>4. /\ bank' \in Banks /\ bank'.claimed = bank.claimed /\ bank'.generation = bank.generation
        /\ bank'.safe = bank.safe
        /\ bank'.pin = c.high /\ granted' = c.high /\ c.high \in BOOLEAN
    BY <1>t, <1>1, <1>2, <1>3 DEF Typed, Banks, Commands
  <1>5. bank.generation # 0 /\ promise = {}
    BY <1>1 DEF Inv, PromiseInv, InUse, ValidGeneration
  <1>6. Typed'
    BY <1>t, <1>1, <1>4, Zenon DEF Typed
  <1>7. HoldsInv' /\ PromiseInv'
    BY <1>1, <1>4, <1>5 DEF Inv, HoldsInv, PromiseInv, InUse
  <1>8. ClaimInv'
    BY <1>1, <1>4, <1>5 DEF Inv, ClaimInv
  <1>9. QueueTyped' /\ TokenInv'
    BY <1>1, <1>4, TailStep DEF Inv
  <1> QED
    BY <1>6, <1>7, <1>8, <1>9 DEF Inv

(* A command is refused.                                                   *)
LEMMA RejectedStep == ASSUME Inv, Rejected PROVE Inv'
  <1>1. /\ queue # <<>> /\ queue' = Tail(queue)
        /\ UNCHANGED <<native, request, owner, stop, worker, dev, bank, cache, token, granted,
                       promise>>
    BY DEF Rejected, Executes, site
  <1>2. Typed' /\ HoldsInv' /\ PromiseInv' /\ ClaimInv'
    BY <1>1 DEF Inv, Typed, HoldsInv, PromiseInv, ClaimInv, InUse
  <1>3. QueueTyped' /\ TokenInv'
    BY <1>1, TailStep DEF Inv
  <1> QED
    BY <1>2, <1>3 DEF Inv

(* A snapshot is sent: what it stages keeps the promise.                   *)
LEMMA SnapshotStep == ASSUME Inv, Snapshot PROVE Inv'
  <1>1. /\ queue # <<>> /\ queue' = Tail(queue) /\ worker.at = "commands"
        /\ owner' = [owner EXCEPT !.at = "running", !.pending = SnapshotOf(bank)]
        /\ UNCHANGED <<native, request, stop, worker, dev, bank, cache, token, granted, promise>>
    BY DEF Snapshot, Executes, site
  <1>t. Typed
    BY DEF Inv
  <1>2. /\ bank.safe \in BOOLEAN /\ RetiredOutput(bank) \in BOOLEAN
        /\ bank.claimed => RetiredOutput(bank) = bank.safe
        /\ bank.pin = bank.safe => RetiredOutput(bank) = bank.safe
    BY <1>t, FieldTypes, RetireFacts
  <1>3. /\ PromiseOnRetire \in SUBSET BOOLEAN
        /\ \A level \in PromiseOnRetire : RetiredOutput(bank) = level /\ bank.safe = level
    BY <1>1, <1>2, <1>t DEF Inv, Typed, PromiseInv, InUse, PromiseOnRetire
  <1>4. /\ SnapshotOf(bank) \in Staged
        /\ SnapshotOf(bank).pin = RetiredOutput(bank) /\ SnapshotOf(bank).safe = bank.safe
        /\ SnapshotOf(bank).promise = PromiseOnRetire
    BY <1>2, <1>3 DEF SnapshotOf, Staged
  <1>5. /\ owner' \in [at : {"stopped", "running", "waiting", "stopping"}, retiring : BOOLEAN,
                       pending : Staged]
        /\ owner'.at # "stopped"
        /\ owner'.retiring = owner.retiring /\ owner'.pending = SnapshotOf(bank)
    BY <1>t, <1>1, <1>4 DEF Typed
  <1>6. Typed'
    BY <1>t, <1>1, <1>5, Zenon DEF Typed
  <1>7. HoldsInv' /\ ClaimInv'
    BY <1>1, <1>5 DEF Inv, HoldsInv, ClaimInv
  <1>8. PromiseInv'
    BY <1>1, <1>3, <1>4, <1>5 DEF Inv, PromiseInv, InUse
  <1>9. QueueTyped' /\ TokenInv'
    BY <1>1, TailStep DEF Inv
  <1> QED
    BY <1>6, <1>7, <1>8, <1>9 DEF Inv

(* A site binds, rebinds or releases the pin.                              *)
LEMMA SiteBindStep == ASSUME Inv, SiteBind PROVE Inv'
  <1> DEFINE c == Head(queue)
  <1>1. /\ worker.at = "commands" /\ queue # <<>> /\ ValidGeneration(c.generation)
        /\ dev' = IF bank.claimed \/ c.claim THEN [dev EXCEPT !.pulse = FALSE] ELSE dev
        /\ token' = TokenAfter(1)
        /\ UNCHANGED <<native, request, owner, stop, worker>>
    BY DEF SiteBind, Executes
  <1>t. Typed
    BY DEF Inv
  <1>2. c \in Commands
    BY <1>1, QueueFacts DEF Inv
  <1>3. /\ dev' \in Devices /\ (dev'.pulse => dev.pulse) /\ (c.claim => ~dev'.pulse)
        /\ dev'.usb = dev.usb /\ dev'.port = dev.port /\ dev'.level = dev.level
        /\ dev'.cm119 = dev.cm119 /\ dev'.parallel = dev.parallel
    BY <1>t, <1>1 DEF Typed, Devices
  <1>4. /\ token' \in 1 .. MaxGeneration /\ token' >= token /\ token \in Nat /\ token' \in Nat
        /\ Token(0) < token' /\ (Token(0) # 0 => Token(0) = token)
    <2>1. 0 \in Nat /\ 1 \in Nat /\ 0 + 1 = 1
      OBVIOUS
    <2>2. token \in 1 .. MaxGeneration
      BY <1>t DEF Typed
    <2>3. /\ TokenAfter(1) \in 1 .. MaxGeneration /\ TokenAfter(1) >= token
          /\ Token(0) < TokenAfter(1) /\ (Token(0) # 0 => Token(0) = token + 0)
      BY <2>1, <2>2, TokenFacts
    <2> QED
      BY <1>1, <2>2, <2>3
  <1>5. bank.generation # 0 /\ bank.generation \in Nat /\ cache.generation \in Nat
    BY <1>1, <1>t, FieldTypes DEF ValidGeneration, Typed
  <1>6. HoldsInv'
    BY <1>1, <1>3 DEF Inv, HoldsInv
  <1> HIDE DEF c
  <1>7. CASE Token(0) = 0
    <2>1. queue' = Tail(queue) /\ UNCHANGED <<bank, cache, granted, promise>>
      BY <1>7 DEF SiteBind, c
    <2>2. Typed'
      BY <1>t, <1>1, <1>3, <1>4, <2>1, Zenon DEF Typed
    <2>3. QueueTyped'
      BY <1>1, <2>1, TailFacts DEF Inv, QueueTyped
    <2>4. PromiseInv' /\ ClaimInv'
      BY <1>1, <1>3, <2>1 DEF Inv, PromiseInv, ClaimInv, InUse
    <2>5. TokenInv'
      <3>1. \A i \in 1 .. Len(queue') :
                 /\ queue'[i].generation < token'
                 /\ queue'[i].kind = "publish" /\ ValidGeneration(queue'[i].generation)
                       => queue'[i].current
        BY <1>1, <1>4, <2>1, TailFacts DEF Inv
      <3> QED
        BY <1>4, <1>5, <2>1, <3>1 DEF Inv, TokenInv, ValidGeneration
    <2> QED
      BY <1>6, <2>2, <2>3, <2>4, <2>5 DEF Inv
  <1>8. CASE Token(0) # 0
    <2> DEFINE g == c.claim /\ Bound(c).pin
    <2>1. /\ bank' = Bound(c) /\ granted' = g
          /\ promise' = IF c.claim THEN {} ELSE PromiseOnRetire
          /\ cache' = [cache EXCEPT !.current = FALSE]
          /\ queue' = Outdated(Tail(queue))
      BY <1>8, Zenon DEF SiteBind, c
    <2>2. /\ bank' \in Banks
          /\ bank'.claimed = c.claim /\ bank'.generation = Token(0)
          /\ bank'.safe = IF c.claim THEN c.safe ELSE bank.safe
          /\ ~c.claim => bank'.pin = IF bank.claimed THEN bank.safe ELSE bank.pin
      BY <1>2, <1>t, <2>1, BoundFacts DEF Typed
    <2>3. bank'.pin \in BOOLEAN
      BY <2>2 DEF Banks
    <2>4. g \in BOOLEAN /\ (c.claim => bank'.pin = g)
      BY <2>1, <2>3, Zenon
    <2> HIDE DEF g
    <2>5. /\ promise' \in SUBSET BOOLEAN
          /\ \A level \in promise' : bank'.pin = level /\ bank'.safe = level
          /\ c.claim => promise' = {}
      <3>1. bank.safe \in BOOLEAN /\ promise \in SUBSET BOOLEAN
        BY <1>t, FieldTypes DEF Typed
      <3>2. \A level \in promise : bank.pin = level /\ bank.safe = level
        BY <1>1 DEF Inv, PromiseInv, InUse
      <3> QED
        BY <2>1, <2>2, <3>1, <3>2 DEF PromiseOnRetire
    <2>6. /\ cache' \in [generation : Nat, claimed : BOOLEAN, current : BOOLEAN]
          /\ cache'.generation = cache.generation
      BY <1>t, <2>1 DEF Typed
    <2>7. Typed'
      BY <1>t, <1>1, <1>3, <1>4, <2>1, <2>2, <2>4, <2>5, <2>6, Zenon DEF Typed
    <2>8. QueueTyped' /\ Len(queue') = Len(Tail(queue))
      BY <1>1, <2>1, TailFacts, OutdatedFacts DEF Inv, QueueTyped
    <2>9. PromiseInv'
      BY <1>1, <1>3, <1>8, <2>2, <2>5 DEF Inv, HoldsInv, PromiseInv, InUse
    <2>10. ClaimInv'
      BY <1>3, <2>1, <2>2, <2>4 DEF ClaimInv
    <2>11. TokenInv'
      <3>1. \A i \in 1 .. Len(queue') : queue'[i].generation \in Nat /\ queue'[i].generation < token
        BY <1>1, <2>1, <2>8, TailFacts, OutdatedFacts DEF Inv
      <3>2. cache.generation < token
        BY DEF Inv, TokenInv
      <3> QED
        BY <1>4, <1>5, <1>8, <2>2, <2>6, <3>1, <3>2 DEF TokenInv, ValidGeneration
    <2> QED
      BY <1>6, <2>7, <2>8, <2>9, <2>10, <2>11 DEF Inv
  <1> QED
    BY <1>7, <1>8

-----------------------------------------------------------------------------
(* Nothing changes.                                                        *)
LEMMA StutterStep == ASSUME Inv, UNCHANGED vars PROVE Inv'
  <1>1. UNCHANGED <<native, request, owner, stop, worker, queue, dev, bank, cache, token, granted,
                    promise>>
    BY DEF vars, site
  <1>2. Typed' /\ HoldsInv' /\ PromiseInv' /\ ClaimInv'
    BY <1>1 DEF Inv, Typed, HoldsInv, PromiseInv, ClaimInv, InUse
  <1>3. QueueTyped' /\ TokenInv'
    BY <1>1 DEF Inv, QueueTyped, TokenInv, ValidGeneration
  <1> QED
    BY <1>2, <1>3 DEF Inv

(* Every step of the service preserves the invariant.                      *)
LEMMA NextInv == Inv /\ [Next]_vars => Inv'
  <1> SUFFICES ASSUME Inv, [Next]_vars PROVE Inv'
    OBVIOUS
  <1>1. CASE SetRequest \/ RequestStop \/ BeginService
    <2>1. UNCHANGED <<native, queue, dev, bank, cache, token, granted, promise>>
      BY <1>1 DEF SetRequest, RequestStop, BeginService, site
    <2> QED
      BY <1>1, <2>1, FrameStep
  <1>2. CASE PulseEnds
    BY <1>2, PulseEndsStep
  <1>3. CASE Owner
    BY <1>1, <1>3, StartFailsStep, StartStep, QueuesStep, SnapshotTimesOutStep, JoinStep,
       OwnerRetiresStep DEF Owner
  <1>4. CASE Worker
    BY <1>1, <1>4, OutputStep, SiteBindStep, SitePublishStep, RejectedStep, CommandFailsStep,
       SnapshotStep, ServiceCycleStep, RetireDevicesStep, ReopenStep, ExitStep DEF Worker
  <1>5. CASE UNCHANGED vars
    BY <1>5, StutterStep
  <1> QED
    BY <1>1, <1>2, <1>3, <1>4, <1>5 DEF Next

(* The invariant holds always.                                             *)
THEOREM ServiceInvariant == Spec => []Inv
  BY InitInv, NextInv, PTL DEF Spec

(* No transmitter stays keyed by a device nobody holds, and a pin its site *)
(* owner has lost keeps the level promised, through recovery, stop, failed *)
(* start, the owner's retries and a reload (close_outputs, RetireSite,     *)
(* open_at_outputs), for every number of commands and tokens.              *)
THEOREM OutputsReleasedSafely == Spec => []ReleasedOutputsSafe
  <1>1. Inv => ReleasedOutputsSafe
    BY DEF Inv, HoldsInv, PromiseInv, InUse, ReleasedOutputsSafe, ReleasedMeansUnkeyed,
           ReleasedPinSafe
  <1> QED
    BY <1>1, ServiceInvariant, PTL

(* A pin the site owns has the level that owner last had accepted, and no  *)
(* ownership token is drawn twice (site_bind, site_publish,                *)
(* next_generation).                                                       *)
THEOREM SiteOwnershipExclusive == Spec => []SiteOwnerControlsPin
  <1>1. Inv => SiteOwnerControlsPin
    BY DEF Inv, Typed, TokenInv, ClaimInv, SiteOwnerControlsPin
  <1> QED
    BY <1>1, ServiceInvariant, PTL

(* Types, and a thread exists exactly while the service is not stopped.    *)
THEOREM ServiceTypes == Spec => []TypeOK
  <1>1. Inv => TypeOK
    <2> SUFFICES ASSUME Inv PROVE TypeOK
      OBVIOUS
    <2>t. Typed
      BY DEF Inv
    <2>1. DOMAIN NewDevices = {"ptt", "pin", "pulse", "usb", "port", "level", "cm119", "parallel"}
      BY DEF NewDevices
    <2>2. dev \in [DOMAIN NewDevices -> BOOLEAN]
      BY <2>1, <2>t DEF Typed, Devices
    <2>3. /\ owner.at \in {"stopped", "running", "waiting", "stopping"}
          /\ worker.at \in {"none", "loop", "commands", "exited"}
          /\ bank \in [pin : BOOLEAN, claimed : BOOLEAN, safe : BOOLEAN,
                       generation : 0 .. (MaxGeneration - 1)]
      BY <2>t DEF Typed, Banks
    <2>4. {native, request, stop, granted} \subseteq BOOLEAN /\ promise \subseteq BOOLEAN
      BY <2>t DEF Typed
    <2>5. (worker.at = "none") = (owner.at = "stopped") /\ Len(queue) <= QueueCapacity
      BY DEF Inv, HoldsInv, QueueTyped
    <2> QED
      BY <2>2, <2>3, <2>4, <2>5, Zenon DEF TypeOK
  <1> QED
    BY <1>1, ServiceInvariant, PTL
=============================================================================
