-------------------------- MODULE ChannelHostProofs --------------------------
(***************************************************************************)
(* Proofs about ChannelHost, for any set of radios and any bound on the    *)
(* environment: no thread reaches a freed Channel, the technologies        *)
(* outlive what they host, and the controller's last accepted indication   *)
(* is the one the radio holds.                                             *)
(*                                                                         *)
(* The inductive invariant says who holds which lock.  Sound(c) ties the   *)
(* hangup of a channel to the membership mutex and to the owner lock, the  *)
(* callback to the owner lock, and every thread to the live box.  Replayed *)
(* says what an intent that waits for replay owes to the last accepted     *)
(* one.  Gated ties the control gate to the phase of the reload, which     *)
(* holds the membership mutex throughout; that is why hangup, which holds  *)
(* the same mutex, finds the gate open and its Destroy is not refused.     *)
(***************************************************************************)
EXTENDS ChannelHost, FiniteSetTheorems, TLAPS

Hosts == [box : {"none", "live", "freed"}, pvt : BOOLEAN,
          owner : BOOLEAN, direct : BOOLEAN, called : BOOLEAN,
          stop : BOOLEAN, failed : BOOLEAN, pending : Intents \cup {NoIntent},
          jitterPending : BOOLEAN, jitterApplied : Nat]

Radios == [state : {"none", "reserved", "running", "stopped"},
           request : Intents, adopted : {"no", "live", "replaced"},
           saved : Intents]

Workers == [pc : {"none", "loop", "replay", "clear_pending", "jitter",
                  "clear_jitter", "service", "done"},
            raw : Intents \cup {NoIntent}]

Callbacks == [pc : {"idle", "call", "clear", "start", "spawn", "try", "store"},
              intent : Intents \cup {NoIntent}]

Hangups == {"idle", "failed", "membership", "owner", "remove", "join"}

Reloads == [phase : {"idle", "gate", "adopt", "abort", "reopen", "release"},
            todo : SUBSET Channels]

Typed ==
    /\ members \subseteq Channels
    /\ olock \in [Channels -> {"free", "callback", "hangup"}]
    /\ ch \in [Channels -> Hosts]
    /\ radio \in [Channels -> Radios]
    /\ worker \in [Channels -> Workers]
    /\ callback \in [Channels -> Callbacks]
    /\ hang \in [Channels -> Hangups]
    /\ latest \in [Channels -> Intents \cup {NoIntent}]
    /\ overridden \in [Channels -> BOOLEAN]
    /\ generation \in Nat

\* Who holds what of channel c, and that everyone who does finds it live.
\* The arguments are the channel's slots, the membership and its mutex.
SoundOf(c, h, r, w, k, g, o, mem, m) ==
    /\ h.pvt <=> h.box = "live"
    /\ r.state = "none" <=> h.box # "live"
    /\ c \in mem => h.box = "live" /\ g # "join"
    /\ w.pc \notin {"none", "done"} => h.box = "live"
    /\ k.pc # "idle" => h.box = "live"
    /\ k.pc # "idle" <=> o = "callback"
    /\ g # "idle" => h.box = "live"
    /\ g \in {"owner", "remove", "join"} <=> m = c
    /\ g \in {"remove", "join"} <=> o = "hangup"

Sound(c) == SoundOf(c, ch[c], radio[c], worker[c], callback[c], hang[c],
                    olock[c], members, mlock)

\* What waits for replay is the last accepted intent, and what was replayed
\* is what the radio holds until something else overrides it.
ReplayedOf(h, r, w, k, l, v) ==
    /\ h.pending # NoIntent => h.pending = l
    /\ k.pc = "try" => h.pending = NoIntent
    /\ k.pc \in {"try", "store"} => k.intent \in Intents
    /\ w.pc \in {"replay", "clear_pending"} =>
          w.raw \in Intents /\ h.pending # NoIntent
    /\ w.pc = "clear_pending" => v \/ r.request = w.raw
    /\ h.box = "live" /\ l # NoIntent /\ h.pending = NoIntent /\ ~v
          => r.request = l

Replayed(c) == ReplayedOf(ch[c], radio[c], worker[c], callback[c], latest[c],
                          overridden[c])

\* The reload holds the membership mutex from before it closes the gate
\* until after it has opened it.
Gated ==
    /\ mlock = "reload" <=> reloader.phase # "idle"
    /\ gate = "open" <=> reloader.phase \in {"idle", "release"}
    /\ reloader \in Reloads

Hosted == {c \in Channels : ch[c].box = "live"}

Counted == active = Cardinality(Hosted) /\ (Hosted # {} => host)

Inv ==
    /\ Typed
    /\ Gated
    /\ Counted
    /\ \A c \in Channels : Sound(c) /\ Replayed(c)

-----------------------------------------------------------------------------
(* A channel's slots.                                                      *)

\* No indication is the absent one.
LEMMA NoIntentApart == NoIntent \notin Intents
  BY ConstantsOK DEF Intents

\* A channel is not one of the two other values of the mutex word.
LEMMA LockNames ==
    ASSUME NEW c \in Channels
    PROVE  c # "free" /\ c # "reload"
  BY ConstantsOK

\* A function set at one channel.
LEMMA SetFacts ==
    ASSUME NEW S, NEW f \in [Channels -> S], NEW c \in Channels, NEW v \in S,
           NEW g, g = [f EXCEPT ![c] = v]
    PROVE  /\ g \in [Channels -> S]
           /\ g[c] = v
           /\ \A d \in Channels : d # c => g[d] = f[d]
  OBVIOUS

\* What a step writes into its channel's slots.
Slots(c, h, r, w, k, g, o, l, v) ==
    /\ ch' = [ch EXCEPT ![c] = h]
    /\ radio' = [radio EXCEPT ![c] = r]
    /\ worker' = [worker EXCEPT ![c] = w]
    /\ callback' = [callback EXCEPT ![c] = k]
    /\ hang' = [hang EXCEPT ![c] = g]
    /\ olock' = [olock EXCEPT ![c] = o]
    /\ latest' = [latest EXCEPT ![c] = l]
    /\ overridden' = [overridden EXCEPT ![c] = v]

\* A slot left alone is written with what it holds.
LEMMA LeftAlone ==
    ASSUME Typed, NEW c \in Channels
    PROVE  /\ ch = [ch EXCEPT ![c] = ch[c]]
           /\ radio = [radio EXCEPT ![c] = radio[c]]
           /\ worker = [worker EXCEPT ![c] = worker[c]]
           /\ callback = [callback EXCEPT ![c] = callback[c]]
           /\ hang = [hang EXCEPT ![c] = hang[c]]
           /\ olock = [olock EXCEPT ![c] = olock[c]]
           /\ latest = [latest EXCEPT ![c] = latest[c]]
           /\ overridden = [overridden EXCEPT ![c] = overridden[c]]
<1>1. ASSUME NEW S, NEW f \in [Channels -> S]
      PROVE  f = [f EXCEPT ![c] = f[c]]
  OBVIOUS
<1> QED
  BY <1>1, Zenon DEF Typed

\* The slots of a channel hold what their types say.
LEMMA SlotTypes ==
    ASSUME Typed, NEW c \in Channels
    PROVE  /\ ch[c] \in Hosts /\ radio[c] \in Radios /\ worker[c] \in Workers
           /\ callback[c] \in Callbacks /\ hang[c] \in Hangups
           /\ olock[c] \in {"free", "callback", "hangup"}
           /\ latest[c] \in Intents \cup {NoIntent}
           /\ overridden[c] \in BOOLEAN
  BY DEF Typed

\* A step that gives one channel new slots keeps the types and touches no other channel.
LEMMA SlotFacts ==
    ASSUME Typed, NEW c \in Channels, NEW h \in Hosts, NEW r \in Radios,
           NEW w \in Workers, NEW k \in Callbacks, NEW g \in Hangups,
           NEW o \in {"free", "callback", "hangup"},
           NEW l \in Intents \cup {NoIntent}, NEW v \in BOOLEAN,
           Slots(c, h, r, w, k, g, o, l, v),
           members' \subseteq Channels, generation' \in Nat
    PROVE  /\ Typed'
           /\ ch'[c] = h /\ radio'[c] = r /\ worker'[c] = w
           /\ callback'[c] = k /\ hang'[c] = g /\ olock'[c] = o
           /\ latest'[c] = l /\ overridden'[c] = v
           /\ \A d \in Channels : d # c =>
                 /\ ch'[d] = ch[d] /\ radio'[d] = radio[d]
                 /\ worker'[d] = worker[d] /\ callback'[d] = callback[d]
                 /\ hang'[d] = hang[d] /\ olock'[d] = olock[d]
                 /\ latest'[d] = latest[d] /\ overridden'[d] = overridden[d]
<1>1. /\ ch' \in [Channels -> Hosts] /\ ch'[c] = h
      /\ \A d \in Channels : d # c => ch'[d] = ch[d]
  BY SetFacts, Zenon DEF Typed, Slots
<1>2. /\ radio' \in [Channels -> Radios] /\ radio'[c] = r
      /\ \A d \in Channels : d # c => radio'[d] = radio[d]
  BY SetFacts, Zenon DEF Typed, Slots
<1>3. /\ worker' \in [Channels -> Workers] /\ worker'[c] = w
      /\ \A d \in Channels : d # c => worker'[d] = worker[d]
  BY SetFacts, Zenon DEF Typed, Slots
<1>4. /\ callback' \in [Channels -> Callbacks] /\ callback'[c] = k
      /\ \A d \in Channels : d # c => callback'[d] = callback[d]
  BY SetFacts, Zenon DEF Typed, Slots
<1>5. /\ hang' \in [Channels -> Hangups] /\ hang'[c] = g
      /\ \A d \in Channels : d # c => hang'[d] = hang[d]
  BY SetFacts, Zenon DEF Typed, Slots
<1>6. /\ olock' \in [Channels -> {"free", "callback", "hangup"}] /\ olock'[c] = o
      /\ \A d \in Channels : d # c => olock'[d] = olock[d]
  BY SetFacts, Zenon DEF Typed, Slots
<1>7. /\ latest' \in [Channels -> Intents \cup {NoIntent}] /\ latest'[c] = l
      /\ \A d \in Channels : d # c => latest'[d] = latest[d]
  BY SetFacts, Zenon DEF Typed, Slots
<1>8. /\ overridden' \in [Channels -> BOOLEAN] /\ overridden'[c] = v
      /\ \A d \in Channels : d # c => overridden'[d] = overridden[d]
  BY SetFacts, Zenon DEF Typed, Slots
<1>9. Typed'
  BY <1>1, <1>2, <1>3, <1>4, <1>5, <1>6, <1>7, <1>8, Zenon DEF Typed
<1> QED
  BY <1>1, <1>2, <1>3, <1>4, <1>5, <1>6, <1>7, <1>8, <1>9, Zenon

\* A step of one channel keeps the invariant if it keeps that channel's part.
LEMMA SlotStep ==
    ASSUME Inv, NEW c \in Channels, NEW h \in Hosts, NEW r \in Radios,
           NEW w \in Workers, NEW k \in Callbacks, NEW g \in Hangups,
           NEW o \in {"free", "callback", "hangup"},
           NEW l \in Intents \cup {NoIntent}, NEW v \in BOOLEAN,
           Slots(c, h, r, w, k, g, o, l, v),
           members' \subseteq Channels, generation' \in Nat,
           \A d \in Channels : d # c => /\ d \in members' <=> d \in members
                                        /\ mlock' = d <=> mlock = d,
           SoundOf(c, h, r, w, k, g, o, members', mlock'),
           ReplayedOf(h, r, w, k, l, v),
           Gated', Counted'
    PROVE  Inv'
<1>1. Typed
  BY DEF Inv
<1>2. /\ Typed'
      /\ ch'[c] = h /\ radio'[c] = r /\ worker'[c] = w
      /\ callback'[c] = k /\ hang'[c] = g /\ olock'[c] = o
      /\ latest'[c] = l /\ overridden'[c] = v
      /\ \A d \in Channels : d # c =>
            /\ ch'[d] = ch[d] /\ radio'[d] = radio[d]
            /\ worker'[d] = worker[d] /\ callback'[d] = callback[d]
            /\ hang'[d] = hang[d] /\ olock'[d] = olock[d]
            /\ latest'[d] = latest[d] /\ overridden'[d] = overridden[d]
  BY <1>1, SlotFacts
<1>3. Sound(c)' /\ Replayed(c)'
  BY <1>2, Zenon DEF Sound, Replayed
<1>4. ASSUME NEW d \in Channels, d # c
      PROVE  Sound(d)' /\ Replayed(d)'
  <2>1. Sound(d) /\ Replayed(d)
    BY DEF Inv
  <2>2. /\ ch'[d] = ch[d] /\ radio'[d] = radio[d]
        /\ worker'[d] = worker[d] /\ callback'[d] = callback[d]
        /\ hang'[d] = hang[d] /\ olock'[d] = olock[d]
        /\ latest'[d] = latest[d] /\ overridden'[d] = overridden[d]
    BY <1>2, <1>4, Zenon
  <2>3. Replayed(d)'
    BY <2>1, <2>2, Zenon DEF Replayed
  <2>4. /\ d \in members' <=> d \in members
        /\ mlock' = d <=> mlock = d
    BY <1>4
  <2>5. SoundOf(d, ch[d], radio[d], worker[d], callback[d], hang[d], olock[d],
                members', mlock')
    BY <2>1, <2>4 DEF Sound, SoundOf
  <2> QED
    BY <2>2, <2>3, <2>5, Zenon DEF Sound
<1> QED
  BY <1>2, <1>3, <1>4, Zenon DEF Inv

\* The same for a step that hosts and frees nothing and touches no lock of
\* the reload.
LEMMA QuietStep ==
    ASSUME Inv, NEW c \in Channels, NEW h \in Hosts, NEW r \in Radios,
           NEW w \in Workers, NEW k \in Callbacks, NEW g \in Hangups,
           NEW o \in {"free", "callback", "hangup"},
           NEW l \in Intents \cup {NoIntent}, NEW v \in BOOLEAN,
           Slots(c, h, r, w, k, g, o, l, v), h.box = ch[c].box,
           UNCHANGED <<host, active, members, mlock, gate, generation>>,
           reloader'.phase = reloader.phase, reloader' \in Reloads,
           SoundOf(c, h, r, w, k, g, o, members, mlock),
           ReplayedOf(h, r, w, k, l, v)
    PROVE  Inv'
<1>1. Typed /\ Gated /\ Counted
  BY DEF Inv
<1>2. members' \subseteq Channels /\ generation' \in Nat
  BY <1>1 DEF Typed
<1>3. Gated'
  BY <1>1 DEF Gated
<1>4. Counted'
  <2>1. /\ ch'[c] = h
        /\ \A d \in Channels : d # c => ch'[d] = ch[d]
    BY <1>1, <1>2, SlotFacts
  <2>2. Hosted' = Hosted
    BY <2>1 DEF Hosted
  <2> QED
    BY <1>1, <2>2 DEF Counted
<1>5. SoundOf(c, h, r, w, k, g, o, members', mlock')
  OBVIOUS
<1> QED
  BY <1>2, <1>3, <1>4, <1>5, SlotStep

\* Its premises about the slots, together.
Fits(c, h, r, w, k, g, o, l, v) ==
    /\ h \in Hosts /\ r \in Radios /\ w \in Workers /\ k \in Callbacks
    /\ g \in Hangups /\ o \in {"free", "callback", "hangup"}
    /\ l \in Intents \cup {NoIntent} /\ v \in BOOLEAN
    /\ Slots(c, h, r, w, k, g, o, l, v)
    /\ h.box = ch[c].box
    /\ SoundOf(c, h, r, w, k, g, o, members, mlock)
    /\ ReplayedOf(h, r, w, k, l, v)

\* A step of one channel that leaves the shared locks and counts alone keeps the invariant
\* if that channel's new slots satisfy its part.
LEMMA FittingStep ==
    ASSUME Inv, NEW c \in Channels, NEW h, NEW r, NEW w, NEW k, NEW g, NEW o,
           NEW l, NEW v, Fits(c, h, r, w, k, g, o, l, v),
           UNCHANGED <<host, active, members, mlock, gate, generation>>,
           reloader'.phase = reloader.phase, reloader' \in Reloads
    PROVE  Inv'
  BY QuietStep DEF Fits

\* What the invariant says of one channel, slot by slot.
LEMMA ChannelFacts ==
    ASSUME Inv, NEW c \in Channels
    PROVE  /\ Typed /\ Gated /\ Counted
           /\ SoundOf(c, ch[c], radio[c], worker[c], callback[c], hang[c],
                      olock[c], members, mlock)
           /\ ReplayedOf(ch[c], radio[c], worker[c], callback[c], latest[c],
                         overridden[c])
           /\ ch[c] \in Hosts /\ radio[c] \in Radios /\ worker[c] \in Workers
           /\ callback[c] \in Callbacks /\ hang[c] \in Hangups
           /\ olock[c] \in {"free", "callback", "hangup"}
           /\ latest[c] \in Intents \cup {NoIntent}
           /\ overridden[c] \in BOOLEAN
           /\ reloader \in Reloads
  BY SlotTypes DEF Inv, Sound, Replayed, Gated

-----------------------------------------------------------------------------
(* Steps of a channel's threads that accept no indication.                 *)

\* Nothing the invariant says of a Channel tells n from h.
SameHost(n, h) ==
    n.box = h.box /\ (n.pvt <=> h.pvt) /\ n.pending = h.pending

\* Writing these fields of a Channel changes nothing the invariant says of it.
LEMMA HostFields ==
    ASSUME NEW h \in Hosts, NEW b \in BOOLEAN, NEW j \in Nat
    PROVE  /\ SameHost(h, h)
           /\ [h EXCEPT !.owner = b] \in Hosts /\ SameHost([h EXCEPT !.owner = b], h)
           /\ [h EXCEPT !.direct = b] \in Hosts /\ SameHost([h EXCEPT !.direct = b], h)
           /\ [h EXCEPT !.called = b] \in Hosts /\ SameHost([h EXCEPT !.called = b], h)
           /\ [h EXCEPT !.stop = b] \in Hosts /\ SameHost([h EXCEPT !.stop = b], h)
           /\ [h EXCEPT !.failed = b] \in Hosts /\ SameHost([h EXCEPT !.failed = b], h)
           /\ [h EXCEPT !.jitterPending = b] \in Hosts
           /\ SameHost([h EXCEPT !.jitterPending = b], h)
           /\ [h EXCEPT !.jitterApplied = j] \in Hosts
           /\ SameHost([h EXCEPT !.jitterApplied = j], h)
  BY DEF Hosts, SameHost

\* Neither does unpublishing the owner.
LEMMA SetOwner ==
    ASSUME NEW h \in Hosts
    PROVE  /\ [h EXCEPT !.owner = FALSE] \in Hosts
           /\ SameHost([h EXCEPT !.owner = FALSE], h)
  BY HostFields, 0 \in Nat, Zenon

\* Nor does raising a flag.
LEMMA SetFlags ==
    ASSUME NEW h \in Hosts
    PROVE  /\ [h EXCEPT !.direct = TRUE] \in Hosts
           /\ SameHost([h EXCEPT !.direct = TRUE], h)
           /\ [h EXCEPT !.called = TRUE] \in Hosts
           /\ SameHost([h EXCEPT !.called = TRUE], h)
           /\ [h EXCEPT !.stop = TRUE] \in Hosts
           /\ SameHost([h EXCEPT !.stop = TRUE], h)
           /\ [h EXCEPT !.failed = TRUE] \in Hosts
           /\ SameHost([h EXCEPT !.failed = TRUE], h)
           /\ [h EXCEPT !.jitterPending = TRUE] \in Hosts
           /\ SameHost([h EXCEPT !.jitterPending = TRUE], h)
  BY HostFields, 0 \in Nat, Zenon

\* Nor does clearing one.
LEMMA ClearFlags ==
    ASSUME NEW h \in Hosts
    PROVE  /\ [h EXCEPT !.stop = FALSE] \in Hosts
           /\ SameHost([h EXCEPT !.stop = FALSE], h)
           /\ [h EXCEPT !.failed = FALSE] \in Hosts
           /\ SameHost([h EXCEPT !.failed = FALSE], h)
           /\ [h EXCEPT !.jitterPending = FALSE] \in Hosts
           /\ SameHost([h EXCEPT !.jitterPending = FALSE], h)
  BY HostFields, 0 \in Nat, Zenon

\* Nor do two such writes, one after the other.
LEMMA SameHostTransitive ==
    ASSUME NEW a, NEW b, NEW d, SameHost(a, b), SameHost(b, d)
    PROVE  SameHost(a, d)
  BY Zenon DEF SameHost

\* What a thread of channel c writes when it neither hosts, hangs up nor
\* accepts an indication.
Moves(c, n, r, w, k, o) ==
    /\ ch' = [ch EXCEPT ![c] = n]
    /\ radio' = [radio EXCEPT ![c] = r]
    /\ worker' = [worker EXCEPT ![c] = w]
    /\ callback' = [callback EXCEPT ![c] = k]
    /\ olock' = [olock EXCEPT ![c] = o]
    /\ UNCHANGED <<host, members, active, mlock, gate, hang, reloader,
                   generation, latest, overridden>>

\* The worker's next step is one its channel allows.
WorkerMay(w, h, r, v) ==
    /\ w.pc \notin {"none", "done"} => h.box = "live"
    /\ w.pc \in {"replay", "clear_pending"} =>
          w.raw \in Intents /\ h.pending # NoIntent
    /\ w.pc = "clear_pending" => v \/ r.request = w.raw

\* So is the callback's, which holds the owner lock while it runs.
CallbackMay(k, o, h) ==
    /\ k.pc # "idle" => h.box = "live"
    /\ k.pc # "idle" <=> o = "callback"
    /\ k.pc = "try" => h.pending = NoIntent
    /\ k.pc \in {"try", "store"} => k.intent \in Intents

\* Where the worker and the callback of a channel may be.
LEMMA MayFacts ==
    ASSUME Inv, NEW c \in Channels
    PROVE  /\ WorkerMay(worker[c], ch[c], radio[c], overridden[c])
           /\ CallbackMay(callback[c], olock[c], ch[c])
  BY ChannelFacts DEF SoundOf, ReplayedOf, WorkerMay, CallbackMay

\* A step of the worker or of a callback keeps the invariant if the thread may be where it
\* goes and the hangup does not see it.
LEMMA ThreadStep ==
    ASSUME Inv, NEW c \in Channels, NEW n \in Hosts, NEW r \in Radios,
           NEW w \in Workers, NEW k \in Callbacks,
           NEW o \in {"free", "callback", "hangup"},
           Moves(c, n, r, w, k, o), SameHost(n, ch[c]),
           r.request = radio[c].request,
           r.state = "none" <=> radio[c].state = "none",
           o = "hangup" <=> olock[c] = "hangup",
           WorkerMay(w, ch[c], radio[c], overridden[c]),
           CallbackMay(k, o, ch[c])
    PROVE  Inv'
<1>1. Slots(c, n, r, w, k, hang[c], o, latest[c], overridden[c])
  <2>1. /\ hang = [hang EXCEPT ![c] = hang[c]]
        /\ latest = [latest EXCEPT ![c] = latest[c]]
        /\ overridden = [overridden EXCEPT ![c] = overridden[c]]
    BY LeftAlone, Zenon DEF Inv
  <2> QED
    BY <2>1, Zenon DEF Moves, Slots
<1>2. SoundOf(c, n, r, w, k, hang[c], o, members, mlock)
  BY ChannelFacts DEF SoundOf, SameHost, WorkerMay, CallbackMay
<1>3. ReplayedOf(n, r, w, k, latest[c], overridden[c])
  BY ChannelFacts DEF ReplayedOf, SameHost, WorkerMay, CallbackMay
<1>4. /\ UNCHANGED <<host, active, members, mlock, gate, generation>>
      /\ reloader'.phase = reloader.phase /\ reloader' \in Reloads
  BY ChannelFacts DEF Moves
<1>5. n.box = ch[c].box
  BY DEF SameHost
<1>6. /\ hang[c] \in Hangups /\ latest[c] \in Intents \cup {NoIntent}
      /\ overridden[c] \in BOOLEAN
  BY ChannelFacts
<1> QED
  BY <1>1, <1>2, <1>3, <1>4, <1>5, <1>6, QuietStep

-----------------------------------------------------------------------------
(* The callback's steps.                                                   *)

\* Switching a channel to direct media keeps the invariant.
LEMMA SetDirectKeeps ==
    ASSUME Inv, NEW c \in Channels, SetDirect(c)
    PROVE  Inv'
<1> DEFINE n == [ch[c] EXCEPT !.direct = TRUE]
<1>1. n \in Hosts /\ SameHost(n, ch[c])
  BY ChannelFacts, SetFlags, Zenon
<1>2. ch' = [ch EXCEPT ![c] = n]
  BY Zenon DEF SetDirect
<1> HIDE DEF n
<1>3. Moves(c, n, radio[c], worker[c], callback[c], olock[c])
  BY <1>2, LeftAlone, Zenon DEF SetDirect, Moves, Inv
<1> QED
  BY <1>1, <1>3, ChannelFacts, MayFacts, ThreadStep

\* A call enters with the owner locked.
LEMMA CallKeeps ==
    ASSUME Inv, NEW c \in Channels, Call(c)
    PROVE  Inv'
<1> DEFINE n == [ch[c] EXCEPT !.called = TRUE]
           k == [pc |-> "call", intent |-> NoIntent]
<1>1. n \in Hosts /\ SameHost(n, ch[c])
  BY ChannelFacts, SetFlags, Zenon
<1>2. ch' = [ch EXCEPT ![c] = n]
  BY Zenon DEF Call
<1> HIDE DEF n
<1>3. Moves(c, n, radio[c], worker[c], k, "callback")
  BY <1>2, LeftAlone, Zenon DEF Call, EnterCallback, Moves, Inv
<1>4. k \in Callbacks /\ CallbackMay(k, "callback", ch[c])
  BY ChannelFacts DEF Call, EnterCallback, Callbacks, CallbackMay, SoundOf
<1>5. olock[c] # "hangup"
  BY DEF Call, EnterCallback
<1> QED
  BY <1>1, <1>3, <1>4, <1>5, ChannelFacts, MayFacts, ThreadStep

\* A callback that goes on keeps the owner lock; one that ends releases it.
LEMMA CallbackGoesOn ==
    ASSUME Inv, NEW c \in Channels, callback[c].pc # "idle",
           NEW pc \in {"call", "clear", "start", "spawn"}
    PROVE  /\ [callback[c] EXCEPT !.pc = pc] \in Callbacks
           /\ CallbackMay([callback[c] EXCEPT !.pc = pc], olock[c], ch[c])
           /\ olock[c] = "callback"
<1>1. callback[c] \in Callbacks
  BY ChannelFacts
<1>2. /\ [callback[c] EXCEPT !.pc = pc] \in Callbacks
      /\ [callback[c] EXCEPT !.pc = pc].pc = pc
  BY <1>1 DEF Callbacks
<1> QED
  BY <1>2, ChannelFacts DEF SoundOf, CallbackMay

\* A callback that is over gives back the owner lock it held.
LEMMA CallbackEnds ==
    ASSUME Inv, NEW c \in Channels, callback[c].pc # "idle"
    PROVE  /\ NoCallback \in Callbacks
           /\ CallbackMay(NoCallback, "free", ch[c])
           /\ olock[c] = "callback"
  BY ChannelFacts DEF SoundOf, CallbackMay, NoCallback, Callbacks

\* Steps of a callback that write only the Channel, its media or nothing.
LEMMA ContinueKeeps ==
    ASSUME Inv, NEW c \in Channels, callback[c].pc # "idle",
           NEW pc \in {"call", "clear", "start", "spawn"},
           NEW n \in Hosts, SameHost(n, ch[c]), ch' = [ch EXCEPT ![c] = n],
           NEW r \in Radios, radio' = [radio EXCEPT ![c] = r],
           r.request = radio[c].request,
           r.state = "none" <=> radio[c].state = "none",
           ContinueCallback(c, pc),
           UNCHANGED <<host, members, active, mlock, gate, worker, hang,
                       reloader, generation, latest, overridden, budget>>
    PROVE  Inv'
<1> DEFINE k == [callback[c] EXCEPT !.pc = pc]
<1>1. k \in Callbacks /\ CallbackMay(k, olock[c], ch[c]) /\ olock[c] = "callback"
  BY CallbackGoesOn
<1>2. callback' = [callback EXCEPT ![c] = k] /\ UNCHANGED olock
  BY Zenon DEF ContinueCallback
<1> HIDE DEF k
<1>3. Moves(c, n, r, worker[c], k, olock[c])
  BY <1>2, LeftAlone, Zenon DEF Moves, Inv
<1> QED
  BY <1>1, <1>3, ChannelFacts, MayFacts, ThreadStep

\* A callback that returns keeps the invariant, whatever it wrote.
LEMMA LeaveKeeps ==
    ASSUME Inv, NEW c \in Channels, callback[c].pc # "idle",
           NEW n \in Hosts, SameHost(n, ch[c]), ch' = [ch EXCEPT ![c] = n],
           NEW r \in Radios, radio' = [radio EXCEPT ![c] = r],
           r.request = radio[c].request,
           r.state = "none" <=> radio[c].state = "none",
           NEW w \in Workers, worker' = [worker EXCEPT ![c] = w],
           WorkerMay(w, ch[c], radio[c], overridden[c]),
           LeaveCallback(c),
           UNCHANGED <<host, members, active, mlock, gate, hang,
                       reloader, generation, latest, overridden, budget>>
    PROVE  Inv'
<1>1. NoCallback \in Callbacks /\ CallbackMay(NoCallback, "free", ch[c])
      /\ olock[c] = "callback"
  BY CallbackEnds
<1>2. Moves(c, n, r, w, NoCallback, "free")
  BY Zenon DEF Moves, LeaveCallback
<1> QED
  BY <1>1, <1>2, ThreadStep

\* A call configures a pending jitter change, goes on without one, or fails.
LEMMA CallJitterKeeps ==
    ASSUME Inv, NEW c \in Channels, CallJitter(c)
    PROVE  Inv'
<1>1. /\ callback[c].pc # "idle" /\ ch[c] \in Hosts /\ radio[c] \in Radios
      /\ worker[c] \in Workers /\ generation \in Nat
  BY ChannelFacts DEF CallJitter, Typed
<1>2. /\ ch = [ch EXCEPT ![c] = ch[c]]
      /\ radio' = [radio EXCEPT ![c] = radio[c]]
      /\ worker' = [worker EXCEPT ![c] = worker[c]]
      /\ SameHost(ch[c], ch[c])
      /\ WorkerMay(worker[c], ch[c], radio[c], overridden[c])
  BY LeftAlone, MayFacts, Zenon DEF CallJitter, Inv, SameHost
<1>3. UNCHANGED <<host, members, active, mlock, gate, worker, hang,
                  reloader, generation, latest, overridden, budget>>
  BY DEF CallJitter
<1>4. CASE ContinueCallback(c, "start") /\ UNCHANGED ch
  BY <1>1, <1>2, <1>3, <1>4, ContinueKeeps
<1>5. CASE /\ ch' = [ch EXCEPT ![c].jitterApplied = generation]
           /\ ContinueCallback(c, "clear")
  <2> DEFINE n == [ch[c] EXCEPT !.jitterApplied = generation]
  <2>1. n \in Hosts /\ SameHost(n, ch[c])
    BY <1>1, HostFields, TRUE \in BOOLEAN, Zenon
  <2>2. ch' = [ch EXCEPT ![c] = n]
    BY <1>5, Zenon
  <2> HIDE DEF n
  <2> QED
    BY <1>1, <1>2, <1>3, <1>5, <2>1, <2>2, ContinueKeeps
<1>6. CASE LeaveCallback(c) /\ UNCHANGED ch
  BY <1>1, <1>2, <1>3, <1>6, LeaveKeeps
<1> QED
  BY <1>4, <1>5, <1>6, Zenon DEF CallJitter

\* A call clears the jitter change it has configured.
LEMMA CallJitterClearKeeps ==
    ASSUME Inv, NEW c \in Channels, CallJitterClear(c)
    PROVE  Inv'
<1> DEFINE n == [ch[c] EXCEPT !.jitterPending = FALSE]
<1>1. n \in Hosts /\ SameHost(n, ch[c])
  BY ChannelFacts, ClearFlags, Zenon
<1>2. ch' = [ch EXCEPT ![c] = n]
  BY Zenon DEF CallJitterClear
<1> HIDE DEF n
<1>3. radio' = [radio EXCEPT ![c] = radio[c]] /\ radio[c] \in Radios
  BY LeftAlone, ChannelFacts, Zenon DEF CallJitterClear, Inv
<1>4. callback[c].pc # "idle" /\ ContinueCallback(c, "start")
  BY DEF CallJitterClear
<1>5. UNCHANGED <<host, members, active, mlock, gate, worker, hang,
                  reloader, generation, latest, overridden, budget>>
  BY DEF CallJitterClear
<1> QED
  BY <1>1, <1>2, <1>3, <1>4, <1>5, ContinueKeeps

\* A call starts the media, or ends.
LEMMA CallStartKeeps ==
    ASSUME Inv, NEW c \in Channels, CallStart(c)
    PROVE  Inv'
<1>1. /\ callback[c].pc # "idle" /\ ch[c] \in Hosts /\ radio[c] \in Radios
      /\ worker[c] \in Workers /\ radio[c].state # "none"
  BY ChannelFacts DEF CallStart, SoundOf
<1>2. /\ ch' = [ch EXCEPT ![c] = ch[c]]
      /\ worker' = [worker EXCEPT ![c] = worker[c]]
      /\ radio = [radio EXCEPT ![c] = radio[c]]
      /\ SameHost(ch[c], ch[c])
      /\ WorkerMay(worker[c], ch[c], radio[c], overridden[c])
  BY LeftAlone, MayFacts, Zenon DEF CallStart, Inv, SameHost
<1>3. UNCHANGED <<host, members, active, mlock, gate, worker, hang,
                  reloader, generation, latest, overridden, budget>>
  BY DEF CallStart
<1>4. ASSUME NEW s \in {"reserved", "running", "stopped"},
             radio' = [radio EXCEPT ![c].state = s],
             LeaveCallback(c) \/ ContinueCallback(c, "spawn")
      PROVE  Inv'
  <2> DEFINE r == [radio[c] EXCEPT !.state = s]
  <2>1. r \in Radios /\ r.request = radio[c].request /\ r.state = s
    BY <1>1 DEF Radios
  <2>2. radio' = [radio EXCEPT ![c] = r]
    BY <1>4, Zenon
  <2> HIDE DEF r
  <2>3. r.state = "none" <=> radio[c].state = "none"
    BY <1>1, <2>1
  <2>4. CASE LeaveCallback(c)
    BY <1>1, <1>2, <1>3, <2>1, <2>2, <2>3, <2>4, LeaveKeeps
  <2>5. CASE ContinueCallback(c, "spawn")
    BY <1>1, <1>2, <1>3, <2>1, <2>2, <2>3, <2>5, ContinueKeeps
  <2> QED
    BY <1>4, <2>4, <2>5
<1>5. CASE LeaveCallback(c) /\ UNCHANGED radio
  BY <1>1, <1>2, <1>3, <1>5, LeaveKeeps
<1> QED
  BY <1>4, <1>5, Zenon DEF CallStart

\* A call spawns the delivery thread, or stops the media again.
LEMMA CallSpawnKeeps ==
    ASSUME Inv, NEW c \in Channels, CallSpawn(c)
    PROVE  Inv'
<1>1. /\ callback[c].pc # "idle" /\ ch[c] \in Hosts /\ radio[c] \in Radios
      /\ worker[c] \in Workers /\ radio[c].state # "none"
  BY ChannelFacts DEF CallSpawn, SoundOf
<1> DEFINE m == [ch[c] EXCEPT !.stop = FALSE]
<1>2. m \in Hosts /\ SameHost(m, ch[c])
  BY <1>1, ClearFlags, Zenon
<1> DEFINE n == [m EXCEPT !.failed = FALSE]
<1>3. ch' = [ch EXCEPT ![c] = n]
  BY <1>1 DEF CallSpawn, Inv, Typed
<1> HIDE DEF m
<1>4. n \in Hosts /\ SameHost(n, m)
  BY <1>2, ClearFlags, Zenon
<1> HIDE DEF n
<1>5. SameHost(n, ch[c])
  BY <1>2, <1>4, SameHostTransitive, Zenon
<1> DEFINE w == [NoWorker EXCEPT !.pc = "loop"]
<1>6. w \in Workers /\ WorkerMay(w, ch[c], radio[c], overridden[c])
  BY <1>1, ChannelFacts DEF Workers, NoWorker, WorkerMay, SoundOf
<1>7. UNCHANGED <<host, members, active, mlock, gate, hang, reloader,
                  generation, latest, overridden, budget>>
  BY DEF CallSpawn
<1>8. /\ radio = [radio EXCEPT ![c] = radio[c]]
      /\ worker = [worker EXCEPT ![c] = worker[c]]
      /\ WorkerMay(worker[c], ch[c], radio[c], overridden[c])
  BY LeftAlone, MayFacts, Zenon DEF Inv
<1>9. CASE /\ worker' = [worker EXCEPT ![c] = [NoWorker EXCEPT !.pc = "loop"]]
           /\ UNCHANGED radio
  <2>1. worker' = [worker EXCEPT ![c] = w]
    BY <1>9
  <2> HIDE DEF w
  <2> QED
    BY <1>1, <1>3, <1>4, <1>5, <1>6, <1>7, <1>8, <1>9, <2>1, LeaveKeeps
       DEF CallSpawn
<1>10. CASE /\ radio' = [radio EXCEPT ![c].state = "stopped"]
            /\ UNCHANGED worker
  <2> DEFINE r == [radio[c] EXCEPT !.state = "stopped"]
  <2>1. r \in Radios /\ r.request = radio[c].request /\ r.state = "stopped"
    BY <1>1 DEF Radios
  <2>2. radio' = [radio EXCEPT ![c] = r]
    BY <1>10, Zenon
  <2> HIDE DEF r
  <2> QED
    BY <1>1, <1>3, <1>4, <1>5, <1>7, <1>8, <1>10, <2>1, <2>2, LeaveKeeps
       DEF CallSpawn
<1>11. CASE UNCHANGED <<radio, worker>>
  BY <1>1, <1>3, <1>4, <1>5, <1>7, <1>8, <1>11, LeaveKeeps DEF CallSpawn
<1> QED
  BY <1>9, <1>10, <1>11 DEF CallSpawn

\* An indication enters with the owner locked.
LEMMA IndicateKeeps ==
    ASSUME Inv, NEW c \in Channels, NEW i \in Intents, Indicate(c, i)
    PROVE  Inv'
<1>1. PICK pc \in {"try", "store"} :
        /\ pc = "try" => ch[c].pending = NoIntent
        /\ EnterCallback(c, pc, i)
  BY DEF Indicate
<1> DEFINE k == [pc |-> pc, intent |-> i]
<1>2. Moves(c, ch[c], radio[c], worker[c], k, "callback")
  BY <1>1, LeftAlone, Zenon DEF Indicate, EnterCallback, Moves, Inv
<1>3. k \in Callbacks /\ CallbackMay(k, "callback", ch[c])
  BY <1>1, ChannelFacts DEF EnterCallback, Callbacks, CallbackMay, SoundOf
<1>4. olock[c] # "hangup"
  BY <1>1 DEF EnterCallback
<1>5. SameHost(ch[c], ch[c])
  BY Zenon DEF SameHost
<1> QED
  BY <1>2, <1>3, <1>4, <1>5, ChannelFacts, MayFacts, ThreadStep

\* An indication that fails is not accepted.
LEMMA TransmitFailsKeeps ==
    ASSUME Inv, NEW c \in Channels, TransmitFails(c)
    PROVE  Inv'
<1>1. /\ callback[c].pc # "idle" /\ LeaveCallback(c)
      /\ UNCHANGED <<host, members, active, mlock, gate, worker, hang,
                     reloader, generation, latest, overridden, budget>>
  BY DEF TransmitFails
<1>2. /\ ch' = [ch EXCEPT ![c] = ch[c]]
      /\ worker' = [worker EXCEPT ![c] = worker[c]]
      /\ radio' = [radio EXCEPT ![c] = radio[c]]
      /\ SameHost(ch[c], ch[c])
      /\ WorkerMay(worker[c], ch[c], radio[c], overridden[c])
  BY LeftAlone, MayFacts, Zenon DEF TransmitFails, Inv, SameHost
<1> QED
  BY <1>1, <1>2, ChannelFacts, LeaveKeeps

\* An indication the gate refuses is to be stored for replay.
LEMMA TransmitDeferKeeps ==
    ASSUME Inv, NEW c \in Channels, TransmitDefer(c)
    PROVE  Inv'
<1> DEFINE k == [callback[c] EXCEPT !.pc = "store"]
<1>1. Moves(c, ch[c], radio[c], worker[c], k, olock[c])
  BY LeftAlone, Zenon DEF TransmitDefer, ContinueCallback, Moves, Inv
<1>2. k \in Callbacks /\ k.pc = "store" /\ k.intent = callback[c].intent
  BY ChannelFacts DEF Callbacks
<1> HIDE DEF k
<1>3. CallbackMay(k, olock[c], ch[c])
  BY <1>2, ChannelFacts DEF TransmitDefer, CallbackMay, SoundOf, ReplayedOf
<1>4. SameHost(ch[c], ch[c])
  BY Zenon DEF SameHost
<1> QED
  BY <1>1, <1>2, <1>3, <1>4, ChannelFacts, MayFacts, ThreadStep

-----------------------------------------------------------------------------
(* The worker's steps that replay nothing.                                 *)

\* A step of the worker on its own keeps the invariant if it may be where it goes.
LEMMA WorkerKeeps ==
    ASSUME Inv, NEW c \in Channels,
           NEW n \in Hosts, SameHost(n, ch[c]), ch' = [ch EXCEPT ![c] = n],
           NEW w \in Workers, worker' = [worker EXCEPT ![c] = w],
           WorkerMay(w, ch[c], radio[c], overridden[c]),
           UNCHANGED <<host, members, active, mlock, gate, olock, radio,
                       callback, hang, reloader, generation, latest,
                       overridden, budget>>
    PROVE  Inv'
<1>1. Moves(c, n, radio[c], w, callback[c], olock[c])
  BY LeftAlone, Zenon DEF Moves, Inv
<1> QED
  BY <1>1, ChannelFacts, MayFacts, ThreadStep

\* A worker that goes to another place stays a worker.
LEMMA WorkerGoesOn ==
    ASSUME NEW w \in Workers,
           NEW pc \in {"loop", "jitter", "clear_jitter", "service", "done"}
    PROVE  /\ [w EXCEPT !.pc = pc] \in Workers
           /\ [w EXCEPT !.pc = pc].pc = pc
  BY DEF Workers

\* The worker ends when told to stop, and otherwise looks for an intent to replay.
LEMMA WorkerLoopKeeps ==
    ASSUME Inv, NEW c \in Channels, WorkerLoop(c)
    PROVE  Inv'
<1>1. PICK w \in Workers :
        /\ worker' = [worker EXCEPT ![c] = w]
        /\ WorkerMay(w, ch[c], radio[c], overridden[c])
  <2>1. CASE ch[c].stop
    <3> DEFINE w == [worker[c] EXCEPT !.pc = "done"]
    <3>1. w \in Workers /\ w.pc = "done"
      BY ChannelFacts, WorkerGoesOn
    <3>2. worker' = [worker EXCEPT ![c] = w]
      BY <2>1, Zenon DEF WorkerLoop
    <3> HIDE DEF w
    <3> QED
      BY <3>1, <3>2 DEF WorkerMay
  <2>2. CASE ~ch[c].stop
    <3> DEFINE w == [pc |-> IF ch[c].pending = NoIntent THEN "jitter" ELSE "replay",
                     raw |-> ch[c].pending]
    <3>1. ch[c].pending \in Intents \cup {NoIntent} /\ ch[c].box = "live"
      BY ChannelFacts DEF Hosts, WorkerLoop, SoundOf
    <3>2. w \in Workers
      BY <3>1 DEF Workers
    <3>3. WorkerMay(w, ch[c], radio[c], overridden[c])
      BY <3>1 DEF WorkerMay
    <3>4. worker' = [worker EXCEPT ![c] = w]
      BY <2>2, Zenon DEF WorkerLoop
    <3> QED
      BY <3>2, <3>3, <3>4
  <2> QED
    BY <2>1, <2>2
<1>2. SameHost(ch[c], ch[c]) /\ ch' = [ch EXCEPT ![c] = ch[c]]
  BY LeftAlone, Zenon DEF SameHost, WorkerLoop, Inv
<1> QED
  BY <1>1, <1>2, ChannelFacts, WorkerKeeps DEF WorkerLoop

\* A worker that goes on with what needs no pending intent.
LEMMA WorkerMovesOn ==
    ASSUME Inv, NEW c \in Channels, worker[c].pc \notin {"none", "done"},
           NEW pc \in {"loop", "jitter", "clear_jitter", "service", "done"},
           NEW n \in Hosts, SameHost(n, ch[c]), ch' = [ch EXCEPT ![c] = n],
           worker' = [worker EXCEPT ![c].pc = pc],
           UNCHANGED <<host, members, active, mlock, gate, olock, radio,
                       callback, hang, reloader, generation, latest,
                       overridden, budget>>
    PROVE  Inv'
<1> DEFINE w == [worker[c] EXCEPT !.pc = pc]
<1>1. w \in Workers /\ w.pc = pc
  BY ChannelFacts, WorkerGoesOn
<1>2. worker' = [worker EXCEPT ![c] = w]
  BY Zenon
<1> HIDE DEF w
<1>3. WorkerMay(w, ch[c], radio[c], overridden[c])
  BY <1>1, ChannelFacts DEF WorkerMay, SoundOf
<1> QED
  BY <1>1, <1>2, <1>3, WorkerKeeps

\* The worker configures a pending jitter change if it can lock the owner.
LEMMA WorkerJitterKeeps ==
    ASSUME Inv, NEW c \in Channels, WorkerJitter(c)
    PROVE  Inv'
<1>1. /\ worker[c].pc \notin {"none", "done"}
      /\ UNCHANGED <<host, members, active, mlock, gate, olock, radio,
                     callback, hang, reloader, generation, latest,
                     overridden, budget>>
  BY DEF WorkerJitter
<1>2. CASE /\ ch' = [ch EXCEPT ![c].jitterApplied = generation]
           /\ worker' = [worker EXCEPT ![c].pc = "clear_jitter"]
  <2> DEFINE n == [ch[c] EXCEPT !.jitterApplied = generation]
  <2>1. ch[c] \in Hosts /\ generation \in Nat
    BY ChannelFacts DEF Typed
  <2>2. n \in Hosts /\ SameHost(n, ch[c])
    BY <2>1, HostFields, TRUE \in BOOLEAN, Zenon
  <2>3. ch' = [ch EXCEPT ![c] = n]
    BY <1>2, Zenon
  <2> HIDE DEF n
  <2> QED
    BY <1>1, <1>2, <2>2, <2>3, WorkerMovesOn
<1>3. CASE worker' = [worker EXCEPT ![c].pc = "service"] /\ UNCHANGED ch
  <2>1. SameHost(ch[c], ch[c]) /\ ch' = [ch EXCEPT ![c] = ch[c]]
    BY <1>3, LeftAlone, Zenon DEF SameHost, Inv
  <2> QED
    BY <1>1, <1>3, <2>1, ChannelFacts, WorkerMovesOn
<1> QED
  BY <1>2, <1>3, Zenon DEF WorkerJitter

\* The worker clears the jitter change it has configured.
LEMMA WorkerClearJitterKeeps ==
    ASSUME Inv, NEW c \in Channels, WorkerClearJitter(c)
    PROVE  Inv'
<1> DEFINE n == [ch[c] EXCEPT !.jitterPending = FALSE]
<1>1. n \in Hosts /\ SameHost(n, ch[c])
  BY ChannelFacts, ClearFlags, Zenon
<1>2. ch' = [ch EXCEPT ![c] = n]
  BY Zenon DEF WorkerClearJitter
<1> HIDE DEF n
<1> QED
  BY <1>1, <1>2, WorkerMovesOn DEF WorkerClearJitter

\* The worker delivers and loops.
LEMMA WorkerServiceKeeps ==
    ASSUME Inv, NEW c \in Channels, WorkerService(c)
    PROVE  Inv'
<1>1. SameHost(ch[c], ch[c]) /\ ch' = [ch EXCEPT ![c] = ch[c]]
  BY LeftAlone, Zenon DEF SameHost, Inv, WorkerService
<1> QED
  BY <1>1, ChannelFacts, WorkerMovesOn DEF WorkerService

\* A worker that fails marks its channel and ends.
LEMMA WorkerFailsKeeps ==
    ASSUME Inv, NEW c \in Channels, WorkerFails(c)
    PROVE  Inv'
<1> DEFINE n == [ch[c] EXCEPT !.failed = TRUE]
           w == [NoWorker EXCEPT !.pc = "done"]
<1>1. n \in Hosts /\ SameHost(n, ch[c])
  BY ChannelFacts, SetFlags, Zenon
<1>2. ch' = [ch EXCEPT ![c] = n]
  BY Zenon DEF WorkerFails
<1> HIDE DEF n
<1>3. w \in Workers /\ WorkerMay(w, ch[c], radio[c], overridden[c])
  BY DEF Workers, NoWorker, WorkerMay
<1>4. worker' = [worker EXCEPT ![c] = w]
  BY DEF WorkerFails
<1> HIDE DEF w
<1> QED
  BY <1>1, <1>2, <1>3, <1>4, WorkerKeeps DEF WorkerFails

-----------------------------------------------------------------------------
(* The steps that decide what the radio is asked to transmit.              *)

\* ApplyTransmit clears `overridden'.
LEMMA Applied ==
    ASSUME Inv, NEW c \in Channels, NEW r \in Radios, NEW w \in Workers,
           NEW k \in Callbacks, NEW o \in {"free", "callback", "hangup"},
           NEW l \in Intents \cup {NoIntent}, NEW no \in BOOLEAN, ~no,
           Slots(c, ch[c], r, w, k, hang[c], o, l, no),
           UNCHANGED <<host, active, members, mlock, gate, reloader, generation>>,
           SoundOf(c, ch[c], r, w, k, hang[c], o, members, mlock),
           ReplayedOf(ch[c], r, w, k, l, FALSE)
    PROVE  Inv'
<1>1. ReplayedOf(ch[c], r, w, k, l, no)
  BY DEF ReplayedOf
<1>2. /\ ch[c] \in Hosts /\ hang[c] \in Hangups
      /\ reloader'.phase = reloader.phase /\ reloader' \in Reloads
  BY ChannelFacts
<1> QED
  BY <1>1, <1>2, QuietStep

\* A step that brings the radio to an indication keeps the invariant: nothing overrides it
\* any more.
LEMMA AppliedStep ==
    ASSUME Inv, NEW c \in Channels, NEW r \in Radios, NEW w \in Workers,
           NEW k \in Callbacks, NEW o \in {"free", "callback", "hangup"},
           NEW l \in Intents \cup {NoIntent},
           Slots(c, ch[c], r, w, k, hang[c], o, l, FALSE),
           UNCHANGED <<host, active, members, mlock, gate, reloader, generation>>,
           SoundOf(c, ch[c], r, w, k, hang[c], o, members, mlock),
           ReplayedOf(ch[c], r, w, k, l, FALSE)
    PROVE  Inv'
  BY Applied, FALSE \in BOOLEAN, Zenon

\* An indication the radio took is the latest, and the radio holds it.
LEMMA TransmitApplyKeeps ==
    ASSUME Inv, NEW c \in Channels, TransmitApply(c)
    PROVE  Inv'
<1> DEFINE i == callback[c].intent
           r == [radio[c] EXCEPT !.request = i]
<1>1. i \in Intents /\ olock[c] = "callback" /\ ch[c].pending = NoIntent
  BY ChannelFacts DEF TransmitApply, ReplayedOf, SoundOf
<1>2. r \in Radios /\ r.request = i /\ r.state = radio[c].state
  BY <1>1, ChannelFacts DEF Radios
<1>3. /\ radio' = [radio EXCEPT ![c] = r]
      /\ latest' = [latest EXCEPT ![c] = i]
  BY Zenon DEF TransmitApply, ApplyTransmit
<1> HIDE DEF i, r
<1>4. Slots(c, ch[c], r, worker[c], NoCallback, hang[c], "free", i, FALSE)
  BY <1>3, LeftAlone, Zenon DEF TransmitApply, ApplyTransmit, LeaveCallback, Slots, Inv
<1>5. SoundOf(c, ch[c], r, worker[c], NoCallback, hang[c], "free", members, mlock)
  BY <1>1, <1>2, ChannelFacts DEF SoundOf, NoCallback
<1>6. ReplayedOf(ch[c], r, worker[c], NoCallback, i, FALSE)
  BY <1>1, <1>2, ChannelFacts DEF ReplayedOf, NoCallback
<1>7. NoCallback \in Callbacks
  BY DEF NoCallback, Callbacks
<1>8. UNCHANGED <<host, active, members, mlock, gate, reloader, generation>>
  BY DEF TransmitApply
<1> QED
  BY <1>1, <1>2, <1>4, <1>5, <1>6, <1>7, <1>8, ChannelFacts, AppliedStep

\* A pending intent reaches the radio before it is cleared.
LEMMA WorkerReplayKeeps ==
    ASSUME Inv, NEW c \in Channels, WorkerReplay(c)
    PROVE  Inv'
<1> DEFINE i == worker[c].raw
           r == [radio[c] EXCEPT !.request = i]
           w == [worker[c] EXCEPT !.pc = "clear_pending"]
<1>1. i \in Intents /\ ch[c].pending # NoIntent
  BY ChannelFacts DEF WorkerReplay, ReplayedOf
<1>2. r \in Radios /\ r.request = i /\ r.state = radio[c].state
  BY <1>1, ChannelFacts DEF Radios
<1>3. w \in Workers /\ w.pc = "clear_pending" /\ w.raw = i
  BY ChannelFacts DEF Workers
<1>4. /\ radio' = [radio EXCEPT ![c] = r]
      /\ worker' = [worker EXCEPT ![c] = w]
  BY Zenon DEF WorkerReplay, ApplyTransmit
<1> HIDE DEF i, r, w
<1>5. Slots(c, ch[c], r, w, callback[c], hang[c], olock[c], latest[c], FALSE)
  BY <1>4, LeftAlone, Zenon DEF WorkerReplay, ApplyTransmit, Slots, Inv
<1>6. SoundOf(c, ch[c], r, w, callback[c], hang[c], olock[c], members, mlock)
  BY <1>1, <1>2, <1>3, ChannelFacts DEF SoundOf, WorkerReplay
<1>7. ReplayedOf(ch[c], r, w, callback[c], latest[c], FALSE)
  BY <1>1, <1>2, <1>3, ChannelFacts DEF ReplayedOf
<1>8. UNCHANGED <<host, active, members, mlock, gate, reloader, generation>>
  BY DEF WorkerReplay
<1> QED
  BY <1>2, <1>3, <1>5, <1>6, <1>7, <1>8, ChannelFacts, AppliedStep

\* Storing a pending indication writes nothing else of the box.
LEMMA PendingField ==
    ASSUME NEW h \in Hosts, NEW i \in Intents \cup {NoIntent}
    PROVE  /\ [h EXCEPT !.pending = i] \in Hosts
           /\ [h EXCEPT !.pending = i].pending = i
           /\ [h EXCEPT !.pending = i].box = h.box
           /\ [h EXCEPT !.pending = i].pvt <=> h.pvt
  BY DEF Hosts

\* A deferred indication is stored for the worker to replay.
LEMMA TransmitStoreKeeps ==
    ASSUME Inv, NEW c \in Channels, TransmitStore(c)
    PROVE  Inv'
<1> DEFINE i == callback[c].intent
           n == [ch[c] EXCEPT !.pending = i]
<1>1. i \in Intents /\ olock[c] = "callback" /\ i # NoIntent
  BY ChannelFacts, NoIntentApart DEF TransmitStore, ReplayedOf, SoundOf
<1>2. n \in Hosts /\ n.pending = i /\ n.box = ch[c].box /\ (n.pvt <=> ch[c].pvt)
  BY <1>1, ChannelFacts, PendingField
<1>3. /\ ch' = [ch EXCEPT ![c] = n]
      /\ latest' = [latest EXCEPT ![c] = i]
  BY Zenon DEF TransmitStore
<1> HIDE DEF i, n
<1>4. Slots(c, n, radio[c], worker[c], NoCallback, hang[c], "free", i, overridden[c])
  BY <1>3, LeftAlone, Zenon DEF TransmitStore, LeaveCallback, Slots, Inv
<1>5. SoundOf(c, n, radio[c], worker[c], NoCallback, hang[c], "free", members, mlock)
  BY <1>1, <1>2, ChannelFacts DEF SoundOf, NoCallback
<1>6. ReplayedOf(n, radio[c], worker[c], NoCallback, i, overridden[c])
  BY <1>1, <1>2, ChannelFacts DEF ReplayedOf, NoCallback
<1>7. NoCallback \in Callbacks
  BY DEF NoCallback, Callbacks
<1>8. /\ UNCHANGED <<host, active, members, mlock, gate, generation>>
      /\ reloader'.phase = reloader.phase /\ reloader' \in Reloads
  BY ChannelFacts DEF TransmitStore
<1> QED
  BY <1>1, <1>2, <1>4, <1>5, <1>6, <1>7, <1>8, ChannelFacts, QuietStep

\* Only the intent that was replayed is cleared: one stored since stays.
LEMMA WorkerClearPendingKeeps ==
    ASSUME Inv, NEW c \in Channels, WorkerClearPending(c)
    PROVE  Inv'
<1> DEFINE i == IF ch[c].pending = worker[c].raw THEN NoIntent ELSE ch[c].pending
           n == [ch[c] EXCEPT !.pending = i]
           w == [pc |-> "jitter", raw |-> NoIntent]
<1>1. i \in Intents \cup {NoIntent}
  BY ChannelFacts DEF Hosts
<1>2. n \in Hosts /\ n.pending = i /\ n.box = ch[c].box /\ (n.pvt <=> ch[c].pvt)
  BY <1>1, ChannelFacts, PendingField
<1>3. w \in Workers
  BY DEF Workers
<1>4. /\ ch' = [ch EXCEPT ![c] = n]
      /\ worker' = [worker EXCEPT ![c] = w]
  BY Zenon DEF WorkerClearPending
<1>5. ReplayedOf(n, radio[c], w, callback[c], latest[c], overridden[c])
  BY <1>2, ChannelFacts, NoIntentApart DEF ReplayedOf, WorkerClearPending
<1>6. SoundOf(c, n, radio[c], w, callback[c], hang[c], olock[c], members, mlock)
  BY <1>2, ChannelFacts DEF SoundOf, WorkerClearPending
<1> HIDE DEF i, n, w
<1>7. Slots(c, n, radio[c], w, callback[c], hang[c], olock[c], latest[c], overridden[c])
  BY <1>4, LeftAlone, Zenon DEF WorkerClearPending, Slots, Inv
<1>8. /\ UNCHANGED <<host, active, members, mlock, gate, generation>>
      /\ reloader'.phase = reloader.phase /\ reloader' \in Reloads
  BY ChannelFacts DEF WorkerClearPending
<1>9. /\ radio[c] \in Radios /\ callback[c] \in Callbacks /\ hang[c] \in Hangups
      /\ olock[c] \in {"free", "callback", "hangup"}
      /\ latest[c] \in Intents \cup {NoIntent} /\ overridden[c] \in BOOLEAN
  BY ChannelFacts
<1>10. Fits(c, n, radio[c], w, callback[c], hang[c], olock[c], latest[c], overridden[c])
  BY <1>2, <1>3, <1>5, <1>6, <1>7, <1>9, Zenon DEF Fits
<1> QED
  BY <1>8, <1>10, FittingStep

\* Whatever sets the request without an indication says so.
LEMMA OverriddenStep ==
    ASSUME Inv, NEW c \in Channels, NEW r \in Radios,
           r.state = "none" <=> radio[c].state = "none",
           radio' = [radio EXCEPT ![c] = r],
           overridden' = [overridden EXCEPT ![c] = TRUE],
           UNCHANGED <<host, active, members, mlock, gate, generation, ch, worker,
                       callback, hang, olock, latest>>,
           reloader'.phase = reloader.phase, reloader' \in Reloads
    PROVE  Inv'
<1>1. ASSUME NEW yes \in BOOLEAN, yes,
             overridden' = [overridden EXCEPT ![c] = yes]
      PROVE  Inv'
  <2>1. Slots(c, ch[c], r, worker[c], callback[c], hang[c], olock[c], latest[c], yes)
    BY <1>1, LeftAlone, Zenon DEF Slots, Inv
  <2>2. SoundOf(c, ch[c], r, worker[c], callback[c], hang[c], olock[c], members, mlock)
    BY ChannelFacts DEF SoundOf
  <2>3. ReplayedOf(ch[c], r, worker[c], callback[c], latest[c], yes)
    BY <1>1, ChannelFacts DEF ReplayedOf
  <2>4. UNCHANGED <<host, active, members, mlock, gate, generation>>
    OBVIOUS
  <2>5. /\ ch[c] \in Hosts /\ worker[c] \in Workers /\ callback[c] \in Callbacks
        /\ hang[c] \in Hangups /\ olock[c] \in {"free", "callback", "hangup"}
        /\ latest[c] \in Intents \cup {NoIntent}
    BY ChannelFacts
  <2> QED
    <3>1. Fits(c, ch[c], r, worker[c], callback[c], hang[c], olock[c], latest[c], yes)
      BY <2>1, <2>2, <2>3, <2>5, Zenon DEF Fits
    <3> QED
      BY <2>4, <3>1, FittingStep
<1> QED
  BY <1>1, TRUE \in BOOLEAN, Zenon

\* A transmit command of the CLI overrides the radio until the next indication.
LEMMA CliTransmitKeeps ==
    ASSUME Inv, NEW c \in Channels, NEW i \in Intents, CliTransmit(c, i)
    PROVE  Inv'
<1> DEFINE r == [radio[c] EXCEPT !.request = i]
<1>1. r \in Radios /\ r.state = radio[c].state
  BY ChannelFacts DEF Radios
<1>2. radio' = [radio EXCEPT ![c] = r]
  BY Zenon DEF CliTransmit
<1> HIDE DEF r
<1>3. /\ overridden' = [overridden EXCEPT ![c] = TRUE]
      /\ UNCHANGED <<host, active, members, mlock, gate, generation, ch, worker,
                     callback, hang, olock, latest>>
      /\ reloader'.phase = reloader.phase /\ reloader' \in Reloads
  BY ChannelFacts DEF CliTransmit
<1> QED
  BY <1>1, <1>2, <1>3, OverriddenStep

-----------------------------------------------------------------------------
(* Hosting and hangup.                                                     *)

\* The premises of a step that may host or free its channel, together.
FitsNext(c, h, r, w, k, g, o, l, v) ==
    /\ h \in Hosts /\ r \in Radios /\ w \in Workers /\ k \in Callbacks
    /\ g \in Hangups /\ o \in {"free", "callback", "hangup"}
    /\ l \in Intents \cup {NoIntent} /\ v \in BOOLEAN
    /\ Slots(c, h, r, w, k, g, o, l, v)
    /\ SoundOf(c, h, r, w, k, g, o, members', mlock')
    /\ ReplayedOf(h, r, w, k, l, v)

\* A step of one channel that also changes its membership or the mutex keeps the invariant
\* if the shared parts hold after it.
LEMMA HostingStep ==
    ASSUME Inv, NEW c \in Channels, NEW h, NEW r, NEW w, NEW k, NEW g, NEW o,
           NEW l, NEW v, FitsNext(c, h, r, w, k, g, o, l, v),
           members' \subseteq Channels, UNCHANGED generation,
           \A d \in Channels : d # c => /\ d \in members' <=> d \in members
                                        /\ mlock' = d <=> mlock = d,
           Gated', Counted'
    PROVE  Inv'
<1>1. generation' \in Nat
  BY DEF Inv, Typed
<1> QED
  BY <1>1, SlotStep DEF FitsNext

\* How the number of boxes follows the change of one.
LEMMA HostedFacts ==
    ASSUME Typed, NEW c \in Channels, NEW n \in Hosts,
           ch' = [ch EXCEPT ![c] = n]
    PROVE  /\ IsFiniteSet(Hosted) /\ Cardinality(Hosted) \in Nat
           /\ n.box = ch[c].box => Hosted' = Hosted
           /\ n.box = "live" => Hosted' = Hosted \cup {c}
           /\ n.box # "live" => Hosted' = Hosted \ {c}
<1>1. IsFiniteSet(Hosted) /\ Cardinality(Hosted) \in Nat
  BY ConstantsOK, FS_Subset, FS_CardinalityType DEF Hosted
<1>2. /\ ch'[c] = n
      /\ \A d \in Channels : d # c => ch'[d] = ch[d]
  BY DEF Typed
<1> QED
  BY <1>1, <1>2 DEF Hosted

\* A hangup unpublishes the owner before it waits for membership.
LEMMA HangupBeginKeeps ==
    ASSUME Inv, NEW c \in Channels, HangupBegin(c)
    PROVE  Inv'
<1> DEFINE n == [ch[c] EXCEPT !.owner = FALSE]
<1>1. n \in Hosts /\ SameHost(n, ch[c])
  BY ChannelFacts, SetOwner, Zenon
<1>2. ch' = [ch EXCEPT ![c] = n]
  BY Zenon DEF HangupBegin
<1> HIDE DEF n
<1>3. Slots(c, n, radio[c], worker[c], callback[c], "membership", olock[c],
            latest[c], overridden[c])
  BY <1>2, LeftAlone, Zenon DEF HangupBegin, Slots, Inv
<1>4. SoundOf(c, n, radio[c], worker[c], callback[c], "membership", olock[c],
              members, mlock)
  BY <1>1, ChannelFacts DEF SoundOf, SameHost, HangupBegin
<1>5. ReplayedOf(n, radio[c], worker[c], callback[c], latest[c], overridden[c])
  BY <1>1, ChannelFacts DEF ReplayedOf, SameHost
<1>6. Fits(c, n, radio[c], worker[c], callback[c], "membership", olock[c],
           latest[c], overridden[c])
  <2>1. "membership" \in Hangups /\ n.box = ch[c].box
    BY <1>1 DEF Hangups, SameHost
  <2> QED
    BY <1>1, <1>3, <1>4, <1>5, <2>1, ChannelFacts, Zenon DEF Fits
<1>7. /\ UNCHANGED <<host, active, members, mlock, gate, generation>>
      /\ reloader'.phase = reloader.phase /\ reloader' \in Reloads
  BY ChannelFacts DEF HangupBegin
<1> QED
  BY <1>6, <1>7, FittingStep

\* A hangup takes the membership mutex, which a reload holds to its end.
LEMMA HangupLockMembershipKeeps ==
    ASSUME Inv, NEW c \in Channels, HangupLockMembership(c)
    PROVE  Inv'
<1>1. Slots(c, ch[c], radio[c], worker[c], callback[c], "owner", olock[c],
            latest[c], overridden[c])
  BY LeftAlone, Zenon DEF HangupLockMembership, Slots, Inv
<1>2. SoundOf(c, ch[c], radio[c], worker[c], callback[c], "owner", olock[c],
              members', mlock')
  BY ChannelFacts DEF SoundOf, HangupLockMembership
<1>3. FitsNext(c, ch[c], radio[c], worker[c], callback[c], "owner", olock[c],
               latest[c], overridden[c])
  <2>1. "owner" \in Hangups
    BY DEF Hangups
  <2> QED
    BY <1>1, <1>2, <2>1, ChannelFacts, Zenon DEF FitsNext
<1>4. /\ members' \subseteq Channels /\ UNCHANGED <<generation, members>>
      /\ Counted'
  BY ChannelFacts DEF HangupLockMembership, Typed, Counted, Hosted
<1>5. Gated' /\ \A d \in Channels : d # c => (mlock' = d <=> mlock = d)
  BY ChannelFacts, LockNames DEF HangupLockMembership, Gated
<1> QED
  BY <1>3, <1>4, <1>5, HostingStep

\* A hangup takes the owner lock again under the mutex.
LEMMA HangupRelockOwnerKeeps ==
    ASSUME Inv, NEW c \in Channels, HangupRelockOwner(c)
    PROVE  Inv'
<1>1. Slots(c, ch[c], radio[c], worker[c], callback[c], "remove", "hangup",
            latest[c], overridden[c])
  BY LeftAlone, Zenon DEF HangupRelockOwner, Slots, Inv
<1>2. SoundOf(c, ch[c], radio[c], worker[c], callback[c], "remove", "hangup",
              members, mlock)
  BY ChannelFacts DEF SoundOf, HangupRelockOwner
<1>3. Fits(c, ch[c], radio[c], worker[c], callback[c], "remove", "hangup",
           latest[c], overridden[c])
  <2>1. "remove" \in Hangups /\ "hangup" \in {"free", "callback", "hangup"}
    BY DEF Hangups
  <2> QED
    BY <1>1, <1>2, <2>1, ChannelFacts, Zenon DEF Fits
<1>4. /\ UNCHANGED <<host, active, members, mlock, gate, generation>>
      /\ reloader'.phase = reloader.phase /\ reloader' \in Reloads
  BY ChannelFacts DEF HangupRelockOwner
<1> QED
  BY <1>3, <1>4, FittingStep

\* A hangup takes the channel out of the membership and tells the worker to stop.
LEMMA HangupStopWorkerKeeps ==
    ASSUME Inv, NEW c \in Channels, HangupStopWorker(c)
    PROVE  Inv'
<1> DEFINE n == [ch[c] EXCEPT !.stop = TRUE]
<1>1. n \in Hosts /\ SameHost(n, ch[c])
  BY ChannelFacts, SetFlags, Zenon
<1>2. ch' = [ch EXCEPT ![c] = n]
  BY Zenon DEF HangupStopWorker
<1> HIDE DEF n
<1>3. Slots(c, n, radio[c], worker[c], callback[c], "join", olock[c],
            latest[c], overridden[c])
  BY <1>2, LeftAlone, Zenon DEF HangupStopWorker, Slots, Inv
<1>4. SoundOf(c, n, radio[c], worker[c], callback[c], "join", olock[c],
              members', mlock')
  BY <1>1, ChannelFacts DEF SoundOf, SameHost, HangupStopWorker
<1>5. ReplayedOf(n, radio[c], worker[c], callback[c], latest[c], overridden[c])
  BY <1>1, ChannelFacts DEF ReplayedOf, SameHost
<1>6. FitsNext(c, n, radio[c], worker[c], callback[c], "join", olock[c],
               latest[c], overridden[c])
  <2>1. "join" \in Hangups
    BY DEF Hangups
  <2> QED
    BY <1>1, <1>3, <1>4, <1>5, <2>1, ChannelFacts, Zenon DEF FitsNext
<1>7. /\ members' \subseteq Channels /\ UNCHANGED <<generation, mlock>>
      /\ \A d \in Channels : d # c => (d \in members' <=> d \in members)
  BY ChannelFacts DEF HangupStopWorker, Typed
<1>8. Hosted' = Hosted
  BY <1>1, <1>2, ChannelFacts, HostedFacts DEF SameHost
<1>9. Gated' /\ Counted'
  BY <1>8, ChannelFacts DEF HangupStopWorker, Gated, Counted
<1> QED
  BY <1>6, <1>7, <1>9, HostingStep

\* No private pointer leads to a freed Channel.
LEMMA FreedChannel ==
    ASSUME NEW h \in Hosts, NEW b \in BOOLEAN, ~b
    PROVE  /\ [h EXCEPT !.box = "freed", !.pvt = b] \in Hosts
           /\ [h EXCEPT !.box = "freed", !.pvt = b].box = "freed"
           /\ ~[h EXCEPT !.box = "freed", !.pvt = b].pvt
           /\ [h EXCEPT !.box = "freed", !.pvt = b].pending = h.pending
  BY DEF Hosts

\* The Channel is freed with its worker ended, no callback inside and no membership.
LEMMA HangupFreeKeeps ==
    ASSUME Inv, NEW c \in Channels, HangupFree(c)
    PROVE  Inv'
<1> DEFINE n == [ch[c] EXCEPT !.box = "freed", !.pvt = FALSE]
<1>1. n \in Hosts /\ n.box = "freed" /\ ~n.pvt /\ n.pending = ch[c].pending
  BY ChannelFacts, FreedChannel, FALSE \in BOOLEAN, Zenon
<1>2. ch' = [ch EXCEPT ![c] = n]
  BY ChannelFacts DEF HangupFree, Typed
<1> HIDE DEF n
\* The reload does not hold membership, so it has not closed the gate.
<1>3. /\ mlock = c /\ gate = "open" /\ reloader.phase = "idle" /\ c \notin members
      /\ callback[c].pc = "idle" /\ ch[c].box = "live"
  BY ChannelFacts, LockNames DEF HangupFree, SoundOf, Gated
<1>4. Slots(c, n, Unreserved, NoWorker, callback[c], "idle", "free",
            latest[c], overridden[c])
  BY <1>2, <1>3, LeftAlone, Zenon DEF HangupFree, Slots, Inv
<1>5. /\ Unreserved \in Radios /\ NoWorker \in Workers
      /\ Unreserved.state = "none" /\ NoWorker.pc = "none"
      /\ "idle" \in Hangups
  BY DEF Unreserved, NoWorker, Radios, Workers, Intents, Hangups
<1>6. SoundOf(c, n, Unreserved, NoWorker, callback[c], "idle", "free",
              members', mlock')
  BY <1>1, <1>3, <1>5, LockNames DEF SoundOf, HangupFree
<1>7. ReplayedOf(n, Unreserved, NoWorker, callback[c], latest[c], overridden[c])
  BY <1>1, <1>3, <1>5, ChannelFacts DEF ReplayedOf
<1>8. FitsNext(c, n, Unreserved, NoWorker, callback[c], "idle", "free",
               latest[c], overridden[c])
  <2>1. "free" \in {"free", "callback", "hangup"}
    OBVIOUS
  <2> QED
    BY <1>1, <1>4, <1>5, <1>6, <1>7, <2>1, ChannelFacts, Zenon DEF FitsNext
<1>9. /\ members' \subseteq Channels /\ UNCHANGED <<generation, members>>
      /\ \A d \in Channels : d # c => (mlock' = d <=> mlock = d)
  BY <1>3, ChannelFacts, LockNames DEF HangupFree, Typed
<1>10. Counted'
  <2>1. Hosted' = Hosted \ {c} /\ c \in Hosted /\ IsFiniteSet(Hosted)
        /\ Cardinality(Hosted) \in Nat
    BY <1>1, <1>2, <1>3, ChannelFacts, HostedFacts DEF Hosted
  <2>2. Cardinality(Hosted \ {c}) = Cardinality(Hosted) - 1
    BY <2>1, FS_RemoveElement
  <2> QED
    BY <2>1, <2>2, ChannelFacts DEF HangupFree, Counted
<1>11. Gated'
  BY <1>3, ChannelFacts DEF HangupFree, Gated
<1> QED
  BY <1>8, <1>9, <1>10, <1>11, HostingStep

\* The Channel a request leaves: live, owned, with its jitter buffer set up
\* under generation j.
LEMMA NewChannel ==
    ASSUME NEW no \in BOOLEAN, ~no, NEW yes \in BOOLEAN, yes, NEW j \in Nat,
           NEW b, b = [box |-> "none", pvt |-> no, owner |-> no, direct |-> no,
                       called |-> no, stop |-> no, failed |-> no,
                       pending |-> NoIntent, jitterPending |-> no,
                       jitterApplied |-> 0],
           NEW n, n = [b EXCEPT !.box = "live", !.pvt = yes, !.owner = yes,
                                !.jitterApplied = j]
    PROVE  n \in Hosts /\ n.box = "live" /\ n.pvt /\ n.pending = NoIntent
<1>1. n = [box |-> "live", pvt |-> yes, owner |-> yes, direct |-> no,
           called |-> no, stop |-> no, failed |-> no, pending |-> NoIntent,
           jitterPending |-> no, jitterApplied |-> j]
  OBVIOUS
<1> QED
  BY <1>1 DEF Hosts

\* A requested channel has a live Channel and nothing to replay.
LEMMA RequestedChannel ==
    ASSUME NEW j \in Nat,
           NEW n, n = [Unhosted EXCEPT !.box = "live", !.pvt = TRUE,
                                       !.owner = TRUE, !.jitterApplied = j]
    PROVE  n \in Hosts /\ n.box = "live" /\ n.pvt /\ n.pending = NoIntent
  BY NewChannel, TRUE \in BOOLEAN, FALSE \in BOOLEAN, Zenon DEF Unhosted

\* A request creates a Channel, counts it and makes it a member with the mutex free.
LEMMA RequestKeeps ==
    ASSUME Inv, NEW c \in Channels, Request(c)
    PROVE  Inv'
<1>1. PICK configured \in BOOLEAN :
        /\ ch' = [ch EXCEPT ![c] = [Unhosted EXCEPT
                     !.box = "live", !.pvt = TRUE, !.owner = TRUE,
                     !.jitterApplied = IF configured THEN generation ELSE 0]]
        /\ hang' = [hang EXCEPT ![c] = IF configured THEN "idle" ELSE "failed"]
  BY Zenon DEF Request
<1> DEFINE j == IF configured THEN generation ELSE 0
           n == [Unhosted EXCEPT !.box = "live", !.pvt = TRUE, !.owner = TRUE,
                                 !.jitterApplied = j]
           g == IF configured THEN "idle" ELSE "failed"
           r == [Unreserved EXCEPT !.state = "reserved"]
<1>2. j \in Nat
  BY ChannelFacts DEF Typed
<1>3. ch' = [ch EXCEPT ![c] = n] /\ hang' = [hang EXCEPT ![c] = g]
  BY <1>1, Zenon
<1>4. g \in {"idle", "failed"}
  OBVIOUS
<1> HIDE DEF j, g
<1>5. n \in Hosts /\ n.box = "live" /\ n.pvt /\ n.pending = NoIntent
  BY <1>2, RequestedChannel
<1> HIDE DEF n
<1>6. r \in Radios /\ r.state = "reserved"
  BY DEF Unreserved, Radios, Intents
<1>7. radio' = [radio EXCEPT ![c] = r]
  BY Zenon DEF Request
<1> HIDE DEF r
\* Nothing of an earlier life of the channel is left.
<1>8. /\ mlock = "free" /\ ch[c].box # "live" /\ worker[c].pc \in {"none", "done"}
      /\ callback[c].pc = "idle" /\ olock[c] \notin {"callback", "hangup"}
  BY ChannelFacts DEF Request, SoundOf
<1>9. ASSUME NEW no \in BOOLEAN, ~no, overridden' = [overridden EXCEPT ![c] = no]
      PROVE  FitsNext(c, n, r, worker[c], callback[c], g, olock[c], NoIntent, no)
  <2>1. Slots(c, n, r, worker[c], callback[c], g, olock[c], NoIntent, no)
    BY <1>3, <1>7, <1>9, LeftAlone, Zenon DEF Request, Slots, Inv
  <2>2. SoundOf(c, n, r, worker[c], callback[c], g, olock[c], members', mlock')
    BY <1>4, <1>5, <1>6, <1>8, LockNames DEF SoundOf, Request
  <2>3. ReplayedOf(n, r, worker[c], callback[c], NoIntent, no)
    BY <1>5, <1>8 DEF ReplayedOf
  <2>4. g \in Hangups /\ NoIntent \in Intents \cup {NoIntent}
    BY <1>4 DEF Hangups
  <2> QED
    BY <1>5, <1>6, <1>9, <2>1, <2>2, <2>3, <2>4, ChannelFacts, Zenon DEF FitsNext
<1>10. FitsNext(c, n, r, worker[c], callback[c], g, olock[c], NoIntent, FALSE)
  BY <1>9, FALSE \in BOOLEAN, Zenon DEF Request
<1>11. /\ members' \subseteq Channels /\ UNCHANGED <<generation, mlock>>
       /\ \A d \in Channels : d # c => (d \in members' <=> d \in members)
  BY ChannelFacts DEF Request, Typed
<1>12. Counted'
  <2>1. Hosted' = Hosted \cup {c} /\ c \notin Hosted /\ IsFiniteSet(Hosted)
    BY <1>3, <1>5, <1>8, ChannelFacts, HostedFacts DEF Hosted
  <2>2. Cardinality(Hosted \cup {c}) = Cardinality(Hosted) + 1
    BY <2>1, FS_AddElement
  <2> QED
    BY <2>1, <2>2, ChannelFacts DEF Request, Counted
<1>13. Gated'
  BY ChannelFacts DEF Request, Gated
<1> QED
  BY <1>10, <1>11, <1>12, <1>13, HostingStep

-----------------------------------------------------------------------------
(* The reload and the module's lifecycle.                                  *)

\* A step that leaves every channel, and its locks, alone.
LEMMA StillStep ==
    ASSUME Inv, UNCHANGED <<members, olock, ch, radio, worker, callback, hang,
                            generation, latest, overridden>>,
           \A d \in Channels : mlock' = d <=> mlock = d,
           Gated', Counted'
    PROVE  Inv'
<1>1. Typed'
  BY Zenon DEF Inv, Typed
<1>2. ASSUME NEW d \in Channels
      PROVE  Sound(d)' /\ Replayed(d)'
  <2>1. Sound(d) /\ Replayed(d)
    BY DEF Inv
  <2>2. Replayed(d)'
    BY <2>1, Zenon DEF Replayed
  <2>3. SoundOf(d, ch[d], radio[d], worker[d], callback[d], hang[d], olock[d],
                members', mlock')
    BY <2>1 DEF Sound, SoundOf
  <2> QED
    BY <2>2, <2>3, Zenon DEF Sound
<1> QED
  BY <1>1, <1>2, Zenon DEF Inv

\* The technologies are registered and unregistered only while no channel is hosted.
LEMMA LifecycleKeeps ==
    ASSUME Inv, Register \/ Unregister
    PROVE  Inv'
<1>1. /\ UNCHANGED <<members, olock, ch, radio, worker, callback, hang,
                     generation, latest, overridden>>
      /\ \A d \in Channels : mlock' = d <=> mlock = d
  BY DEF Register, Unregister
<1>2. Gated'
  BY DEF Inv, Gated, Register, Unregister
<1>3. Hosted' = Hosted
  BY <1>1 DEF Hosted
<1>4. Counted'
  <2>1. Counted /\ IsFiniteSet(Hosted)
    BY ConstantsOK, FS_Subset DEF Inv, Hosted
  <2>2. active' = active /\ active = 0
    BY DEF Register, Unregister
  <2>3. Hosted = {}
    BY <2>1, <2>2, FS_EmptySet DEF Counted
  <2> QED
    BY <1>3, <2>1, <2>2, <2>3 DEF Counted
<1> QED
  BY <1>1, <1>2, <1>4, StillStep

\* A reload takes the mutex before it closes the gate, and reopens the gate before it
\* releases the mutex.
LEMMA ReloadPhases ==
    ASSUME Inv, ReloadLock \/ ReloadClose \/ AdoptionFails \/ ReloadReopen
                   \/ ReloadRelease
    PROVE  Inv'
<1>1. /\ UNCHANGED <<members, olock, ch, radio, worker, callback, hang,
                     generation, latest, overridden>>
      /\ UNCHANGED <<active, host>>
  BY DEF ReloadLock, ReloadClose, AdoptionFails, ReloadReopen, ReloadRelease
<1>2. members \subseteq Channels /\ Gated /\ Counted
  BY DEF Inv, Typed
<1>3. \A d \in Channels : mlock' = d <=> mlock = d
  BY <1>2, LockNames DEF ReloadLock, ReloadClose, AdoptionFails, ReloadReopen,
        ReloadRelease, Gated
<1>4. Gated'
  BY <1>2 DEF ReloadLock, ReloadClose, AdoptionFails, ReloadReopen, ReloadRelease,
        Gated, Reloads
<1>5. Counted'
  BY <1>1, <1>2 DEF Counted, Hosted
<1> QED
  BY <1>1, <1>3, <1>4, <1>5, StillStep

\* A step of the reload that keeps the request of the channel it handles.
LEMMA AdoptionStep ==
    ASSUME Inv, NEW c \in Channels, NEW r \in Radios,
           radio' = [radio EXCEPT ![c] = r],
           r.request = radio[c].request, r.state = radio[c].state,
           UNCHANGED <<host, active, members, mlock, gate, generation, ch, worker,
                       callback, hang, olock, latest, overridden>>,
           reloader'.phase = reloader.phase, reloader' \in Reloads
    PROVE  Inv'
<1>1. Slots(c, ch[c], r, worker[c], callback[c], hang[c], olock[c], latest[c],
            overridden[c])
  BY LeftAlone, Zenon DEF Slots, Inv
<1>2. SoundOf(c, ch[c], r, worker[c], callback[c], hang[c], olock[c], members, mlock)
  BY ChannelFacts DEF SoundOf
<1>3. ReplayedOf(ch[c], r, worker[c], callback[c], latest[c], overridden[c])
  BY ChannelFacts DEF ReplayedOf
<1>4. Fits(c, ch[c], r, worker[c], callback[c], hang[c], olock[c], latest[c],
           overridden[c])
  BY <1>1, <1>2, <1>3, ChannelFacts, Zenon DEF Fits
<1>5. UNCHANGED <<host, active, members, mlock, gate, generation>>
  OBVIOUS
<1> QED
  BY <1>4, <1>5, FittingStep

\* A channel dealt with is taken off the reload's list.
LEMMA TodoShrinks ==
    ASSUME reloader \in Reloads, NEW c, reloader' = [reloader EXCEPT !.todo = @ \ {c}]
    PROVE  reloader'.phase = reloader.phase /\ reloader' \in Reloads
  BY DEF Reloads

\* A member adopts the candidate; a replaced generation keeps its request for a rollback.
LEMMA ReloadAdoptKeeps ==
    ASSUME Inv, NEW c \in Channels, ReloadAdopt(c)
    PROVE  Inv'
<1>1. PICK kind \in {"live", "replaced"} :
        radio' = [radio EXCEPT ![c].adopted = kind, ![c].saved = radio[c].request]
  BY DEF ReloadAdopt
<1> DEFINE i == radio[c].request
           r == [radio[c] EXCEPT !.adopted = kind, !.saved = i]
<1>2. radio[c] \in Radios /\ i \in Intents /\ kind \in {"no", "live", "replaced"}
  BY ChannelFacts DEF Radios
<1>3. radio' = [radio EXCEPT ![c] = r]
  BY <1>1, <1>2, ChannelFacts DEF Typed
<1> HIDE DEF i
<1>4. r \in Radios /\ r.request = radio[c].request /\ r.state = radio[c].state
  BY <1>2 DEF Radios
<1> HIDE DEF r
<1>5. reloader'.phase = reloader.phase /\ reloader' \in Reloads
  BY ChannelFacts, TodoShrinks DEF ReloadAdopt
<1>6. UNCHANGED <<host, active, members, mlock, gate, generation, ch, worker,
                  callback, hang, olock, latest, overridden>>
  BY DEF ReloadAdopt
<1> QED
  BY <1>3, <1>4, <1>5, <1>6, AdoptionStep

\* Rolling back a replaced generation brings its request back, which overrides the latest
\* indication.
LEMMA ReloadAbortKeeps ==
    ASSUME Inv, NEW c \in Channels, ReloadAbort(c)
    PROVE  Inv'
<1>1. reloader'.phase = reloader.phase /\ reloader' \in Reloads
  BY ChannelFacts, TodoShrinks DEF ReloadAbort
<1>2. UNCHANGED <<host, active, members, mlock, gate, generation, ch, worker,
                  callback, hang, olock, latest>>
  BY DEF ReloadAbort
<1>3. radio[c] \in Radios /\ radio[c].saved \in Intents
  BY ChannelFacts DEF Radios
<1>4. CASE radio[c].adopted = "replaced"
  <2> DEFINE i == radio[c].saved
             r == [radio[c] EXCEPT !.request = i, !.adopted = "no"]
  <2>1. radio' = [radio EXCEPT ![c] = r]
    BY <1>3, <1>4, ChannelFacts DEF ReloadAbort, Typed
  <2> HIDE DEF i
  <2>2. i \in Intents
    BY <1>3 DEF i
  <2>3. r \in Radios /\ r.state = radio[c].state
    BY <1>3, <2>2 DEF Radios
  <2> HIDE DEF r
  <2>4. overridden' = [overridden EXCEPT ![c] = TRUE]
    BY <1>4, Zenon DEF ReloadAbort
  <2> QED
    BY <1>1, <1>2, <2>1, <2>3, <2>4, OverriddenStep
<1>5. CASE radio[c].adopted # "replaced"
  <2> DEFINE r == [radio[c] EXCEPT !.adopted = "no"]
  <2>1. radio' = [radio EXCEPT ![c] = r] /\ UNCHANGED overridden
    BY <1>5, Zenon DEF ReloadAbort
  <2>2. r \in Radios /\ r.request = radio[c].request /\ r.state = radio[c].state
    BY <1>3 DEF Radios
  <2> HIDE DEF r
  <2> QED
    BY <1>1, <1>2, <2>1, <2>2, AdoptionStep
<1> QED
  BY <1>4, <1>5

\* A commit publishes the generation, and every member has a jitter change to configure.
LEMMA ReloadCommitKeeps ==
    ASSUME Inv, ReloadCommit
    PROVE  Inv'
<1>1. /\ radio' = [c \in Channels |-> [radio[c] EXCEPT !.adopted = "no"]]
      /\ UNCHANGED <<host, members, active, mlock, gate, olock, worker, callback,
                     hang, latest, overridden>>
      /\ generation' = generation + 1
  BY DEF ReloadCommit
<1>2. Typed /\ Gated /\ Counted
  BY DEF Inv
<1>3. ASSUME NEW c \in Channels
      PROVE  /\ ch'[c] \in Hosts /\ SameHost(ch'[c], ch[c])
             /\ radio'[c] \in Radios /\ radio'[c].request = radio[c].request
             /\ radio'[c].state = radio[c].state
  <2>1. ch[c] \in Hosts /\ radio[c] \in Radios
    BY ChannelFacts
  <2>2. radio'[c] = [radio[c] EXCEPT !.adopted = "no"]
    BY <1>1
  <2>3. ch'[c] = IF c \in members THEN [ch[c] EXCEPT !.jitterPending = TRUE]
                 ELSE ch[c]
    BY Zenon DEF ReloadCommit
  <2>4. CASE c \in members
    <3>1. ch'[c] = [ch[c] EXCEPT !.jitterPending = TRUE]
      BY <2>3, <2>4, Zenon
    <3>2. ch'[c] \in Hosts /\ SameHost(ch'[c], ch[c])
      BY <2>1, <3>1, SetFlags, Zenon
    <3> QED
      BY <2>1, <2>2, <3>2 DEF Radios
  <2>5. CASE c \notin members
    <3>1. ch'[c] = ch[c]
      BY <2>3, <2>5, Zenon
    <3> QED
      BY <2>1, <2>2, <3>1 DEF Radios, SameHost
  <2> QED
    BY <2>4, <2>5
<1>4. Typed'
  <2>1. ch' \in [Channels -> Hosts]
    <3>1. ch' = [c \in Channels |-> ch'[c]]
      BY Zenon DEF ReloadCommit
    <3> QED
      BY <1>3, <3>1
  <2>2. radio' \in [Channels -> Radios]
    BY <1>1, <1>3
  <2>3. generation' \in Nat
    BY <1>1, <1>2 DEF Typed
  <2> QED
    BY <1>1, <1>2, <2>1, <2>2, <2>3, Zenon DEF Typed
<1>5. Gated'
  BY <1>2 DEF ReloadCommit, Gated, Reloads
<1>6. Counted'
  <2>1. Hosted' = Hosted
    BY <1>3 DEF Hosted, SameHost
  <2> QED
    BY <1>1, <1>2, <2>1 DEF Counted
<1>7. ASSUME NEW c \in Channels
      PROVE  Sound(c)' /\ Replayed(c)'
  <2>1. Sound(c) /\ Replayed(c)
    BY DEF Inv
  <2>2. SoundOf(c, ch'[c], radio'[c], worker[c], callback[c], hang[c], olock[c],
                members, mlock)
    BY <1>3, <2>1 DEF Sound, SoundOf, SameHost
  <2>3. ReplayedOf(ch'[c], radio'[c], worker[c], callback[c], latest[c],
                   overridden[c])
    BY <1>3, <2>1 DEF Replayed, ReplayedOf, SameHost
  <2> QED
    BY <1>1, <2>2, <2>3, Zenon DEF Sound, Replayed
<1> QED
  BY <1>4, <1>5, <1>6, <1>7, Zenon DEF Inv

-----------------------------------------------------------------------------
(* The theorems.                                                           *)

\* At the start nothing is hosted.
LEMMA InitInv == Init => Inv
<1> SUFFICES ASSUME Init
             PROVE  Inv
  OBVIOUS
<1>1. Unhosted \in Hosts /\ Unhosted.box = "none" /\ ~Unhosted.pvt
      /\ Unhosted.pending = NoIntent
  BY DEF Unhosted, Hosts
<1>2. /\ Unreserved \in Radios /\ Unreserved.state = "none"
      /\ NoWorker \in Workers /\ NoWorker.pc = "none"
      /\ NoCallback \in Callbacks /\ NoCallback.pc = "idle"
      /\ "idle" \in Hangups
  BY DEF Unreserved, Radios, NoWorker, Workers, NoCallback, Callbacks, Hangups,
         Intents
<1>3. Typed
  BY <1>1, <1>2 DEF Init, Typed
<1>4. Gated
  BY DEF Init, Gated, Reloads
<1>5. Counted
  <2>1. Hosted = {}
    BY <1>1 DEF Init, Hosted
  <2> QED
    BY <2>1, FS_EmptySet DEF Init, Counted
<1>6. ASSUME NEW c \in Channels
      PROVE  Sound(c) /\ Replayed(c)
  <2>1. /\ ch[c] = Unhosted /\ radio[c] = Unreserved /\ worker[c] = NoWorker
        /\ callback[c] = NoCallback /\ hang[c] = "idle" /\ olock[c] = "free"
        /\ latest[c] = NoIntent /\ members = {} /\ mlock = "free"
    BY DEF Init
  <2>2. SoundOf(c, Unhosted, Unreserved, NoWorker, NoCallback, "idle", "free",
                {}, "free")
    BY <1>1, <1>2, LockNames DEF SoundOf
  <2>3. Sound(c)
    BY <2>1, <2>2 DEF Sound
  <2>4. Replayed(c)
    BY <1>1, <1>2, <2>1 DEF Replayed, ReplayedOf
  <2> QED
    BY <2>3, <2>4
<1> QED
  BY <1>3, <1>4, <1>5, <1>6 DEF Inv

\* A step that changes nothing keeps the invariant.
LEMMA StutterInv ==
    ASSUME Inv, UNCHANGED vars
    PROVE  Inv'
<1>1. /\ UNCHANGED <<members, olock, ch, radio, worker, callback, hang,
                     generation, latest, overridden>>
      /\ UNCHANGED <<host, active, mlock, gate, reloader>>
  BY DEF vars
<1>2. Gated'
  BY <1>1 DEF Inv, Gated
<1>3. Counted'
  BY <1>1 DEF Inv, Counted, Hosted
<1> QED
  BY <1>1, <1>2, <1>3, StillStep

\* What Asterisk and the operator ask of a channel keeps the invariant.
LEMMA EnvironmentKeeps ==
    ASSUME Inv, NEW c \in Channels, Environment(c)
    PROVE  Inv'
  BY RequestKeeps, HangupBeginKeeps, SetDirectKeeps, CallKeeps, IndicateKeeps,
     CliTransmitKeeps, Zenon DEF Environment

\* Every step of a hangup keeps the invariant.
LEMMA HangupStepKeeps ==
    ASSUME Inv, NEW c \in Channels, HangupStep(c)
    PROVE  Inv'
  BY HangupLockMembershipKeeps, HangupRelockOwnerKeeps, HangupStopWorkerKeeps,
     HangupFreeKeeps, Zenon DEF HangupStep

\* Every step of a callback keeps the invariant.
LEMMA CallbackStepKeeps ==
    ASSUME Inv, NEW c \in Channels, CallbackStep(c)
    PROVE  Inv'
  BY CallJitterKeeps, CallJitterClearKeeps, CallStartKeeps, CallSpawnKeeps,
     TransmitApplyKeeps, TransmitFailsKeeps, TransmitDeferKeeps,
     TransmitStoreKeeps, Zenon DEF CallbackStep

\* Every step of a worker keeps the invariant.
LEMMA WorkerStepKeeps ==
    ASSUME Inv, NEW c \in Channels, WorkerStep(c)
    PROVE  Inv'
  BY WorkerLoopKeeps, WorkerReplayKeeps, WorkerClearPendingKeeps,
     WorkerJitterKeeps, WorkerClearJitterKeeps, WorkerServiceKeeps,
     WorkerFailsKeeps, Zenon DEF WorkerStep

\* Every step of a reload keeps the invariant.
LEMMA ReloadStepKeeps ==
    ASSUME Inv, ReloadStep
    PROVE  Inv'
  BY ReloadPhases, ReloadAdoptKeeps, ReloadAbortKeeps, ReloadCommitKeeps, Zenon
     DEF ReloadStep

\* Every step keeps the invariant.
LEMMA NextInv ==
    ASSUME Inv, [Next]_vars
    PROVE  Inv'
<1>1. CASE Register \/ Unregister
  BY <1>1, LifecycleKeeps
<1>2. CASE ReloadLock
  BY <1>2, ReloadPhases
<1>3. CASE ReloadStep
  BY <1>3, ReloadStepKeeps
<1>4. ASSUME NEW c \in Channels,
             Environment(c) \/ HangupStep(c) \/ CallbackStep(c) \/ WorkerStep(c)
      PROVE  Inv'
  BY <1>4, EnvironmentKeeps, HangupStepKeeps, CallbackStepKeeps, WorkerStepKeeps
<1>5. CASE UNCHANGED vars
  BY <1>5, StutterInv
<1> QED
  BY <1>1, <1>2, <1>3, <1>4, <1>5 DEF Next

\* The inductive invariant: which thread holds which lock of which channel,
\* that all of them find the Channel live, and what an intent that waits for
\* replay owes to the last accepted indication.
THEOREM HostInvariant == Spec => []Inv
<1>1. Init => Inv
  BY InitInv
<1>2. Inv /\ [Next]_vars => Inv'
  BY NextInv
<1> QED
  BY <1>1, <1>2, PTL DEF Spec

\* No thread reaches a Channel that hangup has freed (the delivery worker and
\* its bare pointer, a callback that entered while hangup had released the
\* owner, the reload and the CLI that walk the membership), no Destroy is
\* refused by the gate, and the registered technologies outlive every channel
\* that ACTIVE_CHANNELS counts: for any set of radios.
THEOREM ThreadsNeverOutliveChannels == Spec => []LifetimesNest
<1>1. Inv => LifetimesNest
  <2> SUFFICES ASSUME Inv
               PROVE  LifetimesNest
    OBVIOUS
  <2>1. ASSUME NEW c \in Channels
        PROVE  SoundOf(c, ch[c], radio[c], worker[c], callback[c], hang[c],
                       olock[c], members, mlock)
    BY ChannelFacts
  <2>2. \A c \in members : ch[c].box = "live"
    BY <2>1 DEF SoundOf, Inv, Typed
  <2>3. \A c \in Channels :
           worker[c].pc \notin {"none", "done"} \/ callback[c].pc # "idle" =>
              ch[c].box = "live"
    BY <2>1 DEF SoundOf
  <2>4. FreedIsDestroyed
    BY <2>1 DEF SoundOf, FreedIsDestroyed
  <2>5. HostOutlivesChannels
    BY DEF Inv, Counted, Hosted, HostOutlivesChannels
  <2> QED
    BY <2>2, <2>3, <2>4, <2>5 DEF LifetimesNest, NoUseAfterFree
<1> QED
  BY <1>1, HostInvariant, PTL

\* The controller's indications take effect in order: with nothing waiting
\* for replay, the radio holds the last indication the host accepted, however
\* often the gate refused, deferred and replayed, unless a rollback or the
\* CLI has replaced the request since.
THEOREM IndicationsKeepOrder == Spec => []LatestIntentWins
<1>1. Inv => LatestIntentWins
  <2> SUFFICES ASSUME Inv, NEW c \in Channels,
                      ch[c].box = "live", latest[c] # NoIntent,
                      ch[c].pending = NoIntent, ~overridden[c]
               PROVE  radio[c].request = latest[c]
    BY DEF LatestIntentWins
  <2> QED
    BY ChannelFacts DEF ReplayedOf
<1> QED
  BY <1>1, HostInvariant, PTL

=============================================================================
