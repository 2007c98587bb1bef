------------------------------ MODULE DspProofs ------------------------------
(***************************************************************************)
(* The remote base's changes of the plan, and how a change of the plan     *)
(* reaches the sound.                                                      *)
(*                                                                         *)
(* RemoteDsp, for every set of operating states and settings and every     *)
(* number of exchanges and reloads.                                        *)
(*                                                                         *)
(* ProcessingHandoff, for every set of plans, any priming, fade, frame and *)
(* block lengths and any number of updates.  A graph is safe to hear       *)
(* because the callback never runs a stage without a lease on the graph    *)
(* that is audible now: a stage that waits to be adopted leases every      *)
(* graph that can be audible by then, and a stage that runs is Sounding.   *)
(* The stream of a new noise reduction is safe to hear because its bridge  *)
(* lasts until the stream is primed, which is counted unit by unit         *)
(* (Bridged).  StreamAfter is a recursive function; that it exists and     *)
(* what it computes is proved by taking a least counterexample.            *)
(***************************************************************************)
EXTENDS RemoteDsp, ProcessingHandoff, FiniteSetTheorems, WellFoundedInduction, TLAPS

Stages == {"none", "captured", "building", "ready", "failed"}
Tokens == [stage : Stages, previous : Plans, revision : Nat]
Exchanges == [target : Targets, token : Tokens, result : {"none", "ok", "error"},
              cancelled : BOOLEAN]
Phases == {"idle", "preparing", "prepared", "adopting", "accepted", "aborting"}
OptionalIds == Ids \cup {0}

\* The plan a transaction started from, which is in force while there is none.
Base == IF txn = Mailbox!None THEN plan ELSE txn.previous

MailboxTyped ==
    /\ plan \in Plans
    /\ txn \in Mailbox!Transactions \cup {Mailbox!None}
    /\ revision \in Nat

ControlTyped ==
    /\ pending \in OptionalIds /\ job \in OptionalIds
    /\ nextId \in Nat \ {0}
    /\ believed \in Targets
    /\ active \in [id : OptionalIds, prepared : BOOLEAN, started : BOOLEAN,
                   reversing : BOOLEAN]
    /\ pumping \in BOOLEAN /\ (pumping => active.id # 0)
    /\ reload \in [phase : Phases, file : Files, token : Tokens]
    /\ reloads \in Nat

ClientsTyped == exchange \in [Ids -> Exchanges] /\ ControlTyped

ExchangeTyped == MailboxTyped /\ ClientsTyped

\* A snapshot of the present revision holds the plan the revision began with.
Fresh(token) ==
    /\ token.revision <= revision
    /\ token.revision = revision => token.previous = Base

SnapshotInv ==
    /\ revision = 0 => Base = BootPlan
    /\ \A i \in Ids : Fresh(exchange[i].token)
    /\ Fresh(reload.token)

\* A transaction changes one client's part.
OnePart(p, q) == p.file = q.file \/ p.remote = q.remote

TransactionInv ==
    txn # Mailbox!None => /\ plan \in {txn.plan, txn.previous}
                          /\ OnePart(txn.plan, txn.previous)

DspPartsInv == ExchangeTyped /\ SnapshotInv /\ TransactionInv

\* Exchanges the pump has not carried out: none of them has a result.
Untouched(i) == i >= nextId \/ i = pending \/ (active.id # 0 /\ i > active.id)

\* Exchanges are numbered as they are offered; one at a time is awaited, queued
\* and carried out.  One that is queued or carried out is awaited unless it was
\* abandoned or its worker has had an error.
OrderInv ==
    /\ job # 0 => nextId = job + 1 /\ ~exchange[job].cancelled
    /\ pending # 0 => /\ nextId = pending + 1 /\ active.id < pending
                      /\ job \in {0, pending}
                      /\ ~exchange[pending].cancelled => job = pending
    /\ active.id < nextId
    /\ \A i \in Ids : Untouched(i) => exchange[i].result = "none"
    /\ active.id # 0 =>
          /\ \/ exchange[active.id].result = "none"
             \/ exchange[active.id].result = "error" /\ active.reversing
          /\ exchange[active.id].result = "none" /\ ~exchange[active.id].cancelled
                 => job = active.id
    /\ active.id = 0 => active = NotActive

\* Without a reload the mailbox carries the active exchange's update.
CarriesInv ==
    /\ reload.phase = "idle"
    /\ active.started <=> txn # Mailbox!None
    /\ active.started => /\ txn.plan.remote = exchange[active.id].target
                         /\ plan = txn.previous

\* The last exchange that succeeded is in force.  The worker is about to learn
\* of it, holds it as current, or had abandoned it.
RecordInv ==
    /\ \A i \in Ids : LastAdopted(i) => plan.remote = exchange[i].target
    /\ \/ job # 0 /\ exchange[job].result = "ok"
       \/ plan.remote = believed
       \/ \E i \in Ids : exchange[i].cancelled /\ LastAdopted(i)

DspInv == DspPartsInv /\ OrderInv /\ (reloads = 0 => CarriesInv /\ RecordInv)

-----------------------------------------------------------------------------
(* The mailbox.                                                            *)

\* What a step may do to the mailbox: a call that ends or answers the
\* transaction, or the start of one that changes a single part.
MailboxMoves ==
    \/ UNCHANGED mailbox
    \/ \E p \in Plans : OnePart(p, plan) /\ Mailbox!Begin(p)
    \/ \E r \in {"adopted", "refused"} : Mailbox!Answer(r)
    \/ Mailbox!Accept \/ Mailbox!Commit \/ Mailbox!Reverse \/ Mailbox!Settle

\* Fresh, of a token after the step.
FreshAfter(token) ==
    /\ token.revision <= revision'
    /\ token.revision = revision' => token.previous = Base'

SameSnapshot(t, u) == t.previous = u.previous /\ t.revision = u.revision

(* A transaction has a plan to go forward to and one to go back to.        *)
LEMMA TransactionFacts ==
    ASSUME MailboxTyped, txn # Mailbox!None
    PROVE  /\ txn \in Mailbox!Transactions
           /\ txn.plan \in Plans /\ txn.previous \in Plans
  BY DEF MailboxTyped, Mailbox!Transactions

(* Starting a transaction leaves the plan in force and is not no           *)
(* transaction.                                                            *)
LEMMA BeginFacts ==
    ASSUME MailboxTyped, NEW p \in Plans, Mailbox!Begin(p)
    PROVE  /\ txn = Mailbox!None /\ txn' # Mailbox!None
           /\ txn' \in Mailbox!Transactions
           /\ txn'.plan = p /\ txn'.previous = plan
           /\ UNCHANGED <<plan, revision>>
  BY DEF MailboxTyped, Mailbox!Begin, Mailbox!None, Mailbox!Transactions

(* Publishing the way back keeps the transaction's two plans.              *)
LEMMA ReverseFacts ==
    ASSUME MailboxTyped, Mailbox!Reverse
    PROVE  /\ txn # Mailbox!None /\ txn' # Mailbox!None
           /\ txn' \in Mailbox!Transactions
           /\ txn'.plan = txn.plan /\ txn'.previous = txn.previous
           /\ UNCHANGED <<plan, revision>>
  <1>1. txn \in Mailbox!Transactions
    BY TransactionFacts DEF Mailbox!Reverse
  <1> QED
    BY <1>1 DEF Mailbox!Reverse, Mailbox!None, Mailbox!Transactions

(* No step of the mailbox changes both parts of the plan in force, and the *)
(* plan a transaction goes back to changes only with the revision.         *)
LEMMA MailboxMoved ==
    ASSUME MailboxTyped, TransactionInv, MailboxMoves
    PROVE  /\ MailboxTyped' /\ TransactionInv' /\ OnePart(plan', plan)
           /\ \/ revision' = revision /\ Base' = Base
              \/ revision' = revision + 1
  <1> DEFINE Goal == /\ MailboxTyped' /\ TransactionInv' /\ OnePart(plan', plan)
                     /\ \/ revision' = revision /\ Base' = Base
                        \/ revision' = revision + 1
  <1>1. CASE UNCHANGED mailbox \/ \E r \in {"adopted", "refused"} : Mailbox!Answer(r)
    <2>1. UNCHANGED <<plan, txn, revision>>
      BY <1>1 DEF mailbox, Mailbox!Answer
    <2> QED
      BY <2>1 DEF MailboxTyped, TransactionInv, OnePart, Base
  <1>2. ASSUME NEW p \in Plans, OnePart(p, plan), Mailbox!Begin(p) PROVE Goal
    BY <1>2, BeginFacts DEF MailboxTyped, TransactionInv, OnePart, Base
  <1>3. CASE Mailbox!Reverse
    BY <1>3, ReverseFacts DEF MailboxTyped, TransactionInv, OnePart, Base
  <1>4. CASE Mailbox!Accept
    BY <1>4, TransactionFacts
    DEF MailboxTyped, TransactionInv, OnePart, Base, Mailbox!Accept
  <1>5. CASE Mailbox!Commit \/ Mailbox!Settle
    <2>1. /\ txn # Mailbox!None /\ txn' = Mailbox!None /\ revision' = revision + 1
          /\ plan' \in {txn.plan, txn.previous}
      BY <1>5 DEF Mailbox!Commit, Mailbox!Settle, Mailbox!End
    <2> QED
      BY <2>1, TransactionFacts DEF MailboxTyped, TransactionInv, OnePart
  <1> QED
    BY <1>1, <1>2, <1>3, <1>4, <1>5 DEF MailboxMoves

(* A snapshot stays fresh, and so do one taken now and none.               *)
LEMMA StaysFresh ==
    ASSUME MailboxTyped, TransactionInv, SnapshotInv, MailboxMoves,
           NEW t \in Tokens,
           \/ \E u \in Tokens : Fresh(u) /\ SameSnapshot(t, u)
           \/ SameSnapshot(t, NoToken)
           \/ SameSnapshot(t, Capture) /\ txn = Mailbox!None
    PROVE  FreshAfter(t)
  <1>1. /\ \/ revision' = revision /\ Base' = Base
           \/ revision' = revision + 1
        /\ revision \in Nat
    BY MailboxMoved DEF MailboxTyped
  <1>2. /\ t.revision \in Nat /\ t.revision <= revision
        /\ t.revision = revision => t.previous = Base
    BY <1>1 DEF Fresh, SameSnapshot, NoToken, Capture, SnapshotInv, Base, Tokens
  <1> QED
    BY <1>1, <1>2 DEF FreshAfter

(* finish_update answers ok once it has ended an open transaction.         *)
LEMMA FinishEnds ==
    ASSUME NEW commit \in BOOLEAN, NEW answer, answer = "ok",
           FinishUpdate(commit, answer), txn # Mailbox!None
    PROVE  \/ commit /\ Mailbox!Commit
           \/ ~commit /\ Mailbox!Settle
  <1>1. answer # "pending" /\ answer # "error"
    OBVIOUS
  <1> QED
    BY <1>1, Zenon DEF FinishUpdate

(* Whatever finish_update answers, the mailbox makes one of its moves.     *)
LEMMA FinishMoves ==
    ASSUME NEW commit, NEW answer, FinishUpdate(commit, answer)
    PROVE  MailboxMoves
  BY Zenon DEF FinishUpdate, MailboxMoves

-----------------------------------------------------------------------------
(* The exchanges.                                                          *)

(* An empty token and a snapshot are tokens.                               *)
LEMMA TokenTypes ==
    ASSUME MailboxTyped
    PROVE  NoToken \in Tokens /\ Capture \in Tokens
  <1>1. BootPlan \in Plans
    BY TargetsAssumption, FilesAssumption DEF BootPlan, Plans
  <1> QED
    BY <1>1 DEF MailboxTyped, NoToken, Capture, Tokens, Stages

\* What most steps keep of the exchanges.
ExchangesCarried ==
    /\ exchange' \in [Ids -> Exchanges]
    /\ \A i \in Ids : /\ exchange'[i].target = exchange[i].target
                      /\ SameSnapshot(exchange'[i].token, exchange[i].token)

(* A token moves on to another stage.                                      *)
LEMMA StageSet ==
    ASSUME exchange \in [Ids -> Exchanges], NEW i \in Ids, NEW s \in Stages, SetStage(i, s)
    PROVE  /\ ExchangesCarried
           /\ \A k \in Ids : /\ exchange'[k].result = exchange[k].result
                             /\ exchange'[k].cancelled = exchange[k].cancelled
  <1>1. exchange' = [exchange EXCEPT ![i].token.stage = s]
    BY DEF SetStage
  <1>2. \A k \in Ids : exchange'[k] = IF k = i THEN [exchange[i] EXCEPT !.token.stage = s]
                                      ELSE exchange[k]
    BY <1>1
  <1>3. exchange[i] \in Exchanges /\ [exchange[i] EXCEPT !.token.stage = s] \in Exchanges
    BY DEF Exchanges, Tokens
  <1>4. exchange' \in [Ids -> Exchanges]
    BY <1>1, <1>2, <1>3
  <1>5. \A k \in Ids : /\ exchange'[k].target = exchange[k].target
                       /\ SameSnapshot(exchange'[k].token, exchange[k].token)
                       /\ exchange'[k].result = exchange[k].result
                       /\ exchange'[k].cancelled = exchange[k].cancelled
    BY <1>2, <1>3 DEF Exchanges, Tokens, SameSnapshot
  <1> QED
    BY <1>4, <1>5 DEF ExchangesCarried

(* An exchange keeps its first result.                                     *)
LEMMA Completed ==
    ASSUME exchange \in [Ids -> Exchanges], NEW i \in Ids, NEW r \in {"ok", "error"},
           Complete(i, r)
    PROVE  /\ ExchangesCarried
           /\ \A k \in Ids : exchange'[k].cancelled = exchange[k].cancelled
           /\ \A k \in Ids \ {i} : exchange'[k] = exchange[k]
           /\ exchange'[i].result = IF exchange[i].result = "none" THEN r
                                    ELSE exchange[i].result
  <1> DEFINE first == IF exchange[i].result = "none" THEN r ELSE exchange[i].result
  <1>1. exchange' = [exchange EXCEPT ![i].result = first]
    BY DEF Complete
  <1>2. exchange[i] \in Exchanges /\ first \in {"none", "ok", "error"}
    BY DEF Exchanges
  <1> HIDE DEF first
  <1>3. \A k \in Ids : exchange'[k] = IF k = i THEN [exchange[i] EXCEPT !.result = first]
                                      ELSE exchange[k]
    BY <1>1
  <1>4. [exchange[i] EXCEPT !.result = first] \in Exchanges
    BY <1>2 DEF Exchanges
  <1>5. exchange' \in [Ids -> Exchanges]
    BY <1>1, <1>3, <1>4
  <1>6. \A k \in Ids : /\ exchange'[k].target = exchange[k].target
                       /\ exchange'[k].token = exchange[k].token
                       /\ exchange'[k].cancelled = exchange[k].cancelled
    BY <1>2, <1>3 DEF Exchanges
  <1>7. exchange'[i].result = first
    BY <1>2, <1>3 DEF Exchanges
  <1> QED
    BY <1>3, <1>5, <1>6, <1>7 DEF ExchangesCarried, SameSnapshot, first

-----------------------------------------------------------------------------
(* The parts.                                                              *)

TokenFrom(t, u) ==
    \/ SameSnapshot(t, u) \/ SameSnapshot(t, NoToken)
    \/ SameSnapshot(t, Capture) /\ txn = Mailbox!None

\* What every step comes down to, for the parts of the plan.
Orderly ==
    /\ ClientsTyped' /\ MailboxMoves
    /\ \A i \in Ids : TokenFrom(exchange'[i].token, exchange[i].token)
    /\ TokenFrom(reload'.token, reload.token)

(* Such a step keeps the parts' invariant.                                 *)
LEMMA OrderlyKeepsParts ==
    ASSUME DspPartsInv, Orderly
    PROVE  DspPartsInv' /\ OnePart(plan', plan)
  <1>1. MailboxTyped /\ TransactionInv /\ SnapshotInv /\ MailboxMoves
    BY DEF DspPartsInv, ExchangeTyped, Orderly
  <1>2. /\ MailboxTyped' /\ TransactionInv' /\ OnePart(plan', plan)
        /\ \/ revision' = revision /\ Base' = Base
           \/ revision' = revision + 1
    BY <1>1, MailboxMoved
  <1>3. \A i \in Ids : /\ exchange[i].token \in Tokens /\ exchange'[i].token \in Tokens
                       /\ Fresh(exchange[i].token)
                       /\ TokenFrom(exchange'[i].token, exchange[i].token)
    BY <1>1 DEF DspPartsInv, ExchangeTyped, ClientsTyped, Exchanges, Orderly, SnapshotInv
  <1>4. ASSUME NEW i \in Ids PROVE FreshAfter(exchange'[i].token)
    BY <1>1, <1>3, StaysFresh DEF TokenFrom
  <1>5. /\ reload.token \in Tokens /\ reload'.token \in Tokens
        /\ Fresh(reload.token) /\ TokenFrom(reload'.token, reload.token)
    BY <1>1 DEF DspPartsInv, ExchangeTyped, ClientsTyped, ControlTyped, Orderly, SnapshotInv
  <1>6. FreshAfter(reload'.token)
    BY <1>1, <1>5, StaysFresh DEF TokenFrom
  <1>7. revision' = 0 => Base' = BootPlan
    BY <1>1, <1>2 DEF MailboxTyped, SnapshotInv
  <1>8. SnapshotInv'
    BY <1>4, <1>6, <1>7 DEF SnapshotInv, Fresh, FreshAfter
  <1>9. ClientsTyped'
    BY DEF Orderly
  <1> QED
    BY <1>2, <1>8, <1>9 DEF DspPartsInv, ExchangeTyped

(* A step that only carries the exchanges on.                              *)
LEMMA CarriedIsOrderly ==
    ASSUME MailboxMoves, ExchangesCarried, ControlTyped',
           TokenFrom(reload'.token, reload.token)
    PROVE  Orderly
  BY DEF ClientsTyped, ExchangesCarried, TokenFrom, Orderly

(* A step that leaves the exchanges alone carries them over.               *)
LEMMA SameExchanges ==
    ASSUME DspPartsInv, UNCHANGED exchange
    PROVE  ExchangesCarried
  BY DEF DspPartsInv, ExchangeTyped, ClientsTyped, ExchangesCarried, SameSnapshot

(* The worker's offer of an exchange.                                      *)
LEMMA OfferIsOrderly ==
    ASSUME DspPartsInv, NEW t \in Targets, Offer(t)
    PROVE  Orderly
  <1>1. /\ nextId <= MaxExchange /\ nextId \in Nat \ {0} /\ MaxExchange \in Nat
        /\ exchange \in [Ids -> Exchanges]
    BY BoundsAssumption DEF Offer, DspPartsInv, ExchangeTyped, ClientsTyped, ControlTyped
  <1>2. nextId \in Ids
    BY <1>1 DEF Ids
  <1>3. NoToken \in Tokens
    BY TokenTypes DEF DspPartsInv, ExchangeTyped
  <1>4. NewExchange(t) \in Exchanges /\ NewExchange(t).token = NoToken
    BY <1>3 DEF NewExchange, Exchanges
  <1>5. \A i \in Ids : exchange'[i] = IF i = nextId THEN NewExchange(t) ELSE exchange[i]
    BY <1>1, <1>2 DEF Offer
  <1>6. exchange' \in [Ids -> Exchanges]
    BY <1>1, <1>4, <1>5 DEF Offer
  <1>7. \A i \in Ids : TokenFrom(exchange'[i].token, exchange[i].token)
    BY <1>4, <1>5 DEF TokenFrom, SameSnapshot
  <1>8. /\ pending' = nextId /\ job' = nextId /\ nextId' = nextId + 1
        /\ UNCHANGED <<mailbox, believed, active, pumping, reload, reloads>>
    BY DEF Offer, pump, client
  <1>9. ClientsTyped'
    BY <1>1, <1>2, <1>6, <1>8
    DEF DspPartsInv, ExchangeTyped, ClientsTyped, ControlTyped, OptionalIds
  <1> QED
    BY <1>7, <1>8, <1>9 DEF Orderly, MailboxMoves, TokenFrom, SameSnapshot

(* The worker returns, gives up, takes its preparation, or builds.         *)
LEMMA WorkerIsOrderly ==
    ASSUME DspPartsInv, PhysicalWorker
    PROVE  Orderly
  <1>0. ControlTyped /\ exchange \in [Ids -> Exchanges]
    BY DEF DspPartsInv, ExchangeTyped, ClientsTyped
  <1>1. /\ UNCHANGED <<mailbox, pending, active, pumping, reload, reloads, nextId>>
        /\ MailboxMoves /\ TokenFrom(reload'.token, reload.token)
    BY DEF PhysicalWorker, Return, GiveUp, TakePreparation, Build, waiting, pump, client,
           MailboxMoves, TokenFrom, SameSnapshot
  <1>2. job # 0 /\ job \in Ids /\ exchange[job] \in Exchanges
    BY <1>0 DEF PhysicalWorker, Return, GiveUp, TakePreparation, Build, ControlTyped, OptionalIds
  <1>3. CASE Return
    <2>1. believed' \in Targets /\ job' = 0 /\ UNCHANGED exchange
      BY <1>0, <1>2, <1>3 DEF Return, Exchanges, ControlTyped
    <2>2. ControlTyped'
      BY <1>0, <1>1, <2>1 DEF ControlTyped, OptionalIds
    <2> QED
      BY <1>1, <2>1, <2>2, SameExchanges, CarriedIsOrderly
  <1>4. CASE GiveUp
    <2>1. \A i \in Ids : exchange'[i] = IF i = job THEN [exchange[i] EXCEPT !.cancelled = TRUE]
                                        ELSE exchange[i]
      BY <1>0, <1>2, <1>4 DEF GiveUp
    <2>2. [exchange[job] EXCEPT !.cancelled = TRUE] \in Exchanges
      BY <1>2 DEF Exchanges
    <2>3. exchange' \in [Ids -> Exchanges]
      BY <1>0, <1>2, <1>4, <2>1, <2>2 DEF GiveUp
    <2>4. \A i \in Ids : /\ exchange'[i].target = exchange[i].target
                         /\ exchange'[i].token = exchange[i].token
      BY <1>2, <2>1 DEF Exchanges
    <2>5. believed' = believed /\ job' = 0
      BY <1>4 DEF GiveUp
    <2>6. ExchangesCarried
      BY <2>3, <2>4 DEF ExchangesCarried, SameSnapshot
    <2>7. ControlTyped'
      BY <1>0, <1>1, <2>5 DEF ControlTyped, OptionalIds
    <2> QED
      BY <1>1, <2>6, <2>7, CarriedIsOrderly
  <1>5. CASE TakePreparation \/ Build
    <2>1. \E s \in Stages : SetStage(job, s)
      BY <1>5 DEF TakePreparation, Build, Stages
    <2>2. ExchangesCarried
      BY <1>0, <1>2, <2>1, StageSet
    <2>3. UNCHANGED <<job, believed>>
      BY <1>5 DEF TakePreparation, Build, waiting
    <2>4. ControlTyped'
      BY <1>0, <1>1, <2>3 DEF ControlTyped, OptionalIds
    <2> QED
      BY <1>1, <2>2, <2>4, CarriedIsOrderly
  <1> QED
    BY <1>3, <1>4, <1>5 DEF PhysicalWorker

(* The pump's own record, whichever of its steps is taken.                 *)
LEMMA PumpTypes ==
    ASSUME ControlTyped, PumpEnter \/ PumpStep
    PROVE  ControlTyped'
  <1>1. /\ active \in [id : OptionalIds, prepared : BOOLEAN, started : BOOLEAN,
                       reversing : BOOLEAN]
        /\ pending \in OptionalIds
    BY DEF ControlTyped
  <1>2. /\ UNCHANGED <<job, nextId, believed, reload, reloads>>
        /\ pending' \in OptionalIds
    BY <1>1 DEF PumpEnter, PumpStep, PumpCapture, PumpWait, PumpBegin, PumpReject,
                PumpFinish, waiting, client, OptionalIds
  <1>3. NotActive \in [id : OptionalIds, prepared : BOOLEAN, started : BOOLEAN,
                       reversing : BOOLEAN]
    BY DEF NotActive, OptionalIds
  <1>4. CASE PumpStep
    <2>1. pumping' \in BOOLEAN /\ (pumping' => pumping /\ active'.id = active.id)
      BY <1>1, <1>4 DEF PumpStep, PumpCapture, PumpWait, PumpBegin, PumpReject, PumpFinish,
                        ControlTyped
    <2>2. active' \in {active, NotActive, [active EXCEPT !.prepared = TRUE],
                       [active EXCEPT !.prepared = FALSE], [active EXCEPT !.started = TRUE],
                       [active EXCEPT !.reversing = TRUE]}
      BY <1>4, Zenon
      DEF PumpStep, PumpCapture, PumpWait, PumpBegin, PumpReject, PumpFinish
    <2>3. active' \in [id : OptionalIds, prepared : BOOLEAN, started : BOOLEAN,
                       reversing : BOOLEAN]
      BY <1>1, <1>3, <2>2
    <2> QED
      BY <1>2, <2>1, <2>3 DEF ControlTyped
  <1>5. CASE PumpEnter
    <2> DEFINE now == IF active.id # 0 THEN active ELSE [NotActive EXCEPT !.id = pending]
               cancelled == exchange[now.id].cancelled
    <2>1. /\ active' = IF ~cancelled THEN now
                       ELSE IF now.started THEN [now EXCEPT !.reversing = TRUE]
                       ELSE NotActive
          /\ pumping' = (~cancelled \/ now.started)
          /\ active.id # 0 \/ pending # 0
      BY <1>5, Zenon DEF PumpEnter
    <2>2. /\ now \in [id : OptionalIds, prepared : BOOLEAN, started : BOOLEAN,
                      reversing : BOOLEAN]
          /\ now.id # 0
      BY <1>1, <1>3, <2>1 DEF NotActive
    <2> HIDE DEF now, cancelled
    <2>3. pumping' \in BOOLEAN /\ (pumping' => ~cancelled \/ now.started)
      BY <2>1, Zenon
    <2>4. /\ active' \in [id : OptionalIds, prepared : BOOLEAN, started : BOOLEAN,
                          reversing : BOOLEAN]
          /\ ~cancelled \/ now.started => active'.id # 0
      BY <1>3, <2>1, <2>2
    <2> QED
      BY <1>2, <2>3, <2>4 DEF ControlTyped
  <1> QED
    BY <1>4, <1>5

(* The control task's steps on the active exchange.                        *)
LEMMA PumpIsOrderly ==
    ASSUME DspPartsInv, PumpEnter \/ PumpStep
    PROVE  Orderly
  <1>1. /\ ControlTyped /\ exchange \in [Ids -> Exchanges]
        /\ MailboxTyped /\ SnapshotInv
    BY DEF DspPartsInv, ExchangeTyped, ClientsTyped
  <1>2. ControlTyped'
    BY <1>1, PumpTypes
  <1>3. TokenFrom(reload'.token, reload.token)
    BY DEF PumpEnter, PumpStep, PumpCapture, PumpWait, PumpBegin, PumpReject,
           PumpFinish, client, TokenFrom, SameSnapshot
  <1>4. pumping => active.id \in Ids /\ exchange[active.id] \in Exchanges
    BY <1>1 DEF ControlTyped, OptionalIds
  <1>5. CASE PumpEnter \/ PumpWait
    <2>1. UNCHANGED <<mailbox, exchange>>
      BY <1>5 DEF PumpEnter, PumpWait
    <2>2. ExchangesCarried /\ MailboxMoves
      BY <2>1, SameExchanges DEF MailboxMoves
    <2> QED
      BY <1>2, <1>3, <2>2, CarriedIsOrderly
  <1>6. CASE PumpCapture
    <2>1. pumping /\ MailboxMoves
      BY <1>6 DEF PumpCapture, MailboxMoves
    <2>2. CASE UNCHANGED exchange
      BY <1>2, <1>3, <2>1, <2>2, SameExchanges, CarriedIsOrderly
    <2>3. CASE Complete(active.id, "error")
      <3>1. ExchangesCarried
        BY <1>1, <1>4, <2>1, <2>3, Completed
      <3> QED
        BY <1>2, <1>3, <2>1, <3>1, CarriedIsOrderly
    <2>4. CASE txn = Mailbox!None /\ exchange' = [exchange EXCEPT ![active.id].token = Capture]
      <3>1. Capture \in Tokens
        BY <1>1, TokenTypes
      <3>2. \A i \in Ids : exchange'[i] = IF i = active.id
                                          THEN [exchange[i] EXCEPT !.token = Capture]
                                          ELSE exchange[i]
        BY <1>1, <2>4
      <3>3. /\ [exchange[active.id] EXCEPT !.token = Capture] \in Exchanges
            /\ [exchange[active.id] EXCEPT !.token = Capture].token = Capture
        BY <1>4, <2>1, <3>1 DEF Exchanges
      <3>4. exchange' \in [Ids -> Exchanges]
        BY <1>1, <1>4, <2>1, <2>4, <3>2, <3>3
      <3>5. \A i \in Ids : TokenFrom(exchange'[i].token, exchange[i].token)
        BY <2>4, <3>2, <3>3 DEF TokenFrom, SameSnapshot
      <3> QED
        BY <1>2, <1>3, <2>1, <3>4, <3>5 DEF Orderly, ClientsTyped
    <2> QED
      BY <1>6, <2>2, <2>3, <2>4, Zenon DEF PumpCapture
  <1>7. CASE PumpBegin
    <2> DEFINE e == exchange[active.id]
               candidate == [e.token.previous EXCEPT !.remote = e.target]
    <2>1. pumping /\ SetStage(active.id, "none")
      BY <1>7 DEF PumpBegin
    <2>2. ExchangesCarried
      BY <1>1, <1>4, <2>1, StageSet DEF Stages
    <2>3. UNCHANGED mailbox \/ (Admissible(e.token) /\ Mailbox!Begin(candidate))
      BY <1>7, Zenon DEF PumpBegin
    <2>4. /\ e.token.previous \in Plans /\ e.target \in Targets
          /\ Admissible(e.token) => e.token.previous = plan
      BY <1>1, <1>4, <2>1 DEF Exchanges, Tokens, SnapshotInv, Fresh, Base, Admissible
    <2>5. candidate \in Plans /\ candidate.file = e.token.previous.file
      BY <2>4 DEF Plans
    <2> HIDE DEF candidate, e
    <2>6. MailboxMoves
      BY <2>3, <2>4, <2>5 DEF MailboxMoves, OnePart
    <2> QED
      BY <1>2, <1>3, <2>2, <2>6, CarriedIsOrderly
  <1>8. CASE PumpReject
    <2>1. /\ pumping /\ Complete(active.id, "error") /\ MailboxMoves
      BY <1>8 DEF PumpReject, MailboxMoves
    <2>2. ExchangesCarried
      BY <1>1, <1>4, <2>1, Completed
    <2> QED
      BY <1>2, <1>3, <2>1, <2>2, CarriedIsOrderly
  <1>9. CASE PumpFinish
    <2>1. pumping /\ MailboxMoves
      BY <1>9, FinishMoves, Zenon DEF PumpFinish
    <2>2. UNCHANGED exchange \/ \E r \in {"ok", "error"} : Complete(active.id, r)
      BY <1>9, Zenon DEF PumpFinish
    <2>3. ExchangesCarried
      BY <1>1, <1>4, <2>1, <2>2, Completed, SameExchanges
    <2> QED
      BY <1>2, <1>3, <2>1, <2>3, CarriedIsOrderly
  <1> QED
    BY <1>5, <1>6, <1>7, <1>8, <1>9 DEF PumpStep

(* The reload's steps.                                                     *)
LEMMA ReloadIsOrderly ==
    ASSUME DspPartsInv, ReloadStep \/ (\E f \in Files : ReloadPrepare(f))
    PROVE  Orderly
  <1>1. /\ ControlTyped /\ MailboxTyped /\ SnapshotInv
    BY DEF DspPartsInv, ExchangeTyped, ClientsTyped
  <1>2. /\ UNCHANGED <<pending, exchange, job, nextId, believed, active, pumping>>
        /\ reloads' \in Nat
    BY <1>1
    DEF ReloadStep, ReloadPrepare, ReloadBuilt, ReloadActivate, ReloadAccept, ReloadAbort,
        ReloadFinish, waiting, pump, ControlTyped
  <1>3. ExchangesCarried
    BY <1>2, SameExchanges
  <1>4. CASE ReloadStep
    <2>1. /\ reload' \in [phase : Phases, file : Files, token : Tokens]
          /\ reload'.file = reload.file /\ reload'.token = reload.token
      BY <1>1, <1>4
      DEF ControlTyped, Phases, ReloadStep, ReloadBuilt, ReloadActivate, ReloadAccept,
          ReloadAbort, ReloadFinish, ReloadTo
    <2>2. ControlTyped'
      BY <1>1, <1>2, <2>1 DEF ControlTyped
    <2>3. MailboxMoves
      <3>1. CASE ReloadBuilt \/ ReloadAbort
        BY <3>1 DEF ReloadBuilt, ReloadAbort, MailboxMoves
      <3>2. CASE ReloadActivate
        <4>1. UNCHANGED mailbox \/ (Admissible(reload.token) /\ Mailbox!Begin(Candidate))
          BY <3>2, Zenon DEF ReloadActivate
        <4>2. /\ reload.token.previous \in Plans /\ reload.file \in Files
              /\ Admissible(reload.token) => reload.token.previous = plan
          BY <1>1 DEF ControlTyped, Tokens, SnapshotInv, Fresh, Base, Admissible
        <4>3. Candidate \in Plans /\ Candidate.remote = reload.token.previous.remote
          BY <4>2 DEF Plans, Candidate
        <4> QED
          BY <4>1, <4>2, <4>3 DEF MailboxMoves, OnePart
      <3>3. CASE ReloadAccept
        BY <3>3, Zenon DEF ReloadAccept, MailboxMoves
      <3>4. CASE \E c \in BOOLEAN : ReloadFinish(c)
        BY <3>4, FinishMoves, Zenon DEF ReloadFinish
      <3> QED
        BY <1>4, <3>1, <3>2, <3>3, <3>4 DEF ReloadStep
    <2> QED
      BY <1>3, <2>1, <2>2, <2>3, CarriedIsOrderly DEF TokenFrom, SameSnapshot
  <1>5. CASE \E f \in Files : ReloadPrepare(f)
    <2>1. PICK f \in Files : ReloadPrepare(f)
      BY <1>5
    <2>2. MailboxMoves
      BY <2>1 DEF ReloadPrepare, MailboxMoves
    <2>3. \/ reload' = reload
          \/ txn = Mailbox!None /\ reload' = [phase |-> "preparing", file |-> f, token |-> Capture]
      BY <2>1 DEF ReloadPrepare
    <2>4. /\ reload' \in [phase : Phases, file : Files, token : Tokens]
          /\ TokenFrom(reload'.token, reload.token)
      BY <1>1, <2>3, TokenTypes DEF ControlTyped, Phases, TokenFrom, SameSnapshot
    <2>5. ControlTyped'
      BY <1>1, <1>2, <2>4 DEF ControlTyped
    <2> QED
      BY <1>3, <2>2, <2>4, <2>5, CarriedIsOrderly
  <1> QED
    BY <1>4, <1>5

(* Every step is orderly.                                                  *)
LEMMA StepIsOrderly ==
    ASSUME DspPartsInv, [ExchangeNext]_exchangeVars
    PROVE  Orderly
  <1>1. ControlTyped
    BY DEF DspPartsInv, ExchangeTyped, ClientsTyped
  <1>2. CASE Callbacks \/ DropOwner \/ UNCHANGED exchangeVars
    <2>1. UNCHANGED <<pending, exchange, job, nextId, believed, active, pumping, reload, reloads>>
      BY <1>2 DEF Callbacks, DropOwner, exchangeVars, waiting, pump, client
    <2>2. MailboxMoves
      BY <1>2, Zenon DEF Callbacks, DropOwner, exchangeVars, MailboxMoves
    <2>3. ControlTyped'
      BY <1>1, <2>1 DEF ControlTyped
    <2> QED
      BY <2>1, <2>2, <2>3, SameExchanges, CarriedIsOrderly DEF TokenFrom, SameSnapshot
  <1> QED
    BY <1>2, OfferIsOrderly, WorkerIsOrderly, PumpIsOrderly, ReloadIsOrderly DEF ExchangeNext

(* No step of either client changes both parts.                            *)
LEMMA PartsStep ==
    ASSUME DspPartsInv, [ExchangeNext]_exchangeVars
    PROVE  DspPartsInv' /\ OnePart(plan', plan)
  BY StepIsOrderly, OrderlyKeepsParts

(* At boot there is one plan and no snapshot of it is taken yet.           *)
LEMMA PartsInit == ExchangeInit => DspPartsInv
  <1> SUFFICES ASSUME ExchangeInit PROVE DspPartsInv
    OBVIOUS
  <1>1. BootPlan \in Plans
    BY TargetsAssumption, FilesAssumption DEF BootPlan, Plans
  <1>2. /\ plan = BootPlan /\ txn = Mailbox!None /\ revision = 0
    BY DEF ExchangeInit, Mailbox!Init
  <1>3. MailboxTyped /\ TransactionInv /\ Base = BootPlan
    BY <1>1, <1>2 DEF MailboxTyped, TransactionInv, Base
  <1>4. NoToken \in Tokens /\ Fresh(NoToken)
    BY <1>2, <1>3, TokenTypes DEF Fresh, NoToken
  <1>5. NewExchange(BootTarget) \in Exchanges /\ NewExchange(BootTarget).token = NoToken
    BY <1>4, TargetsAssumption DEF NewExchange, Exchanges
  <1>6. /\ exchange \in [Ids -> Exchanges]
        /\ \A i \in Ids : exchange[i].token = NoToken
    BY <1>5 DEF ExchangeInit
  <1>7. /\ pending = 0 /\ job = 0 /\ nextId = 1 /\ believed = BootTarget
        /\ active = [id |-> 0, prepared |-> FALSE, started |-> FALSE, reversing |-> FALSE]
        /\ pumping = FALSE /\ reloads = 0
        /\ reload = [phase |-> "idle", file |-> BootFile, token |-> NoToken]
    BY DEF ExchangeInit, NotActive, NoReload
  <1>8. ControlTyped /\ reload.token = NoToken
    <2>1. active \in [id : OptionalIds, prepared : BOOLEAN, started : BOOLEAN,
                     reversing : BOOLEAN]
      BY <1>7 DEF OptionalIds
    <2>2. /\ reload \in [phase : Phases, file : Files, token : Tokens]
          /\ reload.token = NoToken
      BY <1>4, <1>7, FilesAssumption DEF Phases
    <2>3. pending \in OptionalIds /\ job \in OptionalIds /\ nextId \in Nat \ {0}
      BY <1>7 DEF OptionalIds
    <2>4. believed \in Targets /\ reloads \in Nat
      BY <1>7, TargetsAssumption
    <2>5. pumping \in BOOLEAN /\ (pumping => active.id # 0)
      BY <1>7, Zenon
    <2> QED
      BY <2>1, <2>2, <2>3, <2>4, <2>5 DEF ControlTyped
  <1> QED
    BY <1>2, <1>3, <1>4, <1>6, <1>8
    DEF DspPartsInv, ExchangeTyped, ClientsTyped, SnapshotInv

-----------------------------------------------------------------------------
(* The order of exchanges and the worker's record.                         *)

\* What the steps below start from.
RecordStart ==
    /\ exchange \in [Ids -> Exchanges] /\ ControlTyped /\ MailboxTyped
    /\ OrderInv
    /\ reloads = 0 => CarriesInv /\ RecordInv

RecordEnd == OrderInv' /\ (reloads' = 0 => CarriesInv' /\ RecordInv')

(* What the proofs about the record start from.                            *)
LEMMA Starting ==
    ASSUME DspInv
    PROVE  RecordStart
  BY DEF DspInv, DspPartsInv, ExchangeTyped, ClientsTyped, RecordStart

(* The numbers of exchanges, and which of them are exchanges.              *)
LEMMA ExchangeFacts ==
    ASSUME RecordStart
    PROVE  /\ pending \in OptionalIds /\ job \in OptionalIds /\ active.id \in OptionalIds
           /\ Ids \subseteq Nat /\ 0 \notin Ids /\ OptionalIds \subseteq Nat
           /\ \A i \in OptionalIds : i # 0 => i \in Ids
           /\ nextId \in Nat \ {0}
           /\ active \in [id : OptionalIds, prepared : BOOLEAN, started : BOOLEAN,
                          reversing : BOOLEAN]
           /\ NotActive.id = 0 /\ ~NotActive.started /\ ~NotActive.reversing
           /\ active.started => active.id # 0
  <1>1. NotActive.id = 0 /\ ~NotActive.started /\ ~NotActive.reversing
    BY DEF NotActive
  <1>2. active.started => active.id # 0
    BY <1>1 DEF RecordStart, OrderInv
  <1> QED
    BY <1>1, <1>2 DEF RecordStart, ControlTyped, Ids, OptionalIds

\* No exchange changes its target, its result or whether it is abandoned.
RecordsKept ==
    \A i \in Ids : /\ exchange'[i].target = exchange[i].target
                   /\ exchange'[i].result = exchange[i].result
                   /\ exchange'[i].cancelled = exchange[i].cancelled

\* The pump still carries out the same exchange, as far as it had come.
ActiveKept ==
    /\ active'.id = active.id /\ active'.started = active.started
    /\ active.reversing => active'.reversing
    /\ active.id = 0 => active' = active

\* The transaction, if there is one, keeps its two plans.
PlansKept ==
    /\ txn' = Mailbox!None <=> txn = Mailbox!None
    /\ txn # Mailbox!None => txn'.plan = txn.plan /\ txn'.previous = txn.previous

(* The record of what is in force stays right when no exchange begins or   *)
(* ceases to be adopted.                                                   *)
LEMMA RecordKept ==
    ASSUME RecordInv, UNCHANGED <<plan, believed>>,
           job' = job \/ job = 0,
           0 \notin Ids, job \in Ids \cup {0},
           \A i \in Ids : exchange'[i].result = "ok" <=> exchange[i].result = "ok",
           \A i \in Ids : exchange[i].result = "ok" =>
               /\ exchange'[i].target = exchange[i].target
               /\ exchange[i].cancelled => exchange'[i].cancelled
    PROVE  RecordInv'
  <1>1. \A i \in Ids : LastAdopted(i)' <=> LastAdopted(i)
    BY DEF LastAdopted
  <1>2. \A i \in Ids : LastAdopted(i) => exchange[i].result = "ok"
    BY DEF LastAdopted
  <1>3. \A i \in Ids : LastAdopted(i)' => plan'.remote = exchange'[i].target
    BY <1>1, <1>2 DEF RecordInv
  <1>4. CASE job # 0 /\ exchange[job].result = "ok"
    BY <1>3, <1>4 DEF RecordInv
  <1>5. CASE plan.remote = believed
    BY <1>3, <1>5 DEF RecordInv
  <1>6. CASE \E i \in Ids : exchange[i].cancelled /\ LastAdopted(i)
    BY <1>1, <1>2, <1>3, <1>6 DEF RecordInv
  <1> QED
    BY <1>4, <1>5, <1>6 DEF RecordInv

(* A step that moves none of this.                                         *)
LEMMA NothingMoves ==
    ASSUME RecordStart, RecordsKept, ActiveKept, PlansKept,
           UNCHANGED <<pending, nextId, plan, reloads, job, believed>>,
           reload'.phase = reload.phase
    PROVE  RecordEnd
  <1>0. /\ pending \in OptionalIds /\ job \in OptionalIds /\ active.id \in OptionalIds
        /\ \A i \in OptionalIds : i # 0 => i \in Ids
        /\ 0 \notin Ids /\ OrderInv
    BY ExchangeFacts DEF RecordStart
  <1>1. OrderInv'
    <2>1. /\ job' # 0 => nextId' = job' + 1 /\ ~exchange'[job'].cancelled
          /\ active'.id < nextId'
          /\ active'.id = 0 => active' = NotActive
      BY <1>0 DEF OrderInv, RecordsKept, ActiveKept
    <2>2. pending' # 0 => /\ nextId' = pending' + 1 /\ active'.id < pending'
                          /\ job' \in {0, pending'}
                          /\ ~exchange'[pending'].cancelled => job' = pending'
      BY <1>0 DEF OrderInv, RecordsKept, ActiveKept
    <2>3. \A i \in Ids : Untouched(i)' => exchange'[i].result = "none"
      BY <1>0 DEF OrderInv, RecordsKept, ActiveKept, Untouched
    <2>4. active'.id # 0 =>
             /\ \/ exchange'[active'.id].result = "none"
                \/ exchange'[active'.id].result = "error" /\ active'.reversing
             /\ exchange'[active'.id].result = "none" /\ ~exchange'[active'.id].cancelled
                    => job' = active'.id
      BY <1>0 DEF OrderInv, RecordsKept, ActiveKept
    <2> QED
      BY <2>1, <2>2, <2>3, <2>4 DEF OrderInv
  <1>2. reloads = 0 => CarriesInv'
    BY <1>0 DEF RecordStart, OrderInv, CarriesInv, ActiveKept, PlansKept, RecordsKept, NotActive
  <1>3. reloads = 0 => RecordInv'
    BY <1>0, RecordKept DEF RecordStart, RecordsKept, OptionalIds
  <1> QED
    BY <1>1, <1>2, <1>3 DEF RecordEnd

(* An offer is a new exchange, newer than every one adopted.               *)
LEMMA OfferRecord ==
    ASSUME RecordStart, NEW t \in Targets, Offer(t)
    PROVE  RecordEnd
  <1>0. /\ job \in OptionalIds /\ active.id \in OptionalIds /\ OptionalIds \subseteq Nat
        /\ Ids \subseteq Nat /\ 0 \notin Ids /\ \A i \in OptionalIds : i # 0 => i \in Ids
        /\ nextId \in Nat \ {0} /\ OrderInv /\ exchange \in [Ids -> Exchanges]
        /\ active.started => active.id # 0
    BY ExchangeFacts DEF RecordStart
  <1>1. /\ nextId \in Ids
        /\ job = 0 /\ pending = 0 /\ pending' = nextId /\ job' = nextId /\ nextId' = nextId + 1
        /\ UNCHANGED <<plan, txn, believed, active, reload, reloads>>
    BY <1>0, BoundsAssumption DEF Offer, Ids, mailbox, pump, client
  <1>2. /\ \A i \in Ids \ {nextId} : exchange'[i] = exchange[i]
        /\ exchange'[nextId].result = "none" /\ ~exchange'[nextId].cancelled
    BY <1>0, <1>1 DEF Offer, NewExchange
  <1>3. OrderInv'
    <2>1. /\ active' = active /\ active.id < nextId /\ active.id \in Nat
          /\ active'.id < pending' /\ active'.id \in Nat
      BY <1>0, <1>1 DEF OrderInv
    <2>2. \A i \in Ids : Untouched(i)' => exchange'[i].result = "none"
      <3> SUFFICES ASSUME NEW i \in Ids, Untouched(i)', i # nextId
                   PROVE  exchange[i].result = "none"
        BY <1>1, <1>2
      <3>1. i \in Nat /\ (i > nextId \/ (active.id # 0 /\ i > active.id))
        BY <1>0, <1>1 DEF Untouched
      <3>2. Untouched(i)
        BY <1>0, <3>1 DEF Untouched
      <3> QED
        BY <1>0, <3>2 DEF OrderInv
    <2>3. active'.id # 0 => active'.id \in Ids \ {nextId}
      BY <1>0, <2>1
    <2>4. active'.id # 0 => /\ exchange'[active'.id] = exchange[active.id]
                            /\ exchange[active.id].result = "none" => exchange[active.id].cancelled
      BY <1>0, <1>1, <1>2, <2>3 DEF OrderInv
    <2> QED
      BY <1>0, <1>1, <1>2, <2>1, <2>2, <2>4 DEF OrderInv
  <1>4. reloads = 0 => CarriesInv'
    <2>1. active.id < nextId /\ active.id \in Nat
      BY <1>0 DEF OrderInv
    <2>2. active.id # nextId
      BY <1>0, <2>1
    <2>3. active.started => exchange'[active.id] = exchange[active.id]
      BY <1>0, <1>2, <2>2
    <2> QED
      BY <1>1, <2>3 DEF RecordStart, CarriesInv
  <1>5. reloads = 0 => RecordInv'
    <2>1. exchange[nextId].result = "none"
      BY <1>0, <1>1 DEF OrderInv, Untouched
    <2> QED
      BY <1>0, <1>1, <1>2, <2>1, RecordKept DEF RecordStart
  <1> QED
    BY <1>1, <1>3, <1>4, <1>5 DEF RecordEnd

(* A success makes the worker's record the target, which is in force; an   *)
(* error leaves both as they were.                                         *)
LEMMA ReturnRecord ==
    ASSUME RecordStart, Return
    PROVE  RecordEnd
  <1>0. /\ job \in OptionalIds /\ \A i \in OptionalIds : i # 0 => i \in Ids
        /\ Ids \subseteq Nat /\ OptionalIds \subseteq Nat /\ nextId \in Nat
        /\ pending \in OptionalIds /\ active.id \in OptionalIds
        /\ OrderInv /\ exchange \in [Ids -> Exchanges]
    BY ExchangeFacts DEF RecordStart
  <1>1. /\ job # 0 /\ job \in Ids /\ exchange[job].result # "none" /\ job' = 0
        /\ believed' = IF exchange[job].result = "ok" THEN exchange[job].target ELSE believed
        /\ UNCHANGED <<plan, txn, pending, exchange, nextId, active, reload, reloads>>
    BY <1>0 DEF Return, mailbox, pump, client
  <1>2. OrderInv'
    <2>1. pending # 0 => exchange[pending].result = "none"
      BY <1>0 DEF OrderInv, Untouched
    <2>2. pending = 0
      BY <1>0, <1>1, <2>1 DEF OrderInv
    <2>3. active.id = job => exchange[active.id].result # "none"
      BY <1>1
    <2>4. \A i \in Ids : Untouched(i)' <=> Untouched(i)
      BY <1>1 DEF Untouched
    <2> QED
      BY <1>0, <1>1, <2>2, <2>3, <2>4 DEF OrderInv
  <1>3. reloads = 0 => CarriesInv'
    BY <1>1 DEF RecordStart, CarriesInv
  <1>4. reloads = 0 => RecordInv'
    <2> SUFFICES ASSUME reloads = 0 PROVE RecordInv'
      OBVIOUS
    <2>0. RecordInv
      BY DEF RecordStart
    <2>1. \A i \in Ids : LastAdopted(i)' <=> LastAdopted(i)
      BY <1>1 DEF LastAdopted
    <2>2. \A i \in Ids : LastAdopted(i)' => plan'.remote = exchange'[i].target
      BY <1>1, <2>0, <2>1 DEF RecordInv
    <2>3. CASE exchange[job].result = "ok"
      <3>1. \A j \in Ids : j > job => exchange[j].result # "ok"
        BY <1>0, <1>1 DEF OrderInv, Untouched
      <3>2. LastAdopted(job)
        BY <2>3, <3>1 DEF LastAdopted
      <3>3. plan'.remote = believed'
        BY <1>1, <2>0, <2>3, <3>2 DEF RecordInv
      <3> QED
        BY <2>2, <3>3 DEF RecordInv
    <2>4. CASE exchange[job].result # "ok"
      <3>1. plan.remote = believed \/ \E i \in Ids : exchange[i].cancelled /\ LastAdopted(i)
        BY <2>0, <2>4 DEF RecordInv
      <3>2. plan'.remote = believed'
              \/ \E i \in Ids : exchange'[i].cancelled /\ LastAdopted(i)'
        BY <1>1, <2>1, <2>4, <3>1
      <3> QED
        BY <2>2, <3>2 DEF RecordInv
    <2> QED
      BY <2>3, <2>4
  <1> QED
    BY <1>1, <1>2, <1>3, <1>4 DEF RecordEnd

(* The worker gives up: if the exchange had succeeded, it is the abandoned *)
(* one that is in force.                                                   *)
LEMMA GiveUpRecord ==
    ASSUME RecordStart, GiveUp
    PROVE  RecordEnd
  <1>0. /\ job \in OptionalIds /\ \A i \in OptionalIds : i # 0 => i \in Ids
        /\ Ids \subseteq Nat /\ OptionalIds \subseteq Nat /\ nextId \in Nat
        /\ pending \in OptionalIds /\ active.id \in OptionalIds /\ 0 \notin Ids
        /\ OrderInv /\ exchange \in [Ids -> Exchanges]
        /\ active.started => active.id \in Ids
    BY ExchangeFacts DEF RecordStart
  <1>1. /\ job # 0 /\ job \in Ids /\ job' = 0
        /\ UNCHANGED <<plan, txn, pending, nextId, believed, active, reload, reloads>>
    BY <1>0 DEF GiveUp, mailbox, pump, client
  <1>2. /\ \A i \in Ids \ {job} : exchange'[i] = exchange[i]
        /\ exchange'[job].cancelled
        /\ exchange'[job].target = exchange[job].target
        /\ exchange'[job].result = exchange[job].result
    BY <1>0, <1>1 DEF GiveUp, Exchanges
  <1>3. \A i \in Ids : /\ exchange'[i].target = exchange[i].target
                       /\ exchange'[i].result = exchange[i].result
                       /\ exchange[i].cancelled => exchange'[i].cancelled
                       /\ ~exchange'[i].cancelled => i # job
    BY <1>2
  <1>4. OrderInv'
    <2>1. pending # 0 => exchange'[pending].cancelled
      BY <1>0, <1>1, <1>2, <1>3 DEF OrderInv
    <2>2. active.id # 0 =>
             /\ \/ exchange'[active.id].result = "none"
                \/ exchange'[active.id].result = "error" /\ active.reversing
             /\ exchange'[active.id].result = "none" => exchange'[active.id].cancelled
      BY <1>0, <1>3 DEF OrderInv
    <2>3. \A i \in Ids : Untouched(i)' <=> Untouched(i)
      BY <1>1 DEF Untouched
    <2> QED
      BY <1>0, <1>1, <1>3, <2>1, <2>2, <2>3 DEF OrderInv
  <1>5. reloads = 0 => CarriesInv'
    BY <1>0, <1>1, <1>3 DEF RecordStart, CarriesInv
  <1>6. reloads = 0 => RecordInv'
    <2> SUFFICES ASSUME reloads = 0 PROVE RecordInv'
      OBVIOUS
    <2>0. RecordInv
      BY DEF RecordStart
    <2>1. \A i \in Ids : LastAdopted(i)' <=> LastAdopted(i)
      BY <1>3 DEF LastAdopted
    <2>2. \A i \in Ids : LastAdopted(i)' => plan'.remote = exchange'[i].target
      BY <1>1, <1>3, <2>0, <2>1 DEF RecordInv
    <2>3. CASE exchange[job].result = "ok"
      <3>1. LastAdopted(job)
        BY <1>0, <1>1, <2>3 DEF OrderInv, Untouched, LastAdopted
      <3> QED
        BY <1>1, <1>2, <2>1, <2>2, <3>1 DEF RecordInv
    <2>4. CASE exchange[job].result # "ok"
      <3>1. plan.remote = believed \/ \E i \in Ids : exchange[i].cancelled /\ LastAdopted(i)
        BY <2>0, <2>4 DEF RecordInv
      <3>2. plan'.remote = believed'
              \/ \E i \in Ids : exchange'[i].cancelled /\ LastAdopted(i)'
        BY <1>1, <1>3, <2>1, <3>1
      <3> QED
        BY <2>2, <3>2 DEF RecordInv
    <2> QED
      BY <2>3, <2>4
  <1> QED
    BY <1>1, <1>4, <1>5, <1>6 DEF RecordEnd

(* The worker's steps keep its record.                                     *)
LEMMA WorkerRecord ==
    ASSUME RecordStart, PhysicalWorker
    PROVE  RecordEnd
  <1>1. CASE TakePreparation \/ Build
    <2>1. job \in Ids /\ \E s \in Stages : SetStage(job, s)
      BY <1>1, ExchangeFacts DEF TakePreparation, Build, Stages
    <2>2. RecordsKept
      BY <2>1, StageSet DEF RecordStart, RecordsKept, ExchangesCarried
    <2>3. UNCHANGED <<job, believed, pending, nextId, plan, txn, active, reload, reloads>>
      BY <1>1 DEF TakePreparation, Build, mailbox, waiting, pump, client
    <2> QED
      BY <2>2, <2>3, NothingMoves DEF ActiveKept, PlansKept
  <1> QED
    BY <1>1, ReturnRecord, GiveUpRecord DEF PhysicalWorker

(* The control task takes the queued exchange or goes on with the active.  *)
LEMMA PumpEnterRecord ==
    ASSUME RecordStart, PumpEnter
    PROVE  RecordEnd
  <1> DEFINE now == IF active.id # 0 THEN active ELSE [NotActive EXCEPT !.id = pending]
             cancelled == exchange[now.id].cancelled
  <1>0. /\ job \in OptionalIds /\ \A i \in OptionalIds : i # 0 => i \in Ids
        /\ Ids \subseteq Nat /\ OptionalIds \subseteq Nat /\ nextId \in Nat
        /\ pending \in OptionalIds /\ active.id \in OptionalIds /\ 0 \notin Ids
        /\ active \in [id : OptionalIds, prepared : BOOLEAN, started : BOOLEAN,
                       reversing : BOOLEAN]
        /\ NotActive.id = 0 /\ ~NotActive.started /\ ~NotActive.reversing
        /\ OrderInv /\ exchange \in [Ids -> Exchanges]
    BY ExchangeFacts DEF RecordStart
  <1>1. /\ active.id # 0 \/ pending # 0
        /\ active' = IF ~cancelled THEN now
                     ELSE IF now.started THEN [now EXCEPT !.reversing = TRUE]
                     ELSE NotActive
        /\ pending' = IF active.id # 0 THEN pending ELSE 0
        /\ UNCHANGED <<mailbox, exchange, waiting, client>>
    BY Zenon DEF PumpEnter
  <1>2. /\ now.id = IF active.id # 0 THEN active.id ELSE pending
        /\ now.started <=> (active.id # 0 /\ active.started)
        /\ now.reversing <=> (active.id # 0 /\ active.reversing)
        /\ [now EXCEPT !.reversing = TRUE].id = now.id
        /\ [now EXCEPT !.reversing = TRUE].reversing
        /\ [now EXCEPT !.reversing = TRUE].started <=> now.started
        /\ now.id \in Ids
    BY <1>0, <1>1 DEF NotActive
  <1> HIDE DEF now, cancelled
  <1>3. UNCHANGED <<txn, plan, job, nextId, believed, reload, reloads, exchange>>
    BY <1>1 DEF mailbox, waiting, client
  \* It is dropped before it began, or is the active one now.
  <1>4. \/ active' = NotActive /\ ~now.started /\ exchange[now.id].cancelled
        \/ /\ active'.id = now.id /\ (active'.started <=> now.started)
           /\ now.reversing => active'.reversing
    BY <1>1, <1>2 DEF cancelled
  <1>5. /\ \/ exchange[now.id].result = "none"
           \/ active.id # 0 /\ exchange[now.id].result = "error" /\ now.reversing
        /\ exchange[now.id].result = "none" /\ ~exchange[now.id].cancelled => job = now.id
    <2>1. CASE active.id # 0
      <3>1. now.id = active.id /\ (active.reversing => now.reversing)
        BY <1>2, <2>1
      <3>2. /\ \/ exchange[active.id].result = "none"
               \/ exchange[active.id].result = "error" /\ active.reversing
            /\ exchange[active.id].result = "none" /\ ~exchange[active.id].cancelled
                   => job = active.id
        BY <1>0, <2>1 DEF OrderInv
      <3> QED
        BY <2>1, <3>1, <3>2
    <2>2. CASE active.id = 0
      <3>1. pending # 0 /\ now.id = pending
        BY <1>1, <1>2, <2>2
      <3>2. exchange[pending].result = "none"
        BY <1>0, <3>1 DEF OrderInv, Untouched
      <3>3. ~exchange[pending].cancelled => job = pending
        BY <1>0, <3>1 DEF OrderInv
      <3> QED
        BY <3>1, <3>2, <3>3
    <2> QED
      BY <2>1, <2>2
  <1>6. OrderInv'
    <2>1. active'.id < nextId' /\ (active'.id = 0 => active' = NotActive)
      BY <1>0, <1>2, <1>3, <1>4 DEF OrderInv
    <2>2. job' # 0 => nextId' = job' + 1 /\ ~exchange'[job'].cancelled
      BY <1>0, <1>3 DEF OrderInv
    <2>3. pending' # 0 => /\ nextId' = pending' + 1 /\ active'.id < pending'
                          /\ job' \in {0, pending'}
                          /\ ~exchange'[pending'].cancelled => job' = pending'
      BY <1>0, <1>1, <1>2, <1>3, <1>4 DEF OrderInv
    <2>4. ASSUME NEW i \in Ids, Untouched(i)' PROVE exchange'[i].result = "none"
      <3>1. Untouched(i)
        BY <1>0, <1>1, <1>2, <1>3, <1>4, <2>4 DEF OrderInv, Untouched
      <3> QED
        BY <1>0, <1>3, <3>1 DEF OrderInv
    <2>5. active'.id # 0 =>
             /\ \/ exchange'[active'.id].result = "none"
                \/ exchange'[active'.id].result = "error" /\ active'.reversing
             /\ exchange'[active'.id].result = "none" /\ ~exchange'[active'.id].cancelled
                    => job' = active'.id
      BY <1>0, <1>3, <1>4, <1>5
    <2> QED
      BY <2>1, <2>2, <2>3, <2>4, <2>5 DEF OrderInv
  <1>7. reloads = 0 => CarriesInv'
    <2>1. /\ active'.started <=> active.started
          /\ active.started => active'.id = active.id
      BY <1>0, <1>2, <1>4 DEF OrderInv
    <2> QED
      BY <1>3, <2>1 DEF RecordStart, CarriesInv
  <1>8. reloads = 0 => RecordInv'
    BY <1>0, <1>3, RecordKept DEF RecordStart, OptionalIds
  <1> QED
    BY <1>3, <1>6, <1>7, <1>8 DEF RecordEnd

(* The active exchange ends: dropped or ended with an error while no       *)
(* transaction is its own, or with a transaction settled or committed.     *)
LEMMA ActiveEnds ==
    ASSUME RecordStart, active.id # 0, NEW r \in {"ok", "error"}, Complete(active.id, r),
           active' = NotActive, UNCHANGED <<pending, job, nextId, believed, reload, reloads>>,
           r = "ok" => ~active.reversing,
           reloads = 0 =>
               /\ txn' = Mailbox!None
               /\ plan'.remote = IF r = "ok" THEN exchange[active.id].target ELSE plan.remote
    PROVE  RecordEnd
  <1>0. /\ job \in OptionalIds /\ \A i \in OptionalIds : i # 0 => i \in Ids
        /\ Ids \subseteq Nat /\ OptionalIds \subseteq Nat /\ nextId \in Nat \ {0}
        /\ pending \in OptionalIds /\ active.id \in OptionalIds /\ 0 \notin Ids
        /\ NotActive.id = 0 /\ ~NotActive.started
        /\ active.id \in Ids /\ OrderInv /\ exchange \in [Ids -> Exchanges]
    BY ExchangeFacts DEF RecordStart
  <1>1. /\ \A i \in Ids : /\ exchange'[i].target = exchange[i].target
                          /\ exchange'[i].cancelled = exchange[i].cancelled
        /\ \A i \in Ids \ {active.id} : exchange'[i].result = exchange[i].result
        /\ exchange'[active.id].result = IF exchange[active.id].result = "none" THEN r
                                         ELSE exchange[active.id].result
    BY <1>0, Completed DEF ExchangesCarried
  <1>2. \/ exchange[active.id].result = "none" /\ exchange'[active.id].result = r
        \/ exchange'[active.id].result = "error" /\ exchange[active.id].result = "error" /\ r = "error"
    BY <1>0, <1>1 DEF OrderInv
  <1>3. OrderInv'
    <2>1. ASSUME NEW i \in Ids, Untouched(i)' PROVE exchange'[i].result = "none"
      <3>1. i # active.id /\ Untouched(i)
        BY <1>0, <2>1 DEF OrderInv, Untouched
      <3> QED
        BY <1>0, <1>1, <3>1 DEF OrderInv
    <2>2. /\ job' # 0 => nextId' = job' + 1 /\ ~exchange'[job'].cancelled
          /\ active'.id < nextId'
      BY <1>0, <1>1 DEF OrderInv
    <2>3. pending' # 0 => /\ nextId' = pending' + 1 /\ active'.id < pending'
                          /\ job' \in {0, pending'}
                          /\ ~exchange'[pending'].cancelled => job' = pending'
      BY <1>0, <1>1 DEF OrderInv
    <2> QED
      BY <1>0, <2>1, <2>2, <2>3 DEF OrderInv
  <1>4. reloads = 0 => CarriesInv'
    BY <1>0 DEF RecordStart, CarriesInv
  <1>5. ASSUME reloads = 0, r = "ok" PROVE RecordInv'
    <2>0. PICK k \in Ids : k = active.id
      BY <1>0
    <2>1. \A j \in Ids : j > k => exchange'[j].result # "ok"
      BY <1>0, <1>1, <2>0 DEF OrderInv, Untouched
    <2>2. exchange'[k].result = "ok" /\ plan'.remote = exchange'[k].target
      <3>1. plan'.remote = exchange[k].target
        BY <1>5, <2>0
      <3>2. r # "error"
        BY <1>5
      <3> QED
        BY <1>1, <1>2, <1>5, <2>0, <3>1, <3>2
    <2>3. LastAdopted(k)'
      BY <2>1, <2>2 DEF LastAdopted
    <2>4. \A i \in Ids : LastAdopted(i)' => i = k
      BY <1>0, <2>1, <2>2 DEF LastAdopted
    <2>5. exchange'[k].cancelled \/ job' = k
      BY <1>0, <1>1, <1>2, <1>5, <2>0 DEF OrderInv
    <2>6. CASE exchange'[k].cancelled
      BY <2>2, <2>3, <2>4, <2>6 DEF RecordInv
    <2>7. CASE job' = k
      <3>1. job' # 0 /\ exchange'[job'].result = "ok"
        BY <1>0, <2>2, <2>7
      <3> QED
        BY <2>2, <2>4, <3>1 DEF RecordInv
    <2> QED
      BY <2>5, <2>6, <2>7
  <1>6. ASSUME reloads = 0, r = "error" PROVE RecordInv'
    <2>1. \A i \in Ids : LastAdopted(i)' <=> LastAdopted(i)
      BY <1>1, <1>2, <1>6 DEF LastAdopted
    <2>2. plan'.remote = plan.remote /\ believed' = believed /\ RecordInv
      BY <1>6 DEF RecordStart
    <2>3. \A i \in Ids : LastAdopted(i)' => plan'.remote = exchange'[i].target
      BY <1>1, <2>1, <2>2 DEF RecordInv
    <2>4. job # 0 /\ exchange[job].result = "ok" => exchange'[job].result = "ok"
      BY <1>0, <1>1, <1>2
    <2> QED
      BY <1>1, <2>1, <2>2, <2>3, <2>4 DEF RecordInv
  <1> QED
    BY <1>3, <1>4, <1>5, <1>6 DEF RecordEnd

(* The control task captures, waits, begins, rejects or finishes.          *)
LEMMA PumpStepRecord ==
    ASSUME RecordStart, PumpStep
    PROVE  RecordEnd
  <1>1. /\ pumping /\ active.id # 0 /\ active.id \in Ids
        /\ UNCHANGED <<pending, job, nextId, believed, reload, reloads>>
    BY DEF RecordStart, ControlTyped, OptionalIds, PumpStep, PumpCapture, PumpWait, PumpBegin,
           PumpReject, PumpFinish, waiting, client
  <1>2. /\ exchange \in [Ids -> Exchanges] /\ OrderInv /\ MailboxTyped
        /\ active \in [id : OptionalIds, prepared : BOOLEAN, started : BOOLEAN,
                       reversing : BOOLEAN]
        /\ reloads = 0 => CarriesInv /\ RecordInv
    BY DEF RecordStart, ControlTyped
  <1>3. UNCHANGED mailbox => PlansKept /\ plan' = plan
    BY DEF mailbox, PlansKept
  <1>4. CASE PumpCapture
    <2>1. UNCHANGED mailbox /\ ~active.prepared
      BY <1>4 DEF PumpCapture
    <2>2. CASE UNCHANGED <<exchange, active>>
      BY <1>1, <1>3, <2>1, <2>2, NothingMoves DEF RecordsKept, ActiveKept
    <2>3. CASE /\ exchange' = [exchange EXCEPT ![active.id].token = Capture]
               /\ active' = [active EXCEPT !.prepared = TRUE]
      <3>1. RecordsKept
        BY <1>1, <1>2, <2>3 DEF RecordsKept, Exchanges
      <3>2. ActiveKept
        BY <1>1, <1>2, <2>3 DEF ActiveKept
      <3> QED
        BY <1>1, <1>3, <2>1, <3>1, <3>2, NothingMoves
    <2>4. CASE txn = Mailbox!None /\ Complete(active.id, "error") /\ active' = NotActive
      BY <1>1, <2>1, <2>4, ActiveEnds DEF mailbox
    <2> QED
      BY <1>4, <2>2, <2>3, <2>4, Zenon DEF PumpCapture
  <1>5. CASE PumpWait
    <2>1. UNCHANGED <<mailbox, exchange, active>>
      BY <1>5 DEF PumpWait
    <2> QED
      BY <1>1, <1>3, <2>1, NothingMoves DEF RecordsKept, ActiveKept
  <1>6. CASE PumpBegin
    <2> DEFINE e == exchange[active.id]
               candidate == [e.token.previous EXCEPT !.remote = e.target]
    <2>1. SetStage(active.id, "none") /\ ~active.started
      BY <1>6 DEF PumpBegin
    <2>2. RecordsKept
      BY <1>1, <1>2, <2>1, StageSet DEF RecordsKept, ExchangesCarried, Stages
    <2>3. CASE UNCHANGED mailbox /\ active' = [active EXCEPT !.prepared = FALSE]
      <3>1. ActiveKept
        BY <1>1, <1>2, <2>3 DEF ActiveKept
      <3> QED
        BY <1>1, <1>3, <2>2, <2>3, <3>1, NothingMoves
    <2>4. CASE Mailbox!Begin(candidate) /\ active' = [active EXCEPT !.started = TRUE]
      <3>1. e.token.previous \in Plans /\ e.target \in Targets
        BY <1>1, <1>2 DEF Exchanges, Tokens
      <3>2. candidate \in Plans /\ candidate.remote = e.target
        BY <3>1 DEF Plans
      <3>3. /\ active'.id = active.id /\ active'.started
            /\ active'.reversing = active.reversing
        BY <1>2, <2>4
      <3> HIDE DEF candidate
      <3>4. /\ txn' # Mailbox!None /\ txn'.plan.remote = exchange[active.id].target
            /\ txn'.previous = plan /\ plan' = plan
        BY <1>2, <2>4, <3>2, BeginFacts
      <3>5. OrderInv'
        BY <1>1, <1>2, <2>2, <3>3, ExchangeFacts DEF OrderInv, Untouched, RecordsKept
      <3>6. reloads = 0 => CarriesInv'
        BY <1>1, <1>2, <2>2, <3>3, <3>4 DEF CarriesInv, RecordsKept
      <3>7. reloads = 0 => RecordInv'
        BY <1>1, <1>2, <2>2, <3>4, ExchangeFacts, RecordKept DEF RecordsKept, OptionalIds
      <3> QED
        BY <1>1, <3>5, <3>6, <3>7 DEF RecordEnd
    <2> QED
      BY <1>6, <2>3, <2>4, Zenon DEF PumpBegin
  <1>7. CASE PumpReject
    <2>1. /\ Complete(active.id, "error") /\ active' = NotActive /\ ~active.started
          /\ UNCHANGED <<plan, txn>>
      BY <1>7 DEF PumpReject, mailbox
    <2>2. reloads = 0 => txn' = Mailbox!None
      BY <1>2, <2>1 DEF CarriesInv
    <2> QED
      BY <1>1, <2>1, <2>2, ActiveEnds
  <1>8. CASE PumpFinish
    <2>1. active.started
      BY <1>8 DEF PumpFinish
    <2>2. PICK answer \in {"ok", "pending", "error"} :
              /\ FinishUpdate(~active.reversing, answer)
              /\ CASE answer = "ok" ->
                          /\ Complete(active.id, IF active.reversing THEN "error" ELSE "ok")
                          /\ active' = NotActive
                   [] answer = "pending" -> UNCHANGED <<exchange, active>>
                   [] answer = "error" ->
                          /\ Complete(active.id, "error")
                          /\ active' = [active EXCEPT !.reversing = TRUE]
      BY <1>8, Zenon DEF PumpFinish
    <2>3. CASE answer = "pending"
      <3>1. UNCHANGED <<exchange, active>> /\ (UNCHANGED mailbox \/ Mailbox!Reverse)
        BY <2>2, <2>3 DEF FinishUpdate
      <3>2. PlansKept /\ plan' = plan
        BY <1>2, <1>3, <3>1, ReverseFacts DEF PlansKept
      <3> QED
        BY <1>1, <3>1, <3>2, NothingMoves DEF RecordsKept, ActiveKept
    \* The error stays, and the exchange goes on to its way back.
    <2>4. CASE answer = "error"
      <3>1. /\ Complete(active.id, "error") /\ active' = [active EXCEPT !.reversing = TRUE]
            /\ UNCHANGED mailbox
        BY <2>2, <2>4 DEF FinishUpdate
      <3>2. /\ active'.id = active.id /\ active'.started = active.started /\ active'.reversing
            /\ UNCHANGED <<plan, txn>>
        BY <1>2, <3>1 DEF mailbox
      <3>3. /\ \A i \in Ids : /\ exchange'[i].target = exchange[i].target
                              /\ exchange'[i].cancelled = exchange[i].cancelled
            /\ \A i \in Ids \ {active.id} : exchange'[i].result = exchange[i].result
            /\ exchange'[active.id].result = "error" /\ exchange[active.id].result # "ok"
        BY <1>1, <1>2, <3>1, Completed DEF ExchangesCarried, OrderInv
      <3>4. OrderInv'
        <4>1. ASSUME NEW i \in Ids, Untouched(i)' PROVE exchange'[i].result = "none"
          <5>1. Untouched(i) /\ i # active.id
            BY <1>1, <1>2, <3>2, <4>1, ExchangeFacts DEF OrderInv, Untouched
          <5> QED
            BY <1>2, <3>3, <5>1 DEF OrderInv
        <4> QED
          BY <1>1, <1>2, <3>2, <3>3, <4>1, ExchangeFacts DEF OrderInv
      <3>5. reloads = 0 => CarriesInv'
        BY <1>1, <1>2, <3>2, <3>3 DEF CarriesInv
      <3>6. reloads = 0 => RecordInv'
        BY <1>1, <1>2, <3>2, <3>3, ExchangeFacts, RecordKept DEF OptionalIds
      <3> QED
        BY <1>1, <3>4, <3>5, <3>6 DEF RecordEnd
    <2>5. CASE answer = "ok"
      <3>1. PICK r \in {"ok", "error"} : /\ Complete(active.id, r)
                                         /\ r = IF active.reversing THEN "error" ELSE "ok"
        BY <2>2, <2>5
      <3>2. active' = NotActive
        BY <2>2, <2>5
      <3>3. ASSUME reloads = 0
            PROVE  /\ txn' = Mailbox!None
                   /\ plan'.remote = IF r = "ok" THEN exchange[active.id].target
                                     ELSE plan.remote
        <4>1. /\ txn # Mailbox!None /\ txn.plan.remote = exchange[active.id].target
              /\ plan = txn.previous
          BY <1>2, <2>1, <3>3 DEF CarriesInv
        <4>2. \/ Mailbox!Commit /\ ~active.reversing
              \/ Mailbox!Settle /\ active.reversing
          <5>1. /\ (~active.reversing) \in BOOLEAN
                /\ FinishUpdate(~active.reversing, "ok")
            BY <2>2, <2>5, Zenon
          <5>2. \/ ~active.reversing /\ Mailbox!Commit
                \/ ~~active.reversing /\ Mailbox!Settle
            BY <4>1, <5>1, FinishEnds, Zenon
          <5> QED
            BY <5>2, Zenon
        <4> QED
          BY <3>1, <4>1, <4>2 DEF Mailbox!Commit, Mailbox!Settle, Mailbox!End
      <3>4. r = "ok" => ~active.reversing
        BY <3>1
      <3> QED
        BY <1>1, <3>1, <3>2, <3>3, <3>4, ActiveEnds
    <2> QED
      BY <2>3, <2>4, <2>5
  <1> QED
    BY <1>4, <1>5, <1>6, <1>7, <1>8 DEF PumpStep

(* The reload: its first step ends the claim.                              *)
LEMMA ReloadRecord ==
    ASSUME RecordStart, ReloadStep \/ (\E f \in Files : ReloadPrepare(f))
    PROVE  RecordEnd
  <1>1. UNCHANGED <<pending, exchange, job, nextId, believed, active>>
    BY DEF ReloadStep, ReloadPrepare, ReloadBuilt, ReloadActivate, ReloadAccept, ReloadAbort,
           ReloadFinish, waiting, pump
  <1>2. OrderInv'
    BY <1>1 DEF RecordStart, OrderInv, Untouched
  <1>3. reloads' # 0
    <2>1. CASE ReloadStep
      <3>1. reload.phase # "idle" /\ reloads' = reloads
        BY <2>1 DEF ReloadStep, ReloadBuilt, ReloadActivate, ReloadAccept, ReloadAbort,
                    ReloadFinish, ReloadMay
      <3> QED
        BY <3>1 DEF RecordStart, CarriesInv
    <2>2. CASE \E f \in Files : ReloadPrepare(f)
      BY <2>2 DEF ReloadPrepare, RecordStart, ControlTyped
    <2> QED
      BY <2>1, <2>2
  <1> QED
    BY <1>2, <1>3 DEF RecordEnd

(* Every step keeps the invariant of the exchange.                         *)
LEMMA DspStep ==
    ASSUME DspInv, [ExchangeNext]_exchangeVars
    PROVE  DspInv'
  <1>1. RecordStart
    BY Starting
  <1>2. ASSUME Callbacks \/ DropOwner \/ UNCHANGED exchangeVars PROVE RecordEnd
    <2>1. UNCHANGED <<pending, exchange, job, nextId, believed, active, reload, reloads,
                      plan, txn>>
      BY <1>2 DEF Callbacks, DropOwner, exchangeVars, waiting, pump, client, mailbox, Mailbox!Answer
    <2> QED
      BY <1>1, <2>1, NothingMoves DEF RecordsKept, ActiveKept, PlansKept
  <1>3. RecordEnd
    BY <1>1, <1>2, OfferRecord, WorkerRecord, PumpEnterRecord, PumpStepRecord, ReloadRecord
    DEF ExchangeNext
  <1> QED
    BY <1>3, PartsStep DEF DspInv, RecordEnd

-----------------------------------------------------------------------------
(* The invariant and what follows from it.                                 *)

(* At boot the invariant of the exchange holds.                            *)
LEMMA DspInitInv == ExchangeInit => DspInv
  <1> SUFFICES ASSUME ExchangeInit PROVE DspInv
    OBVIOUS
  <1>1. DspPartsInv
    BY PartsInit
  <1>2. /\ pending = 0 /\ job = 0 /\ nextId = 1 /\ believed = BootTarget
        /\ active = NotActive /\ reload.phase = "idle"
        /\ plan = BootPlan /\ txn = Mailbox!None
    BY DEF ExchangeInit, NoReload, Mailbox!Init
  <1>3. /\ NotActive.id = 0 /\ ~NotActive.started /\ BootPlan.remote = BootTarget
        /\ \A i \in Ids : exchange[i].result = "none"
    BY DEF ExchangeInit, NewExchange, NotActive, BootPlan
  <1> QED
    BY <1>1, <1>2, <1>3 DEF DspInv, OrderInv, CarriesInv, RecordInv, LastAdopted

(* The exchange's invariant, for every set of operating states and         *)
(* settings and any number of exchanges and reloads (RemoteDspPort,        *)
(* RemoteDspControl): snapshots of the present revision hold the plan in   *)
(* force, transactions change one part, exchanges keep their order, and    *)
(* without a reload the mailbox carries the active one and the DSP runs    *)
(* the last one that succeeded, whether or not its worker still waited.    *)
THEOREM ExchangeInvariant == ExchangeSpec => []DspInv
  <1>1. DspInv /\ [ExchangeNext]_exchangeVars => DspInv'
    BY DspStep
  <1> QED
    BY <1>1, DspInitInv, PTL DEF ExchangeSpec

(* As long as no reload has come to the mailbox, the operating state that  *)
(* apply_state leaves in self.current is the one the DSP runs, or else the *)
(* last success was an exchange apply() had abandoned: no refusal, error,  *)
(* timeout or reversal makes the record wrong in any other way.            *)
THEOREM RecordAlwaysFollows == ExchangeSpec => []RecordFollowsDsp
  <1>1. DspInv => RecordFollowsDsp
    BY DEF DspInv, RecordInv, RecordFollowsDsp, Settled
  <1> QED
    BY <1>1, ExchangeInvariant, PTL

(* No step of the exchange or of a reload changes both the file's and the  *)
(* remote base's part of the plan (retain_remote_operating).               *)
THEOREM OwnPartOnly == ExchangeSpec => EachClientChangesItsOwnPart
  <1>1. DspInv /\ [ExchangeNext]_exchangeVars => [plan'.file = plan.file \/ plan'.remote = plan.remote]_exchangeVars
    <2> SUFFICES ASSUME DspInv, [ExchangeNext]_exchangeVars
                 PROVE  plan'.file = plan.file \/ plan'.remote = plan.remote
      OBVIOUS
    <2> QED
      BY PartsStep DEF DspInv, OnePart
  <1> QED
    BY <1>1, ExchangeInvariant, PTL DEF ExchangeSpec, EachClientChangesItsOwnPart

-----------------------------------------------------------------------------
(* The processing handoff: its types                                       *)

MaybeMaker == Makers \union {NoOne}

GraphStages == [primary : Makers, current : MaybeMaker, pending : MaybeMaker,
                chosen : MaybeMaker, prime : 0 .. Prime, faded : 0 .. Fade,
                complete : BOOLEAN]

DenoiseStages == [stream : MaybeMaker, activation : Nat \union {NoOne}]

DenoiseStreams == [input : 0 .. FrameUnits - 1, output : 0 .. FrameUnits, primed : BOOLEAN,
                   active : BOOLEAN, failed : BOOLEAN, gap : BOOLEAN]

ProcessingTyped ==
    /\ inForce \in Generations /\ runs \in Generations
    /\ change \in [step : {"idle", "forward", "ready", "begun", "reversing"},
                   forward : Generations \union {NoOne}, reverse : Generations \union {NoOne}]
    /\ change.step # "idle" => change.forward \in Generations
    /\ change.step \in {"ready", "begun", "reversing"} => change.reverse \in Generations
    /\ made \in 0 .. MaxChanges
    /\ stages \in [Makers -> GraphStages]
    /\ audible \in Makers
    /\ denoisers \in [Makers -> DenoiseStages]
    /\ streams \in [Makers -> DenoiseStreams]
    /\ meters \in [Makers -> Makers]
    /\ ran \in [Makers -> 0 .. Prime + 1]
    /\ out.last \subseteq Makers
    /\ noise.stream \in MaybeMaker
    /\ measured \in [Makers -> SUBSET ProcessingPlans]

\* Where the callback is in the update.
AnswerInv ==
    \/ change.step \in {"idle", "forward", "ready"} /\ offered = "none" /\ runs = inForce
    \/ /\ change.step = "begun"
       /\ \/ offered = "forward" /\ answered = 0 /\ runs = inForce
          \/ offered = "none" /\ answered = 1 /\ runs = change.forward
          \/ offered = "none" /\ answered = -1 /\ runs = inForce
    \/ /\ change.step = "reversing"
       /\ \/ offered = "reverse" /\ answered = 0 /\ runs \in {inForce, change.forward}
          \/ offered = "none" /\ answered = 1 /\ runs = change.reverse
          \/ offered = "none" /\ answered = -1 /\ runs \in {inForce, change.forward}

\* The generations of the update under way.
Undone == change.step # "idle"
Reversible == change.step \in {"ready", "begun", "reversing"}
ForwardAwaits == change.step \in {"forward", "ready"} \/ offered = "forward"
ReverseAwaits == change.step \in {"ready", "begun"} \/ offered = "reverse"

\* What a generation is named for came before the update.
Older(g, id) == g.graph <= id /\ g.denoise <= id /\ g.meter <= id

Matches(g) == g.denoise = NoOne <=> ~g.plan.denoise

ForwardInv(i, f, id) ==
    /\ Matches(f)
    /\ f.graph = IF f.plan.dynamics = i.plan.dynamics THEN i.graph ELSE id
    /\ f.denoise \in {NoOne, IF i.denoise # NoOne THEN i.denoise ELSE id}
    /\ f.meter = IF SamePath(f, i) THEN i.meter ELSE id

ReverseInv(i, f, r, id) ==
    /\ r.plan = i.plan
    /\ r.graph = IF f.graph = i.graph THEN i.graph ELSE id
    /\ r.denoise = IF i.denoise # NoOne /\ f.denoise = NoOne THEN id ELSE i.denoise
    /\ r.meter = IF SamePath(r, f) THEN f.meter ELSE id

GenerationInv ==
    /\ Matches(inForce)
    /\ Older(inForce, 2 * made)
    /\ Undone => /\ made > 0 /\ Older(inForce, 2 * made - 2)
                 /\ ForwardInv(inForce, change.forward, 2 * made - 1)
    /\ Reversible => ReverseInv(inForce, change.forward, change.reverse, 2 * made)

Live == {inForce} \union (IF Undone THEN {change.forward} ELSE {})
                  \union (IF Reversible THEN {change.reverse} ELSE {})

\* A stage the callback runs, when graph a is audible and the stage's own graph
\* has run for so many units.
Sounding(s, a, units) ==
    IF s.complete THEN s.primary = a
    ELSE /\ a \in Leases(s) /\ s.chosen \in {NoOne, a}
         /\ units + s.prime >= Prime
         /\ s.faded < Fade
         /\ s.faded > 0 => units > Prime /\ s.prime = 0

\* A stage the callback may be given, whichever of the graphs is audible then.
Waits(s, graphs) ==
    /\ ~s.complete /\ s.chosen = NoOne /\ s.prime = Prime /\ s.faded = 0
    /\ graphs \subseteq Leases(s)

GraphInv ==
    /\ audible \in out.last /\ GraphsJoin
    /\ Sounding(stages[runs.graph], audible, ran[stages[runs.graph].primary])
    /\ stages[inForce.graph].primary <= IF Undone THEN 2 * made - 2 ELSE 2 * made
    /\ Undone /\ change.forward.graph # inForce.graph =>
          /\ stages[change.forward.graph].primary = change.forward.graph
          /\ ForwardAwaits => Waits(stages[change.forward.graph],
                                    {audible, stages[inForce.graph].primary})
    /\ Reversible /\ change.forward.graph # inForce.graph =>
          /\ stages[change.reverse.graph].primary = stages[inForce.graph].primary
          /\ ReverseAwaits => Waits(stages[change.reverse.graph],
                                    {audible, stages[inForce.graph].primary,
                                     change.forward.graph})

MeterInv ==
    /\ \A g \in Live : meters[g.meter] = g.graph /\ measured[g.meter] \subseteq {g.plan}
    /\ \A m \in Makers :
          m > (IF change.step = "forward" THEN 2 * made - 1 ELSE 2 * made) => measured[m] = {}

\* A stream that is not active holds nothing.
Rested(s) == s.active \/ s = IdleStream

\* A stream since the activation of its bridge.
Bridged(s, units) ==
    \/ s.failed
    \/ ~s.primed /\ s.output = 0 /\ units <= s.input
    \/ s.primed /\ s.output = 0 /\ units <= FrameUnits + s.input
    \/ s.primed /\ s.output = FrameUnits - s.input

Reducing(s, activation) ==
    activation # 0 => ~s.gap /\ (activation # NoOne => Bridged(s, activation))

NoiseInv ==
    /\ NoiseJoins
    /\ \A m \in Makers : Rested(streams[m])
    /\ \A g \in Live : g.denoise # NoOne => denoisers[g.denoise].stream # NoOne
    /\ runs.denoise # NoOne =>
          Reducing(streams[denoisers[runs.denoise].stream], denoisers[runs.denoise].activation)
    /\ Undone /\ ForwardAwaits /\ change.forward.denoise \notin {NoOne, inForce.denoise} =>
          denoisers[change.forward.denoise].activation = 0
    /\ Reversible /\ ReverseAwaits /\ change.reverse.denoise \notin {NoOne, inForce.denoise} =>
          denoisers[change.reverse.denoise].activation = 0

ProcessingInv ==
    ProcessingTyped /\ AnswerInv /\ GenerationInv /\ GraphInv /\ MeterInv /\ NoiseInv

-----------------------------------------------------------------------------
(* The streams of the noise reduction.                                     *)

\* f is the stream s after each of its first m units.
Chain(f, s, m) == f = [k \in 0 .. m |-> IF k = 0 THEN s ELSE StreamUnit(f[k - 1])]

(* A stream can be run for any number of units.                            *)
LEMMA ChainExists == ASSUME NEW s, NEW n \in Nat PROVE \E f : Chain(f, s, n)
<1> DEFINE T == {m \in Nat : ~ \E f : Chain(f, s, m)}
<1> SUFFICES ASSUME T # {} PROVE FALSE
  OBVIOUS
<1>1. \E m \in T : \A j \in T : ~ (<<j, m>> \in OpToRel(<, Nat))
  BY NatLessThanWellFounded, WFMin
<1>2. PICK m \in T : \A j \in T : ~ (<<j, m>> \in OpToRel(<, Nat))
  BY <1>1
<1>3. CASE m = 0
  <2> DEFINE f == [k \in 0 .. 0 |-> s]
  <2>1. f = [k \in 0 .. 0 |-> IF k = 0 THEN s ELSE StreamUnit(f[k - 1])]
    OBVIOUS
  <2>2. Chain(f, s, 0)
    BY <2>1 DEF Chain
  <2> QED
    BY <1>2, <1>3, <2>2
<1>4. CASE m # 0
  <2>1. m - 1 \in Nat /\ m \in Nat /\ m - 1 < m
    BY <1>4
  <2>2. m - 1 \notin T
    BY <1>2, <2>1 DEF OpToRel
  <2>3. PICK f : Chain(f, s, m - 1)
    BY <2>1, <2>2
  <2> DEFINE g == [k \in 0 .. m |-> IF k = m THEN StreamUnit(f[m - 1]) ELSE f[k]]
  <2>4. f = [k \in 0 .. m - 1 |-> IF k = 0 THEN s ELSE StreamUnit(f[k - 1])]
    BY <2>3 DEF Chain
  <2>5. ASSUME NEW k \in 0 .. m
        PROVE  g[k] = IF k = 0 THEN s ELSE StreamUnit(g[k - 1])
    <3>1. CASE k = 0
      <4>1. f[0] = s
        BY <2>1, <2>4
      <4> QED
        BY <1>4, <3>1, <4>1
    <3>2. CASE k = m
      <4>1. k - 1 \in 0 .. m /\ k - 1 # m
        BY <2>1, <3>2
      <4>2. g[k - 1] = f[k - 1]
        BY <4>1
      <4> QED
        BY <1>4, <3>2, <4>2
    <3>3. CASE k # 0 /\ k # m
      <4>1. k \in 0 .. m - 1 /\ k - 1 \in 0 .. m /\ k - 1 # m
        BY <2>1, <3>3
      <4>2. g[k] = f[k] /\ g[k - 1] = f[k - 1]
        BY <3>3, <4>1
      <4>3. f[k] = StreamUnit(f[k - 1])
        BY <2>4, <3>3, <4>1, Zenon
      <4> QED
        BY <3>3, <4>2, <4>3
    <3> QED
      BY <3>1, <3>2, <3>3
  <2>6. g = [k \in 0 .. m |-> IF k = 0 THEN s ELSE StreamUnit(g[k - 1])]
    BY <2>5
  <2>7. Chain(g, s, m)
    BY <2>6 DEF Chain
  <2> QED
    BY <1>2, <2>7
<1> QED
  BY <1>3, <1>4

(* StreamAfter runs the stream unit by unit.                               *)
LEMMA StreamAfterFacts ==
    ASSUME NEW s, NEW n \in Nat
    PROVE  /\ StreamAfter(s, n)[0] = s
           /\ \A k \in 1 .. n : StreamAfter(s, n)[k] = StreamUnit(StreamAfter(s, n)[k - 1])
<1>1. StreamAfter(s, n) = CHOOSE f : Chain(f, s, n)
  BY Zenon DEF StreamAfter, Chain
<1>2. Chain(StreamAfter(s, n), s, n)
  BY <1>1, ChainExists, Zenon
<1> DEFINE f == StreamAfter(s, n)
<1>3. f = [k \in 0 .. n |-> IF k = 0 THEN s ELSE StreamUnit(f[k - 1])]
  BY <1>2 DEF Chain
<1>4. f[0] = s
  BY <1>3
<1>5. ASSUME NEW k \in 1 .. n
      PROVE  f[k] = StreamUnit(f[k - 1])
  <2>1. k \in 0 .. n /\ k # 0
    OBVIOUS
  <2> QED
    BY <1>3, <2>1, Zenon
<1> QED
  BY <1>4, <1>5

(* One unit keeps a stream's frame and its distance from its bridge.       *)
LEMMA StreamUnitFacts ==
    ASSUME NEW s \in DenoiseStreams
    PROVE  /\ StreamUnit(s) \in DenoiseStreams
           /\ StreamUnit(s).active /\ StreamUnit(s).gap = s.gap
           /\ \A units \in Nat : Bridged(s, units) => Bridged(StreamUnit(s), units + 1)
<1> DEFINE full   == s.input + 1 = FrameUnits
           primed == s.primed \/ full
           failed == s.failed /\ ~(full /\ s.primed)
           input  == IF full THEN 0 ELSE s.input + 1
           output == IF full /\ s.primed THEN FrameUnits
                     ELSE IF s.output > 0 THEN s.output - 1 ELSE 0
           t == StreamUnit(s)
           Unit(i, o, p, f) == [s EXCEPT !.active = TRUE, !.input = i, !.output = o,
                                         !.primed = p, !.failed = f]
<1>0. /\ s.input \in 0 .. FrameUnits - 1 /\ s.output \in 0 .. FrameUnits
      /\ s.primed \in BOOLEAN /\ s.failed \in BOOLEAN /\ s.gap \in BOOLEAN
      /\ FrameUnits \in Nat \ {0}
  BY ProcessingAssumption DEF DenoiseStreams
<1>1. t = Unit(input, output, primed, failed)
  BY Zenon DEF StreamUnit
<1>2. input \in 0 .. FrameUnits - 1 /\ output \in 0 .. FrameUnits
  BY <1>0
<1>3. primed \in BOOLEAN /\ failed \in BOOLEAN
  BY <1>0
<1>4. ASSUME NEW i \in 0 .. FrameUnits - 1, NEW o \in 0 .. FrameUnits,
             NEW p \in BOOLEAN, NEW f \in BOOLEAN
      PROVE  LET u == Unit(i, o, p, f)
             IN  /\ u \in DenoiseStreams /\ u.active /\ u.gap = s.gap
                 /\ u.input = i /\ u.output = o /\ u.primed = p /\ u.failed = f
  BY DEF DenoiseStreams
<1>5. /\ t \in DenoiseStreams /\ t.active /\ t.gap = s.gap
      /\ t.input = input /\ t.output = output /\ t.primed = primed /\ t.failed = failed
  <2> HIDE DEF full, primed, failed, input, output, t, Unit
  <2>1. PICK p \in BOOLEAN, f \in BOOLEAN : p = primed /\ f = failed
    BY <1>3
  <2>2. t = Unit(input, output, p, f)
    BY <1>1, <2>1, Zenon
  <2>3. /\ t \in DenoiseStreams /\ t.active /\ t.gap = s.gap
        /\ t.input = input /\ t.output = output /\ t.primed = p /\ t.failed = f
    BY <1>2, <1>4, <2>2
  <2> QED
    BY <2>1, <2>3, Zenon
<1>6. ASSUME NEW units \in Nat, Bridged(s, units)
      PROVE  Bridged(t, units + 1)
  <2>1. CASE s.failed
    <3>1. CASE full /\ s.primed
      <4>1. t.primed /\ t.output = FrameUnits /\ t.input = 0
        BY <1>5, <3>1
      <4> QED
        BY <1>0, <4>1 DEF Bridged
    <3>2. CASE ~(full /\ s.primed)
      <4>1. t.failed
        BY <1>5, <2>1, <3>2
      <4> QED
        BY <4>1 DEF Bridged
    <3> QED
      BY <3>1, <3>2
  <2>2. CASE ~s.primed /\ s.output = 0 /\ units <= s.input
    <3>1. t.primed <=> full
      BY <1>5, <2>2, Zenon
    <3>2. t.output = 0 /\ t.input = input
      BY <1>5, <2>2
    <3> QED
      BY <1>0, <2>2, <3>1, <3>2 DEF Bridged
  <2>3. CASE s.primed /\ s.output = 0 /\ units <= FrameUnits + s.input
    <3>1. t.output = output /\ t.primed /\ t.input = input
      BY <1>5, <2>3
    <3> QED
      BY <1>0, <2>3, <3>1 DEF Bridged
  <2>4. CASE s.primed /\ s.output = FrameUnits - s.input
    <3>1. t.output = output /\ t.primed /\ t.input = input
      BY <1>5, <2>4
    <3> QED
      BY <1>0, <2>4, <3>1 DEF Bridged
  <2> QED
    BY <1>6, <2>1, <2>2, <2>3, <2>4 DEF Bridged
<1> QED
  BY <1>5, <1>6

(* So does any number of them.                                             *)
LEMMA StreamFacts ==
    ASSUME NEW s \in DenoiseStreams, NEW n \in Nat, NEW units \in Nat
    PROVE  \A k \in 0 .. n :
             LET t == StreamAfter(s, n)[k]
             IN  /\ t \in DenoiseStreams /\ t.gap = s.gap
                 /\ k > 0 => t.active
                 /\ Bridged(s, units) => Bridged(t, units + k)
<1> DEFINE after == StreamAfter(s, n)
           Held(t, k) == /\ t \in DenoiseStreams /\ t.gap = s.gap
                         /\ k > 0 => t.active
                         /\ Bridged(s, units) => Bridged(t, units + k)
           T == {k \in 0 .. n : ~ Held(after[k], k)}
<1>0. /\ after[0] = s
      /\ \A k \in 1 .. n : after[k] = StreamUnit(after[k - 1])
  BY StreamAfterFacts
<1>1. Held(s, 0)
  OBVIOUS
<1>2. ASSUME NEW k \in 1 .. n, NEW t, Held(t, k - 1)
      PROVE  Held(StreamUnit(t), k)
  <2>1. /\ StreamUnit(t) \in DenoiseStreams
        /\ StreamUnit(t).active /\ StreamUnit(t).gap = t.gap
        /\ \A j \in Nat : Bridged(t, j) => Bridged(StreamUnit(t), j + 1)
    BY <1>2, StreamUnitFacts
  <2>2. units + (k - 1) \in Nat /\ (units + (k - 1)) + 1 = units + k
    OBVIOUS
  <2>3. Bridged(t, units + (k - 1)) => Bridged(StreamUnit(t), units + k)
    BY <2>1, <2>2
  <2> QED
    BY <1>2, <2>1, <2>3
<1>3. ASSUME T # {} PROVE FALSE
  <2>1. T \subseteq Nat
    OBVIOUS
  <2>2. \E m \in T : \A j \in T : ~ (<<j, m>> \in OpToRel(<, Nat))
    BY <1>3, <2>1, NatLessThanWellFounded, WFMin
  <2>3. PICK m \in T : \A j \in T : ~ (<<j, m>> \in OpToRel(<, Nat))
    BY <2>2
  <2>4. m \in 0 .. n /\ ~ Held(after[m], m)
    BY <2>3
  <2> HIDE DEF Held
  <2>5. m # 0
    BY <1>0, <1>1, <2>4
  <2>6. m - 1 \in 0 .. n /\ m - 1 < m /\ m \in 1 .. n /\ m \in Nat /\ m - 1 \in Nat
    BY <2>4, <2>5
  <2>7. m - 1 \notin T
    BY <2>3, <2>6 DEF OpToRel
  <2>8. Held(after[m - 1], m - 1)
    BY <2>6, <2>7
  <2>9. Held(StreamUnit(after[m - 1]), m)
    BY <1>2, <2>6, <2>8
  <2>10. after[m] = StreamUnit(after[m - 1])
    BY <1>0, <2>6
  <2> QED
    BY <2>4, <2>9, <2>10
<1> QED
  BY <1>3

-----------------------------------------------------------------------------
(* The stages of the graphs.                                               *)

\* The graph audible after a block, and how long a graph has run by then.
AudibleAfter(block) == IF block.stage.complete THEN block.stage.primary ELSE audible
RanAfter(block, g, n) == IF g \in block.graphs THEN Least(Prime + 1, ran[g] + n) ELSE 0

\* What the callback's stage and what was heard last agree on.
HeardInv(s) ==
    /\ audible \in out.last /\ \A g \in out.last : ran[g] > Prime
    /\ Sounding(s, audible, ran[s.primary])

(* A stage that runs its own graph alone runs the audible one.             *)
LEMMA AloneBlock ==
    ASSUME ProcessingTyped, NEW s \in GraphStages, HeardInv(s), Alone(s),
           NEW n \in 1 .. MaxBlock
    PROVE  LET r == Processed(s, n)
           IN  /\ s.primary = audible
               /\ r.first = audible /\ r.last = {audible} /\ r.graphs = {audible}
               /\ r.stage \in GraphStages /\ r.stage.complete
               /\ r.stage.primary = s.primary
<1> DEFINE t == [s EXCEPT !.complete = TRUE]
<1>1. s.primary = audible
  BY DEF HeardInv, Sounding, Alone
<1>2. Processed(s, n) = [stage |-> t, first |-> s.primary,
                         last |-> {s.primary}, graphs |-> {s.primary}]
  BY Zenon DEF Processed
<1>3. t \in GraphStages /\ t.complete /\ t.primary = s.primary
  BY DEF GraphStages
<1> HIDE DEF t
<1> QED
  BY <1>1, <1>2, <1>3

(* A stage in its priming or its fade begins a block with the audible      *)
(* graph, and lets its own be heard once that is primed.                   *)
LEMMA FadingBlock ==
    ASSUME ProcessingTyped, NEW s \in GraphStages, HeardInv(s), ~Alone(s),
           NEW n \in 1 .. MaxBlock
    PROVE  LET r == Processed(s, n)
           IN  /\ r.first = audible /\ r.last \subseteq {audible, s.primary}
               /\ r.graphs = {audible, s.primary}
               /\ r.stage \in GraphStages /\ r.stage.primary = s.primary
               /\ r.stage.current = s.current /\ r.stage.pending = s.pending
               /\ r.stage.chosen = audible
               /\ r.stage.complete <=> r.stage.faded = Fade
               /\ r.stage.complete => r.last = {s.primary}
               /\ ~r.stage.complete => audible \in r.last
               /\ s.primary \in r.last => s.primary = audible \/ r.stage.faded > 0
               /\ ran[s.primary] + n + r.stage.prime >= Prime
               /\ r.stage.faded > 0 => ran[s.primary] + n > Prime /\ r.stage.prime = 0
<1> DEFINE p     == Predecessor(s)
           prime == IF s.prime > n THEN s.prime - n ELSE 0
           faded == Least(Fade, s.faded + n - (s.prime - prime))
           done  == (faded = Fade)
           With(h, i, f, d) ==
               [s EXCEPT !.chosen = h, !.prime = i, !.faded = f, !.complete = d]
           t     == With(p, prime, faded, done)
           last  == IF faded = 0 THEN {p} ELSE IF faded = Fade THEN {s.primary}
                    ELSE {p, s.primary}
<1>0. /\ n \in Nat \ {0} /\ Prime \in Nat /\ Fade \in Nat \ {0}
      /\ s.prime \in 0 .. Prime /\ s.faded \in 0 .. Fade /\ s.primary \in Makers
      /\ ran[s.primary] \in 0 .. Prime + 1 /\ audible \in Makers
  BY ProcessingAssumption DEF GraphStages, ProcessingTyped
<1>1. /\ ~s.complete
      /\ audible \in Leases(s) /\ s.chosen \in {NoOne, audible}
      /\ ran[s.primary] + s.prime >= Prime /\ s.faded < Fade
      /\ s.faded > 0 => ran[s.primary] > Prime /\ s.prime = 0
  BY DEF HeardInv, Sounding, Alone
<1>2. p = audible
  BY <1>1 DEF Predecessor, Leases, Alone
<1>3. /\ prime \in 0 .. Prime /\ faded \in 0 .. Fade
      /\ ran[s.primary] + n + prime >= Prime
      /\ faded > 0 => ran[s.primary] + n > Prime /\ prime = 0
  BY <1>0, <1>1 DEF Least
<1>4. /\ t \in GraphStages /\ t.primary = s.primary /\ t.current = s.current
      /\ t.pending = s.pending /\ t.chosen = audible /\ t.prime = prime
      /\ t.faded = faded /\ (t.complete <=> faded = Fade)
  <2>1. p \in MaybeMaker /\ done \in BOOLEAN
    BY <1>0, <1>2 DEF MaybeMaker
  <2>2. ASSUME NEW h \in MaybeMaker, NEW i \in 0 .. Prime, NEW f \in 0 .. Fade,
               NEW d \in BOOLEAN
        PROVE  LET u == With(h, i, f, d)
               IN  /\ u \in GraphStages /\ u.primary = s.primary /\ u.current = s.current
                   /\ u.pending = s.pending /\ u.chosen = h /\ u.prime = i
                   /\ u.faded = f /\ u.complete = d
    BY DEF GraphStages
  <2>3. /\ t \in GraphStages /\ t.primary = s.primary /\ t.current = s.current
        /\ t.pending = s.pending /\ t.chosen = p /\ t.prime = prime
        /\ t.faded = faded /\ t.complete = done
    <3> HIDE DEF p, prime, faded, done
    <3>1. PICK d \in BOOLEAN : d = done
      BY <2>1
    <3> DEFINE u == With(p, prime, faded, d)
    <3> HIDE DEF With
    <3>2. /\ u \in GraphStages /\ u.primary = s.primary /\ u.current = s.current
          /\ u.pending = s.pending /\ u.chosen = p /\ u.prime = prime
          /\ u.faded = faded /\ u.complete = d
      BY <1>3, <2>1, <2>2
    <3> QED
      BY <3>1, <3>2, Zenon
  <2> QED
    BY <1>2, <2>3, Zenon
<1>5. Processed(s, n) = [stage |-> t, first |-> p, last |-> last, graphs |-> {p, s.primary}]
  BY Zenon DEF Processed
<1> HIDE DEF t
<1>6. last \subseteq {audible, s.primary}
  BY <1>2
<1>7. /\ faded = Fade => last = {s.primary}
      /\ faded # Fade => audible \in last
      /\ faded = 0 => last = {audible}
  BY <1>0, <1>2
<1>8. s.primary \in last => s.primary = audible \/ faded > 0
  BY <1>0, <1>3, <1>7
<1> HIDE DEF p, prime, faded, done, last
<1>9. /\ Processed(s, n).stage = t /\ Processed(s, n).first = p
      /\ Processed(s, n).last = last /\ Processed(s, n).graphs = {p, s.primary}
  BY <1>5
<1> QED
  BY <1>2, <1>3, <1>4, <1>6, <1>7, <1>8, <1>9

(* A block begins with what was heard last and ends with what may be heard.*)
LEMMA BlockHeard ==
    ASSUME ProcessingTyped, NEW s \in GraphStages, HeardInv(s), NEW n \in 1 .. MaxBlock
    PROVE  LET r == Processed(s, n)
               a == AudibleAfter(r)
           IN  /\ r.first = audible
               /\ r.last \subseteq Makers /\ a \in r.last /\ a \in {audible, s.primary}
               /\ \A g \in r.last : RanAfter(r, g, n) > Prime
               /\ r.stage \in GraphStages /\ r.stage.primary = s.primary
               /\ Sounding(r.stage, a, RanAfter(r, s.primary, n))
<1> DEFINE r == Processed(s, n)
           a == AudibleAfter(r)
<1>0. /\ n \in Nat \ {0} /\ Prime \in Nat /\ Fade \in Nat \ {0}
      /\ s.primary \in Makers /\ audible \in Makers
      /\ \A g \in Makers : ran[g] \in 0 .. Prime + 1
      /\ ran[audible] > Prime
  BY ProcessingAssumption DEF GraphStages, ProcessingTyped, HeardInv
<1>1. CASE Alone(s)
  <2>1. /\ s.primary = audible
        /\ r.first = audible /\ r.last = {audible} /\ r.graphs = {audible}
        /\ r.stage \in GraphStages /\ r.stage.complete /\ r.stage.primary = s.primary
    BY <1>1, AloneBlock
  <2> HIDE DEF r
  <2>2. a = audible
    BY <2>1 DEF AudibleAfter
  <2>3. RanAfter(r, audible, n) > Prime
    BY <1>0, <2>1 DEF RanAfter, Least
  <2>4. Sounding(r.stage, a, RanAfter(r, s.primary, n))
    BY <2>1, <2>2 DEF Sounding
  <2> QED
    BY <1>0, <2>1, <2>2, <2>3, <2>4 DEF r
<1>2. CASE ~Alone(s)
  <2>1. /\ r.first = audible /\ r.last \subseteq {audible, s.primary}
        /\ r.graphs = {audible, s.primary}
        /\ r.stage \in GraphStages /\ r.stage.primary = s.primary
        /\ r.stage.current = s.current /\ r.stage.pending = s.pending
        /\ r.stage.chosen = audible
        /\ r.stage.complete <=> r.stage.faded = Fade
        /\ r.stage.complete => r.last = {s.primary}
        /\ ~r.stage.complete => audible \in r.last
        /\ s.primary \in r.last => s.primary = audible \/ r.stage.faded > 0
        /\ ran[s.primary] + n + r.stage.prime >= Prime
        /\ r.stage.faded > 0 => ran[s.primary] + n > Prime /\ r.stage.prime = 0
    BY <1>2, FadingBlock
  <2>2. ~s.complete /\ audible \in Leases(s)
    BY <1>2 DEF HeardInv, Sounding, Alone
  <2> HIDE DEF r
  <2>3. /\ RanAfter(r, audible, n) > Prime
        /\ RanAfter(r, s.primary, n) = Least(Prime + 1, ran[s.primary] + n)
    BY <1>0, <2>1 DEF RanAfter, Least
  <2>4. a = IF r.stage.complete THEN s.primary ELSE audible
    BY <2>1 DEF AudibleAfter
  <2>5. r.stage.faded > 0 => RanAfter(r, s.primary, n) > Prime
    BY <1>0, <2>1, <2>3 DEF Least
  <2>6. ASSUME NEW g \in r.last PROVE RanAfter(r, g, n) > Prime
    BY <2>1, <2>3, <2>5
  <2>7. Sounding(r.stage, a, RanAfter(r, s.primary, n))
    <3>1. CASE r.stage.complete
      BY <2>1, <2>4, <3>1 DEF Sounding
    <3>2. CASE ~r.stage.complete
      <4>1. a = audible /\ a \in Leases(r.stage)
        BY <2>1, <2>2, <2>4, <3>2 DEF Leases
      <4>2. r.stage.faded < Fade /\ r.stage.prime \in 0 .. Prime
        BY <1>0, <2>1, <3>2 DEF GraphStages
      <4>3. RanAfter(r, s.primary, n) + r.stage.prime >= Prime
        BY <1>0, <2>1, <2>3, <4>2 DEF Least
      <4> QED
        BY <2>1, <2>5, <3>2, <4>1, <4>2, <4>3 DEF Sounding
    <3> QED
      BY <3>1, <3>2
  <2>8. a \in r.last /\ a \in {audible, s.primary} /\ r.last \subseteq Makers
    BY <1>0, <2>1, <2>4
  <2> QED
    BY <2>1, <2>6, <2>7, <2>8 DEF r
<1> QED
  BY <1>1, <1>2

-----------------------------------------------------------------------------
(* The generations of an update.                                           *)

(* A meter goes on exactly when nothing before it differs.                 *)
LEMMA MeteredFacts ==
    ASSUME NEW g \in Generations, NEW id \in Makers, NEW old \in Generations
    PROVE  LET h == Metered(g, id, old)
           IN  /\ h \in Generations
               /\ h.plan = g.plan /\ h.graph = g.graph /\ h.denoise = g.denoise
               /\ h.meter = IF SamePath(h, old) THEN old.meter ELSE id
<1>1. ASSUME NEW m \in Makers
      PROVE  LET h == [g EXCEPT !.meter = m]
             IN  /\ h \in Generations /\ h.meter = m
                 /\ h.plan = g.plan /\ h.graph = g.graph /\ h.denoise = g.denoise
  BY DEF Generations
<1>2. old.meter \in Makers
  BY DEF Generations
<1> DEFINE m == IF SamePath(g, old) THEN old.meter ELSE id
           h == [g EXCEPT !.meter = m]
<1>3. Metered(g, id, old) = h
  BY DEF Metered
<1>4. m \in Makers
  BY <1>2
<1>5. /\ h \in Generations /\ h.meter = m
      /\ h.plan = g.plan /\ h.graph = g.graph /\ h.denoise = g.denoise
  <2> HIDE DEF m
  <2> QED
    BY <1>1, <1>4
<1> HIDE DEF h
<1>6. SamePath(h, old) <=> SamePath(g, old)
  BY <1>5 DEF SamePath
<1> QED
  BY <1>3, <1>5, <1>6

(* The generation in force has its own names, and those of an update under *)
(* way are above them.                                                     *)
LEMMA GenerationFacts ==
    ASSUME ProcessingTyped
    PROVE  /\ inForce.plan \in ProcessingPlans /\ inForce.graph \in Makers
           /\ inForce.denoise \in Makers \union {NoOne} /\ inForce.meter \in Makers
           /\ made \in Nat /\ made <= MaxChanges /\ MaxChanges \in Nat
           /\ change.step = "idle" /\ made < MaxChanges => 2 * made + 1 \in Makers
           /\ 2 * made \in Makers
<1>1. inForce \in Generations /\ made \in 0 .. MaxChanges /\ MaxChanges \in Nat
  BY ProcessingAssumption DEF ProcessingTyped
<1>2. made \in Nat /\ made <= MaxChanges
  BY <1>1
<1>3. 2 * made \in Makers /\ (made < MaxChanges => 2 * made + 1 \in Makers)
  BY <1>1, <1>2 DEF Makers
<1> QED
  BY <1>1, <1>2, <1>3 DEF Generations

(* What prepare_replacement makes and what it leaves alone, by the number  *)
(* of the new generation.                                                  *)
LEMMA PrepareReplacementFacts ==
    ASSUME ProcessingTyped, GenerationInv,
           NEW p \in ProcessingPlans, PrepareReplacement(p)
    PROVE  LET id == 2 * made + 1
               f  == change'.forward
           IN  /\ id \in Makers /\ made' = made + 1 /\ made' \in 0 .. MaxChanges
               /\ change.step = "idle"
               /\ f \in Generations
               /\ change' = [step |-> "forward", forward |-> f, reverse |-> NoOne]
               /\ ForwardInv(inForce, f, id)
               /\ stages' = IF f.graph = id
                            THEN [stages EXCEPT ![id] =
                                    TransitionGraph(id, stages[inForce.graph])]
                            ELSE stages
               /\ denoisers' = IF f.denoise = id
                               THEN [denoisers EXCEPT ![id] = [stream |-> id, activation |-> 0]]
                               ELSE denoisers
               /\ meters' = IF f.meter = id THEN [meters EXCEPT ![id] = f.graph] ELSE meters
<1> DEFINE id == 2 * made + 1
           graph == IF p.dynamics = inForce.plan.dynamics THEN inForce.graph ELSE id
           denoise == IF ~p.denoise THEN NoOne
                      ELSE IF inForce.denoise # NoOne THEN inForce.denoise ELSE id
           g == [plan |-> p, graph |-> graph, denoise |-> denoise, meter |-> id]
           f == Metered(g, id, inForce)
<1>1. made' = made + 1 /\ change.step = "idle" /\ made < MaxChanges
  BY DEF PrepareReplacement
<1>2. id \in Makers /\ made' \in 0 .. MaxChanges /\ inForce \in Generations
  BY <1>1, GenerationFacts DEF ProcessingTyped
<1>3. graph \in Makers /\ denoise \in Makers \union {NoOne}
  BY <1>2, GenerationFacts
<1>4. g \in Generations /\ g.plan = p /\ g.graph = graph /\ g.denoise = denoise
  <2> HIDE DEF graph, denoise, id
  <2> QED
    BY <1>2, <1>3 DEF Generations
<1>5. /\ f \in Generations /\ f.plan = p /\ f.graph = graph /\ f.denoise = denoise
      /\ f.meter = IF SamePath(f, inForce) THEN inForce.meter ELSE id
  <2> HIDE DEF graph, denoise, id, g
  <2> QED
    BY <1>2, <1>4, MeteredFacts
<1>6. /\ change' = [step |-> "forward", forward |-> f, reverse |-> NoOne]
      /\ stages' = IF f.graph = id
                   THEN [stages EXCEPT ![id] = TransitionGraph(id, stages[inForce.graph])]
                   ELSE stages
      /\ denoisers' = IF f.denoise = id
                      THEN [denoisers EXCEPT ![id] = [stream |-> id, activation |-> 0]]
                      ELSE denoisers
      /\ meters' = NewMeter(f, id)
  BY Zenon DEF PrepareReplacement
<1> HIDE DEF f, g
<1>7. change'.forward = f
  BY <1>6
<1>8. ForwardInv(inForce, f, id)
  <2>1. p.denoise \in BOOLEAN
    BY ProcessingAssumption
  <2>2. denoise = NoOne <=> ~p.denoise
    BY <1>2, <2>1 DEF NoOne, Makers
  <2> QED
    BY <1>5, <2>2 DEF ForwardInv, Matches
<1> QED
  BY <1>1, <1>2, <1>5, <1>6, <1>7, <1>8 DEF NewMeter

(* What the forward generation is called.                                  *)
LEMMA ForwardFacts ==
    ASSUME ProcessingTyped, GenerationInv, Undone
    PROVE  /\ change.forward \in Generations
           /\ made \in Nat \ {0} /\ 2 * made - 1 \in Makers /\ 2 * made \in Makers
           /\ Older(inForce, 2 * made - 2) /\ Matches(inForce)
           /\ ForwardInv(inForce, change.forward, 2 * made - 1)
           /\ change.forward.graph \in {inForce.graph, 2 * made - 1}
           /\ change.forward.denoise \in {NoOne, inForce.denoise, 2 * made - 1}
           /\ change.forward.meter \in {inForce.meter, 2 * made - 1}
<1>1. made \in Nat \ {0} /\ 2 * made \in Makers
  BY GenerationFacts DEF GenerationInv
<1>2. 2 * made - 1 \in Makers
  BY <1>1, GenerationFacts DEF Makers
<1>3. /\ change.forward \in Generations
      /\ Older(inForce, 2 * made - 2) /\ Matches(inForce)
      /\ ForwardInv(inForce, change.forward, 2 * made - 1)
  BY DEF ProcessingTyped, GenerationInv, Undone
<1> QED
  BY <1>1, <1>2, <1>3 DEF ForwardInv

(* A graph is restored where the two generations differ in it.             *)
LEMMA RestoredFacts ==
    ASSUME ProcessingTyped, GenerationInv, GraphInv, Undone
    PROVE  RestoredGraph(2 * made) = IF change.forward.graph = inForce.graph
                                     THEN inForce.graph ELSE 2 * made
<1>1. stages[inForce.graph].primary <= 2 * made - 2
  BY DEF GraphInv
<1>2. change.forward.graph # inForce.graph =>
          /\ change.forward.graph = 2 * made - 1
          /\ stages[change.forward.graph].primary = 2 * made - 1
  BY ForwardFacts DEF GraphInv
<1>3. made \in Nat
  BY ForwardFacts
<1> QED
  BY <1>1, <1>2, <1>3 DEF RestoredGraph

(* What prepare_restore makes and what it leaves alone.                    *)
LEMMA PrepareRestoreFacts ==
    ASSUME ProcessingTyped, GenerationInv, GraphInv, PrepareRestore
    PROVE  LET id == 2 * made
               r  == change'.reverse
           IN  /\ id \in Makers /\ change.step = "forward"
               /\ r \in Generations
               /\ change' = [change EXCEPT !.step = "ready", !.reverse = r]
               /\ ReverseInv(inForce, change.forward, r, id)
               /\ stages' = IF r.graph = id
                            THEN [stages EXCEPT ![id] =
                                    TransitionGraph(stages[inForce.graph].primary,
                                                    stages[change.forward.graph])]
                            ELSE stages
               /\ denoisers' = IF r.denoise = id
                               THEN [denoisers EXCEPT ![id] =
                                       [stream |-> denoisers[inForce.denoise].stream,
                                        activation |-> 0]]
                               ELSE denoisers
               /\ meters' = IF r.meter = id THEN [meters EXCEPT ![id] = r.graph] ELSE meters
<1> DEFINE id == 2 * made
           graph == RestoredGraph(id)
           denoise == RestoredDenoiser(id)
           g == [plan |-> inForce.plan, graph |-> graph, denoise |-> denoise, meter |-> id]
           r == Metered(g, id, change.forward)
<1>1. change.step = "forward" /\ Undone
  BY DEF PrepareRestore, Undone
<1>2. id \in Makers /\ inForce \in Generations /\ change.forward \in Generations
  BY <1>1, ForwardFacts DEF ProcessingTyped
<1>3. /\ graph = IF change.forward.graph = inForce.graph THEN inForce.graph ELSE id
      /\ denoise = IF inForce.denoise # NoOne /\ change.forward.denoise = NoOne
                   THEN id ELSE inForce.denoise
  BY <1>1, RestoredFacts DEF RestoredDenoiser
<1>4. graph \in Makers /\ denoise \in Makers \union {NoOne} /\ inForce.plan \in ProcessingPlans
  BY <1>2, <1>3, GenerationFacts
<1>5. g \in Generations /\ g.plan = inForce.plan /\ g.graph = graph /\ g.denoise = denoise
  <2> HIDE DEF graph, denoise, id
  <2> QED
    BY <1>2, <1>4 DEF Generations
<1>6. /\ r \in Generations /\ r.plan = inForce.plan /\ r.graph = graph /\ r.denoise = denoise
      /\ r.meter = IF SamePath(r, change.forward) THEN change.forward.meter ELSE id
  <2> HIDE DEF graph, denoise, id, g
  <2> QED
    BY <1>2, <1>5, MeteredFacts
<1>7. /\ change' = [change EXCEPT !.step = "ready", !.reverse = r]
      /\ stages' = IF r.graph = id
                   THEN [stages EXCEPT ![id] = TransitionGraph(stages[inForce.graph].primary,
                                                               stages[change.forward.graph])]
                   ELSE stages
      /\ denoisers' = IF r.denoise = id
                      THEN [denoisers EXCEPT ![id] =
                              [stream |-> denoisers[inForce.denoise].stream, activation |-> 0]]
                      ELSE denoisers
      /\ meters' = NewMeter(r, id)
  BY Zenon DEF PrepareRestore
<1> HIDE DEF r, g
<1>8. change'.reverse = r
  BY <1>7 DEF ProcessingTyped
<1>9. ReverseInv(inForce, change.forward, r, id)
  <2> HIDE DEF graph, denoise, id
  <2> QED
    BY <1>3, <1>6 DEF ReverseInv
<1> QED
  BY <1>1, <1>2, <1>6, <1>7, <1>8, <1>9 DEF NewMeter

(* What came before a generation came before a later one.                  *)
LEMMA OlderMore ==
    ASSUME NEW g \in Generations, NEW a \in Int, NEW b \in Int, a <= b, Older(g, a)
    PROVE  Older(g, b)
  BY DEF Older, Generations, Makers, NoOne

(* Plans are told apart by the parts the model gives them.                 *)
LEMMA PlanParts ==
    ASSUME NEW p \in ProcessingPlans, NEW q \in ProcessingPlans,
           p.dynamics = q.dynamics, p.denoise <=> q.denoise, p.gain = q.gain
    PROVE  p = q
<1>1. /\ p = [dynamics |-> p.dynamics, denoise |-> p.denoise, gain |-> p.gain]
      /\ q = [dynamics |-> q.dynamics, denoise |-> q.denoise, gain |-> q.gain]
      /\ p.denoise \in BOOLEAN /\ q.denoise \in BOOLEAN
  BY ProcessingAssumption
<1>2. p.denoise = q.denoise
  BY <1>1
<1> QED
  BY <1>1, <1>2, Zenon

(* A generation with the same path to its meter has the same plan.         *)
LEMMA SamePathForward ==
    ASSUME NEW i \in Generations, NEW f \in Generations, NEW id \in Nat,
           Matches(i), ForwardInv(i, f, id), i.graph < id, SamePath(f, i)
    PROVE  f.plan = i.plan
<1>1. f.plan.gain = i.plan.gain /\ f.graph = i.graph /\ f.denoise = i.denoise
  BY DEF SamePath
<1>2. i.graph \in Nat /\ f.plan \in ProcessingPlans /\ i.plan \in ProcessingPlans
  BY DEF Generations, Makers
<1>3. f.plan.dynamics = i.plan.dynamics
  BY <1>1, <1>2 DEF ForwardInv
<1>4. f.plan.denoise <=> i.plan.denoise
  BY <1>1 DEF ForwardInv, Matches
<1> QED
  BY <1>1, <1>2, <1>3, <1>4, PlanParts

(* If the way back has the path of the way forward, nothing changed.       *)
LEMMA SamePathBack ==
    ASSUME NEW i \in Generations, NEW f \in Generations, NEW r \in Generations,
           NEW n \in Nat \ {0}, Older(i, 2 * n - 2),
           ForwardInv(i, f, 2 * n - 1), ReverseInv(i, f, r, 2 * n), SamePath(r, f)
    PROVE  SamePath(f, i)
<1>1. i.denoise \in Nat \union {NoOne} /\ i.graph \in Nat
  BY DEF Generations, Makers
<1>2. /\ i.graph <= 2 * n - 2 /\ i.denoise <= 2 * n - 2
      /\ f.graph \in {i.graph, 2 * n - 1} /\ f.denoise \in {NoOne, i.denoise, 2 * n - 1}
  BY DEF Older, ForwardInv
<1>3. f.plan.gain = i.plan.gain /\ r.graph = f.graph /\ r.denoise = f.denoise
  BY DEF SamePath, ReverseInv
<1>4. f.graph = i.graph
  BY <1>1, <1>2, <1>3 DEF ReverseInv
<1>5. f.denoise = i.denoise
  BY <1>1, <1>2, <1>3 DEF ReverseInv, NoOne
<1> QED
  BY <1>3, <1>4, <1>5 DEF SamePath

(* Generations that share a meter have the same plan.                      *)
LEMMA SameMeter ==
    ASSUME ProcessingTyped, GenerationInv, NEW g \in Live, NEW h \in Live, g.meter = h.meter
    PROVE  g.plan = h.plan
<1> DEFINE i == inForce
           f == change.forward
           r == change.reverse
<1>1. CASE ~Undone
  BY <1>1 DEF Live, Undone, Reversible
<1>2. CASE Undone
  <2>1. /\ made \in Nat \ {0} /\ Older(i, 2 * made - 2) /\ Matches(i)
        /\ i \in Generations /\ f \in Generations /\ ForwardInv(i, f, 2 * made - 1)
    BY <1>2, ForwardFacts DEF ProcessingTyped
  <2>2. i.graph \in Nat /\ i.meter \in Nat /\ i.meter < 2 * made - 1 /\ i.graph < 2 * made - 1
    BY <2>1 DEF Generations, Makers, Older
  <2>3. f.meter = IF SamePath(f, i) THEN i.meter ELSE 2 * made - 1
    BY <2>1 DEF ForwardInv
  <2>4. SamePath(f, i) => f.plan = i.plan
    BY <2>1, <2>2, SamePathForward
  <2>5. i.meter = f.meter => i.plan = f.plan
    BY <2>2, <2>3, <2>4
  <2>6. CASE ~Reversible
    BY <2>5, <2>6, <1>2 DEF Live
  <2>7. CASE Reversible
    <3>1. /\ r.plan = i.plan /\ r \in Generations /\ ReverseInv(i, f, r, 2 * made)
          /\ r.meter = IF SamePath(r, f) THEN f.meter ELSE 2 * made
      BY <2>7 DEF GenerationInv, ReverseInv, ProcessingTyped, Reversible
    <3>2. SamePath(r, f) => SamePath(f, i)
      BY <2>1, <3>1, SamePathBack
    <3>3. f.meter \in Nat /\ f.meter < 2 * made
      BY <2>1, <2>2, <2>3
    <3>4. (r.meter = f.meter => r.plan = f.plan) /\ (r.meter = i.meter => r.plan = i.plan)
      BY <2>1, <2>2, <2>4, <3>1, <3>2, <3>3
    <3> QED
      BY <1>2, <2>5, <2>7, <3>4 DEF Live
  <2> QED
    BY <2>6, <2>7
<1> QED
  BY <1>1, <1>2

-----------------------------------------------------------------------------
(* The noise reduction of a block.                                         *)

(* A stream at rest counts as bridged from its first unit on.              *)
LEMMA IdleFacts ==
    /\ IdleStream \in DenoiseStreams /\ Rested(IdleStream)
    /\ ~IdleStream.gap /\ Bridged(IdleStream, 0)
  BY ProcessingAssumption DEF IdleStream, DenoiseStreams, Rested, Bridged

(* Bypassing a stream leaves it at rest.                                   *)
LEMMA BypassedFacts ==
    ASSUME NEW s \in DenoiseStreams, Rested(s)
    PROVE  Bypassed(s) = IdleStream
  BY DEF Bypassed, Rested

(* A stream the callback passes by stays a stream, at rest if it was.      *)
LEMMA PassedFacts ==
    ASSUME NEW s \in DenoiseStreams, Rested(s)
    PROVE  PassedBy(s) \in DenoiseStreams /\ Rested(PassedBy(s))
<1> DEFINE gap == s.gap \/ s.active
<1>1. PassedBy(s) = [s EXCEPT !.gap = gap]
  BY Zenon DEF PassedBy
<1>2. ASSUME NEW b \in BOOLEAN
      PROVE  LET t == [s EXCEPT !.gap = b]
             IN  t \in DenoiseStreams /\ (t.active <=> s.active) /\ (s.gap = b => t = s)
  BY DEF DenoiseStreams
<1>3. PICK b \in BOOLEAN : b = gap
  OBVIOUS
<1>4. PassedBy(s) = [s EXCEPT !.gap = b]
  BY <1>1, <1>3, Zenon
<1>5. PassedBy(s) \in DenoiseStreams /\ (PassedBy(s).active <=> s.active)
  BY <1>2, <1>4, Zenon
<1>6. ~s.active => s.gap = b
  <2>1. ~s.active => s = IdleStream
    BY DEF Rested
  <2>2. s.gap \in BOOLEAN /\ s.active \in BOOLEAN
    BY DEF DenoiseStreams
  <2> QED
    BY <1>3, <2>2, Zenon
<1>7. ~s.active => PassedBy(s) = s
  BY <1>2, <1>4, <1>6, Zenon
<1> QED
  BY <1>5, <1>7 DEF Rested

(* The stream a block is run through starts without a gap, as far from its *)
(* bridge as it should be.                                                 *)
LEMMA StartFacts ==
    ASSUME NEW s \in DenoiseStreams, Rested(s),
           NEW activation \in Nat \union {NoOne}, Reducing(s, activation)
    PROVE  LET start == IF activation = 0 THEN Bypassed(s) ELSE s
           IN  /\ start \in DenoiseStreams /\ ~start.gap
               /\ activation # NoOne => Bridged(start, activation)
<1>1. CASE activation = 0
  BY <1>1, BypassedFacts, IdleFacts
<1>2. CASE activation # 0
  BY <1>2 DEF Reducing
<1> QED
  BY <1>1, <1>2

\* What denoise_process and denoise_bypass need of a stage.
Ready(d) == /\ d \in DenoiseStages /\ d.stream \in Makers
            /\ Reducing(streams[d.stream], d.activation)

StreamsInv == streams \in [Makers -> DenoiseStreams] /\ \A m \in Makers : Rested(streams[m])

(* A block of noise reduction lets nothing through that no model made.     *)
LEMMA DenoisedFacts ==
    ASSUME StreamsInv, NEW d, Ready(d), NEW n \in 1 .. MaxBlock
    PROVE  LET r == Denoised(d, n)
           IN  /\ r.stream \in DenoiseStreams /\ r.stream.active /\ ~r.stream.gap
               /\ r.activation \in Nat \union {NoOne} /\ Reducing(r.stream, r.activation)
               /\ ~r.filler
<1> DEFINE s     == streams[d.stream]
           start == IF d.activation = 0 THEN Bypassed(s) ELSE s
           after == StreamAfter(start, n)
           next  == d.activation + n
           on    == IF d.activation = NoOne \/ next >= Startup + Fade THEN NoOne ELSE next
           filler == d.activation # NoOne
                     /\ \E k \in 1 .. n : /\ Wet(d.activation, k)
                                         /\ after[k - 1].output = 0 /\ ~after[k - 1].failed
<1>0. n \in Nat \ {0} /\ FrameUnits \in Nat \ {0} /\ Fade \in Nat /\ Startup = 2 * FrameUnits
  BY ProcessingAssumption DEF Startup
<1>1. d.activation \in Nat \union {NoOne} /\ s \in DenoiseStreams /\ Rested(s)
  BY DEF Ready, DenoiseStages, StreamsInv
<1>2. Reducing(s, d.activation)
  BY DEF Ready
<1>3. /\ start \in DenoiseStreams /\ ~start.gap
      /\ d.activation # NoOne => Bridged(start, d.activation)
  BY <1>1, <1>2, StartFacts
<1> HIDE DEF start
<1>4. ASSUME NEW k \in 0 .. n
      PROVE  /\ after[k] \in DenoiseStreams /\ ~after[k].gap
             /\ k > 0 => after[k].active
             /\ d.activation # NoOne => Bridged(after[k], d.activation + k)
  <2>1. CASE d.activation = NoOne
    BY <1>0, <1>3, <2>1, StreamFacts
  <2>2. CASE d.activation # NoOne
    <3>1. d.activation \in Nat
      BY <1>1, <2>2
    <3> QED
      BY <1>0, <1>3, <2>2, <3>1, StreamFacts
  <2> QED
    BY <2>1, <2>2
<1>5. Denoised(d, n) = [stream |-> after[n], activation |-> on, filler |-> filler]
  BY Zenon DEF Denoised, start
<1>6. ~filler
  <2> SUFFICES ASSUME d.activation # NoOne, NEW k \in 1 .. n, d.activation + k > Startup,
                      after[k - 1].output = 0, ~after[k - 1].failed
               PROVE  FALSE
    BY DEF Wet
  <2>1. k - 1 \in 0 .. n /\ d.activation \in Nat
    BY <1>0, <1>1
  <2> DEFINE t == after[k - 1]
  <2>2. t \in DenoiseStreams /\ Bridged(t, d.activation + (k - 1))
    BY <1>4, <2>1
  <2>3. t.output = 0 /\ ~t.failed /\ d.activation + (k - 1) >= 2 * FrameUnits
    BY <1>0, <2>1
  <2> HIDE DEF t
  <2>4. t.input \in 0 .. FrameUnits - 1
    BY <2>2 DEF DenoiseStreams
  <2> QED
    BY <1>0, <2>1, <2>2, <2>3, <2>4 DEF Bridged
<1>7. on \in Nat \union {NoOne} /\ (on # NoOne => d.activation # NoOne /\ on = d.activation + n)
  BY <1>0, <1>1
<1>8. after[n] \in DenoiseStreams /\ after[n].active /\ Reducing(after[n], on)
  BY <1>0, <1>4, <1>7 DEF Reducing
<1>9. ~after[n].gap
  BY <1>0, <1>4
<1> HIDE DEF after, on, filler
<1>10. /\ Denoised(d, n).stream = after[n] /\ Denoised(d, n).activation = on
       /\ Denoised(d, n).filler = filler
  BY <1>5
<1>11. ~Denoised(d, n).filler
  BY <1>6, <1>10, Zenon
<1> QED
  BY <1>7, <1>8, <1>9, <1>10, <1>11

(* The streams a block passes by keep what they hold.                      *)
LEMMA StreamsWithFacts ==
    ASSUME StreamsInv, NEW d, NEW s, d \in Makers => s \in DenoiseStreams /\ Rested(s),
           streams' = StreamsWith(d, s)
    PROVE  StreamsInv' /\ (d \in Makers => streams'[d] = s)
<1>1. streams' = [m \in Makers |-> IF m = d THEN s ELSE PassedBy(streams[m])]
  BY DEF StreamsWith
<1>2. ASSUME NEW m \in Makers
      PROVE  streams'[m] \in DenoiseStreams /\ Rested(streams'[m])
  <2>1. streams[m] \in DenoiseStreams /\ Rested(streams[m])
    BY DEF StreamsInv
  <2>2. PassedBy(streams[m]) \in DenoiseStreams /\ Rested(PassedBy(streams[m]))
    BY <2>1, PassedFacts
  <2>3. streams'[m] = IF m = d THEN s ELSE PassedBy(streams[m])
    BY <1>1
  <2> QED
    BY <2>2, <2>3
<1>3. streams' \in [Makers -> DenoiseStreams]
  BY <1>1, <1>2
<1>4. d \in Makers => streams'[d] = s
  BY <1>1
<1> QED
  BY <1>2, <1>3, <1>4 DEF StreamsInv

\* What the noise reduction of a block leaves behind.
Reduced ==
    /\ StreamsInv /\ NoiseJoins /\ noise.stream \in MaybeMaker
    /\ denoisers \in [Makers -> DenoiseStages]
    /\ runs.denoise # NoOne => Ready(denoisers[runs.denoise])

(* The invariant gives what a block of noise reduction starts from.        *)
LEMMA ReducedNow == ProcessingTyped /\ AnswerInv /\ NoiseInv => Reduced
<1> SUFFICES ASSUME ProcessingTyped, AnswerInv, NoiseInv PROVE Reduced
  OBVIOUS
<1>1. StreamsInv /\ NoiseJoins /\ noise.stream \in MaybeMaker
  BY DEF ProcessingTyped, NoiseInv, StreamsInv
<1>2. runs \in Live
  BY DEF AnswerInv, Live, Undone, Reversible
<1>3. denoisers \in [Makers -> DenoiseStages] /\ runs \in Generations
  BY DEF ProcessingTyped
<1>4. ASSUME runs.denoise # NoOne PROVE Ready(denoisers[runs.denoise])
  <2>1. runs.denoise \in Makers
    BY <1>3, <1>4 DEF Generations
  <2>2. /\ denoisers[runs.denoise].stream # NoOne
        /\ Reducing(streams[denoisers[runs.denoise].stream], denoisers[runs.denoise].activation)
    BY <1>2, <1>4 DEF NoiseInv
  <2>3. denoisers[runs.denoise] \in DenoiseStages
    BY <1>3, <2>1
  <2>4. denoisers[runs.denoise].stream \in Makers
    BY <2>2, <2>3 DEF DenoiseStages, MaybeMaker
  <2> QED
    BY <2>2, <2>3, <2>4 DEF Ready
<1> QED
  BY <1>1, <1>3, <1>4 DEF Reduced

(* The noise reduction of a block, whether its model answers or not,       *)
(* touches no stage but its own.                                           *)
LEMMA ReductionFacts ==
    ASSUME Reduced, runs \in Generations, UNCHANGED runs, NEW n \in 1 .. MaxBlock,
           Reduction(n) \/ DenoiseFails(n)
    PROVE  /\ Reduced'
           /\ \A m \in Makers : /\ denoisers'[m].stream = denoisers[m].stream
                                /\ m # runs.denoise => denoisers'[m] = denoisers[m]
<1> DEFINE x == runs.denoise
           d == denoisers[x]
           s == streams[d.stream]
<1>0. StreamsInv /\ denoisers \in [Makers -> DenoiseStages] /\ x \in Makers \union {NoOne}
  BY DEF Reduced, Generations
<1>1. ASSUME x # NoOne
      PROVE  /\ x \in Makers /\ d \in DenoiseStages /\ d.stream \in Makers /\ Ready(d)
             /\ d.activation \in Nat \union {NoOne}
             /\ s \in DenoiseStreams /\ Rested(s) /\ Reducing(s, d.activation)
  BY <1>0, <1>1 DEF Reduced, Ready, StreamsInv, DenoiseStages
\* The stage's activation is all that may change of the stages.
<1>2. ASSUME x # NoOne, NEW v \in Nat \union {NoOne},
             denoisers' = [denoisers EXCEPT ![x].activation = v]
      PROVE  /\ denoisers' \in [Makers -> DenoiseStages]
             /\ \A m \in Makers : /\ denoisers'[m].stream = denoisers[m].stream
                                  /\ m # x => denoisers'[m] = denoisers[m]
             /\ denoisers'[x].activation = v
  <2>1. LET e == [d EXCEPT !.activation = v]
        IN  e \in DenoiseStages /\ e.stream = d.stream /\ e.activation = v
    BY <1>1, <1>2 DEF DenoiseStages
  <2> QED
    BY <1>0, <1>1, <1>2, <2>1
\* What is left to show when a stage has run its stream.
<1>3. ASSUME x # NoOne, NEW t \in DenoiseStreams, Rested(t), streams' = StreamsWith(d.stream, t),
             denoisers' \in [Makers -> DenoiseStages],
             \A m \in Makers : denoisers'[m].stream = denoisers[m].stream,
             Reducing(t, denoisers'[x].activation),
             ~noise'.filler, noise'.stream \in {NoOne, d.stream},
             noise'.stream = NoOne \/ ~t.gap
      PROVE  Reduced'
  <2>1. StreamsInv' /\ streams'[d.stream] = t
    BY <1>0, <1>1, <1>3, StreamsWithFacts
  <2>2. denoisers'[x] \in DenoiseStages /\ denoisers'[x].stream = d.stream
    BY <1>1, <1>3
  <2>3. Ready(denoisers[x])'
    BY <1>1, <1>3, <2>1, <2>2 DEF Ready
  <2>4. NoiseJoins' /\ noise'.stream \in MaybeMaker
    BY <1>1, <1>3, <2>1 DEF NoiseJoins, MaybeMaker
  <2> QED
    BY <1>3, <2>1, <2>3, <2>4 DEF Reduced
<1>4. CASE NoReduction
  <2>1. /\ x = NoOne /\ streams' = StreamsWith(NoOne, IdleStream) /\ noise' = NoNoise
        /\ denoisers' = denoisers
    BY <1>4 DEF NoReduction
  <2>2. StreamsInv'
    BY <1>0, <2>1, IdleFacts, StreamsWithFacts DEF NoOne, Makers
  <2>3. NoiseJoins' /\ noise'.stream \in MaybeMaker
    BY <2>1 DEF NoiseJoins, NoNoise, MaybeMaker
  <2> QED
    BY <1>0, <2>1, <2>2, <2>3 DEF Reduced
<1>5. CASE DenoiseBypass
  <2> DEFINE v == IF d.activation = NoOne THEN NoOne ELSE 0
  <2>1. /\ x # NoOne /\ streams' = StreamsWith(d.stream, Bypassed(s)) /\ noise' = NoNoise
        /\ denoisers' = [denoisers EXCEPT ![x].activation = v]
    BY <1>5 DEF DenoiseBypass
  <2>2. v \in Nat \union {NoOne}
    OBVIOUS
  <2> HIDE DEF v
  <2>3. Bypassed(s) = IdleStream
    BY <1>1, <2>1, BypassedFacts
  <2>4. /\ denoisers' \in [Makers -> DenoiseStages]
        /\ \A m \in Makers : /\ denoisers'[m].stream = denoisers[m].stream
                             /\ m # x => denoisers'[m] = denoisers[m]
        /\ denoisers'[x].activation = v
    BY <1>2, <2>1, <2>2
  <2>5. Reducing(IdleStream, v)
    BY IdleFacts DEF Reducing, v
  <2>6. ~noise'.filler /\ noise'.stream = NoOne
    BY <2>1 DEF NoNoise
  <2>7. Reduced'
    BY <1>3, <2>1, <2>3, <2>4, <2>5, <2>6, IdleFacts
  <2> QED
    BY <2>4, <2>7
<1>6. CASE DenoiseProcess(n)
  <2> DEFINE r == Denoised(d, n)
  <2>1. /\ x # NoOne /\ streams' = StreamsWith(d.stream, r.stream)
        /\ noise' = [stream |-> d.stream, filler |-> r.filler]
        /\ denoisers' = [denoisers EXCEPT ![x].activation = r.activation]
    BY <1>6 DEF DenoiseProcess
  <2>2. /\ r.stream \in DenoiseStreams /\ r.stream.active /\ ~r.stream.gap
        /\ r.activation \in Nat \union {NoOne} /\ Reducing(r.stream, r.activation)
        /\ ~r.filler
    BY <1>0, <1>1, <2>1, DenoisedFacts
  <2> HIDE DEF r
  <2>3. /\ denoisers' \in [Makers -> DenoiseStages]
        /\ \A m \in Makers : /\ denoisers'[m].stream = denoisers[m].stream
                             /\ m # x => denoisers'[m] = denoisers[m]
        /\ denoisers'[x].activation = r.activation
    BY <1>2, <2>1, <2>2
  <2>4. ~noise'.filler /\ noise'.stream = d.stream
    BY <2>1, <2>2
  <2>5. Reduced'
    BY <1>3, <2>1, <2>2, <2>3, <2>4 DEF Rested
  <2> QED
    BY <2>3, <2>5
<1>7. CASE DenoiseFails(n)
  <2> DEFINE start == IF d.activation = 0 THEN Bypassed(s) ELSE s
             full  == FrameUnits - start.input
             u     == StreamAfter(start, full)[full]
             t     == [u EXCEPT !.input = 0, !.output = 0, !.primed = start.primed,
                                !.failed = TRUE]
  <2>1. x # NoOne /\ streams' = StreamsWith(d.stream, t) /\ noise' = NoNoise
    BY <1>7 DEF DenoiseFails
  <2>2. denoisers' = denoisers
    BY <1>7 DEF DenoiseFails
  <2>3. start \in DenoiseStreams /\ ~start.gap
    BY <1>1, <2>1, StartFacts
  <2> HIDE DEF start
  <2>4. full \in Nat \ {0} /\ FrameUnits \in Nat \ {0} /\ start.primed \in BOOLEAN
    BY <2>3, ProcessingAssumption DEF DenoiseStreams
  <2>5. u \in DenoiseStreams /\ u.active /\ u.gap = start.gap
    BY <2>3, <2>4, StreamFacts
  <2> HIDE DEF u
  <2>6. t \in DenoiseStreams /\ t.active /\ t.failed /\ t.gap = u.gap
    <3> DEFINE Lost(p) == [u EXCEPT !.input = 0, !.output = 0, !.primed = p, !.failed = TRUE]
    <3>0. FrameUnits \in Nat \ {0} /\ u \in DenoiseStreams /\ u.active
      BY <2>4, <2>5
    <3> HIDE DEF full
    <3>1. ASSUME NEW p \in BOOLEAN
          PROVE  /\ Lost(p) \in DenoiseStreams /\ Lost(p).active
                 /\ Lost(p).failed /\ Lost(p).gap = u.gap
      <4>1. 0 \in 0 .. FrameUnits - 1 /\ 0 \in 0 .. FrameUnits
        BY <3>0
      <4>2. Lost(p) \in DenoiseStreams
        BY <3>0, <4>1 DEF DenoiseStreams
      <4>3. Lost(p).active
        BY <3>0 DEF DenoiseStreams
      <4>4. Lost(p).failed /\ Lost(p).gap = u.gap
        BY <3>0 DEF DenoiseStreams
      <4> QED
        BY <4>2, <4>3, <4>4
    <3>2. t = Lost(start.primed)
      OBVIOUS
    <3> HIDE DEF Lost, t
    <3> QED
      BY <2>4, <2>5, <3>1, <3>2
  <2> HIDE DEF t
  <2>7. Reducing(t, d.activation)
    BY <2>3, <2>5, <2>6 DEF Reducing, Bridged
  <2>8. ~noise'.filler /\ noise'.stream = NoOne
    BY <2>1 DEF NoNoise
  <2>9. Reduced'
    BY <1>0, <1>3, <2>1, <2>2, <2>6, <2>7, <2>8 DEF Rested
  <2> QED
    BY <2>2, <2>9
<1> QED
  BY <1>4, <1>5, <1>6, <1>7 DEF Reduction

-----------------------------------------------------------------------------
(* The steps of the mailbox.                                               *)

(* A stage that waits sounds like the audible graph when it is first run.  *)
LEMMA WaitsSounds ==
    ASSUME ProcessingTyped, NEW s \in GraphStages, NEW graphs, audible \in graphs,
           Waits(s, graphs), NEW units \in Nat
    PROVE  Sounding(s, audible, units)
  BY ProcessingAssumption DEF Waits, Sounding

(* The stages a generation has are stages of the station.                  *)
LEMMA StageFacts ==
    ASSUME ProcessingTyped, NEW g \in Generations
    PROVE  /\ g.graph \in Makers /\ g.meter \in Makers /\ g.denoise \in MaybeMaker
           /\ g.plan \in ProcessingPlans
           /\ stages[g.graph] \in GraphStages
           /\ stages[g.graph].primary \in Makers
           /\ ran[stages[g.graph].primary] \in Nat
<1>1. g.graph \in Makers /\ g.meter \in Makers /\ g.denoise \in MaybeMaker /\ g.plan \in ProcessingPlans
  BY DEF Generations, MaybeMaker
<1>2. stages[g.graph] \in GraphStages
  BY <1>1 DEF ProcessingTyped
<1>3. stages[g.graph].primary \in Makers
  BY <1>2 DEF GraphStages
<1>4. ran[stages[g.graph].primary] \in Nat
  BY <1>3, ProcessingAssumption DEF ProcessingTyped
<1> QED
  BY <1>1, <1>2, <1>3, <1>4

\* A step of the mailbox: the generations and the processors stay.
MailboxStep ==
    /\ UNCHANGED <<inForce, made, processors, heard>>
    /\ change' = [change EXCEPT !.step = change'.step]
    /\ (Undone <=> Undone') /\ (Reversible <=> Reversible')
    /\ offered' \in {"none", "forward", "reverse"}

(* A step of the mailbox alone moves no generation, so types, names and    *)
(* meters stay right.                                                      *)
LEMMA MailboxKeeps ==
    ASSUME ProcessingInv, MailboxStep,
           change'.step \in {"idle", "forward", "ready", "begun", "reversing"},
           runs' \in Generations
    PROVE  /\ ProcessingTyped' /\ GenerationInv' /\ MeterInv'
           /\ change'.forward = change.forward /\ change'.reverse = change.reverse
           /\ Live' = Live
<1>0. ProcessingTyped /\ GenerationInv /\ MeterInv
  BY DEF ProcessingInv
<1>1. /\ change'.forward = change.forward /\ change'.reverse = change.reverse
      /\ change' \in [step : {"idle", "forward", "ready", "begun", "reversing"},
                      forward : Generations \union {NoOne}, reverse : Generations \union {NoOne}]
  BY <1>0 DEF ProcessingTyped, MailboxStep
<1>2. Live' = Live
  BY <1>1 DEF Live, MailboxStep
<1>3. ProcessingTyped'
  BY <1>0, <1>1 DEF ProcessingTyped, MailboxStep, processors, heard, Undone, Reversible
<1>4. GenerationInv'
  BY <1>0, <1>1 DEF GenerationInv, MailboxStep
<1>5. MeterInv'
  <2>1. change'.step = "forward" <=> change.step = "forward"
    BY <1>0 DEF ProcessingTyped, MailboxStep, Undone, Reversible
  <2> QED
    BY <1>0, <1>2, <2>1 DEF MeterInv, MailboxStep, processors, heard
<1> QED
  BY <1>1, <1>2, <1>3, <1>4, <1>5

(* Offering a generation only starts the wait for an answer.               *)
LEMMA OfferStep ==
    ASSUME ProcessingInv, OfferForward \/ OfferReverse
    PROVE  ProcessingInv'
<1>0. ProcessingTyped /\ AnswerInv /\ GenerationInv /\ GraphInv /\ MeterInv /\ NoiseInv
  BY DEF ProcessingInv
<1>1. change'.step \in {"begun", "reversing"} /\ change.step \in {"ready", "begun"}
  BY <1>0 DEF OfferForward, OfferReverse, ProcessingTyped
<1>2. MailboxStep /\ UNCHANGED runs
  BY <1>0, <1>1 DEF OfferForward, OfferReverse, ProcessingTyped, MailboxStep, Undone, Reversible
<1>3. /\ ProcessingTyped' /\ GenerationInv' /\ MeterInv'
      /\ change'.forward = change.forward /\ change'.reverse = change.reverse /\ Live' = Live
  BY <1>0, <1>1, <1>2, MailboxKeeps DEF ProcessingTyped
<1>4. AnswerInv'
  <2>1. CASE OfferForward
    <3>1. /\ change.step = "ready" /\ change'.step = "begun"
          /\ offered' = "forward" /\ answered' = 0 /\ UNCHANGED <<runs, inForce>>
      BY <1>0, <2>1 DEF OfferForward, ProcessingTyped
    <3> QED
      BY <1>0, <3>1 DEF AnswerInv
  <2>2. CASE OfferReverse
    <3>1. /\ change.step = "begun" /\ answered # 0 /\ change'.step = "reversing"
          /\ offered' = "reverse" /\ answered' = 0 /\ UNCHANGED <<runs, inForce>>
      BY <1>0, <2>2 DEF OfferReverse, ProcessingTyped
    <3> QED
      BY <1>0, <1>3, <3>1 DEF AnswerInv
  <2> QED
    BY <2>1, <2>2
<1>5. ForwardAwaits' => ForwardAwaits
  BY <1>0, <1>1 DEF ForwardAwaits, OfferForward, OfferReverse, ProcessingTyped
<1>6. ReverseAwaits' => ReverseAwaits
  BY <1>0, <1>1 DEF ReverseAwaits, OfferForward, OfferReverse, ProcessingTyped
<1>7. GraphInv'
  BY <1>0, <1>2, <1>3, <1>5, <1>6 DEF GraphInv, GraphsJoin, MailboxStep, processors, heard
<1>8. NoiseInv'
  BY <1>0, <1>2, <1>3, <1>5, <1>6 DEF NoiseInv, NoiseJoins, MailboxStep, processors, heard
<1> QED
  BY <1>3, <1>4, <1>7, <1>8 DEF ProcessingInv

(* A callback that refuses keeps the generation it runs.                   *)
LEMMA RefuseStep == ASSUME ProcessingInv, RefuseOffered PROVE ProcessingInv'
<1>0. ProcessingTyped /\ AnswerInv /\ GenerationInv /\ GraphInv /\ MeterInv /\ NoiseInv
  BY DEF ProcessingInv
<1>1. UNCHANGED change /\ change' = [change EXCEPT !.step = change'.step]
  BY <1>0 DEF RefuseOffered, control, ProcessingTyped
<1>2. MailboxStep /\ UNCHANGED runs
  BY <1>1 DEF RefuseOffered, MailboxStep, control, Undone, Reversible
<1>3. /\ ProcessingTyped' /\ GenerationInv' /\ MeterInv'
      /\ change'.forward = change.forward /\ change'.reverse = change.reverse /\ Live' = Live
  BY <1>0, <1>1, <1>2, MailboxKeeps DEF ProcessingTyped
<1>4. AnswerInv'
  BY <1>0, <1>1, <1>2 DEF AnswerInv, RefuseOffered, MailboxStep
<1>5. (ForwardAwaits' => ForwardAwaits) /\ (ReverseAwaits' => ReverseAwaits)
  BY <1>1 DEF ForwardAwaits, ReverseAwaits, RefuseOffered
<1>7. GraphInv'
  BY <1>0, <1>2, <1>3, <1>5 DEF GraphInv, GraphsJoin, MailboxStep, processors, heard
<1>8. NoiseInv'
  BY <1>0, <1>2, <1>3, <1>5 DEF NoiseInv, NoiseJoins, MailboxStep, processors, heard
<1> QED
  BY <1>3, <1>4, <1>7, <1>8 DEF ProcessingInv

(* The stages of an adopted generation have waited for it: its graph is    *)
(* leased whichever graph is audible by now, and its bridge has not        *)
(* begun.                                                                  *)
LEMMA AdoptStep == ASSUME ProcessingInv, AdoptOffered PROVE ProcessingInv'
<1> DEFINE f == change.forward
           r == change.reverse
<1>0. ProcessingTyped /\ AnswerInv /\ GenerationInv /\ GraphInv /\ MeterInv /\ NoiseInv
  BY DEF ProcessingInv
<1>1. UNCHANGED change /\ change' = [change EXCEPT !.step = change'.step]
  BY <1>0 DEF AdoptOffered, control, ProcessingTyped
<1>2. /\ Undone /\ Reversible /\ ReverseAwaits
      /\ \/ offered = "forward" /\ change.step = "begun" /\ runs' = f /\ ForwardAwaits
            /\ runs = inForce
         \/ offered = "reverse" /\ change.step = "reversing" /\ runs' = r
            /\ runs \in {inForce, f}
  BY <1>0 DEF AdoptOffered, Offered, AnswerInv, Undone, Reversible, ForwardAwaits, ReverseAwaits
<1>3. f \in Generations /\ r \in Generations /\ inForce \in Generations /\ runs \in Generations
  BY <1>0, <1>2 DEF ProcessingTyped, Undone, Reversible
<1>4. MailboxStep /\ runs' \in Generations
  BY <1>1, <1>2, <1>3 DEF AdoptOffered, MailboxStep, control, Undone, Reversible
<1>5. /\ ProcessingTyped' /\ GenerationInv' /\ MeterInv' /\ Live' = Live
  BY <1>0, <1>1, <1>4, MailboxKeeps DEF ProcessingTyped
<1>6. AnswerInv'
  BY <1>0, <1>1, <1>2, <1>4 DEF AnswerInv, AdoptOffered, MailboxStep
<1>7. ~ForwardAwaits' /\ (ReverseAwaits' => change.step = "begun")
  BY <1>1, <1>2 DEF ForwardAwaits, ReverseAwaits, AdoptOffered
<1>8. /\ made \in Nat \ {0} /\ ForwardInv(inForce, f, 2 * made - 1)
      /\ ReverseInv(inForce, f, r, 2 * made) /\ Older(inForce, 2 * made - 2)
  BY <1>0, <1>2, ForwardFacts DEF GenerationInv
<1>9. Sounding(stages[runs'.graph], audible, ran[stages[runs'.graph].primary])
  <2>1. CASE f.graph = inForce.graph
    BY <1>0, <1>2, <1>8, <2>1 DEF GraphInv, ReverseInv
  <2>2. CASE f.graph # inForce.graph
    <3>1. /\ stages[f.graph] \in GraphStages /\ ran[stages[f.graph].primary] \in Nat
          /\ stages[r.graph] \in GraphStages /\ ran[stages[r.graph].primary] \in Nat
      BY <1>0, <1>3, StageFacts
    <3>2. offered = "forward" =>
            Waits(stages[f.graph], {audible, stages[inForce.graph].primary})
      BY <1>0, <1>2, <2>2 DEF GraphInv
    <3>3. Waits(stages[r.graph], {audible, stages[inForce.graph].primary, f.graph})
      BY <1>0, <1>2, <2>2 DEF GraphInv
    <3> QED
      BY <1>0, <1>2, <3>1, <3>2, <3>3, WaitsSounds
  <2> QED
    BY <2>1, <2>2
<1>10. GraphInv'
  BY <1>0, <1>1, <1>2, <1>4, <1>7, <1>9
     DEF GraphInv, GraphsJoin, MailboxStep, processors, heard, Undone, Reversible
<1>11. runs'.denoise # NoOne =>
          Reducing(streams[denoisers[runs'.denoise].stream], denoisers[runs'.denoise].activation)
  <2> SUFFICES ASSUME runs'.denoise # NoOne
               PROVE  Reducing(streams[denoisers[runs'.denoise].stream],
                               denoisers[runs'.denoise].activation)
    OBVIOUS
  <2>1. CASE runs'.denoise = runs.denoise
    BY <1>0, <2>1 DEF NoiseInv
  <2>2. CASE runs'.denoise # runs.denoise
    <3>1. denoisers[runs'.denoise].activation = 0
      <4>1. CASE offered = "forward"
        BY <1>0, <1>2, <2>2, <4>1 DEF NoiseInv
      <4>2. CASE offered # "forward"
        <5>1. runs' = r /\ runs \in {inForce, f}
          BY <1>2, <4>2
        <5>2. r.denoise # inForce.denoise
          <6> SUFFICES ASSUME r.denoise = inForce.denoise PROVE FALSE
            OBVIOUS
          <6>1. inForce.denoise \in Nat /\ inForce.denoise <= 2 * made - 2
            BY <1>3, <1>8, <5>1 DEF Older, Generations, Makers
          <6>2. f.denoise = inForce.denoise
            BY <1>8, <5>1, <6>1 DEF ReverseInv, ForwardInv
          <6> QED
            BY <2>2, <5>1, <6>2
        <5> QED
          BY <1>0, <1>2, <5>1, <5>2 DEF NoiseInv
      <4> QED
        BY <4>1, <4>2
    <3> QED
      BY <3>1 DEF Reducing
  <2> QED
    BY <2>1, <2>2
<1>12. NoiseInv'
  BY <1>0, <1>1, <1>2, <1>4, <1>5, <1>7, <1>11
     DEF NoiseInv, NoiseJoins, MailboxStep, processors, heard, Undone, Reversible
<1> QED
  BY <1>5, <1>6, <1>10, <1>12 DEF ProcessingInv

-----------------------------------------------------------------------------
(* The steps of the preparation.                                           *)

(* A transition graph waits for the graph audible now, for its own and     *)
(* for the predecessor's.                                                  *)
LEMMA TransitionFacts ==
    ASSUME ProcessingTyped, NEW primary \in Makers, NEW s \in GraphStages
    PROVE  LET t == TransitionGraph(primary, s)
           IN  /\ t \in GraphStages /\ t.primary = primary
               /\ Waits(t, {audible, primary, s.primary})
<1> DEFINE t == TransitionGraph(primary, s)
<1>1. s.primary \in Makers /\ audible \in Makers /\ Prime \in Nat /\ Fade \in Nat
      /\ NoOne \notin Makers
  BY ProcessingAssumption DEF GraphStages, ProcessingTyped, Makers, NoOne
<1>2. t \in GraphStages
  BY <1>1 DEF TransitionGraph, GraphStages, MaybeMaker
<1>3. /\ t.primary = primary /\ t.current = audible /\ t.chosen = NoOne
      /\ t.pending = IF audible # s.primary THEN s.primary ELSE NoOne
      /\ t.prime = Prime /\ t.faded = 0 /\ ~t.complete
  BY DEF TransitionGraph
<1> HIDE DEF t
<1>4. {audible, primary, s.primary} \subseteq Leases(t)
  BY <1>1, <1>3 DEF Leases
<1> QED
  BY <1>2, <1>3, <1>4 DEF Waits, t

(* Preparing the forward generation: new stages wait, kept ones go on.     *)
LEMMA PrepareReplacementStep ==
    ASSUME ProcessingInv, NEW p \in ProcessingPlans, PrepareReplacement(p)
    PROVE  ProcessingInv'
<1> DEFINE i  == inForce
           f  == change'.forward
           id == 2 * made + 1
<1>0. ProcessingTyped /\ AnswerInv /\ GenerationInv /\ GraphInv /\ MeterInv /\ NoiseInv
  BY DEF ProcessingInv
<1>1. /\ id \in Makers /\ made' = made + 1 /\ made' \in 0 .. MaxChanges
      /\ change.step = "idle" /\ f \in Generations
      /\ change' = [step |-> "forward", forward |-> f, reverse |-> NoOne]
      /\ ForwardInv(i, f, id)
      /\ stages' = IF f.graph = id
                   THEN [stages EXCEPT ![id] = TransitionGraph(id, stages[i.graph])]
                   ELSE stages
      /\ denoisers' = IF f.denoise = id
                      THEN [denoisers EXCEPT ![id] = [stream |-> id, activation |-> 0]]
                      ELSE denoisers
      /\ meters' = IF f.meter = id THEN [meters EXCEPT ![id] = f.graph] ELSE meters
  BY <1>0, PrepareReplacementFacts
<1>2. UNCHANGED <<inForce, offered, answered, runs, audible, streams, ran, out, noise, measured>>
  BY DEF PrepareReplacement, mailboxSide, heard
<1> HIDE DEF f
<1>3. /\ change'.step = "forward" /\ change'.forward = f
      /\ Undone' /\ ~Reversible' /\ ForwardAwaits' /\ ~Undone /\ ~Reversible
  BY <1>1 DEF Undone, Reversible, ForwardAwaits
<1>4. offered = "none" /\ runs = i
  BY <1>0, <1>1 DEF AnswerInv
<1>5. i \in Generations /\ made \in Nat /\ 2 * made' - 1 = id /\ 2 * made' - 2 = 2 * made
  BY <1>0, <1>1, GenerationFacts DEF ProcessingTyped
<1>6. /\ i.graph \in Makers /\ i.meter \in Makers /\ i.denoise \in MaybeMaker
      /\ stages[i.graph] \in GraphStages /\ stages[i.graph].primary \in Makers
      /\ f.graph \in Makers /\ f.meter \in Makers /\ f.denoise \in MaybeMaker
  BY <1>0, <1>1, <1>5, StageFacts
<1>7. /\ i.graph <= 2 * made /\ i.meter <= 2 * made /\ i.denoise <= 2 * made /\ Matches(i)
      /\ i.graph # id /\ i.meter # id /\ i.denoise # id
  BY <1>0, <1>5, <1>6 DEF GenerationInv, Older, Makers, MaybeMaker, NoOne
<1>8. LET t == TransitionGraph(id, stages[i.graph])
      IN  /\ t \in GraphStages /\ t.primary = id
          /\ Waits(t, {audible, id, stages[i.graph].primary})
  BY <1>0, <1>1, <1>6, TransitionFacts
<1>9. ProcessingTyped'
  <2>1. stages' \in [Makers -> GraphStages]
    BY <1>0, <1>1, <1>8 DEF ProcessingTyped
  <2>2. denoisers' \in [Makers -> DenoiseStages]
    <3>1. [stream |-> id, activation |-> 0] \in DenoiseStages
      BY <1>1 DEF DenoiseStages, MaybeMaker
    <3> QED
      BY <1>0, <1>1, <3>1 DEF ProcessingTyped
  <2>3. meters' \in [Makers -> Makers]
    BY <1>0, <1>1, <1>6 DEF ProcessingTyped
  <2>4. /\ change' \in [step : {"idle", "forward", "ready", "begun", "reversing"},
                       forward : Generations \union {NoOne},
                       reverse : Generations \union {NoOne}]
    BY <1>1
  <2> QED
    BY <1>0, <1>1, <1>2, <1>3, <2>1, <2>2, <2>3, <2>4 DEF ProcessingTyped
<1>10. AnswerInv'
  BY <1>2, <1>3, <1>4 DEF AnswerInv
<1>11. GenerationInv'
  <2>1. made' > 0 /\ 2 * made <= 2 * made'
    BY <1>1, <1>5
  <2>2. Older(i, 2 * made) /\ Older(i, 2 * made')
    <3>1. Older(i, 2 * made)
      BY <1>7 DEF Older
    <3>2. 2 * made \in Int /\ 2 * made' \in Int
      BY <1>1, <1>5
    <3> QED
      BY <1>5, <2>1, <3>1, <3>2, OlderMore
  <2>3. ForwardInv(i, f, 2 * made' - 1) /\ Older(i, 2 * made' - 2)
    BY <1>1, <1>5, <2>2, Zenon
  <2> QED
    BY <1>2, <1>3, <1>7, <2>1, <2>2, <2>3, Zenon DEF GenerationInv
<1>12. GraphInv'
  <2>1. stages'[i.graph] = stages[i.graph]
    BY <1>0, <1>1, <1>6, <1>7 DEF ProcessingTyped
  <2>2. f.graph # i.graph => f.graph = id /\ stages'[f.graph] = TransitionGraph(id, stages[i.graph])
    BY <1>0, <1>1 DEF ForwardInv, ProcessingTyped
  <2>3. f.graph # i.graph =>
          /\ stages'[f.graph].primary = f.graph
          /\ Waits(stages'[f.graph], {audible, stages[i.graph].primary})
    BY <1>8, <2>2 DEF Waits
  <2>4. stages[i.graph].primary <= 2 * made
    BY <1>0, <1>3 DEF GraphInv
  <2> QED
    BY <1>0, <1>2, <1>3, <1>4, <1>5, <2>1, <2>3, <2>4 DEF GraphInv, GraphsJoin
<1>13. MeterInv'
  <2>1. Live' = {i, f}
    BY <1>2, <1>3 DEF Live
  <2>2. meters[i.meter] = i.graph /\ measured[i.meter] \subseteq {i.plan} /\ measured[id] = {}
    BY <1>0, <1>1, <1>3, <1>5 DEF MeterInv, Live
  <2>3. f.meter = IF SamePath(f, i) THEN i.meter ELSE id
    BY <1>1 DEF ForwardInv
  <2>4. SamePath(f, i) => f.plan = i.plan /\ f.graph = i.graph
    BY <1>1, <1>5, <1>6, <1>7, SamePathForward DEF SamePath, Makers
  <2>5. meters'[i.meter] = i.graph /\ meters'[f.meter] = f.graph
    BY <1>0, <1>1, <1>6, <1>7, <2>2, <2>3, <2>4 DEF ProcessingTyped
  <2>6. measured[f.meter] \subseteq {f.plan}
    BY <2>2, <2>3, <2>4
  <2>7. ASSUME NEW m \in Makers, m > id PROVE measured[m] = {}
    BY <1>0, <1>3, <1>5, <2>7, <1>1 DEF MeterInv, Makers
  <2> QED
    BY <1>2, <1>3, <1>5, <2>1, <2>2, <2>5, <2>6, <2>7 DEF MeterInv
<1>14. NoiseInv'
  <2>1. Live' = {i, f}
    BY <1>2, <1>3 DEF Live
  <2>2. i.denoise # NoOne => /\ denoisers'[i.denoise] = denoisers[i.denoise]
                             /\ denoisers[i.denoise].stream # NoOne
    BY <1>0, <1>1, <1>6, <1>7 DEF ProcessingTyped, NoiseInv, Live, MaybeMaker
  <2>3. f.denoise \in {NoOne, i.denoise, id}
    BY <1>1 DEF ForwardInv
  <2>4. f.denoise = id => denoisers'[f.denoise] = [stream |-> id, activation |-> 0]
    BY <1>0, <1>1 DEF ProcessingTyped
  <2>5. id # NoOne
    BY <1>5 DEF NoOne
  <2>6. f.denoise # NoOne => denoisers'[f.denoise].stream # NoOne
    BY <2>2, <2>3, <2>4, <2>5
  <2>7. f.denoise \notin {NoOne, i.denoise} => denoisers'[f.denoise].activation = 0
    BY <2>3, <2>4
  <2> QED
    BY <1>0, <1>2, <1>3, <1>4, <2>1, <2>2, <2>6, <2>7 DEF NoiseInv, NoiseJoins
<1> QED
  BY <1>9, <1>10, <1>11, <1>12, <1>13, <1>14 DEF ProcessingInv

(* Preparing the reverse generation, before the forward one is offered:    *)
(* its graph leases the forward graph as well, which may be audible by     *)
(* then.                                                                   *)
LEMMA PrepareRestoreStep == ASSUME ProcessingInv, PrepareRestore PROVE ProcessingInv'
<1> DEFINE i  == inForce
           f  == change.forward
           r  == change'.reverse
           id == 2 * made
           t  == TransitionGraph(stages[i.graph].primary, stages[f.graph])
<1>0. ProcessingTyped /\ AnswerInv /\ GenerationInv /\ GraphInv /\ MeterInv /\ NoiseInv
  BY DEF ProcessingInv
<1>1. /\ id \in Makers /\ change.step = "forward" /\ r \in Generations
      /\ change' = [change EXCEPT !.step = "ready", !.reverse = r]
      /\ ReverseInv(i, f, r, id)
      /\ stages' = IF r.graph = id THEN [stages EXCEPT ![id] = t] ELSE stages
      /\ denoisers' = IF r.denoise = id
                      THEN [denoisers EXCEPT ![id] =
                              [stream |-> denoisers[i.denoise].stream, activation |-> 0]]
                      ELSE denoisers
      /\ meters' = IF r.meter = id THEN [meters EXCEPT ![id] = r.graph] ELSE meters
  BY <1>0, PrepareRestoreFacts
<1>2. UNCHANGED <<inForce, made, offered, answered, runs, audible, streams, ran, out, noise,
                  measured>>
  BY DEF PrepareRestore, mailboxSide, heard
<1> HIDE DEF r
<1>3. /\ change'.step = "ready" /\ change'.forward = f /\ change'.reverse = r
      /\ change' \in [step : {"idle", "forward", "ready", "begun", "reversing"},
                      forward : Generations \union {NoOne},
                      reverse : Generations \union {NoOne}]
  BY <1>0, <1>1 DEF ProcessingTyped
<1>4. /\ Undone' /\ Reversible' /\ Undone /\ ~Reversible
      /\ ForwardAwaits /\ ForwardAwaits' /\ ReverseAwaits'
  BY <1>1, <1>3 DEF Undone, Reversible, ForwardAwaits, ReverseAwaits
<1>5. offered = "none" /\ runs = i
  BY <1>0, <1>1 DEF AnswerInv
<1>6. /\ made \in Nat \ {0} /\ i \in Generations /\ f \in Generations
      /\ Older(i, 2 * made - 2) /\ Matches(i) /\ ForwardInv(i, f, 2 * made - 1)
  BY <1>0, <1>4, ForwardFacts DEF ProcessingTyped
<1>7. /\ i.graph \in Makers /\ i.meter \in Makers /\ i.denoise \in MaybeMaker
      /\ stages[i.graph] \in GraphStages /\ stages[i.graph].primary \in Makers
      /\ f.graph \in Makers /\ f.meter \in Makers /\ f.denoise \in MaybeMaker
      /\ stages[f.graph] \in GraphStages
      /\ r.graph \in Makers /\ r.meter \in Makers /\ r.denoise \in MaybeMaker
  BY <1>0, <1>1, <1>6, StageFacts
<1>8. /\ i.graph < id /\ i.meter < id /\ i.denoise < id
      /\ f.graph < id /\ f.meter < id /\ f.denoise < id
      /\ i.graph # id /\ i.meter # id /\ i.denoise # id
      /\ f.graph # id /\ f.meter # id /\ f.denoise # id
  <2>1. i.graph <= id - 2 /\ i.meter <= id - 2 /\ i.denoise <= id - 2
    BY <1>6 DEF Older
  <2>2. /\ f.graph \in {i.graph, id - 1} /\ f.meter \in {i.meter, id - 1}
        /\ f.denoise \in {NoOne, i.denoise, id - 1}
    BY <1>6 DEF ForwardInv
  <2> QED
    BY <1>6, <1>7, <2>1, <2>2 DEF Makers, MaybeMaker, NoOne
<1>9. /\ t \in GraphStages /\ t.primary = stages[i.graph].primary
      /\ Waits(t, {audible, stages[i.graph].primary, stages[f.graph].primary})
  BY <1>0, <1>7, TransitionFacts
<1> HIDE DEF t
<1>10. ProcessingTyped'
  <2>1. stages' \in [Makers -> GraphStages]
    BY <1>0, <1>1, <1>9 DEF ProcessingTyped
  <2>2. denoisers' \in [Makers -> DenoiseStages]
    <3>1. r.denoise = id => denoisers[i.denoise].stream \in MaybeMaker
      <4> SUFFICES ASSUME r.denoise = id PROVE denoisers[i.denoise].stream \in MaybeMaker
        OBVIOUS
      <4>1. i.denoise \in Makers
        BY <1>1, <1>7, <1>8 DEF ReverseInv, MaybeMaker
      <4> QED
        BY <1>0, <4>1 DEF ProcessingTyped, DenoiseStages
    <3>2. r.denoise = id =>
            [stream |-> denoisers[i.denoise].stream, activation |-> 0] \in DenoiseStages
      BY <3>1 DEF DenoiseStages
    <3> QED
      BY <1>0, <1>1, <3>2 DEF ProcessingTyped
  <2>3. meters' \in [Makers -> Makers]
    BY <1>0, <1>1, <1>7 DEF ProcessingTyped
  <2> QED
    BY <1>0, <1>1, <1>2, <1>3, <1>6, <2>1, <2>2, <2>3 DEF ProcessingTyped
<1>11. AnswerInv'
  BY <1>2, <1>3, <1>5 DEF AnswerInv
<1>12. GenerationInv'
  BY <1>0, <1>1, <1>2, <1>3, <1>4, Zenon DEF GenerationInv
<1>13. GraphInv'
  <2>1. stages'[i.graph] = stages[i.graph] /\ stages'[f.graph] = stages[f.graph]
    BY <1>0, <1>1, <1>7, <1>8 DEF ProcessingTyped
  <2>2. f.graph # i.graph =>
          /\ stages[f.graph].primary = f.graph
          /\ Waits(stages[f.graph], {audible, stages[i.graph].primary})
    BY <1>0, <1>4 DEF GraphInv
  <2>3. f.graph # i.graph => r.graph = id /\ stages'[r.graph] = t
    BY <1>0, <1>1 DEF ReverseInv, ProcessingTyped
  <2>4. f.graph # i.graph =>
          /\ stages'[r.graph].primary = stages[i.graph].primary
          /\ Waits(stages'[r.graph], {audible, stages[i.graph].primary, f.graph})
    BY <1>9, <2>2, <2>3
  <2>5. stages[i.graph].primary <= 2 * made - 2
    BY <1>0, <1>4 DEF GraphInv
  <2> QED
    BY <1>0, <1>2, <1>3, <1>4, <1>5, <2>1, <2>2, <2>4, <2>5 DEF GraphInv, GraphsJoin
<1>14. MeterInv'
  <2>1. Live = {i, f} /\ Live' = {i, f, r}
    BY <1>2, <1>3, <1>4 DEF Live
  <2>2. /\ meters[i.meter] = i.graph /\ measured[i.meter] \subseteq {i.plan}
        /\ meters[f.meter] = f.graph /\ measured[f.meter] \subseteq {f.plan}
        /\ measured[id] = {}
    BY <1>0, <1>1, <1>6, <2>1 DEF MeterInv
  <2>3. r.meter = IF SamePath(r, f) THEN f.meter ELSE id
    BY <1>1 DEF ReverseInv
  <2>4. SamePath(r, f) => r.plan = f.plan /\ r.graph = f.graph
    <3> SUFFICES ASSUME SamePath(r, f) PROVE r.plan = f.plan /\ r.graph = f.graph
      OBVIOUS
    <3>1. SamePath(f, i)
      BY <1>1, <1>6, SamePathBack
    <3>2. i.graph < 2 * made - 1 /\ 2 * made - 1 \in Nat
      BY <1>6, <1>7 DEF Older, Makers
    <3>3. f.plan = i.plan
      BY <1>6, <3>1, <3>2, SamePathForward
    <3> QED
      BY <1>1, <3>3 DEF ReverseInv, SamePath
  <2>5. /\ meters'[i.meter] = i.graph /\ meters'[f.meter] = f.graph
        /\ meters'[r.meter] = r.graph
    BY <1>0, <1>1, <1>7, <1>8, <2>2, <2>3, <2>4 DEF ProcessingTyped
  <2>6. measured[r.meter] \subseteq {r.plan}
    BY <2>2, <2>3, <2>4
  <2>7. ASSUME NEW m \in Makers, m > id PROVE measured[m] = {}
    BY <1>0, <1>1, <1>6, <2>7 DEF MeterInv, Makers
  <2> QED
    BY <1>2, <1>3, <2>1, <2>2, <2>5, <2>6, <2>7 DEF MeterInv
<1>15. NoiseInv'
  <2>1. Live = {i, f} /\ Live' = {i, f, r}
    BY <1>2, <1>3, <1>4 DEF Live
  <2>2. /\ i.denoise # NoOne => /\ denoisers'[i.denoise] = denoisers[i.denoise]
                                /\ denoisers[i.denoise].stream # NoOne
        /\ f.denoise # NoOne => /\ denoisers'[f.denoise] = denoisers[f.denoise]
                                /\ denoisers[f.denoise].stream # NoOne
    BY <1>0, <1>1, <1>7, <1>8, <2>1 DEF ProcessingTyped, NoiseInv, MaybeMaker
  <2>3. /\ r.denoise \in {i.denoise, id}
        /\ r.denoise = id => i.denoise # NoOne
    BY <1>1, <1>7, <1>8 DEF ReverseInv, MaybeMaker, Makers, NoOne
  <2>4. r.denoise = id =>
          denoisers'[r.denoise] = [stream |-> denoisers[i.denoise].stream, activation |-> 0]
    BY <1>0, <1>1 DEF ProcessingTyped
  <2>5. r.denoise # NoOne => denoisers'[r.denoise].stream # NoOne
    BY <2>2, <2>3, <2>4
  <2>6. r.denoise \notin {NoOne, i.denoise} => denoisers'[r.denoise].activation = 0
    BY <2>3, <2>4
  <2> QED
    BY <1>0, <1>2, <1>3, <1>4, <1>5, <2>1, <2>2, <2>5, <2>6 DEF NoiseInv, NoiseJoins
<1> QED
  BY <1>10, <1>11, <1>12, <1>13, <1>14, <1>15 DEF ProcessingInv

-----------------------------------------------------------------------------
(* The end of an update.                                                   *)

(* The generations of an update are older than the next one.               *)
LEMMA LiveFacts ==
    ASSUME ProcessingInv, NEW g \in Live
    PROVE  /\ g \in Generations /\ Matches(g) /\ Older(g, 2 * made)
           /\ stages[g.graph].primary <= 2 * made
<1> DEFINE i == inForce
           f == change.forward
           r == change.reverse
<1>0. ProcessingTyped /\ GenerationInv /\ GraphInv /\ made \in Nat /\ 2 * made \in Int
  BY GenerationFacts DEF ProcessingInv
<1>1. CASE g = i
  <2>1. stages[i.graph].primary <= 2 * made
    <3>1. i.graph \in Makers /\ stages[i.graph].primary \in Makers
      BY <1>0, StageFacts DEF ProcessingTyped
    <3> QED
      BY <1>0, <3>1 DEF GraphInv, Makers
  <2> QED
    BY <1>0, <1>1, <2>1 DEF GenerationInv, ProcessingTyped
<1>2. CASE Undone /\ g = f
  <2>1. /\ f \in Generations /\ Older(i, 2 * made - 2) /\ Matches(f)
        /\ f.graph \in {i.graph, 2 * made - 1} /\ f.denoise \in {NoOne, i.denoise, 2 * made - 1}
        /\ f.meter \in {i.meter, 2 * made - 1}
    BY <1>0, <1>2, ForwardFacts DEF ForwardInv
  <2>2. Older(f, 2 * made)
    <3>1. i.graph \in Nat /\ i.meter \in Nat /\ i.denoise \in Int
      BY <1>0 DEF ProcessingTyped, Generations, Makers, NoOne
    <3> QED
      BY <1>0, <2>1, <3>1 DEF Older, NoOne
  <2>3. stages[f.graph].primary <= 2 * made
    <3>1. i.graph \in Makers /\ stages[i.graph].primary \in Makers
      BY <1>0, StageFacts DEF ProcessingTyped
    <3>2. stages[i.graph].primary <= 2 * made
      BY <1>0, <1>2, <3>1 DEF GraphInv, Makers
    <3> QED
      BY <1>0, <1>2, <2>1, <3>2 DEF GraphInv
  <2> QED
    BY <1>2, <2>1, <2>2, <2>3
<1>3. CASE Reversible /\ g = r
  <2>0. Undone
    BY <1>3 DEF Reversible, Undone
  <2>1. /\ r \in Generations /\ i \in Generations /\ Older(i, 2 * made - 2) /\ Matches(i)
        /\ ReverseInv(i, f, r, 2 * made) /\ made \in Nat \ {0}
        /\ f.meter \in {i.meter, 2 * made - 1}
    BY <1>0, <1>3, <2>0, ForwardFacts DEF ProcessingTyped, GenerationInv, Reversible
  <2>2. /\ r.graph \in {i.graph, 2 * made} /\ r.denoise \in {i.denoise, 2 * made}
        /\ r.meter \in {f.meter, 2 * made} /\ r.plan = i.plan
    BY <2>1 DEF ReverseInv
  <2>3. i.graph \in Nat /\ i.meter \in Nat /\ i.denoise \in Int
    BY <2>1 DEF Generations, Makers, NoOne
  <2>4. Older(r, 2 * made)
    BY <2>1, <2>2, <2>3 DEF Older
  <2>5. Matches(r)
    BY <2>1 DEF ReverseInv, Matches, NoOne
  <2>6. stages[r.graph].primary = stages[i.graph].primary
    BY <1>0, <1>3, <2>0, <2>1 DEF GraphInv, ReverseInv
  <2>7. stages[i.graph].primary <= 2 * made
    <3>1. stages[i.graph].primary \in Makers
      BY <1>0, <2>1, StageFacts
    <3> QED
      BY <1>0, <2>0, <3>1 DEF GraphInv, Makers
  <2> QED
    BY <1>3, <2>1, <2>4, <2>5, <2>6, <2>7
<1> QED
  BY <1>1, <1>2, <1>3 DEF Live

(* Whatever an update ends with is what the callback runs, and what it     *)
(* runs is kept.                                                           *)
LEMMA SettleStep ==
    ASSUME ProcessingInv, DropPreparation \/ CommitForward \/ SettleReverse
    PROVE  ProcessingInv'
<1> DEFINE g == runs
<1>0. ProcessingTyped /\ AnswerInv /\ GenerationInv /\ GraphInv /\ MeterInv /\ NoiseInv
  BY DEF ProcessingInv
<1>1. Settle(g) /\ g \in Live /\ offered = "none"
  <2>1. CASE DropPreparation
    BY <1>0, <2>1 DEF DropPreparation, AnswerInv, Live
  <2>2. CASE CommitForward
    BY <1>0, <2>2 DEF CommitForward, AnswerInv, Live, Undone
  <2>3. CASE SettleReverse
    BY <1>0, <2>3 DEF SettleReverse, AnswerInv, Live, Reversible
  <2> QED
    BY <2>1, <2>2, <2>3
<1>2. /\ inForce' = g /\ change' = NoChange
      /\ UNCHANGED <<made, offered, answered, runs, audible, ran, out, noise>>
      /\ stages' = [m \in Makers |-> IF m \in {g.graph, 0} THEN stages[m] ELSE FlatStage(m)]
      /\ denoisers' = [m \in Makers |->
                          IF m \in {g.denoise, 0} THEN denoisers[m] ELSE NoDenoiser]
      /\ streams' = [m \in Makers |->
                        IF m \in {denoisers[b].stream : b \in {g.denoise, 0} \ {NoOne}}
                        THEN streams[m] ELSE IdleStream]
      /\ meters' = [m \in Makers |-> IF m = g.meter THEN meters[m] ELSE m]
      /\ measured' = [m \in Makers |-> IF m = g.meter THEN measured[m] ELSE {}]
  BY <1>1 DEF Settle, FreeAllBut, mailboxSide
<1>3. /\ change'.step = "idle" /\ ~Undone' /\ ~Reversible' /\ Live' = {g}
  BY <1>2 DEF NoChange, Undone, Reversible, Live
<1>4. /\ g \in Generations /\ Matches(g) /\ Older(g, 2 * made)
      /\ stages[g.graph].primary <= 2 * made
  BY <1>1, LiveFacts
<1>5. g.graph \in Makers /\ g.meter \in Makers /\ g.denoise \in MaybeMaker
  BY <1>0, <1>4, StageFacts
<1>6. ProcessingTyped'
  <2>1. ASSUME NEW m \in Makers PROVE FlatStage(m) \in GraphStages
    BY ProcessingAssumption DEF FlatStage, GraphStages, MaybeMaker
  <2>2. NoDenoiser \in DenoiseStages
    BY DEF NoDenoiser, DenoiseStages, MaybeMaker
  <2>3. stages' \in [Makers -> GraphStages]
    BY <1>0, <1>2, <2>1 DEF ProcessingTyped
  <2>4. denoisers' \in [Makers -> DenoiseStages]
    BY <1>0, <1>2, <2>2 DEF ProcessingTyped
  <2>5. streams' \in [Makers -> DenoiseStreams]
    BY <1>0, <1>2, IdleFacts DEF ProcessingTyped
  <2>6. meters' \in [Makers -> Makers] /\ measured' \in [Makers -> SUBSET ProcessingPlans]
    BY <1>0, <1>2 DEF ProcessingTyped
  <2>7. change' \in [step : {"idle", "forward", "ready", "begun", "reversing"},
                     forward : Generations \union {NoOne}, reverse : Generations \union {NoOne}]
    BY <1>2 DEF NoChange
  <2> QED
    BY <1>0, <1>2, <1>3, <1>4, <2>3, <2>4, <2>5, <2>6, <2>7 DEF ProcessingTyped
<1>7. AnswerInv'
  BY <1>1, <1>2, <1>3 DEF AnswerInv
<1>8. GenerationInv'
  BY <1>2, <1>3, <1>4 DEF GenerationInv
<1>9. GraphInv'
  <2>1. stages'[g.graph] = stages[g.graph]
    BY <1>2, <1>5
  <2> QED
    BY <1>0, <1>2, <1>3, <1>4, <2>1 DEF GraphInv, GraphsJoin
<1>10. MeterInv'
  <2>1. meters'[g.meter] = meters[g.meter] /\ measured'[g.meter] = measured[g.meter]
    BY <1>2, <1>5
  <2>2. ASSUME NEW m \in Makers, m > 2 * made PROVE measured'[m] = {}
    <3>1. g.meter <= 2 * made /\ g.meter \in Nat /\ made \in Nat /\ m \in Nat
      BY <1>0, <1>4, <1>5, GenerationFacts DEF Older, Makers
    <3>2. m # g.meter
      BY <2>2, <3>1
    <3> QED
      BY <1>2, <3>2
  <2> QED
    BY <1>0, <1>1, <1>2, <1>3, <2>1, <2>2 DEF MeterInv
<1>11. NoiseInv'
  <2>1. \A m \in Makers : streams'[m] \in {streams[m], IdleStream}
    BY <1>2
  <2>2. \A m \in Makers : Rested(streams'[m])
    BY <1>0, <2>1, IdleFacts DEF NoiseInv
  <2>3. noise.stream # NoOne => ~streams'[noise.stream].gap
    BY <1>0, <2>1, IdleFacts DEF NoiseInv, NoiseJoins, ProcessingTyped, MaybeMaker
  <2>4. g.denoise # NoOne =>
          /\ denoisers'[g.denoise] = denoisers[g.denoise]
          /\ denoisers[g.denoise].stream # NoOne
          /\ streams'[denoisers[g.denoise].stream] = streams[denoisers[g.denoise].stream]
    <3> SUFFICES ASSUME g.denoise # NoOne
                 PROVE  /\ denoisers'[g.denoise] = denoisers[g.denoise]
                        /\ denoisers[g.denoise].stream # NoOne
                        /\ streams'[denoisers[g.denoise].stream]
                             = streams[denoisers[g.denoise].stream]
      OBVIOUS
    <3>1. g.denoise \in Makers /\ denoisers[g.denoise].stream # NoOne
      BY <1>0, <1>1, <1>5 DEF NoiseInv, MaybeMaker
    <3>2. denoisers[g.denoise].stream \in Makers
      BY <1>0, <3>1 DEF ProcessingTyped, DenoiseStages, MaybeMaker
    <3>3. denoisers[g.denoise].stream \in {denoisers[b].stream : b \in {g.denoise, 0} \ {NoOne}}
      OBVIOUS
    <3> QED
      BY <1>2, <3>1, <3>2, <3>3
  <2> QED
    BY <1>0, <1>2, <1>3, <2>2, <2>3, <2>4 DEF NoiseInv, NoiseJoins
<1> QED
  BY <1>6, <1>7, <1>8, <1>9, <1>10, <1>11 DEF ProcessingInv

-----------------------------------------------------------------------------
(* The steps of the callback.                                              *)

\* A block leaves the update alone.
LEMMA BlockKeeps ==
    ASSUME ProcessingInv, UNCHANGED <<control, mailboxSide>>
    PROVE  /\ UNCHANGED <<inForce, change, made, offered, answered, runs>>
           /\ AnswerInv' /\ GenerationInv' /\ Live' = Live
           /\ (Undone' <=> Undone) /\ (Reversible' <=> Reversible)
           /\ (ForwardAwaits' <=> ForwardAwaits) /\ (ReverseAwaits' <=> ReverseAwaits)
<1>1. UNCHANGED <<inForce, change, made, offered, answered, runs>>
  BY DEF control, mailboxSide
<1>2. /\ (Undone' <=> Undone) /\ (Reversible' <=> Reversible)
      /\ (ForwardAwaits' <=> ForwardAwaits) /\ (ReverseAwaits' <=> ReverseAwaits)
  BY <1>1 DEF Undone, Reversible, ForwardAwaits, ReverseAwaits
<1>3. AnswerInv'
  BY <1>1 DEF ProcessingInv, AnswerInv
<1>4. GenerationInv'
  BY <1>1, <1>2 DEF ProcessingInv, GenerationInv
<1>5. Live' = Live
  BY <1>1, <1>2 DEF Live
<1> QED
  BY <1>1, <1>2, <1>3, <1>4, <1>5

\* While a generation waits, the callback runs one whose names it does not share.
LEMMA WaitingFacts ==
    ASSUME ProcessingInv
    PROVE  /\ runs \in Live /\ runs \in Generations
           /\ ForwardAwaits => Undone /\ runs = inForce
           /\ ReverseAwaits /\ Reversible => Undone /\ runs \in {inForce, change.forward}
           /\ ~Undone \/ change.step = "forward" => runs = inForce
           /\ Reversible /\ change.forward.graph # inForce.graph =>
                /\ change.reverse.graph # inForce.graph
                /\ change.reverse.graph # change.forward.graph
           /\ Reversible /\ change.reverse.denoise \notin {NoOne, inForce.denoise} =>
                change.reverse.denoise # change.forward.denoise
<1> DEFINE i == inForce
           f == change.forward
           r == change.reverse
<1>0. ProcessingTyped /\ AnswerInv /\ GenerationInv
  BY DEF ProcessingInv
<1>1. /\ runs \in Live /\ runs \in Generations
      /\ ForwardAwaits => Undone /\ runs = i
      /\ ReverseAwaits /\ Reversible => Undone /\ runs \in {i, f}
      /\ ~Undone \/ change.step = "forward" => runs = i
  BY <1>0 DEF AnswerInv, Live, Undone, Reversible, ForwardAwaits, ReverseAwaits, ProcessingTyped
<1>2. ASSUME Reversible
      PROVE  /\ f.graph # i.graph => r.graph # i.graph /\ r.graph # f.graph
             /\ r.denoise \notin {NoOne, i.denoise} => r.denoise # f.denoise
  <2>1. Undone
    BY <1>2 DEF Undone, Reversible
  <2>2. /\ i.graph <= 2 * made - 2 /\ i.graph \in Nat /\ made \in Nat \ {0}
        /\ f.graph \in {i.graph, 2 * made - 1} /\ ForwardInv(i, f, 2 * made - 1)
        /\ ReverseInv(i, f, r, 2 * made)
    <3>1. Older(i, 2 * made - 2) /\ i \in Generations /\ ReverseInv(i, f, r, 2 * made)
      BY <1>0, <1>2, <2>1, ForwardFacts DEF GenerationInv, ProcessingTyped
    <3> QED
      BY <1>0, <2>1, <3>1, ForwardFacts DEF Older, Generations, Makers
  <2>3. f.graph # i.graph => r.graph # i.graph /\ r.graph # f.graph
    BY <2>2 DEF ReverseInv
  <2>4. r.denoise \notin {NoOne, i.denoise} => f.denoise = NoOne
    BY <2>2 DEF ReverseInv
  <2> QED
    BY <2>3, <2>4
<1> QED
  BY <1>1, <1>2

(* The noise reduction of a block, whether it runs, rests or fails.        *)
LEMMA NoiseStep ==
    ASSUME ProcessingInv, UNCHANGED <<control, mailboxSide>>, NEW n \in 1 .. MaxBlock,
           Reduction(n) \/ DenoiseFails(n)
    PROVE  /\ NoiseInv' /\ noise'.stream \in MaybeMaker
           /\ denoisers' \in [Makers -> DenoiseStages] /\ streams' \in [Makers -> DenoiseStreams]
<1> DEFINE i == inForce
           f == change.forward
           r == change.reverse
<1>0. ProcessingTyped /\ AnswerInv /\ GenerationInv /\ NoiseInv
  BY DEF ProcessingInv
<1>1. /\ UNCHANGED <<inForce, change, made, offered, answered, runs>> /\ Live' = Live
      /\ (Undone' <=> Undone) /\ (Reversible' <=> Reversible)
      /\ (ForwardAwaits' <=> ForwardAwaits) /\ (ReverseAwaits' <=> ReverseAwaits)
  BY BlockKeeps
<1>2. runs \in Generations
  BY <1>0 DEF ProcessingTyped
<1>3. /\ Reduced'
      /\ \A m \in Makers : /\ denoisers'[m].stream = denoisers[m].stream
                           /\ m # runs.denoise => denoisers'[m] = denoisers[m]
  BY <1>0, <1>1, <1>2, ReducedNow, ReductionFacts
<1>4. /\ NoiseJoins' /\ noise'.stream \in MaybeMaker /\ \A m \in Makers : Rested(streams'[m])
      /\ denoisers' \in [Makers -> DenoiseStages] /\ streams' \in [Makers -> DenoiseStreams]
      /\ runs.denoise # NoOne =>
            Reducing(streams'[denoisers'[runs.denoise].stream], denoisers'[runs.denoise].activation)
  BY <1>1, <1>3 DEF Reduced, StreamsInv, Ready
<1>5. ASSUME NEW g \in Live PROVE g.denoise # NoOne => denoisers'[g.denoise].stream # NoOne
  <2>1. g.denoise \in MaybeMaker
    BY <1>0, LiveFacts, StageFacts
  <2> QED
    BY <1>0, <1>3, <2>1 DEF NoiseInv, MaybeMaker
<1>6. ASSUME Undone, ForwardAwaits, f.denoise \notin {NoOne, i.denoise}
      PROVE  denoisers'[f.denoise].activation = 0
  <2>1. f.denoise \in Makers /\ f.denoise # runs.denoise
    BY <1>0, <1>6, WaitingFacts, StageFacts DEF ProcessingTyped, Undone, MaybeMaker
  <2> QED
    BY <1>0, <1>3, <1>6, <2>1 DEF NoiseInv
<1>7. ASSUME Reversible, ReverseAwaits, r.denoise \notin {NoOne, i.denoise}
      PROVE  denoisers'[r.denoise].activation = 0
  <2>1. r.denoise \in Makers
    BY <1>0, <1>7, StageFacts DEF ProcessingTyped, Reversible, MaybeMaker
  <2>2. r.denoise # runs.denoise
    BY <1>7, WaitingFacts
  <2> QED
    BY <1>0, <1>3, <1>7, <2>1, <2>2 DEF NoiseInv
<1> QED
  BY <1>1, <1>4, <1>5, <1>6, <1>7 DEF NoiseInv

\* What stays true of the stages when the one that runs has been run.
LEMMA StagesStep ==
    ASSUME ProcessingInv, UNCHANGED <<control, mailboxSide>>,
           NEW t \in GraphStages, t.primary = stages[runs.graph].primary,
           stages' = [stages EXCEPT ![runs.graph] = t],
           audible' \in {audible, stages[runs.graph].primary},
           audible' \in out'.last, GraphsJoin', Sounding(t, audible', ran'[t.primary])
    PROVE  GraphInv' /\ stages' \in [Makers -> GraphStages]
<1> DEFINE i == inForce
           f == change.forward
           r == change.reverse
           x == runs.graph
<1>0. ProcessingTyped /\ AnswerInv /\ GenerationInv /\ GraphInv /\ stages \in [Makers -> GraphStages]
  BY DEF ProcessingInv, ProcessingTyped
<1>1. /\ UNCHANGED <<inForce, change, made, offered, answered, runs>>
      /\ (Undone' <=> Undone) /\ (Reversible' <=> Reversible)
      /\ (ForwardAwaits' <=> ForwardAwaits) /\ (ReverseAwaits' <=> ReverseAwaits)
  BY BlockKeeps
<1>2. x \in Makers /\ i.graph \in Makers
  BY <1>0, WaitingFacts, StageFacts DEF ProcessingTyped
<1>3. stages' \in [Makers -> GraphStages] /\ stages'[x] = t
  BY <1>0, <1>2
<1>4. ASSUME NEW m \in Makers
      PROVE  stages'[m].primary = stages[m].primary /\ (m # x => stages'[m] = stages[m])
  BY <1>0, <1>2
<1>5. ASSUME Undone, f.graph # i.graph
      PROVE  /\ stages'[f.graph].primary = f.graph
             /\ ForwardAwaits => Waits(stages'[f.graph], {audible', stages'[i.graph].primary})
  <2>1. f.graph \in Makers
    BY <1>0, <1>5, StageFacts DEF ProcessingTyped, Undone
  <2>2. stages[f.graph].primary = f.graph
    BY <1>0, <1>5 DEF GraphInv
  <2>3. ASSUME ForwardAwaits
        PROVE  Waits(stages'[f.graph], {audible', stages'[i.graph].primary})
    <3>1. x = i.graph /\ stages'[f.graph] = stages[f.graph]
      BY <1>4, <1>5, <2>1, <2>3, WaitingFacts
    <3>2. Waits(stages[f.graph], {audible, stages[i.graph].primary})
      BY <1>0, <1>5, <2>3 DEF GraphInv
    <3>3. audible' \in {audible, stages[i.graph].primary}
      BY <3>1
    <3> QED
      BY <1>2, <1>4, <3>1, <3>2, <3>3 DEF Waits
  <2> QED
    BY <1>4, <2>1, <2>2, <2>3
<1>6. ASSUME Reversible, f.graph # i.graph
      PROVE  /\ stages'[r.graph].primary = stages'[i.graph].primary
             /\ ReverseAwaits =>
                  Waits(stages'[r.graph], {audible', stages'[i.graph].primary, f.graph})
  <2>1. r.graph \in Makers /\ Undone
    BY <1>0, <1>6, StageFacts DEF ProcessingTyped, Reversible, Undone
  <2>2. stages[r.graph].primary = stages[i.graph].primary /\ stages[f.graph].primary = f.graph
    BY <1>0, <1>6, <2>1 DEF GraphInv
  <2>3. ASSUME ReverseAwaits
        PROVE  Waits(stages'[r.graph], {audible', stages'[i.graph].primary, f.graph})
    <3>1. x \in {i.graph, f.graph} /\ stages'[r.graph] = stages[r.graph]
      BY <1>4, <1>6, <2>1, <2>3, WaitingFacts
    <3>2. Waits(stages[r.graph], {audible, stages[i.graph].primary, f.graph})
      BY <1>0, <1>6, <2>3 DEF GraphInv
    <3>3. audible' \in {audible, stages[i.graph].primary, f.graph}
      BY <2>2, <3>1
    <3> QED
      BY <1>2, <1>4, <3>1, <3>2, <3>3 DEF Waits
  <2> QED
    BY <1>2, <1>4, <2>1, <2>2, <2>3
<1>7. stages'[i.graph].primary <= IF Undone THEN 2 * made - 2 ELSE 2 * made
  BY <1>0, <1>2, <1>4 DEF GraphInv
<1>8. Sounding(stages'[x], audible', ran'[stages'[x].primary])
  BY <1>3
<1>9. GraphInv'
  BY <1>1, <1>5, <1>6, <1>7, <1>8 DEF GraphInv
<1> QED
  BY <1>3, <1>9

(* A whole block: noise reduction, graphs and meter.                       *)
LEMMA ReceiveBlockStep ==
    ASSUME ProcessingInv, NEW n \in 1 .. MaxBlock, ReceiveBlock(n)
    PROVE  ProcessingInv'
<1> DEFINE x == runs.graph
           s == stages[x]
           r == Processed(s, n)
<1>0. ProcessingTyped /\ AnswerInv /\ GenerationInv /\ GraphInv /\ MeterInv /\ NoiseInv
  BY DEF ProcessingInv
<1>1. /\ runs \in Live /\ runs \in Generations /\ x \in Makers /\ runs.meter \in Makers
      /\ runs.plan \in ProcessingPlans
      /\ s \in GraphStages /\ s.primary \in Makers
  BY <1>0, WaitingFacts, StageFacts
<1>2. meters[runs.meter] = x /\ measured[runs.meter] \subseteq {runs.plan}
  BY <1>0, <1>1 DEF MeterInv
<1>3. /\ Reduction(n)
      /\ stages' = [stages EXCEPT ![x] = r.stage]
      /\ audible' = AudibleAfter(r)
      /\ out' = [joined |-> r.first \in out.last, last |-> r.last]
      /\ ran' = [m \in Makers |-> RanAfter(r, m, n)]
      /\ measured' = [measured EXCEPT ![runs.meter] = @ \union {runs.plan}]
      /\ UNCHANGED <<control, mailboxSide, meters>>
  BY <1>2, Zenon DEF ReceiveBlock, AudibleAfter, RanAfter
<1>4. HeardInv(s)
  BY <1>0 DEF GraphInv, GraphsJoin, HeardInv
<1>5. /\ r.first = audible
      /\ r.last \subseteq Makers /\ AudibleAfter(r) \in r.last
      /\ AudibleAfter(r) \in {audible, s.primary}
      /\ \A g \in r.last : RanAfter(r, g, n) > Prime
      /\ r.stage \in GraphStages /\ r.stage.primary = s.primary
      /\ Sounding(r.stage, AudibleAfter(r), RanAfter(r, s.primary, n))
  BY <1>0, <1>1, <1>4, BlockHeard
<1> HIDE DEF r
<1>6. /\ UNCHANGED <<inForce, change, made, offered, answered, runs>>
      /\ AnswerInv' /\ GenerationInv' /\ Live' = Live
  BY <1>3, BlockKeeps
<1>7. /\ NoiseInv' /\ noise'.stream \in MaybeMaker
      /\ denoisers' \in [Makers -> DenoiseStages] /\ streams' \in [Makers -> DenoiseStreams]
  BY <1>3, NoiseStep
<1>8. out'.last = r.last /\ out'.joined
  <2> DEFINE first == r.first \in out.last
  <2>1. first
    BY <1>4, <1>5 DEF HeardInv
  <2>2. out' = [joined |-> TRUE, last |-> r.last]
    BY <1>3, <2>1, Zenon
  <2> QED
    BY <2>2
<1>9. ASSUME NEW m \in Makers PROVE ran'[m] = RanAfter(r, m, n)
  BY <1>3
<1>10. GraphInv' /\ stages' \in [Makers -> GraphStages]
  <2>1. GraphsJoin'
    BY <1>5, <1>8, <1>9 DEF GraphsJoin
  <2>2. Sounding(r.stage, audible', ran'[r.stage.primary])
    BY <1>1, <1>3, <1>5, <1>9
  <2>3. audible' \in out'.last /\ audible' \in {audible, s.primary}
    BY <1>3, <1>5, <1>8
  <2> QED
    BY <1>3, <1>5, <2>1, <2>2, <2>3, StagesStep
<1>11. MeterInv' /\ measured' \in [Makers -> SUBSET ProcessingPlans]
  <2>1. ASSUME NEW m \in Makers
        PROVE  measured'[m] = IF m = runs.meter THEN measured[m] \union {runs.plan}
                              ELSE measured[m]
    BY <1>0, <1>1, <1>3 DEF ProcessingTyped
  <2>2. measured' \in [Makers -> SUBSET ProcessingPlans]
    BY <1>0, <1>1, <1>3 DEF ProcessingTyped
  <2>3. ASSUME NEW g \in Live
        PROVE  meters'[g.meter] = g.graph /\ measured'[g.meter] \subseteq {g.plan}
    <3>1. /\ meters[g.meter] = g.graph /\ measured[g.meter] \subseteq {g.plan}
          /\ g.meter \in Makers
      BY <1>0, LiveFacts, StageFacts DEF MeterInv
    <3>2. g.meter = runs.meter => g.plan = runs.plan
      BY <1>0, <1>1, SameMeter
    <3> QED
      BY <1>3, <2>1, <3>1, <3>2
  <2>4. ASSUME NEW m \in Makers,
               m > (IF change.step = "forward" THEN 2 * made - 1 ELSE 2 * made)
        PROVE  measured'[m] = {}
    <3>1. made \in Nat /\ runs.meter \in Nat /\ m \in Nat
      BY <1>0, <1>1, GenerationFacts DEF Makers
    <3>2. m # runs.meter
      <4>1. CASE change.step = "forward"
        <5>1. runs = inForce /\ Older(inForce, 2 * made - 2)
          BY <1>0, <4>1, WaitingFacts, ForwardFacts DEF Undone
        <5> QED
          BY <2>4, <3>1, <4>1, <5>1 DEF Older
      <4>2. CASE change.step # "forward"
        BY <1>1, <2>4, <3>1, <4>2, LiveFacts DEF Older
      <4> QED
        BY <4>1, <4>2
    <3> QED
      BY <1>0, <2>1, <2>4, <3>2 DEF MeterInv
  <2> QED
    BY <1>6, <2>2, <2>3, <2>4 DEF MeterInv
<1>12. ran' \in [Makers -> 0 .. Prime + 1]
  <2>1. ASSUME NEW m \in Makers PROVE RanAfter(r, m, n) \in 0 .. Prime + 1
    <3>1. ran[m] \in 0 .. Prime + 1 /\ n \in Nat /\ Prime \in Nat
      BY <1>0, ProcessingAssumption DEF ProcessingTyped
    <3> QED
      BY <3>1 DEF RanAfter, Least
  <2> QED
    BY <1>3, <2>1
<1>13. ProcessingTyped'
  <2>1. audible' \in Makers /\ out'.last \subseteq Makers
    BY <1>3, <1>5, <1>8
  <2>2. meters' = meters
    BY <1>3
  <2> QED
    BY <1>0, <1>6, <1>7, <1>10, <1>11, <1>12, <2>1, <2>2 DEF ProcessingTyped
<1> QED
  BY <1>6, <1>7, <1>10, <1>11, <1>13 DEF ProcessingInv

(* A block whose graph or whose noise reduction fails half way.            *)
LEMMA FailedBlockStep ==
    ASSUME ProcessingInv, NEW n \in 1 .. MaxBlock, GraphFails(n) \/ DenoiseFails(n)
    PROVE  ProcessingInv'
<1> DEFINE x == runs.graph
           s == stages[x]
<1>0. ProcessingTyped /\ AnswerInv /\ GenerationInv /\ GraphInv /\ MeterInv /\ NoiseInv
  BY DEF ProcessingInv
<1>1. /\ runs \in Live /\ runs \in Generations /\ x \in Makers
      /\ s \in GraphStages /\ s.primary \in Makers /\ meters[runs.meter] = x
  BY <1>0, WaitingFacts, StageFacts DEF MeterInv
<1>2. /\ Reduction(n) \/ DenoiseFails(n)
      /\ UNCHANGED <<control, mailboxSide, audible, meters, ran, out, measured>>
  BY DEF GraphFails, DenoiseFails
<1>3. \/ UNCHANGED stages
      \/ ~Alone(s) /\ stages' = [stages EXCEPT ![x].chosen = Predecessor(s)]
  BY <1>1 DEF GraphFails, DenoiseFails
<1>4. /\ UNCHANGED <<inForce, change, made, offered, answered, runs>>
      /\ AnswerInv' /\ GenerationInv' /\ Live' = Live
  BY <1>2, BlockKeeps
<1>5. /\ NoiseInv' /\ noise'.stream \in MaybeMaker
      /\ denoisers' \in [Makers -> DenoiseStages] /\ streams' \in [Makers -> DenoiseStreams]
  BY <1>2, NoiseStep
<1>6. HeardInv(s)
  BY <1>0 DEF GraphInv, GraphsJoin, HeardInv
<1>7. PICK t \in GraphStages :
         /\ stages' = [stages EXCEPT ![x] = t] /\ t.primary = s.primary
         /\ Sounding(t, audible, ran[s.primary])
  <2>1. CASE UNCHANGED stages
    <3>1. stages' = [stages EXCEPT ![x] = s]
      BY <1>0, <1>1, <2>1 DEF ProcessingTyped
    <3> QED
      BY <1>1, <1>6, <3>1 DEF HeardInv
  <2>2. CASE ~Alone(s) /\ stages' = [stages EXCEPT ![x].chosen = Predecessor(s)]
    <3> DEFINE t == [s EXCEPT !.chosen = Predecessor(s)]
    <3>1. stages' = [stages EXCEPT ![x] = t]
      BY <2>2
    <3>2. ~s.complete /\ Sounding(s, audible, ran[s.primary])
      BY <1>6, <2>2 DEF HeardInv, Alone
    <3>3. Predecessor(s) = audible
      BY <2>2, <3>2 DEF Sounding, Predecessor, Leases, Alone
    <3>4. audible \in MaybeMaker
      BY <1>0 DEF ProcessingTyped, MaybeMaker
    <3>5. /\ t \in GraphStages /\ t.primary = s.primary /\ t.current = s.current
          /\ t.pending = s.pending /\ t.chosen = audible /\ t.prime = s.prime
          /\ t.faded = s.faded /\ t.complete = s.complete
      BY <1>1, <3>3, <3>4 DEF GraphStages
    <3> HIDE DEF t
    <3>6. Sounding(t, audible, ran[s.primary])
      BY <3>2, <3>5 DEF Sounding, Leases
    <3> QED
      BY <3>1, <3>5, <3>6
  <2> QED
    BY <1>3, <2>1, <2>2
<1>8. GraphInv' /\ stages' \in [Makers -> GraphStages]
  <2>1. GraphsJoin' /\ audible' \in out'.last
    BY <1>0, <1>2 DEF GraphInv, GraphsJoin
  <2>2. Sounding(t, audible', ran'[t.primary])
    BY <1>2, <1>7
  <2>3. audible' \in {audible, s.primary}
    BY <1>2
  <2> QED
    BY <1>2, <1>7, <2>1, <2>2, <2>3, StagesStep
<1>9. MeterInv'
  BY <1>0, <1>2, <1>4 DEF MeterInv
<1>10. ProcessingTyped'
  BY <1>0, <1>2, <1>4, <1>5, <1>8 DEF ProcessingTyped
<1> QED
  BY <1>4, <1>5, <1>8, <1>9, <1>10 DEF ProcessingInv

-----------------------------------------------------------------------------
(* The processing handoff: its theorem.                                    *)

(* At boot one complete graph is audible.                                  *)
LEMMA ProcessingInitInv == ProcessingInit => ProcessingInv
<1> SUFFICES ASSUME ProcessingInit PROVE ProcessingInv
  OBVIOUS
<1> DEFINE g == BootGeneration
<1>0. /\ 0 \in Makers /\ MaxChanges \in Nat /\ Prime \in Nat /\ Fade \in Nat \ {0}
      /\ BootProcessing \in ProcessingPlans /\ BootProcessing.denoise \in BOOLEAN
  BY ProcessingAssumption DEF Makers
<1>1. /\ g \in Generations /\ g.plan = BootProcessing /\ g.graph = 0 /\ g.meter = 0
      /\ g.denoise = IF BootProcessing.denoise THEN 0 ELSE NoOne
  <2> DEFINE d == IF BootProcessing.denoise THEN 0 ELSE NoOne
  <2>1. g = [plan |-> BootProcessing, graph |-> 0, denoise |-> d, meter |-> 0]
    BY DEF BootGeneration
  <2>2. d \in Makers \union {NoOne}
    BY <1>0
  <2> HIDE DEF d
  <2>3. /\ g \in Generations /\ g.plan = BootProcessing /\ g.graph = 0 /\ g.meter = 0
        /\ g.denoise = d
    BY <1>0, <2>1, <2>2 DEF Generations
  <2> QED
    BY <2>3 DEF d
<1> HIDE DEF g
<1>2. /\ inForce = g /\ runs = g /\ change = NoChange /\ made = 0
      /\ offered = "none" /\ answered = 0
      /\ stages = [m \in Makers |-> FlatStage(m)] /\ audible = 0
      /\ denoisers = [m \in Makers |->
                         IF m = 0 THEN [NoDenoiser EXCEPT !.stream = 0] ELSE NoDenoiser]
      /\ streams = [m \in Makers |-> IdleStream] /\ meters = [m \in Makers |-> m]
      /\ ran = [m \in Makers |-> IF m = 0 THEN Prime + 1 ELSE 0]
      /\ out = [joined |-> TRUE, last |-> {0}] /\ noise = NoNoise
      /\ measured = [m \in Makers |-> {}]
  BY Zenon DEF ProcessingInit, g
<1>3. change.step = "idle" /\ ~Undone /\ ~Reversible /\ Live = {g}
  BY <1>2 DEF NoChange, Undone, Reversible, Live
<1>4. \A m \in Makers : FlatStage(m) \in GraphStages
  BY <1>0 DEF FlatStage, GraphStages, MaybeMaker
<1>5. /\ denoisers \in [Makers -> DenoiseStages]
      /\ denoisers[0] = [stream |-> 0, activation |-> NoOne]
  <2>1. /\ NoDenoiser \in DenoiseStages
        /\ [NoDenoiser EXCEPT !.stream = 0] = [stream |-> 0, activation |-> NoOne]
        /\ [stream |-> 0, activation |-> NoOne] \in DenoiseStages
    BY <1>0 DEF NoDenoiser, DenoiseStages, MaybeMaker
  <2> QED
    BY <1>0, <1>2, <2>1
<1>6. ProcessingTyped
  <2>1. change \in [step : {"idle", "forward", "ready", "begun", "reversing"},
                    forward : Generations \union {NoOne}, reverse : Generations \union {NoOne}]
    BY <1>2 DEF NoChange
  <2>2. stages \in [Makers -> GraphStages] /\ streams \in [Makers -> DenoiseStreams]
    BY <1>2, <1>4, IdleFacts
  <2>3. ran \in [Makers -> 0 .. Prime + 1]
    BY <1>0, <1>2
  <2>4. meters \in [Makers -> Makers] /\ measured \in [Makers -> SUBSET ProcessingPlans]
    BY <1>2
  <2>5. out.last \subseteq Makers /\ noise.stream \in MaybeMaker
    BY <1>0, <1>2 DEF NoNoise, MaybeMaker
  <2>6. inForce \in Generations /\ runs \in Generations /\ audible \in Makers
        /\ made \in 0 .. MaxChanges
    BY <1>0, <1>1, <1>2
  <2> QED
    BY <1>3, <1>5, <2>1, <2>2, <2>3, <2>4, <2>5, <2>6 DEF ProcessingTyped
<1>7. AnswerInv
  BY <1>2, <1>3 DEF AnswerInv
<1>8. GenerationInv
  BY <1>0, <1>1, <1>2, <1>3 DEF GenerationInv, Older, Matches, NoOne
<1>9. GraphInv
  <2>1. stages[0].complete /\ stages[0].primary = 0
    BY <1>0, <1>2 DEF FlatStage
  <2>2. ran[0] > Prime /\ out.last = {0} /\ out.joined
    BY <1>0, <1>2
  <2> QED
    BY <1>1, <1>2, <1>3, <2>1, <2>2 DEF GraphInv, GraphsJoin, Sounding
<1>10. MeterInv
  BY <1>0, <1>1, <1>2, <1>3 DEF MeterInv
<1>11. NoiseInv
  <2>1. NoiseJoins
    BY <1>2 DEF NoiseJoins, NoNoise
  <2>2. \A m \in Makers : Rested(streams[m])
    BY <1>2, IdleFacts
  <2>3. Reducing(streams[0], NoOne)
    BY <1>0, <1>2, IdleFacts DEF Reducing
  <2> QED
    BY <1>1, <1>2, <1>3, <1>5, <2>1, <2>2, <2>3 DEF NoiseInv, NoOne
<1> QED
  BY <1>6, <1>7, <1>8, <1>9, <1>10, <1>11 DEF ProcessingInv

(* Every step keeps the invariant of the processing handoff.               *)
LEMMA ProcessingStep == ProcessingInv /\ [ProcessingNext]_processingVars => ProcessingInv'
<1> SUFFICES ASSUME ProcessingInv, [ProcessingNext]_processingVars PROVE ProcessingInv'
  OBVIOUS
<1>1. ASSUME NEW p \in ProcessingPlans, PrepareReplacement(p) PROVE ProcessingInv'
  BY <1>1, PrepareReplacementStep
<1>2. CASE PrepareRestore
  BY <1>2, PrepareRestoreStep
<1>3. CASE DropPreparation \/ CommitForward \/ SettleReverse
  BY <1>3, SettleStep
<1>4. CASE OfferForward \/ OfferReverse
  BY <1>4, OfferStep
<1>5. CASE AdoptOffered
  BY <1>5, AdoptStep
<1>6. CASE RefuseOffered
  BY <1>6, RefuseStep
<1>7. ASSUME NEW n \in 1 .. MaxBlock, ReceiveBlock(n) PROVE ProcessingInv'
  BY <1>7, ReceiveBlockStep
<1>8. ASSUME NEW n \in 1 .. MaxBlock, GraphFails(n) \/ DenoiseFails(n) PROVE ProcessingInv'
  BY <1>8, FailedBlockStep
<1>9. CASE UNCHANGED processingVars
  <2>1. /\ UNCHANGED <<inForce, change, made, offered, answered, runs>>
        /\ UNCHANGED <<stages, audible, denoisers, streams, meters, ran, out, noise, measured>>
        /\ UNCHANGED <<control, mailboxSide>>
    BY <1>9 DEF processingVars, control, mailboxSide, processors, heard
  <2>2. /\ AnswerInv' /\ GenerationInv' /\ Live' = Live
        /\ (Undone' <=> Undone) /\ (Reversible' <=> Reversible)
        /\ (ForwardAwaits' <=> ForwardAwaits) /\ (ReverseAwaits' <=> ReverseAwaits)
    BY <2>1, BlockKeeps
  <2>3. ProcessingTyped'
    BY <2>1 DEF ProcessingInv, ProcessingTyped
  <2>4. GraphInv'
    BY <2>1, <2>2 DEF ProcessingInv, GraphInv, GraphsJoin
  <2>5. MeterInv' /\ NoiseInv'
    BY <2>1, <2>2 DEF ProcessingInv, MeterInv, NoiseInv, NoiseJoins
  <2> QED
    BY <2>2, <2>3, <2>4, <2>5 DEF ProcessingInv
<1> QED
  BY <1>1, <1>2, <1>3, <1>4, <1>5, <1>6, <1>7, <1>8, <1>9 DEF ProcessingNext

(* The inductive invariant of the processing handoff: names of an update   *)
(* (GenerationInv), which generation the callback runs (AnswerInv), what   *)
(* the stage that runs and those that wait know of the audible graph       *)
(* (GraphInv), one path to a meter (MeterInv), and how far the stream that *)
(* runs is from its bridge (NoiseInv).                                     *)
THEOREM ProcessingInvariant == ProcessingSpec => []ProcessingInv
<1>1. ProcessingInit => ProcessingInv
  BY ProcessingInitInv
<1>2. ProcessingInv /\ [ProcessingNext]_processingVars => ProcessingInv'
  BY ProcessingStep
<1> QED
  BY <1>1, <1>2, PTL DEF ProcessingSpec

(* A subset of a singleton has at most one element.                        *)
LEMMA AtMostOne ==
    ASSUME NEW x, NEW S, S \subseteq {x} PROVE Cardinality(S) <= 1
<1>1. IsFiniteSet({x}) /\ Cardinality({x}) = 1
  BY FS_Singleton
<1>2. Cardinality(S) <= Cardinality({x})
  BY <1>1, FS_Subset
<1> QED
  BY <1>1, <1>2

(* No live update breaks the sound: every block begins with a graph that   *)
(* was heard already and primed, noise reduction plays neither old samples *)
(* nor an empty model's, and a meter measures one path (graph_process,     *)
(* transition_graph, prepare_restore, denoise_process,                     *)
(* with_output_meters).                                                    *)
THEOREM SoundAlwaysContinues == ProcessingSpec => []SoundContinues
<1>1. ProcessingInv => SoundContinues
  <2> SUFFICES ASSUME ProcessingInv PROVE SoundContinues
    OBVIOUS
  <2>0. ProcessingTyped /\ AnswerInv /\ GenerationInv /\ GraphInv /\ MeterInv /\ NoiseInv
    BY DEF ProcessingInv
  <2>1. runs \in Live /\ runs \in Generations
    BY WaitingFacts
  <2>2. AudibleIsLeased
    <3>1. audible # NoOne /\ Sounding(stages[runs.graph], audible, ran[stages[runs.graph].primary])
      BY <2>0 DEF ProcessingTyped, GraphInv, Makers, NoOne
    <3> QED
      BY <3>1 DEF AudibleIsLeased, Sounding, Leases
  <2>3. GraphsJoin /\ NoiseJoins
    BY <2>0 DEF GraphInv, NoiseInv
  <2>4. MetersOnePath
    <3>1. meters[runs.meter] = runs.graph /\ measured[runs.meter] \subseteq {runs.plan}
      BY <2>0, <2>1 DEF MeterInv
    <3> QED
      BY <3>1, AtMostOne DEF MetersOnePath
  <2> QED
    BY <2>2, <2>3, <2>4 DEF SoundContinues
<1> QED
  BY <1>1, ProcessingInvariant, PTL

=============================================================================
