--------------------------- MODULE StationUpdate ---------------------------
(***************************************************************************)
(* Live replacement of one station's settings: the update mailbox between  *)
(* the control owner and the two audio callbacks, with the revision check  *)
(* that admits a prepared update and the commit and rollback that retire   *)
(* its storage.                                                            *)
(*                                                                         *)
(* An update owner is the storage a callback borrows once it has adopted   *)
(* the owner's ports: the processing generation and the radio's prepared   *)
(* settings.  Each update carries two, forward and reverse.  The model     *)
(* follows which owner each callback borrows, which owners the control     *)
(* side still retains, and the settings plan the control host reports.     *)
(*                                                                         *)
(* Control operations are serial and hold the storage mutex; each atomic   *)
(* access they share with a callback is an action of its own.  A stopped   *)
(* station has no callbacks, and the control owner runs their half of the  *)
(* mailbox itself (ctl = "drain").                                         *)
(***************************************************************************)
EXTENDS Integers, FiniteSets

CONSTANTS
    Plans,         \* settings plans
    BootPlan,      \* the plan the station was opened with
    MaxUpdate,     \* bound on the number of update preparations
    MaxTokens      \* bound on preparations outstanding at once

ASSUME PlansAssumption == BootPlan \in Plans
ASSUME BoundsAssumption == MaxUpdate \in Nat /\ MaxTokens \in Nat

Directions == {"receive", "transmit"}

\* Owner identities.  The boot owner is the processing generation held by
\* the control host for as long as the station exists.
Owners == [update : 0 .. MaxUpdate, kind : {"boot", "forward", "reverse"}]
Boot == [update |-> 0, kind |-> "boot"]
Forward(u) == [update |-> u, kind |-> "forward"]
Reverse(u) == [update |-> u, kind |-> "reverse"]
Null == [update |-> 0, kind |-> "null"]

\* A preparation: snapshot_update fixes previous and revision, prepare()
\* fixes plan and builds both owners.
Tokens == [id : 1 .. MaxUpdate, ready : BOOLEAN, plan : Plans,
           previous : Plans, revision : Nat]
NoTransaction == [id |-> 0, plan |-> BootPlan, previous |-> BootPlan,
                  reversing |-> FALSE]

VARIABLES
    plan,        \* StationControlHost.plan
    current,     \* UpdateStorage.current; Boot stands for None
    currentPlan, \* history: the plan the current owner was prepared for
    txn,         \* UpdateStorage.transaction
    revision,    \* UpdateStorage.revision
    tokens,      \* preparations held by control clients
    nextId,      \* history: names the next preparation
    slot,        \* UpdateMailbox.receive and .transmit
    ack,         \* receive_result and transmit_result
    held,        \* pointer a callback swapped out and still uses
    adopted,     \* the callback has applied the owner it holds
    port,        \* owner whose ports the radio runs
    meter,       \* receive_processing and transmit_processing
    running,     \* StationRuntime.running
    ctl,         \* where the control operation is
    commit       \* the argument of the finish_update in progress

storage == <<plan, current, currentPlan, txn, revision>>
mailbox == <<slot, ack, held, adopted, port, meter>>
prep == <<tokens, nextId>>
updateVars == <<storage, prep, mailbox, running, ctl, commit>>

InTransaction == txn # NoTransaction

UpdateInit ==
    /\ plan = BootPlan
    /\ current = Boot
    /\ currentPlan = BootPlan
    /\ txn = NoTransaction
    /\ revision = 0
    /\ tokens = {}
    /\ nextId = 1
    /\ slot = [d \in Directions |-> Null]
    /\ ack = [d \in Directions |-> 0]
    /\ held = [d \in Directions |-> Null]
    /\ adopted = [d \in Directions |-> FALSE]
    /\ port = [d \in Directions |-> Boot]
    /\ meter = [d \in Directions |-> Boot]
    /\ running = FALSE
    /\ ctl = "idle"
    /\ commit = FALSE

-----------------------------------------------------------------------------
(* The audio callbacks' half.  A callback runs while the stream is         *)
(* started; the control owner runs it once while it drains a stopped one.  *)

CallbackMayRun == running \/ ctl \in {"drain", "drainFinish"}

\* Swap the slot with null.
Take(d) ==
    /\ CallbackMayRun
    /\ held[d] = Null
    /\ slot[d] # Null
    /\ held' = [held EXCEPT ![d] = slot[d]]
    /\ slot' = [slot EXCEPT ![d] = Null]
    /\ adopted' = [adopted EXCEPT ![d] = FALSE]
    /\ UNCHANGED <<storage, prep, ack, port, meter, running, ctl, commit>>

\* apply_update succeeded: the radio runs the owner's ports from here on,
\* and the diagnostic pointer follows.
Apply(d) ==
    /\ CallbackMayRun
    /\ held[d] # Null
    /\ ~adopted[d]
    /\ adopted' = [adopted EXCEPT ![d] = TRUE]
    /\ port' = [port EXCEPT ![d] = held[d]]
    /\ meter' = [meter EXCEPT ![d] = held[d]]
    /\ UNCHANGED <<storage, prep, slot, ack, held, running, ctl, commit>>

\* The final release store of 1.
Acknowledge(d) ==
    /\ CallbackMayRun
    /\ held[d] # Null
    /\ adopted[d]
    /\ ack' = [ack EXCEPT ![d] = 1]
    /\ held' = [held EXCEPT ![d] = Null]
    /\ UNCHANGED <<storage, prep, slot, adopted, port, meter, running, ctl, commit>>

\* apply_update refused: nothing changes and -1 is stored.
Reject(d) ==
    /\ CallbackMayRun
    /\ held[d] # Null
    /\ ~adopted[d]
    /\ ack' = [ack EXCEPT ![d] = -1]
    /\ held' = [held EXCEPT ![d] = Null]
    /\ UNCHANGED <<storage, prep, slot, adopted, port, meter, running, ctl, commit>>

Callback(d) == Take(d) \/ Apply(d) \/ Acknowledge(d) \/ Reject(d)

-----------------------------------------------------------------------------
(* Preparation: snapshot_update on the control owner, prepare() anywhere.  *)

SnapshotUpdate ==
    /\ ctl = "idle"
    /\ nextId <= MaxUpdate
    /\ Cardinality(tokens) < MaxTokens
    /\ ~InTransaction
    /\ tokens' = tokens \cup {[id |-> nextId, ready |-> FALSE, plan |-> plan,
                               previous |-> plan, revision |-> revision]}
    /\ nextId' = nextId + 1
    /\ UNCHANGED <<storage, mailbox, running, ctl, commit>>

\* StationUpdatePreparation::prepare: both owners are built.
Prepare(t, p) ==
    /\ ~t.ready
    /\ tokens' = (tokens \ {t}) \cup {[t EXCEPT !.ready = TRUE, !.plan = p]}
    /\ UNCHANGED <<storage, nextId, mailbox, running, ctl, commit>>

\* A preparation is dropped: incompatible plan, failed graph, or abandoned.
Discard(t) ==
    /\ tokens' = tokens \ {t}
    /\ UNCHANGED <<storage, nextId, mailbox, running, ctl, commit>>

-----------------------------------------------------------------------------
(* begin_update.                                                           *)

\* Faulty variant: the captured revision is not compared.
Admissible_AnyRevision(t) == t.ready /\ ~InTransaction

\* begin_update answers Busy unless the slots are free and nothing has been
\* committed or rolled back since the snapshot.
Admissible(t) == t.ready /\ ~InTransaction /\ revision = t.revision

\* Install the transaction and clear both results.
BeginUpdate(t) ==
    /\ ctl = "idle"
    /\ Admissible(t)
    /\ txn' = [id |-> t.id, plan |-> t.plan, previous |-> t.previous,
               reversing |-> FALSE]
    /\ tokens' = tokens \ {t}
    /\ ack' = [d \in Directions |-> 0]
    /\ ctl' = "publishReceive"
    /\ UNCHANGED <<plan, current, currentPlan, revision, nextId, slot, held,
                   adopted, port, meter, running, commit>>

\* Busy: the refused token is consumed.
RefuseUpdate(t) ==
    /\ ctl = "idle"
    /\ t.ready
    /\ ~Admissible(t)
    /\ tokens' = tokens \ {t}
    /\ UNCHANGED <<storage, nextId, mailbox, running, ctl, commit>>

Published == IF txn.reversing THEN Reverse(txn.id) ELSE Forward(txn.id)

\* UpdateMailbox::publish: the two pointer stores, receive first.
PublishReceive ==
    /\ ctl = "publishReceive"
    /\ slot' = [slot EXCEPT !["receive"] = Published]
    /\ ctl' = "publishTransmit"
    /\ UNCHANGED <<storage, prep, ack, held, adopted, port, meter, running, commit>>

\* Then apply_stopped_update; a rollback goes on to look at the results.
PublishTransmit ==
    /\ ctl = "publishTransmit"
    /\ slot' = [slot EXCEPT !["transmit"] = Published]
    /\ ctl' = IF ~running THEN "drain"
              ELSE IF txn.reversing THEN "settle" ELSE "idle"
    /\ UNCHANGED <<storage, prep, ack, held, adopted, port, meter, running, commit>>

MailboxQuiet == \A d \in Directions : slot[d] = Null /\ held[d] = Null

\* apply_stopped_update is done; the operation that called it goes on.
Drained ==
    /\ ctl \in {"drain", "drainFinish"}
    /\ MailboxQuiet
    /\ ctl' = IF ctl = "drainFinish" THEN "decide"
              ELSE IF txn.reversing THEN "settle" ELSE "idle"
    /\ UNCHANGED <<storage, prep, mailbox, running, commit>>

-----------------------------------------------------------------------------
(* accept_update and finish_update.                                        *)

Pending == \E d \in Directions : ack[d] = 0
Adopted == \A d \in Directions : ack[d] = 1

\* accept_update: the candidate becomes the reported plan before commit.
AcceptUpdate ==
    /\ ctl = "idle"
    /\ InTransaction
    /\ Adopted
    /\ ~txn.reversing
    /\ plan' = txn.plan
    /\ UNCHANGED <<current, currentPlan, txn, revision, prep, mailbox,
                   running, ctl, commit>>

\* finish_update first drains a stopped station, then decides.  Nothing to
\* finish answers Ok and is no step.
FinishUpdate(c) ==
    /\ ctl = "idle"
    /\ InTransaction
    /\ commit' = c
    /\ ctl' = IF ~running THEN "drainFinish" ELSE "decide"
    /\ UNCHANGED <<storage, prep, mailbox, running>>

\* The transaction ends; what it does not move into current is dropped.
Retire(owner, p) ==
    /\ current' = owner
    /\ currentPlan' = p
    /\ plan' = p
    /\ txn' = NoTransaction
    /\ revision' = revision + 1

\* Faulty variant: one acknowledgment is enough to retire the old owner.
Commit_OneSided ==
    /\ ctl = "decide"
    /\ commit
    /\ \E d \in Directions : ack[d] = 1
    /\ ~txn.reversing
    /\ Retire(Forward(txn.id), txn.plan)
    /\ ctl' = "idle"
    /\ UNCHANGED <<prep, mailbox, running, commit>>

\* Commit: both callbacks adopted the forward owner.
Commit ==
    /\ ctl = "decide"
    /\ commit
    /\ Adopted
    /\ ~txn.reversing
    /\ Retire(Forward(txn.id), txn.plan)
    /\ ctl' = "idle"
    /\ UNCHANGED <<prep, mailbox, running, commit>>

\* Commit refused: Pending, a rejected half, or a rollback under way.
CommitRefused ==
    /\ ctl = "decide"
    /\ commit
    /\ ~Adopted \/ txn.reversing
    /\ ctl' = "idle"
    /\ UNCHANGED <<storage, prep, mailbox, running, commit>>

\* Rollback: both halves have answered the forward owner, whatever they
\* answered; publish the reverse owner to both.
Rollback ==
    /\ ctl = "decide"
    /\ ~commit
    /\ ~Pending
    /\ ~txn.reversing
    /\ txn' = [txn EXCEPT !.reversing = TRUE]
    /\ ack' = [d \in Directions |-> 0]
    /\ ctl' = "publishReceive"
    /\ UNCHANGED <<plan, current, currentPlan, revision, prep, slot, held,
                   adopted, port, meter, running, commit>>

\* Rollback answers Pending and leaves everything in place.
RollbackPending ==
    /\ ctl = "decide"
    /\ ~commit
    /\ Pending
    /\ ctl' = "idle"
    /\ UNCHANGED <<storage, prep, mailbox, running, commit>>

\* Faulty variant: a rollback under way can only be resumed while pending.
ResumeRollback_Refused ==
    /\ ctl = "decide"
    /\ ~commit
    /\ ~Pending
    /\ txn.reversing
    /\ ctl' = "idle"
    /\ UNCHANGED <<storage, prep, mailbox, running, commit>>

\* A later finish_update of a reversing transaction reads the results.
ResumeRollback ==
    /\ ctl = "decide"
    /\ ~commit
    /\ ~Pending
    /\ txn.reversing
    /\ ctl' = "settle"
    /\ UNCHANGED <<storage, prep, mailbox, running, commit>>

\* Both callbacks adopted the reverse owner: the forward one is dropped.
SettleRollback ==
    /\ ctl = "settle"
    /\ Adopted
    /\ Retire(Reverse(txn.id), txn.previous)
    /\ ctl' = "idle"
    /\ UNCHANGED <<prep, mailbox, running, commit>>

\* Pending or rejected: the transaction stays.
SettleRefused ==
    /\ ctl = "settle"
    /\ ~Adopted
    /\ ctl' = "idle"
    /\ UNCHANGED <<storage, prep, mailbox, running, commit>>

-----------------------------------------------------------------------------
(* Stream lifetime.                                                        *)

Start ==
    /\ ctl = "idle"
    /\ ~running
    /\ running' = TRUE
    /\ UNCHANGED <<storage, prep, mailbox, ctl, commit>>

\* A successful stop returns once neither callback is inside its worker; a
\* failed one leaves running set, which is no step.
Stop ==
    /\ ctl = "idle"
    /\ running
    /\ \A d \in Directions : held[d] = Null
    /\ running' = FALSE
    /\ UNCHANGED <<storage, prep, mailbox, ctl, commit>>

-----------------------------------------------------------------------------
FinishSteps == Drained \/ Commit \/ CommitRefused \/ Rollback
               \/ RollbackPending \/ ResumeRollback \/ SettleRollback
               \/ SettleRefused

UpdateNext ==
    \/ \E d \in Directions : Callback(d)
    \/ SnapshotUpdate
    \/ \E t \in tokens, p \in Plans : Prepare(t, p)
    \/ \E t \in tokens : Discard(t) \/ BeginUpdate(t) \/ RefuseUpdate(t)
    \/ PublishReceive \/ PublishTransmit
    \/ AcceptUpdate
    \/ \E c \in BOOLEAN : FinishUpdate(c)
    \/ FinishSteps
    \/ Start \/ Stop

UpdateSpec == UpdateInit /\ [][UpdateNext]_updateVars

\* The sound card paces both callbacks of a started stream, also of one that
\* is stopped and started again and again; control operations return; and
\* the owner of an unfinished transaction keeps asking for its rollback, as
\* the code's pollers do after a Pending answer.
UpdateFairness ==
    /\ \A d \in Directions : SF_updateVars(Callback(d))
    /\ WF_updateVars(PublishReceive) /\ WF_updateVars(PublishTransmit)
    /\ WF_updateVars(FinishSteps)
    /\ SF_updateVars(FinishUpdate(FALSE))

UpdateFairSpec == UpdateSpec /\ UpdateFairness

-----------------------------------------------------------------------------
(* Properties.                                                             *)

(* The type invariant.                                                     *)
UpdateTypeOK ==
    /\ plan \in Plans
    /\ current \in Owners
    /\ currentPlan \in Plans
    /\ txn \in [id : 0 .. MaxUpdate, plan : Plans, previous : Plans,
                reversing : BOOLEAN]
    /\ revision \in Nat
    /\ tokens \subseteq Tokens
    /\ nextId \in 1 .. MaxUpdate + 1
    /\ slot \in [Directions -> Owners \cup {Null}]
    /\ ack \in [Directions -> {-1, 0, 1}]
    /\ held \in [Directions -> Owners \cup {Null}]
    /\ adopted \in [Directions -> BOOLEAN]
    /\ port \in [Directions -> Owners]
    /\ meter \in [Directions -> Owners]
    /\ running \in BOOLEAN
    /\ ctl \in {"idle", "publishReceive", "publishTransmit", "drain",
                "drainFinish", "decide", "settle"}
    /\ commit \in BOOLEAN

\* Owners whose storage the control side has not dropped.
Retained == {Boot, current} \cup
            IF InTransaction THEN {Forward(txn.id), Reverse(txn.id)} ELSE {}

(* The SAFETY comments of UpdateOwner::prepare and output_loudness: storage*)
(* that a callback runs or is about to take, that the mailbox points to or *)
(* that a diagnostic reader follows is never moved or dropped by commit or *)
(* rollback.                                                               *)
BorrowedStorageRetained ==
    \A d \in Directions :
        {port[d], meter[d], slot[d], held[d]} \ {Null} \subseteq Retained

(* Whenever no update is under way, receive and transmit run the same      *)
(* owner, it is the one retained as current, and the plan reported to      *)
(* clients is the plan that owner was prepared for.                        *)
SettledAgreement ==
    ~InTransaction =>
        /\ \A d \in Directions : port[d] = current
        /\ plan = currentPlan

(* Both: the storage the callbacks borrow, and what they run once an       *)
(* update has settled (StationRuntime::finish_update).                     *)
BorrowsSettle == BorrowedStorageRetained /\ SettledAgreement

\* The answer a control client reads from the two results.
Outcome == IF ~InTransaction THEN "none"
           ELSE IF Pending THEN "pending"
           ELSE IF Adopted THEN "adopted" ELSE "refused"

Transaction == INSTANCE UpdateTransaction WITH
    txn <- [plan |-> txn.plan, previous |-> txn.previous,
            reversing |-> txn.reversing, open |-> InTransaction],
    outcome <- Outcome

(* The two-sided mailbox, with its torn publication, halves that answer in *)
(* any order and storage that is retired late, looks to control clients    *)
(* like one transaction started from exactly the settings in force (so     *)
(* concurrent tuning and reload cannot undo each other's newer settings),  *)
(* answered once and ended forward or back.                                *)
ImplementsUpdateTransaction == Transaction!Spec

(* An update whose owner keeps asking for it ends, through any order of    *)
(* stops, starts, refused halves and Pending answers, unless the radio     *)
(* refuses to take its own earlier settings back.                          *)
ReverseRefused == txn.reversing /\ \E d \in Directions : ack[d] = -1
UpdatesResolve == []<>(~InTransaction \/ ReverseRefused)
=============================================================================
