------------------------------ MODULE Outbound ------------------------------
(***************************************************************************)
(* Sending an SMS (src/src/messaging.rs): detached finalizers, one per     *)
(* send call, run a message from its `sending' row to a terminal status;   *)
(* recovery workers take over rows whose owner is gone.  They share the    *)
(* store of module OutboundStore and the modem of module ModemSms, and     *)
(* interleave between any two store transactions and D-Bus calls.          *)
(*                                                                         *)
(* A worker incarnation has an owner UUID of its own, so a restart of the  *)
(* service is a Crash of one incarnation and the start of another; two may *)
(* run at once, as two processes on one database can.  A crash of the      *)
(* whole service is a sequence of Crash steps.                             *)
(*                                                                         *)
(* A definition introduced as a mutant is a bug the code could have had;   *)
(* nothing uses it, the properties are tested against it.                  *)
(***************************************************************************)
EXTENDS OutboundStore, ModemSms

CONSTANTS
    Requests,           \* send calls; a request is its finalizer's owner UUID
    Workers,            \* incarnations of run_outbound_worker
    KeyOf,              \* the Idempotency-Key of a request, or NoKey
    ContentOf,          \* its number and body
    MaxFaults           \* bound on crashes, store errors, D-Bus failures and
                        \* leases that lapse under a running owner

ASSUME OutboundAssumption ==
    /\ Owners = Requests \cup Workers
    /\ Requests \cap Workers = {}
    /\ KeyOf \in [Requests -> Keys \cup {NoKey}]
    /\ ContentOf \in [Requests -> Contents]
    /\ MaxFaults \in Nat

VARIABLES
    pc,         \* pc[p]: where process p is
    job,        \* job[p]: the message p works on, its modem path, what to do
    faults,     \* faults so far
    origin,     \* history: the request a message was created for
    lineage,    \* history: messages created under a key it still remembers
    sends,      \* history: Send calls made for a message
    misfired,   \* history: messages whose Send hit an object made for another
    onAir,      \* history: messages whose text was transmitted
    announced   \* history: messages announced (MessageUpdated) as terminal

procVars  == <<pc, job, faults>>
ghostVars == <<origin, lineage, sends, misfired, onAir, announced>>
vars      == <<storeVars, modemVars, procVars, ghostVars>>

NoRequest == NoOwner

Points == {"off", "idle", "scan", "prepare", "setpath", "begin", "call", "reply",
           "inspect", "finish", "defer", "publish", "ack", "done"}
\* Where a process works on no message.
Resting == {"off", "idle", "scan", "done"}
Todos  == {"none", "taken", "refused", "lost", "ok", "error",
           "sent", "failed", "prepared", "uncertain", "unknown"}
JobType == [id: Ids \cup {NoId}, path: Nat, todo: Todos]
NoJob   == [id |-> NoId, path |-> NoPath, todo |-> "none"]

ProcTypeOK ==
    /\ pc \in [Owners -> Points]
    /\ job \in [Owners -> JobType]

GhostTypeOK ==
    /\ origin \in [Ids -> Requests \cup {NoRequest}]
    /\ lineage \in [Keys -> SUBSET Ids]
    /\ sends \in [Ids -> Nat]
    /\ misfired \subseteq Ids
    /\ onAir \subseteq Nat
    /\ announced \subseteq Ids

TypeOK ==
    /\ StoreTypeOK
    /\ ModemTypeOK
    /\ ProcTypeOK
    /\ GhostTypeOK
    /\ faults \in 0 .. MaxFaults

Init ==
    /\ StoreInit
    /\ ModemInit
    /\ pc = [p \in Owners |-> "off"]
    /\ job = [p \in Owners |-> NoJob]
    /\ faults = 0
    /\ origin = [m \in Ids |-> NoRequest]
    /\ lineage = [k \in Keys |-> {}]
    /\ sends = [m \in Ids |-> 0]
    /\ misfired = {}
    /\ onAir = {}
    /\ announced = {}

(***************************************************************************)
(* Moves of a process.                                                     *)
(***************************************************************************)
Move(p, point, newJob) ==
    /\ pc' = [pc EXCEPT ![p] = point]
    /\ job' = [job EXCEPT ![p] = newJob]

Goto(p, point)           == Move(p, point, job[p])
GotoWith(p, point, todo) == Move(p, point, [job[p] EXCEPT !.todo = todo])
Take(p, m, path, point, todo) ==
    Move(p, point, [id |-> m, path |-> path, todo |-> todo])

\* The operation is over: a finalizer's task ends, a worker loops.
Leave(p) == Goto(p, IF p \in Workers THEN "idle" ELSE "done")

NoFault == UNCHANGED faults
Fault   == faults < MaxFaults /\ faults' = faults + 1

\* The rest of a step that moves the process only, or writes the row only.
MovesOnly    == NoFault /\ UNCHANGED <<storeVars, modemVars, ghostVars>>
FaultOnly    == Fault /\ UNCHANGED <<storeVars, modemVars, ghostVars>>
TransactOnly == NoFault /\ UNCHANGED <<modemVars, ghostVars>>

Mine(p) == job[p].id

(***************************************************************************)
(* send, create_and_run_outbound                                           *)
(***************************************************************************)
CreateRow(f) ==
    /\ pc[f] = "off"
    /\ \E m \in Ids :
         /\ Insert(m, f, KeyOf[f], ContentOf[f])
         /\ Take(f, m, NoPath, "prepare", "none")
         /\ origin' = [origin EXCEPT ![m] = f]
         /\ lineage' = IF KeyOf[f] = NoKey THEN lineage
                       ELSE [lineage EXCEPT ![KeyOf[f]] = @ \cup {m}]
    /\ NoFault
    /\ UNCHANGED <<modemVars, sends, misfired, onAir, announced>>

\* CreateOutboundOutcome::Existing: the caller gets the recorded message.
ReplayRow(f) ==
    /\ pc[f] = "off"
    /\ Replayable(KeyOf[f], ContentOf[f])
    /\ Take(f, idem[KeyOf[f]].msg, NoPath, "done", "none")
    /\ MovesOnly

\* IdempotencyConflict, IdempotencyReplayUnavailable.
RefuseRequest(f) ==
    /\ pc[f] = "off"
    /\ KeyInUse(KeyOf[f])
    /\ ~Replayable(KeyOf[f], ContentOf[f])
    /\ Goto(f, "done")
    /\ MovesOnly

(***************************************************************************)
(* run_new_outbound                                                        *)
(***************************************************************************)
Prepare(f) ==
    /\ pc[f] = "prepare"
    /\ CreateSms(nextPath, Mine(f))
    /\ Take(f, Mine(f), nextPath, "setpath", "none")
    /\ NoFault
    /\ UNCHANGED <<storeVars, ghostVars>>

\* Mutant: the failure is not recorded as the outcome to store.
PrepareFailsUnmarked(f) ==
    /\ pc[f] = "prepare"
    /\ Goto(f, "finish")
    /\ FaultOnly

\* An error or a timeout; the modem may have created the object anyway.
PrepareFails(f) ==
    /\ pc[f] = "prepare"
    /\ \/ UNCHANGED modemVars
       \/ CreateSms(nextPath, Mine(f))
    /\ GotoWith(f, "finish", "failed")
    /\ Fault
    /\ UNCHANGED <<storeVars, ghostVars>>

RecordPath(f) ==
    /\ pc[f] = "setpath"
    /\ SetPrepared(Mine(f), f, job[f].path)
    /\ Goto(f, "begin")
    /\ TransactOnly

\* OutboundTransition::OwnershipLost, or the row was deleted.
PrepareLost(f) ==
    /\ pc[f] = "setpath"
    /\ ~CanPrepare(Mine(f), f)
    /\ Leave(f)
    /\ MovesOnly

(***************************************************************************)
(* begin_and_send                                                          *)
(***************************************************************************)
Begin(p) ==
    /\ pc[p] = "begin"
    /\ BeginSend(Mine(p), p)
    /\ Goto(p, "call")
    /\ TransactOnly

BeginLost(p) ==
    /\ pc[p] = "begin"
    /\ ~CanBegin(Mine(p), p)
    /\ Leave(p)
    /\ MovesOnly

\* send_prepared has no D-Bus connection: SendAttemptOutcome::NotAttempted.
NotAttempted(p) ==
    /\ pc[p] = "call"
    /\ GotoWith(p, "defer", "prepared")
    /\ FaultOnly

\* The Send call leaves the process.
Called(p) ==
    /\ sends' = [sends EXCEPT ![Mine(p)] = @ + 1]
    /\ misfired' = IF object[job[p].path].madeFor \in {Mine(p), NoId}
                   THEN misfired ELSE misfired \cup {Mine(p)}
    /\ UNCHANGED <<storeVars, origin, lineage, onAir, announced>>

CallSend(p) ==
    /\ pc[p] = "call"
    /\ \/ /\ TakeSend(job[p].path)
          /\ GotoWith(p, "reply", "taken")
          /\ NoFault
       \/ /\ object[job[p].path].state # "stored"
          /\ GotoWith(p, "reply", "refused")
          /\ NoFault
          /\ UNCHANGED modemVars
       \/ /\ GotoWith(p, "reply", "lost")
          /\ Fault
          /\ UNCHANGED modemVars
    /\ Called(p)

(***************************************************************************)
(* handle_send_attempt                                                     *)
(***************************************************************************)
Accepted(p) ==
    /\ pc[p] = "reply"
    /\ job[p].todo = "ok"
    /\ GotoWith(p, "finish", "sent")
    /\ MovesOnly

\* An explicit ModemManager or D-Bus error (is_explicit_send_rejection).
Rejected(p) ==
    /\ pc[p] = "reply"
    /\ job[p].todo \in {"error", "refused"}
    /\ GotoWith(p, "finish", "failed")
    /\ MovesOnly

\* Mutant: a send without an answer is tried again.
UnansweredRetried(p) ==
    /\ pc[p] = "reply"
    /\ IF job[p].todo = "lost" THEN NoFault ELSE Fault
    /\ GotoWith(p, "defer", "prepared")
    /\ UNCHANGED <<storeVars, modemVars, ghostVars>>

\* Mutant: a send without an answer counts as rejected.
UnansweredFailed(p) ==
    /\ pc[p] = "reply"
    /\ IF job[p].todo = "lost" THEN NoFault ELSE Fault
    /\ GotoWith(p, "finish", "failed")
    /\ UNCHANGED <<storeVars, modemVars, ghostVars>>

\* The 30 s timeout or any other error: the outcome is unknown.
Unanswered(p) ==
    /\ pc[p] = "reply"
    /\ IF job[p].todo = "lost" THEN NoFault ELSE Fault
    /\ GotoWith(p, "defer", "uncertain")
    /\ UNCHANGED <<storeVars, modemVars, ghostVars>>

(***************************************************************************)
(* finish_outbound, publish_outbound_update, defer_outbound                *)
(***************************************************************************)
FinishRow(p) ==
    /\ pc[p] = "finish"
    /\ Finish(Mine(p), p, job[p].todo)
    /\ Goto(p, "publish")
    /\ TransactOnly

\* Another owner finished the row: its outcome is published all the same.
FinishLost(p) ==
    /\ pc[p] = "finish"
    /\ ~Owns(Mine(p), p)
    /\ IF row[Mine(p)].status \in Terminal THEN Goto(p, "publish") ELSE Leave(p)
    /\ MovesOnly

Publish(p) ==
    /\ pc[p] = "publish"
    /\ announced' = announced \cup {Mine(p)}
    /\ Goto(p, "ack")
    /\ NoFault
    /\ UNCHANGED <<storeVars, modemVars, origin, lineage, sends, misfired, onAir>>

Ack(p) ==
    /\ pc[p] = "ack"
    /\ Acknowledge(Mine(p), p)
    /\ Leave(p)
    /\ TransactOnly

AckLost(p) ==
    /\ pc[p] = "ack"
    /\ ~CanAcknowledge(Mine(p), p)
    /\ Leave(p)
    /\ MovesOnly

DeferRow(p) ==
    /\ pc[p] = "defer"
    /\ Defer(Mine(p), p, job[p].todo)
    /\ Leave(p)
    /\ TransactOnly

\* Not the owner: the row as it is now is announced, terminal or not.
DeferLost(p) ==
    /\ pc[p] = "defer"
    /\ ~Owns(Mine(p), p)
    /\ announced' = IF row[Mine(p)].status \in Terminal
                    THEN announced \cup {Mine(p)} ELSE announced
    /\ Leave(p)
    /\ NoFault
    /\ UNCHANGED <<storeVars, modemVars, origin, lineage, sends, misfired, onAir>>

(***************************************************************************)
(* run_outbound_worker: events first, then the row that is due             *)
(***************************************************************************)
StartWorker(w) ==
    /\ pc[w] = "off"
    /\ Goto(w, "idle")
    /\ MovesOnly

ReplayEvent(w) ==
    /\ pc[w] = "idle"
    /\ \E m \in Ids : ClaimEvent(m, w) /\ Take(w, m, NoPath, "publish", "none")
    /\ TransactOnly

NoEvent(w) ==
    /\ pc[w] = "idle"
    /\ PendingEvents = {}
    /\ Goto(w, "scan")
    /\ MovesOnly

\* Mutant: a row cut short while sending is treated as one never prepared.
RecoverStartedAsCreated(w) ==
    /\ pc[w] = "scan"
    /\ \E m \in Ids :
         /\ ClaimDue(m, w)
         /\ LET path == row[m].path IN
            CASE row[m].phase \in {"created", "send_started"} -> Take(w, m, path, "finish", "failed")
              [] row[m].phase = "prepared" -> Take(w, m, path, "inspect", "prepared")
              [] OTHER                     -> Take(w, m, path, "inspect", "uncertain")
    /\ TransactOnly

\* recover_claim: the claimed phase decides.
Recover(w) ==
    /\ pc[w] = "scan"
    /\ \E m \in Ids :
         /\ ClaimDue(m, w)
         /\ LET path == row[m].path IN
            CASE row[m].phase = "created"  -> Take(w, m, path, "finish", "failed")
              [] row[m].phase = "prepared" -> Take(w, m, path, "inspect", "prepared")
              [] OTHER                     -> Take(w, m, path, "inspect", "uncertain")
    /\ TransactOnly

NothingDue(w) ==
    /\ pc[w] = "scan"
    /\ DueForRecovery = {}
    /\ Goto(w, "idle")
    /\ MovesOnly

(***************************************************************************)
(* inspect_modem_sms and the decisions of recover_claim (the claimed phase *)
(* is `prepared') and reconcile_claim (it is `uncertain' or `send_started')*)
(***************************************************************************)
\* Mutant: number and text of the object are not compared.
MatchesAnything(w) == object[job[w].path].madeFor # NoId

Matches(w) ==
    LET maker == object[job[w].path].madeFor IN
    /\ maker # NoId
    /\ ContentOf[origin[maker]] = ContentOf[origin[Mine(w)]]

\* Mutant: an object the modem is still sending counts as sent.
DecisionOptimistic(w) ==
    LET state == object[job[w].path].state IN
    CASE state = "none"                    -> <<"defer", "unknown">>
      [] state # "none" /\ ~Matches(w)     -> <<"defer", "unknown">>
      [] state \in {"sending", "sent"} /\ Matches(w) -> <<"finish", "sent">>
      [] state = "stored" /\ Matches(w) /\ job[w].todo = "prepared"
                                           -> <<"begin", "none">>
      [] OTHER                             -> <<"defer", "uncertain">>

\* What to do with the snapshot: <<next point, todo>>.
Decision(w) ==
    LET state == object[job[w].path].state IN
    CASE state = "none"                    -> <<"defer", "unknown">>
      [] state # "none" /\ ~Matches(w)     -> <<"defer", "unknown">>
      [] state = "sent" /\ Matches(w)      -> <<"finish", "sent">>
      [] state = "stored" /\ Matches(w) /\ job[w].todo = "prepared"
                                           -> <<"begin", "none">>
      [] OTHER                             -> <<"defer", "uncertain">>

Inspect(w) ==
    /\ pc[w] = "inspect"
    /\ GotoWith(w, Decision(w)[1], Decision(w)[2])
    /\ MovesOnly

\* No runtime modem path, no connection, an error or a timeout: the row is
\* deferred in the phase it was claimed in.
InspectFails(w) ==
    /\ pc[w] = "inspect"
    /\ Goto(w, "defer")
    /\ FaultOnly

(***************************************************************************)
(* with_outbound_lease: the heartbeat while a D-Bus call is awaited.  Its  *)
(* failure is only logged, so nothing else depends on it.                  *)
(***************************************************************************)
Awaiting == {"prepare", "call", "reply", "inspect"}

Heartbeat(p) ==
    /\ pc[p] \in Awaiting
    /\ ~row[Mine(p)].live
    /\ Renew(Mine(p), p)
    /\ UNCHANGED <<modemVars, procVars, ghostVars>>

(***************************************************************************)
(* The environment                                                         *)
(***************************************************************************)
\* A panic, an abort, a killed process.
Crash(p) ==
    /\ pc[p] \notin {"off", "done"}
    /\ Goto(p, "done")
    /\ FaultOnly

\* A store call fails.  finish_outbound tries five times first; the others
\* give up at once.  The row keeps its owner until the lease lapses.
StoreFails(p) ==
    /\ pc[p] \in {"setpath", "begin", "finish", "defer", "ack", "scan"}
    /\ Leave(p)
    /\ FaultOnly

Running(p, m) == pc[p] \notin Resting /\ job[p].id = m

\* A lease nobody renews runs out; one whose owner still works does only if
\* the process stalls or the wall clock jumps.
LeaseLapses(m) ==
    /\ Lapse(m)
    /\ IF Running(row[m].owner, m) THEN Fault ELSE NoFault
    /\ UNCHANGED <<modemVars, pc, job, ghostVars>>

RetryDue(m) ==
    /\ BecomesDue(m)
    /\ UNCHANGED <<modemVars, procVars, ghostVars>>

\* The reply to the Send the modem was working on.
AnswerAt(path, reply) ==
    job' = [p \in Owners |->
              IF pc[p] = "reply" /\ job[p].todo = "taken" /\ job[p].path = path
              THEN [job[p] EXCEPT !.todo = reply] ELSE job[p]]

RadioSends(path) ==
    /\ Transmitted(path)
    /\ AnswerAt(path, "ok")
    /\ onAir' = onAir \cup {object[path].madeFor}
    /\ UNCHANGED <<storeVars, pc, faults, origin, lineage, sends, misfired, announced>>

RadioRefuses(path) ==
    /\ NotTransmitted(path)
    /\ AnswerAt(path, "error")
    /\ UNCHANGED <<storeVars, pc, faults, ghostVars>>

SmsRemoved(path) ==
    /\ RemoveObject(path)
    /\ Fault
    /\ UNCHANGED <<storeVars, pc, job, ghostVars>>

\* Calls in flight get no explicit answer.
ModemRestarts ==
    /\ RestartModem
    /\ job' = [p \in Owners |->
                 IF pc[p] = "reply" /\ job[p].todo = "taken"
                 THEN [job[p] EXCEPT !.todo = "lost"] ELSE job[p]]
    /\ UNCHANGED <<storeVars, pc, faults, ghostVars>>

\* The operator deletes a message; retention deletes an old one and prunes
\* old keys.
OperatorDeletes(m) ==
    /\ Delete(m)
    /\ UNCHANGED <<modemVars, procVars, ghostVars>>

RetentionDeletes(m) ==
    /\ RetentionDelete(m)
    /\ lineage' = [k \in Keys |-> IF idem[k].msg = m THEN {} ELSE lineage[k]]
    /\ UNCHANGED <<modemVars, procVars, origin, sends, misfired, onAir, announced>>

KeyPruned(k) ==
    /\ Prune(k)
    /\ lineage' = [lineage EXCEPT ![k] = {}]
    /\ UNCHANGED <<modemVars, procVars, origin, sends, misfired, onAir, announced>>

(***************************************************************************)
(* The specification                                                       *)
(***************************************************************************)
FinalizerStep(f) ==
    \/ CreateRow(f) \/ ReplayRow(f) \/ RefuseRequest(f)
    \/ Prepare(f) \/ PrepareFails(f) \/ RecordPath(f) \/ PrepareLost(f)

WorkerStep(w) ==
    \/ StartWorker(w) \/ ReplayEvent(w) \/ NoEvent(w) \/ Recover(w) \/ NothingDue(w)
    \/ Inspect(w) \/ InspectFails(w)

SendStep(p) ==
    \/ Begin(p) \/ BeginLost(p) \/ NotAttempted(p) \/ CallSend(p)
    \/ Accepted(p) \/ Rejected(p) \/ Unanswered(p)

SettleStep(p) ==
    \/ FinishRow(p) \/ FinishLost(p) \/ Publish(p) \/ Ack(p) \/ AckLost(p)
    \/ DeferRow(p) \/ DeferLost(p)

ModemStep ==
    \/ \E path \in ObjectPaths : RadioSends(path) \/ RadioRefuses(path) \/ SmsRemoved(path)
    \/ ModemRestarts

CleanupStep ==
    \/ \E m \in Ids : OperatorDeletes(m) \/ RetentionDeletes(m)
    \/ \E k \in Keys : KeyPruned(k)

TimeStep == \E m \in Ids : LeaseLapses(m) \/ RetryDue(m)

Next ==
    \/ \E f \in Requests : FinalizerStep(f)
    \/ \E w \in Workers : WorkerStep(w)
    \/ \E p \in Owners : SendStep(p) \/ SettleStep(p) \/ Heartbeat(p) \/ Crash(p) \/ StoreFails(p)
    \/ ModemStep
    \/ CleanupStep
    \/ TimeStep

Spec == Init /\ [][Next]_vars

(***************************************************************************)
(* Fairness: tokio keeps polling every task, the worker loops for ever,    *)
(* every D-Bus call is answered or times out, the radio finishes, deadlines*)
(* pass.  Nothing is assumed of operators, retention or faults.            *)
(***************************************************************************)
Progress(p) ==
    \/ p \in Requests /\ (Prepare(p) \/ RecordPath(p) \/ PrepareLost(p))
    \/ p \in Workers  /\ WorkerStep(p)
    \/ SendStep(p)
    \/ SettleStep(p)

Fairness ==
    /\ \A p \in Owners : WF_vars(Progress(p))
    /\ \A path \in ObjectPaths : WF_vars(RadioSends(path) \/ RadioRefuses(path))
    /\ \A m \in Ids : WF_vars(LeaseLapses(m)) /\ WF_vars(RetryDue(m))

FairSpec == Spec /\ Fairness

(***************************************************************************)
(* Safety                                                                  *)
(***************************************************************************)
\* A message is handed to the modem at most once, whatever crashes, whoever
\* recovers it and however often (begin_outbound_send's compare-and-swap and
\* "automatic resend suppressed").
AtMostOneSend == \A m \in Ids : sends[m] <= 1

\* A message stored as sent was transmitted; the one exception is a Send that
\* hit a path the modem had given to another message (finish_outbound after
\* Accepted, or after a Sent snapshot).
\* The messages differ in their contents: recovery tells objects at a reused
\* path apart by nothing else (snapshot_matches_message).
SentIsTruthful ==
    \A m \in Ids : row[m].status = "sent" => m \in onAir \cup misfired

\* A message stored as failed was not transmitted, so the user may send it
\* again without a duplicate (misfires apart).
FailedIsTruthful ==
    \A m \in Ids : row[m].status = "failed" /\ misfired = {} => m \notin onAir

\* The requests of one idempotency key lead to one Send call between them, for
\* as long as the key is remembered, through deletion and recovery.
KeySendsOnce ==
    \A k \in Keys : \A m, n \in lineage[k] :
        sends[m] > 0 /\ sends[n] > 0 => m = n

\* A replayed key never answers with the message of another request.
ReplayMatchesRequest ==
    \A f \in Requests :
        pc[f] = "done" /\ job[f].id # NoId
            => ContentOf[origin[job[f].id]] = ContentOf[f]

\* An idempotency key stands for one request and one transmission
\* (create_or_get_outbound, prune_outbound_idempotency).
KeysAreHonoured ==
    /\ KeySendsOnce
    /\ ReplayMatchesRequest

\* A terminal row leaves the outbox only after its MessageUpdated event was
\* broadcast: a crash between the commit and the event loses nothing.
AcknowledgedWasAnnounced ==
    \A m \in Ids :
        row[m].status \in Terminal /\ row[m].phase = "none" => m \in announced

(***************************************************************************)
(* Action properties                                                       *)
(***************************************************************************)
Settled(m) == row[m].status \in Terminal \/ row[m].phase = "unknown"

\* A message already reported sent or failed is never handed to the modem
\* (begin_outbound_send, finish_claimed_outbound), as long as no Send hit the
\* object of another message.
NoSendAfterVerdict ==
    \A m \in Ids : sends'[m] # sends[m] /\ misfired = {} =>
        row[m].status \notin Terminal

\* A stored verdict is true when it is given and stays so: no Send follows
\* that could turn it into a lie (finish_outbound, begin_outbound_send).
VerdictsHold ==
    [][SentIsTruthful' /\ FailedIsTruthful' /\ NoSendAfterVerdict]_vars

\* Recovery never sends a modem object that was made for other contents.
RecoverySendsItsOwn ==
    [][\A w \in Workers :
          pc[w] = "call" /\ pc'[w] = "reply" /\ object[job[w].path].state # "none"
              => Matches(w)]_vars

(***************************************************************************)
(* The inductive invariant behind AtMostOneSend                            *)
(***************************************************************************)
\* A process that is somewhere in an operation has a message and knows what
\* to do with it.
JobOK(point, j) ==
    /\ point \notin Resting => j.id \in Ids
    /\ point = "finish"  => j.todo \in Terminal
    /\ point = "defer"   => j.todo \in {"prepared", "uncertain", "unknown"}
    /\ point = "inspect" => j.todo \in {"prepared", "uncertain"}

JobsOK == \A p \in Owners : JobOK(pc[p], job[p])

\* Ids the sequence has not given out yet have left no trace.
FreshIds ==
    /\ \A m \in Ids : m >= nextId => row[m] = Blank /\ sends[m] = 0
    /\ \A p \in Owners : job[p].id < nextId
    /\ \A k \in Keys : idem[k].msg < nextId

\* p holds the right to make the one Send call of message m.
Armed(p, m) == pc[p] = "call" /\ job[p].id = m

Spent(m) == sends[m] > 0 \/ \E p \in Owners : Armed(p, m)

ArmedOnce ==
    \A m \in Ids : \A p \in Owners : Armed(p, m) =>
        /\ sends[m] = 0
        /\ \A q \in Owners : Armed(q, m) => q = p

\* A row whose right to send is used up never again looks unsent ...
SpentShows == \A m \in Ids : Spent(m) => row[m].phase \notin {"created", "prepared"}

\* ... not even through an owner that is about to write `prepared'.
RetreatIsSafe ==
    \A m \in Ids : \A p \in Owners : job[p].id = m /\ Owns(m, p) /\ job[p].todo = "prepared" =>
        /\ pc[p] = "defer"   => ~Spent(m)
        /\ pc[p] = "inspect" => row[m].phase = "prepared"

UnknownIsUnowned == \A m \in Ids : row[m].phase = "unknown" => row[m].owner = NoOwner

TypeInv == TypeOK /\ JobsOK

SendOnce ==
    /\ AtMostOneSend
    /\ ArmedOnce
    /\ SpentShows
    /\ RetreatIsSafe
    /\ UnknownIsUnowned

IInv == TypeInv /\ FreshIds /\ SendOnce

(***************************************************************************)
(* The inductive invariants behind the other promises, each on top of IInv *)
(***************************************************************************)
\* A message is made for one request, whose finalizer keeps it for good; a key
\* stands for at most one message, of the contents it was first used with.
MadeOnce ==
    \A m \in Ids :
        /\ m >= nextId => origin[m] = NoRequest
        /\ m < nextId  => origin[m] \in Requests
        /\ origin[m] \in Requests => job[origin[m]].id = m

RequestsServed ==
    \A f \in Requests :
        /\ pc[f] = "off" => job[f].id = NoId
        /\ job[f].id # NoId => ContentOf[origin[job[f].id]] = ContentOf[f]

KeysOK ==
    \A k \in Keys :
        /\ ~idem[k].used => lineage[k] = {}
        /\ \A m, n \in lineage[k] : m = n
        /\ idem[k].msg # NoId => ContentOf[origin[idem[k].msg]] = idem[k].content

KeyInv == MadeOnce /\ RequestsServed /\ KeysOK

\* Whoever acknowledges an event has published it.
AckedWasPublished == \A p \in Owners : pc[p] = "ack" => Mine(p) \in announced

AnnounceInv == AckedWasPublished /\ AcknowledgedWasAnnounced

\* Where a process knows the object of its message, and where a row does.
Tracking == {"setpath", "begin", "call", "reply", "inspect", "defer"}
Tracked  == {"prepared", "send_started", "uncertain", "unknown"}

ObjectsOK ==
    \A path \in ObjectPaths :
        /\ path >= nextPath => object[path] = NoObject
        /\ object[path] # NoObject =>
             /\ object[path].state # "none"
             /\ object[path].madeFor \in Ids
             /\ object[path].madeFor < nextId

PathsOK ==
    /\ \A p \in Owners : pc[p] \in Tracking =>
         /\ job[p].path \in ObjectPaths
         /\ pc[p] # "setpath" /\ Owns(Mine(p), p) => row[Mine(p)].path = job[p].path
    /\ \A m \in Ids :
         /\ row[m].phase \in Tracked => row[m].path \in ObjectPaths
         /\ row[m].path \in ObjectPaths \cup {NoPath}

\* While the daemon has not restarted, a path stays with its message.
PathsStay ==
    modemRestarts = 0 =>
        /\ \A p \in Owners : pc[p] \in Tracking =>
             job[p].path < nextPath /\ object[job[p].path].madeFor \in {Mine(p), NoId}
        /\ \A m \in Ids : row[m].path # NoPath =>
             row[m].path < nextPath /\ object[row[m].path].madeFor \in {m, NoId}
        /\ misfired = {}

PathInv == ObjectsOK /\ PathsOK /\ PathsStay

\* Nothing of m is on the air nor on its way there.
Quiet(m) ==
    /\ m \notin onAir
    /\ \A path \in ObjectPaths : object[path].state = "sending" => object[path].madeFor # m

\* ... and nobody may put it there.
NeverAired(m) == Quiet(m) /\ \A p \in Owners : ~Armed(p, m)

AirOK ==
    /\ \A path \in ObjectPaths : object[path].state = "sent" => object[path].madeFor \in onAir
    /\ misfired = {} =>
         /\ \A m \in Ids : m \in onAir => sends[m] > 0
         /\ \A path \in ObjectPaths :
              /\ object[path].state \in {"sending", "sent"} => sends[object[path].madeFor] > 0
              /\ object[path].state = "sending" =>
                   /\ object[path].madeFor \notin onAir
                   /\ \A other \in ObjectPaths :
                        object[other].state = "sending"
                          /\ object[other].madeFor = object[path].madeFor => other = path

RepliesOK ==
    \A p \in Owners : pc[p] = "reply" =>
        /\ sends[Mine(p)] > 0
        /\ job[p].todo = "taken" =>
             /\ object[job[p].path].state = "sending"
             /\ object[job[p].path].madeFor = Mine(p) \/ Mine(p) \in misfired
        /\ job[p].todo = "ok" => Mine(p) \in onAir \cup misfired
        /\ job[p].todo \in {"refused", "error"} /\ misfired = {} => Quiet(Mine(p))

\* Who owns a message it has not prepared yet finds it untouched.
FirstOwnerWaits ==
    \A f \in Requests : pc[f] \in {"prepare", "setpath"} /\ Owns(Mine(f), f) =>
        row[Mine(f)].phase = "created"

FailuresOK ==
    misfired = {} =>
        /\ \A m \in Ids : row[m].status = "failed" => NeverAired(m)
        /\ \A p \in Owners :
             pc[p] = "finish" /\ job[p].todo = "failed" /\ Owns(Mine(p), p)
               => NeverAired(Mine(p))

AirInv == AirOK /\ RepliesOK /\ FirstOwnerWaits /\ FailuresOK

\* Who is about to store `sent' knows that the message was transmitted.
SuccessesOK ==
    \A p \in Owners :
        pc[p] = "finish" /\ job[p].todo = "sent" => Mine(p) \in onAir \cup misfired

SentInv == SuccessesOK /\ SentIsTruthful

VerdictInv == KeyInv /\ AnnounceInv /\ PathInv /\ AirInv /\ SentInv

\* Who may still send a message, what its keys, events and verdicts may be
\* relied on for, and where its object is, all in one (messaging.rs and the
\* outbound transactions of storage/messages.rs).
SafetyInv == IInv /\ VerdictInv

(***************************************************************************)
(* The promise                                                             *)
(***************************************************************************)
Fate(m) ==
    CASE row[m].status = "absent"  -> IF origin[m] = NoRequest THEN "none" ELSE "gone"
      [] row[m].status = "sending" -> IF row[m].phase = "unknown" THEN "unknown" ELSE "pending"
      [] OTHER                     -> row[m].status

Promise == INSTANCE OutboundPromise WITH
               Messages <- Ids,
               fate     <- [m \in Ids |-> Fate(m)],
               handed   <- {m \in Ids : sends[m] > 0},
               aired    <- onAir

\* The finalizers and workers together keep the promise of OutboundPromise, as
\* long as the modem does not start its path numbering again.
KeepsPromise == Promise!PromiseSpec

(***************************************************************************)
(* Liveness                                                                *)
(***************************************************************************)
\* The modem still holds the message's SMS unsent: nobody will send it and
\* nobody can tell that it was not, so it stays `sending'.
HeldByModem(m) == row[m].path # NoPath /\ object[row[m].path].state = "stored"

\* Every message gets an outcome, unless the modem holds it for ever.
EventuallySettles ==
    \A m \in Ids : []<>(row[m].status = "absent" \/ Settled(m) \/ HeldByModem(m))

\* Every terminal message is announced, through crashes of its owner.
EventuallyAnnounced ==
    \A m \in Ids : row[m].status \in Terminal
                       ~> m \in announced \/ row[m].status = "absent"

\* Every accepted message comes to an outcome that its clients are told of,
\* through crashes and lost leases (run_outbound_worker, the outbox).
EverySendConcludes ==
    /\ EventuallySettles
    /\ EventuallyAnnounced
=============================================================================
