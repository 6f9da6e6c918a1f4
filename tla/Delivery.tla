------------------------------ MODULE Delivery ------------------------------
(***************************************************************************)
(* Forwarding received messages to channels (src/src/delivery/worker.rs,   *)
(* with the intake of src/src/messaging.rs): each run of the service       *)
(* inserts deliveries and wakes its DeliveryWorker, which drains the queue *)
(* in batches, up to Concurrency deliveries at a time, and sleeps until a  *)
(* wakeup, the next deadline or the safety scan.                           *)
(*                                                                         *)
(* A worker is one run of the service, so a restart is the Crash of one    *)
(* worker and the start of another; two may overlap on one database.       *)
(*                                                                         *)
(* A definition introduced as a mutant is a bug the code could have had;   *)
(* nothing uses it, the properties are tested against it.                  *)
(***************************************************************************)
EXTENDS DeliveryStore

CONSTANTS
    Workers,        \* runs of the service
    ProfilesOf,     \* the profiles enabled in the configuration of a run
    Concurrency,    \* delivery.concurrency
    MaxAttempts,    \* bound on the attempts of one delivery
    MaxFaults       \* bound on crashes, failed store calls, unanswered requests
                    \* and leases that run out under a running task

ASSUME DeliveryAssumption ==
    /\ ProfilesOf \in [Workers -> SUBSET Profiles]
    /\ Concurrency \in Nat \ {0}
    /\ MaxAttempts \in Nat
    /\ MaxFaults \in Nat

VARIABLES
    pc,         \* pc[w]: where DeliveryWorker::run of w is
    erred,      \* erred[w]: the batch of w has a first_error
    alarm,      \* alarm[w]: the waiting rows w computed its deadline from
    permit,     \* permit[w]: tokio's Notify holds a permit for w
    notices,    \* notices[w]: messages w inserted and has not notified yet
    tasks,      \* claimed deliveries, queued or being processed
    aged,       \* messages received longer than RETRY_MAX_AGE ago
    faults,     \* faults so far
    accepted,   \* history: how often the channel took a delivery
    refused,    \* history: deliveries the channel refused for good
    answers,    \* history: attempts whose answer the worker saw
    outcomes    \* history: outcomes stored for a delivery

workerVars  == <<pc, erred, alarm, permit, notices>>
channelVars == <<accepted, refused, answers>>
vars == <<deliveryVars, workerVars, tasks, aged, faults, channelVars, outcomes>>

Points == {"off", "drain", "batch", "more", "schedule", "arm", "wait", "backoff", "dead"}
Alive(w) == pc[w] \notin {"off", "dead"}

TaskPoints == {"queued", "ready", "dispatch", "complete", "ok", "error"}
TaskType == [worker: Workers, row: Rows, token: Tokens, attempts: Nat,
             point: TaskPoints, verdict: {"none", "retry_wait"} \cup Resolved,
             sampled: BOOLEAN]

TypeOK ==
    /\ DeliveryStoreTypeOK
    /\ pc \in [Workers -> Points]
    /\ erred \in [Workers -> BOOLEAN]
    /\ alarm \in [Workers -> SUBSET Rows]
    /\ permit \in [Workers -> BOOLEAN]
    /\ notices \in [Workers -> SUBSET Messages]
    /\ tasks \subseteq TaskType
    /\ aged \subseteq Messages
    /\ faults \in 0 .. MaxFaults
    /\ accepted \in [Rows -> Nat]
    /\ refused \subseteq Rows
    /\ answers \in [Rows -> Nat]
    /\ outcomes \in [Rows -> Nat]

Init ==
    /\ DeliveryStoreInit
    /\ pc = [w \in Workers |-> "off"]
    /\ erred = [w \in Workers |-> FALSE]
    /\ alarm = [w \in Workers |-> {}]
    /\ permit = [w \in Workers |-> FALSE]
    /\ notices = [w \in Workers |-> {}]
    /\ tasks = {}
    /\ aged = {}
    /\ faults = 0
    /\ accepted = [d \in Rows |-> 0]
    /\ refused = {}
    /\ answers = [d \in Rows |-> 0]
    /\ outcomes = [d \in Rows |-> 0]

NoFault == UNCHANGED faults
Fault   == faults < MaxFaults /\ faults' = faults + 1

Goto(w, point) == pc' = [pc EXCEPT ![w] = point]

(***************************************************************************)
(* Messaging::receive                                                      *)
(***************************************************************************)
Receive(w, m) ==
    /\ Alive(w)
    /\ InsertMessage(m, ProfilesOf[w])
    /\ notices' = IF ProfilesOf[w] = {} THEN notices
                  ELSE [notices EXCEPT ![w] = @ \cup {m}]
    /\ NoFault
    /\ UNCHANGED <<pc, erred, alarm, permit, tasks, aged, channelVars, outcomes>>

\* Mutant: the wakeup only reaches a worker that already waits.
NotifyWaiters(w, m) ==
    /\ m \in notices[w]
    /\ notices' = [notices EXCEPT ![w] = @ \ {m}]
    /\ permit' = IF pc[w] = "wait" THEN [permit EXCEPT ![w] = TRUE] ELSE permit
    /\ NoFault
    /\ UNCHANGED <<deliveryVars, pc, erred, alarm, tasks, aged, channelVars, outcomes>>

\* DeliveryWakeup::notify: notify_one keeps one permit if nobody waits.
Notify(w, m) ==
    /\ m \in notices[w]
    /\ notices' = [notices EXCEPT ![w] = @ \ {m}]
    /\ permit' = [permit EXCEPT ![w] = TRUE]
    /\ NoFault
    /\ UNCHANGED <<deliveryVars, pc, erred, alarm, tasks, aged, channelVars, outcomes>>

(***************************************************************************)
(* claim_delivery_batch, fill_delivery_slots                               *)
(***************************************************************************)
TasksOf(w, all)  == {t \in all : t.worker = w}
QueuedOf(w, all) == {t \in TasksOf(w, all) : t.point = "queued"}
SpawnedOf(w, all) == TasksOf(w, all) \ QueuedOf(w, all)

\* The tasks in `all', with as many of w's queued ones spawned as it has slots.
Fill(w, all) ==
    \E go \in SUBSET QueuedOf(w, all) :
        /\ Cardinality(go) + Cardinality(SpawnedOf(w, all)) <= Concurrency
        /\ \/ go = QueuedOf(w, all)
           \/ Cardinality(go) + Cardinality(SpawnedOf(w, all)) = Concurrency
        /\ tasks' = (all \ go) \cup {[t EXCEPT !.point = "ready"] : t \in go}

ClaimOf(w, d, token) ==
    [worker |-> w, row |-> d, token |-> token, attempts |-> delivery[d].attempts,
     point |-> "queued", verdict |-> "none", sampled |-> FALSE]

FreshTokens == Tokens \ ({t.token : t \in tasks} \cup {delivery[d].token : d \in Rows})

ClaimAndFill(w) ==
    \E batch \in SUBSET Claimable, token \in FreshTokens :
        /\ ClaimBatch(batch, token)
        /\ Fill(w, tasks \cup {ClaimOf(w, d, token) : d \in batch})

(***************************************************************************)
(* DeliveryWorker::run                                                     *)
(***************************************************************************)
\* run_forwarding recovers expired leases, then runs the worker.
Start(w) ==
    /\ pc[w] = "off"
    /\ RecoverExpired
    /\ Goto(w, "drain")
    /\ NoFault
    /\ UNCHANGED <<erred, alarm, permit, notices, tasks, aged, channelVars, outcomes>>

\* process_delivery_batch claims something ...
Drain(w) ==
    /\ pc[w] = "drain"
    /\ Claimable # {}
    /\ ClaimAndFill(w)
    /\ Goto(w, "batch")
    /\ NoFault
    /\ UNCHANGED <<erred, alarm, permit, notices, aged, channelVars, outcomes>>

\* ... or nothing: the queue is drained.
Drained(w) ==
    /\ pc[w] = "drain"
    /\ Claimable = {}
    /\ Goto(w, "schedule")
    /\ NoFault
    /\ UNCHANGED <<deliveryVars, erred, alarm, permit, notices, tasks, aged, channelVars, outcomes>>

\* A failed claim or deadline query.
QueryFails(w) ==
    /\ pc[w] \in {"drain", "schedule"}
    /\ Goto(w, "backoff")
    /\ Fault
    /\ UNCHANGED <<deliveryVars, erred, alarm, permit, notices, tasks, aged, channelVars, outcomes>>

\* join_next returns a finished task.
Join(w) ==
    /\ pc[w] = "batch"
    /\ \E t \in TasksOf(w, tasks) :
         /\ t.point \in {"ok", "error"}
         /\ erred' = [erred EXCEPT ![w] = @ \/ t.point = "error"]
         /\ IF QueuedOf(w, tasks) = {} /\ ~erred'[w]
            THEN Goto(w, "more") /\ tasks' = tasks \ {t}
            ELSE UNCHANGED pc /\ Fill(w, tasks \ {t})
    /\ NoFault
    /\ UNCHANGED <<deliveryVars, alarm, permit, notices, aged, channelVars, outcomes>>

\* No row is left in the batch: claim more while the others run.
ClaimMore(w) ==
    /\ pc[w] = "more"
    /\ IF Claimable = {} THEN UNCHANGED <<deliveryVars, tasks>> ELSE ClaimAndFill(w)
    /\ Goto(w, "batch")
    /\ NoFault
    /\ UNCHANGED <<erred, alarm, permit, notices, aged, channelVars, outcomes>>

ClaimMoreFails(w) ==
    /\ pc[w] = "more"
    /\ erred' = [erred EXCEPT ![w] = TRUE]
    /\ Goto(w, "batch")
    /\ Fault
    /\ UNCHANGED <<deliveryVars, alarm, permit, notices, tasks, aged, channelVars, outcomes>>

\* The JoinSet is empty: an error backs off, else the drain goes on.
EndBatch(w) ==
    /\ pc[w] = "batch"
    /\ TasksOf(w, tasks) = {}
    /\ Goto(w, IF erred[w] THEN "backoff" ELSE "drain")
    /\ erred' = [erred EXCEPT ![w] = FALSE]
    /\ NoFault
    /\ UNCHANGED <<deliveryVars, alarm, permit, notices, tasks, aged, channelVars, outcomes>>

BackoffEnds(w) ==
    /\ pc[w] = "backoff"
    /\ Goto(w, "drain")
    /\ NoFault
    /\ UNCHANGED <<deliveryVars, erred, alarm, permit, notices, tasks, aged, channelVars, outcomes>>

\* next_delivery_delay
Schedule(w) ==
    /\ pc[w] = "schedule"
    /\ alarm' = [alarm EXCEPT ![w] = Scheduled]
    /\ Goto(w, "arm")
    /\ NoFault
    /\ UNCHANGED <<deliveryVars, erred, permit, notices, tasks, aged, channelVars, outcomes>>

\* select! starts to wait, some time after the query.
Sleep(w) ==
    /\ pc[w] = "arm"
    /\ Goto(w, "wait")
    /\ NoFault
    /\ UNCHANGED <<deliveryVars, erred, alarm, permit, notices, tasks, aged, channelVars, outcomes>>

Wake(w) ==
    /\ pc[w] = "wait"
    /\ Goto(w, "drain")
    /\ alarm' = [alarm EXCEPT ![w] = {}]
    /\ NoFault
    /\ UNCHANGED <<deliveryVars, erred, notices, tasks, aged, channelVars, outcomes>>

WakeNotified(w) == Wake(w) /\ permit[w] /\ permit' = [permit EXCEPT ![w] = FALSE]

\* The first deadline of the rows the worker saw waiting.
DeadlinePassed(w) == \E d \in alarm[w] : delivery[d].due

WakeDeadline(w) == Wake(w) /\ DeadlinePassed(w) /\ UNCHANGED permit

\* Mutant: no safety scan.
NoSafetyScan(w) == FALSE

SafetyScan(w) == Wake(w) /\ UNCHANGED permit

(***************************************************************************)
(* process_delivery_inner                                                  *)
(***************************************************************************)
Advance(t, new) == tasks' = (tasks \ {t}) \cup {new}

Decide(t, verdict, sampled) ==
    Advance(t, [t EXCEPT !.point = "complete", !.verdict = verdict, !.sampled = sampled])

\* Too old, or the message is gone: a permanent failure without an attempt.
\* The age is read before the message.
Begin(t) ==
    /\ t.point = "ready"
    /\ IF t.row[1] \in aged \/ stored[t.row[1]] # "yes"
       THEN Decide(t, "permanent_failed", FALSE)
       ELSE Advance(t, [t EXCEPT !.point = "dispatch"])
    /\ NoFault
    /\ UNCHANGED <<deliveryVars, workerVars, aged, channelVars, outcomes>>

\* The profile was taken out of the configuration.
ProfileMissing(t) ==
    /\ t.point = "dispatch"
    /\ t.row[2] \notin ProfilesOf[t.worker]
    /\ Decide(t, "permanent_failed", FALSE)
    /\ NoFault
    /\ UNCHANGED <<deliveryVars, workerVars, aged, channelVars, outcomes>>

\* A dispatch: the channel is asked, and its answer becomes the verdict.
Dispatch(t) ==
    /\ t.point = "dispatch"
    /\ t.row[2] \in ProfilesOf[t.worker]
    /\ answers' = [answers EXCEPT ![t.row] = @ + 1]
    /\ UNCHANGED <<deliveryVars, workerVars, aged, outcomes>>

DispatchSucceeds(t) ==
    /\ Dispatch(t)
    /\ accepted' = [accepted EXCEPT ![t.row] = @ + 1]
    /\ Decide(t, "succeeded", TRUE)
    /\ NoFault
    /\ UNCHANGED refused

DispatchRefused(t) ==
    /\ Dispatch(t)
    /\ refused' = refused \cup {t.row}
    /\ Decide(t, "permanent_failed", TRUE)
    /\ NoFault
    /\ UNCHANGED accepted

\* Mutant: an answer that never came counts as a success.
TransientVerdictLax(t) == "succeeded"

\* Mutant: a first retry that fails is the last.
TransientVerdictHasty(t) ==
    IF t.row[1] \in aged \/ t.attempts > 0 THEN "permanent_failed" ELSE "retry_wait"

\* A transient failure is retried until the delivery is too old.
TransientVerdict(t) == IF t.row[1] \in aged THEN "permanent_failed" ELSE "retry_wait"

\* A timeout, a lost connection, a 5xx.  The channel may have taken the
\* message all the same.
DispatchTransient(t) ==
    /\ Dispatch(t)
    /\ t.attempts < MaxAttempts \/ t.row[1] \in aged
    /\ Decide(t, TransientVerdict(t), TRUE)
    /\ \/ NoFault /\ UNCHANGED accepted
       \/ Fault /\ accepted' = [accepted EXCEPT ![t.row] = @ + 1]
    /\ UNCHANGED refused

\* Mutant: the outcome is stored without its attempt sample.
CompleteUnsampled(t) ==
    /\ t.point = "complete"
    /\ CompleteRow(t.row, t.token, t.verdict, t.attempts + 1, FALSE)
    /\ outcomes' = IF HoldsLease(t.row, t.token) THEN [outcomes EXCEPT ![t.row] = @ + 1]
                                                 ELSE outcomes
    /\ Advance(t, [t EXCEPT !.point = "ok"])
    /\ NoFault
    /\ UNCHANGED <<workerVars, aged, channelVars>>

\* complete_delivery; OwnershipLost is only logged.
Complete(t) ==
    /\ t.point = "complete"
    /\ CompleteRow(t.row, t.token, t.verdict, t.attempts + 1, t.sampled)
    /\ outcomes' = IF HoldsLease(t.row, t.token) THEN [outcomes EXCEPT ![t.row] = @ + 1]
                                                 ELSE outcomes
    /\ Advance(t, [t EXCEPT !.point = "ok"])
    /\ NoFault
    /\ UNCHANGED <<workerVars, aged, channelVars>>

\* A store call of the task fails, or the task panics: the row stays in flight.
TaskFails(t) ==
    /\ t.point \in {"ready", "dispatch", "complete"}
    /\ Advance(t, [t EXCEPT !.point = "error"])
    /\ Fault
    /\ UNCHANGED <<deliveryVars, workerVars, aged, channelVars, outcomes>>

(***************************************************************************)
(* The environment                                                         *)
(***************************************************************************)
\* The service stops, with its worker, tasks and intake.
Crash(w) ==
    /\ Alive(w)
    /\ pc' = [pc EXCEPT ![w] = "dead"]
    /\ erred' = [erred EXCEPT ![w] = FALSE]
    /\ alarm' = [alarm EXCEPT ![w] = {}]
    /\ permit' = [permit EXCEPT ![w] = FALSE]
    /\ notices' = [notices EXCEPT ![w] = {}]
    /\ tasks' = tasks \ TasksOf(w, tasks)
    /\ Fault
    /\ UNCHANGED <<deliveryVars, aged, channelVars, outcomes>>

Unfinished == {"queued", "ready", "dispatch", "complete"}

Held(d) == \E t \in tasks : t.row = d /\ t.token = delivery[d].token /\ t.point \in Unfinished

\* A lease under which a task still works runs out only if the task took
\* longer than LEASE_SECS and four request timeouts.
LeaseLapses(d) ==
    /\ LeaseRunsOut(d)
    /\ IF Held(d) THEN Fault ELSE NoFault
    /\ UNCHANGED <<workerVars, tasks, aged, channelVars, outcomes>>

RetryDue(d) ==
    /\ RetryComesDue(d)
    /\ NoFault
    /\ UNCHANGED <<workerVars, tasks, aged, channelVars, outcomes>>

GrowsOld(m) ==
    /\ stored[m] = "yes"
    /\ m \notin aged
    /\ aged' = aged \cup {m}
    /\ NoFault
    /\ UNCHANGED <<deliveryVars, workerVars, tasks, channelVars, outcomes>>

OperatorDeletes(m) ==
    /\ EraseMessage(m)
    /\ NoFault
    /\ UNCHANGED <<workerVars, tasks, aged, channelVars, outcomes>>

RetentionDeletes(m) ==
    /\ ~Active(m)
    /\ EraseMessage(m)
    /\ NoFault
    /\ UNCHANGED <<workerVars, tasks, aged, channelVars, outcomes>>

(***************************************************************************)
(* The specification                                                       *)
(***************************************************************************)
WorkerStep(w) ==
    \/ Start(w) \/ Drain(w) \/ Drained(w) \/ Join(w) \/ ClaimMore(w) \/ EndBatch(w)
    \/ BackoffEnds(w) \/ Schedule(w) \/ Sleep(w)
    \/ WakeNotified(w) \/ WakeDeadline(w) \/ SafetyScan(w)

WorkerFault(w) == QueryFails(w) \/ ClaimMoreFails(w) \/ Crash(w)

TaskStep(t) ==
    \/ Begin(t) \/ ProfileMissing(t)
    \/ DispatchSucceeds(t) \/ DispatchRefused(t) \/ DispatchTransient(t)
    \/ Complete(t)

IntakeStep(w, m) == Receive(w, m) \/ Notify(w, m)

ClockStep ==
    \/ \E d \in Rows : LeaseLapses(d) \/ RetryDue(d)
    \/ \E m \in Messages : GrowsOld(m)

DeletionStep == \E m \in Messages : OperatorDeletes(m) \/ RetentionDeletes(m)

Next ==
    \/ \E w \in Workers : WorkerStep(w) \/ WorkerFault(w)
    \/ \E t \in tasks : TaskStep(t) \/ TaskFails(t)
    \/ \E w \in Workers, m \in Messages : IntakeStep(w, m)
    \/ ClockStep
    \/ DeletionStep

Spec == Init /\ [][Next]_vars

(***************************************************************************)
(* Fairness: tokio polls every task, the service is started, every request *)
(* of a channel ends, deadlines pass.  Of the answers only the transient   *)
(* one is ever due: no channel has to take or to refuse anything.          *)
(***************************************************************************)
TaskProgress(w, d) ==
    \E t \in TasksOf(w, tasks) :
        t.row = d /\ (Begin(t) \/ ProfileMissing(t) \/ DispatchTransient(t) \/ Complete(t))

Fairness ==
    /\ \A w \in Workers : WF_vars(WorkerStep(w))
    /\ \A w \in Workers, d \in Rows : WF_vars(TaskProgress(w, d))
    /\ \A d \in Rows : WF_vars(LeaseLapses(d)) /\ WF_vars(RetryDue(d))
    /\ \A m \in Messages : WF_vars(GrowsOld(m))

FairSpec == Spec /\ Fairness

(***************************************************************************)
(* Safety                                                                  *)
(***************************************************************************)
\* A delivery stored as succeeded was taken by its channel, whichever of
\* several lease holders completed it (process_delivery_inner).
SucceededWasAccepted ==
    \A d \in Rows : delivery[d].state = "succeeded" => accepted[d] > 0

\* What may end a delivery.
HasCause(d) ==
    \/ d \in refused
    \/ d[1] \in aged
    \/ \E w \in Workers : d[2] \notin ProfilesOf[w]

\* A delivery is given up only if the channel refused it, it is older than a
\* day, or its profile left the configuration: transient failures and crashes
\* alone never end it (RETRY_MAX_AGE).
GivenUpForCause ==
    \A d \in Rows : delivery[d].state = "permanent_failed" => HasCause(d)

\* "Delivery is at least once": without a crash, a failed store call, a lost
\* answer or an outrun lease it is exactly once, with any number of workers,
\* and what the channel took is never retried or given up.
OnceWithoutFaults ==
    faults = 0 => \A d \in Rows :
        /\ accepted[d] <= 1
        /\ accepted[d] = 1 => delivery[d].state \in {"in_flight", "succeeded", "absent"}

\* attempt_count counts every stored outcome: though each completion writes
\* the count it was claimed with plus one, no late owner sets it back.
CountsEveryOutcome ==
    \A d \in Rows : delivery[d].state # "absent" => delivery[d].attempts = outcomes[d]

Sampling(d) == {t \in tasks : t.row = d /\ t.point = "complete" /\ t.sampled}

\* Every answered attempt leaves exactly one sample, also when the lease was
\* lost meanwhile; only a fault can drop one.
EveryAttemptSampled ==
    \A d \in Rows :
        LET recorded == samples[d] + Cardinality(Sampling(d)) IN
        recorded <= answers[d] /\ answers[d] <= recorded + faults

\* Whatever ends a delivery or goes out to a channel is accounted for: a cause
\* for giving up, a sample for an answer (process_delivery_inner).
AttemptsAreAccounted ==
    /\ GivenUpForCause
    /\ EveryAttemptSampled

\* w is the only run of the service so far.
Alone(w) == \A v \in Workers \ {w} : pc[v] = "off"

\* A worker that goes to sleep has seen every waiting delivery or will be
\* notified of it; the safety scan is needed for leases of failed work only.
NoMissedWakeup ==
    \A w \in Workers : pc[w] \in {"arm", "wait"} /\ Alone(w) =>
        /\ \A d \in Scheduled : d \in alarm[w] \/ permit[w] \/ d[1] \in notices[w]
        /\ \A d \in Rows : delivery[d].state = "in_flight" => faults > 0

(***************************************************************************)
(* Action properties                                                       *)
(***************************************************************************)
\* Once succeeded or given up, a delivery keeps its state until its message is
\* deleted, however late other owners complete it.
StaysResolved ==
    \A d \in Rows : delivery[d].state \in Resolved =>
        delivery'[d].state \in {delivery[d].state, "absent"}
ResolvedIsFinal == [][StaysResolved]_delivery

\* The row of a delivery tells the truth: a success was accepted, the count is
\* of outcomes, and what is resolved stays so, whichever of several owners
\* writes (complete_delivery).
OutcomesHold ==
    [][SucceededWasAccepted' /\ CountsEveryOutcome' /\ StaysResolved]_vars

(***************************************************************************)
(* The inductive invariant                                                 *)
(***************************************************************************)
\* A row has a lease token exactly while it is in flight.
LeasesOK == \A d \in Rows : delivery[d].state = "in_flight" <=> delivery[d].token # NoToken

\* Deliveries come and go with their message.
NoOrphans ==
    \A d \in Rows :
        /\ delivery[d].state # "absent" => stored[d[1]] = "yes"
        /\ stored[d[1]] = "no" => outcomes[d] = 0

\* As long as a task's lease stands, the attempt count is the one it claimed.
SnapshotsOK ==
    \A t \in tasks : delivery[t.row].token = t.token => t.attempts = delivery[t.row].attempts

VerdictsOK ==
    \A t \in tasks :
        /\ t.point = "complete" => t.verdict # "none"
        /\ t.verdict = "succeeded" => accepted[t.row] > 0

TypeInv == TypeOK /\ LeasesOK

IInv ==
    /\ TypeInv
    /\ NoOrphans
    /\ SnapshotsOK
    /\ VerdictsOK
    /\ SucceededWasAccepted
    /\ CountsEveryOutcome

\* A task is known by its row and its token, works in a batch and on a message
\* that was received.
TasksOK ==
    /\ IsFiniteSet(tasks)
    /\ \A t, u \in tasks : t.row = u.row /\ t.token = u.token => t = u
    /\ \A t \in tasks : pc[t.worker] \in {"batch", "more"} /\ stored[t.row[1]] # "no"

\* A task gives up for a cause, or because its message was deleted; then it
\* has no row to write to.
CausesOK ==
    \A t \in tasks : t.verdict = "permanent_failed" =>
        HasCause(t.row) \/ stored[t.row[1]] # "yes"

\* The tokens under which tasks work on d, and the one whose lease stands.
WorkOn(d)  == {t.token : t \in {u \in tasks : u.row = d /\ u.point \in Unfinished}}
LeaseOn(d) == IF delivery[d].live THEN delivery[d].token ELSE NoToken

\* The faults so far pay for the samples missing already and for `stray' more.
Backed(d, stray) ==
    answers[d] + Cardinality(stray) <= samples[d] + Cardinality(Sampling(d)) + faults

\* A crash drops every task of a run, and the sample each of them owes, but
\* only one task works under the lease that stands: for each of the others a
\* lease was outrun before.  A deletion turns that one loose without a fault,
\* and ends the claims.
SamplesOK ==
    \A d \in Rows :
        /\ samples[d] + Cardinality(Sampling(d)) <= answers[d]
        /\ \E one \in Tokens \cup {NoToken} :
              /\ stored[d[1]] = "yes" => one = LeaseOn(d)
              /\ Backed(d, WorkOn(d) \ {one})

\* Without faults ...
\* ... every lease stands, and a task works under it,
LeasesAreHeld == \A d \in Rows : delivery[d].state = "in_flight" => delivery[d].live /\ Held(d)

\* ... every task has the lease of its row until it has completed it, or the
\* message was deleted,
TasksHoldLeases ==
    \A t \in tasks : t.point \in Unfinished =>
        HoldsLease(t.row, t.token) \/ stored[t.row[1]] # "yes"

\* ... and has the row for itself,
OneTaskPerRow ==
    \A t, u \in tasks : t.row = u.row /\ {t.point, u.point} \subseteq Unfinished => t = u

\* ... so that what the channel took is known to the task it took it from.
AcceptedIsKnown ==
    /\ \A t \in tasks :
          /\ t.point \in Unfinished \ {"complete"} => accepted[t.row] = 0
          /\ t.point = "complete" /\ accepted[t.row] > 0 => t.verdict = "succeeded"
    /\ \A d \in Rows : stored[d[1]] = "no" => accepted[d] = 0

Undisturbed ==
    faults = 0 => LeasesAreHeld /\ TasksHoldLeases /\ OneTaskPerRow /\ AcceptedIsKnown

\* The inductive invariant behind all safety properties of the queue.
SafetyInv ==
    /\ IInv
    /\ TasksOK
    /\ CausesOK
    /\ GivenUpForCause
    /\ SamplesOK
    /\ Undisturbed
    /\ OnceWithoutFaults
    /\ NoMissedWakeup

(***************************************************************************)
(* Liveness                                                                *)
(***************************************************************************)
\* Every delivery is resolved within the day it may be retried, through
\* crashes, failed store calls and lost leases.
EventuallyResolved ==
    \A d \in Rows : []<>(delivery[d].state \in Resolved \cup {"absent"})
=============================================================================
