--------------------------- MODULE DeliveryProofs ---------------------------
(***************************************************************************)
(* Theorems about module Delivery, for any number of messages, profiles,   *)
(* workers and tokens and without a bound on attempts or faults: its type  *)
(* invariant, the inductive invariant IInv, that a stored success is one   *)
(* the channel took, that every stored outcome is counted, that a resolved *)
(* delivery stays resolved; then, from SafetyInv, that a delivery is given *)
(* up for a cause only and leaves its sample unless a fault took it, that  *)
(* it is made once without faults, and that no wakeup is missed.           *)
(***************************************************************************)
EXTENDS Delivery, FiniteSetTheorems, TLAPS

USE DeliveryStoreAssumption, DeliveryAssumption

(***************************************************************************)
(* Where tasks come from                                                   *)
(***************************************************************************)
\* Spawning changes nothing of a task but its point.
LEMMA FillSources ==
    ASSUME NEW w \in Workers, NEW all \in SUBSET TaskType, Fill(w, all)
    PROVE  \A u \in tasks' : \E t \in all : u = t \/ u = [t EXCEPT !.point = "ready"]
BY DEF Fill, QueuedOf, TasksOf

\* fill_delivery_slots keeps the tasks well typed.
LEMMA FillTyped ==
    ASSUME NEW w \in Workers, NEW all \in SUBSET TaskType, Fill(w, all)
    PROVE  tasks' \subseteq TaskType
<1>1. \A t \in all : [t EXCEPT !.point = "ready"] \in TaskType
  BY DEF TaskType, TaskPoints
<1> QED
  BY <1>1, FillSources

\* A claim is well typed.
LEMMA ClaimTyped ==
    ASSUME TypeOK, NEW w \in Workers, NEW d \in Rows, NEW token \in Tokens
    PROVE  ClaimOf(w, d, token) \in TaskType
BY DEF TypeOK, DeliveryStoreTypeOK, RowType, ClaimOf, TaskType, TaskPoints

\* What a claim does to a row, and where the tasks come from afterwards.
LEMMA ClaimFacts ==
    ASSUME TypeOK, NEW w \in Workers, ClaimAndFill(w)
    PROVE  /\ tasks' \subseteq TaskType
           /\ UNCHANGED <<stored, samples>>
           /\ \E batch \in SUBSET Claimable, token \in FreshTokens :
                /\ delivery' = [d \in Rows |->
                                  IF d \in batch THEN Leased(delivery[d], token)
                                  ELSE IF d \in Expired THEN Requeued(delivery[d])
                                  ELSE delivery[d]]
                /\ \A u \in tasks' :
                     \E t \in tasks \cup {ClaimOf(w, d, token) : d \in batch} :
                        u = t \/ u = [t EXCEPT !.point = "ready"]
<1>1. PICK batch \in SUBSET Claimable, token \in FreshTokens :
        /\ ClaimBatch(batch, token)
        /\ Fill(w, tasks \cup {ClaimOf(w, d, token) : d \in batch})
  BY DEF ClaimAndFill
<1>2. batch \subseteq Rows /\ token \in Tokens
  BY DEF Claimable, Expired, FreshTokens
<1>3. tasks \cup {ClaimOf(w, d, token) : d \in batch} \in SUBSET TaskType
  BY <1>2, ClaimTyped DEF TypeOK
<1>4. tasks' \subseteq TaskType
  BY <1>1, <1>3, FillTyped
<1>5. \A u \in tasks' : \E t \in tasks \cup {ClaimOf(w, d, token) : d \in batch} :
          u = t \/ u = [t EXCEPT !.point = "ready"]
  BY <1>1, <1>3, FillSources
<1> QED
  BY <1>1, <1>4, <1>5 DEF ClaimBatch

(***************************************************************************)
(* The type invariant                                                      *)
(***************************************************************************)
\* Every initial state is well typed.
LEMMA InitTyped == Init => TypeOK
BY DEF Init, TypeOK, DeliveryStoreInit, DeliveryStoreTypeOK, RowType, NoRow, States,
       Points, TaskType

\* The rows a claim, the recovery at start and the intake write are rows.
LEMMA RowsTyped ==
    /\ \A r \in RowType : Requeued(r) \in RowType
    /\ \A r \in RowType, token \in Tokens : Leased(r, token) \in RowType
    /\ NoRow \in RowType
    /\ [NoRow EXCEPT !.state = "pending"] \in RowType
<1>1. \A r \in RowType : Requeued(r) \in RowType
  BY DEF RowType, Requeued, States
<1>2. \A r \in RowType, token \in Tokens : Leased(r, token) \in RowType
  BY DEF RowType, Leased, States
<1>3. NoRow \in RowType /\ [NoRow EXCEPT !.state = "pending"] \in RowType
  BY DEF RowType, NoRow, States
<1> QED
  BY <1>1, <1>2, <1>3

\* A claim keeps the store and the tasks well typed.
LEMMA ClaimTypes ==
    ASSUME TypeOK, NEW w \in Workers, ClaimAndFill(w)
    PROVE  DeliveryStoreTypeOK' /\ tasks' \subseteq TaskType
<1>1. PICK batch \in SUBSET Claimable, token \in FreshTokens :
        delivery' = [d \in Rows |->
                       IF d \in batch THEN Leased(delivery[d], token)
                       ELSE IF d \in Expired THEN Requeued(delivery[d])
                       ELSE delivery[d]]
  BY ClaimFacts
<1>2. token \in Tokens
  BY DEF FreshTokens
<1>3. delivery' \in [Rows -> RowType]
  BY <1>1, <1>2, RowsTyped DEF TypeOK, DeliveryStoreTypeOK
<1> QED
  BY <1>3, ClaimFacts DEF TypeOK, DeliveryStoreTypeOK

\* Every step of a worker keeps the types.
LEMMA WorkerTyped ==
    ASSUME TypeOK, NEW w \in Workers, WorkerStep(w) \/ WorkerFault(w)
    PROVE  TypeOK'
<1> USE DEF TypeOK, workerVars, channelVars, deliveryVars, Goto, NoFault, Fault, Points
<1>1. CASE Start(w)
  <2>1. delivery' \in [Rows -> RowType]
    BY <1>1, RowsTyped DEF Start, RecoverExpired, DeliveryStoreTypeOK
  <2> QED
    BY <1>1, <2>1 DEF Start, RecoverExpired, DeliveryStoreTypeOK
<1>2. CASE Drain(w)
  <2>1. DeliveryStoreTypeOK' /\ tasks' \subseteq TaskType
    BY <1>2, ClaimTypes DEF Drain
  <2> QED
    BY <1>2, <2>1 DEF Drain
<1>3. CASE Drained(w) \/ BackoffEnds(w)
  BY <1>3 DEF Drained, BackoffEnds, DeliveryStoreTypeOK
<1>12. CASE Sleep(w)
  BY <1>12 DEF Sleep, DeliveryStoreTypeOK
<1>13. CASE QueryFails(w)
  BY <1>13 DEF QueryFails, DeliveryStoreTypeOK
<1>8. CASE EndBatch(w)
  BY <1>8 DEF EndBatch, DeliveryStoreTypeOK
<1>9. CASE ClaimMoreFails(w)
  BY <1>9 DEF ClaimMoreFails, DeliveryStoreTypeOK
<1>4. CASE Join(w)
  <2>1. tasks' \subseteq TaskType
    <3>1. PICK t \in TasksOf(w, tasks) : tasks' = tasks \ {t} \/ Fill(w, tasks \ {t})
      BY <1>4 DEF Join
    <3> QED
      BY <3>1, FillTyped
  <2> QED
    BY <1>4, <2>1 DEF Join, DeliveryStoreTypeOK
<1>5. CASE ClaimMore(w)
  <2>1. DeliveryStoreTypeOK' /\ tasks' \subseteq TaskType
    <3>1. CASE Claimable = {}
      BY <1>5, <3>1 DEF ClaimMore, DeliveryStoreTypeOK
    <3>2. CASE ClaimAndFill(w)
      BY <3>2, ClaimTypes
    <3> QED
      BY <1>5, <3>1, <3>2 DEF ClaimMore
  <2> QED
    BY <1>5, <2>1 DEF ClaimMore
<1>6. CASE Schedule(w)
  BY <1>6 DEF Schedule, Scheduled, DeliveryStoreTypeOK
<1>10. CASE WakeNotified(w)
  BY <1>10 DEF WakeNotified, Wake, DeliveryStoreTypeOK
<1>11. CASE WakeDeadline(w) \/ SafetyScan(w)
  <2>1. Wake(w) /\ UNCHANGED permit
    BY <1>11 DEF WakeDeadline, SafetyScan
  <2> QED
    BY <2>1 DEF Wake, DeliveryStoreTypeOK
<1>7. CASE Crash(w)
  BY <1>7 DEF Crash, DeliveryStoreTypeOK
<1> QED
  BY <1>1, <1>2, <1>3, <1>4, <1>5, <1>6, <1>7, <1>8, <1>9, <1>10, <1>11, <1>12, <1>13
     DEF WorkerStep, WorkerFault

\* A step of a task replaces it by a task.
LEMMA AdvanceTyped ==
    ASSUME TypeOK, NEW t \in tasks, NEW u \in TaskType, Advance(t, u)
    PROVE  tasks' \subseteq TaskType
BY DEF TypeOK, Advance

\* A decided task is a task.
LEMMA DecideTyped ==
    ASSUME TypeOK, NEW t \in tasks, NEW sampled \in BOOLEAN,
           NEW verdict \in {"retry_wait"} \cup Resolved, Decide(t, verdict, sampled)
    PROVE  tasks' \subseteq TaskType
<1>1. t \in TaskType
  BY DEF TypeOK
<1>2. [t EXCEPT !.point = "complete", !.verdict = verdict, !.sampled = sampled] \in TaskType
  BY <1>1 DEF TaskType, TaskPoints
<1> QED
  BY <1>2, AdvanceTyped DEF Decide

\* A stored outcome is a row.
LEMMA OutcomeTyped ==
    ASSUME NEW r \in RowType, NEW verdict \in {"retry_wait"} \cup Resolved, NEW n \in Nat
    PROVE  Outcome(r, verdict, n) \in RowType
BY DEF Outcome, RowType, States, Resolved

\* A completion keeps the types: a decided task has a verdict a row can store.
LEMMA CompleteTyped ==
    ASSUME TypeOK, VerdictsOK, NEW t \in tasks, Complete(t)
    PROVE  TypeOK'
<1> USE DEF TypeOK, workerVars, channelVars, deliveryVars, NoFault
<1>1. t \in TaskType /\ t.row \in Rows /\ t.attempts + 1 \in Nat
      /\ t.verdict \in {"retry_wait"} \cup Resolved
  BY DEF Complete, VerdictsOK, TaskType
<1>2. tasks' \subseteq TaskType
  <2>1. [t EXCEPT !.point = "ok"] \in TaskType
    BY <1>1 DEF TaskType, TaskPoints
  <2> QED
    BY <2>1, AdvanceTyped DEF Complete
<1>3. delivery' \in [Rows -> RowType]
  <2>1. Outcome(delivery[t.row], t.verdict, t.attempts + 1) \in RowType
    BY <1>1, OutcomeTyped DEF DeliveryStoreTypeOK
  <2> QED
    BY <1>1, <2>1 DEF Complete, CompleteRow, DeliveryStoreTypeOK
<1>4. samples' \in [Rows -> Nat] /\ outcomes' \in [Rows -> Nat] /\ UNCHANGED stored
  BY <1>1 DEF Complete, CompleteRow, DeliveryStoreTypeOK
<1> QED
  BY <1>2, <1>3, <1>4 DEF Complete, DeliveryStoreTypeOK

\* Every step of a task keeps the types.
LEMMA TaskTyped ==
    ASSUME TypeOK, VerdictsOK, NEW t \in tasks, TaskStep(t) \/ TaskFails(t)
    PROVE  TypeOK'
<1> USE DEF TypeOK, workerVars, channelVars, deliveryVars, NoFault, Fault
<1>1. t \in TaskType /\ t.row \in Rows
  BY DEF TaskType
<1>2. \A point \in TaskPoints : [t EXCEPT !.point = point] \in TaskType
  BY <1>1 DEF TaskType, TaskPoints
<1>3. CASE Begin(t)
  <2>1. tasks' \subseteq TaskType
    BY <1>2, <1>3, DecideTyped, AdvanceTyped DEF Begin, Resolved, TaskPoints
  <2> QED
    BY <1>3, <2>1 DEF Begin, DeliveryStoreTypeOK
<1>4. CASE ProfileMissing(t)
  <2>1. tasks' \subseteq TaskType
    BY <1>4, DecideTyped DEF ProfileMissing, Resolved
  <2> QED
    BY <1>4, <2>1 DEF ProfileMissing, DeliveryStoreTypeOK
<1>5. CASE DispatchSucceeds(t)
  <2>1. tasks' \subseteq TaskType
    BY <1>5, DecideTyped DEF DispatchSucceeds, Resolved
  <2> QED
    BY <1>1, <1>5, <2>1 DEF DispatchSucceeds, Dispatch, DeliveryStoreTypeOK
<1>6. CASE DispatchRefused(t)
  <2>1. tasks' \subseteq TaskType
    BY <1>6, DecideTyped DEF DispatchRefused, Resolved
  <2> QED
    BY <1>1, <1>6, <2>1 DEF DispatchRefused, Dispatch, DeliveryStoreTypeOK
<1>7. CASE DispatchTransient(t)
  <2>1. tasks' \subseteq TaskType
    <3>1. TransientVerdict(t) \in {"retry_wait"} \cup Resolved
      BY DEF TransientVerdict, Resolved
    <3> QED
      BY <1>7, <3>1, DecideTyped DEF DispatchTransient
  <2>2. faults' \in 0 .. MaxFaults /\ accepted' \in [Rows -> Nat]
    BY <1>1, <1>7 DEF DispatchTransient
  <2>3. /\ answers' \in [Rows -> Nat]
        /\ UNCHANGED <<deliveryVars, workerVars, aged, outcomes, refused>>
    BY <1>1, <1>7 DEF DispatchTransient, Dispatch
  <2> QED
    BY <2>1, <2>2, <2>3 DEF DeliveryStoreTypeOK
<1>8. CASE Complete(t)
  BY <1>8, CompleteTyped
<1>9. CASE TaskFails(t)
  <2>1. tasks' \subseteq TaskType
    BY <1>2, <1>9, AdvanceTyped DEF TaskFails, TaskPoints
  <2> QED
    BY <1>9, <2>1 DEF TaskFails, DeliveryStoreTypeOK
<1> QED
  BY <1>3, <1>4, <1>5, <1>6, <1>7, <1>8, <1>9 DEF TaskStep

\* The intake, the clock and deletions keep the types.
LEMMA OutsideTyped ==
    ASSUME TypeOK,
           (\E w \in Workers, m \in Messages : IntakeStep(w, m)) \/ ClockStep \/ DeletionStep
    PROVE  TypeOK'
<1> USE RowsTyped DEF TypeOK, workerVars, channelVars, deliveryVars, NoFault, Fault
<1>1. ASSUME NEW w \in Workers, NEW m \in Messages, Receive(w, m)
      PROVE  TypeOK'
  BY <1>1 DEF Receive, InsertMessage, DeliveryStoreTypeOK
<1>2. ASSUME NEW w \in Workers, NEW m \in Messages, Notify(w, m)
      PROVE  TypeOK'
  BY <1>2 DEF Notify, DeliveryStoreTypeOK
<1>3. ASSUME NEW d \in Rows, LeaseLapses(d)
      PROVE  TypeOK'
  <2>1. [delivery[d] EXCEPT !.live = FALSE] \in RowType
    BY DEF DeliveryStoreTypeOK, RowType
  <2> QED
    BY <1>3, <2>1 DEF LeaseLapses, LeaseRunsOut, DeliveryStoreTypeOK
<1>4. ASSUME NEW d \in Rows, RetryDue(d)
      PROVE  TypeOK'
  <2>1. [delivery[d] EXCEPT !.due = TRUE] \in RowType
    BY DEF DeliveryStoreTypeOK, RowType
  <2> QED
    BY <1>4, <2>1 DEF RetryDue, RetryComesDue, DeliveryStoreTypeOK
<1>5. ASSUME NEW m \in Messages, GrowsOld(m)
      PROVE  TypeOK'
  BY <1>5 DEF GrowsOld, DeliveryStoreTypeOK
<1>6. ASSUME NEW m \in Messages, OperatorDeletes(m) \/ RetentionDeletes(m)
      PROVE  TypeOK'
  BY <1>6 DEF OperatorDeletes, RetentionDeletes, EraseMessage, DeliveryStoreTypeOK
<1> QED
  BY <1>1, <1>2, <1>3, <1>4, <1>5, <1>6 DEF IntakeStep, ClockStep, DeletionStep

\* Every step keeps the types.
LEMMA StepTyped ==
    ASSUME TypeOK, VerdictsOK, [Next]_vars
    PROVE  TypeOK'
<1>1. CASE UNCHANGED vars
  BY <1>1 DEF TypeOK, DeliveryStoreTypeOK, vars, deliveryVars, workerVars, channelVars
<1> QED
  BY <1>1, WorkerTyped, TaskTyped, OutsideTyped DEF Next

(***************************************************************************)
(* The inductive invariant                                                 *)
(***************************************************************************)
\* What IInv says beyond the types.
Core ==
    /\ LeasesOK
    /\ NoOrphans
    /\ SnapshotsOK
    /\ VerdictsOK
    /\ SucceededWasAccepted
    /\ CountsEveryOutcome

\* u and t work on the same claim.
SameClaim(u, t) == u.row = t.row /\ u.token = t.token /\ u.attempts = t.attempts

\* u is the task t, or t after it was spawned.
Continues(u, t) ==
    SameClaim(u, t) /\ u.verdict = t.verdict /\ (u.point = "complete" => t.point = "complete")

ContinuesOne(u) == \E t \in tasks : Continues(u, t)

\* u is a claim of a row of the batch, not processed yet.
ClaimedNow(u, batch) ==
    /\ u.row \in batch
    /\ u.attempts = delivery[u.row].attempts
    /\ u.verdict = "none"
    /\ u.point # "complete"

\* The initial state satisfies the rest of the invariant.
LEMMA InitCore == Init => Core
BY DEF Init, Core, DeliveryStoreInit, NoRow, LeasesOK, NoOrphans, SnapshotsOK, VerdictsOK,
       SucceededWasAccepted, CountsEveryOutcome

\* Steps that leave the rows alone only have to keep the verdicts right.
LEMMA RowsKept ==
    ASSUME TypeOK, Core, UNCHANGED <<stored, delivery, outcomes>>,
           \A d \in Rows : accepted[d] > 0 => accepted'[d] > 0,
           \A u \in tasks' : \E t \in tasks : SameClaim(u, t),
           VerdictsOK'
    PROVE  Core'
<1>1. SnapshotsOK'
  BY DEF Core, SnapshotsOK, SameClaim
<1>2. SucceededWasAccepted'
  BY DEF Core, SucceededWasAccepted
<1> QED
  BY <1>1, <1>2 DEF Core, LeasesOK, NoOrphans, CountsEveryOutcome

\* Steps that at most spawn, join or drop tasks.
LEMMA Quiet ==
    ASSUME TypeOK, Core, UNCHANGED <<stored, delivery, outcomes, accepted>>,
           \A u \in tasks' : \E t \in tasks : u = t \/ u = [t EXCEPT !.point = "ready"]
    PROVE  Core'
<1>1. \A t \in tasks : t \in TaskType
  BY DEF TypeOK
<1>2. ASSUME NEW u \in tasks'
      PROVE  \E t \in tasks :
          SameClaim(u, t) /\ u.verdict = t.verdict /\ (u.point = "complete" => t.point = "complete")
  <2>1. PICK t \in tasks : u = t \/ u = [t EXCEPT !.point = "ready"]
    OBVIOUS
  <2>2. CASE u = t
    BY <2>2 DEF SameClaim
  <2>3. CASE u = [t EXCEPT !.point = "ready"]
    BY <1>1, <2>3 DEF TaskType, SameClaim
  <2> QED
    BY <2>1, <2>2, <2>3
<1>3. VerdictsOK'
  BY <1>2 DEF Core, VerdictsOK, SameClaim
<1> QED
  BY <1>2, <1>3, RowsKept

\* A claim leases rows under a token no task knows.
LEMMA ClaimCore ==
    ASSUME TypeOK, Core, NEW w \in Workers, ClaimAndFill(w), UNCHANGED <<outcomes, accepted>>
    PROVE  Core'
<1>1. PICK batch \in SUBSET Claimable, token \in FreshTokens :
        /\ delivery' = [d \in Rows |->
                          IF d \in batch THEN Leased(delivery[d], token)
                          ELSE IF d \in Expired THEN Requeued(delivery[d])
                          ELSE delivery[d]]
        /\ \A u \in tasks' :
             \E t \in tasks \cup {ClaimOf(w, d, token) : d \in batch} :
                u = t \/ u = [t EXCEPT !.point = "ready"]
  BY ClaimFacts
<1>2. UNCHANGED stored
  BY ClaimFacts
<1>3. /\ batch \subseteq Rows
      /\ token \in Tokens
      /\ token # NoToken
      /\ \A t \in tasks : t.token # token
  BY DEF Claimable, Expired, FreshTokens
<1>4. \A d \in Rows : delivery[d] \in RowType
  BY DEF TypeOK, DeliveryStoreTypeOK
<1>5. \A d \in Claimable : delivery[d].state \in {"in_flight"} \cup Waiting
  BY DEF Claimable, Expired
<1>6. \A d \in Rows :
        /\ d \in batch => /\ delivery'[d].state = "in_flight"
                           /\ delivery'[d].token = token
                           /\ delivery'[d].attempts = delivery[d].attempts
                           /\ delivery[d].state \in {"in_flight"} \cup Waiting
        /\ d \notin batch =>
             \/ delivery'[d] = delivery[d]
             \/ /\ delivery[d].state = "in_flight"
                /\ delivery'[d].state = "retry_wait"
                /\ delivery'[d].token = NoToken
                /\ delivery'[d].attempts = delivery[d].attempts
  BY <1>1, <1>3, <1>4, <1>5 DEF Leased, Requeued, RowType, Expired
<1>7. LeasesOK'
  BY <1>3, <1>6 DEF Core, LeasesOK
<1>8. NoOrphans'
  BY <1>2, <1>6 DEF Core, NoOrphans, Waiting
<1>9. SucceededWasAccepted'
  BY <1>6 DEF Core, SucceededWasAccepted
<1>10. CountsEveryOutcome'
  BY <1>6 DEF Core, CountsEveryOutcome, Waiting
<1>11. \A u \in tasks' : ContinuesOne(u) \/ ClaimedNow(u, batch)
  <2>1. ASSUME NEW t \in tasks
        PROVE  LET u == [t EXCEPT !.point = "ready"] IN
               SameClaim(u, t) /\ u.verdict = t.verdict /\ u.point = "ready"
    BY DEF TypeOK, TaskType, SameClaim
  <2>2. ASSUME NEW d \in batch, NEW u,
               u = ClaimOf(w, d, token) \/ u = [ClaimOf(w, d, token) EXCEPT !.point = "ready"]
        PROVE  /\ u.row = d
               /\ u.attempts = delivery[d].attempts
               /\ u.verdict = "none"
               /\ u.point \in {"queued", "ready"}
    BY <2>2 DEF ClaimOf
  <2>3. ASSUME NEW u \in tasks'
        PROVE  \/ \E t \in tasks : u = t \/ u = [t EXCEPT !.point = "ready"]
               \/ \E d \in batch : \/ u = ClaimOf(w, d, token)
                                  \/ u = [ClaimOf(w, d, token) EXCEPT !.point = "ready"]
    BY <1>1
  <2> TAKE u \in tasks'
  <2>4. CASE \E t \in tasks : u = t \/ u = [t EXCEPT !.point = "ready"]
    <3>1. PICK t \in tasks : u = t \/ u = [t EXCEPT !.point = "ready"]
      BY <2>4
    <3>2. Continues(u, t)
      BY <2>1, <3>1 DEF SameClaim, Continues
    <3> QED
      BY <3>2 DEF ContinuesOne
  <2>5. CASE \E d \in batch : \/ u = ClaimOf(w, d, token)
                             \/ u = [ClaimOf(w, d, token) EXCEPT !.point = "ready"]
    BY <2>2, <2>5 DEF ClaimedNow
  <2> QED
    BY <2>3, <2>4, <2>5
<1>12. SnapshotsOK'
  <2>1. ASSUME NEW u \in tasks', delivery'[u.row].token = u.token
        PROVE  u.attempts = delivery'[u.row].attempts
    <3>1. CASE ClaimedNow(u, batch)
      BY <1>3, <1>6, <3>1 DEF ClaimedNow
    <3>2. CASE ContinuesOne(u)
      <4>1. PICK t \in tasks : SameClaim(u, t)
        BY <3>2 DEF ContinuesOne, Continues
      <4>2. t.row \in Rows /\ t.token # token /\ t.token # NoToken
        BY <1>3 DEF TypeOK, TaskType
      <4>3. delivery'[t.row] = delivery[t.row]
        BY <1>6, <2>1, <4>1, <4>2 DEF SameClaim
      <4> QED
        BY <2>1, <4>1, <4>3 DEF Core, SnapshotsOK, SameClaim
    <3> QED
      BY <1>11, <3>1, <3>2
  <2> QED
    BY <2>1 DEF SnapshotsOK
<1>13. VerdictsOK'
  <2>1. ASSUME NEW u \in tasks'
        PROVE  /\ u.point = "complete" => u.verdict # "none"
               /\ u.verdict = "succeeded" => accepted[u.row] > 0
    <3>1. CASE ContinuesOne(u)
      BY <3>1 DEF Core, VerdictsOK, SameClaim, Continues, ContinuesOne
    <3>2. CASE ClaimedNow(u, batch)
      BY <3>2 DEF ClaimedNow
    <3> QED
      BY <1>11, <3>1, <3>2
  <2> QED
    BY <2>1 DEF VerdictsOK
<1> QED
  BY <1>7, <1>8, <1>9, <1>10, <1>12, <1>13 DEF Core

\* A start only requeues abandoned rows.
LEMMA RecoverCore ==
    ASSUME TypeOK, Core, RecoverExpired, UNCHANGED <<tasks, outcomes, accepted>>
    PROVE  Core'
<1>1. \A d \in Rows : delivery[d] \in RowType
  BY DEF TypeOK, DeliveryStoreTypeOK
<1>2. \A d \in Rows :
        \/ delivery'[d] = delivery[d]
        \/ /\ delivery[d].state = "in_flight"
           /\ delivery'[d].state = "retry_wait"
           /\ delivery'[d].token = NoToken
           /\ delivery'[d].attempts = delivery[d].attempts
  BY <1>1 DEF RecoverExpired, Requeued, RowType, Expired
<1>3. UNCHANGED stored
  BY DEF RecoverExpired
<1>4. \A t \in tasks : t.row \in Rows /\ t.token # NoToken
  BY DEF TypeOK, TaskType
<1>5. LeasesOK'
  BY <1>2 DEF Core, LeasesOK
<1>6. NoOrphans'
  BY <1>2, <1>3 DEF Core, NoOrphans
<1>7. SnapshotsOK'
  BY <1>2, <1>4 DEF Core, SnapshotsOK
<1>8. SucceededWasAccepted'
  BY <1>2 DEF Core, SucceededWasAccepted
<1>9. CountsEveryOutcome'
  BY <1>2 DEF Core, CountsEveryOutcome
<1>10. VerdictsOK'
  BY DEF Core, VerdictsOK
<1> QED
  BY <1>5, <1>6, <1>7, <1>8, <1>9, <1>10 DEF Core

\* Steps that leave states, tokens and counts of the rows, and all tasks, alone.
LEMMA FieldsKept ==
    ASSUME TypeOK, Core, UNCHANGED <<stored, tasks, outcomes, accepted>>,
           \A d \in Rows : /\ delivery'[d].state = delivery[d].state
                           /\ delivery'[d].token = delivery[d].token
                           /\ delivery'[d].attempts = delivery[d].attempts
    PROVE  Core'
<1>1. \A t \in tasks : t.row \in Rows
  BY DEF TypeOK, TaskType
<1>2. SnapshotsOK'
  BY <1>1 DEF Core, SnapshotsOK
<1>3. LeasesOK' /\ NoOrphans'
  BY DEF Core, LeasesOK, NoOrphans
<1>4. SucceededWasAccepted' /\ CountsEveryOutcome'
  BY DEF Core, SucceededWasAccepted, CountsEveryOutcome
<1>5. VerdictsOK'
  BY DEF Core, VerdictsOK
<1> QED
  BY <1>2, <1>3, <1>4, <1>5 DEF Core

\* The steps of a worker.
LEMMA WorkerCore ==
    ASSUME TypeOK, Core, NEW w \in Workers, WorkerStep(w) \/ WorkerFault(w)
    PROVE  Core'
<1> USE DEF deliveryVars, channelVars
<1>1. CASE Start(w)
  BY <1>1, RecoverCore DEF Start
<1>2. CASE Drain(w)
  BY <1>2, ClaimCore DEF Drain
<1>3. CASE ClaimMore(w)
  <2>1. CASE Claimable = {}
    BY <1>3, <2>1, Quiet DEF ClaimMore
  <2>2. CASE ClaimAndFill(w)
    BY <1>3, <2>2, ClaimCore DEF ClaimMore
  <2> QED
    BY <1>3, <2>1, <2>2 DEF ClaimMore
<1>4. CASE Join(w)
  <2>1. PICK t \in TasksOf(w, tasks) : tasks' = tasks \ {t} \/ Fill(w, tasks \ {t})
    BY <1>4 DEF Join
  <2>2. tasks \ {t} \in SUBSET TaskType
    BY DEF TypeOK
  <2>3. \A u \in tasks' : \E v \in tasks : u = v \/ u = [v EXCEPT !.point = "ready"]
    BY <2>1, <2>2, FillSources
  <2> QED
    BY <1>4, <2>3, Quiet DEF Join
<1>5. CASE Crash(w)
  BY <1>5, Quiet DEF Crash
<1>6. CASE Drained(w) \/ QueryFails(w) \/ ClaimMoreFails(w) \/ EndBatch(w) \/ BackoffEnds(w)
  BY <1>6, Quiet DEF Drained, QueryFails, ClaimMoreFails, EndBatch, BackoffEnds
<1>7. CASE Schedule(w) \/ Sleep(w) \/ WakeNotified(w) \/ WakeDeadline(w) \/ SafetyScan(w)
  BY <1>7, Quiet DEF Schedule, Sleep, WakeNotified, WakeDeadline, SafetyScan, Wake
<1> QED
  BY <1>1, <1>2, <1>3, <1>4, <1>5, <1>6, <1>7 DEF WorkerStep, WorkerFault

\* The steps of a task up to its completion.
LEMMA TaskCore ==
    ASSUME TypeOK, Core, NEW t \in tasks,
           TaskFails(t) \/ Begin(t) \/ ProfileMissing(t) \/ DispatchSucceeds(t)
             \/ DispatchRefused(t) \/ DispatchTransient(t)
    PROVE  Core'
<1> USE DEF deliveryVars, channelVars
<1>1. t \in TaskType /\ t.row \in Rows /\ accepted \in [Rows -> Nat]
  BY DEF TypeOK, TaskType
<1>2. ASSUME NEW new, Advance(t, new), SameClaim(new, t),
             new.point = "complete" => new.verdict # "none",
             new.verdict = "succeeded" => accepted'[t.row] > 0,
             UNCHANGED <<stored, delivery, outcomes>>,
             \A d \in Rows : accepted'[d] >= accepted[d] /\ accepted'[d] \in Nat
      PROVE  Core'
  <2>1. \A d \in Rows : accepted[d] > 0 => accepted'[d] > 0
    BY <1>1, <1>2
  <2>2. \A u \in tasks' : \E v \in tasks : SameClaim(u, v)
    BY <1>2 DEF Advance, SameClaim
  <2>3. VerdictsOK'
    BY <1>1, <1>2, <2>1 DEF Core, VerdictsOK, Advance, SameClaim, TypeOK, TaskType
  <2> QED
    BY <1>2, <2>1, <2>2, <2>3, RowsKept
<1>3. ASSUME NEW verdict \in {"retry_wait"} \cup Resolved, NEW sampled \in BOOLEAN,
             Decide(t, verdict, sampled),
             verdict = "succeeded" => accepted'[t.row] > 0,
             UNCHANGED <<stored, delivery, outcomes>>,
             \A d \in Rows : accepted'[d] >= accepted[d] /\ accepted'[d] \in Nat
      PROVE  Core'
  <2> DEFINE new == [t EXCEPT !.point = "complete", !.verdict = verdict, !.sampled = sampled]
  <2>1. SameClaim(new, t) /\ new.verdict = verdict /\ verdict # "none"
    BY <1>1 DEF TaskType, SameClaim, Resolved
  <2>2. Advance(t, new)
    BY <1>3 DEF Decide
  <2> HIDE DEF new
  <2> QED
    BY <1>2, <1>3, <2>1, <2>2
<1>4. ASSUME NEW point \in {"dispatch", "error"}, Advance(t, [t EXCEPT !.point = point]),
             UNCHANGED <<stored, delivery, outcomes, accepted>>
      PROVE  Core'
  <2> DEFINE new == [t EXCEPT !.point = point]
  <2>1. SameClaim(new, t) /\ new.verdict = t.verdict /\ new.point # "complete"
    BY <1>1 DEF TaskType, SameClaim
  <2>2. Advance(t, new)
    BY <1>4
  <2>3. new.verdict = "succeeded" => accepted'[t.row] > 0
    BY <1>4, <2>1 DEF Core, VerdictsOK
  <2>4. \A d \in Rows : accepted'[d] >= accepted[d] /\ accepted'[d] \in Nat
    BY <1>1, <1>4
  <2> HIDE DEF new
  <2> QED
    BY <1>2, <1>4, <2>1, <2>2, <2>3, <2>4
<1>5. UNCHANGED accepted => \A d \in Rows : accepted'[d] >= accepted[d] /\ accepted'[d] \in Nat
  BY <1>1
<1>6. accepted' = [accepted EXCEPT ![t.row] = @ + 1] =>
        /\ accepted'[t.row] > 0
        /\ \A d \in Rows : accepted'[d] >= accepted[d] /\ accepted'[d] \in Nat
  BY <1>1
<1>7. CASE TaskFails(t)
  BY <1>4, <1>7 DEF TaskFails
<1>8. CASE Begin(t)
  BY <1>3, <1>4, <1>5, <1>8 DEF Begin, Resolved
<1>9. CASE ProfileMissing(t)
  BY <1>3, <1>5, <1>9 DEF ProfileMissing, Resolved
<1>10. CASE DispatchSucceeds(t)
  BY <1>3, <1>6, <1>10 DEF DispatchSucceeds, Dispatch, Resolved
<1>11. CASE DispatchRefused(t)
  BY <1>3, <1>5, <1>11 DEF DispatchRefused, Dispatch, Resolved
<1>12. CASE DispatchTransient(t)
  <2>1. TransientVerdict(t) \in {"retry_wait"} \cup Resolved /\ TransientVerdict(t) # "succeeded"
    BY DEF TransientVerdict, Resolved
  <2>2. \A d \in Rows : accepted'[d] >= accepted[d] /\ accepted'[d] \in Nat
    BY <1>5, <1>6, <1>12 DEF DispatchTransient
  <2>3. Decide(t, TransientVerdict(t), TRUE) /\ UNCHANGED <<stored, delivery, outcomes>>
    BY <1>12 DEF DispatchTransient, Dispatch
  <2> QED
    BY <1>3, <2>1, <2>2, <2>3
<1> QED
  BY <1>7, <1>8, <1>9, <1>10, <1>11, <1>12

\* The completion of a task: the caller's lease tells whether it still counts.
LEMMA CompleteCore ==
    ASSUME TypeOK, Core, NEW t \in tasks, Complete(t)
    PROVE  Core'
<1>1. /\ t \in TaskType /\ t.row \in Rows /\ t.token \in Tokens /\ t.attempts \in Nat
      /\ t.verdict \in {"retry_wait"} \cup Resolved
      /\ t.verdict = "succeeded" => accepted[t.row] > 0
  BY DEF TypeOK, TaskType, Complete, Core, VerdictsOK
<1>2. /\ \A d \in Rows : delivery[d] \in RowType
      /\ \A u \in tasks : u.row \in Rows /\ u.token # NoToken
      /\ delivery \in [Rows -> RowType] /\ outcomes \in [Rows -> Nat]
  BY DEF TypeOK, DeliveryStoreTypeOK, TaskType
<1>3. /\ UNCHANGED <<stored, accepted>>
      /\ tasks' = (tasks \ {t}) \cup {[t EXCEPT !.point = "ok"]}
      /\ delivery' = IF HoldsLease(t.row, t.token)
                     THEN [delivery EXCEPT ![t.row] = Outcome(@, t.verdict, t.attempts + 1)]
                     ELSE delivery
      /\ outcomes' = IF HoldsLease(t.row, t.token) THEN [outcomes EXCEPT ![t.row] = @ + 1]
                                                    ELSE outcomes
  BY DEF Complete, CompleteRow, Advance, channelVars
<1>4. LET u == [t EXCEPT !.point = "ok"] IN
        SameClaim(u, t) /\ u.verdict = t.verdict /\ u.point = "ok"
  BY <1>1 DEF TaskType, SameClaim
<1>5. \A u \in tasks' : \E v \in tasks : Continues(u, v)
  BY <1>3, <1>4 DEF SameClaim, Continues
<1>6. VerdictsOK'
  BY <1>3, <1>5 DEF Core, VerdictsOK, SameClaim, Continues
<1>7. CASE ~HoldsLease(t.row, t.token)
  <2>1. UNCHANGED <<stored, delivery, outcomes>>
    BY <1>3, <1>7
  <2>2. \A u \in tasks' : \E v \in tasks : SameClaim(u, v)
    BY <1>5 DEF Continues
  <2>3. \A d \in Rows : accepted[d] > 0 => accepted'[d] > 0
    BY <1>3
  <2> QED
    BY <1>6, <2>1, <2>2, <2>3, RowsKept
<1>8. CASE HoldsLease(t.row, t.token)
  <2>1. delivery[t.row].state = "in_flight" /\ delivery[t.row].token = t.token
    BY <1>8 DEF HoldsLease
  <2>2. t.attempts = outcomes[t.row] /\ stored[t.row[1]] = "yes"
    BY <1>1, <2>1 DEF Core, SnapshotsOK, CountsEveryOutcome, NoOrphans
  <2>3. /\ delivery'[t.row].state = t.verdict
        /\ delivery'[t.row].token = NoToken
        /\ delivery'[t.row].attempts = t.attempts + 1
        /\ outcomes'[t.row] = outcomes[t.row] + 1
    BY <1>1, <1>2, <1>3, <1>8 DEF Outcome, RowType
  <2>4. \A d \in Rows : d # t.row => delivery'[d] = delivery[d] /\ outcomes'[d] = outcomes[d]
    BY <1>2, <1>3, <1>8
  <2>5. LeasesOK'
    BY <1>1, <2>3, <2>4 DEF Core, LeasesOK, Resolved
  <2>6. NoOrphans'
    BY <1>3, <2>2, <2>3, <2>4 DEF Core, NoOrphans
  <2>7. SnapshotsOK'
    <3>1. ASSUME NEW u \in tasks', delivery'[u.row].token = u.token
          PROVE  u.attempts = delivery'[u.row].attempts
      <4>1. PICK v \in tasks : SameClaim(u, v)
        BY <1>5 DEF Continues
      <4>2. v.row # t.row
        BY <1>2, <2>3, <3>1, <4>1 DEF SameClaim
      <4>3. delivery'[v.row] = delivery[v.row]
        BY <1>2, <2>4, <4>2
      <4> QED
        BY <3>1, <4>1, <4>3 DEF Core, SnapshotsOK, SameClaim
    <3> QED
      BY <3>1 DEF SnapshotsOK
  <2>8. SucceededWasAccepted'
    BY <1>1, <1>3, <2>3, <2>4 DEF Core, SucceededWasAccepted
  <2>9. CountsEveryOutcome'
    BY <2>2, <2>3, <2>4 DEF Core, CountsEveryOutcome
  <2> QED
    BY <1>6, <2>5, <2>6, <2>7, <2>8, <2>9 DEF Core
<1> QED
  BY <1>7, <1>8

\* A message comes with its deliveries.
LEMMA ReceiveCore ==
    ASSUME TypeOK, Core, NEW w \in Workers, NEW m \in Messages, Receive(w, m)
    PROVE  Core'
<1>1. /\ stored[m] = "no" /\ stored' = [stored EXCEPT ![m] = "yes"]
      /\ UNCHANGED <<tasks, outcomes, accepted>>
  BY DEF Receive, InsertMessage, channelVars
<1>2. stored \in [Messages -> {"no", "yes", "deleted"}]
  BY DEF TypeOK, DeliveryStoreTypeOK
<1>3. \A d \in Rows :
        \/ delivery'[d] = delivery[d]
        \/ /\ d[1] = m
           /\ delivery'[d].state = "pending"
           /\ delivery'[d].token = NoToken
           /\ delivery'[d].attempts = 0
  BY DEF Receive, InsertMessage, NoRow
<1>4. \A t \in tasks : t.row \in Rows /\ t.token # NoToken
  BY DEF TypeOK, TaskType
<1>5. \A d \in Rows : d[1] \in Messages
  BY DEF Rows
<1>6. LeasesOK' /\ SucceededWasAccepted'
  BY <1>1, <1>3 DEF Core, LeasesOK, SucceededWasAccepted
<1>7. NoOrphans'
  BY <1>1, <1>2, <1>3, <1>5 DEF Core, NoOrphans
<1>8. SnapshotsOK'
  BY <1>1, <1>3, <1>4 DEF Core, SnapshotsOK
<1>9. CountsEveryOutcome'
  BY <1>1, <1>3 DEF Core, CountsEveryOutcome, NoOrphans
<1>10. VerdictsOK'
  BY <1>1 DEF Core, VerdictsOK
<1> QED
  BY <1>6, <1>7, <1>8, <1>9, <1>10 DEF Core

\* A message goes with its deliveries; their tasks hold no lease any more.
LEMMA EraseCore ==
    ASSUME TypeOK, Core, NEW m \in Messages, EraseMessage(m),
           UNCHANGED <<tasks, outcomes, accepted>>
    PROVE  Core'
<1>1. stored[m] = "yes" /\ stored' = [stored EXCEPT ![m] = "deleted"]
  BY DEF EraseMessage
<1>2. stored \in [Messages -> {"no", "yes", "deleted"}]
  BY DEF TypeOK, DeliveryStoreTypeOK
<1>3. \A d \in Rows :
        /\ d[1] = m => delivery'[d].state = "absent" /\ delivery'[d].token = NoToken
        /\ d[1] # m => delivery'[d] = delivery[d]
  BY DEF EraseMessage, NoRow
<1>4. \A t \in tasks : t.row \in Rows /\ t.token # NoToken
  BY DEF TypeOK, TaskType
<1>5. \A d \in Rows : d[1] \in Messages
  BY DEF Rows
<1>6. LeasesOK' /\ SucceededWasAccepted' /\ CountsEveryOutcome'
  BY <1>3 DEF Core, LeasesOK, SucceededWasAccepted, CountsEveryOutcome
<1>7. NoOrphans'
  BY <1>1, <1>2, <1>3, <1>5 DEF Core, NoOrphans
<1>8. SnapshotsOK'
  BY <1>3, <1>4 DEF Core, SnapshotsOK
<1>9. VerdictsOK'
  BY DEF Core, VerdictsOK
<1> QED
  BY <1>6, <1>7, <1>8, <1>9 DEF Core

\* The steps of the clock.
LEMMA ClockCore ==
    ASSUME TypeOK, Core, ClockStep
    PROVE  Core'
<1> USE DEF deliveryVars, channelVars
<1>1. \A d \in Rows : delivery[d] \in RowType
  BY DEF TypeOK, DeliveryStoreTypeOK
<1>2. ASSUME NEW d \in Rows, LeaseLapses(d) \/ RetryDue(d)
      PROVE  Core'
  <2>1. \A e \in Rows : /\ delivery'[e].state = delivery[e].state
                        /\ delivery'[e].token = delivery[e].token
                        /\ delivery'[e].attempts = delivery[e].attempts
    <3>1. delivery \in [Rows -> RowType]
      BY DEF TypeOK, DeliveryStoreTypeOK
    <3>2. \E r : /\ delivery' = [delivery EXCEPT ![d] = r]
                 /\ r = [delivery[d] EXCEPT !.live = FALSE] \/ r = [delivery[d] EXCEPT !.due = TRUE]
      BY <1>2 DEF LeaseLapses, LeaseRunsOut, RetryDue, RetryComesDue
    <3>3. PICK r : /\ delivery' = [delivery EXCEPT ![d] = r]
                   /\ r.state = delivery[d].state
                   /\ r.token = delivery[d].token
                   /\ r.attempts = delivery[d].attempts
      BY <1>1, <3>2 DEF RowType
    <3> QED
      BY <3>1, <3>3
  <2>2. UNCHANGED <<stored, tasks, outcomes, accepted>>
    BY <1>2 DEF LeaseLapses, LeaseRunsOut, RetryDue, RetryComesDue
  <2> QED
    BY <2>1, <2>2, FieldsKept
<1>3. ASSUME NEW m \in Messages, GrowsOld(m)
      PROVE  Core'
  BY <1>3, FieldsKept DEF GrowsOld
<1> QED
  BY <1>2, <1>3 DEF ClockStep

\* Every step keeps the rest of the invariant.
LEMMA StepCore ==
    ASSUME TypeOK, Core, [Next]_vars
    PROVE  Core'
<1> USE DEF deliveryVars, channelVars
<1>1. CASE UNCHANGED vars
  BY <1>1, FieldsKept DEF vars
<1>2. ASSUME NEW w \in Workers, WorkerStep(w) \/ WorkerFault(w)
      PROVE  Core'
  BY <1>2, WorkerCore
<1>3. ASSUME NEW t \in tasks, TaskStep(t) \/ TaskFails(t)
      PROVE  Core'
  BY <1>3, TaskCore, CompleteCore DEF TaskStep
<1>4. ASSUME NEW w \in Workers, NEW m \in Messages, IntakeStep(w, m)
      PROVE  Core'
  <2>1. CASE Receive(w, m)
    BY <2>1, ReceiveCore
  <2>2. CASE Notify(w, m)
    BY <2>2, FieldsKept DEF Notify
  <2> QED
    BY <1>4, <2>1, <2>2 DEF IntakeStep
<1>5. ASSUME NEW m \in Messages, OperatorDeletes(m) \/ RetentionDeletes(m)
      PROVE  Core'
  BY <1>5, EraseCore DEF OperatorDeletes, RetentionDeletes
<1> QED
  BY <1>1, <1>2, <1>3, <1>4, <1>5, ClockCore DEF Next, DeletionStep

(***************************************************************************)
(* Resolved deliveries                                                     *)
(***************************************************************************)
\* A claim and a recovery take rows that are in flight or waiting.
LEMMA WorkerStaysResolved ==
    ASSUME TypeOK, NEW w \in Workers, WorkerStep(w) \/ WorkerFault(w)
    PROVE  StaysResolved
<1> USE DEF deliveryVars
<1>1. \A d \in Rows : delivery[d].state \in Resolved => d \notin Claimable /\ d \notin Expired
  BY DEF Claimable, Expired, Resolved, Waiting
<1>2. ASSUME ClaimAndFill(w)
      PROVE  StaysResolved
  BY <1>1, <1>2 DEF ClaimAndFill, ClaimBatch, StaysResolved
<1>3. CASE Start(w)
  BY <1>1, <1>3 DEF Start, RecoverExpired, StaysResolved
<1>4. CASE Drain(w)
  BY <1>2, <1>4 DEF Drain
<1>5. CASE ClaimMore(w)
  BY <1>2, <1>5 DEF ClaimMore, StaysResolved
<1>6. CASE Join(w) \/ Crash(w) \/ Drained(w) \/ QueryFails(w) \/ ClaimMoreFails(w)
           \/ EndBatch(w) \/ BackoffEnds(w)
  BY <1>6 DEF Join, Crash, Drained, QueryFails, ClaimMoreFails, EndBatch, BackoffEnds,
              StaysResolved
<1>7. CASE Schedule(w) \/ Sleep(w) \/ WakeNotified(w) \/ WakeDeadline(w) \/ SafetyScan(w)
  BY <1>7 DEF Schedule, Sleep, WakeNotified, WakeDeadline, SafetyScan, Wake, StaysResolved
<1> QED
  BY <1>3, <1>4, <1>5, <1>6, <1>7 DEF WorkerStep, WorkerFault

\* A completion needs the lease, and a resolved row has none.
LEMMA TaskStaysResolved ==
    ASSUME TypeOK, NEW t \in tasks, TaskStep(t) \/ TaskFails(t)
    PROVE  StaysResolved
<1> USE DEF deliveryVars
<1>1. CASE Complete(t)
  <2>1. delivery \in [Rows -> RowType] /\ t.row \in Rows
    BY DEF TypeOK, DeliveryStoreTypeOK, TaskType
  <2>2. \A d \in Rows : delivery[d].state \in Resolved => delivery'[d] = delivery[d]
    BY <1>1, <2>1 DEF Complete, CompleteRow, HoldsLease, Resolved
  <2> QED
    BY <2>2 DEF StaysResolved
<1>2. CASE TaskFails(t) \/ Begin(t) \/ ProfileMissing(t)
  BY <1>2 DEF TaskFails, Begin, ProfileMissing, StaysResolved
<1>3. CASE DispatchSucceeds(t) \/ DispatchRefused(t) \/ DispatchTransient(t)
  BY <1>3 DEF DispatchSucceeds, DispatchRefused, DispatchTransient, Dispatch, StaysResolved
<1> QED
  BY <1>1, <1>2, <1>3 DEF TaskStep

\* The intake writes rows of messages that had none; deletions remove rows.
LEMMA OutsideStaysResolved ==
    ASSUME TypeOK, Core,
           (\E w \in Workers, m \in Messages : IntakeStep(w, m)) \/ ClockStep \/ DeletionStep
    PROVE  StaysResolved
<1> USE DEF deliveryVars
<1>1. delivery \in [Rows -> RowType] /\ \A d \in Rows : delivery[d] \in RowType
  BY DEF TypeOK, DeliveryStoreTypeOK
<1>2. ASSUME NEW w \in Workers, NEW m \in Messages, Receive(w, m)
      PROVE  StaysResolved
  <2>1. stored[m] = "no"
    BY <1>2 DEF Receive, InsertMessage
  <2>2. \A d \in Rows : delivery[d].state \in Resolved => d[1] # m
    BY <2>1 DEF Core, NoOrphans, Resolved
  <2>3. \A d \in Rows : d[1] # m => delivery'[d] = delivery[d]
    BY <1>2 DEF Receive, InsertMessage
  <2> QED
    BY <2>2, <2>3 DEF StaysResolved
<1>3. ASSUME NEW w \in Workers, NEW m \in Messages, Notify(w, m)
      PROVE  StaysResolved
  BY <1>3 DEF Notify, StaysResolved
<1>4. ASSUME NEW d \in Rows, LeaseLapses(d)
      PROVE  StaysResolved
  <2>1. \A e \in Rows : delivery[e].state \in Resolved => delivery'[e] = delivery[e]
    BY <1>1, <1>4 DEF LeaseLapses, LeaseRunsOut, Resolved
  <2> QED
    BY <2>1 DEF StaysResolved
<1>5. ASSUME NEW d \in Rows, RetryDue(d)
      PROVE  StaysResolved
  <2>1. /\ \A e \in Rows : e # d => delivery'[e] = delivery[e]
        /\ delivery'[d] = [delivery[d] EXCEPT !.due = TRUE]
    BY <1>1, <1>5 DEF RetryDue, RetryComesDue
  <2>2. delivery'[d].state = delivery[d].state
    BY <1>1, <2>1 DEF RowType
  <2> QED
    BY <2>1, <2>2 DEF StaysResolved
<1>6. ASSUME NEW m \in Messages, GrowsOld(m)
      PROVE  StaysResolved
  BY <1>6 DEF GrowsOld, StaysResolved
<1>7. ASSUME NEW m \in Messages, OperatorDeletes(m) \/ RetentionDeletes(m)
      PROVE  StaysResolved
  BY <1>7 DEF OperatorDeletes, RetentionDeletes, EraseMessage, NoRow, StaysResolved
<1> QED
  BY <1>2, <1>3, <1>4, <1>5, <1>6, <1>7 DEF IntakeStep, ClockStep, DeletionStep

(***************************************************************************)
(* Theorems                                                                *)
(***************************************************************************)
\* IInv is inductive: it holds in every reachable state.
THEOREM InvariantHolds == Spec => []IInv
<1>1. IInv <=> TypeOK /\ Core
  BY DEF IInv, TypeInv, Core
<1>2. Init => IInv
  BY <1>1, InitTyped, InitCore
<1>3. IInv /\ [Next]_vars => IInv'
  <2>1. ASSUME TypeOK, Core, [Next]_vars
        PROVE  TypeOK' /\ Core'
    BY <2>1, StepTyped, StepCore DEF Core
  <2> QED
    BY <2>1 DEF IInv, TypeInv, Core
<1> QED
  BY <1>2, <1>3, PTL DEF Spec

\* Every variable keeps its type, and a row has a lease token exactly while it
\* is in flight (claim_due_deliveries, complete_delivery).
THEOREM TypeCorrect == Spec => []TypeInv
<1>1. IInv => TypeInv
  BY DEF IInv
<1> QED
  BY <1>1, InvariantHolds, PTL

\* A delivery stored as succeeded was taken by its channel, whoever completed
\* it and however often its lease was lost (process_delivery_inner).
THEOREM SuccessIsTruthful == Spec => []SucceededWasAccepted
<1>1. IInv => SucceededWasAccepted
  BY DEF IInv
<1> QED
  BY <1>1, InvariantHolds, PTL

\* attempt_count is the number of outcomes stored, though every owner writes
\* the count it claimed plus one (complete_delivery).
THEOREM OutcomesCounted == Spec => []CountsEveryOutcome
<1>1. IInv => CountsEveryOutcome
  BY DEF IInv
<1> QED
  BY <1>1, InvariantHolds, PTL

\* No step changes what is resolved, but for deleting it.
LEMMA StepStaysResolved == IInv /\ [Next]_vars => [StaysResolved]_vars
<1>1. ASSUME TypeOK, Core, Next
      PROVE  StaysResolved
  BY <1>1, WorkerStaysResolved, TaskStaysResolved, OutsideStaysResolved DEF Next
<1> QED
  BY <1>1 DEF IInv, TypeInv, Core

\* A delivery that succeeded or was given up keeps that state until its message
\* is deleted, whatever late owners, lapsed leases and restarts do
\* (claim_due_deliveries, complete_delivery, recover_expired_leases).
THEOREM ResolvedForGood == Spec => ResolvedIsFinal
<1>1. IInv /\ [Next]_vars => [StaysResolved]_delivery
  BY StepStaysResolved DEF vars, deliveryVars
<1> QED
  BY <1>1, InvariantHolds, PTL DEF Spec, ResolvedIsFinal

\* The row of a delivery tells the truth, whichever of several owners writes
\* it (complete_delivery).
THEOREM OutcomesAlwaysHold == Spec => OutcomesHold
<1>1. IInv /\ [Next]_vars => [StaysResolved]_vars
  BY StepStaysResolved
<1> QED
  BY <1>1, InvariantHolds, SuccessIsTruthful, OutcomesCounted, PTL
  DEF Spec, OutcomesHold

(***************************************************************************)
(* Tasks and the tokens they work under                                    *)
(***************************************************************************)
\* A task after it was spawned.
Spawned(t) == [t EXCEPT !.point = "ready"]

\* u is t, or t after it was spawned.
Grown(u, t) == u = t \/ (t.point = "queued" /\ u = Spawned(t))

\* No two tasks of S have the same row and token.
Distinct(S) == \A t, u \in S : t.row = u.row /\ t.token = u.token => t = u

\* The tasks are those of `all', some of them spawned by now.
From(all) ==
    /\ \A u \in tasks' : \E t \in all : Grown(u, t)
    /\ \A t \in all : \E u \in tasks' : Grown(u, t)
    /\ IsFiniteSet(all) => IsFiniteSet(tasks')
    /\ Distinct(all) => Distinct(tasks')

\* The tokens under which tasks of S work on d, and the samples they owe.
TokensOn(d, S)  == {t.token : t \in {u \in S : u.row = d /\ u.point \in Unfinished}}
SamplesFor(d, S) == {t \in S : t.row = d /\ t.point = "complete" /\ t.sampled}

\* Spawning a task changes nothing else of it.
LEMMA SpawnedFacts ==
    ASSUME NEW t \in TaskType
    PROVE  /\ SameClaim(Spawned(t), t)
           /\ Spawned(t).worker = t.worker
           /\ Spawned(t).verdict = t.verdict
           /\ Spawned(t).sampled = t.sampled
           /\ Spawned(t).point = "ready"
           /\ Spawned(t) \in TaskType
BY DEF TaskType, Spawned, SameClaim, TaskPoints

\* What a task and its later self share.
LEMMA GrownFacts ==
    ASSUME NEW t \in TaskType, NEW u, Grown(u, t)
    PROVE  /\ SameClaim(u, t) /\ u.worker = t.worker
           /\ u.verdict = t.verdict /\ u.sampled = t.sampled
           /\ u.point \in Unfinished <=> t.point \in Unfinished
           /\ u.point = "complete" <=> t.point = "complete"
           /\ u.point = t.point \/ (t.point = "queued" /\ u.point = "ready")
           /\ u.point = "complete" => u = t
<1>1. CASE u = t
  BY <1>1 DEF SameClaim
<1>2. CASE t.point = "queued" /\ u = Spawned(t)
  BY <1>2, SpawnedFacts DEF Unfinished
<1> QED
  BY <1>1, <1>2 DEF Grown

\* Tasks that are not touched.
LEMMA FromSame ==
    ASSUME NEW all, tasks' = all
    PROVE  From(all)
BY DEF From, Grown

\* fill_delivery_slots
LEMMA FillFrom ==
    ASSUME NEW w, NEW all \in SUBSET TaskType, Fill(w, all)
    PROVE  From(all)
<1>1. PICK go \in SUBSET QueuedOf(w, all) : tasks' = (all \ go) \cup {Spawned(t) : t \in go}
  BY DEF Fill, Spawned
<1>2. go \subseteq all /\ \A t \in go : t.point = "queued"
  BY DEF QueuedOf, TasksOf
<1>3. \A u \in tasks' : \E t \in all : Grown(u, t)
  BY <1>1, <1>2 DEF Grown
<1>4. \A t \in all : \E u \in tasks' : Grown(u, t)
  <2> TAKE t \in all
  <2>1. CASE t \in go
    <3>1. Spawned(t) \in tasks'
      BY <1>1, <2>1
    <3> QED
      BY <1>2, <2>1, <3>1 DEF Grown
  <2>2. CASE t \notin go
    BY <1>1, <2>2 DEF Grown
  <2> QED
    BY <2>1, <2>2
<1>5. IsFiniteSet(all) => IsFiniteSet(tasks')
  <2> SUFFICES ASSUME IsFiniteSet(all)
               PROVE  IsFiniteSet(tasks')
    OBVIOUS
  <2>1. IsFiniteSet(go) /\ IsFiniteSet(all \ go)
    BY <1>2, FS_Subset
  <2> DEFINE S == {Spawned(t) : t \in go}
             f == [t \in go |-> Spawned(t)]
  <2>2. f \in Surjection(go, S)
    BY DEF Surjection
  <2>3. IsFiniteSet(S)
    <3> HIDE DEF f, S
    <3> QED
      BY <2>1, <2>2, FS_Surjection
  <2> QED
    BY <1>1, <2>1, <2>3, FS_Union
<1>6. Distinct(all) => Distinct(tasks')
  <2> SUFFICES ASSUME Distinct(all), NEW u \in tasks', NEW v \in tasks',
                      u.row = v.row, u.token = v.token
               PROVE  u = v
    BY DEF Distinct
  <2>1. PICK t \in all : (u = t /\ t \notin go) \/ (t \in go /\ u = Spawned(t))
    BY <1>1, <1>2
  <2>2. PICK x \in all : (v = x /\ x \notin go) \/ (x \in go /\ v = Spawned(x))
    BY <1>1, <1>2
  <2>3. t.row = u.row /\ t.token = u.token /\ x.row = v.row /\ x.token = v.token
    BY <2>1, <2>2, SpawnedFacts DEF SameClaim
  <2>4. t = x
    BY <2>3 DEF Distinct
  <2> QED
    BY <2>1, <2>2, <2>4
<1> QED
  BY <1>3, <1>4, <1>5, <1>6 DEF From

\* Spawning changes neither the tokens under work nor the samples owed.
LEMMA FromViews ==
    ASSUME NEW all \in SUBSET TaskType, From(all), NEW d
    PROVE  WorkOn(d)' = TokensOn(d, all) /\ Sampling(d)' = SamplesFor(d, all)
<1>1. \A u \in tasks' : \E t \in all :
         /\ u.row = t.row /\ u.token = t.token /\ u.sampled = t.sampled
         /\ u.point \in Unfinished <=> t.point \in Unfinished
         /\ u.point = "complete" => u = t
  BY GrownFacts DEF From, SameClaim
<1>2. \A t \in all : \E u \in tasks' :
         /\ u.row = t.row /\ u.token = t.token /\ u.sampled = t.sampled
         /\ u.point \in Unfinished <=> t.point \in Unfinished
         /\ t.point = "complete" => u = t
  BY GrownFacts DEF From, SameClaim
<1>3. WorkOn(d)' = {t.token : t \in {u \in tasks' : u.row = d /\ u.point \in Unfinished}}
  BY DEF WorkOn, Unfinished
<1>4. WorkOn(d)' = TokensOn(d, all)
  BY <1>1, <1>2, <1>3 DEF TokensOn
<1>5. Sampling(d)' = SamplesFor(d, all)
  BY <1>1, <1>2 DEF Sampling, SamplesFor
<1> QED
  BY <1>4, <1>5

(***************************************************************************)
(* The steps of the queue, by what they do to tasks and rows               *)
(***************************************************************************)
Claims(w, batch, token) == {ClaimOf(w, d, token) : d \in batch}

\* w leases a batch of rows under a fresh token.
ClaimShape(w, batch, token) ==
    /\ batch \subseteq Claimable /\ IsFiniteSet(batch) /\ token \in FreshTokens
    /\ delivery' = [d \in Rows |-> IF d \in batch THEN Leased(delivery[d], token)
                                   ELSE IF d \in Expired THEN Requeued(delivery[d])
                                   ELSE delivery[d]]
    /\ From(tasks \cup Claims(w, batch, token))
    /\ pc'[w] = "batch" /\ UNCHANGED faults

StartShape(w) == RecoverExpired /\ UNCHANGED <<tasks, faults>> /\ pc[w] = "off"

JoinShape(w, t) ==
    /\ t \in tasks /\ t.point \notin Unfinished
    /\ From(tasks \ {t})
    /\ pc[w] = "batch" /\ pc'[w] \in {"batch", "more"}
    /\ UNCHANGED <<delivery, faults>>

CrashShape(w) ==
    /\ tasks' = tasks \ TasksOf(w, tasks)
    /\ faults' = faults + 1
    /\ UNCHANGED delivery

IdleShape(w) ==
    /\ UNCHANGED <<delivery, tasks>>
    /\ pc[w] \in {"batch", "more"} => pc'[w] \in {"batch", "more"} \/ TasksOf(w, tasks) = {}
    /\ faults' \in {faults, faults + 1}

WorkerShape(w) ==
    /\ UNCHANGED <<stored, samples, aged, channelVars, outcomes>>
    /\ pc[w] # "dead"
    /\ \A v \in Workers : v # w => pc'[v] = pc[v]
    /\ \/ \E batch, token : ClaimShape(w, batch, token)
       \/ StartShape(w)
       \/ \E t : JoinShape(w, t)
       \/ CrashShape(w)
       \/ IdleShape(w)

\* A claim, seen from outside.
LEMMA ClaimsShaped ==
    ASSUME TypeOK, NEW w \in Workers, ClaimAndFill(w), pc'[w] = "batch", UNCHANGED faults
    PROVE  /\ UNCHANGED <<stored, samples>>
           /\ \E batch, token : ClaimShape(w, batch, token)
<1>1. PICK batch \in SUBSET Claimable, token \in FreshTokens :
        /\ ClaimBatch(batch, token)
        /\ Fill(w, tasks \cup Claims(w, batch, token))
  BY DEF ClaimAndFill, Claims
<1>2. batch \subseteq Rows /\ token \in Tokens
  BY DEF Claimable, Expired, FreshTokens
<1>3. tasks \cup Claims(w, batch, token) \in SUBSET TaskType
  BY <1>2, ClaimTyped DEF TypeOK, Claims
<1>4. From(tasks \cup Claims(w, batch, token))
  BY <1>1, <1>3, FillFrom
<1>5. ClaimShape(w, batch, token)
  BY <1>1, <1>4 DEF ClaimShape, ClaimBatch
<1> QED
  BY <1>1, <1>5 DEF ClaimBatch

\* Every step of a worker is one of these.
LEMMA WorkerShapes ==
    ASSUME TypeOK, NEW w \in Workers, WorkerStep(w) \/ WorkerFault(w)
    PROVE  WorkerShape(w)
<1> USE DEF Goto, NoFault, Fault, deliveryVars, channelVars
<1>0. pc \in [Workers -> Points]
  BY DEF TypeOK
<1>1. CASE Start(w)
  <2>1. StartShape(w) /\ UNCHANGED <<stored, samples, aged, channelVars, outcomes>>
    BY <1>1 DEF Start, StartShape, RecoverExpired
  <2> QED
    BY <1>0, <1>1, <2>1 DEF WorkerShape, Start
<1>2. CASE Drain(w)
  <2>1. pc'[w] = "batch"
    BY <1>0, <1>2 DEF Drain
  <2>2. UNCHANGED <<stored, samples>> /\ \E batch, token : ClaimShape(w, batch, token)
    BY <1>2, <2>1, ClaimsShaped DEF Drain
  <2> QED
    BY <1>0, <1>2, <2>2 DEF WorkerShape, Drain
<1>3. CASE ClaimMore(w)
  <2>1. pc[w] = "more" /\ pc'[w] = "batch" /\ \A v \in Workers : v # w => pc'[v] = pc[v]
    BY <1>0, <1>3 DEF ClaimMore
  <2>2. CASE Claimable = {}
    <3>1. IdleShape(w) /\ UNCHANGED <<stored, samples, aged, channelVars, outcomes>>
      BY <1>3, <2>1, <2>2 DEF ClaimMore, IdleShape
    <3> QED
      BY <2>1, <3>1 DEF WorkerShape
  <2>3. CASE ClaimAndFill(w)
    <3>1. UNCHANGED <<stored, samples>> /\ \E batch, token : ClaimShape(w, batch, token)
      BY <1>3, <2>1, <2>3, ClaimsShaped DEF ClaimMore
    <3> QED
      BY <1>3, <2>1, <3>1 DEF WorkerShape, ClaimMore
  <2> QED
    BY <1>3, <2>2, <2>3 DEF ClaimMore
<1>4. CASE Join(w)
  <2>1. PICK t \in TasksOf(w, tasks) :
          /\ t.point \in {"ok", "error"}
          /\ \/ Goto(w, "more") /\ tasks' = tasks \ {t}
             \/ UNCHANGED pc /\ Fill(w, tasks \ {t})
    BY <1>4 DEF Join
  <2>2. tasks \ {t} \in SUBSET TaskType /\ t \in tasks
    BY DEF TypeOK, TasksOf
  <2>3. From(tasks \ {t})
    BY <2>1, <2>2, FromSame, FillFrom
  <2>4. JoinShape(w, t)
    BY <1>0, <1>4, <2>1, <2>2, <2>3 DEF Join, JoinShape, Unfinished
  <2> QED
    BY <1>0, <1>4, <2>1, <2>4 DEF WorkerShape, Join
<1>5. CASE Crash(w)
  <2>1. CrashShape(w)
    BY <1>5 DEF Crash, CrashShape
  <2> QED
    BY <1>0, <1>5, <2>1 DEF WorkerShape, Crash, Alive
<1>6. CASE Drained(w) \/ QueryFails(w) \/ BackoffEnds(w) \/ Schedule(w) \/ Sleep(w)
             \/ WakeNotified(w) \/ WakeDeadline(w) \/ SafetyScan(w)
  <2>1. pc[w] \notin {"batch", "more"}
    BY <1>6 DEF Drained, QueryFails, BackoffEnds, Schedule, Sleep, WakeNotified, WakeDeadline,
                SafetyScan, Wake
  <2>2. /\ UNCHANGED <<deliveryVars, tasks, aged, channelVars, outcomes>>
        /\ faults' \in {faults, faults + 1}
        /\ \E point : pc' = [pc EXCEPT ![w] = point]
        /\ pc[w] # "dead"
    BY <1>6 DEF Drained, QueryFails, BackoffEnds, Schedule, Sleep, WakeNotified, WakeDeadline,
                SafetyScan, Wake
  <2> QED
    BY <1>0, <2>1, <2>2 DEF WorkerShape, IdleShape
<1>7. CASE ClaimMoreFails(w) \/ EndBatch(w)
  <2>1. /\ UNCHANGED <<deliveryVars, tasks, aged, channelVars, outcomes>>
        /\ faults' \in {faults, faults + 1}
        /\ \E point : pc' = [pc EXCEPT ![w] = point] /\ (point = "batch" \/ TasksOf(w, tasks) = {})
        /\ pc[w] # "dead"
    BY <1>7 DEF ClaimMoreFails, EndBatch
  <2> QED
    BY <1>0, <2>1 DEF WorkerShape, IdleShape
<1> QED
  BY <1>1, <1>2, <1>3, <1>4, <1>5, <1>6, <1>7 DEF WorkerStep, WorkerFault

\* What all steps of a task share: its claim stays.
Moves(t, new) ==
    /\ tasks' = (tasks \ {t}) \cup {new}
    /\ new \in TaskType /\ SameClaim(new, t) /\ new.worker = t.worker
    /\ UNCHANGED <<stored, pc, alarm, permit, notices, aged>>

BeginShape(t, new) ==
    /\ t.point = "ready" /\ new.point = "dispatch"
    /\ new.verdict = t.verdict
    /\ UNCHANGED <<delivery, samples, outcomes, accepted, refused, answers, faults>>

GiveUpShape(t, new) ==
    /\ t.point \in {"ready", "dispatch"} /\ new.point = "complete"
    /\ new.verdict = "permanent_failed" /\ ~new.sampled
    /\ HasCause(t.row) \/ stored[t.row[1]] # "yes"
    /\ UNCHANGED <<delivery, samples, outcomes, accepted, refused, answers, faults>>

AnswerShape(t, new) ==
    /\ t.point = "dispatch" /\ new.point = "complete" /\ new.sampled
    /\ answers' = [answers EXCEPT ![t.row] = @ + 1]
    /\ \/ /\ new.verdict = "succeeded"
          /\ accepted' = [accepted EXCEPT ![t.row] = @ + 1]
          /\ UNCHANGED <<refused, faults>>
       \/ /\ new.verdict = "permanent_failed"
          /\ refused' = refused \cup {t.row}
          /\ UNCHANGED <<accepted, faults>>
       \/ /\ new.verdict = "permanent_failed" => t.row[1] \in aged
          /\ UNCHANGED refused
          /\ \/ UNCHANGED <<accepted, faults>>
             \/ faults' = faults + 1 /\ accepted' = [accepted EXCEPT ![t.row] = @ + 1]
    /\ UNCHANGED <<delivery, samples, outcomes>>

CompleteShape(t, new) ==
    /\ t.point = "complete" /\ new.point = "ok"
    /\ new.verdict = t.verdict
    /\ delivery' = IF HoldsLease(t.row, t.token)
                   THEN [delivery EXCEPT ![t.row] = Outcome(@, t.verdict, t.attempts + 1)]
                   ELSE delivery
    /\ samples' = IF t.sampled THEN [samples EXCEPT ![t.row] = @ + 1] ELSE samples
    /\ UNCHANGED <<accepted, refused, answers, faults>>

FailShape(t, new) ==
    /\ t.point \in Unfinished /\ new.point = "error"
    /\ new.verdict = t.verdict
    /\ faults' = faults + 1
    /\ UNCHANGED <<delivery, samples, outcomes, accepted, refused, answers>>

TaskShape(t) ==
    \E new :
        /\ Moves(t, new)
        /\ \/ BeginShape(t, new) \/ GiveUpShape(t, new) \/ AnswerShape(t, new)
           \/ CompleteShape(t, new) \/ FailShape(t, new)

\* A decision keeps the claim.
LEMMA DecideFacts ==
    ASSUME NEW t \in TaskType, NEW verdict \in {"retry_wait"} \cup Resolved,
           NEW sampled \in BOOLEAN, Decide(t, verdict, sampled)
    PROVE  \E new : /\ tasks' = (tasks \ {t}) \cup {new}
                    /\ new \in TaskType /\ SameClaim(new, t) /\ new.worker = t.worker
                    /\ new.point = "complete" /\ new.verdict = verdict /\ new.sampled = sampled
<1> DEFINE new == [t EXCEPT !.point = "complete", !.verdict = verdict, !.sampled = sampled]
<1>1. tasks' = (tasks \ {t}) \cup {new}
  BY DEF Decide, Advance
<1>2. /\ new \in TaskType /\ SameClaim(new, t) /\ new.worker = t.worker
      /\ new.point = "complete" /\ new.verdict = verdict /\ new.sampled = sampled
  BY DEF TaskType, TaskPoints, SameClaim
<1> QED
  BY <1>1, <1>2

\* Giving up is such a decision, without a sample.
LEMMA GiveUpFacts ==
    ASSUME NEW t \in TaskType, Decide(t, "permanent_failed", FALSE)
    PROVE  \E new : /\ tasks' = (tasks \ {t}) \cup {new}
                    /\ new \in TaskType /\ SameClaim(new, t) /\ new.worker = t.worker
                    /\ new.point = "complete" /\ new.verdict = "permanent_failed"
                    /\ ~new.sampled
<1> DEFINE new == [t EXCEPT !.point = "complete", !.verdict = "permanent_failed",
                            !.sampled = FALSE]
<1>1. tasks' = (tasks \ {t}) \cup {new}
  BY DEF Decide, Advance
<1>2. /\ new \in TaskType /\ SameClaim(new, t) /\ new.worker = t.worker
      /\ new.point = "complete" /\ new.verdict = "permanent_failed" /\ ~new.sampled
  BY DEF TaskType, TaskPoints, SameClaim, Resolved
<1> QED
  BY <1>1, <1>2

\* Moving a task on keeps the claim and the decision.
LEMMA PointFacts ==
    ASSUME NEW t \in TaskType, NEW point \in TaskPoints, Advance(t, [t EXCEPT !.point = point])
    PROVE  \E new : /\ tasks' = (tasks \ {t}) \cup {new}
                    /\ new \in TaskType /\ SameClaim(new, t) /\ new.worker = t.worker
                    /\ new.point = point /\ new.verdict = t.verdict /\ new.sampled = t.sampled
<1> DEFINE new == [t EXCEPT !.point = point]
<1>1. tasks' = (tasks \ {t}) \cup {new}
  BY DEF Advance
<1>2. /\ new \in TaskType /\ SameClaim(new, t) /\ new.worker = t.worker
      /\ new.point = point /\ new.verdict = t.verdict /\ new.sampled = t.sampled
  BY DEF TaskType, SameClaim
<1> QED
  BY <1>1, <1>2

\* Every step of a task is one of these.
LEMMA TaskShapes ==
    ASSUME TypeOK, NEW t \in tasks, TaskStep(t) \/ TaskFails(t)
    PROVE  TaskShape(t)
<1> USE DEF NoFault, Fault, deliveryVars, workerVars, channelVars
<1>1. t \in TaskType
  BY DEF TypeOK
<1>2. CASE Begin(t) /\ (t.row[1] \in aged \/ stored[t.row[1]] # "yes")
  <2>1. PICK new : /\ tasks' = (tasks \ {t}) \cup {new}
                   /\ new \in TaskType /\ SameClaim(new, t) /\ new.worker = t.worker
                   /\ new.point = "complete" /\ new.verdict = "permanent_failed"
                   /\ ~new.sampled
    <3>1. Decide(t, "permanent_failed", FALSE)
      BY <1>2 DEF Begin
    <3> QED
      BY <1>1, <3>1, GiveUpFacts
  <2>2. Moves(t, new) /\ GiveUpShape(t, new)
    BY <1>2, <2>1 DEF Begin, Moves, GiveUpShape, HasCause
  <2> QED
    BY <2>2 DEF TaskShape
<1>3. CASE Begin(t) /\ ~(t.row[1] \in aged \/ stored[t.row[1]] # "yes")
  <2>1. PICK new : /\ tasks' = (tasks \ {t}) \cup {new}
                   /\ new \in TaskType /\ SameClaim(new, t) /\ new.worker = t.worker
                   /\ new.point = "dispatch" /\ new.verdict = t.verdict
    <3>1. Advance(t, [t EXCEPT !.point = "dispatch"]) /\ "dispatch" \in TaskPoints
      BY <1>3 DEF Begin, TaskPoints
    <3> QED
      BY <1>1, <3>1, PointFacts
  <2>2. Moves(t, new) /\ BeginShape(t, new)
    BY <1>3, <2>1 DEF Begin, Moves, BeginShape
  <2> QED
    BY <2>2 DEF TaskShape
<1>4. CASE ProfileMissing(t)
  <2>1. PICK new : /\ tasks' = (tasks \ {t}) \cup {new}
                   /\ new \in TaskType /\ SameClaim(new, t) /\ new.worker = t.worker
                   /\ new.point = "complete" /\ new.verdict = "permanent_failed"
                   /\ ~new.sampled
    <3>1. Decide(t, "permanent_failed", FALSE)
      BY <1>4 DEF ProfileMissing
    <3> QED
      BY <1>1, <3>1, GiveUpFacts
  <2>2. HasCause(t.row)
    BY <1>1, <1>4 DEF ProfileMissing, HasCause, TaskType
  <2>3. Moves(t, new) /\ GiveUpShape(t, new)
    BY <1>4, <2>1, <2>2 DEF ProfileMissing, Moves, GiveUpShape
  <2> QED
    BY <2>3 DEF TaskShape
<1>5. CASE DispatchSucceeds(t)
  <2>1. PICK new : /\ tasks' = (tasks \ {t}) \cup {new}
                   /\ new \in TaskType /\ SameClaim(new, t) /\ new.worker = t.worker
                   /\ new.point = "complete" /\ new.verdict = "succeeded"
                   /\ new.sampled = TRUE
    BY <1>1, <1>5, DecideFacts DEF DispatchSucceeds, Resolved
  <2>2. Moves(t, new) /\ AnswerShape(t, new)
    BY <1>5, <2>1 DEF DispatchSucceeds, Dispatch, Moves, AnswerShape
  <2> QED
    BY <2>2 DEF TaskShape
<1>6. CASE DispatchRefused(t)
  <2>1. PICK new : /\ tasks' = (tasks \ {t}) \cup {new}
                   /\ new \in TaskType /\ SameClaim(new, t) /\ new.worker = t.worker
                   /\ new.point = "complete" /\ new.verdict = "permanent_failed"
                   /\ new.sampled = TRUE
    BY <1>1, <1>6, DecideFacts DEF DispatchRefused, Resolved
  <2>2. Moves(t, new) /\ AnswerShape(t, new)
    BY <1>6, <2>1 DEF DispatchRefused, Dispatch, Moves, AnswerShape
  <2> QED
    BY <2>2 DEF TaskShape
<1>7. CASE DispatchTransient(t)
  <2>1. /\ TransientVerdict(t) \in {"retry_wait"} \cup Resolved
        /\ TransientVerdict(t) = "permanent_failed" => t.row[1] \in aged
    BY DEF TransientVerdict, Resolved
  <2>2. PICK new : /\ tasks' = (tasks \ {t}) \cup {new}
                   /\ new \in TaskType /\ SameClaim(new, t) /\ new.worker = t.worker
                   /\ new.point = "complete" /\ new.verdict = TransientVerdict(t)
                   /\ new.sampled = TRUE
    BY <1>1, <1>7, <2>1, DecideFacts DEF DispatchTransient
  <2>3. Moves(t, new)
    BY <1>7, <2>2 DEF DispatchTransient, Dispatch, Moves
  <2>4. AnswerShape(t, new)
    BY <1>7, <2>1, <2>2 DEF DispatchTransient, Dispatch, AnswerShape
  <2> QED
    BY <2>3, <2>4 DEF TaskShape
<1>8. CASE Complete(t)
  <2>1. PICK new : /\ tasks' = (tasks \ {t}) \cup {new}
                   /\ new \in TaskType /\ SameClaim(new, t) /\ new.worker = t.worker
                   /\ new.point = "ok" /\ new.verdict = t.verdict
    <3>1. Advance(t, [t EXCEPT !.point = "ok"]) /\ "ok" \in TaskPoints
      BY <1>8 DEF Complete, TaskPoints
    <3> QED
      BY <1>1, <3>1, PointFacts
  <2>2. Moves(t, new) /\ CompleteShape(t, new)
    BY <1>8, <2>1 DEF Complete, CompleteRow, Moves, CompleteShape
  <2> QED
    BY <2>2 DEF TaskShape
<1>9. CASE TaskFails(t)
  <2>1. PICK new : /\ tasks' = (tasks \ {t}) \cup {new}
                   /\ new \in TaskType /\ SameClaim(new, t) /\ new.worker = t.worker
                   /\ new.point = "error" /\ new.verdict = t.verdict
    <3>1. Advance(t, [t EXCEPT !.point = "error"]) /\ "error" \in TaskPoints
      BY <1>9 DEF TaskFails, TaskPoints
    <3> QED
      BY <1>1, <3>1, PointFacts
  <2>2. Moves(t, new) /\ FailShape(t, new)
    BY <1>9, <2>1 DEF TaskFails, Moves, FailShape, Unfinished
  <2> QED
    BY <2>2 DEF TaskShape
<1> QED
  BY <1>2, <1>3, <1>4, <1>5, <1>6, <1>7, <1>8, <1>9 DEF TaskStep

(***************************************************************************)
(* TasksOK                                                                 *)
(***************************************************************************)
\* A claim adds tasks with a token of their own.
LEMMA ClaimsDistinct ==
    ASSUME TypeOK, TasksOK, NEW w \in Workers, NEW batch, NEW token, ClaimShape(w, batch, token)
    PROVE  LET all == tasks \cup Claims(w, batch, token) IN
           all \subseteq TaskType /\ IsFiniteSet(all) /\ Distinct(all)
<1> DEFINE new == Claims(w, batch, token)
           f == [d \in batch |-> ClaimOf(w, d, token)]
<1>1. batch \subseteq Rows /\ token \in Tokens /\ \A t \in tasks : t.token # token
  BY DEF ClaimShape, Claimable, Expired, FreshTokens
<1>2. new \subseteq TaskType /\ \A c \in new : c.token = token
  BY <1>1, ClaimTyped DEF Claims, ClaimOf
<1>3. \A c, e \in new : c.row = e.row => c = e
  <2>1. \A d : ClaimOf(w, d, token).row = d
    BY DEF ClaimOf
  <2>2. \A c \in new : c = ClaimOf(w, c.row, token)
    BY <2>1 DEF Claims
  <2> QED
    BY <2>2
<1>4. IsFiniteSet(new)
  <2>1. f \in Surjection(batch, new)
    BY DEF Surjection, Claims
  <2>2. IsFiniteSet(batch)
    BY DEF ClaimShape
  <2> HIDE DEF f, new
  <2> QED
    BY <2>1, <2>2, FS_Surjection
<1>5. IsFiniteSet(tasks \cup new)
  BY <1>4, FS_Union DEF TasksOK
<1>6. Distinct(tasks \cup new)
  BY <1>1, <1>2, <1>3 DEF Distinct, TasksOK
<1> QED
  BY <1>2, <1>5, <1>6 DEF TypeOK

\* Tasks that come from good ones are good.
LEMMA FromTasksOK ==
    ASSUME NEW all \in SUBSET TaskType, IsFiniteSet(all), Distinct(all), From(all),
           \A t \in all : pc'[t.worker] \in {"batch", "more"} /\ stored'[t.row[1]] # "no"
    PROVE  TasksOK'
<1>1. \A u \in tasks' : \E t \in all : u.worker = t.worker /\ u.row = t.row
  BY GrownFacts DEF From, SameClaim
<1>2. IsFiniteSet(tasks') /\ Distinct(tasks')
  BY DEF From
<1> QED
  BY <1>1, <1>2 DEF TasksOK, Distinct

\* The steps of a worker.
LEMMA WorkerTasksOK ==
    ASSUME TypeOK, Core, TasksOK, NEW w \in Workers, WorkerShape(w)
    PROVE  TasksOK'
<1>1. tasks \subseteq TaskType /\ IsFiniteSet(tasks) /\ Distinct(tasks)
  BY DEF TypeOK, TasksOK, Distinct
<1>2. \A t \in tasks : t.worker \in Workers /\ t.row \in Rows
  BY DEF TypeOK, TaskType
<1>3. UNCHANGED stored
  BY DEF WorkerShape
<1>4. \A t \in tasks : pc'[t.worker] \in {"batch", "more"} \/ t.worker = w
  BY <1>2 DEF WorkerShape, TasksOK
<1>5. ASSUME NEW batch, NEW token, ClaimShape(w, batch, token)
      PROVE  TasksOK'
  <2> DEFINE all == tasks \cup Claims(w, batch, token)
  <2>1. all \subseteq TaskType /\ IsFiniteSet(all) /\ Distinct(all)
    BY <1>5, ClaimsDistinct
  <2>2. \A c \in Claims(w, batch, token) : c.worker = w /\ c.row \in batch
    BY DEF Claims, ClaimOf
  <2>3. \A d \in batch : d \in Rows /\ stored[d[1]] = "yes"
    BY <1>5 DEF ClaimShape, Claimable, Expired, Waiting, Core, NoOrphans
  <2>4. pc'[w] = "batch" /\ From(all)
    BY <1>5 DEF ClaimShape
  <2>5. \A t \in all : pc'[t.worker] \in {"batch", "more"} /\ stored'[t.row[1]] # "no"
    BY <1>3, <1>4, <2>2, <2>3, <2>4 DEF TasksOK
  <2> HIDE DEF all
  <2> QED
    BY <2>1, <2>4, <2>5, FromTasksOK
<1>6. ASSUME NEW t, JoinShape(w, t)
      PROVE  TasksOK'
  <2>1. IsFiniteSet(tasks \ {t}) /\ Distinct(tasks \ {t}) /\ tasks \ {t} \subseteq TaskType
    BY <1>1, FS_Subset DEF Distinct
  <2> QED
    BY <1>3, <1>4, <1>6, <2>1, FromTasksOK DEF JoinShape, TasksOK
<1>7. CASE CrashShape(w)
  <2> DEFINE all == tasks \ TasksOf(w, tasks)
  <2>1. IsFiniteSet(all) /\ Distinct(all) /\ all \subseteq TaskType
    BY <1>1, FS_Subset DEF Distinct
  <2>2. From(all)
    BY <1>7, FromSame DEF CrashShape
  <2>3. \A t \in all : pc'[t.worker] \in {"batch", "more"} /\ stored'[t.row[1]] # "no"
    BY <1>3, <1>4 DEF TasksOf, TasksOK
  <2> HIDE DEF all
  <2> QED
    BY <2>1, <2>2, <2>3, FromTasksOK
<1>8. CASE StartShape(w)
  <2>1. \A t \in tasks : t.worker # w
    BY <1>8 DEF StartShape, TasksOK
  <2> QED
    BY <1>3, <1>4, <1>8, <2>1 DEF StartShape, TasksOK
<1>9. CASE IdleShape(w)
  <2>1. \A t \in tasks : t.worker = w => pc[w] \in {"batch", "more"} /\ TasksOf(w, tasks) # {}
    BY DEF TasksOK, TasksOf
  <2> QED
    BY <1>3, <1>4, <1>9, <2>1 DEF IdleShape, TasksOK
<1> QED
  BY <1>5, <1>6, <1>7, <1>8, <1>9 DEF WorkerShape

\* A task that moves on is still known by its row and token.
LEMMA MovesTasksOK ==
    ASSUME TypeOK, TasksOK, NEW t \in tasks, NEW new, Moves(t, new)
    PROVE  TasksOK'
<1>1. IsFiniteSet(tasks')
  BY FS_RemoveElement, FS_AddElement DEF Moves, TasksOK
<1>2. \A u, v \in tasks' : u.row = v.row /\ u.token = v.token => u = v
  BY DEF Moves, TasksOK, SameClaim
<1>3. \A u \in tasks' : pc'[u.worker] \in {"batch", "more"} /\ stored'[u.row[1]] # "no"
  BY DEF Moves, TasksOK, SameClaim
<1> QED
  BY <1>1, <1>2, <1>3 DEF TasksOK

\* The steps of a task.
LEMMA TaskTasksOK ==
    ASSUME TypeOK, TasksOK, NEW t \in tasks, TaskShape(t)
    PROVE  TasksOK'
BY MovesTasksOK DEF TaskShape

\* The intake, the clock and deletions leave the tasks alone, and no message
\* becomes one that was never received.
LEMMA OutsideTasksOK ==
    ASSUME TypeOK, TasksOK,
           (\E w \in Workers, m \in Messages : IntakeStep(w, m)) \/ ClockStep \/ DeletionStep
    PROVE  TasksOK'
<1> USE DEF deliveryVars, workerVars
<1>1. stored \in [Messages -> {"no", "yes", "deleted"}]
      /\ \A t \in tasks : t.row \in Rows /\ t.row[1] \in Messages
  BY DEF TypeOK, DeliveryStoreTypeOK, TaskType, Rows
<1>2. UNCHANGED <<tasks, pc>>
  BY DEF IntakeStep, ClockStep, DeletionStep, Receive, Notify, LeaseLapses, RetryDue, GrowsOld,
         OperatorDeletes, RetentionDeletes
<1>3. \/ UNCHANGED stored
      \/ \E m \in Messages : stored' = [stored EXCEPT ![m] = "yes"]
      \/ \E m \in Messages : stored' = [stored EXCEPT ![m] = "deleted"]
  BY DEF IntakeStep, ClockStep, DeletionStep, Receive, Notify, LeaseLapses, RetryDue, GrowsOld,
         OperatorDeletes, RetentionDeletes, InsertMessage, LeaseRunsOut, RetryComesDue,
         EraseMessage
<1>4. \A m \in Messages : stored[m] # "no" => stored'[m] # "no"
  BY <1>1, <1>3
<1> QED
  BY <1>1, <1>2, <1>4 DEF TasksOK

\* Every step keeps the tasks apart.
LEMMA StepTasksOK ==
    ASSUME TypeOK, Core, TasksOK, [Next]_vars
    PROVE  TasksOK'
<1>1. CASE UNCHANGED vars
  BY <1>1 DEF vars, deliveryVars, workerVars, TasksOK
<1>2. ASSUME NEW w \in Workers, WorkerStep(w) \/ WorkerFault(w)
      PROVE  TasksOK'
  BY <1>2, WorkerShapes, WorkerTasksOK
<1>3. ASSUME NEW t \in tasks, TaskStep(t) \/ TaskFails(t)
      PROVE  TasksOK'
  BY <1>3, TaskShapes, TaskTasksOK
<1> QED
  BY <1>1, <1>2, <1>3, OutsideTasksOK DEF Next

(***************************************************************************)
(* Giving up                                                               *)
(***************************************************************************)
\* Causes do not go away.
LEMMA CausesStay ==
    ASSUME refused \subseteq refused', aged \subseteq aged'
    PROVE  \A d : HasCause(d) => HasCause(d)'
BY DEF HasCause

\* Steps after which every task that gave up had done so before.
LEMMA CausesKept ==
    ASSUME TypeOK, TasksOK, CausesOK, refused \subseteq refused', aged \subseteq aged',
           \A m \in Messages : stored[m] = "deleted" => stored'[m] = "deleted",
           \A u \in tasks' : u.verdict = "permanent_failed" =>
               \E t \in tasks : t.row = u.row /\ t.verdict = "permanent_failed"
    PROVE  CausesOK'
<1>1. \A t \in tasks : t.row[1] \in Messages /\ stored[t.row[1]] \in {"yes", "deleted"}
  BY DEF TypeOK, DeliveryStoreTypeOK, TasksOK, TaskType, Rows
<1> QED
  BY <1>1, CausesStay DEF CausesOK

\* Steps that give no delivery up.
LEMMA RowsNotGivenUp ==
    ASSUME GivenUpForCause, refused \subseteq refused', aged \subseteq aged',
           \A d \in Rows : delivery'[d].state = "permanent_failed" =>
               delivery[d].state = "permanent_failed"
    PROVE  GivenUpForCause'
BY CausesStay DEF GivenUpForCause

\* A worker's steps only requeue and claim rows.
LEMMA WorkerRows ==
    ASSUME TypeOK, NEW w \in Workers, WorkerShape(w), NEW d \in Rows
    PROVE  \/ delivery'[d] = delivery[d]
           \/ d \in Claimable /\ delivery'[d].state \in {"in_flight", "retry_wait"}
<1>1. delivery[d] \in RowType
  BY DEF TypeOK, DeliveryStoreTypeOK
<1>2. /\ Requeued(delivery[d]).state = "retry_wait"
      /\ \A token : Leased(delivery[d], token).state = "in_flight"
  BY <1>1 DEF Requeued, Leased, RowType
<1>3. Expired \subseteq Claimable
  BY DEF Claimable
<1>4. ASSUME NEW batch, NEW token, ClaimShape(w, batch, token)
      PROVE  \/ delivery'[d] = delivery[d]
             \/ d \in Claimable /\ delivery'[d].state \in {"in_flight", "retry_wait"}
  BY <1>2, <1>3, <1>4 DEF ClaimShape
<1>5. CASE StartShape(w)
  BY <1>2, <1>3, <1>5 DEF StartShape, RecoverExpired
<1> QED
  BY <1>4, <1>5 DEF WorkerShape, JoinShape, CrashShape, IdleShape

\* Every task that gives up did so before.
NoNewGivingUp ==
    \A u \in tasks' : u.verdict = "permanent_failed" =>
        \E t \in tasks : t.row = u.row /\ t.verdict = "permanent_failed"

\* The steps of a worker give nothing up.
LEMMA WorkerCauses ==
    ASSUME TypeOK, TasksOK, CausesOK, GivenUpForCause, NEW w \in Workers, WorkerShape(w)
    PROVE  CausesOK' /\ GivenUpForCause'
<1>1. UNCHANGED <<stored, aged, refused>>
  BY DEF WorkerShape, channelVars
<1>3. tasks \subseteq TaskType
  BY DEF TypeOK
<1>4. ASSUME NEW all \in SUBSET TaskType, From(all),
             \A t \in all : t \in tasks \/ t.verdict # "permanent_failed"
      PROVE  NoNewGivingUp
  BY <1>4, GrownFacts DEF From, SameClaim, NoNewGivingUp
<1>5. NoNewGivingUp
  <2>1. ASSUME NEW batch, NEW token, ClaimShape(w, batch, token)
        PROVE  NoNewGivingUp
    <3> DEFINE all == tasks \cup Claims(w, batch, token)
    <3>1. all \in SUBSET TaskType /\ From(all)
      BY <2>1, ClaimsDistinct DEF ClaimShape
    <3>2. \A t \in all : t \in tasks \/ t.verdict # "permanent_failed"
      BY DEF Claims, ClaimOf
    <3> HIDE DEF all
    <3> QED
      BY <1>4, <3>1, <3>2
  <2> QED
    BY <1>3, <1>4, <2>1
    DEF WorkerShape, JoinShape, StartShape, CrashShape, IdleShape, NoNewGivingUp
<1>6. \A d \in Rows : delivery'[d].state = "permanent_failed" =>
        delivery[d].state = "permanent_failed"
  BY WorkerRows
<1> QED
  BY <1>1, <1>5, <1>6, CausesKept, RowsNotGivenUp DEF NoNewGivingUp

\* The steps of a task give up for a cause.
LEMMA TaskCauses ==
    ASSUME TypeOK, Core, TasksOK, CausesOK, GivenUpForCause, NEW t \in tasks, TaskShape(t)
    PROVE  CausesOK' /\ GivenUpForCause'
<1>1. PICK new : /\ Moves(t, new)
                 /\ \/ BeginShape(t, new) \/ GiveUpShape(t, new) \/ AnswerShape(t, new)
                    \/ CompleteShape(t, new) \/ FailShape(t, new)
  BY DEF TaskShape
<1>2. /\ \A u \in tasks' : u \in tasks \/ u = new
      /\ new.row = t.row /\ UNCHANGED <<stored, aged>>
      /\ t.row \in Rows
  BY <1>1 DEF Moves, SameClaim, TypeOK, TaskType
<1>3. refused \subseteq refused'
  BY <1>1 DEF BeginShape, GiveUpShape, AnswerShape, CompleteShape, FailShape
<1>4. \A d : HasCause(d) => HasCause(d)'
  BY <1>2, <1>3, CausesStay
<1>5. new.verdict = "permanent_failed" => HasCause(new.row)' \/ stored'[new.row[1]] # "yes"
  <2>1. CASE BeginShape(t, new) \/ CompleteShape(t, new) \/ FailShape(t, new)
    BY <1>2, <1>4, <2>1 DEF BeginShape, CompleteShape, FailShape, CausesOK
  <2>2. CASE GiveUpShape(t, new)
    BY <1>2, <1>4, <2>2 DEF GiveUpShape
  <2>3. CASE AnswerShape(t, new)
    BY <1>2, <2>3 DEF AnswerShape, HasCause
  <2> QED
    BY <1>1, <2>1, <2>2, <2>3
<1>6. CausesOK'
  BY <1>2, <1>4, <1>5 DEF CausesOK
<1>7. CASE UNCHANGED delivery
  BY <1>2, <1>3, <1>6, <1>7, RowsNotGivenUp
<1>8. CASE CompleteShape(t, new) /\ HoldsLease(t.row, t.token)
  <2>1. delivery[t.row].state = "in_flight" /\ stored[t.row[1]] = "yes"
    BY <1>2, <1>8 DEF HoldsLease, Core, NoOrphans
  <2>2. /\ delivery'[t.row].state = t.verdict
        /\ \A d \in Rows : d # t.row => delivery'[d] = delivery[d]
    BY <1>2, <1>8 DEF CompleteShape, Outcome, TypeOK, DeliveryStoreTypeOK, RowType
  <2>3. t.verdict = "permanent_failed" => HasCause(t.row)
    BY <2>1 DEF CausesOK
  <2> QED
    BY <1>4, <1>6, <2>2, <2>3 DEF GivenUpForCause
<1> QED
  BY <1>1, <1>6, <1>7, <1>8
  DEF BeginShape, GiveUpShape, AnswerShape, CompleteShape, FailShape

\* What steps outside the workers do to a row.
LEMMA OutsideRows ==
    ASSUME TypeOK,
           (\E w \in Workers, m \in Messages : IntakeStep(w, m)) \/ ClockStep \/ DeletionStep,
           NEW d \in Rows
    PROVE  \/ delivery'[d].state = delivery[d].state
           \/ delivery'[d].state \in {"absent", "pending"}
<1> USE DEF deliveryVars
<1>1. delivery \in [Rows -> RowType] /\ delivery[d] \in RowType
  BY DEF TypeOK, DeliveryStoreTypeOK
<1>2. CASE \E w \in Workers, m \in Messages : Receive(w, m)
  BY <1>2 DEF Receive, InsertMessage, NoRow
<1>3. CASE \E e \in Rows : LeaseLapses(e)
  <2>1. PICK e \in Rows : delivery' = [delivery EXCEPT ![e].live = FALSE]
    BY <1>3 DEF LeaseLapses, LeaseRunsOut
  <2> QED
    BY <1>1, <2>1 DEF RowType
<1>4. CASE \E e \in Rows : RetryDue(e)
  <2>1. PICK e \in Rows : delivery' = [delivery EXCEPT ![e].due = TRUE]
    BY <1>4 DEF RetryDue, RetryComesDue
  <2> QED
    BY <1>1, <2>1 DEF RowType
<1>5. CASE \E m \in Messages : OperatorDeletes(m) \/ RetentionDeletes(m)
  BY <1>5 DEF OperatorDeletes, RetentionDeletes, EraseMessage, NoRow
<1>6. CASE \E w \in Workers, m \in Messages : Notify(w, m)
  BY <1>6 DEF Notify
<1>7. CASE \E m \in Messages : GrowsOld(m)
  BY <1>7 DEF GrowsOld
<1> QED
  BY <1>2, <1>3, <1>4, <1>5, <1>6, <1>7 DEF IntakeStep, ClockStep, DeletionStep

\* ... and to the messages.
LEMMA OutsideMessages ==
    ASSUME TypeOK,
           (\E w \in Workers, m \in Messages : IntakeStep(w, m)) \/ ClockStep \/ DeletionStep
    PROVE  /\ UNCHANGED <<tasks, pc, samples, outcomes, channelVars>>
           /\ aged \subseteq aged'
           /\ \A m \in Messages : stored[m] = "deleted" => stored'[m] = "deleted"
<1> USE DEF deliveryVars, workerVars
<1>1. stored \in [Messages -> {"no", "yes", "deleted"}]
  BY DEF TypeOK, DeliveryStoreTypeOK
<1>2. /\ UNCHANGED <<tasks, pc, outcomes, channelVars>>
      /\ aged \subseteq aged'
  BY DEF IntakeStep, ClockStep, DeletionStep, Receive, Notify, LeaseLapses, RetryDue, GrowsOld,
         OperatorDeletes, RetentionDeletes
<1>3. UNCHANGED samples
  BY DEF IntakeStep, ClockStep, DeletionStep, Receive, Notify, LeaseLapses, RetryDue, GrowsOld,
         OperatorDeletes, RetentionDeletes, InsertMessage, LeaseRunsOut, RetryComesDue,
         EraseMessage
<1>4. \/ UNCHANGED stored
      \/ \E m \in Messages : stored[m] = "no" /\ stored' = [stored EXCEPT ![m] = "yes"]
      \/ \E m \in Messages : stored' = [stored EXCEPT ![m] = "deleted"]
  BY DEF IntakeStep, ClockStep, DeletionStep, Receive, Notify, LeaseLapses, RetryDue, GrowsOld,
         OperatorDeletes, RetentionDeletes, InsertMessage, LeaseRunsOut, RetryComesDue,
         EraseMessage
<1>5. \A m \in Messages : stored[m] = "deleted" => stored'[m] = "deleted"
  BY <1>1, <1>4
<1> QED
  BY <1>2, <1>3, <1>5

\* Every step gives up for a cause only.
LEMMA StepCauses ==
    ASSUME TypeOK, Core, TasksOK, CausesOK, GivenUpForCause, [Next]_vars
    PROVE  CausesOK' /\ GivenUpForCause'
<1>1. CASE UNCHANGED vars
  BY <1>1 DEF vars, deliveryVars, channelVars, CausesOK, GivenUpForCause, HasCause
<1>2. ASSUME NEW w \in Workers, WorkerStep(w) \/ WorkerFault(w)
      PROVE  CausesOK' /\ GivenUpForCause'
  BY <1>2, WorkerShapes, WorkerCauses
<1>3. ASSUME NEW t \in tasks, TaskStep(t) \/ TaskFails(t)
      PROVE  CausesOK' /\ GivenUpForCause'
  BY <1>3, TaskShapes, TaskCauses
<1>4. CASE \/ \E w \in Workers, m \in Messages : IntakeStep(w, m)
           \/ ClockStep \/ DeletionStep
  <2>1. refused \subseteq refused' /\ aged \subseteq aged' /\ tasks' = tasks
    BY <1>4, OutsideMessages DEF channelVars
  <2>2. \A d \in Rows : delivery'[d].state = "permanent_failed" =>
            delivery[d].state = "permanent_failed"
    BY <1>4, OutsideRows
  <2>3. CausesOK'
    BY <1>4, <2>1, OutsideMessages, CausesKept
  <2> QED
    BY <2>1, <2>2, <2>3, RowsNotGivenUp
<1> QED
  BY <1>1, <1>2, <1>3, <1>4 DEF Next

(***************************************************************************)
(* Samples                                                                 *)
(***************************************************************************)
\* SamplesOK, for one row.
SampledRow(d) ==
    /\ samples[d] + Cardinality(Sampling(d)) <= answers[d]
    /\ \E one \in Tokens \cup {NoToken} :
          /\ stored[d[1]] = "yes" => one = LeaseOn(d)
          /\ Backed(d, WorkOn(d) \ {one})

\* Counting is defined: the tasks of a row are finitely many.
LEMMA RowFinite ==
    ASSUME TypeOK, TasksOK, NEW d \in Rows
    PROVE  /\ IsFiniteSet(Sampling(d)) /\ Cardinality(Sampling(d)) \in Nat
           /\ IsFiniteSet(WorkOn(d)) /\ WorkOn(d) \subseteq Tokens
<1> DEFINE on == {u \in tasks : u.row = d /\ u.point \in Unfinished}
           f == [t \in on |-> t.token]
<1>1. Sampling(d) \subseteq tasks /\ on \subseteq tasks /\ tasks \subseteq TaskType
  BY DEF Sampling, TypeOK
<1>2. IsFiniteSet(Sampling(d)) /\ IsFiniteSet(on)
  BY <1>1, FS_Subset DEF TasksOK
<1>3. f \in Surjection(on, WorkOn(d))
  BY DEF Surjection, WorkOn
<1>4. WorkOn(d) \subseteq Tokens
  BY <1>1 DEF WorkOn, TaskType
<1>5. IsFiniteSet(WorkOn(d))
  <2> HIDE DEF f, on
  <2> QED
    BY <1>2, <1>3, FS_Surjection
<1> QED
  BY <1>2, <1>4, <1>5, FS_CardinalityType

\* A subset is backed by what backs the set.
LEMMA FewerTokens ==
    ASSUME NEW S, NEW T, IsFiniteSet(S), T \subseteq S
    PROVE  /\ Cardinality(T) \in Nat /\ Cardinality(S) \in Nat
           /\ Cardinality(T) <= Cardinality(S)
BY FS_Subset, FS_CardinalityType

\* Removing one more token takes one off at most.
LEMMA OneTokenLess ==
    ASSUME NEW S, NEW x, IsFiniteSet(S)
    PROVE  /\ Cardinality(S \ {x}) \in Nat /\ Cardinality(S) \in Nat
           /\ Cardinality(S) <= Cardinality(S \ {x}) + 1
           /\ Cardinality(S \ {x}) <= Cardinality(S)
<1>1. /\ IsFiniteSet(S \ {x})
      /\ Cardinality(S \ {x}) = IF x \in S THEN Cardinality(S) - 1 ELSE Cardinality(S)
  BY FS_RemoveElement
<1>2. Cardinality(S) \in Nat /\ Cardinality(S \ {x}) \in Nat
  BY <1>1, FS_CardinalityType
<1> QED
  BY <1>1, <1>2

\* Tasks that drop out make room for as many strays, one less for the lease
\* among them.
LEMMA DroppedTokens ==
    ASSUME NEW A, NEW B, NEW K, NEW x, IsFiniteSet(A), K \subseteq A, B \subseteq A \ K
    PROVE  /\ Cardinality(B \ {x}) \in Nat /\ Cardinality(K) \in Nat
           /\ Cardinality(A \ {x}) \in Nat
           /\ Cardinality(B \ {x}) + Cardinality(K) <= Cardinality(A \ {x}) + 1
<1> DEFINE L == K \ {x}
           C == B \ {x}
<1>1. IsFiniteSet(K) /\ IsFiniteSet(L) /\ IsFiniteSet(C) /\ IsFiniteSet(A \ {x})
  BY FS_Subset
<1>2. L \cap C = {} /\ L \cup C \subseteq A \ {x}
  OBVIOUS
<1>3. Cardinality(K) \in Nat /\ Cardinality(L) \in Nat /\ Cardinality(K) <= Cardinality(L) + 1
  BY <1>1, OneTokenLess
<1>4. Cardinality(L \cup C) = Cardinality(L) + Cardinality(C) - 0
  <2>1. Cardinality(L \cap C) = 0
    BY <1>2, FS_EmptySet
  <2> HIDE DEF L, C
  <2> QED
    BY <1>1, <2>1, FS_Union
<1>5. Cardinality(L \cup C) \in Nat /\ Cardinality(L \cup C) <= Cardinality(A \ {x})
      /\ Cardinality(A \ {x}) \in Nat
  BY <1>1, <1>2, FewerTokens
<1>6. Cardinality(C) \in Nat
  BY <1>1, FS_CardinalityType
<1> HIDE DEF L
<1> QED
  BY <1>3, <1>4, <1>5, <1>6

\* As many tokens as tasks of a row.
LEMMA TokensOfTasks ==
    ASSUME TasksOK, NEW d, NEW R \in SUBSET Sampling(d)
    PROVE  IsFiniteSet(R) /\ Cardinality({t.token : t \in R}) = Cardinality(R)
<1> DEFINE T == {t.token : t \in R}
           f == [t \in R |-> t.token]
<1>1. IsFiniteSet(R)
  BY FS_Subset DEF TasksOK, Sampling
<1>2. \A t, u \in R : t.token = u.token => t = u
  BY DEF TasksOK, Sampling
<1>3. f \in Surjection(R, T)
  BY DEF Surjection
<1>4. f \in Injection(R, T)
  BY <1>2 DEF Injection, IsInjective
<1>5. Cardinality(T) = Cardinality(R)
  <2> HIDE DEF f, T
  <2> QED
    BY <1>1, <1>3, <1>4, FS_Surjection
<1> QED
  BY <1>1, <1>5

\* Steps that answer nothing, drop no sample and turn no further task loose.
LEMMA SampleKept ==
    ASSUME TypeOK, TypeOK', TasksOK, NEW d \in Rows, SampledRow(d),
           Sampling(d)' = Sampling(d), answers'[d] = answers[d], samples'[d] = samples[d],
           faults <= faults',
           \A one \in Tokens \cup {NoToken} :
               (stored[d[1]] = "yes" => one = LeaseOn(d)) =>
               \E two \in Tokens \cup {NoToken} :
                  /\ stored'[d[1]] = "yes" => two = LeaseOn(d)'
                  /\ WorkOn(d)' \ {two} \subseteq WorkOn(d) \ {one}
    PROVE  SampledRow(d)'
<1>1. PICK one \in Tokens \cup {NoToken} :
        /\ stored[d[1]] = "yes" => one = LeaseOn(d)
        /\ Backed(d, WorkOn(d) \ {one})
  BY DEF SampledRow
<1>2. PICK two \in Tokens \cup {NoToken} :
        /\ stored'[d[1]] = "yes" => two = LeaseOn(d)'
        /\ WorkOn(d)' \ {two} \subseteq WorkOn(d) \ {one}
  BY <1>1
<1>3. IsFiniteSet(WorkOn(d) \ {one})
  BY RowFinite, FS_RemoveElement
<1>4. /\ Cardinality(WorkOn(d)' \ {two}) \in Nat /\ Cardinality(WorkOn(d) \ {one}) \in Nat
      /\ Cardinality(WorkOn(d)' \ {two}) <= Cardinality(WorkOn(d) \ {one})
  BY <1>2, <1>3, FewerTokens
<1>5. /\ Cardinality(Sampling(d)) \in Nat /\ answers[d] \in Nat /\ samples[d] \in Nat
      /\ faults \in Nat /\ faults' \in Nat
  BY RowFinite DEF TypeOK, DeliveryStoreTypeOK
<1>6. Backed(d, WorkOn(d) \ {two})'
  BY <1>1, <1>4, <1>5 DEF Backed
<1> QED
  BY <1>2, <1>6 DEF SampledRow

\* A claim works under a lease of its own; what worked on the row before had
\* been counted as loose.
LEMMA ClaimSamples ==
    ASSUME TypeOK, TypeOK', Core, TasksOK, NEW d \in Rows, SampledRow(d),
           NEW w \in Workers, NEW batch, NEW token, ClaimShape(w, batch, token),
           UNCHANGED <<stored, samples, answers>>
    PROVE  SampledRow(d)'
<1> DEFINE all == tasks \cup Claims(w, batch, token)
<1>1. /\ all \in SUBSET TaskType /\ From(all)
      /\ token \in Tokens /\ token # NoToken /\ \A t \in tasks : t.token # token
      /\ batch \subseteq Rows
  BY ClaimsDistinct DEF ClaimShape, FreshTokens, Claimable, Expired
<1>2. WorkOn(d)' = TokensOn(d, all) /\ Sampling(d)' = SamplesFor(d, all)
  <2> HIDE DEF all
  <2> QED
    BY <1>1, FromViews
<1>3. \A c \in Claims(w, batch, token) :
        c.token = token /\ c.row \in batch /\ c.point = "queued"
  BY DEF Claims, ClaimOf
<1>4. Sampling(d)' = Sampling(d)
  BY <1>2, <1>3 DEF SamplesFor, Sampling
<1>5. WorkOn(d)' \subseteq WorkOn(d) \cup (IF d \in batch THEN {token} ELSE {})
  BY <1>2, <1>3 DEF TokensOn, WorkOn
<1>6. /\ d \in batch => LeaseOn(d)' = token
      /\ d \notin batch => LeaseOn(d)' = LeaseOn(d)
  <2>1. delivery[d] \in RowType
    BY DEF TypeOK, DeliveryStoreTypeOK
  <2>2. /\ delivery'[d] = IF d \in batch THEN Leased(delivery[d], token)
                          ELSE IF d \in Expired THEN Requeued(delivery[d]) ELSE delivery[d]
    BY DEF ClaimShape
  <2> QED
    BY <2>1, <2>2 DEF LeaseOn, Leased, Requeued, Expired, RowType
<1>7. d \in batch => stored[d[1]] = "yes" /\ LeaseOn(d) = NoToken
  BY DEF ClaimShape, Claimable, Expired, Waiting, LeaseOn, Core, NoOrphans, LeasesOK
<1>8. ASSUME NEW one \in Tokens \cup {NoToken}, stored[d[1]] = "yes" => one = LeaseOn(d)
      PROVE  \E two \in Tokens \cup {NoToken} :
                /\ stored'[d[1]] = "yes" => two = LeaseOn(d)'
                /\ WorkOn(d)' \ {two} \subseteq WorkOn(d) \ {one}
  <2>1. CASE d \in batch
    <3>1. NoToken \notin WorkOn(d)
      BY RowFinite
    <3>2. one = NoToken /\ WorkOn(d)' \ {token} \subseteq WorkOn(d) \ {one}
      BY <1>5, <1>7, <1>8, <2>1, <3>1
    <3> QED
      BY <1>1, <1>6, <2>1, <3>2
  <2>2. CASE d \notin batch
    BY <1>5, <1>6, <1>8, <2>2
  <2> QED
    BY <2>1, <2>2
<1>9. faults <= faults'
  BY DEF ClaimShape, TypeOK
<1> QED
  BY <1>4, <1>8, <1>9, SampleKept

\* A recovery takes leases that had run out.
LEMMA StartSamples ==
    ASSUME TypeOK, TypeOK', TasksOK, NEW d \in Rows, SampledRow(d),
           NEW w \in Workers, StartShape(w), UNCHANGED <<stored, samples, answers>>
    PROVE  SampledRow(d)'
<1>1. LeaseOn(d)' = LeaseOn(d)
  <2>1. delivery[d] \in RowType
    BY DEF TypeOK, DeliveryStoreTypeOK
  <2>2. delivery'[d] = IF d \in Expired THEN Requeued(delivery[d]) ELSE delivery[d]
    BY DEF StartShape, RecoverExpired
  <2> QED
    BY <2>1, <2>2 DEF LeaseOn, Requeued, Expired, RowType
<1>2. WorkOn(d)' = WorkOn(d) /\ Sampling(d)' = Sampling(d)
  BY DEF StartShape, WorkOn, Sampling, Unfinished
<1>3. faults <= faults'
  BY DEF StartShape, TypeOK
<1> QED
  BY <1>1, <1>2, <1>3, SampleKept

\* Joining a finished task takes no token and no sample away.
LEMMA JoinSamples ==
    ASSUME TypeOK, TypeOK', TasksOK, NEW d \in Rows, SampledRow(d),
           NEW w \in Workers, NEW t, JoinShape(w, t), UNCHANGED <<stored, samples, answers>>
    PROVE  SampledRow(d)'
<1>1. tasks \ {t} \in SUBSET TaskType /\ From(tasks \ {t}) /\ t.point \notin Unfinished
  BY DEF TypeOK, JoinShape
<1>2. WorkOn(d)' = TokensOn(d, tasks \ {t}) /\ Sampling(d)' = SamplesFor(d, tasks \ {t})
  BY <1>1, FromViews
<1>3. WorkOn(d)' = WorkOn(d) /\ Sampling(d)' = Sampling(d)
  BY <1>1, <1>2 DEF TokensOn, SamplesFor, WorkOn, Sampling, Unfinished
<1>4. faults <= faults' /\ LeaseOn(d)' = LeaseOn(d)
  BY DEF JoinShape, TypeOK, LeaseOn
<1> QED
  BY <1>3, <1>4, SampleKept

\* A crash drops any number of samples of a row; each but one was paid for
\* when its lease was outrun.
LEMMA CrashSamples ==
    ASSUME TypeOK, TypeOK', TasksOK, NEW d \in Rows, SampledRow(d),
           NEW w \in Workers, CrashShape(w), UNCHANGED <<stored, samples, answers>>
    PROVE  SampledRow(d)'
<1> DEFINE R == {t \in Sampling(d) : t.worker = w}
           K == {t.token : t \in R}
<1>1. Sampling(d)' = Sampling(d) \ R
  BY DEF CrashShape, Sampling, TasksOf
<1>2. IsFiniteSet(R) /\ Cardinality(K) = Cardinality(R)
  <2>1. R \subseteq Sampling(d)
    OBVIOUS
  <2> HIDE DEF R
  <2> QED
    BY <2>1, TokensOfTasks
<1>3. K \subseteq WorkOn(d)
  BY DEF Sampling, WorkOn, Unfinished
<1>4. WorkOn(d)' \subseteq WorkOn(d) \ K
  <2>1. \A u \in tasks' : u \in tasks /\ u.worker # w
    BY DEF CrashShape, TasksOf
  <2>2. \A token \in WorkOn(d)' :
          \E u \in tasks : u.row = d /\ u.token = token /\ u.point \in Unfinished /\ u.worker # w
    BY <2>1 DEF WorkOn, Unfinished
  <2>3. \A u \in tasks : u.row = d /\ u.token \in K => u \in R
    BY DEF Sampling, TasksOK
  <2> QED
    BY <2>2, <2>3 DEF WorkOn
<1>5. PICK one \in Tokens \cup {NoToken} :
        /\ stored[d[1]] = "yes" => one = LeaseOn(d)
        /\ Backed(d, WorkOn(d) \ {one})
  BY DEF SampledRow
<1>6. /\ Cardinality(WorkOn(d)' \ {one}) \in Nat /\ Cardinality(K) \in Nat
      /\ Cardinality(WorkOn(d) \ {one}) \in Nat
      /\ Cardinality(WorkOn(d)' \ {one}) + Cardinality(K) <= Cardinality(WorkOn(d) \ {one}) + 1
  <2> HIDE DEF K
  <2> QED
    BY <1>3, <1>4, RowFinite, DroppedTokens
<1>7. /\ Cardinality(Sampling(d)') = Cardinality(Sampling(d)) - Cardinality(R)
      /\ Cardinality(Sampling(d)) \in Nat /\ Cardinality(R) \in Nat
  <2>1. R = Sampling(d) \cap R
    OBVIOUS
  <2>2. IsFiniteSet(Sampling(d)) /\ Cardinality(Sampling(d)) \in Nat
    BY RowFinite
  <2> HIDE DEF R
  <2> QED
    BY <1>1, <1>2, <2>1, <2>2, FS_Difference, FS_CardinalityType
<1>8. /\ answers[d] \in Nat /\ samples[d] \in Nat /\ faults \in Nat /\ faults' = faults + 1
  BY DEF TypeOK, DeliveryStoreTypeOK, CrashShape
<1>9. stored'[d[1]] = "yes" => one = LeaseOn(d)'
  BY <1>5 DEF CrashShape, LeaseOn
<1> HIDE DEF R, K
<1>10. Backed(d, WorkOn(d) \ {one})'
  BY <1>2, <1>5, <1>6, <1>7, <1>8 DEF Backed
<1>11. samples'[d] + Cardinality(Sampling(d)') <= answers'[d]
  BY <1>7, <1>8 DEF SampledRow
<1> QED
  BY <1>9, <1>10, <1>11 DEF SampledRow

\* The steps of a worker.
LEMMA WorkerSamples ==
    ASSUME TypeOK, TypeOK', Core, TasksOK, NEW d \in Rows, SampledRow(d),
           NEW w \in Workers, WorkerShape(w)
    PROVE  SampledRow(d)'
<1>1. UNCHANGED <<stored, samples, answers>>
  BY DEF WorkerShape, channelVars
<1>2. CASE IdleShape(w)
  <2>1. /\ WorkOn(d)' = WorkOn(d) /\ Sampling(d)' = Sampling(d) /\ LeaseOn(d)' = LeaseOn(d)
        /\ faults <= faults'
    BY <1>2 DEF IdleShape, WorkOn, Sampling, Unfinished, LeaseOn, TypeOK
  <2> QED
    BY <1>1, <2>1, SampleKept
<1> QED
  BY <1>1, <1>2, ClaimSamples, StartSamples, JoinSamples, CrashSamples DEF WorkerShape

\* What a task's step does to the tokens and the samples of a row.
LEMMA MovesViews ==
    ASSUME TypeOK, TasksOK, NEW t \in tasks, NEW new, Moves(t, new), NEW d \in Rows
    PROVE  /\ d # t.row => WorkOn(d)' = WorkOn(d) /\ Sampling(d)' = Sampling(d)
           /\ WorkOn(d)' \subseteq WorkOn(d) \/ t.point \notin Unfinished
           /\ d = t.row /\ new.point \notin Unfinished => WorkOn(d)' \subseteq WorkOn(d) \ {t.token}
           /\ d = t.row => Sampling(d)' = (Sampling(d) \ {t})
                              \cup (IF new.point = "complete" /\ new.sampled THEN {new} ELSE {})
<1>1. /\ new.row = t.row /\ new.token = t.token
      /\ \A u : u \in tasks' <=> (u \in tasks /\ u # t) \/ u = new
  BY DEF Moves, SameClaim
<1>2. d # t.row => WorkOn(d)' = WorkOn(d) /\ Sampling(d)' = Sampling(d)
  BY <1>1 DEF WorkOn, Sampling, Unfinished
<1>3. WorkOn(d)' \subseteq WorkOn(d) \/ t.point \notin Unfinished
  BY <1>1 DEF WorkOn, Unfinished
<1>4. d = t.row /\ new.point \notin Unfinished => WorkOn(d)' \subseteq WorkOn(d) \ {t.token}
  BY <1>1 DEF WorkOn, Unfinished, TasksOK
<1>5. d = t.row => Sampling(d)' = (Sampling(d) \ {t})
                              \cup (IF new.point = "complete" /\ new.sampled THEN {new} ELSE {})
  BY <1>1 DEF Sampling
<1> QED
  BY <1>2, <1>3, <1>4, <1>5

\* An answer owes a sample.
LEMMA AnswerSamples ==
    ASSUME TypeOK, TypeOK', TasksOK, NEW t \in tasks, NEW new, Moves(t, new),
           AnswerShape(t, new), SampledRow(t.row)
    PROVE  SampledRow(t.row)'
<1> DEFINE d == t.row
<1>1. d \in Rows /\ new.row = d /\ UNCHANGED <<stored, delivery, samples>>
  BY DEF TypeOK, TaskType, Moves, SameClaim, AnswerShape
<1>2. answers'[d] = answers[d] + 1 /\ answers[d] \in Nat /\ samples[d] \in Nat
      /\ faults \in Nat /\ faults' \in Nat /\ faults <= faults'
  BY <1>1 DEF AnswerShape, TypeOK, DeliveryStoreTypeOK
<1>3. Sampling(d)' = Sampling(d) \cup {new} /\ new \notin Sampling(d)
  <2>1. Sampling(d)' = (Sampling(d) \ {t}) \cup {new} /\ t \notin Sampling(d)
    BY <1>1, MovesViews DEF AnswerShape, Sampling
  <2>2. new \notin tasks
    BY DEF Moves, SameClaim, TasksOK, AnswerShape
  <2> QED
    BY <2>1, <2>2 DEF Sampling
<1>4. /\ Cardinality(Sampling(d)') = Cardinality(Sampling(d)) + 1
      /\ Cardinality(Sampling(d)) \in Nat
  BY <1>1, <1>3, RowFinite, FS_AddElement
<1>5. WorkOn(d)' \subseteq WorkOn(d) /\ LeaseOn(d)' = LeaseOn(d)
  BY <1>1, MovesViews DEF AnswerShape, Unfinished, LeaseOn
<1>6. PICK one \in Tokens \cup {NoToken} :
        /\ stored[d[1]] = "yes" => one = LeaseOn(d)
        /\ Backed(d, WorkOn(d) \ {one})
  BY DEF SampledRow
<1>7. IsFiniteSet(WorkOn(d) \ {one})
  BY <1>1, RowFinite, FS_RemoveElement
<1>8. /\ Cardinality(WorkOn(d)' \ {one}) \in Nat /\ Cardinality(WorkOn(d) \ {one}) \in Nat
      /\ Cardinality(WorkOn(d)' \ {one}) <= Cardinality(WorkOn(d) \ {one})
  <2>1. WorkOn(d)' \ {one} \subseteq WorkOn(d) \ {one}
    BY <1>5
  <2> QED
    BY <1>7, <2>1, FewerTokens
<1>9. Backed(d, WorkOn(d) \ {one})'
  BY <1>1, <1>2, <1>4, <1>6, <1>8 DEF Backed
<1>10. samples'[d] + Cardinality(Sampling(d)') <= answers'[d]
  BY <1>1, <1>2, <1>4 DEF SampledRow
<1>11. stored'[d[1]] = "yes" => one = LeaseOn(d)'
  BY <1>1, <1>5, <1>6
<1> QED
  BY <1>9, <1>10, <1>11 DEF SampledRow

\* A completed task has left its sample, a failed one costs a fault.
LEMMA EndSamples ==
    ASSUME TypeOK, TypeOK', TasksOK, NEW t \in tasks, NEW new, Moves(t, new),
           CompleteShape(t, new) \/ FailShape(t, new), SampledRow(t.row)
    PROVE  SampledRow(t.row)'
<1> DEFINE d == t.row
<1>1. d \in Rows /\ UNCHANGED <<stored, answers>> /\ new.point \notin Unfinished
      /\ t.token # NoToken /\ t.sampled \in BOOLEAN
  BY DEF TypeOK, TaskType, Moves, CompleteShape, FailShape, Unfinished
<1>2. answers[d] \in Nat /\ samples[d] \in Nat /\ samples'[d] \in Nat
      /\ faults \in Nat /\ faults' \in Nat
  BY <1>1 DEF TypeOK, DeliveryStoreTypeOK
<1>3. Sampling(d)' = Sampling(d) \ {t}
  BY <1>1, MovesViews DEF CompleteShape, FailShape
<1>4. /\ Cardinality(Sampling(d)') \in Nat /\ Cardinality(Sampling(d)) \in Nat
      /\ Cardinality(Sampling(d)) <= Cardinality(Sampling(d)') + 1
      /\ Cardinality(Sampling(d)') <= Cardinality(Sampling(d))
      /\ t \in Sampling(d) => Cardinality(Sampling(d)) = Cardinality(Sampling(d)') + 1
      /\ t \notin Sampling(d) => Cardinality(Sampling(d)) = Cardinality(Sampling(d)')
  <2>1. IsFiniteSet(Sampling(d))
    BY <1>1, RowFinite
  <2>2. Cardinality(Sampling(d)) \in Nat /\ Cardinality(Sampling(d)') \in Nat
    BY <1>3, <2>1, FS_CardinalityType, FS_RemoveElement
  <2>3. Cardinality(Sampling(d)') = IF t \in Sampling(d) THEN Cardinality(Sampling(d)) - 1
                                                        ELSE Cardinality(Sampling(d))
    BY <1>3, <2>1, FS_RemoveElement
  <2> QED
    BY <2>2, <2>3
<1>5. /\ \/ faults' = faults + 1 /\ samples'[d] = samples[d]
         \/ /\ faults' = faults
            /\ t \in Sampling(d) => samples'[d] = samples[d] + 1
            /\ t \notin Sampling(d) => samples'[d] = samples[d]
  BY <1>1 DEF CompleteShape, FailShape, Sampling, TypeOK, DeliveryStoreTypeOK
<1>6. PICK one \in Tokens \cup {NoToken} :
        /\ stored[d[1]] = "yes" => one = LeaseOn(d)
        /\ Backed(d, WorkOn(d) \ {one})
  BY DEF SampledRow
<1>7. \E two \in Tokens \cup {NoToken} :
         /\ stored'[d[1]] = "yes" => two = LeaseOn(d)'
         /\ WorkOn(d)' \ {two} \subseteq WorkOn(d) \ {one}
  <2>1. WorkOn(d)' \subseteq WorkOn(d) \ {t.token}
    BY <1>1, MovesViews
  <2>2. CASE UNCHANGED delivery
    BY <1>1, <1>6, <2>1, <2>2 DEF LeaseOn
  <2>3. CASE CompleteShape(t, new) /\ HoldsLease(t.row, t.token)
    <3>1. delivery'[d].live = FALSE
      BY <1>1, <2>3 DEF CompleteShape, Outcome, TypeOK, DeliveryStoreTypeOK, RowType
    <3>2. LeaseOn(d)' = NoToken /\ LeaseOn(d) \in {t.token, NoToken}
      BY <2>3, <3>1 DEF LeaseOn, HoldsLease
    <3>3. NoToken \notin WorkOn(d)
      BY <1>1, RowFinite
    <3>4. CASE stored[d[1]] = "yes"
      <4>1. WorkOn(d)' \ {NoToken} \subseteq WorkOn(d) \ {one}
        BY <1>6, <2>1, <3>2, <3>3, <3>4
      <4> QED
        BY <3>2, <4>1
    <3>5. CASE stored[d[1]] # "yes"
      <4>1. WorkOn(d)' \ {one} \subseteq WorkOn(d) \ {one}
        BY <2>1
      <4> QED
        BY <1>1, <3>5, <4>1
    <3> QED
      BY <3>4, <3>5
  <2> QED
    BY <2>2, <2>3 DEF CompleteShape, FailShape
<1>8. PICK two \in Tokens \cup {NoToken} :
         /\ stored'[d[1]] = "yes" => two = LeaseOn(d)'
         /\ WorkOn(d)' \ {two} \subseteq WorkOn(d) \ {one}
  BY <1>7
<1>9. /\ Cardinality(WorkOn(d)' \ {two}) \in Nat /\ Cardinality(WorkOn(d) \ {one}) \in Nat
      /\ Cardinality(WorkOn(d)' \ {two}) <= Cardinality(WorkOn(d) \ {one})
  <2>1. IsFiniteSet(WorkOn(d) \ {one})
    BY <1>1, RowFinite, FS_RemoveElement
  <2> QED
    BY <1>8, <2>1, FewerTokens
<1>10. Backed(d, WorkOn(d) \ {two})'
  <2>1. CASE faults' = faults + 1 /\ samples'[d] = samples[d]
    BY <1>1, <1>2, <1>4, <1>6, <1>9, <2>1 DEF Backed
  <2>2. CASE faults' = faults /\ t \in Sampling(d) /\ samples'[d] = samples[d] + 1
    BY <1>1, <1>2, <1>4, <1>6, <1>9, <2>2 DEF Backed
  <2>3. CASE faults' = faults /\ t \notin Sampling(d) /\ samples'[d] = samples[d]
    BY <1>1, <1>2, <1>4, <1>6, <1>9, <2>3 DEF Backed
  <2> QED
    BY <1>5, <2>1, <2>2, <2>3
<1>11. samples'[d] + Cardinality(Sampling(d)') <= answers'[d]
  BY <1>1, <1>2, <1>4, <1>5 DEF SampledRow
<1> QED
  BY <1>8, <1>10, <1>11 DEF SampledRow

\* The steps of a task.
LEMMA TaskSamples ==
    ASSUME TypeOK, TypeOK', TasksOK, NEW d \in Rows, SampledRow(d),
           NEW t \in tasks, TaskShape(t)
    PROVE  SampledRow(d)'
<1>1. PICK new : /\ Moves(t, new)
                 /\ \/ BeginShape(t, new) \/ GiveUpShape(t, new) \/ AnswerShape(t, new)
                    \/ CompleteShape(t, new) \/ FailShape(t, new)
  BY DEF TaskShape
<1>2. UNCHANGED stored /\ t.row \in Rows
  BY <1>1 DEF Moves, TypeOK, TaskType
<1>3. faults <= faults'
  BY <1>1 DEF BeginShape, GiveUpShape, AnswerShape, CompleteShape, FailShape, TypeOK
<1>4. CASE d # t.row
  <2>1. WorkOn(d)' = WorkOn(d) /\ Sampling(d)' = Sampling(d)
    BY <1>1, <1>4, MovesViews
  <2>2. delivery'[d] = delivery[d] /\ samples'[d] = samples[d] /\ answers'[d] = answers[d]
    BY <1>1, <1>2, <1>4
    DEF BeginShape, GiveUpShape, AnswerShape, CompleteShape, FailShape, TypeOK,
        DeliveryStoreTypeOK
  <2> QED
    BY <1>2, <1>3, <2>1, <2>2, SampleKept DEF LeaseOn
<1>5. CASE d = t.row /\ (BeginShape(t, new) \/ GiveUpShape(t, new))
  <2>1. t.point \in Unfinished /\ t \notin Sampling(d)
        /\ ~(new.point = "complete" /\ new.sampled)
    BY <1>5 DEF BeginShape, GiveUpShape, Unfinished, Sampling
  <2>2. WorkOn(d)' \subseteq WorkOn(d) /\ Sampling(d)' = Sampling(d)
    BY <1>1, <1>5, <2>1, MovesViews
  <2>3. UNCHANGED <<delivery, samples, answers>>
    BY <1>5 DEF BeginShape, GiveUpShape
  <2> QED
    BY <1>2, <1>3, <2>2, <2>3, SampleKept DEF LeaseOn
<1> QED
  BY <1>1, <1>4, <1>5, AnswerSamples, EndSamples

\* A lease that runs out under a task is a fault, and turns that task loose.
LEMMA LapseSamples ==
    ASSUME TypeOK, TypeOK', Core, TasksOK, NEW d \in Rows, SampledRow(d), LeaseLapses(d)
    PROVE  SampledRow(d)'
<1>1. /\ UNCHANGED <<tasks, stored, samples, answers>>
      /\ IF Held(d) THEN Fault ELSE NoFault
  BY DEF LeaseLapses, LeaseRunsOut, channelVars
<1>2. WorkOn(d)' = WorkOn(d) /\ Sampling(d)' = Sampling(d)
  BY <1>1 DEF WorkOn, Sampling, Unfinished
<1>3. delivery'[d].live = FALSE
  BY DEF LeaseLapses, LeaseRunsOut, TypeOK, DeliveryStoreTypeOK, RowType
<1>4. LeaseOn(d)' = NoToken /\ LeaseOn(d) = delivery[d].token
  BY <1>3 DEF LeaseOn, LeaseLapses, LeaseRunsOut
<1>5. stored[d[1]] = "yes"
  BY DEF LeaseLapses, LeaseRunsOut, Core, NoOrphans
<1>6. Held(d) <=> delivery[d].token \in WorkOn(d)
  BY DEF Held, WorkOn
<1>7. IsFiniteSet(WorkOn(d)) /\ NoToken \notin WorkOn(d)
  BY RowFinite
<1>8. Backed(d, WorkOn(d) \ {delivery[d].token})
  BY <1>4, <1>5 DEF SampledRow
<1>9. /\ Cardinality(WorkOn(d)) \in Nat /\ Cardinality(WorkOn(d) \ {delivery[d].token}) \in Nat
      /\ Cardinality(WorkOn(d)) <= Cardinality(WorkOn(d) \ {delivery[d].token}) + 1
      /\ ~Held(d) => WorkOn(d) \ {delivery[d].token} = WorkOn(d)
  BY <1>6, <1>7, OneTokenLess
<1>10. /\ answers[d] \in Nat /\ samples[d] \in Nat /\ faults \in Nat
       /\ Cardinality(Sampling(d)) \in Nat
  BY RowFinite DEF TypeOK, DeliveryStoreTypeOK
<1>11. faults' = IF Held(d) THEN faults + 1 ELSE faults
  BY <1>1 DEF Fault, NoFault
<1>12. WorkOn(d)' \ {NoToken} = WorkOn(d)
  BY <1>2, <1>7
<1>13. Backed(d, WorkOn(d) \ {NoToken})'
  <2>1. answers[d] + Cardinality(WorkOn(d) \ {delivery[d].token})
          <= samples[d] + Cardinality(Sampling(d)) + faults
    BY <1>8 DEF Backed
  <2>2. answers[d] + Cardinality(WorkOn(d)) <= samples[d] + Cardinality(Sampling(d)) + faults'
    <3>1. CASE Held(d)
      BY <1>9, <1>10, <1>11, <2>1, <3>1
    <3>2. CASE ~Held(d)
      BY <1>9, <1>11, <2>1, <3>2
    <3> QED
      BY <3>1, <3>2
  <2> QED
    BY <1>1, <1>2, <1>12, <2>2 DEF Backed
<1>14. samples'[d] + Cardinality(Sampling(d)') <= answers'[d]
  BY <1>1, <1>2 DEF SampledRow
<1> QED
  BY <1>4, <1>13, <1>14 DEF SampledRow

\* A deletion turns the task that held the lease loose, the others were.
LEMMA EraseSamples ==
    ASSUME TypeOK, TypeOK', Core, TasksOK, NEW d \in Rows, SampledRow(d),
           NEW m \in Messages, EraseMessage(m),
           UNCHANGED <<tasks, faults, answers>>
    PROVE  SampledRow(d)'
<1>1. WorkOn(d)' = WorkOn(d) /\ Sampling(d)' = Sampling(d) /\ UNCHANGED samples /\ faults <= faults'
  BY DEF WorkOn, Sampling, Unfinished, EraseMessage, TypeOK
<1>2. d[1] \in Messages /\ stored \in [Messages -> {"no", "yes", "deleted"}]
  BY DEF TypeOK, DeliveryStoreTypeOK, Rows
<1>3. CASE d[1] = m
  <2>1. stored'[d[1]] # "yes"
    BY <1>2, <1>3 DEF EraseMessage
  <2> QED
    BY <1>1, <2>1, SampleKept
<1>4. CASE d[1] # m
  <2>1. LeaseOn(d)' = LeaseOn(d) /\ stored'[d[1]] = stored[d[1]]
    BY <1>2, <1>4 DEF EraseMessage, LeaseOn
  <2> QED
    BY <1>1, <2>1, SampleKept
<1> QED
  BY <1>3, <1>4

\* A message that arrives has been worked on by nobody.
LEMMA ReceiveSamples ==
    ASSUME TypeOK, TypeOK', Core, TasksOK, NEW d \in Rows, SampledRow(d),
           NEW w \in Workers, NEW m \in Messages, Receive(w, m)
    PROVE  SampledRow(d)'
<1>1. /\ UNCHANGED <<tasks, samples, answers, faults>>
      /\ stored[m] = "no" /\ stored' = [stored EXCEPT ![m] = "yes"]
  BY DEF Receive, InsertMessage, channelVars, NoFault
<1>2. WorkOn(d)' = WorkOn(d) /\ Sampling(d)' = Sampling(d) /\ faults <= faults'
  BY <1>1 DEF WorkOn, Sampling, Unfinished, TypeOK
<1>3. d[1] \in Messages /\ stored \in [Messages -> {"no", "yes", "deleted"}]
  BY DEF TypeOK, DeliveryStoreTypeOK, Rows
<1>4. CASE d[1] = m
  <2>1. WorkOn(d) = {}
    BY <1>1, <1>4 DEF WorkOn, TasksOK
  <2>2. LeaseOn(d)' \in Tokens \cup {NoToken}
    BY DEF LeaseOn, TypeOK, DeliveryStoreTypeOK, RowType
  <2> QED
    BY <1>1, <1>2, <2>1, <2>2, SampleKept
<1>5. CASE d[1] # m
  <2>1. LeaseOn(d)' = LeaseOn(d) /\ stored'[d[1]] = stored[d[1]]
    BY <1>1, <1>3, <1>5 DEF Receive, InsertMessage, LeaseOn
  <2> QED
    BY <1>1, <1>2, <2>1, SampleKept
<1> QED
  BY <1>4, <1>5

\* The intake, the clock and deletions.
LEMMA OutsideSamples ==
    ASSUME TypeOK, TypeOK', Core, TasksOK, NEW d \in Rows, SampledRow(d),
           (\E w \in Workers, m \in Messages : IntakeStep(w, m)) \/ ClockStep \/ DeletionStep
    PROVE  SampledRow(d)'
<1> USE DEF deliveryVars, channelVars, workerVars
<1>1. ASSUME UNCHANGED <<tasks, stored, samples, answers>>, LeaseOn(d)' = LeaseOn(d),
             faults <= faults'
      PROVE  SampledRow(d)'
  <2>1. WorkOn(d)' = WorkOn(d) /\ Sampling(d)' = Sampling(d)
    BY <1>1 DEF WorkOn, Sampling, Unfinished
  <2> QED
    BY <1>1, <2>1, SampleKept
<1>2. CASE \E w \in Workers, m \in Messages : Receive(w, m)
  BY <1>2, ReceiveSamples
<1>3. CASE \E w \in Workers, m \in Messages : Notify(w, m)
  BY <1>1, <1>3 DEF Notify, NoFault, LeaseOn, TypeOK
<1>4. CASE LeaseLapses(d)
  BY <1>4, LapseSamples
<1>5. CASE \E e \in Rows \ {d} : LeaseLapses(e)
  <2>1. delivery'[d] = delivery[d] /\ faults <= faults'
    BY <1>5 DEF LeaseLapses, LeaseRunsOut, Fault, NoFault, TypeOK, DeliveryStoreTypeOK
  <2> QED
    BY <1>1, <1>5, <2>1 DEF LeaseLapses, LeaseRunsOut, LeaseOn
<1>6. CASE \E e \in Rows : RetryDue(e)
  <2>1. LeaseOn(d)' = LeaseOn(d)
    <3>1. delivery \in [Rows -> RowType] /\ delivery[d] \in RowType
      BY DEF TypeOK, DeliveryStoreTypeOK
    <3>2. PICK e \in Rows : delivery' = [delivery EXCEPT ![e].due = TRUE]
      BY <1>6 DEF RetryDue, RetryComesDue
    <3> QED
      BY <3>1, <3>2 DEF LeaseOn, RowType
  <2> QED
    BY <1>1, <1>6, <2>1 DEF RetryDue, RetryComesDue, NoFault, TypeOK
<1>7. CASE \E m \in Messages : GrowsOld(m)
  BY <1>1, <1>7 DEF GrowsOld, NoFault, LeaseOn, TypeOK
<1>8. CASE \E m \in Messages : OperatorDeletes(m) \/ RetentionDeletes(m)
  BY <1>8, EraseSamples DEF OperatorDeletes, RetentionDeletes, NoFault
<1> QED
  BY <1>2, <1>3, <1>4, <1>5, <1>6, <1>7, <1>8 DEF IntakeStep, ClockStep, DeletionStep

\* Every step accounts for the samples.
LEMMA StepSamples ==
    ASSUME TypeOK, TypeOK', Core, TasksOK, SamplesOK, [Next]_vars
    PROVE  SamplesOK'
<1>1. SamplesOK <=> \A d \in Rows : SampledRow(d)
  BY DEF SamplesOK, SampledRow
<1>2. ASSUME NEW d \in Rows
      PROVE  SampledRow(d)'
  <2>1. SampledRow(d)
    BY <1>1
  <2>2. CASE UNCHANGED vars
    BY <2>1, <2>2 DEF vars, deliveryVars, channelVars, SampledRow, Backed, Sampling, WorkOn,
                      Unfinished, LeaseOn
  <2>3. CASE \E w \in Workers : WorkerStep(w) \/ WorkerFault(w)
    BY <2>1, <2>3, WorkerShapes, WorkerSamples
  <2>4. CASE \E t \in tasks : TaskStep(t) \/ TaskFails(t)
    BY <2>1, <2>4, TaskShapes, TaskSamples
  <2> QED
    BY <2>1, <2>2, <2>3, <2>4, OutsideSamples DEF Next
<1> QED
  BY <1>2 DEF SamplesOK, SampledRow

(***************************************************************************)
(* Without faults                                                          *)
(***************************************************************************)
Calm == LeasesAreHeld /\ TasksHoldLeases /\ OneTaskPerRow /\ AcceptedIsKnown

\* OnceWithoutFaults, but for its premise.
AcceptedOnce ==
    \A d \in Rows :
        /\ accepted[d] <= 1
        /\ accepted[d] = 1 => delivery[d].state \in {"in_flight", "succeeded", "absent"}

\* A task has successors, so what is held stays held.
LEMMA FromHeld ==
    ASSUME NEW all \in SUBSET TaskType, From(all), NEW d,
           \E t \in all : t.row = d /\ t.token = delivery'[d].token /\ t.point \in Unfinished
    PROVE  Held(d)'
<1>1. PICK t \in all : t.row = d /\ t.token = delivery'[d].token /\ t.point \in Unfinished
  OBVIOUS
<1>2. PICK u \in tasks' : Grown(u, t)
  BY DEF From
<1>3. u.row = t.row /\ u.token = t.token /\ u.point \in Unfinished
  BY <1>1, <1>2, GrownFacts DEF SameClaim
<1> QED
  BY <1>1, <1>3 DEF Held, Unfinished

\* While nobody's lease runs out, only waiting rows are claimed.
LEMMA CalmRows ==
    ASSUME TypeOK, Core, LeasesAreHeld
    PROVE  /\ Expired = {}
           /\ \A d \in Claimable : delivery[d].state \in Waiting /\ stored[d[1]] = "yes"
                                    /\ delivery[d].token = NoToken
<1>1. Expired = {}
  BY DEF Expired, LeasesAreHeld
<1> QED
  BY <1>1 DEF Claimable, Core, NoOrphans, LeasesOK, Waiting

\* A claim takes rows nobody works on and no channel has taken.
LEMMA ClaimCalm ==
    ASSUME TypeOK, Core, TasksOK, Calm, AcceptedOnce, NEW w \in Workers, NEW batch, NEW token,
           ClaimShape(w, batch, token), UNCHANGED <<stored, accepted>>
    PROVE  Calm' /\ AcceptedOnce'
<1> DEFINE all == tasks \cup Claims(w, batch, token)
<1>1. /\ all \in SUBSET TaskType /\ From(all) /\ Distinct(all)
      /\ token \in Tokens /\ token # NoToken /\ \A t \in tasks : t.token # token
      /\ batch \subseteq Claimable /\ batch \subseteq Rows
  BY ClaimsDistinct DEF ClaimShape, FreshTokens, Claimable, Expired
<1>2. \A c \in Claims(w, batch, token) :
        c.token = token /\ c.row \in batch /\ c.point = "queued"
  BY DEF Claims, ClaimOf
<1>3. \A d \in batch : ClaimOf(w, d, token) \in Claims(w, batch, token)
                       /\ ClaimOf(w, d, token).row = d
                       /\ ClaimOf(w, d, token).token = token
                       /\ ClaimOf(w, d, token).point = "queued"
  BY DEF Claims, ClaimOf
<1>4. \A d \in batch : delivery[d].state \in Waiting /\ stored[d[1]] = "yes"
                       /\ delivery[d].token = NoToken
  BY <1>1, CalmRows DEF Calm
<1>5. \A d \in Rows :
        /\ d \in batch => /\ delivery'[d].state = "in_flight"
                          /\ delivery'[d].token = token
                          /\ delivery'[d].live
        /\ d \notin batch => delivery'[d] = delivery[d]
  <2>1. Expired = {} /\ \A d \in Rows : delivery[d] \in RowType
    BY CalmRows DEF Calm, TypeOK, DeliveryStoreTypeOK
  <2> QED
    BY <2>1 DEF ClaimShape, Leased, RowType
<1>6. \A t \in tasks : t.point \in Unfinished => t.row \notin batch
  BY <1>4 DEF Calm, TasksHoldLeases, HoldsLease, Waiting
<1>7. \A u \in tasks' : \E t \in all :
        /\ u.row = t.row /\ u.token = t.token /\ u.verdict = t.verdict
        /\ u.point \in Unfinished <=> t.point \in Unfinished
        /\ u.point = "complete" => t.point = "complete"
        /\ u.point \in Unfinished \ {"complete"} => t.point \in Unfinished \ {"complete"}
  <2> HIDE DEF all
  <2>1. ASSUME NEW u \in tasks'
        PROVE  \E t \in all :
                 /\ u.row = t.row /\ u.token = t.token /\ u.verdict = t.verdict
                 /\ u.point \in Unfinished <=> t.point \in Unfinished
                 /\ u.point = "complete" => t.point = "complete"
                 /\ u.point \in Unfinished \ {"complete"} => t.point \in Unfinished \ {"complete"}
    <3>1. PICK t \in all : Grown(u, t)
      BY <1>1 DEF From
    <3>2. t \in TaskType
      BY <1>1
    <3> QED
      BY <3>1, <3>2, GrownFacts DEF SameClaim
  <2> QED
    BY <2>1
<1>8. LeasesAreHeld'
  <2>1. ASSUME NEW d \in Rows, delivery'[d].state = "in_flight"
        PROVE  delivery'[d].live /\ Held(d)'
    <3>1. CASE d \in batch
      <4>1. \E t \in all : t.row = d /\ t.token = delivery'[d].token /\ t.point \in Unfinished
        BY <1>3, <1>5, <3>1 DEF Unfinished
      <4> HIDE DEF all
      <4> QED
        BY <1>1, <1>5, <3>1, <4>1, FromHeld
    <3>2. CASE d \notin batch
      <4>1. delivery'[d] = delivery[d] /\ delivery[d].live /\ Held(d)
        BY <1>5, <2>1, <3>2 DEF Calm, LeasesAreHeld
      <4>2. \E t \in all : t.row = d /\ t.token = delivery'[d].token /\ t.point \in Unfinished
        BY <4>1 DEF Held
      <4> HIDE DEF all
      <4> QED
        BY <1>1, <4>1, <4>2, FromHeld
    <3> QED
      BY <3>1, <3>2
  <2> QED
    BY <2>1 DEF LeasesAreHeld
<1>9. TasksHoldLeases'
  <2>1. ASSUME NEW u \in tasks', u.point \in Unfinished
        PROVE  HoldsLease(u.row, u.token)' \/ stored'[u.row[1]] # "yes"
    <3>1. PICK t \in all : u.row = t.row /\ u.token = t.token /\ t.point \in Unfinished
      BY <1>7, <2>1
    <3>2. t.row \in Rows
      BY <1>1 DEF TaskType
    <3>3. CASE t \in tasks
      BY <1>5, <1>6, <3>1, <3>2, <3>3 DEF Calm, TasksHoldLeases, HoldsLease
    <3>4. CASE t \in Claims(w, batch, token)
      BY <1>2, <1>5, <3>1, <3>2, <3>4 DEF HoldsLease
    <3> QED
      BY <3>3, <3>4
  <2> QED
    BY <2>1 DEF TasksHoldLeases, Unfinished
<1>10. OneTaskPerRow'
  <2>1. ASSUME NEW u \in tasks', NEW v \in tasks', u.row = v.row,
               u.point \in Unfinished, v.point \in Unfinished
        PROVE  u = v
    <3>1. PICK t \in all : u.row = t.row /\ u.token = t.token /\ t.point \in Unfinished
      BY <1>7, <2>1
    <3>2. PICK x \in all : v.row = x.row /\ v.token = x.token /\ x.point \in Unfinished
      BY <1>7, <2>1
    <3>3. t.token = x.token
      BY <1>2, <1>6, <2>1, <3>1, <3>2 DEF Calm, OneTaskPerRow
    <3> QED
      BY <1>1, <2>1, <3>1, <3>2, <3>3 DEF From, Distinct
  <2> QED
    BY <2>1 DEF OneTaskPerRow, Unfinished
<1>11. \A d \in batch : accepted[d] = 0
  BY <1>1, <1>4 DEF AcceptedOnce, Waiting, TypeOK
<1>12. AcceptedIsKnown'
  <2>1. ASSUME NEW u \in tasks'
        PROVE  /\ u.point \in Unfinished \ {"complete"} => accepted[u.row] = 0
               /\ u.point = "complete" /\ accepted[u.row] > 0 => u.verdict = "succeeded"
    BY <1>2, <1>7, <1>11 DEF Calm, AcceptedIsKnown
  <2> QED
    BY <2>1 DEF Calm, AcceptedIsKnown, Unfinished
<1>13. AcceptedOnce'
  BY <1>5 DEF AcceptedOnce
<1> QED
  BY <1>8, <1>9, <1>10, <1>12, <1>13 DEF Calm

\* Rows and tasks that are at most spawned or, when finished, joined.
LEMMA FromCalm ==
    ASSUME TypeOK, TasksOK, Calm, AcceptedOnce, NEW all \in SUBSET tasks, From(all),
           \A t \in tasks : t.point \in Unfinished => t \in all,
           UNCHANGED <<stored, delivery, accepted>>
    PROVE  Calm' /\ AcceptedOnce'
<1>1. all \in SUBSET TaskType /\ Distinct(all)
  BY DEF TypeOK, TasksOK, Distinct
<1>2. ASSUME NEW u \in tasks'
      PROVE  \E t \in all :
        /\ u.row = t.row /\ u.token = t.token /\ u.verdict = t.verdict
        /\ u.point \in Unfinished <=> t.point \in Unfinished
        /\ u.point = "complete" => t.point = "complete"
        /\ u.point \in Unfinished \ {"complete"} => t.point \in Unfinished \ {"complete"}
  <2>1. PICK t \in all : Grown(u, t)
    BY DEF From
  <2>2. t \in TaskType
    BY <1>1
  <2> QED
    BY <2>1, <2>2, GrownFacts DEF SameClaim
<1>3. LeasesAreHeld'
  <2>1. ASSUME NEW d \in Rows, delivery[d].state = "in_flight"
        PROVE  delivery[d].live /\ Held(d)'
    <3>1. \E t \in all : t.row = d /\ t.token = delivery[d].token /\ t.point \in Unfinished
      BY <2>1 DEF Calm, LeasesAreHeld, Held
    <3> QED
      BY <1>1, <2>1, <3>1, FromHeld DEF Calm, LeasesAreHeld
  <2> QED
    BY <2>1 DEF LeasesAreHeld
<1>4. TasksHoldLeases'
  BY <1>2 DEF Calm, TasksHoldLeases, HoldsLease, Unfinished
<1>5. OneTaskPerRow'
  <2>1. ASSUME NEW u \in tasks', NEW v \in tasks', u.row = v.row,
               u.point \in Unfinished, v.point \in Unfinished
        PROVE  u = v
    <3>1. PICK t \in all : u.row = t.row /\ u.token = t.token /\ t.point \in Unfinished
      BY <1>2, <2>1
    <3>2. PICK x \in all : v.row = x.row /\ v.token = x.token /\ x.point \in Unfinished
      BY <1>2, <2>1
    <3>3. t = x
      BY <2>1, <3>1, <3>2 DEF Calm, OneTaskPerRow
    <3> QED
      BY <1>1, <2>1, <3>1, <3>2, <3>3 DEF From, Distinct
  <2> QED
    BY <2>1 DEF OneTaskPerRow, Unfinished
<1>6. AcceptedIsKnown'
  BY <1>2 DEF Calm, AcceptedIsKnown, Unfinished
<1>7. AcceptedOnce'
  BY DEF AcceptedOnce
<1> QED
  BY <1>3, <1>4, <1>5, <1>6, <1>7 DEF Calm

\* The steps of a worker.
LEMMA WorkerCalm ==
    ASSUME TypeOK, TypeOK', Core, TasksOK, Calm, AcceptedOnce,
           NEW w \in Workers, WorkerShape(w), faults' = 0
    PROVE  Calm' /\ AcceptedOnce'
<1>1. UNCHANGED <<stored, accepted>>
  BY DEF WorkerShape, channelVars
<1>2. CASE StartShape(w)
  <2>1. \A d \in Rows : delivery'[d] = delivery[d]
    BY <1>2, CalmRows DEF StartShape, RecoverExpired, Calm
  <2>2. delivery' = delivery
    BY <2>1 DEF TypeOK, DeliveryStoreTypeOK
  <2> QED
    BY <1>1, <1>2, <2>2, FromSame, FromCalm DEF StartShape
<1>3. CASE IdleShape(w)
  BY <1>1, <1>3, FromSame, FromCalm DEF IdleShape
<1>4. ASSUME NEW t, JoinShape(w, t)
      PROVE  Calm' /\ AcceptedOnce'
  BY <1>1, <1>4, FromCalm DEF JoinShape
<1>5. ~CrashShape(w)
  BY DEF CrashShape, TypeOK
<1> QED
  BY <1>1, <1>2, <1>3, <1>4, <1>5, ClaimCalm DEF WorkerShape

\* The steps of a task: it has its row for itself, so what changes concerns no
\* other task.
LEMMA TaskCalm ==
    ASSUME TypeOK, TypeOK', Core, TasksOK, Calm, AcceptedOnce,
           NEW t \in tasks, TaskShape(t), faults = 0, faults' = 0
    PROVE  Calm' /\ AcceptedOnce'
<1>1. PICK new : /\ Moves(t, new)
                 /\ \/ BeginShape(t, new) \/ GiveUpShape(t, new) \/ AnswerShape(t, new)
                    \/ CompleteShape(t, new)
  BY DEF TaskShape, FailShape
<1>2. /\ new.row = t.row /\ new.token = t.token /\ UNCHANGED stored
      /\ t.row \in Rows /\ stored[t.row[1]] # "no" /\ t.point \in Unfinished
      /\ \A u : u \in tasks' <=> (u \in tasks /\ u # t) \/ u = new
  BY <1>1 DEF Moves, SameClaim, TypeOK, TaskType, TasksOK, BeginShape, GiveUpShape, AnswerShape,
              CompleteShape, Unfinished
<1>3. \A u \in tasks : u.point \in Unfinished /\ u.row = t.row => u = t
  BY <1>2 DEF Calm, OneTaskPerRow
<1>4. OneTaskPerRow'
  BY <1>2, <1>3 DEF Calm, OneTaskPerRow, Unfinished
<1>5. accepted \in [Rows -> Nat] /\ delivery \in [Rows -> RowType]
  BY DEF TypeOK, DeliveryStoreTypeOK
<1>6. CASE BeginShape(t, new) \/ GiveUpShape(t, new) \/ AnswerShape(t, new)
  <2>1. UNCHANGED delivery /\ new.point \in Unfinished
        /\ t.point \in Unfinished \ {"complete"}
    BY <1>6 DEF BeginShape, GiveUpShape, AnswerShape, Unfinished
  <2>2. \A d \in Rows : Held(d) => Held(d)'
    BY <1>2, <2>1 DEF Held, Unfinished
  <2>3. LeasesAreHeld'
    BY <2>1, <2>2 DEF Calm, LeasesAreHeld
  <2>4. TasksHoldLeases'
    BY <1>2, <2>1 DEF Calm, TasksHoldLeases, HoldsLease, Unfinished
  <2>5. accepted[t.row] = 0
    BY <2>1 DEF Calm, AcceptedIsKnown
  <2>6. /\ \A d \in Rows : d # t.row => accepted'[d] = accepted[d]
        /\ accepted'[t.row] \in {0, 1}
        /\ accepted'[t.row] = 1 => new.point = "complete" /\ new.verdict = "succeeded"
    BY <1>2, <1>5, <1>6, <2>5 DEF BeginShape, GiveUpShape, AnswerShape
  <2>7. AcceptedIsKnown'
    <3>1. ASSUME NEW u \in tasks'
          PROVE  /\ u.point \in Unfinished \ {"complete"} => accepted'[u.row] = 0
                 /\ u.point = "complete" /\ accepted'[u.row] > 0 => u.verdict = "succeeded"
      <4>1. CASE u = new
        BY <1>2, <2>6, <4>1
      <4>2. CASE u # new /\ u.point \in Unfinished
        <5>1. u \in tasks /\ u.row # t.row /\ u.row \in Rows
          BY <1>2, <1>3, <4>2 DEF TypeOK, TaskType
        <5> QED
          BY <2>6, <5>1 DEF Calm, AcceptedIsKnown
      <4> QED
        BY <4>1, <4>2 DEF Unfinished
    <3>2. \A d \in Rows : stored[d[1]] = "no" => accepted'[d] = 0
      BY <1>2, <2>6 DEF Calm, AcceptedIsKnown
    <3> QED
      BY <1>2, <3>1, <3>2 DEF AcceptedIsKnown, Unfinished
  <2>8. delivery[t.row].state \in {"in_flight", "absent"}
    <3>1. HoldsLease(t.row, t.token) \/ stored[t.row[1]] # "yes"
      BY <1>2 DEF Calm, TasksHoldLeases
    <3> QED
      BY <1>2, <3>1 DEF HoldsLease, Core, NoOrphans
  <2>9. AcceptedOnce'
    BY <2>1, <2>6, <2>8 DEF AcceptedOnce
  <2> QED
    BY <1>4, <2>3, <2>4, <2>7, <2>9 DEF Calm
<1>7. CASE CompleteShape(t, new)
  <2>1. UNCHANGED accepted /\ new.point = "ok" /\ t.point = "complete"
    BY <1>7 DEF CompleteShape
  <2>2. \A d \in Rows : d # t.row => delivery'[d] = delivery[d]
    BY <1>2, <1>5, <1>7 DEF CompleteShape
  <2>3. /\ HoldsLease(t.row, t.token) => delivery'[t.row].state = t.verdict
        /\ ~HoldsLease(t.row, t.token) => delivery'[t.row] = delivery[t.row]
    BY <1>2, <1>5, <1>7 DEF CompleteShape, Outcome, RowType
  <2>4. t.verdict # "in_flight"
    BY DEF TypeOK, TaskType, Resolved
  <2>5. ASSUME NEW d \in Rows, delivery'[d].state = "in_flight"
        PROVE  delivery'[d].live /\ Held(d)'
    <3>1. delivery'[d] = delivery[d] /\ (d = t.row => ~HoldsLease(t.row, t.token))
      BY <2>2, <2>3, <2>4, <2>5
    <3>2. delivery[d].live /\ Held(d)
      BY <2>5, <3>1 DEF Calm, LeasesAreHeld
    <3>3. PICK u \in tasks : u.row = d /\ u.token = delivery[d].token /\ u.point \in Unfinished
      BY <3>2 DEF Held
    <3>4. u # t
      BY <2>5, <3>1, <3>3 DEF HoldsLease
    <3> QED
      BY <1>2, <3>1, <3>2, <3>3, <3>4 DEF Held, Unfinished
  <2>6. TasksHoldLeases'
    <3>1. ASSUME NEW u \in tasks', u.point \in Unfinished
          PROVE  HoldsLease(u.row, u.token)' \/ stored'[u.row[1]] # "yes"
      <4>1. u \in tasks /\ u.row # t.row /\ u.row \in Rows
        BY <1>2, <1>3, <2>1, <3>1 DEF Unfinished, TypeOK, TaskType
      <4> QED
        BY <1>2, <2>2, <3>1, <4>1 DEF Calm, TasksHoldLeases, HoldsLease
    <3> QED
      BY <3>1 DEF TasksHoldLeases, Unfinished
  <2>7. AcceptedIsKnown'
    BY <1>2, <2>1 DEF Calm, AcceptedIsKnown, Unfinished
  <2>8. AcceptedOnce'
    <3>1. ASSUME NEW d \in Rows, accepted[d] = 1
          PROVE  delivery'[d].state \in {"in_flight", "succeeded", "absent"}
      BY <2>1, <2>2, <2>3, <3>1 DEF AcceptedOnce, Calm, AcceptedIsKnown
    <3> QED
      BY <2>1, <3>1 DEF AcceptedOnce
  <2>9. LeasesAreHeld'
    BY <2>5 DEF LeasesAreHeld
  <2> QED
    BY <1>4, <2>6, <2>7, <2>8, <2>9 DEF Calm
<1> QED
  BY <1>1, <1>6, <1>7

\* The intake, the clock and deletions: a lease under which a task works does
\* not run out without a fault.
LEMMA OutsideCalm ==
    ASSUME TypeOK, TypeOK', Core, TasksOK, Calm, AcceptedOnce,
           (\E w \in Workers, m \in Messages : IntakeStep(w, m)) \/ ClockStep \/ DeletionStep,
           faults' = 0
    PROVE  Calm' /\ AcceptedOnce'
<1> USE DEF deliveryVars
<1>1. /\ delivery \in [Rows -> RowType] /\ \A d \in Rows : d[1] \in Messages
      /\ stored \in [Messages -> {"no", "yes", "deleted"}]
      /\ \A t \in tasks : t.row \in Rows
  BY DEF TypeOK, DeliveryStoreTypeOK, Rows, TaskType
<1>2. UNCHANGED <<tasks, accepted>>
  BY OutsideMessages DEF channelVars
<1>3. OneTaskPerRow'
  BY <1>2 DEF Calm, OneTaskPerRow, Unfinished
<1>4. ASSUME NEW M \in SUBSET Messages,
             \A m \in M : stored[m] = "no" \/ stored'[m] = "deleted",
             \A m \in Messages \ M : stored'[m] = stored[m],
             \A d \in Rows : d[1] \notin M =>
               /\ delivery'[d].state = delivery[d].state
               /\ delivery'[d].token = delivery[d].token
               /\ delivery'[d].state = "in_flight" => delivery'[d].live = delivery[d].live,
             \A d \in Rows : d[1] \in M => delivery'[d].state \in {"absent", "pending"},
             \A d \in Rows : d[1] \in M /\ delivery'[d].state = "pending" => stored[d[1]] = "no"
      PROVE  Calm' /\ AcceptedOnce'
  <2>1. LeasesAreHeld'
    <3>1. ASSUME NEW d \in Rows, delivery'[d].state = "in_flight"
          PROVE  delivery'[d].live /\ Held(d)'
      <4>1. d[1] \notin M
        BY <1>4, <3>1
      <4> QED
        BY <1>2, <1>4, <3>1, <4>1 DEF Calm, LeasesAreHeld, Held, Unfinished
    <3> QED
      BY <3>1 DEF LeasesAreHeld
  <2>2. TasksHoldLeases'
    <3>1. ASSUME NEW t \in tasks, t.point \in Unfinished
          PROVE  HoldsLease(t.row, t.token)' \/ stored'[t.row[1]] # "yes"
      <4>1. CASE t.row[1] \in M
        BY <1>4, <4>1 DEF TasksOK
      <4>2. CASE t.row[1] \notin M
        BY <1>1, <1>4, <3>1, <4>2 DEF Calm, TasksHoldLeases, HoldsLease
      <4> QED
        BY <4>1, <4>2
    <3> QED
      BY <1>2, <3>1 DEF TasksHoldLeases, Unfinished
  <2>3. AcceptedIsKnown'
    <3>1. \A d \in Rows : stored'[d[1]] = "no" => stored[d[1]] = "no"
      BY <1>1, <1>4
    <3> QED
      BY <1>2, <3>1 DEF Calm, AcceptedIsKnown, Unfinished
  <2>4. AcceptedOnce'
    <3>1. ASSUME NEW d \in Rows, accepted[d] = 1
          PROVE  delivery'[d].state \in {"in_flight", "succeeded", "absent"}
      BY <1>4, <3>1 DEF AcceptedOnce, Calm, AcceptedIsKnown
    <3> QED
      BY <1>2, <3>1 DEF AcceptedOnce
  <2> QED
    BY <1>3, <2>1, <2>2, <2>3, <2>4 DEF Calm
<1>5. ASSUME UNCHANGED stored,
             \A d \in Rows : /\ delivery'[d].state = delivery[d].state
                             /\ delivery'[d].token = delivery[d].token
                             /\ delivery'[d].state = "in_flight" =>
                                  delivery'[d].live = delivery[d].live
      PROVE  Calm' /\ AcceptedOnce'
  <2>1. {} \in SUBSET Messages
    OBVIOUS
  <2> QED
    BY <1>4, <1>5, <2>1
<1>6. ASSUME NEW w \in Workers, NEW m \in Messages, Receive(w, m)
      PROVE  Calm' /\ AcceptedOnce'
  <2>1. /\ stored[m] = "no" /\ stored' = [stored EXCEPT ![m] = "yes"]
        /\ \A d \in Rows : d[1] # m => delivery'[d] = delivery[d]
        /\ \A d \in Rows : d[1] = m => delivery'[d].state = "pending" \/ delivery'[d] = delivery[d]
    BY <1>6 DEF Receive, InsertMessage, NoRow
  <2>2. \A d \in Rows : d[1] = m => delivery'[d].state \in {"absent", "pending"}
    BY <2>1 DEF Core, NoOrphans
  <2>3. \A n \in Messages \ {m} : stored'[n] = stored[n]
    BY <1>1, <2>1
  <2>4. {m} \in SUBSET Messages
    OBVIOUS
  <2> QED
    BY <1>4, <2>1, <2>2, <2>3, <2>4
<1>7. ASSUME NEW m \in Messages, OperatorDeletes(m) \/ RetentionDeletes(m)
      PROVE  Calm' /\ AcceptedOnce'
  <2>1. /\ stored' = [stored EXCEPT ![m] = "deleted"]
        /\ \A d \in Rows : d[1] # m => delivery'[d] = delivery[d]
        /\ \A d \in Rows : d[1] = m => delivery'[d].state = "absent"
    BY <1>7 DEF OperatorDeletes, RetentionDeletes, EraseMessage, NoRow
  <2>2. stored'[m] = "deleted" /\ \A n \in Messages \ {m} : stored'[n] = stored[n]
    BY <1>1, <2>1
  <2>3. {m} \in SUBSET Messages
    OBVIOUS
  <2> QED
    BY <1>4, <2>1, <2>2, <2>3
<1>8. ASSUME NEW d \in Rows, LeaseLapses(d)
      PROVE  FALSE
  BY <1>8 DEF LeaseLapses, LeaseRunsOut, Calm, LeasesAreHeld, Fault, TypeOK
<1>9. ASSUME NEW d \in Rows, RetryDue(d)
      PROVE  Calm' /\ AcceptedOnce'
  <2>1. UNCHANGED stored /\ delivery' = [delivery EXCEPT ![d].due = TRUE]
    BY <1>9 DEF RetryDue, RetryComesDue
  <2> QED
    BY <1>1, <1>5, <2>1 DEF RowType
<1>10. CASE \E w \in Workers, m \in Messages : Notify(w, m)
  BY <1>5, <1>10 DEF Notify
<1>11. CASE \E m \in Messages : GrowsOld(m)
  BY <1>5, <1>11 DEF GrowsOld
<1> QED
  BY <1>6, <1>7, <1>8, <1>9, <1>10, <1>11 DEF IntakeStep, ClockStep, DeletionStep

\* Without faults so far, every step keeps the calm.
LEMMA StepCalm ==
    ASSUME TypeOK, TypeOK', Core, TasksOK, Undisturbed, OnceWithoutFaults, [Next]_vars
    PROVE  Undisturbed' /\ OnceWithoutFaults'
<1>1. /\ Undisturbed <=> (faults = 0 => Calm)
      /\ OnceWithoutFaults <=> (faults = 0 => AcceptedOnce)
  BY DEF Undisturbed, Calm, OnceWithoutFaults, AcceptedOnce
<1>2. faults \in Nat /\ faults' >= faults
  <2>5. faults \in Nat
    BY DEF TypeOK
  <2>1. CASE \E w \in Workers : WorkerStep(w) \/ WorkerFault(w)
    <3>1. PICK w \in Workers : WorkerShape(w)
      BY <2>1, WorkerShapes
    <3>2. faults' = faults \/ faults' = faults + 1
      BY <3>1 DEF WorkerShape, ClaimShape, StartShape, JoinShape, CrashShape, IdleShape
    <3> QED
      BY <2>5, <3>2
  <2>2. CASE \E t \in tasks : TaskStep(t) \/ TaskFails(t)
    BY <2>2, TaskShapes DEF TypeOK, TaskShape, BeginShape, GiveUpShape, AnswerShape,
                            CompleteShape, FailShape
  <2>3. CASE (\E w \in Workers, m \in Messages : IntakeStep(w, m)) \/ ClockStep \/ DeletionStep
    BY <2>3 DEF IntakeStep, ClockStep, DeletionStep, Receive, Notify, LeaseLapses, RetryDue,
                GrowsOld, OperatorDeletes, RetentionDeletes, Fault, NoFault, TypeOK
  <2>4. CASE UNCHANGED vars
    BY <2>4 DEF vars, TypeOK
  <2> QED
    BY <2>1, <2>2, <2>3, <2>4 DEF Next
<1>3. ASSUME faults' = 0
      PROVE  Calm' /\ AcceptedOnce'
  <2>1. faults = 0 /\ Calm /\ AcceptedOnce
    BY <1>1, <1>2, <1>3
  <2>2. CASE UNCHANGED vars
    BY <2>1, <2>2 DEF vars, deliveryVars, channelVars, Calm, LeasesAreHeld, TasksHoldLeases,
                OneTaskPerRow, AcceptedIsKnown, AcceptedOnce, Held, HoldsLease, Unfinished
  <2>3. CASE \E w \in Workers : WorkerStep(w) \/ WorkerFault(w)
    BY <1>3, <2>1, <2>3, WorkerShapes, WorkerCalm
  <2>4. CASE \E t \in tasks : TaskStep(t) \/ TaskFails(t)
    BY <1>3, <2>1, <2>4, TaskShapes, TaskCalm
  <2> QED
    BY <1>3, <2>1, <2>2, <2>3, <2>4, OutsideCalm DEF Next
<1> QED
  BY <1>3 DEF Undisturbed, Calm, OnceWithoutFaults, AcceptedOnce

(***************************************************************************)
(* Wakeups                                                                 *)
(***************************************************************************)
\* A worker about to sleep, the only run so far, knows every waiting delivery
\* or will be notified of it.
Watched ==
    \A w \in Workers : pc[w] \in {"arm", "wait"} /\ Alone(w) =>
        \A d \in Scheduled : d \in alarm[w] \/ permit[w] \/ d[1] \in notices[w]

\* A worker that sleeps alone has no task, so nothing is in flight unless
\* something failed.
LEMMA SleepersAreIdle ==
    ASSUME TypeOK, TasksOK, Undisturbed, Watched
    PROVE  NoMissedWakeup
<1>1. ASSUME NEW w \in Workers, pc[w] \in {"arm", "wait"}, Alone(w),
             NEW d \in Rows, delivery[d].state = "in_flight"
      PROVE  faults > 0
  <2>1. tasks = {}
    BY <1>1 DEF TasksOK, Alone, TypeOK, TaskType
  <2>2. ~Held(d)
    BY <2>1 DEF Held
  <2> QED
    BY <1>1, <2>2 DEF Undisturbed, LeasesAreHeld, TypeOK
<1> QED
  BY <1>1 DEF NoMissedWakeup, Watched

\* Steps that make no further delivery wait.
LEMMA WatchedKept ==
    ASSUME TypeOK, Watched,
           \A w \in Workers : pc'[w] = "off" => pc[w] = "off",
           \A w \in Workers : pc'[w] \in {"arm", "wait"} /\ Alone(w)' =>
               /\ pc[w] \in {"arm", "wait"}
               /\ alarm[w] \subseteq alarm'[w] /\ notices[w] \subseteq notices'[w]
               /\ permit[w] => permit'[w]
               /\ Scheduled' \subseteq Scheduled
    PROVE  Watched'
<1>1. \A w \in Workers : Alone(w)' => Alone(w)
  BY DEF Alone
<1> QED
  BY <1>1 DEF Watched

\* The steps of a worker.
LEMMA WorkerWatched ==
    ASSUME TypeOK, Watched, NEW w \in Workers, WorkerStep(w) \/ WorkerFault(w)
    PROVE  Watched'
<1> USE DEF Goto, deliveryVars, channelVars
<1>1. /\ pc \in [Workers -> Points] /\ alarm \in [Workers -> SUBSET Rows]
      /\ permit \in [Workers -> BOOLEAN]
  BY DEF TypeOK
<1>2. \A v \in Workers : v # w => pc'[v] = pc[v]
  BY WorkerShapes DEF WorkerShape
<1>3. pc'[w] # "off" /\ \A v \in Workers \ {w} : ~Alone(v)'
  <2>1. pc'[w] # "off"
    BY <1>1 DEF WorkerStep, WorkerFault, Start, Drain, Drained, Join, ClaimMore, EndBatch,
                BackoffEnds, Schedule, Sleep, WakeNotified, WakeDeadline, SafetyScan, Wake,
                QueryFails, ClaimMoreFails, Crash
  <2> QED
    BY <2>1 DEF Alone
<1>4. CASE pc'[w] \notin {"arm", "wait"}
  BY <1>3, <1>4 DEF Watched
<1>5. CASE Schedule(w)
  <2>1. alarm'[w] = Scheduled /\ Scheduled' = Scheduled
    BY <1>1, <1>5 DEF Schedule, Scheduled
  <2> QED
    BY <1>3, <2>1 DEF Watched
<1>6. CASE Sleep(w)
  <2>1. /\ pc[w] = "arm" /\ UNCHANGED <<alarm, permit, notices>> /\ Scheduled' = Scheduled
    BY <1>6 DEF Sleep, Scheduled
  <2>2. \A v \in Workers : pc'[v] = "off" => pc[v] = "off"
    BY <1>2, <1>3
  <2> QED
    BY <1>3, <2>1, <2>2, WatchedKept
<1>7. Schedule(w) \/ Sleep(w) \/ pc'[w] \notin {"arm", "wait"}
  BY <1>1 DEF WorkerStep, WorkerFault, Start, Drain, Drained, Join, ClaimMore, EndBatch,
              BackoffEnds, WakeNotified, WakeDeadline, SafetyScan, Wake, QueryFails,
              ClaimMoreFails, Crash
<1> QED
  BY <1>4, <1>5, <1>6, <1>7

\* A task only runs while its worker is in a batch.
LEMMA TaskWatched ==
    ASSUME TypeOK, TasksOK, Watched, NEW t \in tasks, TaskShape(t)
    PROVE  Watched'
<1>1. UNCHANGED <<pc, alarm, permit, notices>>
  BY DEF TaskShape, Moves
<1>2. t.worker \in Workers /\ pc[t.worker] \in {"batch", "more"}
  BY DEF TypeOK, TaskType, TasksOK
<1>3. \A w \in Workers : pc'[w] \in {"arm", "wait"} => ~Alone(w)'
  BY <1>1, <1>2 DEF Alone
<1> QED
  BY <1>3 DEF Watched

\* A message is noticed by the run that received it, a notice becomes a permit.
LEMMA OutsideWatched ==
    ASSUME TypeOK, Watched,
           (\E w \in Workers, m \in Messages : IntakeStep(w, m)) \/ ClockStep \/ DeletionStep
    PROVE  Watched'
<1> USE DEF deliveryVars, workerVars
<1>1. /\ pc \in [Workers -> Points] /\ delivery \in [Rows -> RowType]
      /\ permit \in [Workers -> BOOLEAN] /\ notices \in [Workers -> SUBSET Messages]
  BY DEF TypeOK, DeliveryStoreTypeOK
<1>2. ASSUME UNCHANGED workerVars, \A d \in Rows : delivery'[d].state = delivery[d].state
                                                   \/ delivery'[d].state = "absent"
      PROVE  Watched'
  <2>1. Scheduled' \subseteq Scheduled
    BY <1>2 DEF Scheduled, Waiting
  <2> QED
    BY <1>2, <2>1, WatchedKept
<1>3. ASSUME NEW v \in Workers, NEW m \in Messages, Receive(v, m)
      PROVE  Watched'
  <2>1. UNCHANGED <<pc, alarm, permit>> /\ pc[v] # "off"
    BY <1>3 DEF Receive, Alive
  <2>2. SUFFICES ASSUME NEW w \in Workers, pc'[w] \in {"arm", "wait"}, Alone(w)',
                        NEW d \in Scheduled'
                 PROVE  d \in alarm'[w] \/ permit'[w] \/ d[1] \in notices'[w]
    BY DEF Watched
  <2>3. w = v /\ Alone(w) /\ d \in Rows
    BY <2>1, <2>2 DEF Alone, Scheduled
  <2>4. notices[w] \subseteq notices'[w]
    BY <1>1, <1>3 DEF Receive
  <2>5. CASE d[1] = m /\ d[2] \in ProfilesOf[v]
    BY <1>1, <1>3, <2>3, <2>5 DEF Receive
  <2>6. CASE ~(d[1] = m /\ d[2] \in ProfilesOf[v])
    <3>1. delivery'[d] = delivery[d]
      BY <1>3, <2>3, <2>6 DEF Receive, InsertMessage
    <3>2. d \in Scheduled
      BY <2>2, <3>1 DEF Scheduled, Waiting
    <3> QED
      BY <2>1, <2>2, <2>3, <2>4, <3>2 DEF Watched
  <2> QED
    BY <2>5, <2>6
<1>4. ASSUME NEW v \in Workers, NEW m \in Messages, Notify(v, m)
      PROVE  Watched'
  <2>1. UNCHANGED <<pc, alarm, delivery>> /\ Scheduled' = Scheduled
    BY <1>4 DEF Notify, Scheduled
  <2>2. SUFFICES ASSUME NEW w \in Workers, pc'[w] \in {"arm", "wait"}, Alone(w)',
                        NEW d \in Scheduled'
                 PROVE  d \in alarm'[w] \/ permit'[w] \/ d[1] \in notices'[w]
    BY DEF Watched
  <2>3. d \in alarm[w] \/ permit[w] \/ d[1] \in notices[w]
    BY <2>1, <2>2 DEF Watched, Alone
  <2>4. /\ w = v => permit'[w]
        /\ w # v => permit'[w] = permit[w] /\ notices'[w] = notices[w]
    BY <1>1, <1>4 DEF Notify
  <2> QED
    BY <2>1, <2>3, <2>4
<1>5. ASSUME NEW e \in Rows, LeaseLapses(e)
      PROVE  Watched'
  <2>1. delivery' = [delivery EXCEPT ![e].live = FALSE] /\ UNCHANGED workerVars
    BY <1>5 DEF LeaseLapses, LeaseRunsOut
  <2> QED
    BY <1>1, <1>2, <2>1 DEF RowType
<1>6. ASSUME NEW e \in Rows, RetryDue(e)
      PROVE  Watched'
  <2>1. delivery' = [delivery EXCEPT ![e].due = TRUE] /\ UNCHANGED workerVars
    BY <1>6 DEF RetryDue, RetryComesDue
  <2> QED
    BY <1>1, <1>2, <2>1 DEF RowType
<1>7. ASSUME NEW m \in Messages, GrowsOld(m)
      PROVE  Watched'
  BY <1>2, <1>7 DEF GrowsOld
<1>8. ASSUME NEW m \in Messages, OperatorDeletes(m) \/ RetentionDeletes(m)
      PROVE  Watched'
  BY <1>2, <1>8 DEF OperatorDeletes, RetentionDeletes, EraseMessage, NoRow
<1> QED
  BY <1>3, <1>4, <1>5, <1>6, <1>7, <1>8 DEF IntakeStep, ClockStep, DeletionStep

\* Every step keeps the deliveries watched.
LEMMA StepWatched ==
    ASSUME TypeOK, TasksOK, Watched, [Next]_vars
    PROVE  Watched'
<1>1. CASE UNCHANGED vars
  BY <1>1 DEF vars, deliveryVars, workerVars, Watched, Alone, Scheduled, Waiting
<1>2. CASE \E t \in tasks : TaskStep(t) \/ TaskFails(t)
  BY <1>2, TaskShapes, TaskWatched
<1> QED
  BY <1>1, <1>2, WorkerWatched, OutsideWatched DEF Next

(***************************************************************************)
(* Theorems about causes, samples, faults and wakeups                      *)
(***************************************************************************)
\* What SafetyInv says beyond IInv.
Beyond ==
    /\ TasksOK
    /\ CausesOK
    /\ GivenUpForCause
    /\ SamplesOK
    /\ Undisturbed
    /\ OnceWithoutFaults
    /\ Watched

\* The initial state satisfies it.
LEMMA InitBeyond == Init => Beyond
<1> SUFFICES ASSUME Init
             PROVE  Beyond
  OBVIOUS
<1>1. /\ tasks = {} /\ faults = 0
      /\ \A d \in Rows : delivery[d].state = "absent" /\ delivery[d].live = FALSE
                         /\ stored[d[1]] = "no" /\ accepted[d] = 0
                         /\ samples[d] = 0 /\ answers[d] = 0
      /\ \A w \in Workers : pc[w] = "off"
  BY DEF Init, DeliveryStoreInit, NoRow, Rows
<1>2. TasksOK /\ CausesOK /\ GivenUpForCause
  BY <1>1, FS_EmptySet DEF TasksOK, CausesOK, GivenUpForCause
<1>3. SamplesOK
  <2>1. ASSUME NEW d \in Rows
        PROVE  SampledRow(d)
    <3>1. Sampling(d) = {} /\ WorkOn(d) = {}
      BY <1>1 DEF Sampling, WorkOn
    <3>2. WorkOn(d) \ {NoToken} = {}
      BY <3>1
    <3>3. Cardinality({}) = 0
      BY FS_EmptySet
    <3> QED
      BY <1>1, <3>1, <3>2, <3>3 DEF SampledRow, Backed
  <2> QED
    BY <2>1 DEF SamplesOK, SampledRow
<1>4. Undisturbed /\ OnceWithoutFaults
  BY <1>1 DEF Undisturbed, LeasesAreHeld, TasksHoldLeases, OneTaskPerRow, AcceptedIsKnown,
              OnceWithoutFaults
<1>5. Watched
  BY <1>1 DEF Watched
<1> QED
  BY <1>2, <1>3, <1>4, <1>5 DEF Beyond

\* Every step keeps it.
LEMMA StepBeyond ==
    ASSUME IInv, IInv', Beyond, [Next]_vars
    PROVE  Beyond'
<1>1. TypeOK /\ Core /\ TypeOK'
  BY DEF IInv, TypeInv, Core
<1>2. TasksOK' /\ CausesOK' /\ GivenUpForCause'
  BY <1>1, StepTasksOK, StepCauses DEF Beyond
<1>3. SamplesOK' /\ Undisturbed' /\ OnceWithoutFaults' /\ Watched'
  BY <1>1, StepSamples, StepCalm, StepWatched DEF Beyond
<1> QED
  BY <1>2, <1>3 DEF Beyond

\* SafetyInv holds in every reachable state: the tasks of all runs, the causes
\* of giving up, the faults that pay for missing samples, and what a run that
\* sleeps has seen.
THEOREM SafetyHolds == Spec => []SafetyInv
<1>1. Spec => []Beyond
  <2>1. Init => Beyond
    BY InitBeyond
  <2>2. IInv /\ IInv' /\ Beyond /\ [Next]_vars => Beyond'
    BY StepBeyond
  <2> QED
    BY <2>1, <2>2, InvariantHolds, PTL DEF Spec
<1>2. IInv /\ Beyond => SafetyInv
  BY SleepersAreIdle DEF IInv, TypeInv, Beyond, SafetyInv
<1> QED
  BY <1>1, <1>2, InvariantHolds, PTL

\* What the faults pay for bounds the missing samples.
LEMMA SamplesBound ==
    ASSUME TypeOK, TasksOK, SamplesOK
    PROVE  EveryAttemptSampled
<1>1. ASSUME NEW d \in Rows
      PROVE  /\ samples[d] + Cardinality(Sampling(d)) <= answers[d]
             /\ answers[d] <= samples[d] + Cardinality(Sampling(d)) + faults
  <2>1. PICK one \in Tokens \cup {NoToken} : Backed(d, WorkOn(d) \ {one})
    BY DEF SamplesOK
  <2>2. Cardinality(WorkOn(d) \ {one}) \in Nat /\ Cardinality(Sampling(d)) \in Nat
    BY RowFinite, FS_RemoveElement, FS_CardinalityType
  <2>3. answers[d] \in Nat /\ samples[d] \in Nat /\ faults \in Nat
    BY DEF TypeOK, DeliveryStoreTypeOK
  <2> QED
    BY <2>1, <2>2, <2>3 DEF SamplesOK, Backed
<1> QED
  BY <1>1 DEF EveryAttemptSampled

\* A delivery is given up only for a cause, and every answered attempt leaves
\* one sample unless a fault dropped it, however many tasks of how many runs
\* work on a row whose leases they outran (process_delivery_inner,
\* complete_delivery_with_attempt).
THEOREM AttemptsAccounted == Spec => []AttemptsAreAccounted
<1>1. SafetyInv => AttemptsAreAccounted
  BY SamplesBound DEF SafetyInv, IInv, TypeInv, AttemptsAreAccounted
<1> QED
  BY <1>1, SafetyHolds, PTL

\* Without a crash, a failed store call, a lost answer or an outrun lease every
\* channel takes a message at most once, with any number of runs and slots, and
\* what it took is neither retried nor given up (claim_due_deliveries,
\* complete_delivery).
THEOREM OnceHolds == Spec => []OnceWithoutFaults
<1>1. SafetyInv => OnceWithoutFaults
  BY DEF SafetyInv
<1> QED
  BY <1>1, SafetyHolds, PTL

\* A worker that goes to sleep as the only run has seen every waiting delivery
\* or will be notified of it; only a fault leaves one in flight meanwhile
\* (DeliveryWorker::run, DeliveryWakeup::notify).
THEOREM WakeupsHold == Spec => []NoMissedWakeup
<1>1. SafetyInv => NoMissedWakeup
  BY DEF SafetyInv
<1> QED
  BY <1>1, SafetyHolds, PTL
=============================================================================
