--------------------------- MODULE OutboundProofs ---------------------------
(***************************************************************************)
(* Proofs about module Outbound for every set of requests and workers,     *)
(* every number of messages and faults, checked by TLAPS.                  *)
(***************************************************************************)
EXTENDS Outbound, TLAPS

(***************************************************************************)
(* Types.  Every transaction keeps the store's types ...                   *)
(***************************************************************************)
\* The transactions that update one row on behalf of an owner, or of time.
RowWrite(m, o) ==
    \/ ClaimDue(m, o) \/ BeginSend(m, o) \/ ClaimEvent(m, o) \/ Acknowledge(m, o)
    \/ Renew(m, o) \/ Lapse(m) \/ BecomesDue(m)
    \/ \E path \in Nat : SetPrepared(m, o, path)
    \/ \E phase \in Phases : Defer(m, o, phase)
    \/ \E status \in Terminal : Finish(m, o, status)

LEMMA UpdateType ==
    ASSUME StoreTypeOK, NEW m, NEW r \in RowType, Update(m, r)
    PROVE  StoreTypeOK'
BY DEF StoreTypeOK, Update

LEMMA RowWriteType ==
    ASSUME StoreTypeOK, NEW m \in Ids, NEW o \in Owners, RowWrite(m, o)
    PROVE  StoreTypeOK'
<1>0. row[m] \in RowType
  BY DEF StoreTypeOK
<1> USE DEF RowType, Statuses, Phases, Terminal
<1>1. CASE ClaimDue(m, o)
  <2>1. [row[m] EXCEPT !.owner = o, !.live = TRUE, !.due = TRUE] \in RowType
    BY <1>0
  <2>2. QED
    BY <1>1, <2>1, UpdateType DEF ClaimDue
<1>2. CASE BeginSend(m, o)
  <2>1. [row[m] EXCEPT !.phase = "send_started", !.live = TRUE, !.due = TRUE] \in RowType
    BY <1>0
  <2>2. QED
    BY <1>2, <2>1, UpdateType DEF BeginSend
<1>3. CASE ClaimEvent(m, o)
  <2>1. [row[m] EXCEPT !.owner = o, !.live = TRUE] \in RowType
    BY <1>0
  <2>2. QED
    BY <1>3, <2>1, UpdateType DEF ClaimEvent
<1>4. CASE Acknowledge(m, o)
  <2>1. [row[m] EXCEPT !.phase = "none", !.owner = NoOwner, !.live = FALSE] \in RowType
    BY <1>0
  <2>2. QED
    BY <1>4, <2>1, UpdateType DEF Acknowledge
<1>5. CASE Renew(m, o)
  <2>1. [row[m] EXCEPT !.live = TRUE] \in RowType
    BY <1>0
  <2>2. QED
    BY <1>5, <2>1, UpdateType DEF Renew
<1>6. CASE Lapse(m)
  <2>1. [row[m] EXCEPT !.live = FALSE] \in RowType
    BY <1>0
  <2>2. QED
    BY <1>6, <2>1, UpdateType DEF Lapse
<1>7. CASE BecomesDue(m)
  <2>1. [row[m] EXCEPT !.due = TRUE] \in RowType
    BY <1>0
  <2>2. QED
    BY <1>7, <2>1, UpdateType DEF BecomesDue
<1>8. ASSUME NEW path \in Nat, SetPrepared(m, o, path) PROVE StoreTypeOK'
  <2>1. [row[m] EXCEPT !.phase = "prepared", !.path = path, !.live = TRUE, !.due = TRUE]
          \in RowType
    BY <1>0
  <2>2. QED
    BY <1>8, <2>1, UpdateType DEF SetPrepared
<1>9. ASSUME NEW phase \in Phases, Defer(m, o, phase) PROVE StoreTypeOK'
  <2>1. [row[m] EXCEPT !.phase = phase, !.owner = NoOwner, !.live = FALSE,
                       !.due = (phase = "unknown")] \in RowType
    BY <1>0, (phase = "unknown") \in BOOLEAN
  <2>2. QED
    BY <1>9, <2>1, UpdateType DEF Defer
<1>10. ASSUME NEW status \in Terminal, Finish(m, o, status) PROVE StoreTypeOK'
  <2>1. [row[m] EXCEPT !.status = status, !.phase = "complete", !.due = TRUE] \in RowType
    BY <1>0
  <2>2. QED
    BY <1>10, <2>1, UpdateType DEF Finish
<1>11. QED
  BY <1>1, <1>2, <1>3, <1>4, <1>5, <1>6, <1>7, <1>8, <1>9, <1>10 DEF RowWrite

LEMMA InsertType ==
    ASSUME StoreTypeOK, NEW m \in Ids, NEW o \in Owners, NEW k \in Keys \cup {NoKey},
           NEW c \in Contents, Insert(m, o, k, c)
    PROVE  StoreTypeOK'
<1>1. row' \in [Ids -> RowType]
  BY DEF Insert, StoreTypeOK, RowType, Statuses, Phases, NoPath
<1>2. idem' \in [Keys -> IdemType]
  BY DEF Insert, StoreTypeOK, IdemType
<1>3. nextId' \in 1 .. MaxId + 1
  BY StoreAssumption DEF Insert, StoreTypeOK, Ids
<1>4. QED
  BY <1>1, <1>2, <1>3 DEF StoreTypeOK

LEMMA CleanupType ==
    ASSUME StoreTypeOK,
           \/ \E m \in Ids : Delete(m) \/ RetentionDelete(m)
           \/ \E k \in Keys : Prune(k)
    PROVE  StoreTypeOK'
<1>1. Blank \in RowType
  BY DEF Blank, RowType, Statuses, Phases, NoPath
<1>2. ASSUME NEW m \in Ids, Delete(m) PROVE StoreTypeOK'
  BY <1>1, <1>2 DEF Delete, StoreTypeOK, IdemType
<1>3. ASSUME NEW m \in Ids, RetentionDelete(m) PROVE StoreTypeOK'
  BY <1>1, <1>3 DEF RetentionDelete, StoreTypeOK, IdemType
<1>4. ASSUME NEW k \in Keys, Prune(k) PROVE StoreTypeOK'
  BY <1>4 DEF Prune, StoreTypeOK, IdemType
<1>5. QED
  BY <1>2, <1>3, <1>4

(***************************************************************************)
(* ... every object change the modem's ...                                 *)
(***************************************************************************)
\* Everything that can happen to the objects.
ObjectStep ==
    \/ \E path \in Nat, m \in Ids : CreateSms(path, m)
    \/ \E path \in Nat : TakeSend(path) \/ Transmitted(path) \/ NotTransmitted(path)
                          \/ RemoveObject(path)
    \/ RestartModem

LEMMA ObjectStepType ==
    ASSUME ModemTypeOK, ObjectStep
    PROVE  ModemTypeOK'
<1> USE ModemAssumption DEF ModemTypeOK, ObjectType, ObjectStates
<1>1. ASSUME NEW path \in Nat, NEW m \in Ids, CreateSms(path, m) PROVE ModemTypeOK'
  BY <1>1 DEF CreateSms, Ids
<1>2. ASSUME NEW path \in Nat, TakeSend(path) PROVE ModemTypeOK'
  BY <1>2 DEF TakeSend
<1>3. ASSUME NEW path \in Nat, Transmitted(path) PROVE ModemTypeOK'
  BY <1>3 DEF Transmitted
<1>4. ASSUME NEW path \in Nat, NotTransmitted(path) PROVE ModemTypeOK'
  BY <1>4 DEF NotTransmitted
<1>5. ASSUME NEW path \in Nat, RemoveObject(path) PROVE ModemTypeOK'
  BY <1>5 DEF RemoveObject, NoObject
<1>6. CASE RestartModem
  BY <1>6 DEF RestartModem, NoObject
<1>7. QED
  BY <1>1, <1>2, <1>3, <1>4, <1>5, <1>6 DEF ObjectStep

(***************************************************************************)
(* ... and every move a process's.                                         *)
(***************************************************************************)
ProcOK == ProcTypeOK /\ JobsOK

LEMMA MoveOK ==
    ASSUME ProcOK, NEW p \in Owners, NEW point \in Points, NEW j \in JobType,
           JobOK(point, j), Move(p, point, j)
    PROVE  ProcOK'
<1>1. ProcTypeOK'
  BY DEF ProcOK, ProcTypeOK, Move
<1>2. ASSUME NEW q \in Owners PROVE JobOK(pc[q], job[q])'
  BY DEF ProcOK, ProcTypeOK, JobsOK, JobOK, Move
<1>3. QED
  BY <1>1, <1>2 DEF ProcOK, JobsOK

LEMMA JobAt ==
    ASSUME ProcOK, NEW p \in Owners, pc[p] \notin Resting
    PROVE  job[p] \in JobType /\ Mine(p) \in Ids
BY DEF ProcOK, ProcTypeOK, JobsOK, JobOK, Mine

\* Leaving and resting need nothing of the job.
LEMMA GotoRestOK ==
    ASSUME ProcOK, NEW p \in Owners, NEW point \in Resting, Goto(p, point)
    PROVE  ProcOK'
<1>1. job[p] \in JobType /\ point \in Points /\ JobOK(point, job[p])
  BY DEF ProcOK, ProcTypeOK, JobOK, Resting, Points
<1>2. QED
  BY <1>1, MoveOK DEF Goto

LEMMA LeaveOK ==
    ASSUME ProcOK, NEW p \in Owners, Leave(p)
    PROVE  ProcOK'
BY GotoRestOK DEF Leave, Resting

\* Going on with the same job, where the point asks nothing of `todo'.
LEMMA GotoOK ==
    ASSUME ProcOK, NEW p \in Owners, pc[p] \notin Resting,
           NEW point \in {"begin", "call", "publish", "ack"}, Goto(p, point)
    PROVE  ProcOK'
<1>1. job[p] \in JobType /\ point \in Points /\ JobOK(point, job[p])
  BY JobAt DEF Points, JobOK, Mine, Resting
<1>2. QED
  BY <1>1, MoveOK DEF Goto

\* Going on with another thing to do.
LEMMA GotoWithOK ==
    ASSUME ProcOK, NEW p \in Owners, pc[p] \notin Resting,
           NEW point \in Points, NEW todo \in Todos,
           point = "finish" => todo \in Terminal,
           point = "defer" => todo \in {"prepared", "uncertain", "unknown"},
           point = "inspect" => todo \in {"prepared", "uncertain"},
           GotoWith(p, point, todo)
    PROVE  ProcOK'
<1> DEFINE j == [job[p] EXCEPT !.todo = todo]
<1>1. j \in JobType /\ j.id = job[p].id /\ j.todo = todo /\ j.id \in Ids
  BY JobAt DEF JobType, Mine
<1>2. JobOK(point, j)
  BY <1>1 DEF JobOK
<1>3. QED
  BY <1>1, <1>2, MoveOK DEF GotoWith

LEMMA TakeOK ==
    ASSUME ProcOK, NEW p \in Owners, NEW m \in Ids, NEW path \in Nat,
           NEW point \in Points, NEW todo \in Todos,
           point = "finish" => todo \in Terminal,
           point = "defer" => todo \in {"prepared", "uncertain", "unknown"},
           point = "inspect" => todo \in {"prepared", "uncertain"},
           Take(p, m, path, point, todo)
    PROVE  ProcOK'
<1> DEFINE j == [id |-> m, path |-> path, todo |-> todo]
<1>1. j \in JobType /\ JobOK(point, j)
  BY DEF JobType, JobOK
<1>2. QED
  BY <1>1, MoveOK DEF Take

\* The modem's answers change what a waiting process has to do, not where it is.
LEMMA AnswersOK ==
    ASSUME ProcOK, NEW answered \in SUBSET Owners, NEW reply \in Todos,
           \A p \in answered : pc[p] = "reply",
           pc' = pc,
           job' = [p \in Owners |-> IF p \in answered
                                    THEN [job[p] EXCEPT !.todo = reply] ELSE job[p]]
    PROVE  ProcOK'
<1>1. job' \in [Owners -> JobType]
  BY DEF ProcOK, ProcTypeOK, JobType
<1>2. ASSUME NEW p \in Owners PROVE JobOK(pc[p], job[p])'
  BY DEF ProcOK, ProcTypeOK, JobsOK, JobOK, JobType
<1>3. QED
  BY <1>1, <1>2 DEF ProcOK, ProcTypeOK, JobsOK

LEMMA InitTypeInv == Init => TypeInv
<1> SUFFICES ASSUME Init PROVE TypeInv
  OBVIOUS
<1> USE StoreAssumption, OutboundAssumption, ModemAssumption
<1>1. AnyContent \in Contents
  BY DEF AnyContent
<1>2. StoreTypeOK
  BY <1>1 DEF Init, StoreInit, StoreTypeOK, RowType, IdemType, Blank, Ids, NoId, NoPath,
     Statuses, Phases
<1>3. ModemTypeOK
  BY DEF Init, ModemInit, ModemTypeOK, ObjectType, ObjectStates, NoObject
<1>4. ProcTypeOK /\ JobsOK
  BY DEF Init, Points, JobType, NoJob, Todos, ProcTypeOK, JobsOK, JobOK, Resting, NoId, NoPath
<1>5. GhostTypeOK /\ faults \in 0 .. MaxFaults
  BY DEF Init, GhostTypeOK, NoRequest
<1>6. QED
  BY <1>2, <1>3, <1>4, <1>5 DEF TypeInv, TypeOK

(***************************************************************************)
(* The four parts of a step, by its frame.                                 *)
(***************************************************************************)
LEMMA FaultType ==
    ASSUME TypeInv, NoFault \/ Fault
    PROVE  faults' \in 0 .. MaxFaults
BY OutboundAssumption DEF TypeInv, TypeOK, NoFault, Fault

LEMMA MovesOnlyType ==
    ASSUME TypeInv, MovesOnly \/ FaultOnly, ProcOK'
    PROVE  TypeInv'
<1>1. faults' \in 0 .. MaxFaults
  BY FaultType DEF MovesOnly, FaultOnly
<1>2. StoreTypeOK' /\ ModemTypeOK' /\ GhostTypeOK'
  BY DEF TypeInv, TypeOK, MovesOnly, FaultOnly, storeVars, modemVars, ghostVars,
         StoreTypeOK, ModemTypeOK, GhostTypeOK
<1>3. QED
  BY <1>1, <1>2 DEF TypeInv, TypeOK, ProcOK

LEMMA TransactOnlyType ==
    ASSUME TypeInv, TransactOnly, StoreTypeOK', ProcOK'
    PROVE  TypeInv'
<1>1. faults' \in 0 .. MaxFaults
  BY FaultType DEF TransactOnly
<1>2. ModemTypeOK' /\ GhostTypeOK'
  BY DEF TypeInv, TypeOK, TransactOnly, modemVars, ghostVars, ModemTypeOK, GhostTypeOK
<1>3. QED
  BY <1>1, <1>2 DEF TypeInv, TypeOK, ProcOK

LEMMA TypeParts == TypeInv => ProcOK /\ StoreTypeOK /\ ModemTypeOK /\ GhostTypeOK
BY DEF TypeInv, TypeOK, ProcOK

LEMMA FinalizerTypes ==
    ASSUME TypeInv, NEW f \in Requests, FinalizerStep(f) PROVE TypeInv'
<1> USE TypeParts
<1>1. CASE CreateRow(f)
  <2>1. PICK m \in Ids : Insert(m, f, KeyOf[f], ContentOf[f]) /\ Take(f, m, NoPath, "prepare", "none")
                     /\ origin' = [origin EXCEPT ![m] = f]
                     /\ lineage' = IF KeyOf[f] = NoKey THEN lineage
                                   ELSE [lineage EXCEPT ![KeyOf[f]] = @ \cup {m}]
    BY <1>1 DEF CreateRow
  <2>2. StoreTypeOK'
    BY <1>1, <2>1, InsertType, OutboundAssumption
  <2>3. ProcOK'
    BY <1>1, <2>1, TakeOK, OutboundAssumption DEF Points, Todos, NoPath
  <2>4. ModemTypeOK' /\ GhostTypeOK'
    BY <1>1, <2>1, OutboundAssumption DEF CreateRow, modemVars, ModemTypeOK, GhostTypeOK
  <2>5. faults' \in 0 .. MaxFaults
    BY <1>1, FaultType DEF CreateRow
  <2>6. QED
    BY <1>1, <2>2, <2>3, <2>4, <2>5 DEF TypeInv, TypeOK, ProcOK
<1>2. CASE ReplayRow(f)
  <2>1. idem[KeyOf[f]].msg \in Ids
    BY <1>2, OutboundAssumption DEF ReplayRow, Replayable, KeyInUse, StoreTypeOK, IdemType, NoId
  <2>2. ProcOK'
    BY <1>2, <2>1, TakeOK, OutboundAssumption DEF ReplayRow, Points, Todos, NoPath
  <2>3. QED
    BY <1>2, <2>2, MovesOnlyType DEF ReplayRow
<1>3. CASE RefuseRequest(f)
  <2>1. ProcOK'
    BY <1>3, GotoRestOK, OutboundAssumption DEF RefuseRequest, Resting
  <2>2. QED
    BY <1>3, <2>1, MovesOnlyType DEF RefuseRequest
<1>4. CASE Prepare(f)
  <2>1. Mine(f) \in Ids
    BY <1>4, JobAt, OutboundAssumption DEF Prepare, Resting
  <2>2. ModemTypeOK'
    BY <1>4, <2>1, ObjectStepType DEF Prepare, ObjectStep, ModemTypeOK
  <2>3. ProcOK'
    BY <1>4, <2>1, TakeOK, OutboundAssumption DEF Prepare, Points, Todos, ModemTypeOK
  <2>4. StoreTypeOK' /\ GhostTypeOK' /\ faults' \in 0 .. MaxFaults
    BY <1>4, FaultType DEF Prepare, storeVars, ghostVars, StoreTypeOK, GhostTypeOK
  <2>5. QED
    BY <1>4, <2>2, <2>3, <2>4 DEF TypeInv, TypeOK, ProcOK
<1>5. CASE PrepareFails(f)
  <2>1. Mine(f) \in Ids
    BY <1>5, JobAt, OutboundAssumption DEF PrepareFails, Resting
  <2>2. ModemTypeOK'
    BY <1>5, <2>1, ObjectStepType DEF PrepareFails, ObjectStep, ModemTypeOK, modemVars
  <2>3. ProcOK'
    BY <1>5, GotoWithOK, OutboundAssumption DEF PrepareFails, Points, Todos, Terminal, Resting
  <2>4. StoreTypeOK' /\ GhostTypeOK' /\ faults' \in 0 .. MaxFaults
    BY <1>5, FaultType DEF PrepareFails, storeVars, ghostVars, StoreTypeOK, GhostTypeOK
  <2>5. QED
    BY <1>5, <2>2, <2>3, <2>4 DEF TypeInv, TypeOK, ProcOK
<1>6. CASE RecordPath(f)
  <2>1. StoreTypeOK'
    BY <1>6, JobAt, RowWriteType, OutboundAssumption DEF RecordPath, RowWrite, Resting, JobType
  <2>2. ProcOK'
    BY <1>6, GotoOK, OutboundAssumption DEF RecordPath, Resting
  <2>3. QED
    BY <1>6, <2>1, <2>2, TransactOnlyType DEF RecordPath
<1>7. CASE PrepareLost(f)
  <2>1. ProcOK'
    BY <1>7, LeaveOK, OutboundAssumption DEF PrepareLost
  <2>2. QED
    BY <1>7, <2>1, MovesOnlyType DEF PrepareLost
<1>8. QED
  BY <1>1, <1>2, <1>3, <1>4, <1>5, <1>6, <1>7 DEF FinalizerStep

LEMMA WorkerTypes ==
    ASSUME TypeInv, NEW w \in Workers, WorkerStep(w) PROVE TypeInv'
<1> USE TypeParts
<1>1. CASE StartWorker(w)
  <2>1. ProcOK'
    BY <1>1, GotoRestOK, OutboundAssumption DEF StartWorker, Resting
  <2>2. QED
    BY <1>1, <2>1, MovesOnlyType DEF StartWorker
<1>2. CASE ReplayEvent(w)
  <2>1. PICK m \in Ids : ClaimEvent(m, w) /\ Take(w, m, NoPath, "publish", "none")
    BY <1>2 DEF ReplayEvent
  <2>2. StoreTypeOK'
    BY <1>2, <2>1, RowWriteType, OutboundAssumption DEF RowWrite
  <2>3. ProcOK'
    BY <1>2, <2>1, TakeOK, OutboundAssumption DEF Points, Todos, NoPath
  <2>4. QED
    BY <1>2, <2>2, <2>3, TransactOnlyType DEF ReplayEvent
<1>3. CASE NoEvent(w)
  <2>1. ProcOK'
    BY <1>3, GotoRestOK, OutboundAssumption DEF NoEvent, Resting
  <2>2. QED
    BY <1>3, <2>1, MovesOnlyType DEF NoEvent
<1>4. CASE Recover(w)
  <2>1. PICK m \in Ids : /\ ClaimDue(m, w)
                     /\ \/ Take(w, m, row[m].path, "finish", "failed")
                        \/ Take(w, m, row[m].path, "inspect", "prepared")
                        \/ Take(w, m, row[m].path, "inspect", "uncertain")
    BY <1>4 DEF Recover
  <2>2. StoreTypeOK'
    BY <1>4, <2>1, RowWriteType, OutboundAssumption DEF RowWrite
  <2>3. row[m].path \in Nat
    BY <1>4 DEF StoreTypeOK, RowType
  <2>4. ProcOK'
    BY <1>4, <2>1, <2>3, TakeOK, OutboundAssumption DEF Points, Todos, Terminal
  <2>5. QED
    BY <1>4, <2>2, <2>4, TransactOnlyType DEF Recover
<1>5. CASE NothingDue(w)
  <2>1. ProcOK'
    BY <1>5, GotoRestOK, OutboundAssumption DEF NothingDue, Resting
  <2>2. QED
    BY <1>5, <2>1, MovesOnlyType DEF NothingDue
<1>6. CASE Inspect(w)
  <2>1. Decision(w) \in {<<"defer", "unknown">>, <<"finish", "sent">>, <<"begin", "none">>,
                       <<"defer", "uncertain">>}
    BY <1>6 DEF Decision
  <2>2. ProcOK'
    BY <1>6, <2>1, GotoWithOK, OutboundAssumption DEF Inspect, Points, Todos, Terminal, Resting
  <2>3. QED
    BY <1>6, <2>2, MovesOnlyType DEF Inspect
<1>7. CASE InspectFails(w)
  <2>1. job[w] \in JobType /\ JobOK("defer", job[w])
    BY <1>7, JobAt, OutboundAssumption DEF InspectFails, ProcOK, JobsOK, JobOK, Resting
  <2>2. ProcOK'
    BY <1>7, <2>1, MoveOK, OutboundAssumption DEF InspectFails, Goto, Points
  <2>3. QED
    BY <1>7, <2>2, MovesOnlyType DEF InspectFails
<1>8. QED
  BY <1>1, <1>2, <1>3, <1>4, <1>5, <1>6, <1>7 DEF WorkerStep

LEMMA SendTypes ==
    ASSUME TypeInv, NEW p \in Owners, SendStep(p) PROVE TypeInv'
<1> USE TypeParts
<1>1. CASE Begin(p)
  <2>1. StoreTypeOK'
    BY <1>1, JobAt, RowWriteType DEF Begin, RowWrite, Resting
  <2>2. ProcOK'
    BY <1>1, GotoOK DEF Begin, Resting
  <2>3. QED
    BY <1>1, <2>1, <2>2, TransactOnlyType DEF Begin
<1>2. CASE BeginLost(p)
  <2>1. ProcOK'
    BY <1>2, LeaveOK DEF BeginLost
  <2>2. QED
    BY <1>2, <2>1, MovesOnlyType DEF BeginLost
<1>3. CASE NotAttempted(p)
  <2>1. ProcOK'
    BY <1>3, GotoWithOK DEF NotAttempted, Points, Todos, Terminal, Resting
  <2>2. QED
    BY <1>3, <2>1, MovesOnlyType DEF NotAttempted
<1>4. CASE CallSend(p)
  <2>1. Mine(p) \in Ids /\ job[p].path \in Nat
    BY <1>4, JobAt DEF CallSend, Resting, JobType
  <2>2. ModemTypeOK'
    BY <1>4, <2>1, ObjectStepType DEF CallSend, ObjectStep, ModemTypeOK, modemVars
  <2>3. ProcOK'
    BY <1>4, GotoWithOK DEF CallSend, Points, Todos, Resting
  <2>4. StoreTypeOK' /\ GhostTypeOK'
    BY <1>4, <2>1 DEF CallSend, Called, storeVars, StoreTypeOK, GhostTypeOK
  <2>5. faults' \in 0 .. MaxFaults
    BY <1>4, FaultType DEF CallSend
  <2>6. QED
    BY <1>4, <2>2, <2>3, <2>4, <2>5 DEF TypeInv, TypeOK, ProcOK
<1>5. CASE Accepted(p)
  <2>1. ProcOK'
    BY <1>5, GotoWithOK DEF Accepted, Points, Todos, Terminal, Resting
  <2>2. QED
    BY <1>5, <2>1, MovesOnlyType DEF Accepted
<1>6. CASE Rejected(p)
  <2>1. ProcOK'
    BY <1>6, GotoWithOK DEF Rejected, Points, Todos, Terminal, Resting
  <2>2. QED
    BY <1>6, <2>1, MovesOnlyType DEF Rejected
<1>7. CASE Unanswered(p)
  <2>1. ProcOK'
    BY <1>7, GotoWithOK DEF Unanswered, Points, Todos, Terminal, Resting
  <2>2. MovesOnly \/ FaultOnly
    BY <1>7 DEF Unanswered, MovesOnly, FaultOnly
  <2>3. QED
    BY <1>7, <2>1, <2>2, MovesOnlyType
<1>8. QED
  BY <1>1, <1>2, <1>3, <1>4, <1>5, <1>6, <1>7 DEF SendStep

LEMMA SettleTypes ==
    ASSUME TypeInv, NEW p \in Owners, SettleStep(p) PROVE TypeInv'
<1> USE TypeParts
<1>1. CASE FinishRow(p)
  <2>1. StoreTypeOK'
    BY <1>1, JobAt, RowWriteType DEF FinishRow, RowWrite, Resting, ProcOK, JobsOK, JobOK
  <2>2. ProcOK'
    BY <1>1, GotoOK DEF FinishRow, Resting
  <2>3. QED
    BY <1>1, <2>1, <2>2, TransactOnlyType DEF FinishRow
<1>2. CASE FinishLost(p)
  <2>1. ProcOK'
    BY <1>2, GotoOK, LeaveOK DEF FinishLost, Resting
  <2>2. QED
    BY <1>2, <2>1, MovesOnlyType DEF FinishLost
<1>3. CASE Publish(p)
  <2>1. Mine(p) \in Ids
    BY <1>3, JobAt DEF Publish, Resting
  <2>2. ProcOK'
    BY <1>3, GotoOK DEF Publish, Resting
  <2>3. StoreTypeOK' /\ ModemTypeOK'
    BY <1>3 DEF Publish, storeVars, modemVars, StoreTypeOK, ModemTypeOK
  <2>4. GhostTypeOK' /\ faults' \in 0 .. MaxFaults
    BY <1>3, <2>1, FaultType DEF Publish, GhostTypeOK
  <2>5. QED
    BY <1>3, <2>2, <2>3, <2>4 DEF TypeInv, TypeOK, ProcOK
<1>4. CASE Ack(p)
  <2>1. StoreTypeOK'
    BY <1>4, JobAt, RowWriteType DEF Ack, RowWrite, Resting
  <2>2. ProcOK'
    BY <1>4, LeaveOK DEF Ack
  <2>3. QED
    BY <1>4, <2>1, <2>2, TransactOnlyType DEF Ack
<1>5. CASE AckLost(p)
  <2>1. ProcOK'
    BY <1>5, LeaveOK DEF AckLost
  <2>2. QED
    BY <1>5, <2>1, MovesOnlyType DEF AckLost
<1>6. CASE DeferRow(p)
  <2>1. StoreTypeOK'
    BY <1>6, JobAt, RowWriteType DEF DeferRow, RowWrite, Resting, ProcOK, JobsOK, JobOK, Phases
  <2>2. ProcOK'
    BY <1>6, LeaveOK DEF DeferRow
  <2>3. QED
    BY <1>6, <2>1, <2>2, TransactOnlyType DEF DeferRow
<1>7. CASE DeferLost(p)
  <2>1. Mine(p) \in Ids
    BY <1>7, JobAt DEF DeferLost, Resting
  <2>2. ProcOK'
    BY <1>7, LeaveOK DEF DeferLost
  <2>3. StoreTypeOK' /\ ModemTypeOK'
    BY <1>7 DEF DeferLost, storeVars, modemVars, StoreTypeOK, ModemTypeOK
  <2>4. GhostTypeOK' /\ faults' \in 0 .. MaxFaults
    BY <1>7, <2>1, FaultType DEF DeferLost, GhostTypeOK
  <2>5. QED
    BY <1>7, <2>2, <2>3, <2>4 DEF TypeInv, TypeOK, ProcOK
<1>8. QED
  BY <1>1, <1>2, <1>3, <1>4, <1>5, <1>6, <1>7 DEF SettleStep

LEMMA ProcessTypes ==
    ASSUME TypeInv, NEW p \in Owners, Heartbeat(p) \/ Crash(p) \/ StoreFails(p) PROVE TypeInv'
<1> USE TypeParts
<1>1. CASE Heartbeat(p)
  <2>1. StoreTypeOK'
    BY <1>1, JobAt, RowWriteType DEF Heartbeat, Awaiting, RowWrite, Resting
  <2>2. ProcOK' /\ ModemTypeOK' /\ GhostTypeOK' /\ faults' \in 0 .. MaxFaults
    BY <1>1 DEF Heartbeat, modemVars, procVars, ghostVars, ModemTypeOK, GhostTypeOK, ProcOK, ProcTypeOK, JobsOK, TypeInv, TypeOK
  <2>3. QED
    BY <1>1, <2>1, <2>2 DEF TypeInv, TypeOK, ProcOK
<1>2. CASE Crash(p)
  <2>1. ProcOK'
    BY <1>2, GotoRestOK DEF Crash, Resting
  <2>2. QED
    BY <1>2, <2>1, MovesOnlyType DEF Crash
<1>3. CASE StoreFails(p)
  <2>1. ProcOK'
    BY <1>3, LeaveOK DEF StoreFails
  <2>2. QED
    BY <1>3, <2>1, MovesOnlyType DEF StoreFails
<1>4. QED
  BY <1>1, <1>2, <1>3 DEF TypeInv

LEMMA TimeTypes ==
    ASSUME TypeInv, NEW m \in Ids, LeaseLapses(m) \/ RetryDue(m) PROVE TypeInv'
<1> USE TypeParts
<1>1. CASE LeaseLapses(m)
  <2>1. row[m].owner \in Owners
    BY <1>1 DEF LeaseLapses, Lapse, StoreTypeOK, RowType
  <2>2. StoreTypeOK'
    BY <1>1, <2>1, RowWriteType DEF LeaseLapses, RowWrite
  <2>3. faults' \in 0 .. MaxFaults
    BY <1>1, FaultType DEF LeaseLapses
  <2>4. ProcOK' /\ ModemTypeOK' /\ GhostTypeOK'
    BY <1>1 DEF LeaseLapses, modemVars, ghostVars, ProcOK, ProcTypeOK, JobsOK,
                ModemTypeOK, GhostTypeOK
  <2>5. QED
    BY <2>2, <2>3, <2>4 DEF TypeInv, TypeOK, ProcOK
<1>2. CASE RetryDue(m)
  <2>1. StoreTypeOK'
    <3>1. row[m] \in RowType
      BY DEF StoreTypeOK
    <3>2. [row[m] EXCEPT !.due = TRUE] \in RowType
      BY <3>1 DEF RowType
    <3>3. QED
      BY <1>2, <3>2, UpdateType DEF RetryDue, BecomesDue
  <2>2. ProcOK' /\ ModemTypeOK' /\ GhostTypeOK' /\ faults' \in 0 .. MaxFaults
    BY <1>2 DEF RetryDue, modemVars, procVars, ghostVars, ProcOK, ProcTypeOK, JobsOK,
                ModemTypeOK, GhostTypeOK, TypeInv, TypeOK
  <2>3. QED
    BY <2>1, <2>2 DEF TypeInv, TypeOK, ProcOK
<1>3. QED
  BY <1>1, <1>2

LEMMA AnswerAtOK ==
    ASSUME ProcOK, NEW path, NEW reply \in Todos, AnswerAt(path, reply), pc' = pc
    PROVE  ProcOK'
<1> DEFINE answered == {p \in Owners : pc[p] = "reply" /\ job[p].todo = "taken" /\ job[p].path = path}
<1>1. job' = [p \in Owners |-> IF p \in answered THEN [job[p] EXCEPT !.todo = reply] ELSE job[p]]
  BY DEF AnswerAt
<1>2. answered \in SUBSET Owners /\ \A p \in answered : pc[p] = "reply"
  OBVIOUS
<1> HIDE DEF answered
<1>3. QED
  BY <1>1, <1>2, AnswersOK

LEMMA ModemTypes ==
    ASSUME TypeInv, ModemStep PROVE TypeInv'
<1> USE TypeParts DEF ObjectPaths
<1>1. ASSUME NEW path \in ObjectPaths, RadioSends(path) PROVE TypeInv'
  <2>1. ModemTypeOK'
    BY <1>1, ObjectStepType, ModemAssumption DEF RadioSends, ObjectStep
  <2>2. ProcOK'
    BY <1>1, AnswerAtOK DEF RadioSends, Todos
  <2>3. object[path].madeFor \in Nat
    BY <1>1 DEF ModemTypeOK, ObjectType
  <2>4. StoreTypeOK' /\ GhostTypeOK' /\ faults' \in 0 .. MaxFaults
    BY <1>1, <2>3 DEF RadioSends, storeVars, StoreTypeOK, GhostTypeOK, TypeInv, TypeOK
  <2>5. QED
    BY <2>1, <2>2, <2>4 DEF TypeInv, TypeOK, ProcOK
<1>2. ASSUME NEW path \in ObjectPaths, RadioRefuses(path) PROVE TypeInv'
  <2>1. ModemTypeOK'
    BY <1>2, ObjectStepType, ModemAssumption DEF RadioRefuses, ObjectStep
  <2>2. ProcOK'
    BY <1>2, AnswerAtOK DEF RadioRefuses, Todos
  <2>3. StoreTypeOK' /\ GhostTypeOK' /\ faults' \in 0 .. MaxFaults
    BY <1>2 DEF RadioRefuses, storeVars, ghostVars, StoreTypeOK, GhostTypeOK, TypeInv, TypeOK
  <2>4. QED
    BY <2>1, <2>2, <2>3 DEF TypeInv, TypeOK, ProcOK
<1>3. ASSUME NEW path \in ObjectPaths, SmsRemoved(path) PROVE TypeInv'
  <2>1. ModemTypeOK'
    BY <1>3, ObjectStepType, ModemAssumption DEF SmsRemoved, ObjectStep
  <2>2. faults' \in 0 .. MaxFaults
    BY <1>3, FaultType DEF SmsRemoved
  <2>3. StoreTypeOK' /\ GhostTypeOK' /\ ProcOK'
    BY <1>3 DEF SmsRemoved, storeVars, ghostVars, StoreTypeOK, GhostTypeOK, ProcOK, ProcTypeOK,
                JobsOK
  <2>4. QED
    BY <2>1, <2>2, <2>3 DEF TypeInv, TypeOK, ProcOK
<1>4. CASE ModemRestarts
  <2>1. ModemTypeOK'
    BY <1>4, ObjectStepType DEF ModemRestarts, ObjectStep
  <2>2. ProcOK'
    <3> DEFINE answered == {p \in Owners : pc[p] = "reply" /\ job[p].todo = "taken"}
    <3>1. job' = [p \in Owners |->
                    IF p \in answered THEN [job[p] EXCEPT !.todo = "lost"] ELSE job[p]]
      BY <1>4 DEF ModemRestarts
    <3>2. QED
      BY <1>4, <3>1, AnswersOK DEF ModemRestarts, Todos
  <2>3. StoreTypeOK' /\ GhostTypeOK' /\ faults' \in 0 .. MaxFaults
    BY <1>4 DEF ModemRestarts, storeVars, ghostVars, StoreTypeOK, GhostTypeOK, TypeInv, TypeOK
  <2>4. QED
    BY <2>1, <2>2, <2>3 DEF TypeInv, TypeOK, ProcOK
<1>5. QED
  BY <1>1, <1>2, <1>3, <1>4 DEF ModemStep

LEMMA CleanupTypes ==
    ASSUME TypeInv, CleanupStep PROVE TypeInv'
<1> USE TypeParts
<1>1. ASSUME NEW m \in Ids, OperatorDeletes(m) PROVE TypeInv'
  <2>1. StoreTypeOK'
    BY <1>1, CleanupType DEF OperatorDeletes
  <2>2. ProcOK' /\ ModemTypeOK' /\ GhostTypeOK' /\ faults' \in 0 .. MaxFaults
    BY <1>1 DEF OperatorDeletes, modemVars, procVars, ghostVars, ProcOK, ProcTypeOK, JobsOK,
                ModemTypeOK, GhostTypeOK, TypeInv, TypeOK
  <2>3. QED
    BY <2>1, <2>2 DEF TypeInv, TypeOK, ProcOK
<1>2. ASSUME NEW m \in Ids, RetentionDeletes(m) PROVE TypeInv'
  <2>1. StoreTypeOK'
    BY <1>2, CleanupType DEF RetentionDeletes
  <2>2. ProcOK' /\ ModemTypeOK' /\ GhostTypeOK' /\ faults' \in 0 .. MaxFaults
    BY <1>2 DEF RetentionDeletes, modemVars, procVars, ProcOK, ProcTypeOK, JobsOK,
                ModemTypeOK, GhostTypeOK, TypeInv, TypeOK
  <2>3. QED
    BY <2>1, <2>2 DEF TypeInv, TypeOK, ProcOK
<1>3. ASSUME NEW k \in Keys, KeyPruned(k) PROVE TypeInv'
  <2>1. StoreTypeOK'
    BY <1>3, CleanupType DEF KeyPruned
  <2>2. ProcOK' /\ ModemTypeOK' /\ GhostTypeOK' /\ faults' \in 0 .. MaxFaults
    BY <1>3 DEF KeyPruned, modemVars, procVars, ProcOK, ProcTypeOK, JobsOK,
                ModemTypeOK, GhostTypeOK, TypeInv, TypeOK
  <2>3. QED
    BY <2>1, <2>2 DEF TypeInv, TypeOK, ProcOK
<1>4. QED
  BY <1>1, <1>2, <1>3 DEF CleanupStep

LEMMA StutterTypes ==
    ASSUME TypeInv, UNCHANGED vars PROVE TypeInv'
BY DEF vars, storeVars, modemVars, procVars, ghostVars, TypeInv, TypeOK, StoreTypeOK, ModemTypeOK,
       ProcTypeOK, GhostTypeOK, JobsOK

LEMMA NextTypeInv == TypeInv /\ [Next]_vars => TypeInv'
<1> SUFFICES ASSUME TypeInv, [Next]_vars PROVE TypeInv'
  OBVIOUS
<1>1. ASSUME NEW f \in Requests, FinalizerStep(f) PROVE TypeInv'
  BY <1>1, FinalizerTypes
<1>2. ASSUME NEW w \in Workers, WorkerStep(w) PROVE TypeInv'
  BY <1>2, WorkerTypes
<1>3. ASSUME NEW p \in Owners,
             SendStep(p) \/ SettleStep(p) \/ Heartbeat(p) \/ Crash(p) \/ StoreFails(p)
      PROVE  TypeInv'
  BY <1>3, SendTypes, SettleTypes, ProcessTypes
<1>4. CASE ModemStep
  BY <1>4, ModemTypes
<1>5. CASE CleanupStep
  BY <1>5, CleanupTypes
<1>6. CASE TimeStep
  BY <1>6, TimeTypes DEF TimeStep
<1>7. CASE UNCHANGED vars
  BY <1>7, StutterTypes
<1>8. QED
  BY <1>1, <1>2, <1>3, <1>4, <1>5, <1>6, <1>7 DEF Next

\* Every row, object and process of every run is of its type, and a process
\* in the middle of an operation has a message to work on.
THEOREM TypeCorrect == Spec => []TypeInv
<1>1. TypeInv /\ [Next]_vars => TypeInv'
  BY NextTypeInv
<1>2. QED
  BY InitTypeInv, <1>1, PTL DEF Spec

(***************************************************************************)
(* At most one Send.  The right to call Send is taken by begin_outbound_   *)
(* send's compare-and-swap from `prepared'; SendOnce says that the row of a*)
(* message whose right is taken or used never shows `created' or           *)
(* `prepared' again, so nobody can take it a second time.                  *)
(***************************************************************************)
\* A process moves, and neither takes the right nor plans to write `prepared'.
LEMMA QuietMove ==
    ASSUME IInv, NEW p \in Owners, NEW point, NEW j, Move(p, point, j),
           point # "call",
           point \in {"defer", "inspect"} => j.todo # "prepared",
           row' = row, sends' = sends
    PROVE  SendOnce'
<1> USE DEF IInv, TypeInv, TypeOK, ProcTypeOK, SendOnce, Move
<1>1. AtMostOneSend' /\ UnknownIsUnowned'
  BY DEF AtMostOneSend, UnknownIsUnowned
<1>2. ASSUME NEW q \in Owners, NEW m \in Ids, Armed(q, m)' PROVE q # p /\ Armed(q, m)
  BY <1>2 DEF Armed
<1>3. ASSUME NEW m \in Ids, Spent(m)' PROVE Spent(m)
  BY <1>2, <1>3 DEF Spent
<1>4. ArmedOnce'
  BY <1>2 DEF ArmedOnce
<1>5. SpentShows'
  BY <1>3 DEF SpentShows
<1>6. RetreatIsSafe'
  BY <1>3 DEF RetreatIsSafe, Owns
<1>7. QED
  BY <1>1, <1>4, <1>5, <1>6

\* Row n changes and process p moves to a point that is neither the call nor a
\* retreat; the row still does not look unsent, or its message is unspent.
LEMMA QuietWrite ==
    ASSUME IInv, NEW p \in Owners, NEW n \in Ids, NEW r \in RowType,
           NEW point, NEW j, Move(p, point, j),
           point \notin {"call", "defer"},
           point = "inspect" /\ j.todo = "prepared" => j.id = n /\ r.phase = "prepared",
           row' = [row EXCEPT ![n] = r], sends' = sends,
           r.owner \in {p, NoOwner},
           r.phase \in {"created", "prepared"} => ~Spent(n),
           r.phase = "unknown" => r.owner = NoOwner
    PROVE  SendOnce'
<1> USE DEF IInv, TypeInv, TypeOK, StoreTypeOK, ProcTypeOK, SendOnce, Move
<1>1. AtMostOneSend' /\ UnknownIsUnowned'
  BY DEF AtMostOneSend, UnknownIsUnowned
<1>2. ASSUME NEW q \in Owners, NEW m \in Ids, Armed(q, m)' PROVE q # p /\ Armed(q, m)
  BY <1>2 DEF Armed
<1>3. ASSUME NEW m \in Ids, Spent(m)' PROVE Spent(m)
  BY <1>2, <1>3 DEF Spent
<1>4. ArmedOnce'
  BY <1>2 DEF ArmedOnce
<1>5. SpentShows'
  BY <1>3 DEF SpentShows
<1>6. RetreatIsSafe'
  <2> SUFFICES ASSUME NEW m \in Ids, NEW q \in Owners,
                      job'[q].id = m, Owns(m, q)', job'[q].todo = "prepared"
               PROVE  /\ pc'[q] = "defer" => ~Spent(m)'
                      /\ pc'[q] = "inspect" => row'[m].phase = "prepared"
    BY DEF RetreatIsSafe
  <2>1. CASE q = p
    BY <2>1
  <2>2. CASE q # p
    <3>1. m # n /\ Owns(m, q) /\ row'[m] = row[m]
      BY <2>2, StoreAssumption DEF Owns
    <3>2. QED
      BY <2>2, <3>1, <1>3 DEF RetreatIsSafe
  <2>3. QED
    BY <2>1, <2>2
<1>7. QED
  BY <1>1, <1>4, <1>5, <1>6

\* No row changes its status, phase or owner, or only by being deleted.
LEMMA QuietRows ==
    ASSUME IInv, pc' = pc, sends' = sends,
           \A p \in Owners : /\ job'[p].id = job[p].id
                             /\ pc[p] # "reply" => job'[p] = job[p],
           \A m \in Ids : \/ row'[m] = Blank
                          \/ /\ row'[m].status = row[m].status
                             /\ row'[m].phase = row[m].phase
                             /\ row'[m].owner = row[m].owner
    PROVE  SendOnce'
<1> USE DEF IInv, SendOnce
<1>1. \A m \in Ids : (\A p \in Owners : Armed(p, m)' <=> Armed(p, m)) /\ (Spent(m)' <=> Spent(m))
  BY DEF Armed, Spent
<1>2. AtMostOneSend' /\ ArmedOnce'
  BY <1>1 DEF AtMostOneSend, ArmedOnce
<1>3. SpentShows'
  BY <1>1 DEF SpentShows, Blank
<1>4. UnknownIsUnowned'
  BY DEF UnknownIsUnowned, Blank
<1>5. RetreatIsSafe'
  <2> SUFFICES ASSUME NEW m \in Ids, NEW p \in Owners,
                      job'[p].id = m, Owns(m, p)', job'[p].todo = "prepared"
               PROVE  /\ pc'[p] = "defer" => ~Spent(m)'
                      /\ pc'[p] = "inspect" => row'[m].phase = "prepared"
    BY DEF RetreatIsSafe
  <2>1. Owns(m, p) /\ row'[m].phase = row[m].phase
    BY DEF Owns, Blank
  <2>2. QED
    BY <2>1, <1>1 DEF RetreatIsSafe
<1>6. QED
  BY <1>2, <1>3, <1>4, <1>5

LEMMA FinalizerSendOnce ==
    ASSUME IInv, NEW f \in Requests, FinalizerStep(f) PROVE SendOnce'
<1> USE TypeParts DEF IInv
<1>1. CASE CreateRow(f)
  <2>1. PICK m \in Ids : Insert(m, f, KeyOf[f], ContentOf[f]) /\ Take(f, m, NoPath, "prepare", "none")
    BY <1>1 DEF CreateRow
  <2>2. ~Spent(m)
    BY <1>1, <2>1, TypeParts DEF Insert, FreshIds, Spent, Armed, GhostTypeOK, ProcOK, ProcTypeOK, JobType, StoreTypeOK, Ids, NoId
  <2> DEFINE r == [status |-> "sending", phase |-> "created", owner |-> f, live |-> TRUE,
                   due |-> TRUE, path |-> NoPath]
             j == [id |-> m, path |-> NoPath, todo |-> "none"]
  <2>3. r \in RowType /\ r.owner = f /\ r.phase = "created" /\ f \in Owners
    BY OutboundAssumption DEF RowType, Statuses, Phases, NoPath
  <2>4. Move(f, "prepare", j) /\ row' = [row EXCEPT ![m] = r] /\ sends' = sends
    BY <1>1, <2>1 DEF CreateRow, Insert, Take
  <2> HIDE DEF r, j
  <2>5. QED
    BY <2>2, <2>3, <2>4, QuietWrite
<1>2. CASE ReplayRow(f)
  BY <1>2, QuietMove, OutboundAssumption DEF ReplayRow, MovesOnly, FaultOnly, storeVars, ghostVars, Take
<1>3. CASE RefuseRequest(f)
  BY <1>3, QuietMove, OutboundAssumption DEF RefuseRequest, MovesOnly, FaultOnly, storeVars, ghostVars, Goto
<1>4. CASE Prepare(f)
  BY <1>4, QuietMove, OutboundAssumption DEF Prepare, Take, storeVars, ghostVars
<1>5. CASE PrepareFails(f)
  BY <1>5, QuietMove, OutboundAssumption DEF PrepareFails, MovesOnly, FaultOnly, storeVars, ghostVars, GotoWith
<1>6. CASE RecordPath(f)
  <2>1. Mine(f) \in Ids /\ row[Mine(f)] \in RowType /\ job[f].path \in Nat
    BY <1>6, JobAt, OutboundAssumption DEF RecordPath, Resting, StoreTypeOK, JobType
  <2> DEFINE r == [row[Mine(f)] EXCEPT !.phase = "prepared", !.path = job[f].path,
                                      !.live = TRUE, !.due = TRUE]
  <2>2. row[Mine(f)].owner = f /\ row' = [row EXCEPT ![Mine(f)] = r]
    BY <1>6 DEF RecordPath, SetPrepared, CanPrepare, Owns, Update
  <2>3. ~Spent(Mine(f))
    BY <1>6, <2>1 DEF RecordPath, SetPrepared, CanPrepare, SendOnce, SpentShows
  <2>4. r \in RowType /\ r.owner = f /\ r.phase = "prepared"
    BY <2>1, <2>2 DEF RowType, Phases
  <2>5. Move(f, "begin", job[f]) /\ sends' = sends /\ f \in Owners
    BY <1>6, OutboundAssumption DEF RecordPath, Goto, TransactOnly, ghostVars
  <2> HIDE DEF r
  <2>6. PICK m \in Ids : m = Mine(f)
    BY <2>1
  <2>7. /\ row' = [row EXCEPT ![m] = r] /\ sends' = sends /\ f \in Owners
        /\ r \in RowType /\ r.owner \in {f, NoOwner} /\ r.phase # "unknown"
        /\ r.phase \in {"created", "prepared"} => ~Spent(m)
    BY <2>2, <2>3, <2>4, <2>5, <2>6
  <2>8. Move(f, "begin", job[f])
    BY <2>5
  <2>9. QED
    BY <2>7, <2>8, QuietWrite
<1>7. CASE PrepareLost(f)
  BY <1>7, QuietMove, OutboundAssumption DEF PrepareLost, MovesOnly, FaultOnly, storeVars, ghostVars, Leave, Goto
<1>8. QED
  BY <1>1, <1>2, <1>3, <1>4, <1>5, <1>6, <1>7 DEF FinalizerStep

LEMMA DecisionRange ==
    ASSUME NEW w
    PROVE  Decision(w) \in {<<"defer", "unknown">>, <<"finish", "sent">>, <<"begin", "none">>,
                            <<"defer", "uncertain">>}
BY DEF Decision

LEMMA WorkerSendOnce ==
    ASSUME IInv, NEW w \in Workers, WorkerStep(w) PROVE SendOnce'
<1> USE TypeParts DEF IInv
<1>1. CASE StartWorker(w)
  BY <1>1, QuietMove, OutboundAssumption DEF StartWorker, MovesOnly, FaultOnly, storeVars, ghostVars, Goto
<1>2. CASE ReplayEvent(w)
  <2>1. PICK m \in Ids : ClaimEvent(m, w) /\ Take(w, m, NoPath, "publish", "none")
    BY <1>2 DEF ReplayEvent
  <2> DEFINE r == [row[m] EXCEPT !.owner = w, !.live = TRUE]
             j == [id |-> m, path |-> NoPath, todo |-> "none"]
  <2>2. w \in Owners /\ r \in RowType /\ r.owner = w /\ r.phase = row[m].phase
    BY OutboundAssumption DEF StoreTypeOK, RowType
  <2>3. row[m].phase = "complete" /\ row' = [row EXCEPT ![m] = r]
    BY <2>1 DEF ClaimEvent, PendingEvents, Update
  <2>4. Move(w, "publish", j) /\ sends' = sends
    BY <1>2, <2>1 DEF ReplayEvent, Take, TransactOnly, ghostVars
  <2> HIDE DEF r, j
  <2>5. QED
    BY <2>2, <2>3, <2>4, QuietWrite
<1>3. CASE NoEvent(w)
  BY <1>3, QuietMove, OutboundAssumption DEF NoEvent, MovesOnly, FaultOnly, storeVars, ghostVars, Goto
<1>4. CASE Recover(w)
  <2>1. PICK m \in Ids :
          /\ ClaimDue(m, w)
          /\ \/ Take(w, m, row[m].path, "finish", "failed")
             \/ row[m].phase = "prepared" /\ Take(w, m, row[m].path, "inspect", "prepared")
             \/ Take(w, m, row[m].path, "inspect", "uncertain")
    BY <1>4 DEF Recover
  <2> DEFINE r == [row[m] EXCEPT !.owner = w, !.live = TRUE, !.due = TRUE]
             j(todo) == [id |-> m, path |-> row[m].path, todo |-> todo]
  <2>2. w \in Owners /\ r \in RowType /\ r.owner = w /\ r.phase = row[m].phase
    BY OutboundAssumption DEF StoreTypeOK, RowType
  <2>3. row[m].phase \in {"created", "prepared"} => ~Spent(m)
    BY DEF SendOnce, SpentShows
  <2>4. row[m].phase # "unknown" /\ row' = [row EXCEPT ![m] = r] /\ sends' = sends
    BY <1>4, <2>1 DEF Recover, ClaimDue, DueForRecovery, RecoverablePhases, Update, TransactOnly,
                      ghostVars
  <2>5. \/ Move(w, "finish", j("failed"))
        \/ row[m].phase = "prepared" /\ Move(w, "inspect", j("prepared"))
        \/ Move(w, "inspect", j("uncertain"))
    BY <2>1 DEF Take
  <2>6. \A todo : j(todo).id = m /\ j(todo).todo = todo
    OBVIOUS
  <2> HIDE DEF r, j
  <2>7. PICK point \in {"finish", "inspect"}, todo \in {"failed", "prepared", "uncertain"} :
          /\ Move(w, point, j(todo))
          /\ point = "inspect" /\ todo = "prepared" => r.phase = "prepared"
    BY <2>2, <2>5
  <2>8. /\ r.phase \in {"created", "prepared"} => ~Spent(m)
        /\ r.phase # "unknown"
        /\ point = "inspect" /\ j(todo).todo = "prepared" => j(todo).id = m /\ r.phase = "prepared"
    BY <2>2, <2>3, <2>4, <2>6, <2>7
  <2>9. QED
    BY <2>2, <2>4, <2>7, <2>8, QuietWrite
<1>5. CASE NothingDue(w)
  BY <1>5, QuietMove, OutboundAssumption DEF NothingDue, MovesOnly, FaultOnly, storeVars, ghostVars, Goto
<1>6. CASE Inspect(w)
  <2>1. PICK point \in {"defer", "finish", "begin"}, todo \in {"unknown", "sent", "none", "uncertain"} :
          GotoWith(w, point, todo)
    BY <1>6, DecisionRange DEF Inspect
  <2> DEFINE j == [job[w] EXCEPT !.todo = todo]
  <2>2. j.todo # "prepared"
    BY <1>6, <2>1, JobAt, OutboundAssumption DEF Inspect, Resting, JobType
  <2>3. w \in Owners /\ Move(w, point, j) /\ row' = row /\ sends' = sends
    BY <1>6, <2>1, OutboundAssumption DEF Inspect, GotoWith, MovesOnly, storeVars, ghostVars
  <2> HIDE DEF j
  <2>4. QED
    BY <2>1, <2>2, <2>3, QuietMove
<1>7. CASE InspectFails(w)
  <2>1. Mine(w) \in Ids /\ pc' = [pc EXCEPT ![w] = "defer"] /\ job' = [job EXCEPT ![w] = job[w]]
        /\ row' = row /\ sends' = sends
    BY <1>7, JobAt, OutboundAssumption DEF InspectFails, Goto, Move, FaultOnly, storeVars, ghostVars, Resting
  <2>2. \A q \in Owners, m \in Ids : Armed(q, m)' <=> Armed(q, m)
    BY <1>7, <2>1, OutboundAssumption DEF InspectFails, Armed, ProcOK, ProcTypeOK
  <2>3. \A m \in Ids : Spent(m)' <=> Spent(m)
    BY <1>7, <2>1, <2>2 DEF Spent
  <2>4. RetreatIsSafe'
    BY <1>7, <2>1, <2>3, OutboundAssumption DEF InspectFails, SendOnce, RetreatIsSafe, SpentShows, Owns, ProcOK, ProcTypeOK
  <2>5. QED
    BY <1>7, <2>1, <2>2, <2>3, <2>4 DEF SendOnce, AtMostOneSend, ArmedOnce, SpentShows, UnknownIsUnowned
<1>8. QED
  BY <1>1, <1>2, <1>3, <1>4, <1>5, <1>6, <1>7 DEF WorkerStep

LEMMA SendSendOnce ==
    ASSUME IInv, NEW p \in Owners, SendStep(p) PROVE SendOnce'
<1> USE TypeParts DEF IInv
<1>1. CASE Begin(p)
  <2>1. PICK m \in Ids : /\ m = Mine(p) /\ Owns(m, p) /\ row[m].phase = "prepared" /\ row[m] \in RowType
                     /\ row' = [row EXCEPT ![m] = [row[m] EXCEPT !.phase = "send_started", !.live = TRUE,
                                                                !.due = TRUE]]
                     /\ pc' = [pc EXCEPT ![p] = "call"] /\ job' = [job EXCEPT ![p] = job[p]]
                     /\ sends' = sends
    BY <1>1, JobAt DEF Begin, BeginSend, CanBegin, Update, Goto, Move, TransactOnly, ghostVars, Resting, StoreTypeOK
  <2>2. sends[m] = 0 /\ \A q \in Owners : ~Armed(q, m)
    BY <1>1, <2>1 DEF SendOnce, SpentShows, Spent, GhostTypeOK
  <2>3. \A q \in Owners, n \in Ids : Armed(q, n)' <=> Armed(q, n) \/ (q = p /\ n = m)
    BY <1>1, <2>1 DEF Armed, Begin, Mine, ProcOK, ProcTypeOK
  <2>4. ArmedOnce'
    BY <1>1, <2>1, <2>2, <2>3 DEF SendOnce, ArmedOnce
  <2>5. \A n \in Ids : n # m => (Spent(n)' <=> Spent(n)) /\ row'[n] = row[n]
    BY <1>1, <2>1, <2>3 DEF Spent, StoreTypeOK
  <2>6. row'[m].phase = "send_started" /\ row'[m].owner = p
    BY <1>1, <2>1 DEF StoreTypeOK, RowType, Owns
  <2>7. SpentShows' /\ UnknownIsUnowned' /\ AtMostOneSend'
    BY <1>1, <2>1, <2>5, <2>6 DEF SendOnce, SpentShows, UnknownIsUnowned, AtMostOneSend
  <2>8. RetreatIsSafe'
    BY <1>1, <2>1, <2>5, <2>6 DEF SendOnce, RetreatIsSafe, Owns, ProcOK, ProcTypeOK, Mine
  <2>9. QED
    BY <1>1, <2>4, <2>7, <2>8 DEF SendOnce
<1>2. CASE BeginLost(p)
  BY <1>2, QuietMove, OutboundAssumption DEF BeginLost, MovesOnly, FaultOnly, storeVars, ghostVars, Leave, Goto
<1>3. CASE NotAttempted(p)
  <2>1. PICK m \in Ids : /\ m = Mine(p) /\ Armed(p, m) /\ pc' = [pc EXCEPT ![p] = "defer"]
                     /\ job' = [job EXCEPT ![p] = [job[p] EXCEPT !.todo = "prepared"]]
                     /\ row' = row /\ sends' = sends
    BY <1>3, JobAt DEF NotAttempted, GotoWith, Move, FaultOnly, storeVars, ghostVars, Resting, Armed, Mine
  <2>2. \A q \in Owners, n \in Ids : Armed(q, n)' <=> Armed(q, n) /\ q # p
    BY <1>3, <2>1 DEF Armed, ProcOK, ProcTypeOK, JobType
  <2>3. \A n \in Ids : Spent(n)' => Spent(n)
    BY <1>3, <2>1, <2>2 DEF Spent
  <2>4. ~Spent(m)'
    BY <1>3, <2>1, <2>2 DEF Spent, SendOnce, ArmedOnce, GhostTypeOK
  <2>5. ArmedOnce' /\ SpentShows' /\ UnknownIsUnowned' /\ AtMostOneSend'
    BY <1>3, <2>1, <2>2, <2>3 DEF SendOnce, ArmedOnce, SpentShows, UnknownIsUnowned, AtMostOneSend
  <2>6. RetreatIsSafe'
    BY <1>3, <2>1, <2>3, <2>4 DEF SendOnce, RetreatIsSafe, Owns, ProcOK, ProcTypeOK, JobType, Mine
  <2>7. QED
    BY <1>3, <2>5, <2>6 DEF SendOnce
<1>4. CASE CallSend(p)
  <2>1. PICK m \in Ids : /\ m = Mine(p) /\ Armed(p, m) /\ pc' = [pc EXCEPT ![p] = "reply"]
                     /\ \E todo \in {"taken", "refused", "lost"} :
                            job' = [job EXCEPT ![p] = [job[p] EXCEPT !.todo = todo]]
                     /\ row' = row /\ sends' = [sends EXCEPT ![m] = @ + 1]
    BY <1>4, JobAt DEF CallSend, Called, GotoWith, Move, storeVars, Resting, Armed, Mine
  <2>2. \A q \in Owners, n \in Ids : Armed(q, n)' <=> Armed(q, n) /\ q # p
    BY <1>4, <2>1 DEF Armed, ProcOK, ProcTypeOK, JobType
  <2>3. sends[m] = 0 /\ \A q \in Owners : ~Armed(q, m)'
    BY <1>4, <2>1, <2>2 DEF SendOnce, ArmedOnce
  <2>4. \A n \in Ids : sends'[n] = IF n = m THEN 1 ELSE sends[n]
    BY <1>4, <2>1, <2>3 DEF GhostTypeOK
  <2>5. \A n \in Ids : Spent(n)' <=> Spent(n)
    BY <1>4, <2>1, <2>2, <2>4 DEF Spent, Armed, ProcOK, ProcTypeOK
  <2>6. AtMostOneSend' /\ ArmedOnce'
    BY <1>4, <2>2, <2>3, <2>4 DEF SendOnce, AtMostOneSend, ArmedOnce
  <2>7. SpentShows' /\ UnknownIsUnowned'
    BY <1>4, <2>1, <2>5 DEF SendOnce, SpentShows, UnknownIsUnowned
  <2>8. RetreatIsSafe'
    BY <1>4, <2>1, <2>5 DEF SendOnce, RetreatIsSafe, Owns, ProcOK, ProcTypeOK, JobType
  <2>9. QED
    BY <1>4, <2>6, <2>7, <2>8 DEF SendOnce
<1>5. CASE Accepted(p)
  BY <1>5, QuietMove, OutboundAssumption DEF Accepted, MovesOnly, FaultOnly, storeVars, ghostVars, GotoWith
<1>6. CASE Rejected(p)
  BY <1>6, QuietMove, OutboundAssumption DEF Rejected, MovesOnly, FaultOnly, storeVars, ghostVars, GotoWith
<1>7. CASE Unanswered(p)
  <2>1. [job[p] EXCEPT !.todo = "uncertain"].todo = "uncertain"
    BY <1>7, JobAt DEF Unanswered, Resting, JobType
  <2>2. QED
    BY <1>7, <2>1, QuietMove DEF Unanswered, GotoWith, storeVars, ghostVars
<1>8. QED
  BY <1>1, <1>2, <1>3, <1>4, <1>5, <1>6, <1>7 DEF SendStep

LEMMA SettleSendOnce ==
    ASSUME IInv, NEW p \in Owners, SettleStep(p) PROVE SendOnce'
<1> USE TypeParts DEF IInv
<1>1. CASE FinishRow(p)
  <2>1. Mine(p) \in Ids /\ row[Mine(p)] \in RowType /\ job[p].todo \in Terminal
    BY <1>1, JobAt DEF FinishRow, Resting, StoreTypeOK, ProcOK, JobsOK, JobOK
  <2> DEFINE r == [row[Mine(p)] EXCEPT !.status = job[p].todo, !.phase = "complete", !.due = TRUE]
  <2>2. row[Mine(p)].owner = p /\ row' = [row EXCEPT ![Mine(p)] = r]
    BY <1>1 DEF FinishRow, Finish, Owns, Update
  <2>3. r \in RowType /\ r.owner = p /\ r.phase = "complete"
    BY <2>1, <2>2 DEF RowType, Statuses, Phases, Terminal
  <2>4. Move(p, "publish", job[p]) /\ sends' = sends
    BY <1>1 DEF FinishRow, Goto, TransactOnly, ghostVars
  <2> HIDE DEF r
  <2>5. PICK m \in Ids : m = Mine(p)
    BY <2>1
  <2>6. /\ row' = [row EXCEPT ![m] = r] /\ sends' = sends
        /\ r \in RowType /\ r.owner \in {p, NoOwner} /\ r.phase # "unknown"
        /\ r.phase \in {"created", "prepared"} => ~Spent(m)
    BY <2>2, <2>3, <2>4, <2>5
  <2>7. Move(p, "publish", job[p])
    BY <2>4
  <2>8. QED
    BY <2>6, <2>7, QuietWrite
<1>2. CASE FinishLost(p)
  BY <1>2, QuietMove DEF FinishLost, Leave, Goto, MovesOnly, storeVars, ghostVars
<1>3. CASE Publish(p)
  BY <1>3, QuietMove DEF Publish, Goto, storeVars
<1>4. CASE Ack(p)
  <2>1. Mine(p) \in Ids /\ row[Mine(p)] \in RowType
    BY <1>4, JobAt DEF Ack, Resting, StoreTypeOK
  <2> DEFINE r == [row[Mine(p)] EXCEPT !.phase = "none", !.owner = NoOwner, !.live = FALSE]
  <2>2. r \in RowType /\ r.owner = NoOwner /\ r.phase = "none"
    BY <2>1 DEF RowType, Phases
  <2>3. row' = [row EXCEPT ![Mine(p)] = r] /\ sends' = sends
    BY <1>4 DEF Ack, Acknowledge, Update, TransactOnly, ghostVars
  <2>4. Move(p, "idle", job[p]) \/ Move(p, "done", job[p])
    BY <1>4 DEF Ack, Leave, Goto
  <2> HIDE DEF r
  <2>5. QED
    BY <2>1, <2>2, <2>3, <2>4, QuietWrite
<1>5. CASE AckLost(p)
  BY <1>5, QuietMove, OutboundAssumption DEF AckLost, MovesOnly, FaultOnly, storeVars, ghostVars, Leave, Goto
<1>6. CASE DeferRow(p)
  <2>1. Mine(p) \in Ids /\ row[Mine(p)] \in RowType /\ job[p].todo \in {"prepared", "uncertain", "unknown"}
    BY <1>6, JobAt DEF DeferRow, Resting, StoreTypeOK, ProcOK, JobsOK, JobOK
  <2> DEFINE next == (job[p].todo = "unknown")
             r == [row[Mine(p)] EXCEPT !.phase = job[p].todo, !.owner = NoOwner, !.live = FALSE,
                                       !.due = next]
  <2>2. next \in BOOLEAN
    OBVIOUS
  <2>3. row' = [row EXCEPT ![Mine(p)] = r] /\ sends' = sends
    BY <1>6 DEF DeferRow, Defer, Update, TransactOnly, ghostVars
  <2> HIDE DEF next
  <2>4. r \in RowType /\ r.owner = NoOwner /\ r.phase = job[p].todo
    BY <2>1, <2>2 DEF RowType, Phases
  <2>5. job[p].todo = "prepared" => ~Spent(Mine(p))
    BY <1>6, <2>1 DEF DeferRow, Defer, SendOnce, RetreatIsSafe, Mine
  <2>6. Move(p, "idle", job[p]) \/ Move(p, "done", job[p])
    BY <1>6 DEF DeferRow, Leave, Goto
  <2> HIDE DEF r
  <2>7. PICK m \in Ids : m = Mine(p)
    BY <2>1
  <2>8. /\ row' = [row EXCEPT ![m] = r] /\ sends' = sends
        /\ r \in RowType /\ r.owner = NoOwner
        /\ r.phase \in {"created", "prepared"} => ~Spent(m)
    BY <2>1, <2>3, <2>4, <2>5, <2>7
  <2>9. PICK point \in {"idle", "done"} : Move(p, point, job[p])
    BY <2>6
  <2>10. QED
    BY <2>8, <2>9, QuietWrite
<1>7. CASE DeferLost(p)
  BY <1>7, QuietMove DEF DeferLost, Leave, Goto, storeVars
<1>8. QED
  BY <1>1, <1>2, <1>3, <1>4, <1>5, <1>6, <1>7 DEF SettleStep

LEMMA ProcessSendOnce ==
    ASSUME IInv, NEW p \in Owners, Heartbeat(p) \/ Crash(p) \/ StoreFails(p) PROVE SendOnce'
<1> USE TypeParts DEF IInv
<1>1. CASE Heartbeat(p)
  BY <1>1, QuietRows DEF Heartbeat, Renew, Update, procVars, ghostVars, StoreTypeOK, RowType
<1>2. CASE Crash(p)
  BY <1>2, QuietMove, OutboundAssumption DEF Crash, MovesOnly, FaultOnly, storeVars, ghostVars, Goto
<1>3. CASE StoreFails(p)
  BY <1>3, QuietMove, OutboundAssumption DEF StoreFails, MovesOnly, FaultOnly, storeVars, ghostVars, Leave, Goto
<1>4. QED
  BY <1>1, <1>2, <1>3 DEF IInv

LEMMA EnvironmentSendOnce ==
    ASSUME IInv, ModemStep \/ CleanupStep \/ TimeStep \/ UNCHANGED vars PROVE SendOnce'
<1> USE TypeParts, QuietRows DEF IInv, ProcOK, ProcTypeOK, JobType
<1>1. CASE ModemStep
  BY <1>1 DEF ModemStep, RadioSends, RadioRefuses, SmsRemoved, ModemRestarts, AnswerAt,
              storeVars, ghostVars
<1>2. CASE CleanupStep
  BY <1>2 DEF CleanupStep, OperatorDeletes, RetentionDeletes, KeyPruned, Delete, RetentionDelete,
              Prune, procVars, ghostVars, StoreTypeOK
<1>3. CASE TimeStep
  BY <1>3 DEF TimeStep, LeaseLapses, RetryDue, Lapse, BecomesDue, Update, procVars, ghostVars,
              StoreTypeOK, RowType
<1>4. CASE UNCHANGED vars
  BY <1>4 DEF vars, storeVars, procVars, ghostVars
<1>5. QED
  BY <1>1, <1>2, <1>3, <1>4

(***************************************************************************)
(* Fresh ids.  Ids the sequence has not given out are untouched: whoever     *)
(* writes a row found it there first.                                      *)
(***************************************************************************)
LEMMA FreshKept ==
    ASSUME IInv, nextId' = nextId,
           \A m \in Ids : m >= nextId => row'[m] \in {row[m], Blank} /\ sends'[m] = sends[m],
           \A p \in Owners : job'[p].id = job[p].id \/ job'[p].id < nextId,
           \A k \in Keys : idem'[k].msg = idem[k].msg \/ idem'[k].msg < nextId
    PROVE  FreshIds'
BY DEF IInv, FreshIds

LEMMA InUse ==
    ASSUME IInv, NEW m \in Ids, row[m].status # "absent" \/ row[m].owner # NoOwner
    PROVE  m < nextId
BY TypeParts DEF IInv, FreshIds, Blank, StoreTypeOK, Ids

\* A process moves, keeping its message or taking one that is in use.
LEMMA FreshMove ==
    ASSUME IInv, NEW p \in Owners, NEW point, NEW j, Move(p, point, j), j.id < nextId,
           UNCHANGED storeVars, sends' = sends
    PROVE  FreshIds'
<1>1. \A q \in Owners : job'[q].id = job[q].id \/ job'[q].id < nextId
  BY TypeParts DEF IInv, Move, ProcOK, ProcTypeOK
<1>2. QED
  BY <1>1, FreshKept DEF storeVars

\* The same with a write of row n, which is in use.
LEMMA FreshWrite ==
    ASSUME IInv, NEW p \in Owners, NEW n \in Ids, NEW r,
           NEW point, NEW j, Move(p, point, j), j.id < nextId,
           Update(n, r), n < nextId, sends' = sends
    PROVE  FreshIds'
<1>1. \A q \in Owners : job'[q].id = job[q].id \/ job'[q].id < nextId
  BY TypeParts DEF IInv, Move, ProcOK, ProcTypeOK
<1>2. \A m \in Ids : m >= nextId => row'[m] = row[m]
  BY TypeParts DEF IInv, Update, StoreTypeOK, Ids
<1>3. idem' = idem /\ nextId' = nextId
  BY DEF Update
<1>4. QED
  BY <1>1, <1>2, <1>3, FreshKept

LEMMA FinalizerFresh ==
    ASSUME IInv, NEW f \in Requests, FinalizerStep(f) PROVE FreshIds'
<1>0. f \in Owners /\ job[f].id < nextId /\ nextId \in Nat
  BY TypeParts, OutboundAssumption DEF IInv, FreshIds, StoreTypeOK
<1>1. CASE CreateRow(f)
  <2>1. PICK m \in Ids : Insert(m, f, KeyOf[f], ContentOf[f]) /\ Take(f, m, NoPath, "prepare", "none")
    BY <1>1 DEF CreateRow
  <2>2. m = nextId /\ nextId' = nextId + 1 /\ sends' = sends
    BY <1>1, <2>1 DEF CreateRow, Insert
  <2>3. ASSUME NEW n \in Ids, n >= nextId' PROVE row'[n] = Blank /\ sends'[n] = 0
    BY <1>0, <2>1, <2>2, <2>3, TypeParts DEF IInv, FreshIds, Insert, StoreTypeOK, Ids
  <2>4. ASSUME NEW q \in Owners PROVE job'[q].id < nextId'
    BY <1>0, <2>1, <2>2, TypeParts DEF IInv, FreshIds, Take, Move, ProcOK, ProcTypeOK, JobType, Ids, NoId
  <2>5. ASSUME NEW k \in Keys PROVE idem'[k].msg < nextId'
    BY <1>0, <2>1, <2>2, TypeParts DEF IInv, FreshIds, Insert, StoreTypeOK, IdemType, Ids, NoId
  <2>6. QED
    BY <2>3, <2>4, <2>5 DEF FreshIds
<1>2. CASE ReplayRow(f)
  <2>1. KeyOf[f] \in Keys
    BY <1>2, OutboundAssumption DEF ReplayRow, Replayable, KeyInUse
  <2>2. idem[KeyOf[f]].msg < nextId
    BY <2>1 DEF IInv, FreshIds
  <2>3. QED
    BY <1>0, <1>2, <2>2, FreshMove DEF ReplayRow, MovesOnly, ghostVars, Take
<1>3. CASE RefuseRequest(f)
  BY <1>0, <1>3, FreshMove DEF RefuseRequest, MovesOnly, ghostVars, Goto
<1>4. CASE Prepare(f)
  BY <1>0, <1>4, FreshMove DEF Prepare, Take, ghostVars, Mine
<1>5. CASE PrepareFails(f)
  <2>1. [job[f] EXCEPT !.todo = "failed"].id = job[f].id
    BY <1>0, TypeParts DEF ProcOK, ProcTypeOK, JobType
  <2>2. QED
    BY <1>0, <1>5, <2>1, FreshMove DEF PrepareFails, ghostVars, GotoWith
<1>6. CASE RecordPath(f)
  <2>1. Mine(f) \in Ids
    BY <1>0, <1>6, JobAt, TypeParts DEF IInv, RecordPath, Resting
  <2>2. QED
    BY <1>0, <1>6, <2>1, FreshWrite DEF RecordPath, SetPrepared, Goto, TransactOnly, ghostVars, Mine
<1>7. CASE PrepareLost(f)
  BY <1>0, <1>7, FreshMove DEF PrepareLost, MovesOnly, ghostVars, Leave, Goto
<1>8. QED
  BY <1>1, <1>2, <1>3, <1>4, <1>5, <1>6, <1>7 DEF FinalizerStep

LEMMA WorkerFresh ==
    ASSUME IInv, NEW w \in Workers, WorkerStep(w) PROVE FreshIds'
<1>0. w \in Owners /\ job[w].id < nextId
  BY OutboundAssumption DEF IInv, FreshIds
<1>1. CASE StartWorker(w)
  BY <1>0, <1>1, FreshMove DEF StartWorker, MovesOnly, ghostVars, Goto
<1>2. CASE ReplayEvent(w)
  <2>1. PICK m \in Ids : ClaimEvent(m, w) /\ Take(w, m, NoPath, "publish", "none")
    BY <1>2 DEF ReplayEvent
  <2>2. m < nextId
    BY <2>1, InUse DEF ClaimEvent, PendingEvents, Terminal
  <2>3. QED
    BY <1>0, <1>2, <2>1, <2>2, FreshWrite DEF ReplayEvent, ClaimEvent, Take, TransactOnly, ghostVars
<1>3. CASE NoEvent(w)
  BY <1>0, <1>3, FreshMove DEF NoEvent, MovesOnly, ghostVars, Goto
<1>4. CASE Recover(w)
  <2>1. PICK m \in Ids, point \in Points, todo \in Todos :
          ClaimDue(m, w) /\ Take(w, m, row[m].path, point, todo)
    BY <1>4 DEF Recover, Points, Todos
  <2>2. m < nextId
    BY <2>1, InUse DEF ClaimDue, DueForRecovery
  <2>3. QED
    BY <1>0, <1>4, <2>1, <2>2, FreshWrite DEF Recover, ClaimDue, Take, TransactOnly, ghostVars
<1>5. CASE NothingDue(w)
  BY <1>0, <1>5, FreshMove DEF NothingDue, MovesOnly, ghostVars, Goto
<1>6. CASE Inspect(w)
  <2>1. [job[w] EXCEPT !.todo = Decision(w)[2]].id = job[w].id
    BY <1>0, TypeParts DEF IInv, ProcOK, ProcTypeOK, JobType
  <2>2. QED
    BY <1>0, <1>6, <2>1, FreshMove DEF Inspect, GotoWith, MovesOnly, ghostVars
<1>7. CASE InspectFails(w)
  BY <1>0, <1>7, FreshMove DEF InspectFails, FaultOnly, ghostVars, Goto
<1>8. QED
  BY <1>1, <1>2, <1>3, <1>4, <1>5, <1>6, <1>7 DEF WorkerStep

LEMMA SendFresh ==
    ASSUME IInv, NEW p \in Owners, SendStep(p) PROVE FreshIds'
<1>0. /\ job[p].id < nextId
      /\ \A todo : [job[p] EXCEPT !.todo = todo].id = job[p].id
  BY TypeParts DEF IInv, FreshIds, ProcOK, ProcTypeOK, JobType
<1>1. CASE Begin(p)
  <2>1. Mine(p) \in Ids
    BY <1>1, JobAt, TypeParts DEF IInv, Begin, Resting
  <2>2. QED
    BY <1>0, <1>1, <2>1, FreshWrite DEF Begin, BeginSend, Goto, TransactOnly, ghostVars, Mine
<1>2. CASE BeginLost(p)
  BY <1>0, <1>2, FreshMove DEF BeginLost, MovesOnly, ghostVars, Leave, Goto
<1>3. CASE NotAttempted(p)
  BY <1>0, <1>3, FreshMove DEF NotAttempted, FaultOnly, ghostVars, GotoWith
<1>4. CASE CallSend(p)
  <2>1. PICK todo \in {"taken", "refused", "lost"} : GotoWith(p, "reply", todo)
    BY <1>4 DEF CallSend
  <2>2. \A q \in Owners : job'[q].id = job[q].id
    BY <1>0, <2>1, TypeParts DEF GotoWith, Move, ProcOK, ProcTypeOK
  <2>3. PICK n \in Ids : n = Mine(p)
    BY <1>4, JobAt, TypeParts DEF IInv, CallSend, Resting
  <2>4. n < nextId /\ sends' = [sends EXCEPT ![n] = @ + 1] /\ UNCHANGED storeVars
    BY <1>0, <1>4, <2>3 DEF CallSend, Called, Mine
  <2>5. \A m \in Ids : m >= nextId => sends'[m] = sends[m]
    BY <2>4, TypeParts DEF IInv, GhostTypeOK, StoreTypeOK, Ids
  <2>6. QED
    BY <2>2, <2>4, <2>5, FreshKept DEF storeVars
<1>5. CASE Accepted(p)
  BY <1>0, <1>5, FreshMove DEF Accepted, MovesOnly, ghostVars, GotoWith
<1>6. CASE Rejected(p)
  BY <1>0, <1>6, FreshMove DEF Rejected, MovesOnly, ghostVars, GotoWith
<1>7. CASE Unanswered(p)
  BY <1>0, <1>7, FreshMove DEF Unanswered, ghostVars, GotoWith
<1>8. QED
  BY <1>1, <1>2, <1>3, <1>4, <1>5, <1>6, <1>7 DEF SendStep

LEMMA SettleFresh ==
    ASSUME IInv, NEW p \in Owners, SettleStep(p) PROVE FreshIds'
<1>0. job[p].id < nextId
  BY DEF IInv, FreshIds
<1> USE DEF Goto, Leave
<1>1. CASE FinishRow(p)
  <2>1. Mine(p) \in Ids
    BY <1>1, JobAt, TypeParts DEF IInv, FinishRow, Resting
  <2>2. QED
    BY <1>0, <1>1, <2>1, FreshWrite DEF FinishRow, Finish, TransactOnly, ghostVars, Mine
<1>2. CASE FinishLost(p)
  <2>1. \E point : Move(p, point, job[p])
    BY <1>2 DEF FinishLost
  <2>2. QED
    BY <1>0, <1>2, <2>1, FreshMove DEF FinishLost, MovesOnly, ghostVars
<1>3. CASE Publish(p)
  BY <1>0, <1>3, FreshMove DEF Publish
<1>4. CASE Ack(p)
  <2>1. Mine(p) \in Ids
    BY <1>4, JobAt, TypeParts DEF IInv, Ack, Resting
  <2>2. QED
    BY <1>0, <1>4, <2>1, FreshWrite DEF Ack, Acknowledge, TransactOnly, ghostVars, Mine
<1>5. CASE AckLost(p)
  BY <1>0, <1>5, FreshMove DEF AckLost, MovesOnly, ghostVars
<1>6. CASE DeferRow(p)
  <2>1. Mine(p) \in Ids
    BY <1>6, JobAt, TypeParts DEF IInv, DeferRow, Resting
  <2>2. QED
    BY <1>0, <1>6, <2>1, FreshWrite DEF DeferRow, Defer, TransactOnly, ghostVars, Mine
<1>7. CASE DeferLost(p)
  BY <1>0, <1>7, FreshMove DEF DeferLost
<1>8. QED
  BY <1>1, <1>2, <1>3, <1>4, <1>5, <1>6, <1>7 DEF SettleStep

LEMMA ProcessFresh ==
    ASSUME IInv, NEW p \in Owners, Heartbeat(p) \/ Crash(p) \/ StoreFails(p) PROVE FreshIds'
<1>0. job[p].id < nextId
  BY DEF IInv, FreshIds
<1>1. CASE Heartbeat(p)
  <2>1. Mine(p) \in Ids /\ Mine(p) < nextId
    BY <1>0, <1>1, JobAt, TypeParts DEF IInv, Heartbeat, Awaiting, Resting, Mine
  <2>2. \A m \in Ids : m >= nextId => row'[m] = row[m]
    BY <1>1, <2>1, TypeParts DEF IInv, Heartbeat, Renew, Update, StoreTypeOK, Ids
  <2>3. QED
    BY <1>1, <2>2, FreshKept DEF Heartbeat, Renew, Update, procVars, ghostVars
<1>2. CASE Crash(p)
  BY <1>0, <1>2, FreshMove DEF Crash, FaultOnly, ghostVars, Goto
<1>3. CASE StoreFails(p)
  BY <1>0, <1>3, FreshMove DEF StoreFails, FaultOnly, ghostVars, Leave, Goto
<1>4. QED
  BY <1>1, <1>2, <1>3

LEMMA EnvironmentFresh ==
    ASSUME IInv, ModemStep \/ CleanupStep \/ TimeStep \/ UNCHANGED vars PROVE FreshIds'
<1> USE TypeParts DEF IInv
<1>1. CASE ModemStep
  <2>1. \A p \in Owners : job'[p].id = job[p].id
    BY <1>1 DEF ModemStep, RadioSends, RadioRefuses, SmsRemoved, ModemRestarts, AnswerAt, ProcOK,
                ProcTypeOK, JobType
  <2>2. UNCHANGED storeVars /\ sends' = sends
    BY <1>1 DEF ModemStep, RadioSends, RadioRefuses, SmsRemoved, ModemRestarts, ghostVars
  <2>3. QED
    BY <2>1, <2>2, FreshKept DEF storeVars
<1>2. CASE CleanupStep
  <2>1. \A m \in Ids : row'[m] \in {row[m], Blank}
    BY <1>2 DEF CleanupStep, OperatorDeletes, RetentionDeletes, KeyPruned, Delete, RetentionDelete,
                Prune, StoreTypeOK
  <2>2. \A k \in Keys : idem'[k].msg \in {idem[k].msg, NoId}
    <3>1. CASE \E m \in Ids : OperatorDeletes(m)
      BY <3>1 DEF OperatorDeletes, Delete, StoreTypeOK, IdemType
    <3>2. CASE \E m \in Ids : RetentionDeletes(m)
      <4>1. PICK m \in Ids : idem' = [k \in Keys |-> IF idem[k].msg = m
                                                    THEN [idem[k] EXCEPT !.used = FALSE, !.msg = NoId]
                                                    ELSE idem[k]]
        BY <3>2 DEF RetentionDeletes, RetentionDelete
      <4>2. ASSUME NEW k \in Keys PROVE idem'[k].msg \in {idem[k].msg, NoId}
        <5>1. idem[k] \in IdemType
          BY DEF StoreTypeOK
        <5>2. [idem[k] EXCEPT !.used = FALSE, !.msg = NoId].msg = NoId
          BY <5>1 DEF IdemType
        <5>3. QED
          BY <4>1, <5>2
      <4>3. QED
        BY <4>2
    <3>3. CASE \E k \in Keys : KeyPruned(k)
      BY <3>3 DEF KeyPruned, Prune, StoreTypeOK, IdemType
    <3>4. QED
      BY <1>2, <3>1, <3>2, <3>3 DEF CleanupStep
  <2>3. nextId' = nextId /\ job' = job /\ sends' = sends
    BY <1>2 DEF CleanupStep, OperatorDeletes, RetentionDeletes, KeyPruned, Delete, RetentionDelete,
                Prune, procVars, ghostVars
  <2>4. NoId < nextId
    BY DEF StoreTypeOK, NoId
  <2>5. QED
    BY <2>1, <2>2, <2>3, <2>4, FreshKept
<1>3. CASE TimeStep
  <2>1. PICK m \in Ids : LeaseLapses(m) \/ RetryDue(m)
    BY <1>3 DEF TimeStep
  <2>2. m < nextId
    BY <2>1, InUse DEF LeaseLapses, Lapse, RetryDue, BecomesDue
  <2>3. \E r : Update(m, r)
    BY <2>1 DEF LeaseLapses, Lapse, RetryDue, BecomesDue
  <2>4. \A n \in Ids : n >= nextId => row'[n] = row[n]
    BY <2>2, <2>3 DEF Update, StoreTypeOK, Ids
  <2>5. QED
    BY <2>1, <2>4, FreshKept DEF LeaseLapses, Lapse, RetryDue, BecomesDue, Update, procVars, ghostVars
<1>4. CASE UNCHANGED vars
  BY <1>4, FreshKept DEF vars, storeVars, procVars, ghostVars
<1>5. QED
  BY <1>1, <1>2, <1>3, <1>4

(***************************************************************************)
(* The inductive invariant, and what follows from it.                      *)
(***************************************************************************)
LEMMA InitIInv == Init => IInv
<1> SUFFICES ASSUME Init PROVE IInv
  OBVIOUS
<1>1. TypeInv
  BY InitTypeInv
<1>2. FreshIds
  BY StoreAssumption DEF Init, StoreInit, FreshIds, NoJob, NoId, Ids
<1>3. \A m \in Ids : ~Spent(m) /\ \A p \in Owners : ~Armed(p, m)
  BY DEF Init, Spent, Armed
<1>4. SendOnce
  BY <1>3 DEF Init, StoreInit, Blank, NoJob, SendOnce, AtMostOneSend, ArmedOnce, SpentShows,
              RetreatIsSafe, UnknownIsUnowned
<1>5. QED
  BY <1>1, <1>2, <1>4 DEF IInv

LEMMA NextIInv == IInv /\ [Next]_vars => IInv'
<1> SUFFICES ASSUME IInv, [Next]_vars PROVE IInv'
  OBVIOUS
<1>0. TypeInv'
  BY NextTypeInv DEF IInv
<1> SUFFICES FreshIds' /\ SendOnce'
  BY <1>0 DEF IInv
<1>1. ASSUME NEW f \in Requests, FinalizerStep(f) PROVE FreshIds' /\ SendOnce'
  BY <1>1, FinalizerFresh, FinalizerSendOnce
<1>2. ASSUME NEW w \in Workers, WorkerStep(w) PROVE FreshIds' /\ SendOnce'
  BY <1>2, WorkerFresh, WorkerSendOnce
<1>3. ASSUME NEW p \in Owners, SendStep(p) PROVE FreshIds' /\ SendOnce'
  BY <1>3, SendFresh, SendSendOnce
<1>4. ASSUME NEW p \in Owners, SettleStep(p) PROVE FreshIds' /\ SendOnce'
  BY <1>4, SettleFresh, SettleSendOnce
<1>5. ASSUME NEW p \in Owners, Heartbeat(p) \/ Crash(p) \/ StoreFails(p)
      PROVE  FreshIds' /\ SendOnce'
  BY <1>5, ProcessFresh, ProcessSendOnce
<1>6. CASE ModemStep \/ CleanupStep \/ TimeStep \/ UNCHANGED vars
  BY <1>6, EnvironmentFresh, EnvironmentSendOnce
<1>7. QED
  BY <1>1, <1>2, <1>3, <1>4, <1>5, <1>6 DEF Next

\* The whole inductive invariant holds in every run.
THEOREM InvariantHolds == Spec => []IInv
BY InitIInv, NextIInv, PTL DEF Spec

\* No run of finalizers, workers, crashes, lapsed leases, deletions and modem
\* restarts hands a message to the modem twice.
THEOREM SendAtMostOnce == Spec => []AtMostOneSend
<1>1. IInv => AtMostOneSend
  BY DEF IInv, SendOnce
<1>2. QED
  BY InvariantHolds, <1>1, PTL

-----------------------------------------------------------------------------
(***************************************************************************)
(* On top of IInv: what an idempotency key, an acknowledged event and a    *)
(* stored verdict may be relied on for, and that the whole keeps the       *)
(* promise of module OutboundPromise.                                      *)
(***************************************************************************)
(***************************************************************************)
(* What a move is.                                                         *)
(***************************************************************************)
LEMMA Moved ==
    ASSUME IInv, NEW p \in Owners, NEW point, NEW j, Move(p, point, j)
    PROVE  /\ pc'[p] = point /\ job'[p] = j
           /\ \A q \in Owners : q # p => pc'[q] = pc[q] /\ job'[q] = job[q]
BY TypeParts DEF IInv, ProcOK, ProcTypeOK, Move

LEMMA KeepsId ==
    ASSUME IInv, NEW p \in Owners, NEW todo
    PROVE  /\ [job[p] EXCEPT !.todo = todo].id = job[p].id
           /\ [job[p] EXCEPT !.todo = todo].path = job[p].path
           /\ [job[p] EXCEPT !.todo = todo].todo = todo
BY TypeParts DEF IInv, ProcOK, ProcTypeOK, JobType

LEMMA Went ==
    ASSUME IInv, NEW p \in Owners, NEW point, NEW todo, GotoWith(p, point, todo)
    PROVE  /\ pc'[p] = point /\ job'[p].todo = todo
           /\ job'[p].id = job[p].id /\ job'[p].path = job[p].path
<1> DEFINE j == [job[p] EXCEPT !.todo = todo]
<1>1. Move(p, point, j)
  BY DEF GotoWith
<1>2. pc'[p] = point /\ job'[p] = j
  BY <1>1, Moved
<1>3. j.id = job[p].id /\ j.path = job[p].path /\ j.todo = todo
  BY KeepsId
<1> QED
  BY <1>2, <1>3

(***************************************************************************)
(* What a write leaves in the row, lease and retry time apart.             *)
(***************************************************************************)
Wrote(m, status, phase, owner, path) ==
    /\ row'[m].status = status
    /\ row'[m].phase = phase
    /\ row'[m].owner = owner
    /\ row'[m].path = path
    /\ \A n \in Ids : n # m => row'[n] = row[n]

LEMMA Written ==
    ASSUME IInv, NEW m \in Ids, NEW o, NEW x
    PROVE  /\ Renew(m, o) \/ Lapse(m) \/ BecomesDue(m)
                => Wrote(m, row[m].status, row[m].phase, row[m].owner, row[m].path)
           /\ ClaimDue(m, o)      => Wrote(m, "sending", row[m].phase, o, row[m].path)
           /\ SetPrepared(m, o, x) => Wrote(m, "sending", "prepared", o, x)
           /\ BeginSend(m, o)     => Wrote(m, "sending", "send_started", o, row[m].path)
           /\ Defer(m, o, x)      => Wrote(m, "sending", x, NoOwner, row[m].path)
           /\ Finish(m, o, x)     => Wrote(m, x, "complete", o, row[m].path)
           /\ ClaimEvent(m, o)    => Wrote(m, row[m].status, "complete", o, row[m].path)
           /\ Acknowledge(m, o)   => Wrote(m, row[m].status, "none", NoOwner, row[m].path)
<1>1. row \in [Ids -> RowType] /\ row[m] \in RowType
  BY TypeParts DEF IInv, StoreTypeOK
<1> USE <1>1 DEF Wrote, Update, RowType
<1>2. Renew(m, o) \/ Lapse(m) \/ BecomesDue(m)
        => Wrote(m, row[m].status, row[m].phase, row[m].owner, row[m].path)
  BY DEF Renew, Lapse, BecomesDue
<1>3. ClaimDue(m, o) => Wrote(m, "sending", row[m].phase, o, row[m].path)
  BY DEF ClaimDue, DueForRecovery
<1>4. SetPrepared(m, o, x) => Wrote(m, "sending", "prepared", o, x)
  BY DEF SetPrepared, CanPrepare, Owns
<1>5. BeginSend(m, o) => Wrote(m, "sending", "send_started", o, row[m].path)
  BY DEF BeginSend, CanBegin, Owns
<1>6. Defer(m, o, x) => Wrote(m, "sending", x, NoOwner, row[m].path)
  BY DEF Defer, Owns
<1>7. Finish(m, o, x) => Wrote(m, x, "complete", o, row[m].path)
  BY DEF Finish, Owns
<1>8. ClaimEvent(m, o) => Wrote(m, row[m].status, "complete", o, row[m].path)
  BY DEF ClaimEvent, PendingEvents
<1>9. Acknowledge(m, o) => Wrote(m, row[m].status, "none", NoOwner, row[m].path)
  BY DEF Acknowledge
<1> QED
  BY <1>2, <1>3, <1>4, <1>5, <1>6, <1>7, <1>8, <1>9

LEMMA InsertWrites ==
    ASSUME IInv, NEW m \in Ids, NEW o, NEW k, NEW c, Insert(m, o, k, c)
    PROVE  Wrote(m, "sending", "created", o, NoPath)
BY TypeParts DEF IInv, StoreTypeOK, Insert, Wrote

LEMMA DeletionWrites ==
    ASSUME IInv, NEW m \in Ids, Delete(m) \/ RetentionDelete(m)
    PROVE  Wrote(m, "absent", "none", NoOwner, NoPath) /\ row'[m] = Blank
<1>1. row' = [row EXCEPT ![m] = Blank] /\ row \in [Ids -> RowType]
  BY TypeParts DEF IInv, StoreTypeOK, Delete, RetentionDelete
<1> QED
  BY <1>1 DEF Wrote, Blank

(***************************************************************************)
(* Keys.  Only the creation of a row, the replay of a key and the cleanup  *)
(* touch what KeyInv is about; every other step keeps each request at its  *)
(* message.                                                                *)
(***************************************************************************)
KeepsRequests ==
    \A f \in Requests :
        job'[f].id = job[f].id /\ (pc'[f] = "off" => pc[f] = "off")

LEMMA KeyFrame ==
    ASSUME IInv, KeyInv, KeepsRequests,
           UNCHANGED <<idem, nextId, origin, lineage>>
    PROVE  KeyInv'
BY OutboundAssumption
DEF KeyInv, MadeOnce, RequestsServed, KeysOK, KeepsRequests

\* A process goes on with its message, or a worker with any.
LEMMA MoveKeeps ==
    ASSUME IInv, NEW p \in Owners, NEW point, NEW j, Move(p, point, j),
           point # "off", j.id = job[p].id \/ p \in Workers
    PROVE  KeepsRequests
BY Moved, OutboundAssumption DEF KeepsRequests

LEMMA GotoKeeps ==
    ASSUME IInv, NEW p \in Owners, NEW point, point # "off",
           \/ Goto(p, point)
           \/ \E todo : GotoWith(p, point, todo)
    PROVE  KeepsRequests
BY MoveKeeps, KeepsId DEF Goto, GotoWith

LEMMA LeaveKeeps ==
    ASSUME IInv, NEW p \in Owners, Leave(p) PROVE KeepsRequests
BY GotoKeeps DEF Leave

\* A new message is made for a request that had none.
LEMMA CreateKeys ==
    ASSUME IInv, KeyInv, NEW f \in Requests, CreateRow(f) PROVE KeyInv'
<1> USE OutboundAssumption, StoreAssumption, TypeParts DEF IInv
<1>1. PICK m \in Ids :
        /\ Insert(m, f, KeyOf[f], ContentOf[f])
        /\ Take(f, m, NoPath, "prepare", "none")
        /\ origin' = [origin EXCEPT ![m] = f]
        /\ lineage' = IF KeyOf[f] = NoKey THEN lineage
                      ELSE [lineage EXCEPT ![KeyOf[f]] = @ \cup {m}]
  BY DEF CreateRow
<1>2. /\ pc'[f] = "prepare" /\ job'[f].id = m
      /\ \A q \in Owners : q # f => pc'[q] = pc[q] /\ job'[q] = job[q]
  BY <1>1, Moved DEF Take
<1>3. /\ m = nextId /\ nextId' = nextId + 1 /\ nextId \in Nat
      /\ ~KeyInUse(KeyOf[f])
  BY <1>1 DEF Insert, StoreTypeOK
<1>4. /\ origin'[m] = f
      /\ \A n \in Ids : n # m => origin'[n] = origin[n]
  BY <1>1 DEF GhostTypeOK
<1>5. job[f].id = NoId /\ \A n \in Ids : origin[n] # f
  BY DEF CreateRow, KeyInv, RequestsServed, MadeOnce, Ids, NoId
<1>6. MadeOnce'
  BY <1>2, <1>3, <1>4, <1>5 DEF KeyInv, MadeOnce, NoRequest, Ids
<1>7. \A n \in Ids : n < nextId => origin'[n] = origin[n]
  BY <1>3, <1>4 DEF Ids
<1>8. RequestsServed'
  <2>1. \A g \in Requests : job[g].id < nextId /\ job[g].id \in Ids \cup {NoId}
    BY DEF FreshIds, ProcOK, ProcTypeOK, JobType
  <2>2. ASSUME NEW g \in Requests, g # f
        PROVE  /\ pc'[g] = "off" => job'[g].id = NoId
               /\ job'[g].id # NoId => ContentOf[origin'[job'[g].id]] = ContentOf[g]
    BY <1>2, <1>7, <2>1, <2>2 DEF KeyInv, RequestsServed
  <2> QED
    BY <1>2, <1>4, <2>2 DEF RequestsServed
<1>9. KeysOK'
  <2>1. \A k \in Keys : idem[k].msg < nextId /\ idem[k].msg \in Ids \cup {NoId}
    BY DEF FreshIds, StoreTypeOK, IdemType
  <2>2. ASSUME NEW k \in Keys, k # KeyOf[f]
        PROVE  idem'[k] = idem[k] /\ lineage'[k] = lineage[k]
    BY <1>1, <2>2 DEF Insert, StoreTypeOK, GhostTypeOK
  <2>3. CASE KeyOf[f] \in Keys
    <3>1. ~idem[KeyOf[f]].used /\ lineage[KeyOf[f]] = {}
      BY <1>3, <2>3 DEF KeyInUse, KeyInv, KeysOK
    <3>2. idem'[KeyOf[f]] = [used |-> TRUE, msg |-> m, content |-> ContentOf[f]]
      BY <1>1, <2>3 DEF Insert, StoreTypeOK
    <3>3. lineage'[KeyOf[f]] = {m}
      BY <1>1, <2>3, <3>1 DEF GhostTypeOK
    <3> QED
      BY <1>4, <1>7, <2>1, <2>2, <3>2, <3>3 DEF KeyInv, KeysOK
  <2> QED
    BY <1>7, <2>1, <2>2, <2>3 DEF KeyInv, KeysOK
<1> QED
  BY <1>6, <1>8, <1>9 DEF KeyInv

\* A replayed request takes the message its key stands for.
LEMMA ReplayKeys ==
    ASSUME IInv, KeyInv, NEW f \in Requests, ReplayRow(f) PROVE KeyInv'
<1> USE OutboundAssumption
<1>1. /\ pc'[f] = "done" /\ job'[f].id = idem[KeyOf[f]].msg
      /\ \A q \in Owners : q # f => pc'[q] = pc[q] /\ job'[q] = job[q]
  BY Moved DEF ReplayRow, Take
<1>2. UNCHANGED <<idem, nextId, origin, lineage>>
  BY DEF ReplayRow, MovesOnly, storeVars, ghostVars
<1>3. job[f].id = NoId /\ \A m \in Ids : origin[m] # f
  BY DEF ReplayRow, KeyInv, RequestsServed, MadeOnce, Ids, NoId
<1>4. MadeOnce'
  BY <1>1, <1>2, <1>3 DEF KeyInv, MadeOnce
<1>5. KeyOf[f] \in Keys /\ idem[KeyOf[f]].content = ContentOf[f]
  BY DEF ReplayRow, Replayable, KeyInUse
<1>6. RequestsServed'
  BY <1>1, <1>2, <1>5 DEF KeyInv, RequestsServed, KeysOK
<1>7. KeysOK'
  BY <1>2 DEF KeyInv, KeysOK
<1> QED
  BY <1>4, <1>6, <1>7 DEF KeyInv

\* What is deleted or pruned takes its key's memory along, or leaves it whole.
LEMMA CleanupKeys ==
    ASSUME IInv, KeyInv, CleanupStep PROVE KeyInv'
<1> USE TypeParts DEF IInv
<1>1. UNCHANGED <<nextId, origin, pc, job>>
  BY DEF CleanupStep, OperatorDeletes, RetentionDeletes, KeyPruned, Delete,
         RetentionDelete, Prune, procVars, ghostVars
<1>2. MadeOnce' /\ RequestsServed'
  BY <1>1 DEF KeyInv, MadeOnce, RequestsServed
<1>3. ASSUME NEW k \in Keys
      PROVE  /\ ~idem'[k].used => lineage'[k] = {}
             /\ lineage'[k] \in {lineage[k], {}}
             /\ idem'[k].msg # NoId => /\ idem'[k].msg = idem[k].msg
                                       /\ idem'[k].content = idem[k].content
  <2>1. idem[k] \in IdemType
    BY DEF StoreTypeOK
  <2>2. CASE \E m \in Ids : OperatorDeletes(m)
    BY <2>1, <2>2 DEF OperatorDeletes, Delete, ghostVars, IdemType, KeyInv, KeysOK
  <2>3. ASSUME NEW m \in Ids, RetentionDeletes(m)
        PROVE  /\ idem'[k] = IF idem[k].msg = m
                             THEN [idem[k] EXCEPT !.used = FALSE, !.msg = NoId] ELSE idem[k]
               /\ lineage'[k] = IF idem[k].msg = m THEN {} ELSE lineage[k]
    BY <2>3 DEF RetentionDeletes, RetentionDelete
  <2>6. CASE \E m \in Ids : RetentionDeletes(m)
    BY <2>1, <2>3, <2>6 DEF IdemType, KeyInv, KeysOK
  <2>4. ASSUME NEW i \in Keys, KeyPruned(i)
        PROVE  /\ idem'[k] = IF k = i THEN [idem[k] EXCEPT !.used = FALSE] ELSE idem[k]
               /\ lineage'[k] = IF k = i THEN {} ELSE lineage[k]
    BY <2>4 DEF KeyPruned, Prune, GhostTypeOK, StoreTypeOK
  <2>5. CASE \E i \in Keys : KeyPruned(i)
    BY <2>1, <2>4, <2>5 DEF IdemType, KeyInv, KeysOK
  <2> QED
    BY <2>2, <2>5, <2>6 DEF CleanupStep
<1>4. KeysOK'
  BY <1>1, <1>3 DEF KeyInv, KeysOK
<1> QED
  BY <1>2, <1>4 DEF KeyInv

\* Every other step.
LEMMA OtherKeys ==
    ASSUME IInv,
           \/ \E f \in Requests : FinalizerStep(f) /\ ~CreateRow(f) /\ ~ReplayRow(f)
           \/ \E w \in Workers : WorkerStep(w)
           \/ \E p \in Owners : SendStep(p) \/ SettleStep(p) \/ Heartbeat(p) \/ Crash(p)
                                  \/ StoreFails(p)
           \/ ModemStep \/ TimeStep \/ UNCHANGED vars
    PROVE  KeepsRequests /\ UNCHANGED <<idem, nextId, origin, lineage>>
<1> USE OutboundAssumption
        DEF MovesOnly, FaultOnly, TransactOnly, storeVars, ghostVars, Update
<1>1. ASSUME NEW f \in Requests, FinalizerStep(f), ~CreateRow(f), ~ReplayRow(f)
      PROVE  KeepsRequests /\ UNCHANGED <<idem, nextId, origin, lineage>>
  <2>1. CASE RefuseRequest(f)
    BY <2>1, GotoKeeps DEF RefuseRequest
  <2>2. CASE Prepare(f)
    BY <2>2, MoveKeeps DEF Prepare, Take, Mine
  <2>3. CASE PrepareFails(f)
    BY <2>3, GotoKeeps DEF PrepareFails
  <2>4. CASE RecordPath(f)
    BY <2>4, GotoKeeps DEF RecordPath, SetPrepared
  <2>5. CASE PrepareLost(f)
    BY <2>5, LeaveKeeps DEF PrepareLost
  <2> QED
    BY <1>1, <2>1, <2>2, <2>3, <2>4, <2>5 DEF FinalizerStep
<1>2. ASSUME NEW w \in Workers, WorkerStep(w)
      PROVE  KeepsRequests /\ UNCHANGED <<idem, nextId, origin, lineage>>
  <2>1. CASE StartWorker(w) \/ NoEvent(w) \/ NothingDue(w)
    BY <2>1, GotoKeeps DEF StartWorker, NoEvent, NothingDue
  <2>2. CASE ReplayEvent(w)
    BY <2>2, MoveKeeps DEF ReplayEvent, Take, ClaimEvent
  <2>3. CASE Recover(w)
    <3>1. UNCHANGED <<idem, nextId, origin, lineage>>
      BY <2>3 DEF Recover, ClaimDue
    <3>2. PICK m \in Ids :
            \/ Take(w, m, row[m].path, "finish", "failed")
            \/ Take(w, m, row[m].path, "inspect", "prepared")
            \/ Take(w, m, row[m].path, "inspect", "uncertain")
      BY <2>3 DEF Recover
    <3> QED
      BY <3>1, <3>2, MoveKeeps DEF Take
  <2>4. CASE Inspect(w)
    BY <2>4, GotoKeeps, DecisionRange DEF Inspect
  <2>5. CASE InspectFails(w)
    BY <2>5, GotoKeeps DEF InspectFails
  <2> QED
    BY <1>2, <2>1, <2>2, <2>3, <2>4, <2>5 DEF WorkerStep
<1>3. ASSUME NEW p \in Owners, SendStep(p)
      PROVE  KeepsRequests /\ UNCHANGED <<idem, nextId, origin, lineage>>
  <2>1. CASE Begin(p)
    BY <2>1, GotoKeeps DEF Begin, BeginSend
  <2>2. CASE BeginLost(p)
    BY <2>2, LeaveKeeps DEF BeginLost
  <2>3. CASE CallSend(p)
    BY <2>3, GotoKeeps DEF CallSend, Called
  <2>4. CASE NotAttempted(p) \/ Accepted(p) \/ Rejected(p) \/ Unanswered(p)
    BY <2>4, GotoKeeps DEF NotAttempted, Accepted, Rejected, Unanswered
  <2> QED
    BY <1>3, <2>1, <2>2, <2>3, <2>4 DEF SendStep
<1>4. ASSUME NEW p \in Owners, SettleStep(p)
      PROVE  KeepsRequests /\ UNCHANGED <<idem, nextId, origin, lineage>>
  <2>1. CASE FinishRow(p)
    BY <2>1, GotoKeeps DEF FinishRow, Finish
  <2>2. CASE FinishLost(p)
    BY <2>2, GotoKeeps, LeaveKeeps DEF FinishLost
  <2>3. CASE Publish(p)
    BY <2>3, GotoKeeps DEF Publish
  <2>4. CASE Ack(p) \/ AckLost(p)
    BY <2>4, LeaveKeeps DEF Ack, AckLost, Acknowledge
  <2>5. CASE DeferRow(p) \/ DeferLost(p)
    BY <2>5, LeaveKeeps DEF DeferRow, DeferLost, Defer
  <2> QED
    BY <1>4, <2>1, <2>2, <2>3, <2>4, <2>5 DEF SettleStep
<1>5. ASSUME NEW p \in Owners, Heartbeat(p) \/ Crash(p) \/ StoreFails(p)
      PROVE  KeepsRequests /\ UNCHANGED <<idem, nextId, origin, lineage>>
  <2>1. CASE Heartbeat(p)
    BY <2>1 DEF Heartbeat, Renew, procVars, KeepsRequests
  <2>2. CASE Crash(p)
    BY <2>2, GotoKeeps DEF Crash
  <2>3. CASE StoreFails(p)
    BY <2>3, LeaveKeeps DEF StoreFails
  <2> QED
    BY <1>5, <2>1, <2>2, <2>3
<1>6. ASSUME ModemStep
      PROVE  KeepsRequests /\ UNCHANGED <<idem, nextId, origin, lineage>>
  <2>1. ASSUME NEW path \in ObjectPaths, RadioSends(path) \/ RadioRefuses(path)
        PROVE  KeepsRequests /\ UNCHANGED <<idem, nextId, origin, lineage>>
    BY <2>1, TypeParts
    DEF RadioSends, RadioRefuses, AnswerAt, KeepsRequests, IInv, ProcOK, ProcTypeOK, JobType
  <2>2. ASSUME NEW path \in ObjectPaths, SmsRemoved(path)
        PROVE  KeepsRequests /\ UNCHANGED <<idem, nextId, origin, lineage>>
    BY <2>2 DEF SmsRemoved, KeepsRequests
  <2>3. CASE ModemRestarts
    BY <2>3, TypeParts DEF ModemRestarts, KeepsRequests, IInv, ProcOK, ProcTypeOK, JobType
  <2> QED
    BY <1>6, <2>1, <2>2, <2>3 DEF ModemStep
<1>7. CASE TimeStep
  BY <1>7 DEF TimeStep, LeaseLapses, RetryDue, Lapse, BecomesDue, procVars, KeepsRequests
<1>8. CASE UNCHANGED vars
  BY <1>8 DEF vars, procVars, KeepsRequests
<1> QED
  BY <1>1, <1>2, <1>3, <1>4, <1>5, <1>6, <1>7, <1>8

LEMMA InitKeyInv == Init => KeyInv
BY OutboundAssumption, StoreAssumption
DEF Init, StoreInit, KeyInv, MadeOnce, RequestsServed, KeysOK, NoJob, NoRequest, NoId, Ids

LEMMA NextKeyInv == IInv /\ KeyInv /\ [Next]_vars => KeyInv'
BY CreateKeys, ReplayKeys, CleanupKeys, OtherKeys, KeyFrame DEF Next, FinalizerStep

LEMMA KeyInvHonours == IInv /\ KeyInv => KeysAreHonoured
BY OutboundAssumption DEF KeyInv, KeysOK, RequestsServed, KeysAreHonoured, KeySendsOnce,
   ReplayMatchesRequest

LEMMA KeyInvHolds == Spec => []KeyInv
<1>1. Spec => []IInv
  BY InvariantHolds
<1> QED
  BY <1>1, InitKeyInv, NextKeyInv, PTL DEF Spec

\* A key stands for one request and one transmission, whatever is deleted,
\* pruned or recovered meanwhile (create_or_get_outbound,
\* prune_outbound_idempotency).
THEOREM KeysHonoured == Spec => []KeysAreHonoured
BY InvariantHolds, KeyInvHolds, KeyInvHonours, PTL

(***************************************************************************)
(* Announcements.  Only Publish leads to "ack", and only Ack takes a       *)
(* terminal row out of the outbox.                                         *)
(***************************************************************************)
AcksKept ==
    \A p \in Owners : pc'[p] = "ack" => pc[p] = "ack" /\ job'[p].id = job[p].id

OutboxKept ==
    \A m \in Ids : row'[m].status \in Terminal /\ row'[m].phase = "none"
                        => row[m].status \in Terminal /\ row[m].phase = "none"

LEMMA AnnounceFrame ==
    ASSUME AnnounceInv, AcksKept, OutboxKept, announced \subseteq announced'
    PROVE  AnnounceInv'
BY DEF AnnounceInv, AckedWasPublished, AcknowledgedWasAnnounced, AcksKept, OutboxKept, Mine

LEMMA MoveAcks ==
    ASSUME IInv, NEW p \in Owners,
           \/ \E point, j : point # "ack" /\ Move(p, point, j)
           \/ \E point : point # "ack" /\ Goto(p, point)
           \/ \E point, todo : point # "ack" /\ GotoWith(p, point, todo)
           \/ Leave(p)
    PROVE  AcksKept
<1>1. PICK point, j : point # "ack" /\ Move(p, point, j)
  BY DEF Goto, GotoWith, Leave
<1> QED
  BY <1>1, Moved DEF AcksKept

LEMMA WriteKeepsOutbox ==
    ASSUME IInv, NEW m \in Ids, NEW status, NEW phase, NEW owner, NEW path,
           Wrote(m, status, phase, owner, path),
           status \in Terminal /\ phase = "none"
               => row[m].status \in Terminal /\ row[m].phase = "none"
    PROVE  OutboxKept
BY DEF Wrote, OutboxKept

LEMMA AnnounceStep ==
    ASSUME IInv, AnnounceInv, [Next]_vars PROVE AnnounceInv'
<1> USE OutboundAssumption DEF MovesOnly, FaultOnly, TransactOnly, storeVars, ghostVars
<1>0. UNCHANGED row => OutboxKept
  BY DEF OutboxKept
<1>1. ASSUME NEW p \in Owners, pc[p] \notin Resting PROVE Mine(p) \in Ids
  BY <1>1 DEF IInv, TypeInv, JobsOK, JobOK, Mine
<1>2. ASSUME NEW f \in Requests, FinalizerStep(f) PROVE AnnounceInv'
  <2>1. CASE CreateRow(f)
    <3>1. PICK m \in Ids : /\ Insert(m, f, KeyOf[f], ContentOf[f])
                           /\ Take(f, m, NoPath, "prepare", "none")
      BY <2>1 DEF CreateRow
    <3>2. OutboxKept
      BY <3>1, InsertWrites, WriteKeepsOutbox DEF Terminal
    <3> QED
      BY <2>1, <3>1, <3>2, MoveAcks, AnnounceFrame DEF CreateRow, Take
  <2>2. CASE RecordPath(f)
    <3>1. OutboxKept
      BY <1>1, <2>2, Written, WriteKeepsOutbox DEF RecordPath, Resting, Terminal
    <3> QED
      BY <2>2, <3>1, MoveAcks, AnnounceFrame DEF RecordPath
  <2>3. CASE ReplayRow(f) \/ Prepare(f)
    BY <1>0, <2>3, MoveAcks, AnnounceFrame DEF ReplayRow, Prepare, Take
  <2>4. CASE RefuseRequest(f) \/ PrepareFails(f) \/ PrepareLost(f)
    BY <1>0, <2>4, MoveAcks, AnnounceFrame DEF RefuseRequest, PrepareFails, PrepareLost
  <2> QED
    BY <1>2, <2>1, <2>2, <2>3, <2>4 DEF FinalizerStep
<1>3. ASSUME NEW w \in Workers, WorkerStep(w) PROVE AnnounceInv'
  <2>1. CASE StartWorker(w) \/ NoEvent(w) \/ NothingDue(w) \/ InspectFails(w)
    BY <1>0, <2>1, MoveAcks, AnnounceFrame DEF StartWorker, NoEvent, NothingDue, InspectFails
  <2>2. CASE ReplayEvent(w)
    <3>1. PICK m \in Ids : ClaimEvent(m, w) /\ Take(w, m, NoPath, "publish", "none")
      BY <2>2 DEF ReplayEvent
    <3>2. OutboxKept
      BY <3>1, Written, WriteKeepsOutbox
    <3> QED
      BY <2>2, <3>1, <3>2, MoveAcks, AnnounceFrame DEF ReplayEvent, Take
  <2>3. CASE Recover(w)
    <3>1. PICK m \in Ids :
            /\ ClaimDue(m, w)
            /\ \/ Take(w, m, row[m].path, "finish", "failed")
               \/ Take(w, m, row[m].path, "inspect", "prepared")
               \/ Take(w, m, row[m].path, "inspect", "uncertain")
      BY <2>3 DEF Recover
    <3>2. OutboxKept
      BY <3>1, Written, WriteKeepsOutbox DEF Terminal
    <3> QED
      BY <2>3, <3>1, <3>2, MoveAcks, AnnounceFrame DEF Recover, Take
  <2>4. CASE Inspect(w)
    BY <1>0, <2>4, DecisionRange, MoveAcks, AnnounceFrame DEF Inspect
  <2> QED
    BY <1>3, <2>1, <2>2, <2>3, <2>4 DEF WorkerStep
<1>4. ASSUME NEW p \in Owners, SendStep(p) PROVE AnnounceInv'
  <2>1. CASE Begin(p)
    <3>0. Mine(p) \in Ids /\ BeginSend(Mine(p), p)
      BY <1>1, <2>1 DEF Begin, Resting
    <3>1. OutboxKept
      BY <3>0, Written, WriteKeepsOutbox DEF Terminal
    <3> QED
      BY <2>1, <3>1, MoveAcks, AnnounceFrame DEF Begin
  <2>2. CASE CallSend(p)
    BY <1>0, <2>2, MoveAcks, AnnounceFrame DEF CallSend, Called
  <2>3. CASE BeginLost(p) \/ NotAttempted(p) \/ Accepted(p) \/ Rejected(p) \/ Unanswered(p)
    BY <1>0, <2>3, MoveAcks, AnnounceFrame
    DEF BeginLost, NotAttempted, Accepted, Rejected, Unanswered
  <2> QED
    BY <1>4, <2>1, <2>2, <2>3 DEF SendStep
<1>5. ASSUME NEW p \in Owners, SettleStep(p) PROVE AnnounceInv'
  <2>1. CASE FinishRow(p)
    <3>1. OutboxKept
      BY <1>1, <2>1, Written, WriteKeepsOutbox DEF FinishRow, Resting
    <3> QED
      BY <2>1, <3>1, MoveAcks, AnnounceFrame DEF FinishRow
  <2>2. CASE FinishLost(p)
    BY <1>0, <2>2, MoveAcks, AnnounceFrame DEF FinishLost
  <2>3. CASE Publish(p)
    BY <2>3, Moved
    DEF Publish, Goto, AnnounceInv, AckedWasPublished, AcknowledgedWasAnnounced, Mine
  <2>4. CASE Ack(p)
    <3>1. Wrote(Mine(p), row[Mine(p)].status, "none", NoOwner, row[Mine(p)].path)
      BY <1>1, <2>4, Written DEF Ack, Resting
    <3>2. Mine(p) \in announced
      BY <2>4 DEF Ack, AnnounceInv, AckedWasPublished
    <3>3. AcksKept
      BY <2>4, MoveAcks DEF Ack
    <3> QED
      BY <2>4, <3>1, <3>2, <3>3
      DEF Ack, AcksKept, Wrote, AnnounceInv, AckedWasPublished, AcknowledgedWasAnnounced, Mine
  <2>5. CASE DeferRow(p)
    <3>1. OutboxKept
      BY <1>1, <2>5, Written, WriteKeepsOutbox DEF DeferRow, Resting, Terminal
    <3> QED
      BY <2>5, <3>1, MoveAcks, AnnounceFrame DEF DeferRow
  <2>6. CASE AckLost(p) \/ DeferLost(p)
    BY <1>0, <2>6, MoveAcks, AnnounceFrame DEF AckLost, DeferLost
  <2> QED
    BY <1>5, <2>1, <2>2, <2>3, <2>4, <2>5, <2>6 DEF SettleStep
<1>6. ASSUME NEW p \in Owners, Heartbeat(p) \/ Crash(p) \/ StoreFails(p) PROVE AnnounceInv'
  <2>1. CASE Heartbeat(p)
    <3>1. OutboxKept
      BY <1>1, <2>1, Written, WriteKeepsOutbox DEF Heartbeat, Awaiting, Resting
    <3> QED
      BY <2>1, <3>1, AnnounceFrame DEF Heartbeat, procVars, AcksKept
  <2>2. CASE Crash(p) \/ StoreFails(p)
    BY <1>0, <2>2, MoveAcks, AnnounceFrame DEF Crash, StoreFails
  <2> QED
    BY <1>6, <2>1, <2>2
<1>7. CASE ModemStep
  <2>1. AcksKept
    BY <1>7, TypeParts DEF ModemStep, RadioSends, RadioRefuses, SmsRemoved, ModemRestarts,
       AnswerAt, AcksKept, IInv, ProcOK, ProcTypeOK, JobType
  <2>2. UNCHANGED <<row, announced>>
    BY <1>7 DEF ModemStep, RadioSends, RadioRefuses, SmsRemoved, ModemRestarts
  <2> QED
    BY <1>0, <2>1, <2>2, AnnounceFrame
<1>8. CASE CleanupStep
  <2>1. AcksKept /\ announced' = announced
    BY <1>8 DEF CleanupStep, OperatorDeletes, RetentionDeletes, KeyPruned, procVars, AcksKept
  <2>2. ASSUME NEW m \in Ids, OperatorDeletes(m) \/ RetentionDeletes(m) PROVE OutboxKept
    BY <2>2, DeletionWrites, WriteKeepsOutbox DEF OperatorDeletes, RetentionDeletes, Terminal
  <2>3. ASSUME NEW k \in Keys, KeyPruned(k) PROVE OutboxKept
    BY <1>0, <2>3 DEF KeyPruned, Prune
  <2> QED
    BY <1>8, <2>1, <2>2, <2>3, AnnounceFrame DEF CleanupStep
<1>9. CASE TimeStep
  <2>1. PICK m \in Ids : LeaseLapses(m) \/ RetryDue(m)
    BY <1>9 DEF TimeStep
  <2>2. OutboxKept
    BY <2>1, Written, WriteKeepsOutbox DEF LeaseLapses, RetryDue
  <2> QED
    BY <2>1, <2>2, AnnounceFrame DEF LeaseLapses, RetryDue, procVars, AcksKept
<1>10. CASE UNCHANGED vars
  BY <1>10 DEF vars, procVars, AnnounceInv, AckedWasPublished, AcknowledgedWasAnnounced, Mine
<1> QED
  BY <1>2, <1>3, <1>4, <1>5, <1>6, <1>7, <1>8, <1>9, <1>10 DEF Next

LEMMA InitAnnounceInv == Init => AnnounceInv
BY DEF Init, StoreInit, Blank, Terminal, AnnounceInv, AckedWasPublished,
       AcknowledgedWasAnnounced

LEMMA AnnounceInvHolds == Spec => []AnnounceInv
<1>1. Spec => []IInv
  BY InvariantHolds
<1>2. IInv /\ AnnounceInv /\ [Next]_vars => AnnounceInv'
  BY AnnounceStep
<1> QED
  BY <1>1, <1>2, InitAnnounceInv, PTL DEF Spec

\* A terminal row leaves the outbox only after its MessageUpdated event was
\* broadcast, whichever owner finished it and whichever acknowledges it
\* (publish_outbound_update, acknowledge_outbound_event).
THEOREM AcknowledgedAnnounced == Spec => []AcknowledgedWasAnnounced
BY AnnounceInvHolds, PTL DEF AnnounceInv

(***************************************************************************)
(* Paths.  A process learns the path of its object from Create, a row from *)
(* its process, a recovery from the row; everything else leaves that alone *)
(***************************************************************************)
TracksKept ==
    \A p \in Owners : pc'[p] \in Tracking =>
        /\ pc[p] \in Tracking
        /\ job'[p].id = job[p].id /\ job'[p].path = job[p].path
        /\ pc'[p] # "setpath" => pc[p] # "setpath"

RowsTracked ==
    \A m \in Ids :
        /\ \A p \in Owners : m < nextId /\ Owns(m, p)'
                                 => Owns(m, p) /\ row'[m].path = row[m].path
        /\ row'[m].phase \in Tracked => row'[m].path \in ObjectPaths
        /\ row'[m].path \in {row[m].path, NoPath}

ObjectsStay ==
    modemRestarts' = 0 =>
        /\ modemRestarts = 0
        /\ nextPath <= nextPath'
        /\ \A path \in ObjectPaths : path < nextPath =>
             object'[path].madeFor \in {object[path].madeFor, NoId}
        /\ misfired' = misfired

LEMMA PathFrame ==
    ASSUME IInv, IInv', PathInv, TracksKept, RowsTracked, ObjectsStay
    PROVE  PathsOK' /\ PathsStay'
<1> USE TypeParts DEF IInv
<1>0. nextPath \in Nat /\ nextPath' \in Nat
  BY DEF TypeInv, TypeOK, ModemTypeOK
<1>1. ASSUME NEW p \in Owners, pc[p] \in Tracking PROVE Mine(p) \in Ids /\ Mine(p) < nextId
  BY <1>1 DEF TypeInv, JobsOK, JobOK, Mine, Tracking, Resting, FreshIds
<1>2. PathsOK'
  <2>1. ASSUME NEW p \in Owners, pc'[p] \in Tracking
        PROVE  /\ job'[p].path \in ObjectPaths
               /\ pc'[p] # "setpath" /\ Owns(Mine(p), p)' => row'[Mine(p)'].path = job'[p].path
    BY <1>1, <2>1 DEF PathInv, PathsOK, TracksKept, RowsTracked, Mine
  <2> QED
    BY <2>1 DEF PathInv, PathsOK, RowsTracked
<1>3. ASSUME modemRestarts' = 0 PROVE PathsStay'
  <2>2. ASSUME NEW p \in Owners, pc'[p] \in Tracking
        PROVE  job'[p].path < nextPath' /\ object'[job'[p].path].madeFor \in {Mine(p)', NoId}
    <3>1. /\ job[p].path \in ObjectPaths
          /\ job[p].path < nextPath /\ object[job[p].path].madeFor \in {Mine(p), NoId}
      BY <1>3, <2>2 DEF PathInv, PathsOK, PathsStay, TracksKept, ObjectsStay
    <3>2. job'[p].id = job[p].id /\ job'[p].path = job[p].path
      BY <2>2 DEF TracksKept
    <3>3. job[p].path < nextPath'
      BY <1>3, <3>1, <1>0 DEF ObjectsStay, ObjectPaths
    <3> QED
      BY <1>3, <3>1, <3>2, <3>3 DEF ObjectsStay, Mine
  <2>3. ASSUME NEW m \in Ids, row'[m].path # NoPath
        PROVE  row'[m].path < nextPath' /\ object'[row'[m].path].madeFor \in {m, NoId}
    <3>1. /\ row'[m].path = row[m].path
          /\ row[m].path \in ObjectPaths
          /\ row[m].path < nextPath /\ object[row[m].path].madeFor \in {m, NoId}
      BY <1>3, <2>3 DEF PathInv, PathsOK, PathsStay, RowsTracked, ObjectsStay
    <3>3. row[m].path < nextPath'
      BY <1>3, <3>1, <1>0 DEF ObjectsStay, ObjectPaths
    <3> QED
      BY <1>3, <3>1, <3>3 DEF ObjectsStay
  <2>4. misfired' = {}
    BY <1>3 DEF ObjectsStay, PathInv, PathsStay
  <2> QED
    BY <2>2, <2>3, <2>4 DEF PathsStay
<1> QED
  BY <1>2, <1>3 DEF PathsStay

LEMMA WriteTracks ==
    ASSUME IInv, PathInv, NEW m \in Ids, NEW status, NEW phase, NEW owner, NEW path,
           Wrote(m, status, phase, owner, path),
           path \in {row[m].path, NoPath},
           phase \in Tracked => path \in ObjectPaths,
           \/ m >= nextId
           \/ status # "sending"
           \/ /\ row[m].status = "sending" /\ path = row[m].path
              /\ owner \in {row[m].owner, NoOwner}
    PROVE  RowsTracked
<1>1. ASSUME NEW n \in Ids, n # m
      PROVE  /\ row'[n] = row[n]
             /\ row[n].phase \in Tracked => row[n].path \in ObjectPaths
  BY <1>1 DEF Wrote, PathInv, PathsOK
<1>2. \A p \in Owners : m < nextId /\ Owns(m, p)'
                            => Owns(m, p) /\ row'[m].path = row[m].path
  BY StoreAssumption, TypeParts DEF Wrote, Owns, IInv, StoreTypeOK, Ids
<1> QED
  BY <1>1, <1>2 DEF Wrote, RowsTracked, Owns

LEMMA SameRowsTracked ==
    ASSUME PathInv, UNCHANGED row PROVE RowsTracked
BY DEF PathInv, PathsOK, RowsTracked, Owns

LEMMA SameObjects ==
    ASSUME IInv, IInv', PathInv, UNCHANGED <<modemVars, misfired>>, nextId <= nextId'
    PROVE  ObjectsOK' /\ ObjectsStay
<1>1. nextId \in Nat /\ nextId' \in Nat /\ nextPath \in Nat
  BY DEF IInv, TypeInv, TypeOK, StoreTypeOK, ModemTypeOK
<1>2. object' = object /\ nextPath' = nextPath /\ modemRestarts' = modemRestarts
  BY DEF modemVars
<1>3. ObjectsStay
  BY <1>1, <1>2 DEF ObjectsStay
<1>4. ASSUME NEW path \in ObjectPaths, object[path] # NoObject
      PROVE  object[path].madeFor < nextId'
  BY <1>1, <1>4 DEF PathInv, ObjectsOK, Ids
<1>5. ObjectsOK'
  BY <1>2, <1>4 DEF PathInv, ObjectsOK
<1> QED
  BY <1>3, <1>5

\* Create takes the next path, for a message that exists.
LEMMA CreateObjects ==
    ASSUME IInv, PathInv, NEW m \in Ids, m < nextId, CreateSms(nextPath, m),
           UNCHANGED <<misfired, nextId>>
    PROVE  ObjectsOK' /\ ObjectsStay
<1>1. nextPath \in Nat /\ object \in [ObjectPaths -> ObjectType]
  BY TypeParts DEF IInv, ModemTypeOK
<1>2. /\ nextPath \in ObjectPaths /\ nextPath' = nextPath + 1
      /\ modemRestarts' = modemRestarts
      /\ object'[nextPath] = [state |-> "stored", madeFor |-> m]
      /\ \A path \in ObjectPaths : path # nextPath => object'[path] = object[path]
  BY <1>1 DEF CreateSms
<1>3. ObjectsStay
  BY <1>1, <1>2 DEF ObjectsStay, ObjectPaths
<1>4. ASSUME NEW path \in ObjectPaths
      PROVE  /\ path >= nextPath' => object'[path] = NoObject
             /\ object'[path] # NoObject =>
                  /\ object'[path].state # "none"
                  /\ object'[path].madeFor \in Ids
                  /\ object'[path].madeFor < nextId'
  <2>1. CASE path = nextPath
    BY <1>1, <1>2, <2>1
  <2>2. CASE path # nextPath
    BY <1>1, <1>2, <2>2 DEF PathInv, ObjectsOK, ObjectPaths
  <2> QED
    BY <2>1, <2>2
<1> QED
  BY <1>3, <1>4 DEF ObjectsOK

\* The radio and other clients only advance or remove one object.
LEMMA ObjectMoves ==
    ASSUME IInv, PathInv, NEW path \in ObjectPaths,
           TakeSend(path) \/ Transmitted(path) \/ NotTransmitted(path) \/ RemoveObject(path),
           UNCHANGED nextId, modemRestarts = 0 => misfired' = misfired
    PROVE  ObjectsOK' /\ ObjectsStay
<1>1. nextPath \in Nat /\ object \in [ObjectPaths -> ObjectType]
  BY TypeParts DEF IInv, ModemTypeOK
<1>2. /\ nextPath' = nextPath /\ modemRestarts' = modemRestarts
      /\ object[path] # NoObject
      /\ \A other \in ObjectPaths : other # path => object'[other] = object[other]
      /\ \/ object'[path] = NoObject
         \/ object'[path].state # "none" /\ object'[path].madeFor = object[path].madeFor
  BY <1>1 DEF TakeSend, Transmitted, NotTransmitted, RemoveObject, ObjectType, NoObject
<1>3. ObjectsStay
  <2>1. \A other \in ObjectPaths :
          object'[other].madeFor \in {object[other].madeFor, NoId}
    BY <1>2 DEF NoObject, NoId
  <2> QED
    BY <1>1, <1>2, <2>1 DEF ObjectsStay
<1>4. ObjectsOK'
  BY <1>1, <1>2 DEF PathInv, ObjectsOK
<1> QED
  BY <1>3, <1>4

\* A process that leaves its place goes where it needs no path, or keeps it.
LEMMA MoveTracks ==
    ASSUME IInv, NEW p \in Owners,
           \/ \E point, j : point \notin Tracking /\ Move(p, point, j)
           \/ \E point : point \notin Tracking /\ Goto(p, point)
           \/ \E point, todo : point \notin Tracking /\ GotoWith(p, point, todo)
           \/ Leave(p)
           \/ /\ pc[p] \in Tracking \ {"setpath"}
              /\ \/ \E point : Goto(p, point)
                 \/ \E point, todo : GotoWith(p, point, todo)
    PROVE  TracksKept
<1>1. PICK point, j : /\ Move(p, point, j)
                      /\ \/ point \notin Tracking
                         \/ /\ pc[p] \in Tracking \ {"setpath"}
                            /\ j.id = job[p].id /\ j.path = job[p].path
  <2>1. CASE \E point, todo : /\ pc[p] \in Tracking \ {"setpath"}
                              /\ GotoWith(p, point, todo)
    <3>1. PICK point, todo : Move(p, point, [job[p] EXCEPT !.todo = todo])
      BY <2>1 DEF GotoWith
    <3>2. /\ [job[p] EXCEPT !.todo = todo].id = job[p].id
          /\ [job[p] EXCEPT !.todo = todo].path = job[p].path
      BY KeepsId
    <3> QED
      BY <2>1, <3>1, <3>2
  <2>2. CASE \E point : pc[p] \in Tracking \ {"setpath"} /\ Goto(p, point)
    BY <2>2 DEF Goto
  <2>3. CASE \/ \E point, j : point \notin Tracking /\ Move(p, point, j)
             \/ \E point : point \notin Tracking /\ Goto(p, point)
             \/ \E point, todo : point \notin Tracking /\ GotoWith(p, point, todo)
    BY <2>3 DEF Goto, GotoWith
  <2>4. CASE Leave(p)
    BY <2>4 DEF Goto, Leave, Tracking
  <2> QED
    BY <2>1, <2>2, <2>3, <2>4
<1> QED
  BY <1>1, Moved DEF TracksKept

LEMMA SameTracks ==
    ASSUME UNCHANGED <<pc, job>> PROVE TracksKept
BY DEF TracksKept

LEMMA PathStep ==
    ASSUME IInv, IInv', PathInv, [Next]_vars PROVE PathInv'
<1> USE OutboundAssumption DEF MovesOnly, FaultOnly, TransactOnly, storeVars, ghostVars
<1>a. ASSUME NEW p \in Owners, pc[p] \notin Resting PROVE Mine(p) \in Ids /\ Mine(p) < nextId
  BY <1>a DEF IInv, TypeInv, JobsOK, JobOK, Mine, FreshIds
<1>b. UNCHANGED nextId => nextId <= nextId'
  BY DEF IInv, TypeInv, TypeOK, StoreTypeOK
<1>c. ASSUME TracksKept, RowsTracked, ObjectsOK', ObjectsStay PROVE PathInv'
  BY <1>c, PathFrame DEF PathInv
<1>d. ASSUME TracksKept, RowsTracked, UNCHANGED <<modemVars, misfired, nextId>> PROVE PathInv'
  BY <1>b, <1>c, <1>d, SameObjects
<1>e. ASSUME TracksKept, UNCHANGED <<row, modemVars, misfired, nextId>> PROVE PathInv'
  BY <1>d, <1>e, SameRowsTracked
<1>f. ASSUME NEW m \in Ids PROVE row[m].path \in {row[m].path, NoPath} /\ (row[m].phase \in Tracked => row[m].path \in ObjectPaths)
  BY DEF PathInv, PathsOK
<1>2. ASSUME NEW f \in Requests, FinalizerStep(f) PROVE PathInv'
  <2>1. CASE CreateRow(f)
    <3>1. PICK m \in Ids : /\ Insert(m, f, KeyOf[f], ContentOf[f])
                           /\ Take(f, m, NoPath, "prepare", "none")
      BY <2>1 DEF CreateRow
    <3>2. m = nextId /\ nextId' = nextId + 1 /\ nextId \in Nat
      BY <3>1, TypeParts DEF Insert, IInv, StoreTypeOK
    <3>3. Wrote(m, "sending", "created", f, NoPath)
      BY <3>1, InsertWrites
    <3>4. RowsTracked
      BY <3>2, <3>3, WriteTracks DEF Tracked
    <3>5. TracksKept
      BY <3>1, MoveTracks DEF Take, Tracking
    <3>6. ObjectsOK' /\ ObjectsStay
      BY <2>1, <3>2, SameObjects DEF CreateRow
    <3> QED
      BY <1>c, <3>4, <3>5, <3>6
  <2>2. CASE RecordPath(f)
    <3> DEFINE m == Mine(f)
    <3>1. /\ m \in Ids /\ m < nextId /\ job[f].path \in ObjectPaths /\ pc[f] = "setpath"
          /\ SetPrepared(m, f, job[f].path)
      BY <1>a, <2>2 DEF RecordPath, Resting, PathInv, PathsOK, Tracking
    <3>2. Wrote(m, "sending", "prepared", f, job[f].path)
      BY <3>1, Written
    <3>3. /\ pc'[f] = "begin" /\ job'[f] = job[f]
          /\ \A q \in Owners : q # f => pc'[q] = pc[q] /\ job'[q] = job[q]
      BY <2>2, Moved DEF RecordPath, Goto
    <3>4. UNCHANGED <<modemVars, misfired, nextId>>
      BY <2>2 DEF RecordPath, SetPrepared, Update
    <3>5. ObjectsOK' /\ ObjectsStay
      BY <1>b, <3>4, SameObjects
    <3>6. ASSUME NEW q \in Owners, pc'[q] \in Tracking
          PROVE  /\ job'[q].path \in ObjectPaths
                 /\ pc'[q] # "setpath" /\ Owns(Mine(q), q)' => row'[Mine(q)'].path = job'[q].path
      <4>1. CASE q = f
        BY <3>1, <3>2, <3>3, <4>1 DEF Mine, Wrote
      <4>2. CASE q # f
        <5>1. pc[q] \in Tracking /\ Mine(q) \in Ids /\ Mine(q)' = Mine(q)
          BY <1>a, <3>3, <3>6, <4>2 DEF Mine, Tracking, Resting
        <5>2. Owns(Mine(q), q)' => Owns(Mine(q), q) /\ row'[Mine(q)] = row[Mine(q)]
          BY <3>2, <4>2, <5>1 DEF Owns, Wrote
        <5> QED
          BY <3>3, <3>6, <4>2, <5>1, <5>2 DEF PathInv, PathsOK
      <4> QED
        BY <4>1, <4>2
    <3>7. PathsOK'
      BY <3>1, <3>2, <3>6 DEF PathInv, PathsOK, Wrote
    <3>8. ASSUME modemRestarts = 0 PROVE PathsStay'
      <4>1. /\ job[f].path < nextPath /\ object[job[f].path].madeFor \in {m, NoId}
        BY <3>1, <3>8 DEF PathInv, PathsStay, Tracking
      <4>2. \A q \in Owners : pc'[q] \in Tracking =>
              pc[q] \in Tracking /\ job'[q].path = job[q].path /\ Mine(q)' = Mine(q)
        BY <3>1, <3>3 DEF Mine, Tracking
      <4> QED
        BY <3>1, <3>2, <3>4, <3>8, <4>1, <4>2 DEF PathInv, PathsStay, Wrote, modemVars
    <3> QED
      BY <3>4, <3>5, <3>7, <3>8 DEF PathInv, PathsStay, modemVars
  <2>3. CASE Prepare(f)
    <3> DEFINE m == Mine(f)
    <3>1. m \in Ids /\ m < nextId /\ CreateSms(nextPath, m)
      BY <1>a, <2>3 DEF Prepare, Resting
    <3>2. UNCHANGED <<row, misfired, nextId>>
      BY <2>3 DEF Prepare
    <3>3. ObjectsOK' /\ ObjectsStay
      BY <3>1, <3>2, CreateObjects
    <3>4. /\ pc'[f] = "setpath" /\ Mine(f)' = m /\ job'[f].path = nextPath
          /\ \A q \in Owners : q # f => pc'[q] = pc[q] /\ job'[q] = job[q]
      BY <2>3, Moved DEF Prepare, Take, Mine
    <3>5. /\ nextPath \in Nat /\ nextPath \in ObjectPaths /\ nextPath' = nextPath + 1
          /\ object'[nextPath].madeFor = m /\ modemRestarts' = modemRestarts
      BY <3>1, TypeParts DEF CreateSms, IInv, ModemTypeOK
    <3>6. PathsOK'
      BY <3>2, <3>4, <3>5 DEF PathInv, PathsOK, Owns, Mine
    <3>7. ASSUME modemRestarts = 0 PROVE PathsStay'
      <4>1. ASSUME NEW q \in Owners, pc'[q] \in Tracking
            PROVE  job'[q].path < nextPath' /\ object'[job'[q].path].madeFor \in {Mine(q)', NoId}
        <5>1. CASE q = f
          BY <3>4, <3>5, <5>1
        <5>2. CASE q # f
          <6>1. job[q].path \in ObjectPaths /\ job[q].path < nextPath
            BY <3>4, <3>7, <4>1, <5>2 DEF PathInv, PathsOK, PathsStay
          <6> QED
            BY <3>3, <3>4, <3>5, <3>7, <4>1, <5>2, <6>1
            DEF PathInv, PathsStay, ObjectsStay, Mine, ObjectPaths
        <5> QED
          BY <5>1, <5>2
      <4>2. ASSUME NEW n \in Ids, row'[n].path # NoPath
            PROVE  row'[n].path < nextPath' /\ object'[row'[n].path].madeFor \in {n, NoId}
        <5>1. row[n].path \in ObjectPaths /\ row[n].path < nextPath
          BY <3>2, <3>7, <4>2 DEF PathInv, PathsOK, PathsStay
        <5> QED
          BY <3>2, <3>3, <3>5, <3>7, <4>2, <5>1
          DEF PathInv, PathsStay, ObjectsStay, ObjectPaths
      <4> QED
        BY <3>2, <3>7, <4>1, <4>2 DEF PathInv, PathsStay
    <3> QED
      BY <3>3, <3>5, <3>6, <3>7 DEF PathInv, PathsStay
  <2>4. CASE PrepareFails(f)
    <3>1. TracksKept /\ RowsTracked /\ UNCHANGED <<row, misfired, nextId>>
      BY <2>4, MoveTracks, SameRowsTracked DEF PrepareFails, Tracking
    <3>2. CASE UNCHANGED modemVars
      BY <1>d, <3>1, <3>2
    <3>3. CASE CreateSms(nextPath, Mine(f))
      BY <1>a, <1>c, <2>4, <3>1, <3>3, CreateObjects DEF PrepareFails, Resting
    <3> QED
      BY <2>4, <3>2, <3>3 DEF PrepareFails
  <2>5. CASE ReplayRow(f) \/ RefuseRequest(f) \/ PrepareLost(f)
    BY <1>e, <2>5, MoveTracks DEF ReplayRow, RefuseRequest, PrepareLost, Take, Tracking
  <2> QED
    BY <1>2, <2>1, <2>2, <2>3, <2>4, <2>5 DEF FinalizerStep
<1>3. ASSUME NEW w \in Workers, WorkerStep(w) PROVE PathInv'
  <2>1. CASE StartWorker(w) \/ NoEvent(w) \/ NothingDue(w)
    BY <1>e, <2>1, MoveTracks DEF StartWorker, NoEvent, NothingDue, Tracking
  <2>2. CASE Inspect(w) \/ InspectFails(w)
    BY <1>e, <2>2, MoveTracks DEF Inspect, InspectFails, Tracking
  <2>3. CASE ReplayEvent(w)
    <3>1. PICK m \in Ids : ClaimEvent(m, w) /\ Take(w, m, NoPath, "publish", "none")
      BY <2>3 DEF ReplayEvent
    <3>2. Wrote(m, row[m].status, "complete", w, row[m].path) /\ row[m].status # "sending"
      BY <3>1, Written DEF ClaimEvent, PendingEvents, Terminal
    <3>3. RowsTracked
      BY <3>2, WriteTracks DEF Tracked
    <3>4. TracksKept
      BY <3>1, MoveTracks DEF Take, Tracking
    <3> QED
      BY <1>d, <2>3, <3>1, <3>3, <3>4 DEF ReplayEvent, ClaimEvent, Update
  <2>4. CASE Recover(w)
    <3>1. PICK m \in Ids :
            /\ ClaimDue(m, w)
            /\ \/ row[m].phase = "created" /\ Take(w, m, row[m].path, "finish", "failed")
               \/ row[m].phase # "created" /\ Take(w, m, row[m].path, "inspect", "prepared")
               \/ row[m].phase # "created" /\ Take(w, m, row[m].path, "inspect", "uncertain")
      BY <2>4 DEF Recover
    <3>2. Wrote(m, "sending", row[m].phase, w, row[m].path)
      BY <3>1, Written
    <3>3. UNCHANGED <<modemVars, misfired, nextId>>
      BY <2>4, <3>1 DEF Recover, ClaimDue, Update
    <3>4. ObjectsOK' /\ ObjectsStay
      BY <1>b, <3>3, SameObjects
    <3>5. /\ pc'[w] \in {"inspect", "finish"} /\ job'[w].id = m /\ job'[w].path = row[m].path
          /\ pc'[w] = "inspect" => row[m].phase # "created"
          /\ \A q \in Owners : q # w => pc'[q] = pc[q] /\ job'[q] = job[q]
      BY <3>1, Moved DEF Take
    <3>6. pc'[w] = "inspect" => row[m].path \in ObjectPaths /\ row[m].path # NoPath
      BY <3>1, <3>5 DEF ClaimDue, DueForRecovery, RecoverablePhases, PathInv, PathsOK,
         Tracked, ObjectPaths, NoPath
    <3>7. ASSUME NEW q \in Owners, pc'[q] \in Tracking
          PROVE  /\ job'[q].path \in ObjectPaths
                 /\ pc'[q] # "setpath" /\ Owns(Mine(q), q)' => row'[Mine(q)'].path = job'[q].path
      <4>1. CASE q = w
        BY <3>2, <3>5, <3>6, <3>7, <4>1 DEF Mine, Wrote, Tracking
      <4>2. CASE q # w
        <5>1. pc[q] \in Tracking /\ Mine(q) \in Ids /\ Mine(q)' = Mine(q)
          BY <1>a, <3>5, <3>7, <4>2 DEF Mine, Tracking, Resting
        <5>2. Owns(Mine(q), q)' => Owns(Mine(q), q) /\ row'[Mine(q)] = row[Mine(q)]
          BY <3>2, <4>2, <5>1 DEF Owns, Wrote
        <5> QED
          BY <3>5, <3>7, <4>2, <5>1, <5>2 DEF PathInv, PathsOK
      <4> QED
        BY <4>1, <4>2
    <3>8. PathsOK'
      BY <3>2, <3>7 DEF PathInv, PathsOK, Wrote
    <3>9. ASSUME modemRestarts = 0 PROVE PathsStay'
      <4>1. ASSUME NEW q \in Owners, pc'[q] \in Tracking
            PROVE  job'[q].path < nextPath' /\ object'[job'[q].path].madeFor \in {Mine(q)', NoId}
        <5>1. CASE q = w
          BY <3>3, <3>5, <3>6, <3>9, <4>1, <5>1
          DEF PathInv, PathsStay, modemVars, Mine, Tracking
        <5>2. CASE q # w
          BY <3>3, <3>5, <3>9, <4>1, <5>2 DEF PathInv, PathsStay, modemVars, Mine
        <5> QED
          BY <5>1, <5>2
      <4> QED
        BY <3>2, <3>3, <3>9, <4>1 DEF PathInv, PathsStay, Wrote, modemVars
    <3> QED
      BY <3>3, <3>4, <3>8, <3>9 DEF PathInv, PathsStay, modemVars
  <2> QED
    BY <1>3, <2>1, <2>2, <2>3, <2>4 DEF WorkerStep
<1>4. ASSUME NEW p \in Owners, SendStep(p) PROVE PathInv'
  <2>1. CASE Begin(p)
    <3>1. Mine(p) \in Ids /\ BeginSend(Mine(p), p)
      BY <1>a, <2>1 DEF Begin, Resting
    <3>2. Wrote(Mine(p), "sending", "send_started", p, row[Mine(p)].path)
      BY <3>1, Written
    <3>3. RowsTracked
      BY <1>f, <3>1, <3>2, WriteTracks DEF BeginSend, CanBegin, Owns, Tracked
    <3>4. TracksKept
      BY <2>1, MoveTracks DEF Begin, Tracking
    <3> QED
      BY <1>d, <2>1, <3>3, <3>4 DEF Begin, BeginSend, Update
  <2>2. CASE CallSend(p)
    <3>1. TracksKept /\ RowsTracked
      BY <2>2, MoveTracks, SameRowsTracked DEF CallSend, Called, Tracking
    <3>2. job[p].path \in ObjectPaths
      BY <2>2 DEF CallSend, PathInv, PathsOK, Tracking
    <3>3. UNCHANGED nextId /\ (modemRestarts = 0 => misfired' = misfired)
      BY <2>2 DEF CallSend, Called, PathInv, PathsStay, Tracking
    <3>4. CASE TakeSend(job[p].path)
      BY <1>c, <3>1, <3>2, <3>3, <3>4, ObjectMoves
    <3>5. CASE UNCHANGED modemVars
      <4>1. ObjectsOK'
        BY <3>3, <3>5 DEF modemVars, PathInv, ObjectsOK
      <4>2. nextPath \in Nat
        BY DEF IInv, TypeInv, TypeOK, ModemTypeOK
      <4>3. ObjectsStay
        BY <3>3, <3>5, <4>2 DEF modemVars, ObjectsStay
      <4> QED
        BY <1>c, <3>1, <4>1, <4>3
    <3> QED
      BY <2>2, <3>4, <3>5 DEF CallSend
  <2>3. CASE BeginLost(p) \/ NotAttempted(p) \/ Accepted(p) \/ Rejected(p) \/ Unanswered(p)
    BY <1>e, <2>3, MoveTracks
    DEF BeginLost, NotAttempted, Accepted, Rejected, Unanswered, Tracking
  <2> QED
    BY <1>4, <2>1, <2>2, <2>3 DEF SendStep
<1>5. ASSUME NEW p \in Owners, SettleStep(p) PROVE PathInv'
  <2>1. CASE FinishRow(p)
    <3>1. Mine(p) \in Ids /\ Finish(Mine(p), p, job[p].todo) /\ job[p].todo \in Terminal
      BY <1>a, <2>1 DEF FinishRow, Resting, IInv, TypeInv, JobsOK, JobOK
    <3>2. Wrote(Mine(p), job[p].todo, "complete", p, row[Mine(p)].path)
      BY <3>1, Written
    <3>3. RowsTracked
      BY <3>1, <3>2, WriteTracks DEF Terminal, Tracked
    <3>4. TracksKept
      BY <2>1, MoveTracks DEF FinishRow, Tracking
    <3> QED
      BY <1>d, <2>1, <3>3, <3>4 DEF FinishRow, Finish, Update
  <2>2. CASE Ack(p)
    <3>1. Mine(p) \in Ids /\ Acknowledge(Mine(p), p) /\ row[Mine(p)].phase = "complete"
      BY <1>a, <2>2 DEF Ack, Acknowledge, CanAcknowledge, Resting
    <3>2. Wrote(Mine(p), row[Mine(p)].status, "none", NoOwner, row[Mine(p)].path)
      BY <3>1, Written
    <3>3. RowsTracked
      BY <3>1, <3>2, WriteTracks DEF Tracked
    <3>4. TracksKept
      BY <2>2, MoveTracks DEF Ack
    <3> QED
      BY <1>d, <2>2, <3>3, <3>4 DEF Ack, Acknowledge, Update
  <2>3. CASE DeferRow(p)
    <3>1. Mine(p) \in Ids /\ Defer(Mine(p), p, job[p].todo) /\ Owns(Mine(p), p)
      BY <1>a, <2>3 DEF DeferRow, Defer, Resting
    <3>2. Wrote(Mine(p), "sending", job[p].todo, NoOwner, row[Mine(p)].path)
      BY <3>1, Written
    <3>3. row[Mine(p)].path \in ObjectPaths
      BY <2>3, <3>1 DEF DeferRow, PathInv, PathsOK, Tracking
    <3>4. RowsTracked
      BY <3>1, <3>2, <3>3, WriteTracks DEF Owns
    <3>5. TracksKept
      BY <2>3, MoveTracks DEF DeferRow
    <3> QED
      BY <1>d, <2>3, <3>4, <3>5 DEF DeferRow, Defer, Update
  <2>4. CASE FinishLost(p) \/ Publish(p) \/ AckLost(p) \/ DeferLost(p)
    BY <1>e, <2>4, MoveTracks DEF FinishLost, Publish, AckLost, DeferLost, Tracking
  <2> QED
    BY <1>5, <2>1, <2>2, <2>3, <2>4 DEF SettleStep
<1>6. ASSUME NEW p \in Owners, Heartbeat(p) \/ Crash(p) \/ StoreFails(p) PROVE PathInv'
  <2>1. CASE Heartbeat(p)
    <3>1. Mine(p) \in Ids /\ Renew(Mine(p), p) /\ Owns(Mine(p), p)
      BY <1>a, <2>1 DEF Heartbeat, Renew, Awaiting, Resting
    <3>2. RowsTracked
      BY <1>f, <3>1, Written, WriteTracks DEF Owns
    <3> QED
      BY <1>d, <2>1, <3>2, SameTracks DEF Heartbeat, procVars, Renew, Update
  <2>2. CASE Crash(p) \/ StoreFails(p)
    BY <1>e, <2>2, MoveTracks DEF Crash, StoreFails, Tracking
  <2> QED
    BY <1>6, <2>1, <2>2
<1>7. CASE ModemStep
  <2>1. ASSUME NEW path \in ObjectPaths, RadioSends(path) \/ RadioRefuses(path)
        PROVE  PathInv'
    <3>1. TracksKept
      BY <2>1, TypeParts
      DEF RadioSends, RadioRefuses, AnswerAt, TracksKept, IInv, ProcOK, ProcTypeOK, JobType
    <3> QED
      BY <1>c, <2>1, <3>1, ObjectMoves, SameRowsTracked DEF RadioSends, RadioRefuses
  <2>2. ASSUME NEW path \in ObjectPaths, SmsRemoved(path) PROVE PathInv'
    BY <1>c, <2>2, SameTracks, ObjectMoves, SameRowsTracked DEF SmsRemoved
  <2>3. CASE ModemRestarts
    <3>1. TracksKept
      BY <2>3, TypeParts DEF ModemRestarts, TracksKept, IInv, ProcOK, ProcTypeOK, JobType
    <3>2. ObjectsOK'
      BY <2>3 DEF ModemRestarts, RestartModem, ObjectsOK
    <3>3. ObjectsStay
      BY <2>3 DEF ModemRestarts, RestartModem, ObjectsStay, IInv, TypeInv, TypeOK, ModemTypeOK
    <3> QED
      BY <1>c, <2>3, <3>1, <3>2, <3>3, SameRowsTracked DEF ModemRestarts
  <2> QED
    BY <1>7, <2>1, <2>2, <2>3 DEF ModemStep
<1>8. CASE CleanupStep
  <2>1. UNCHANGED <<pc, job, modemVars, misfired, nextId>>
    BY <1>8 DEF CleanupStep, OperatorDeletes, RetentionDeletes, KeyPruned, procVars,
       Delete, RetentionDelete, Prune
  <2>2. ASSUME NEW m \in Ids, OperatorDeletes(m) \/ RetentionDeletes(m) PROVE RowsTracked
    BY <2>2, DeletionWrites, WriteTracks DEF OperatorDeletes, RetentionDeletes, Tracked
  <2>3. ASSUME NEW k \in Keys, KeyPruned(k) PROVE RowsTracked
    BY <2>3, SameRowsTracked DEF KeyPruned, Prune
  <2>4. RowsTracked
    BY <1>8, <2>2, <2>3 DEF CleanupStep
  <2> QED
    BY <1>d, <2>1, <2>4, SameTracks
<1>9. CASE TimeStep
  <2>1. PICK m \in Ids : LeaseLapses(m) \/ RetryDue(m)
    BY <1>9 DEF TimeStep
  <2>2. Wrote(m, row[m].status, row[m].phase, row[m].owner, row[m].path)
    BY <2>1, Written DEF LeaseLapses, RetryDue
  <2>3. RowsTracked
    BY <1>f, <2>2, WriteTracks
  <2> QED
    BY <1>d, <2>1, <2>3, SameTracks
    DEF LeaseLapses, RetryDue, procVars, Lapse, BecomesDue, Update
<1>10. CASE UNCHANGED vars
  BY <1>e, <1>10, SameTracks DEF vars, procVars
<1> QED
  BY <1>2, <1>3, <1>4, <1>5, <1>6, <1>7, <1>8, <1>9, <1>10 DEF Next

LEMMA InitPathInv == Init => PathInv
BY DEF Init, StoreInit, ModemInit, Blank, NoPath, Tracked, Tracking, PathInv, ObjectsOK, PathsOK,
   PathsStay

\* Objects and rows name existing paths, and while the modem daemon has not
\* restarted a path stays with the message it was created for.
LEMMA PathInvHolds == Spec => []PathInv
<1>1. Spec => []IInv
  BY InvariantHolds
<1>2. IInv /\ IInv' /\ PathInv /\ [Next]_vars => PathInv'
  BY PathStep
<1> QED
  BY <1>1, <1>2, InitPathInv, PTL DEF Spec

(***************************************************************************)
(* What a step can do to one process and to one row: the case distinctions *)
(* the remaining proofs start from.                                        *)
(***************************************************************************)
Stays(p) ==
    /\ pc'[p] = pc[p] /\ job'[p].id = job[p].id /\ job'[p].path = job[p].path
    /\ \/ job'[p].todo = job[p].todo
       \/ /\ pc[p] = "reply" /\ job[p].todo = "taken"
          /\ \/ RadioSends(job[p].path) /\ job'[p].todo = "ok"
             \/ RadioRefuses(job[p].path) /\ job'[p].todo = "error"
             \/ ModemRestarts /\ job'[p].todo = "lost"

Arrives(p) ==
    \/ p \in Requests /\ (CreateRow(p) \/ Prepare(p) \/ PrepareFails(p) \/ RecordPath(p))
    \/ p \in Workers /\ (Recover(p) \/ Inspect(p) \/ InspectFails(p))
    \/ Begin(p) \/ NotAttempted(p) \/ CallSend(p) \/ Accepted(p) \/ Rejected(p) \/ Unanswered(p)

Rests(p) == pc'[p] \in Resting \cup {"publish", "ack"}

OthersStay(p) == \A q \in Owners : q # p => Stays(q)

LEMMA MoveOthers ==
    ASSUME IInv, NEW p \in Owners,
           \/ \E point, j : Move(p, point, j)
           \/ \E point : Goto(p, point)
           \/ \E point, todo : GotoWith(p, point, todo)
           \/ Leave(p)
    PROVE  OthersStay(p)
<1>1. PICK point, j : Move(p, point, j)
  BY DEF Goto, GotoWith, Leave
<1> QED
  BY <1>1, Moved DEF OthersStay, Stays

LEMMA MoveRests ==
    ASSUME IInv, NEW p \in Owners,
           \/ \E point \in Resting \cup {"publish", "ack"} : \E j : Move(p, point, j)
           \/ \E point \in Resting \cup {"publish", "ack"} : Goto(p, point)
           \/ Leave(p)
    PROVE  OthersStay(p) /\ Rests(p)
<1>1. PICK point, j : point \in Resting \cup {"publish", "ack"} /\ Move(p, point, j)
  BY DEF Goto, Leave, Resting
<1> QED
  BY <1>1, Moved DEF OthersStay, Stays, Rests

LEMMA AllStay ==
    ASSUME UNCHANGED <<pc, job>> PROVE \A p \in Owners : Stays(p)
BY DEF Stays

LEMMA ProcessSteps ==
    ASSUME IInv, [Next]_vars
    PROVE  \A p \in Owners : Stays(p) \/ Arrives(p) \/ Rests(p)
<1> USE OutboundAssumption
<1>1. ASSUME NEW p \in Owners, Arrives(p) PROVE OthersStay(p)
  <2>1. CASE p \in Requests /\ CreateRow(p)
    BY <2>1, MoveOthers DEF CreateRow, Take
  <2>2. CASE Prepare(p) \/ PrepareFails(p) \/ RecordPath(p)
    BY <2>2, MoveOthers DEF Prepare, PrepareFails, RecordPath, Take
  <2>3. CASE Recover(p)
    <3>1. PICK m \in Ids :
            \/ Take(p, m, row[m].path, "finish", "failed")
            \/ Take(p, m, row[m].path, "inspect", "prepared")
            \/ Take(p, m, row[m].path, "inspect", "uncertain")
      BY <2>3 DEF Recover
    <3> QED
      BY <3>1, MoveOthers DEF Take
  <2>4. CASE Inspect(p) \/ InspectFails(p)
    BY <2>4, MoveOthers DEF Inspect, InspectFails
  <2>5. CASE Begin(p) \/ NotAttempted(p) \/ CallSend(p)
    BY <2>5, MoveOthers DEF Begin, NotAttempted, CallSend
  <2>6. CASE Accepted(p) \/ Rejected(p) \/ Unanswered(p)
    BY <2>6, MoveOthers DEF Accepted, Rejected, Unanswered
  <2> QED
    BY <1>1, <2>1, <2>2, <2>3, <2>4, <2>5, <2>6 DEF Arrives
<1>2. ASSUME NEW f \in Requests, FinalizerStep(f) PROVE OthersStay(f) /\ (Arrives(f) \/ Rests(f))
  <2>1. CASE ReplayRow(f)
    BY <2>1, MoveRests DEF ReplayRow, Take, Resting
  <2>2. CASE RefuseRequest(f) \/ PrepareLost(f)
    BY <2>2, MoveRests DEF RefuseRequest, PrepareLost, Resting
  <2> QED
    BY <1>1, <1>2, <2>1, <2>2 DEF FinalizerStep, Arrives
<1>3. ASSUME NEW w \in Workers, WorkerStep(w) PROVE OthersStay(w) /\ (Arrives(w) \/ Rests(w))
  <2>1. CASE StartWorker(w) \/ NoEvent(w) \/ NothingDue(w)
    BY <2>1, MoveRests DEF StartWorker, NoEvent, NothingDue, Resting
  <2>2. CASE ReplayEvent(w)
    BY <2>2, MoveRests DEF ReplayEvent, Take
  <2> QED
    BY <1>1, <1>3, <2>1, <2>2 DEF WorkerStep, Arrives
<1>4. ASSUME NEW p \in Owners, SendStep(p) PROVE OthersStay(p) /\ (Arrives(p) \/ Rests(p))
  <2>1. CASE BeginLost(p)
    BY <2>1, MoveRests DEF BeginLost
  <2> QED
    BY <1>1, <1>4, <2>1 DEF SendStep, Arrives
<1>5. ASSUME NEW p \in Owners, SettleStep(p) PROVE OthersStay(p) /\ Rests(p)
  <2>1. CASE FinishRow(p) \/ FinishLost(p) \/ Publish(p)
    BY <2>1, MoveRests DEF FinishRow, FinishLost, Publish
  <2>2. CASE Ack(p) \/ AckLost(p) \/ DeferRow(p) \/ DeferLost(p)
    BY <2>2, MoveRests DEF Ack, AckLost, DeferRow, DeferLost
  <2> QED
    BY <1>5, <2>1, <2>2 DEF SettleStep
<1>6. ASSUME NEW p \in Owners, Heartbeat(p) PROVE \A q \in Owners : Stays(q)
  BY <1>6, AllStay DEF Heartbeat, procVars
<1>7. ASSUME NEW p \in Owners, Crash(p) \/ StoreFails(p) PROVE OthersStay(p) /\ Rests(p)
  BY <1>7, MoveRests DEF Crash, StoreFails, Resting
<1>8. CASE ModemStep
  <2>1. ASSUME NEW path \in ObjectPaths, RadioSends(path) \/ RadioRefuses(path)
        PROVE  \A q \in Owners : Stays(q)
    BY <2>1, TypeParts
    DEF RadioSends, RadioRefuses, AnswerAt, Stays, IInv, ProcOK, ProcTypeOK, JobType
  <2>2. ASSUME NEW path \in ObjectPaths, SmsRemoved(path) PROVE \A q \in Owners : Stays(q)
    BY <2>2, AllStay DEF SmsRemoved
  <2>3. CASE ModemRestarts
    BY <2>3, TypeParts DEF ModemRestarts, Stays, IInv, ProcOK, ProcTypeOK, JobType
  <2> QED
    BY <1>8, <2>1, <2>2, <2>3 DEF ModemStep
<1>9. CASE CleanupStep
  BY <1>9, AllStay DEF CleanupStep, OperatorDeletes, RetentionDeletes, KeyPruned, procVars
<1>10. CASE TimeStep
  BY <1>10, AllStay DEF TimeStep, LeaseLapses, RetryDue, procVars
<1>11. CASE UNCHANGED vars
  BY <1>11, AllStay DEF vars, procVars
<1> QED
  BY <1>2, <1>3, <1>4, <1>5, <1>6, <1>7, <1>8, <1>9, <1>10, <1>11 DEF Next, OthersStay

\* Where each arrival leads.
LEMMA ArrivalPoints ==
    ASSUME IInv, NEW p \in Owners
    PROVE  /\ CreateRow(p)    => pc'[p] = "prepare"
           /\ Prepare(p)      => pc'[p] = "setpath"
           /\ PrepareFails(p) \/ Accepted(p) \/ Rejected(p) => pc'[p] = "finish"
           /\ RecordPath(p)   => pc'[p] = "begin"
           /\ Recover(p)      => pc'[p] \in {"finish", "inspect"}
           /\ p \in Workers /\ Inspect(p) => pc'[p] \in {"begin", "defer", "finish"}
           /\ InspectFails(p) \/ NotAttempted(p) \/ Unanswered(p) => pc'[p] = "defer"
           /\ Begin(p)        => pc'[p] = "call"
           /\ CallSend(p)     => pc'[p] = "reply"
<1>1. ASSUME NEW point, NEW j, Move(p, point, j) PROVE pc'[p] = point
  BY <1>1, Moved
<1>2. /\ CreateRow(p)    => pc'[p] = "prepare"
      /\ Prepare(p)      => pc'[p] = "setpath"
      /\ RecordPath(p)   => pc'[p] = "begin"
      /\ Begin(p)        => pc'[p] = "call"
      /\ InspectFails(p) => pc'[p] = "defer"
  BY <1>1 DEF CreateRow, Prepare, RecordPath, Begin, InspectFails, Take, Goto
<1>3. /\ PrepareFails(p) \/ Accepted(p) \/ Rejected(p) => pc'[p] = "finish"
      /\ NotAttempted(p) \/ Unanswered(p) => pc'[p] = "defer"
      /\ CallSend(p)     => pc'[p] = "reply"
  BY Went DEF PrepareFails, Accepted, Rejected, NotAttempted, Unanswered, CallSend
<1>4. ASSUME Recover(p) PROVE pc'[p] \in {"finish", "inspect"}
  <2>1. PICK m \in Ids : \/ Take(p, m, row[m].path, "finish", "failed")
                         \/ Take(p, m, row[m].path, "inspect", "prepared")
                         \/ Take(p, m, row[m].path, "inspect", "uncertain")
    BY <1>4 DEF Recover
  <2> QED
    BY <1>1, <2>1 DEF Take
<1>5. ASSUME p \in Workers, Inspect(p) PROVE pc'[p] \in {"begin", "defer", "finish"}
  BY <1>5, Went DEF Inspect, Decision
<1> QED
  BY <1>2, <1>3, <1>4, <1>5

Kept(m) ==
    /\ row'[m].status = row[m].status /\ row'[m].phase = row[m].phase
    /\ row'[m].owner = row[m].owner /\ row'[m].path = row[m].path

Deleted(m) ==
    /\ row[m].status # "absent" /\ ~DeleteBlocked(m)
    /\ row'[m] = Blank /\ Wrote(m, "absent", "none", NoOwner, NoPath)

\* A process writes the row of its message.
WrittenBy(m, p) ==
    \/ RecordPath(p) /\ Wrote(m, "sending", "prepared", p, job[p].path)
    \/ Begin(p) /\ Wrote(m, "sending", "send_started", p, row[m].path)
    \/ DeferRow(p) /\ Wrote(m, "sending", job[p].todo, NoOwner, row[m].path)
    \/ FinishRow(p) /\ Wrote(m, job[p].todo, "complete", p, row[m].path)
    \/ Ack(p) /\ Wrote(m, row[m].status, "none", NoOwner, row[m].path)

\* A worker takes it over.
ClaimedBy(m, w) ==
    \/ Recover(w) /\ ClaimDue(m, w) /\ Wrote(m, "sending", row[m].phase, w, row[m].path)
    \/ ReplayEvent(w) /\ ClaimEvent(m, w)
         /\ Wrote(m, row[m].status, "complete", w, row[m].path)

Created(m) ==
    \E f \in Requests :
        /\ CreateRow(f) /\ m = nextId /\ Wrote(m, "sending", "created", f, NoPath)
        /\ origin' = [origin EXCEPT ![m] = f]

RowStep(m) ==
    \/ Kept(m) \/ Deleted(m) \/ Created(m)
    \/ \E p \in Owners : Mine(p) = m /\ WrittenBy(m, p)
    \/ \E w \in Workers : ClaimedBy(m, w)

LEMMA SameRows ==
    ASSUME UNCHANGED row PROVE \A m \in Ids : RowStep(m)
BY DEF RowStep, Kept

\* A step writes one row at most.
LEMMA OtherRows ==
    ASSUME NEW m \in Ids, NEW status, NEW phase, NEW owner, NEW path,
           Wrote(m, status, phase, owner, path), RowStep(m)
    PROVE  \A n \in Ids : RowStep(n)
BY DEF RowStep, Kept, Wrote

LEMMA RowSteps ==
    ASSUME IInv, [Next]_vars
    PROVE  \A m \in Ids : RowStep(m)
<1> USE OutboundAssumption DEF MovesOnly, FaultOnly, TransactOnly, storeVars, ghostVars
<1>1. ASSUME NEW p \in Owners, pc[p] \notin Resting PROVE Mine(p) \in Ids
  BY <1>1 DEF IInv, TypeInv, JobsOK, JobOK, Mine
<1>2. ASSUME NEW f \in Requests, FinalizerStep(f) PROVE \A n \in Ids : RowStep(n)
  <2>1. CASE CreateRow(f)
    <3>1. PICK m \in Ids : /\ Insert(m, f, KeyOf[f], ContentOf[f])
                           /\ origin' = [origin EXCEPT ![m] = f]
      BY <2>1 DEF CreateRow
    <3>2. Wrote(m, "sending", "created", f, NoPath) /\ m = nextId
      BY <3>1, InsertWrites DEF Insert
    <3>3. RowStep(m)
      BY <2>1, <3>1, <3>2 DEF RowStep, Created
    <3> QED
      BY <3>2, <3>3, OtherRows
  <2>2. CASE RecordPath(f)
    <3>1. Mine(f) \in Ids /\ SetPrepared(Mine(f), f, job[f].path)
      BY <1>1, <2>2 DEF RecordPath, Resting
    <3>2. Wrote(Mine(f), "sending", "prepared", f, job[f].path)
      BY <3>1, Written
    <3> QED
      BY <2>2, <3>1, <3>2, OtherRows DEF RowStep, WrittenBy
  <2>3. CASE ReplayRow(f) \/ Prepare(f) \/ RefuseRequest(f) \/ PrepareFails(f) \/ PrepareLost(f)
    BY <2>3, SameRows DEF ReplayRow, Prepare, RefuseRequest, PrepareFails, PrepareLost
  <2> QED
    BY <1>2, <2>1, <2>2, <2>3 DEF FinalizerStep
<1>3. ASSUME NEW w \in Workers, WorkerStep(w) PROVE \A n \in Ids : RowStep(n)
  <2>1. CASE ReplayEvent(w)
    <3>1. PICK m \in Ids : ClaimEvent(m, w)
      BY <2>1 DEF ReplayEvent
    <3>2. Wrote(m, row[m].status, "complete", w, row[m].path)
      BY <3>1, Written
    <3> QED
      BY <2>1, <3>1, <3>2, OtherRows DEF RowStep, ClaimedBy
  <2>2. CASE Recover(w)
    <3>1. PICK m \in Ids : ClaimDue(m, w)
      BY <2>2 DEF Recover
    <3>2. Wrote(m, "sending", row[m].phase, w, row[m].path)
      BY <3>1, Written
    <3> QED
      BY <2>2, <3>1, <3>2, OtherRows DEF RowStep, ClaimedBy
  <2>3. CASE StartWorker(w) \/ NoEvent(w) \/ NothingDue(w) \/ Inspect(w) \/ InspectFails(w)
    BY <2>3, SameRows DEF StartWorker, NoEvent, NothingDue, Inspect, InspectFails
  <2> QED
    BY <1>3, <2>1, <2>2, <2>3 DEF WorkerStep
<1>4. ASSUME NEW p \in Owners, SendStep(p) PROVE \A n \in Ids : RowStep(n)
  <2>1. CASE Begin(p)
    <3>1. Mine(p) \in Ids /\ BeginSend(Mine(p), p)
      BY <1>1, <2>1 DEF Begin, Resting
    <3>2. Wrote(Mine(p), "sending", "send_started", p, row[Mine(p)].path)
      BY <3>1, Written
    <3> QED
      BY <2>1, <3>1, <3>2, OtherRows DEF RowStep, WrittenBy
  <2>2. CASE CallSend(p)
    BY <2>2, SameRows DEF CallSend, Called
  <2>3. CASE BeginLost(p) \/ NotAttempted(p) \/ Accepted(p) \/ Rejected(p) \/ Unanswered(p)
    BY <2>3, SameRows DEF BeginLost, NotAttempted, Accepted, Rejected, Unanswered
  <2> QED
    BY <1>4, <2>1, <2>2, <2>3 DEF SendStep
<1>5. ASSUME NEW p \in Owners, SettleStep(p) PROVE \A n \in Ids : RowStep(n)
  <2>1. CASE FinishRow(p)
    <3>1. Mine(p) \in Ids /\ Finish(Mine(p), p, job[p].todo)
      BY <1>1, <2>1 DEF FinishRow, Resting
    <3>2. Wrote(Mine(p), job[p].todo, "complete", p, row[Mine(p)].path)
      BY <3>1, Written
    <3> QED
      BY <2>1, <3>1, <3>2, OtherRows DEF RowStep, WrittenBy
  <2>2. CASE Ack(p)
    <3>1. Mine(p) \in Ids /\ Acknowledge(Mine(p), p)
      BY <1>1, <2>2 DEF Ack, Resting
    <3>2. Wrote(Mine(p), row[Mine(p)].status, "none", NoOwner, row[Mine(p)].path)
      BY <3>1, Written
    <3> QED
      BY <2>2, <3>1, <3>2, OtherRows DEF RowStep, WrittenBy
  <2>3. CASE DeferRow(p)
    <3>1. Mine(p) \in Ids /\ Defer(Mine(p), p, job[p].todo)
      BY <1>1, <2>3 DEF DeferRow, Resting
    <3>2. Wrote(Mine(p), "sending", job[p].todo, NoOwner, row[Mine(p)].path)
      BY <3>1, Written
    <3> QED
      BY <2>3, <3>1, <3>2, OtherRows DEF RowStep, WrittenBy
  <2>4. CASE FinishLost(p) \/ Publish(p) \/ AckLost(p) \/ DeferLost(p)
    BY <2>4, SameRows DEF FinishLost, Publish, AckLost, DeferLost
  <2> QED
    BY <1>5, <2>1, <2>2, <2>3, <2>4 DEF SettleStep
<1>6. ASSUME NEW p \in Owners, Heartbeat(p) \/ Crash(p) \/ StoreFails(p)
      PROVE  \A n \in Ids : RowStep(n)
  <2>1. CASE Heartbeat(p)
    <3>1. Mine(p) \in Ids /\ Renew(Mine(p), p)
      BY <1>1, <2>1 DEF Heartbeat, Awaiting, Resting
    <3> QED
      BY <3>1, Written DEF RowStep, Kept, Wrote
  <2>2. CASE Crash(p) \/ StoreFails(p)
    BY <2>2, SameRows DEF Crash, StoreFails
  <2> QED
    BY <1>6, <2>1, <2>2
<1>7. CASE ModemStep
  BY <1>7, SameRows DEF ModemStep, RadioSends, RadioRefuses, SmsRemoved, ModemRestarts
<1>8. CASE CleanupStep
  <2>1. ASSUME NEW m \in Ids, OperatorDeletes(m) \/ RetentionDeletes(m)
        PROVE  \A n \in Ids : RowStep(n)
    <3>1. Deleted(m) /\ Wrote(m, "absent", "none", NoOwner, NoPath)
      BY <2>1, DeletionWrites DEF OperatorDeletes, RetentionDeletes, Delete, RetentionDelete,
         Deleted, Terminal, DeleteBlocked
    <3> QED
      BY <3>1, OtherRows DEF RowStep
  <2>2. ASSUME NEW k \in Keys, KeyPruned(k) PROVE \A n \in Ids : RowStep(n)
    BY <2>2, SameRows DEF KeyPruned, Prune
  <2> QED
    BY <1>8, <2>1, <2>2 DEF CleanupStep
<1>9. CASE TimeStep
  <2>1. PICK m \in Ids : LeaseLapses(m) \/ RetryDue(m)
    BY <1>9 DEF TimeStep
  <2>2. Wrote(m, row[m].status, row[m].phase, row[m].owner, row[m].path)
    BY <2>1, Written DEF LeaseLapses, RetryDue
  <2> QED
    BY <2>2 DEF RowStep, Kept, Wrote
<1>10. CASE UNCHANGED vars
  BY <1>10, SameRows DEF vars
<1> QED
  BY <1>2, <1>3, <1>4, <1>5, <1>6, <1>7, <1>8, <1>9, <1>10 DEF Next

(***************************************************************************)
(* The air.  What a message went through shows in its objects, unless one  *)
(* of its Sends hit the object of another message.                         *)
(***************************************************************************)
LEMMA Untouched ==
    ASSUME AirOK, misfired = {}, NEW m \in Ids, sends[m] = 0 PROVE Quiet(m)
BY DEF AirOK, Quiet

\* A step that puts nothing on the air nor on its way there.
NoNewAir ==
    /\ UNCHANGED <<sends, misfired, onAir>>
    /\ \A path \in ObjectPaths :
         object'[path].state \in {"sending", "sent"} => object'[path] = object[path]

LEMMA SameAir ==
    ASSUME UNCHANGED <<object, sends, misfired, onAir>> PROVE NoNewAir
BY DEF NoNewAir

LEMMA CreateAir ==
    ASSUME IInv, NEW path, NEW m, CreateSms(path, m), UNCHANGED <<sends, misfired, onAir>>
    PROVE  NoNewAir
BY TypeParts DEF CreateSms, NoNewAir, IInv, ModemTypeOK

LEMMA AirSteps ==
    ASSUME IInv, [Next]_vars
    PROVE  NoNewAir \/ (\E p \in Owners : CallSend(p)) \/ (\E path \in ObjectPaths : RadioSends(path))
<1> USE DEF MovesOnly, FaultOnly, TransactOnly, modemVars, ghostVars
<1>1. ASSUME NEW f \in Requests, FinalizerStep(f) PROVE NoNewAir
  <2>1. CASE CreateRow(f) \/ ReplayRow(f) \/ RefuseRequest(f) \/ RecordPath(f) \/ PrepareLost(f)
    BY <2>1, SameAir DEF CreateRow, ReplayRow, RefuseRequest, RecordPath, PrepareLost
  <2>2. CASE Prepare(f) \/ PrepareFails(f)
    BY <2>2, SameAir, CreateAir DEF Prepare, PrepareFails
  <2> QED
    BY <1>1, <2>1, <2>2 DEF FinalizerStep
<1>2. ASSUME NEW w \in Workers, WorkerStep(w) PROVE NoNewAir
  BY <1>2, SameAir DEF WorkerStep, StartWorker, ReplayEvent, NoEvent, Recover, NothingDue,
     Inspect, InspectFails
<1>3. ASSUME NEW p \in Owners, SendStep(p), ~CallSend(p) PROVE NoNewAir
  BY <1>3, SameAir DEF SendStep, Begin, BeginLost, NotAttempted, Accepted, Rejected, Unanswered
<1>4. ASSUME NEW p \in Owners, SettleStep(p) PROVE NoNewAir
  BY <1>4, SameAir DEF SettleStep, FinishRow, FinishLost, Publish, Ack, AckLost, DeferRow, DeferLost
<1>5. ASSUME NEW p \in Owners, Heartbeat(p) \/ Crash(p) \/ StoreFails(p) PROVE NoNewAir
  BY <1>5, SameAir DEF Heartbeat, Crash, StoreFails
<1>6. ASSUME ModemStep PROVE NoNewAir \/ \E path \in ObjectPaths : RadioSends(path)
  <2> USE TypeParts DEF IInv, ModemTypeOK, ObjectType, NoNewAir
  <2>1. ASSUME NEW path \in ObjectPaths, RadioRefuses(path) PROVE NoNewAir
    BY <2>1 DEF RadioRefuses, NotTransmitted
  <2>2. ASSUME NEW path \in ObjectPaths, SmsRemoved(path) PROVE NoNewAir
    BY <2>2 DEF SmsRemoved, RemoveObject, NoObject
  <2>3. CASE ModemRestarts
    BY <2>3 DEF ModemRestarts, RestartModem, NoObject
  <2> QED
    BY <1>6, <2>1, <2>2, <2>3 DEF ModemStep
<1>7. CASE CleanupStep
  BY <1>7, SameAir DEF CleanupStep, OperatorDeletes, RetentionDeletes, KeyPruned
<1>8. CASE TimeStep
  BY <1>8, SameAir DEF TimeStep, LeaseLapses, RetryDue
<1>9. CASE UNCHANGED vars
  BY <1>9, SameAir DEF vars
<1> QED
  BY <1>1, <1>2, <1>3, <1>4, <1>5, <1>6, <1>7, <1>8, <1>9 DEF Next

\* What a Send call changes.
LEMMA CallFacts ==
    ASSUME IInv, PathInv, NEW p \in Owners, CallSend(p)
    PROVE  /\ Mine(p) \in Ids /\ job[p].path \in ObjectPaths
           /\ sends[Mine(p)] = 0 /\ sends'[Mine(p)] = 1
           /\ \A n \in Ids : n # Mine(p) => sends'[n] = sends[n]
           /\ onAir' = onAir /\ misfired \subseteq misfired'
           /\ \A path \in ObjectPaths : path # job[p].path => object'[path] = object[path]
           /\ \/ object'[job[p].path] = object[job[p].path]
              \/ /\ object[job[p].path].state = "stored"
                 /\ object'[job[p].path].state = "sending"
                 /\ object'[job[p].path].madeFor = object[job[p].path].madeFor
                 /\ object[job[p].path].madeFor = Mine(p) \/ Mine(p) \in misfired'
<1> DEFINE path == job[p].path
           m    == Mine(p)
<1>1. /\ pc[p] = "call" /\ path \in ObjectPaths
      /\ m \in Ids
  BY DEF CallSend, PathInv, PathsOK, Tracking, IInv, TypeInv, JobsOK, JobOK, Resting, Mine
<1>2. sends[m] = 0
  BY <1>1 DEF IInv, SendOnce, ArmedOnce, Armed, Mine
<1>3. /\ sends' = [sends EXCEPT ![m] = @ + 1]
      /\ misfired' = IF object[path].madeFor \in {m, NoId} THEN misfired
                     ELSE misfired \cup {m}
      /\ onAir' = onAir
  BY DEF CallSend, Called
<1>4. sends \in [Ids -> Nat] /\ object \in [ObjectPaths -> ObjectType]
  BY TypeParts DEF IInv, GhostTypeOK, ModemTypeOK
<1>5. CASE UNCHANGED modemVars
  BY <1>1, <1>2, <1>3, <1>4, <1>5 DEF modemVars
<1>6. CASE TakeSend(path)
  <2>1. object[path].madeFor # NoId
    BY <1>1, <1>6 DEF TakeSend, NoObject, PathInv, ObjectsOK, Ids, NoId
  <2>2. /\ object[path].state = "stored" /\ object'[path].state = "sending"
        /\ object'[path].madeFor = object[path].madeFor
        /\ \A other \in ObjectPaths : other # path => object'[other] = object[other]
    BY <1>1, <1>4, <1>6 DEF TakeSend, ObjectType
  <2> QED
    BY <1>1, <1>2, <1>3, <1>4, <2>1, <2>2
<1> QED
  BY <1>5, <1>6 DEF CallSend

LEMMA RadioFacts ==
    ASSUME IInv, PathInv, NEW path \in ObjectPaths, RadioSends(path)
    PROVE  /\ UNCHANGED <<pc, row, sends, misfired>>
           /\ onAir' = onAir \cup {object[path].madeFor}
           /\ object[path].state = "sending" /\ object'[path].state = "sent"
           /\ object'[path].madeFor = object[path].madeFor /\ object[path].madeFor \in Ids
           /\ \A other \in ObjectPaths : other # path => object'[other] = object[other]
BY TypeParts
DEF RadioSends, Transmitted, storeVars, IInv, ModemTypeOK, ObjectType, PathInv, ObjectsOK, NoObject

LEMMA AirStep ==
    ASSUME IInv, PathInv, AirOK, [Next]_vars PROVE AirOK'
<1>1. CASE NoNewAir
  BY <1>1 DEF NoNewAir, AirOK
<1>2. ASSUME NEW p \in Owners, CallSend(p) PROVE AirOK'
  <2> DEFINE m == Mine(p)
  <2>1. \A path \in ObjectPaths : object'[path].state = "sent" => object'[path].madeFor \in onAir'
    BY <1>2, CallFacts DEF AirOK
  <2>2. ASSUME misfired' = {}
        PROVE  /\ misfired = {} /\ m \notin onAir
               /\ \A path \in ObjectPaths : object[path].state = "sending" =>
                    object[path].madeFor # m
    BY <1>2, <2>2, CallFacts DEF AirOK
  <2>3. ASSUME misfired' = {}, NEW n \in onAir', n \in Ids PROVE sends'[n] > 0
    BY <1>2, <2>2, <2>3, CallFacts DEF AirOK
  <2>4. ASSUME misfired' = {}, NEW path \in ObjectPaths,
               object'[path].state \in {"sending", "sent"}
        PROVE  sends'[object'[path].madeFor] > 0
    <3>1. object'[path] # NoObject /\ object'[path].madeFor = object[path].madeFor
      BY <1>2, <2>4, CallFacts DEF NoObject
    <3>2. CASE object[path].madeFor = m
      BY <1>2, <3>1, <3>2, CallFacts
    <3>3. CASE object[path].madeFor # m
      BY <1>2, <2>2, <2>4, <3>1, <3>3, CallFacts DEF AirOK, PathInv, ObjectsOK, NoObject
    <3> QED
      BY <3>2, <3>3
  <2>5. ASSUME misfired' = {}, NEW path \in ObjectPaths, object'[path].state = "sending"
        PROVE  /\ object'[path].madeFor \notin onAir'
               /\ \A other \in ObjectPaths :
                    object'[other].state = "sending"
                      /\ object'[other].madeFor = object'[path].madeFor => other = path
    BY <1>2, <2>2, <2>5, CallFacts DEF AirOK
  <2> QED
    BY <2>1, <2>3, <2>4, <2>5 DEF AirOK
<1>3. ASSUME NEW path \in ObjectPaths, RadioSends(path) PROVE AirOK'
  BY <1>3, RadioFacts DEF AirOK
<1> QED
  BY <1>1, <1>2, <1>3, AirSteps

\* A message that is quiet stays quiet until somebody sends it.
LEMMA QuietKept ==
    ASSUME IInv, PathInv, [Next]_vars, misfired' = {}, NEW m \in Ids, Quiet(m),
           \A p \in Owners : ~Armed(p, m)
    PROVE  Quiet(m)'
<1>1. CASE NoNewAir
  BY <1>1 DEF NoNewAir, Quiet
<1>2. ASSUME NEW p \in Owners, CallSend(p) PROVE Quiet(m)'
  <2>1. Mine(p) # m
    BY <1>2 DEF CallSend, Armed, Mine
  <2> QED
    BY <1>2, <2>1, CallFacts DEF Quiet
<1>3. ASSUME NEW path \in ObjectPaths, RadioSends(path) PROVE Quiet(m)'
  BY <1>3, RadioFacts DEF Quiet
<1> QED
  BY <1>1, <1>2, <1>3, AirSteps

\* An object that is being sent goes on being sent until the radio is done.
LEMMA SendingStays ==
    ASSUME IInv, PathInv, [Next]_vars, NEW path \in ObjectPaths, object[path].state = "sending"
    PROVE  \/ object'[path] = object[path]
           \/ RadioSends(path) \/ RadioRefuses(path) \/ ModemRestarts
<1> USE TypeParts DEF IInv, ModemTypeOK, MovesOnly, FaultOnly, TransactOnly, modemVars, ghostVars
<1>1. ASSUME NEW m, CreateSms(nextPath, m) PROVE object'[path] = object[path]
  <2>1. nextPath # path
    BY DEF PathInv, ObjectsOK, NoObject, ObjectPaths
  <2> QED
    BY <1>1, <2>1 DEF CreateSms
<1>2. ASSUME NEW f \in Requests, FinalizerStep(f) PROVE object'[path] = object[path]
  BY <1>1, <1>2 DEF FinalizerStep, CreateRow, ReplayRow, RefuseRequest, Prepare, PrepareFails,
     RecordPath, PrepareLost
<1>3. ASSUME NEW w \in Workers, WorkerStep(w) PROVE object'[path] = object[path]
  BY <1>3 DEF WorkerStep, StartWorker, ReplayEvent, NoEvent, Recover, NothingDue, Inspect,
     InspectFails
<1>4. ASSUME NEW p \in Owners, SendStep(p) PROVE object'[path] = object[path]
  <2>1. CASE CallSend(p)
    BY <2>1, CallFacts
  <2> QED
    BY <1>4, <2>1 DEF SendStep, Begin, BeginLost, NotAttempted, Accepted, Rejected, Unanswered
<1>5. ASSUME NEW p \in Owners, SettleStep(p) \/ Heartbeat(p) \/ Crash(p) \/ StoreFails(p)
      PROVE  object'[path] = object[path]
  BY <1>5 DEF SettleStep, FinishRow, FinishLost, Publish, Ack, AckLost, DeferRow, DeferLost,
     Heartbeat, Crash, StoreFails
<1>6. ASSUME NEW other \in ObjectPaths, other # path,
             RadioSends(other) \/ RadioRefuses(other) \/ SmsRemoved(other)
      PROVE  object'[path] = object[path]
  BY <1>6 DEF RadioSends, RadioRefuses, SmsRemoved, Transmitted, NotTransmitted, RemoveObject
<1>7. ~SmsRemoved(path)
  BY DEF SmsRemoved, RemoveObject
<1>8. CASE CleanupStep \/ TimeStep \/ UNCHANGED vars
  BY <1>8 DEF CleanupStep, OperatorDeletes, RetentionDeletes, KeyPruned, TimeStep, LeaseLapses,
     RetryDue, vars
<1> QED
  BY <1>2, <1>3, <1>4, <1>5, <1>6, <1>7, <1>8 DEF Next, ModemStep

\* Whose row is not its own to send any more.
LEMMA SentUnarmed ==
    ASSUME IInv, NEW m \in Ids, sends[m] > 0 PROVE \A p \in Owners : ~Armed(p, m)
BY DEF IInv, SendOnce, ArmedOnce

LEMMA ReplyAt ==
    ASSUME IInv, PathInv, NEW p \in Owners, pc[p] = "reply"
    PROVE  Mine(p) \in Ids /\ job[p].path \in ObjectPaths
BY DEF IInv, TypeInv, JobsOK, JobOK, Resting, Mine, PathInv, PathsOK, Tracking

LEMMA SendsGrow ==
    ASSUME IInv, PathInv, [Next]_vars
    PROVE  misfired \subseteq misfired' /\ onAir \subseteq onAir'
           /\ \A m \in Ids : sends[m] > 0 => sends'[m] > 0
<1>1. CASE NoNewAir
  BY <1>1 DEF NoNewAir
<1>2. ASSUME NEW p \in Owners, CallSend(p)
      PROVE  misfired \subseteq misfired' /\ onAir \subseteq onAir'
             /\ \A m \in Ids : sends[m] > 0 => sends'[m] > 0
  BY <1>2, CallFacts
<1>3. ASSUME NEW path \in ObjectPaths, RadioSends(path)
      PROVE  misfired \subseteq misfired' /\ onAir \subseteq onAir'
             /\ \A m \in Ids : sends[m] > 0 => sends'[m] > 0
  BY <1>3, RadioFacts
<1> QED
  BY <1>1, <1>2, <1>3, AirSteps

LEMMA ReplyEntered ==
    ASSUME IInv, PathInv, AirOK, NEW p \in Owners, CallSend(p), Mine(p) \in Ids
    PROVE  /\ Mine(p)' = Mine(p) /\ job'[p].path = job[p].path
           /\ sends'[Mine(p)] > 0
           /\ job'[p].todo = "taken" =>
                /\ object'[job[p].path].state = "sending"
                /\ object'[job[p].path].madeFor = Mine(p) \/ Mine(p) \in misfired'
           /\ job'[p].todo \in {"taken", "refused", "lost"}
           /\ job'[p].todo = "refused" /\ misfired' = {} => Quiet(Mine(p))'
<1>1. \E todo \in {"taken", "refused", "lost"} :
        /\ GotoWith(p, "reply", todo)
        /\ todo = "taken" => TakeSend(job[p].path)
        /\ todo # "taken" => UNCHANGED modemVars
  BY DEF CallSend
<1>2. PICK todo \in {"taken", "refused", "lost"} :
        /\ GotoWith(p, "reply", todo)
        /\ todo = "taken" => TakeSend(job[p].path)
        /\ todo # "taken" => UNCHANGED modemVars
  BY <1>1
<1>3. Mine(p)' = Mine(p) /\ job'[p].path = job[p].path /\ job'[p].todo = todo
  BY <1>2, Went DEF Mine
<1>4. sends'[Mine(p)] > 0
  BY CallFacts
<1>5. CASE todo = "taken"
  <2>1. object[job[p].path].state = "stored"
    BY <1>2, <1>5 DEF TakeSend
  <2>2. object'[job[p].path].state = "sending"
    BY <1>2, <1>5, CallFacts, TypeParts DEF TakeSend, IInv, ModemTypeOK, ObjectType
  <2> QED
    BY <1>3, <1>4, <1>5, <2>1, <2>2, CallFacts
<1>6. CASE todo # "taken"
  <2>1. ASSUME misfired' = {} PROVE Quiet(Mine(p))'
    <3>1. misfired = {} /\ sends[Mine(p)] = 0 /\ onAir' = onAir
      BY <2>1, CallFacts
    <3>2. Quiet(Mine(p))
      BY <3>1, Untouched
    <3> QED
      BY <1>2, <1>3, <1>6, <3>1, <3>2 DEF Quiet, modemVars
  <2> QED
    BY <1>2, <1>3, <1>4, <1>6, <2>1
<1> QED
  BY <1>5, <1>6

LEMMA RepliesStep ==
    ASSUME IInv, PathInv, AirOK, RepliesOK, [Next]_vars PROVE RepliesOK'
<1> SUFFICES ASSUME NEW p \in Owners, pc'[p] = "reply"
             PROVE  /\ sends'[Mine(p)'] > 0
                    /\ job'[p].todo = "taken" =>
                         /\ object'[job'[p].path].state = "sending"
                         /\ object'[job'[p].path].madeFor = Mine(p)' \/ Mine(p)' \in misfired'
                    /\ job'[p].todo = "ok" => Mine(p)' \in onAir' \cup misfired'
                    /\ job'[p].todo \in {"refused", "error"} /\ misfired' = {} => Quiet(Mine(p))'
  BY DEF RepliesOK
<1>1. CallSend(p) \/ (Stays(p) /\ pc[p] = "reply")
  <2>1. Stays(p) \/ Arrives(p)
    BY ProcessSteps DEF Rests, Resting
  <2>2. CASE Stays(p)
    BY <2>2 DEF Stays
  <2>3. CASE Arrives(p) /\ ~CallSend(p)
    BY <2>3, ArrivalPoints DEF Arrives
  <2> QED
    BY <2>1, <2>2, <2>3
<1>2. CASE CallSend(p)
  BY <1>2, CallFacts, ReplyEntered
<1>3. CASE Stays(p) /\ pc[p] = "reply"
  <2>0. PICK m \in Ids, path \in ObjectPaths : m = Mine(p) /\ path = job[p].path
    BY <1>3, ReplyAt
  <2>1. /\ m = Mine(p) /\ path = job[p].path /\ Mine(p)' = m /\ job'[p].path = path
        /\ sends[m] > 0 /\ \A q \in Owners : ~Armed(q, m)
    BY <1>3, <2>0, SentUnarmed DEF Stays, RepliesOK, Mine
  <2>2. sends'[m] > 0
    BY <2>1, SendsGrow
  <2>3. ASSUME misfired' = {}, Quiet(m) PROVE Quiet(m)'
    BY <2>1, <2>3, QuietKept
  <2>4. CASE job'[p].todo = job[p].todo
    <3>1. ASSUME job[p].todo = "taken"
          PROVE  /\ object'[path].state = "sending"
                 /\ object'[path].madeFor = m \/ m \in misfired'
      <4>1. /\ object[path].state = "sending"
            /\ object[path].madeFor = m \/ m \in misfired
        BY <1>3, <2>0, <3>1 DEF RepliesOK
      <4>2. ~RadioSends(path) /\ ~RadioRefuses(path) /\ ~ModemRestarts
        BY <1>3, <2>1, <2>4, <3>1, TypeParts
        DEF RadioSends, RadioRefuses, ModemRestarts, AnswerAt, IInv, ProcOK, ProcTypeOK, JobType
      <4> QED
        BY <2>1, <4>1, <4>2, SendingStays, SendsGrow
    <3>2. job[p].todo = "ok" => m \in onAir' \cup misfired'
      BY <1>3, <2>0, SendsGrow DEF RepliesOK
    <3>3. job[p].todo \in {"refused", "error"} /\ misfired' = {} => Quiet(m)'
      BY <1>3, <2>0, <2>3, SendsGrow DEF RepliesOK
    <3> QED
      BY <2>1, <2>2, <2>4, <3>1, <3>2, <3>3
  <2>5. CASE job[p].todo = "taken" /\ RadioSends(path) /\ job'[p].todo = "ok"
    <3>1. object[path].madeFor = m \/ m \in misfired
      BY <1>3, <2>0, <2>5 DEF RepliesOK
    <3> QED
      BY <2>1, <2>2, <2>5, <3>1, RadioFacts
  <2>6. CASE job[p].todo = "taken" /\ RadioRefuses(path) /\ job'[p].todo = "error"
    <3>1. UNCHANGED <<misfired, onAir>> /\ object[path].state = "sending"
      BY <2>6 DEF RadioRefuses, NotTransmitted, ghostVars
    <3>2. ASSUME misfired = {} PROVE Quiet(m)'
      <4>1. object[path].madeFor = m
        BY <1>3, <2>0, <2>6, <3>2 DEF RepliesOK
      <4>2. m \notin onAir
            /\ \A other \in ObjectPaths :
                 object[other].state = "sending" /\ object[other].madeFor = m => other = path
        BY <2>1, <3>1, <3>2, <4>1 DEF AirOK
      <4>3. /\ object'[path].state = "stored"
            /\ \A other \in ObjectPaths : other # path => object'[other] = object[other]
        BY <2>1, <2>6, TypeParts
        DEF RadioRefuses, NotTransmitted, IInv, ModemTypeOK, ObjectType
      <4> QED
        BY <3>1, <4>2, <4>3 DEF Quiet
    <3> QED
      BY <2>1, <2>2, <2>6, <3>1, <3>2
  <2>7. CASE job'[p].todo = "lost"
    BY <2>1, <2>2, <2>7
  <2> QED
    BY <1>3, <2>0, <2>4, <2>5, <2>6, <2>7 DEF Stays
<1> QED
  BY <1>1, <1>2, <1>3

\* Nobody but the finalizer itself changes the row it has not prepared yet.
LEMMA FirstOwnerStep ==
    ASSUME IInv, FirstOwnerWaits, [Next]_vars PROVE FirstOwnerWaits'
<1> USE OutboundAssumption
<1> SUFFICES ASSUME NEW f \in Requests, pc'[f] \in {"prepare", "setpath"}, Owns(Mine(f), f)'
             PROVE  row'[Mine(f)'].phase = "created"
  BY DEF FirstOwnerWaits
<1>1. Stays(f) \/ Arrives(f)
  BY ProcessSteps DEF Rests, Resting
<1>2. CASE CreateRow(f)
  <2>1. PICK m \in Ids : /\ Insert(m, f, KeyOf[f], ContentOf[f])
                         /\ Take(f, m, NoPath, "prepare", "none")
    BY <1>2 DEF CreateRow
  <2>2. Mine(f)' = m
    BY <2>1, Moved DEF Take, Mine
  <2> QED
    BY <2>1, <2>2, InsertWrites DEF Wrote
<1>3. CASE Prepare(f)
  <2>1. Mine(f)' = Mine(f) /\ UNCHANGED row
    BY <1>3, Moved DEF Prepare, Take, Mine, storeVars
  <2> QED
    BY <1>3, <2>1 DEF Prepare, FirstOwnerWaits, Owns
<1>4. CASE Stays(f)
  <2>1. Mine(f)' = Mine(f) /\ pc[f] \in {"prepare", "setpath"} /\ Mine(f) \in Ids
    BY <1>4 DEF Stays, Mine, IInv, TypeInv, JobsOK, JobOK, Resting
  <2> DEFINE m == Mine(f)
  <2>2. m < nextId /\ nextId \in Nat /\ m \in Nat
    BY <2>1, TypeParts DEF Mine, IInv, FreshIds, StoreTypeOK, Ids
  <2>3. CASE Kept(m)
    BY <2>1, <2>3 DEF Kept, Owns, FirstOwnerWaits
  <2>4. CASE Deleted(m)
    BY <2>1, <2>4 DEF Deleted, Blank, Owns
  <2>5. ~Created(m)
    BY <2>2 DEF Created
  <2>6. ASSUME NEW p \in Owners, Mine(p) = m, WrittenBy(m, p) PROVE FALSE
    <3>1. p # f
      <4>1. ~RecordPath(f)
        BY <1>4, <2>1, Moved DEF RecordPath, Goto, Stays
      <4> QED
        BY <2>1, <2>6, <4>1 DEF WrittenBy, Begin, DeferRow, FinishRow, Ack
    <3> QED
      BY <2>1, <2>6, <3>1, StoreAssumption DEF WrittenBy, Wrote, Owns
  <2>7. ASSUME NEW w \in Workers, ClaimedBy(m, w) PROVE FALSE
    BY <2>1, <2>7 DEF ClaimedBy, Wrote, Owns
  <2> QED
    BY <2>1, <2>3, <2>4, <2>5, <2>6, <2>7, RowSteps DEF RowStep
<1>5. Arrives(f) => CreateRow(f) \/ Prepare(f)
  BY ArrivalPoints DEF Arrives
<1> QED
  BY <1>1, <1>2, <1>3, <1>4, <1>5

(***************************************************************************)
(* Verdicts.  How a process comes to be about to store one, and a row to   *)
(* hold one.                                                               *)
(***************************************************************************)
LEMMA FinishSteps ==
    ASSUME IInv, [Next]_vars, NEW p \in Owners, pc'[p] = "finish"
    PROVE  \/ pc[p] = "finish" /\ Mine(p)' = Mine(p) /\ job'[p].todo = job[p].todo
           \/ /\ job'[p].todo = "failed" /\ Mine(p)' = Mine(p)
              /\ \/ p \in Requests /\ PrepareFails(p)
                 \/ Rejected(p)
           \/ /\ job'[p].todo = "failed" /\ p \in Workers
              /\ ClaimDue(Mine(p)', p) /\ row[Mine(p)'].phase = "created" /\ Mine(p)' \in Ids
           \/ /\ job'[p].todo = "sent" /\ Mine(p)' = Mine(p)
              /\ \/ Accepted(p)
                 \/ p \in Workers /\ Inspect(p) /\ Decision(p) = <<"finish", "sent">>
<1> USE OutboundAssumption
<1>0. ASSUME NEW point, NEW j, Move(p, point, j) PROVE point = "finish" /\ job'[p] = j
  BY <1>0, Moved
<1>1. Stays(p) \/ Arrives(p)
  BY ProcessSteps DEF Rests, Resting
<1>2. CASE Stays(p)
  BY <1>2 DEF Stays, Mine
<1>3. Arrives(p) => \/ p \in Requests /\ PrepareFails(p)
                    \/ p \in Workers /\ (Recover(p) \/ Inspect(p))
                    \/ Accepted(p) \/ Rejected(p)
  BY ArrivalPoints DEF Arrives
<1>6. CASE (p \in Requests /\ PrepareFails(p)) \/ Rejected(p)
  BY <1>6, Went DEF PrepareFails, Rejected, Mine
<1>7. CASE Accepted(p)
  BY <1>7, Went DEF Accepted, Mine
<1>8. CASE p \in Workers /\ Recover(p)
  <2>1. PICK m \in Ids :
          /\ ClaimDue(m, p)
          /\ \/ row[m].phase = "created" /\ Take(p, m, row[m].path, "finish", "failed")
             \/ Take(p, m, row[m].path, "inspect", "prepared")
             \/ Take(p, m, row[m].path, "inspect", "uncertain")
    BY <1>8 DEF Recover
  <2>2. row[m].phase = "created" /\ Take(p, m, row[m].path, "finish", "failed")
    BY <1>0, <2>1 DEF Take
  <2> QED
    BY <1>0, <1>8, <2>1, <2>2 DEF Take, Mine
<1>9. CASE p \in Workers /\ Inspect(p)
  <2>1. Decision(p)[1] = "finish" /\ job'[p].todo = Decision(p)[2] /\ Mine(p)' = Mine(p)
    BY <1>9, Went DEF Inspect, Mine
  <2>2. Decision(p) = <<"finish", "sent">>
    BY <2>1 DEF Decision
  <2> QED
    BY <1>9, <2>1, <2>2
<1> QED
  BY <1>1, <1>2, <1>3, <1>6, <1>7, <1>8, <1>9

\* Ownership of a message that exists comes with a claim only.
LEMMA OwnsKept ==
    ASSUME IInv, [Next]_vars, NEW p \in Owners, NEW m \in Ids, m < nextId, Owns(m, p)'
    PROVE  Owns(m, p) \/ (Recover(p) /\ ClaimDue(m, p))
<1> USE StoreAssumption
<1>0. nextId \in Nat /\ m \in Nat
  BY TypeParts DEF IInv, StoreTypeOK, Ids
<1>1. CASE Kept(m)
  BY <1>1 DEF Kept, Owns
<1>2. CASE Deleted(m)
  BY <1>2 DEF Deleted, Blank, Owns
<1>3. CASE Created(m)
  BY <1>0, <1>3 DEF Created
<1>4. ASSUME NEW q \in Owners, Mine(q) = m, WrittenBy(m, q) PROVE Owns(m, p)
  BY <1>4 DEF WrittenBy, Wrote, Owns, RecordPath, SetPrepared, CanPrepare, Begin, BeginSend,
     CanBegin, FinishRow, IInv, TypeInv, JobsOK, JobOK, Terminal
<1>5. ASSUME NEW w \in Workers, ClaimedBy(m, w) PROVE Recover(p) /\ ClaimDue(m, p)
  BY <1>5 DEF ClaimedBy, Wrote, Owns, ClaimEvent, PendingEvents, Terminal
<1> QED
  BY <1>1, <1>2, <1>3, <1>4, <1>5, RowSteps DEF RowStep

LEMMA NewArm ==
    ASSUME IInv, [Next]_vars, NEW p \in Owners, NEW m \in Ids, Armed(p, m)'
    PROVE  Armed(p, m) \/ (Begin(p) /\ Mine(p) = m)
<1>1. Stays(p) \/ Arrives(p)
  BY ProcessSteps DEF Rests, Resting, Armed
<1>2. CASE Stays(p)
  BY <1>2 DEF Stays, Armed
<1>3. CASE Arrives(p)
  <2>1. Begin(p)
    BY <1>3, ArrivalPoints DEF Arrives, Armed
  <2> QED
    BY <2>1, Moved DEF Begin, Goto, Mine, Armed
<1> QED
  BY <1>1, <1>2, <1>3

\* A message that failed, or that its owner is about to call failed.
Doomed(m) ==
    \/ row[m].status = "failed"
    \/ \E p \in Owners : /\ pc[p] = "finish" /\ job[p].todo = "failed"
                         /\ Mine(p) = m /\ Owns(m, p)

LEMMA DoomedSteps ==
    ASSUME IInv, AirInv, [Next]_vars, misfired = {}, NEW m \in Ids, Doomed(m)'
    PROVE  NeverAired(m)
<1> USE OutboundAssumption
<1>1. ASSUME ~Spent(m) PROVE NeverAired(m)
  <2>1. sends[m] = 0 /\ \A q \in Owners : ~Armed(q, m)
    BY <1>1, TypeParts DEF Spent, IInv, GhostTypeOK
  <2> QED
    BY <2>1, Untouched DEF NeverAired, AirInv
<1>2. ASSUME row[m].phase = "created" PROVE NeverAired(m)
  BY <1>1, <1>2 DEF IInv, SendOnce, SpentShows
<1>3. CASE row'[m].status = "failed"
  <2>1. CASE Kept(m)
    BY <1>3, <2>1 DEF Kept, AirInv, FailuresOK
  <2>2. ~Deleted(m) /\ ~Created(m)
    BY <1>3 DEF Deleted, Created, Blank, Wrote
  <2>3. ASSUME NEW p \in Owners, Mine(p) = m, WrittenBy(m, p) PROVE NeverAired(m)
    BY <1>3, <2>3 DEF WrittenBy, Wrote, FinishRow, Finish, AirInv, FailuresOK
  <2>4. ASSUME NEW w \in Workers, ClaimedBy(m, w) PROVE NeverAired(m)
    BY <1>3, <2>4 DEF ClaimedBy, Wrote, AirInv, FailuresOK
  <2> QED
    BY <2>1, <2>2, <2>3, <2>4, RowSteps DEF RowStep
<1>4. ASSUME NEW p \in Owners, pc'[p] = "finish", job'[p].todo = "failed", Mine(p)' = m,
             Owns(m, p)'
      PROVE  NeverAired(m)
  <2>1. \/ /\ pc[p] = "finish" /\ Mine(p) = m /\ job[p].todo = "failed"
        \/ Mine(p) = m /\ p \in Requests /\ PrepareFails(p)
        \/ Mine(p) = m /\ Rejected(p)
        \/ row[m].phase = "created"
    BY <1>4, FinishSteps
  <2>2. ASSUME Mine(p) = m, pc[p] # "scan" PROVE Owns(m, p)
    <3>1. m < nextId
      BY <2>2 DEF IInv, FreshIds, Mine
    <3> QED
      BY <1>4, <2>2, <3>1, OwnsKept DEF Recover
  <2>3. CASE pc[p] = "finish" /\ Mine(p) = m /\ job[p].todo = "failed"
    BY <2>2, <2>3 DEF AirInv, FailuresOK
  <2>4. CASE Mine(p) = m /\ p \in Requests /\ PrepareFails(p)
    <3>1. pc[p] = "prepare" /\ Owns(m, p)
      BY <2>2, <2>4 DEF PrepareFails
    <3>2. row[m].phase = "created"
      BY <2>4, <3>1 DEF AirInv, FirstOwnerWaits
    <3> QED
      BY <1>2, <3>2
  <2>5. CASE Mine(p) = m /\ Rejected(p)
    BY <2>5, SentUnarmed DEF Rejected, AirInv, RepliesOK, NeverAired
  <2> QED
    BY <1>2, <2>1, <2>3, <2>4, <2>5
<1> QED
  BY <1>3, <1>4 DEF Doomed

LEMMA FailuresStep ==
    ASSUME IInv, PathInv, AirInv, [Next]_vars PROVE FailuresOK'
<1> SUFFICES ASSUME misfired' = {}, NEW m \in Ids, Doomed(m)'
             PROVE  NeverAired(m)'
  <2>1. ASSUME NEW p \in Owners, pc'[p] = "finish"
        PROVE  Mine(p)' \in Ids
    BY <2>1, NextIInv DEF IInv, TypeInv, JobsOK, JobOK, Resting, Mine
  <2> QED
    BY <2>1 DEF FailuresOK, Doomed
<1>1. misfired = {}
  BY SendsGrow
<1>2. NeverAired(m)
  BY <1>1, DoomedSteps
<1>3. Quiet(m)'
  BY <1>2, QuietKept DEF NeverAired
<1>4. ASSUME NEW q \in Owners, Armed(q, m)' PROVE FALSE
  <2>1. Begin(q) /\ Mine(q) = m
    BY <1>2, <1>4, NewArm DEF NeverAired
  <2>2. Wrote(m, "sending", "send_started", q, row[m].path)
    BY <2>1, Written DEF Begin
  <2>3. pc'[q] = "call"
    BY <1>4 DEF Armed
  <2>4. PICK p \in Owners : pc'[p] = "finish" /\ Owns(m, p)'
    BY <2>2 DEF Doomed, Wrote
  <2> QED
    BY <2>2, <2>3, <2>4 DEF Owns, Wrote
<1> QED
  BY <1>3, <1>4 DEF NeverAired

LEMMA InitAirInv == Init => AirInv
<1> SUFFICES ASSUME Init PROVE AirInv
  OBVIOUS
<1>1. /\ \A path \in ObjectPaths : object[path].state = "none"
      /\ \A p \in Owners : pc[p] = "off"
      /\ \A m \in Ids : row[m].status = "absent"
      /\ onAir = {}
  BY DEF Init, StoreInit, ModemInit, Blank, NoObject
<1>2. AirOK
  BY <1>1 DEF AirOK
<1>3. RepliesOK /\ FirstOwnerWaits
  BY <1>1, OutboundAssumption DEF RepliesOK, FirstOwnerWaits
<1>4. FailuresOK
  BY <1>1 DEF FailuresOK
<1> QED
  BY <1>2, <1>3, <1>4 DEF AirInv

LEMMA AirInvHolds == Spec => []AirInv
<1>1. Spec => []IInv
  BY InvariantHolds
<1>2. Spec => []PathInv
  BY PathInvHolds
<1>3. IInv /\ PathInv /\ AirInv /\ [Next]_vars => AirInv'
  BY AirStep, RepliesStep, FirstOwnerStep, FailuresStep DEF AirInv
<1> QED
  BY <1>1, <1>2, <1>3, InitAirInv, PTL DEF Spec

\* A message stored as failed was not transmitted, and nobody is left who
\* could still send it, unless a Send hit the object of another message
\* (is_explicit_send_rejection, recover_claim).
THEOREM FailuresTruthful == Spec => []FailedIsTruthful
<1>1. AirInv => FailedIsTruthful
  BY DEF AirInv, FailuresOK, FailedIsTruthful, NeverAired, Quiet
<1> QED
  BY <1>1, AirInvHolds, PTL

(***************************************************************************)
(* `sent'.  Recovery takes an object it finds sent for its own when number *)
(* and text are those of its message (snapshot_matches_message).  That is  *)
(* right only while two different messages of the same contents cannot     *)
(* meet at one path: no daemon restart, or no two requests of the same     *)
(* contents.                                                               *)
(***************************************************************************)
Distinguishable ==
    \/ MaxModemRestarts = 0
    \/ \A f, g \in Requests : ContentOf[f] = ContentOf[g] => f = g

\* The object recovery recognises is the one made for its message.
LEMMA MatchIsOwn ==
    ASSUME Distinguishable, IInv, KeyInv, PathInv, NEW w \in Owners, pc[w] = "inspect",
           Matches(w)
    PROVE  job[w].path \in ObjectPaths /\ object[job[w].path].madeFor = Mine(w)
<1> DEFINE maker == object[job[w].path].madeFor
<1>1. job[w].path \in ObjectPaths
  BY DEF PathInv, PathsOK, Tracking
<1>2. maker # NoId /\ ContentOf[origin[maker]] = ContentOf[origin[Mine(w)]]
  BY DEF Matches
<1>3. CASE MaxModemRestarts = 0
  <2>1. modemRestarts = 0
    BY <1>3, TypeParts DEF IInv, ModemTypeOK
  <2> QED
    BY <1>1, <1>2, <2>1 DEF PathInv, PathsStay, Tracking
<1>4. CASE \A f, g \in Requests : ContentOf[f] = ContentOf[g] => f = g
  <2>1. maker \in Ids /\ maker < nextId
    BY <1>1, <1>2 DEF PathInv, ObjectsOK, NoObject, NoId
  <2>2. Mine(w) \in Ids /\ Mine(w) < nextId
    BY DEF IInv, TypeInv, JobsOK, JobOK, Resting, FreshIds, Mine
  <2>3. origin[maker] = origin[Mine(w)] /\ origin[maker] \in Requests
    BY <1>2, <1>4, <2>1, <2>2 DEF KeyInv, MadeOnce
  <2> QED
    BY <1>1, <2>1, <2>2, <2>3 DEF KeyInv, MadeOnce
<1> QED
  BY <1>3, <1>4 DEF Distinguishable

LEMMA SuccessesStep ==
    ASSUME Distinguishable, IInv, KeyInv, PathInv, AirInv, SentInv, [Next]_vars
    PROVE  SuccessesOK'
<1> SUFFICES ASSUME NEW p \in Owners, pc'[p] = "finish", job'[p].todo = "sent"
             PROVE  Mine(p)' \in onAir' \cup misfired'
  BY DEF SuccessesOK
<1>1. CASE pc[p] = "finish" /\ Mine(p)' = Mine(p) /\ job'[p].todo = job[p].todo
  BY <1>1, SendsGrow DEF SentInv, SuccessesOK
<1>2. CASE Accepted(p) /\ Mine(p)' = Mine(p)
  BY <1>2, SendsGrow DEF Accepted, AirInv, RepliesOK
<1>3. CASE Inspect(p) /\ Decision(p) = <<"finish", "sent">> /\ Mine(p)' = Mine(p)
  <2>1. Matches(p) /\ object[job[p].path].state = "sent"
    BY <1>3 DEF Decision
  <2>2. job[p].path \in ObjectPaths /\ object[job[p].path].madeFor = Mine(p)
    BY <1>3, <2>1, MatchIsOwn DEF Inspect
  <2> QED
    BY <1>3, <2>1, <2>2, SendsGrow DEF AirInv, AirOK
<1> QED
  BY <1>1, <1>2, <1>3, FinishSteps

LEMMA SentStep ==
    ASSUME IInv, PathInv, SentInv, [Next]_vars PROVE SentIsTruthful'
<1> SUFFICES ASSUME NEW m \in Ids, row'[m].status = "sent"
             PROVE  m \in onAir' \cup misfired'
  BY DEF SentIsTruthful
<1>1. CASE row[m].status = "sent"
  BY <1>1, SendsGrow DEF SentInv, SentIsTruthful
<1>2. CASE row[m].status # "sent"
  <2>1. ~Kept(m) /\ ~Deleted(m) /\ ~Created(m)
    BY <1>2 DEF Kept, Deleted, Created, Blank, Wrote
  <2>2. ASSUME NEW p \in Owners, Mine(p) = m, WrittenBy(m, p)
        PROVE  m \in onAir' \cup misfired'
    BY <1>2, <2>2, SendsGrow DEF WrittenBy, Wrote, FinishRow, SentInv, SuccessesOK
  <2>3. ASSUME NEW w \in Workers, ClaimedBy(m, w) PROVE FALSE
    BY <1>2, <2>3 DEF ClaimedBy, Wrote
  <2> QED
    BY <2>1, <2>2, <2>3, RowSteps DEF RowStep
<1> QED
  BY <1>1, <1>2

LEMMA InitSentInv == Init => SentInv
BY DEF Init, StoreInit, Blank, SentInv, SuccessesOK, SentIsTruthful

LEMMA SentInvHolds == ASSUME Distinguishable PROVE Spec => []SentInv
<1>1. Spec => []IInv
  BY InvariantHolds
<1>2. Spec => []KeyInv
  BY KeyInvHolds
<1>3. Spec => []PathInv
  BY PathInvHolds
<1>4. Spec => []AirInv
  BY AirInvHolds
<1>5. IInv /\ KeyInv /\ PathInv /\ AirInv /\ SentInv /\ [Next]_vars => SentInv'
  BY SuccessesStep, SentStep DEF SentInv
<1> QED
  BY <1>1, <1>2, <1>3, <1>4, <1>5, InitSentInv, PTL DEF Spec

\* A message stored as sent was transmitted, as long as number and text tell
\* the objects at a reused path apart (finish_outbound, inspect_modem_sms).
THEOREM SentTruthful == ASSUME Distinguishable PROVE Spec => []SentIsTruthful
BY SentInvHolds, PTL DEF SentInv

\* A Send call is made by a process that is armed for it.
LEMMA NoLateSend ==
    ASSUME IInv, PathInv, AirInv, SentInv, [Next]_vars PROVE NoSendAfterVerdict
<1> SUFFICES ASSUME NEW m \in Ids, sends'[m] # sends[m], misfired = {}
             PROVE  row[m].status \notin Terminal
  BY DEF NoSendAfterVerdict
<1>1. PICK p \in Owners : CallSend(p)
  BY AirSteps, RadioFacts DEF NoNewAir
<1>2. Mine(p) = m /\ sends[m] = 0 /\ Armed(p, m)
  BY <1>1, CallFacts DEF CallSend, Armed, Mine
<1>3. row[m].status # "failed"
  BY <1>2 DEF AirInv, FailuresOK, NeverAired
<1>4. row[m].status # "sent"
  BY <1>2 DEF SentInv, SentIsTruthful, AirInv, AirOK
<1> QED
  BY <1>3, <1>4 DEF Terminal

\* A stored verdict is true when it is given and no Send follows that could
\* turn it into a lie (begin_outbound_send, finish_claimed_outbound).
THEOREM VerdictsAreFinal == ASSUME Distinguishable PROVE Spec => VerdictsHold
<1>1. Spec => []IInv
  BY InvariantHolds
<1>2. Spec => []PathInv
  BY PathInvHolds
<1>3. Spec => []AirInv
  BY AirInvHolds
<1>4. Spec => []SentInv
  BY SentInvHolds
<1>5. IInv /\ PathInv /\ AirInv /\ SentInv /\ AirInv' /\ SentInv' /\ [Next]_vars
        => [SentIsTruthful' /\ FailedIsTruthful' /\ NoSendAfterVerdict]_vars
  BY NoLateSend DEF SentInv, AirInv, FailuresOK, FailedIsTruthful, NeverAired, Quiet
<1> QED
  BY <1>1, <1>2, <1>3, <1>4, <1>5, PTL DEF Spec, VerdictsHold

(***************************************************************************)
(* The promise of module OutboundPromise.  While the modem daemon keeps    *)
(* its numbering no Send ever hits another message's object, and every     *)
(* step is a step of the promise or leaves the fates alone.                *)
(***************************************************************************)
PromiseInv ==
    IInv /\ KeyInv /\ PathInv /\ AirInv /\ SentInv /\ modemRestarts = 0

LEMMA FatesSame ==
    ASSUME \A n \in Ids : Fate(n)' = Fate(n), UNCHANGED <<sends, onAir>>
    PROVE  UNCHANGED Promise!promiseVars
<1>1. [n \in Ids |-> Fate(n)]' = [n \in Ids |-> Fate(n)]
  BY DEF Ids
<1>2. {n \in Ids : sends[n] > 0}' = {n \in Ids : sends[n] > 0}
  BY DEF Ids
<1> QED
  BY <1>1, <1>2 DEF Promise!promiseVars

\* One fate changes.
LEMMA FateChanges ==
    ASSUME NEW m \in Ids, NEW new, Fate(m)' = new,
           \A n \in Ids : n # m => Fate(n)' = Fate(n), UNCHANGED <<sends, onAir>>,
           \/ Fate(m) = "none" /\ new = "pending"
           \/ Fate(m) \in {"sent", "failed", "unknown"} /\ new = "gone"
           \/ /\ Fate(m) = "pending" /\ new \in {"sent", "failed", "unknown"}
              /\ new = "sent" => m \in onAir
              /\ new = "failed" => m \notin onAir
    PROVE  Promise!PromiseNext
<1>1. [n \in Ids |-> Fate(n)]' = [[n \in Ids |-> Fate(n)] EXCEPT ![m] = new]
  BY DEF Ids
<1>2. {n \in Ids : sends[n] > 0}' = {n \in Ids : sends[n] > 0}
  BY DEF Ids
<1>3. [n \in Ids |-> Fate(n)][m] = Fate(m)
  OBVIOUS
<1>4. CASE Fate(m) = "none" /\ new = "pending"
  <2>1. Promise!Accept(m)
    BY <1>1, <1>2, <1>3, <1>4 DEF Promise!Accept
  <2> QED
    BY <2>1 DEF Promise!PromiseNext
<1>5. CASE Fate(m) \in {"sent", "failed", "unknown"} /\ new = "gone"
  <2>1. Promise!Forget(m)
    BY <1>1, <1>2, <1>3, <1>5 DEF Promise!Forget
  <2> QED
    BY <2>1 DEF Promise!PromiseNext
<1>6. CASE /\ Fate(m) = "pending" /\ new \in {"sent", "failed", "unknown"}
           /\ new = "sent" => m \in onAir
           /\ new = "failed" => m \notin onAir
  <2>1. Promise!Settle(m, new)
    BY <1>1, <1>2, <1>3, <1>6 DEF Promise!Settle
  <2> QED
    BY <1>6, <2>1 DEF Promise!PromiseNext
<1> QED
  BY <1>4, <1>5, <1>6

\* What becomes of the fate of a message whose row a step touches.
LEMMA OriginKept ==
    ASSUME IInv, [Next]_vars, NEW n \in Ids, ~\E f \in Requests : CreateRow(f) /\ n = nextId
    PROVE  origin'[n] = origin[n]
<1>1. ASSUME NEW f \in Requests, CreateRow(f) PROVE origin'[n] = origin[n]
  BY <1>1, TypeParts DEF CreateRow, Insert, IInv, GhostTypeOK
<1>2. ASSUME NEW f \in Requests, ReplayRow(f) PROVE origin'[n] = origin[n]
  BY <1>2 DEF ReplayRow, MovesOnly, ghostVars
<1>3. ASSUME CleanupStep PROVE origin'[n] = origin[n]
  BY <1>3 DEF CleanupStep, OperatorDeletes, RetentionDeletes, KeyPruned, ghostVars
<1> QED
  BY <1>1, <1>2, <1>3, OtherKeys DEF Next

LEMMA KeptFate ==
    ASSUME IInv, [Next]_vars, NEW n \in Ids, Kept(n)
    PROVE  Fate(n)' = Fate(n)
<1>1. ASSUME NEW f \in Requests, CreateRow(f), n = nextId PROVE FALSE
  <2>1. row'[n].status = "sending"
    <3>1. PICK m \in Ids : Insert(m, f, KeyOf[f], ContentOf[f])
      BY <1>1 DEF CreateRow
    <3>2. m = n
      BY <1>1, <3>1 DEF Insert
    <3> QED
      BY <3>1, <3>2, InsertWrites DEF Wrote
  <2>2. row[n].status = "absent"
    BY <1>1, TypeParts DEF IInv, FreshIds, StoreTypeOK, Blank
  <2> QED
    BY <2>1, <2>2 DEF Kept
<1>2. origin'[n] = origin[n]
  BY <1>1, OriginKept
<1> QED
  BY <1>2 DEF Kept, Fate

\* When one row is written, the other messages keep their fates.
LEMMA OtherFates ==
    ASSUME IInv, [Next]_vars, NEW m \in Ids, NEW status, NEW phase, NEW owner, NEW path,
           Wrote(m, status, phase, owner, path)
    PROVE  \A n \in Ids : n # m => Fate(n)' = Fate(n)
BY KeptFate DEF Wrote, Kept

LEMMA ExistingFate ==
    ASSUME IInv, KeyInv, [Next]_vars, NEW m \in Ids, row[m].status # "absent" \/ m < nextId
    PROVE  origin[m] # NoRequest /\ origin'[m] = origin[m]
<1>1. m < nextId /\ nextId \in Nat /\ m \in Nat
  BY TypeParts DEF IInv, FreshIds, StoreTypeOK, Blank, Ids
<1>2. origin[m] \in Requests
  BY <1>1 DEF KeyInv, MadeOnce
<1> QED
  BY <1>1, <1>2, OriginKept, StoreAssumption, OutboundAssumption DEF NoRequest

LEMMA NoMisfire ==
    ASSUME PromiseInv PROVE misfired = {}
BY DEF PromiseInv, PathInv, PathsStay

LEMMA PendingOwned ==
    ASSUME IInv, NEW m \in Ids, NEW p \in Owners, Owns(m, p)
    PROVE  Fate(m) = "pending" /\ row[m].status = "sending" /\ row[m].phase # "unknown"
<1>1. row[m].phase # "unknown" /\ row[m].status = "sending"
  BY StoreAssumption DEF IInv, SendOnce, UnknownIsUnowned, Owns
<1> QED
  BY <1>1 DEF Fate

\* A step that hands nothing over and airs nothing.
LEMMA RowPromise ==
    ASSUME PromiseInv, [Next]_vars, UNCHANGED <<sends, onAir>>, NEW m \in Ids, ~Kept(m)
    PROVE  Promise!PromiseNext \/ UNCHANGED Promise!promiseVars
<1> USE DEF PromiseInv
<1>1. CASE Deleted(m)
  <2>1. Fate(m) \in {"sent", "failed", "unknown"}
    BY <1>1, TypeParts DEF Deleted, DeleteBlocked, Fate, IInv, StoreTypeOK, RowType, Statuses
  <2>2. Fate(m)' = "gone"
    BY <1>1, ExistingFate DEF Deleted, Fate, Blank
  <2> QED
    BY <1>1, <2>1, <2>2, OtherFates, FateChanges DEF Deleted
<1>2. CASE Created(m)
  <2>1. row[m] = Blank /\ origin[m] = NoRequest
    BY <1>2, TypeParts DEF Created, IInv, FreshIds, StoreTypeOK, KeyInv, MadeOnce, Ids
  <2>2. Fate(m) = "none"
    BY <2>1 DEF Fate, Blank
  <2>3. Fate(m)' = "pending"
    BY <1>2 DEF Created, Wrote, Fate
  <2> QED
    BY <1>2, <2>2, <2>3, OtherFates, FateChanges DEF Created
<1>3. ASSUME NEW p \in Owners, Mine(p) = m, WrittenBy(m, p)
      PROVE  Promise!PromiseNext \/ UNCHANGED Promise!promiseVars
  <2>1. CASE RecordPath(p) /\ Wrote(m, "sending", "prepared", p, job[p].path)
    <3>1. Fate(m) = "pending"
      BY <1>3, <2>1, PendingOwned DEF RecordPath, SetPrepared, CanPrepare
    <3>2. Fate(m)' = "pending"
      BY <2>1 DEF Wrote, Fate
    <3> QED
      BY <2>1, <3>1, <3>2, OtherFates, FatesSame
  <2>2. CASE Begin(p) /\ Wrote(m, "sending", "send_started", p, row[m].path)
    <3>1. Fate(m) = "pending"
      BY <1>3, <2>2, PendingOwned DEF Begin, BeginSend, CanBegin
    <3>2. Fate(m)' = "pending"
      BY <2>2 DEF Wrote, Fate
    <3> QED
      BY <2>2, <3>1, <3>2, OtherFates, FatesSame
  <2>3. CASE DeferRow(p) /\ Wrote(m, "sending", job[p].todo, NoOwner, row[m].path)
    <3>1. Fate(m) = "pending"
      BY <1>3, <2>3, PendingOwned DEF DeferRow, Defer
    <3>2. Fate(m)' \in {"pending", "unknown"}
      BY <2>3 DEF Wrote, Fate
    <3> QED
      BY <2>3, <3>1, <3>2, OtherFates, FatesSame, FateChanges
  <2>4. CASE FinishRow(p) /\ Wrote(m, job[p].todo, "complete", p, row[m].path)
    <3>1. Owns(m, p) /\ Fate(m) = "pending"
      BY <1>3, <2>4, PendingOwned DEF FinishRow, Finish
    <3>2. job[p].todo \in Terminal
      BY <2>4 DEF FinishRow, IInv, TypeInv, JobsOK, JobOK
    <3>3. Fate(m)' = job[p].todo
      BY <2>4, <3>2 DEF Wrote, Fate, Terminal
    <3>4. job[p].todo = "sent" => m \in onAir
      BY <1>3, <2>4, NoMisfire DEF FinishRow, SentInv, SuccessesOK
    <3>5. job[p].todo = "failed" => m \notin onAir
      BY <1>3, <2>4, <3>1, NoMisfire DEF FinishRow, AirInv, FailuresOK, NeverAired, Quiet
    <3> QED
      BY <2>4, <3>1, <3>2, <3>3, <3>4, <3>5, OtherFates, FateChanges DEF Terminal
  <2>5. CASE Ack(p) /\ Wrote(m, row[m].status, "none", NoOwner, row[m].path)
    <3>1. row[m].phase = "complete"
      BY <1>3, <2>5 DEF Ack, Acknowledge, CanAcknowledge
    <3>2. origin'[m] = origin[m]
      BY <2>5 DEF Ack, TransactOnly, ghostVars
    <3>3. Fate(m)' = Fate(m)
      BY <2>5, <3>1, <3>2 DEF Wrote, Fate
    <3> QED
      BY <2>5, <3>3, OtherFates, FatesSame
  <2> QED
    BY <1>3, <2>1, <2>2, <2>3, <2>4, <2>5 DEF WrittenBy
<1>4. ASSUME NEW w \in Workers, ClaimedBy(m, w)
      PROVE  Promise!PromiseNext \/ UNCHANGED Promise!promiseVars
  <2>1. CASE Recover(w) /\ ClaimDue(m, w) /\ Wrote(m, "sending", row[m].phase, w, row[m].path)
    <3>1. Fate(m)' = Fate(m)
      BY <2>1 DEF ClaimDue, DueForRecovery, Wrote, Fate
    <3> QED
      BY <2>1, <3>1, OtherFates, FatesSame
  <2>2. CASE /\ ReplayEvent(w) /\ ClaimEvent(m, w)
             /\ Wrote(m, row[m].status, "complete", w, row[m].path)
    <3>1. Fate(m)' = Fate(m)
      BY <2>2 DEF ClaimEvent, PendingEvents, Wrote, Fate, Terminal
    <3> QED
      BY <2>2, <3>1, OtherFates, FatesSame
  <2> QED
    BY <1>4, <2>1, <2>2 DEF ClaimedBy
<1> QED
  BY <1>1, <1>2, <1>3, <1>4, RowSteps DEF RowStep

LEMMA PromiseStep ==
    ASSUME PromiseInv, [Next]_vars
    PROVE  [Promise!PromiseNext]_Promise!promiseVars
<1> USE DEF PromiseInv
<1>0. misfired = {}
  BY NoMisfire
<1>1. CASE NoNewAir
  <2>1. UNCHANGED <<sends, onAir>>
    BY <1>1 DEF NoNewAir
  <2>2. CASE \A m \in Ids : Kept(m)
    BY <2>1, <2>2, KeptFate, FatesSame
  <2> QED
    BY <2>1, <2>2, RowPromise
<1>2. ASSUME NEW p \in Owners, CallSend(p) PROVE Promise!PromiseNext
  <2>0. PICK m \in Ids : m = Mine(p)
    BY <1>2, CallFacts
  <2>1. /\ m \in Ids /\ sends[m] = 0 /\ sends'[m] = 1
        /\ \A n \in Ids : n # m => sends'[n] = sends[n]
    BY <1>2, <2>0, CallFacts
  <2>2. row' = row /\ origin' = origin /\ onAir' = onAir
    BY <1>2 DEF CallSend, Called, storeVars
  <2>3. [n \in Ids |-> Fate(n)]' = [n \in Ids |-> Fate(n)]
    BY <2>2 DEF Fate, Ids
  <2>4. {n \in Ids : sends[n] > 0}' = {n \in Ids : sends[n] > 0} \cup {m}
    BY <2>1 DEF Ids
  <2>5. m \notin {n \in Ids : sends[n] > 0}
    BY <2>1
  <2>6. [n \in Ids |-> Fate(n)][m] \in {"pending", "unknown", "gone"}
    <3>1. row[m].status \notin Terminal
      BY <1>0, <2>1, NoLateSend DEF NoSendAfterVerdict
    <3>2. m < nextId
      BY <2>0 DEF IInv, FreshIds, Mine
    <3>3. origin[m] # NoRequest
      BY <2>1, <3>2, ExistingFate
    <3>4. row[m].status \in Statuses
      BY <2>1, TypeParts DEF IInv, StoreTypeOK, RowType
    <3> QED
      BY <2>1, <3>1, <3>3, <3>4 DEF Fate, Statuses, Terminal
  <2>7. Promise!HandOver(m)
    BY <2>2, <2>3, <2>4, <2>5, <2>6 DEF Promise!HandOver
  <2> QED
    BY <2>7 DEF Promise!PromiseNext
<1>3. ASSUME NEW path \in ObjectPaths, RadioSends(path) PROVE Promise!PromiseNext
  <2> DEFINE m == object[path].madeFor
  <2>1. /\ m \in Ids /\ onAir' = onAir \cup {m} /\ sends' = sends /\ row' = row
        /\ object[path].state = "sending"
    BY <1>3, RadioFacts
  <2>2. [n \in Ids |-> Fate(n)]' = [n \in Ids |-> Fate(n)]
    BY <1>3, <2>1 DEF RadioSends, Fate, Ids
  <2>3. {n \in Ids : sends[n] > 0}' = {n \in Ids : sends[n] > 0}
    BY <2>1 DEF Ids
  <2>4. m \in {n \in Ids : sends[n] > 0} \ onAir
    BY <1>0, <2>1 DEF AirInv, AirOK
  <2>5. [n \in Ids |-> Fate(n)][m] # "failed"
    <3>1. row[m].status # "failed"
      BY <1>0, <2>1 DEF AirInv, FailuresOK, NeverAired, Quiet
    <3> QED
      BY <2>1, <3>1 DEF Fate
  <2>6. Promise!Air(m)
    BY <2>1, <2>2, <2>3, <2>4, <2>5 DEF Promise!Air
  <2> QED
    BY <2>1, <2>6 DEF Promise!PromiseNext
<1> QED
  BY <1>1, <1>2, <1>3, AirSteps

LEMMA InitPromise == Init => Promise!PromiseInit
<1> SUFFICES ASSUME Init PROVE Promise!PromiseInit
  OBVIOUS
<1>1. \A m \in Ids : Fate(m) = "none"
  BY DEF Init, StoreInit, Blank, Fate
<1>2. [m \in Ids |-> Fate(m)] = [m \in Ids |-> "none"]
  BY <1>1
<1>3. {m \in Ids : sends[m] > 0} = {}
  BY DEF Init
<1> QED
  BY <1>2, <1>3 DEF Init, Promise!PromiseInit

\* Finalizers and recovery workers together are a correct implementation of
\* the promise: at most one hand-over, none after a verdict, true and final
\* verdicts (the whole of messaging.rs), while paths are not given out twice.
THEOREM PromiseKept == ASSUME MaxModemRestarts = 0 PROVE Spec => KeepsPromise
<1>0. Distinguishable
  BY DEF Distinguishable
<1>1. Spec => []IInv /\ []KeyInv /\ []PathInv /\ []AirInv
  BY InvariantHolds, KeyInvHolds, PathInvHolds, AirInvHolds, PTL
<1>2. Spec => []SentInv
  BY <1>0, SentInvHolds
<1>3. IInv => modemRestarts = 0
  BY TypeParts DEF IInv, ModemTypeOK
<1>4. IInv /\ KeyInv /\ PathInv /\ AirInv /\ SentInv /\ [Next]_vars
        => [Promise!PromiseNext]_Promise!promiseVars
  BY <1>3, PromiseStep DEF PromiseInv
<1> QED
  BY <1>1, <1>2, <1>4, InitPromise, PTL DEF Spec, KeepsPromise, Promise!PromiseSpec

\* All invariants of the outbound component together, for any requests,
\* workers, keys, faults and bounds (messaging.rs, storage/messages.rs).
THEOREM SafetyHolds == ASSUME Distinguishable PROVE Spec => []SafetyInv
<1>1. Spec => []IInv /\ []KeyInv /\ []AnnounceInv /\ []PathInv /\ []AirInv
  BY InvariantHolds, KeyInvHolds, AnnounceInvHolds, PathInvHolds, AirInvHolds, PTL
<1>2. Spec => []SentInv
  BY SentInvHolds
<1>3. IInv /\ KeyInv /\ AnnounceInv /\ PathInv /\ AirInv /\ SentInv => SafetyInv
  BY DEF SafetyInv, VerdictInv
<1> QED
  BY <1>1, <1>2, <1>3, PTL
=============================================================================
