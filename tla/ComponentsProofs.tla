-------------------------- MODULE ComponentsProofs --------------------------
(***************************************************************************)
(* Proof that the components of MCComponents keep to their types, for      *)
(* every value of the constants.  Most types are part of the inductive     *)
(* invariants of the component's own proofs; what is added here is the     *)
(* bounds of counters and the state no property speaks of.                 *)
(***************************************************************************)
EXTENDS MCComponents, MessagesProofs, ModemProofs, ServiceProofs

(***************************************************************************)
(* The event stream.                                                       *)
(***************************************************************************)
LEMMA StreamStarts == StreamInit \/ RestStream => EventStreamTypeOK
<1> SUFFICES ASSUME StreamInit \/ RestStream PROVE EventStreamTypeOK
  OBVIOUS
<1>1. {lagged, connected, session, timer, open} \subseteq BOOLEAN
  BY DEF StreamInit, RestStream
<1>2. /\ rev = 0 /\ unsent = {} /\ ring = 0 /\ shown = 0 /\ reads = {}
      /\ lost = 0 /\ losses = 0 /\ listReads = {} /\ listed = 0
      /\ operation \in {"none", "view"}
  BY DEF StreamInit, RestStream
<1>3. /\ 0 \in 0..MaxChanges /\ 0 \in 0..RingSize /\ 0 \in 0..MaxLosses
      /\ 0 \in Nothing..MaxChanges
  BY EventStreamAssumption DEF Nothing
<1> QED
  BY <1>1, <1>2, <1>3 DEF EventStreamTypeOK

LEMMA StreamStays ==
    EventStreamTypeOK /\ [StreamNext]_streamVars => EventStreamTypeOK'
<1> SUFFICES ASSUME EventStreamTypeOK, [StreamNext]_streamVars
             PROVE  EventStreamTypeOK'
  OBVIOUS
<1> USE EventStreamAssumption DEF EventStreamTypeOK, ownVars
<1>0. /\ \A c \in 0..MaxChanges : AtLeast(lost, c) \in 0..MaxChanges
      /\ \A to \in {"view", "other"} : [to |-> to, since |-> rev] \in Reads
      /\ Nothing \in Nothing..MaxChanges /\ Nothing \notin 0..MaxChanges
      /\ 0..MaxChanges \subseteq Nothing..MaxChanges
  BY DEF AtLeast, Reads, Nothing
<1>1. CASE Change
  BY <1>1 DEF Change
<1>2. CASE ChangeSilently
  BY <1>2 DEF ChangeSilently
<1>3. ASSUME NEW c \in 1..MaxChanges, PublishEvent(c)
      PROVE  EventStreamTypeOK'
  <2>1. {lagged', connected', session', timer', open'} \subseteq BOOLEAN
    BY <1>3 DEF PublishEvent
  <2>2. ring' \in 0..RingSize
    BY <1>3 DEF PublishEvent
  <2>3. lost' \in 0..MaxChanges
    BY <1>0, <1>3 DEF PublishEvent
  <2>4. unsent' \subseteq 1..MaxChanges
    BY <1>3 DEF PublishEvent
  <2>5. UNCHANGED <<rev, reads, shown, losses, operation, listReads, listed>>
    BY <1>3 DEF PublishEvent
  <2> QED BY <2>1, <2>2, <2>3, <2>4, <2>5
<1>4. ASSUME NEW c \in 1..MaxChanges, AbandonEvent(c)
      PROVE  EventStreamTypeOK'
  BY <1>0, <1>4 DEF AbandonEvent
<1>5. CASE SkipLag
  BY <1>5 DEF SkipLag
<1>6. CASE Forward
  <2>1. ring - 1 \in 0..RingSize
    BY <1>6 DEF Forward
  <2>2. {lagged', connected', session', timer', open'} \subseteq BOOLEAN
    BY <1>6 DEF Forward
  <2> QED BY <1>6, <2>1, <2>2 DEF Forward
<1>7. CASE EndStream \/ Break
  <2>1. CloseStream
    BY <1>7 DEF EndStream, Break
  <2>2. losses' \in 0..MaxLosses
    BY <1>7 DEF EndStream, Break
  <2>3. {lagged', connected', session', timer', open'} \subseteq BOOLEAN
    BY <2>1 DEF CloseStream
  <2>4. /\ rev' = rev /\ unsent' = unsent /\ reads' = reads
        /\ shown' = shown /\ ring' = 0 /\ lost' \in {rev, lost}
        /\ operation' = operation /\ listReads' = listReads /\ listed' = listed
    BY <2>1 DEF CloseStream
  <2> QED BY <2>2, <2>3, <2>4
<1>8. CASE Subscribe \/ Logout \/ Fallback
  BY <1>8 DEF Subscribe, Logout, Fallback
<1>9. CASE Refresh
  BY <1>0, <1>9 DEF Refresh, ReadMessages, ReadList
<1>10. CASE ChangeView
  <2>1. {lagged', connected', session', timer', open'} \subseteq BOOLEAN
    BY <1>10 DEF ChangeView
  <2>2. reads' \subseteq Reads /\ losses' \in 0..MaxLosses
    BY <1>0, <1>10 DEF ChangeView, ReadMessages
  <2>3. operation' \in {"none", "view", "other"}
        /\ shown' \in Nothing..MaxChanges
    BY <1>0, <1>10 DEF ChangeView
  <2> QED BY <1>10, <2>1, <2>2, <2>3 DEF ChangeView
<1>11. CASE Reload
  <2>1. operation \in {"view", "other"}
    BY <1>11 DEF Reload
  <2>2. reads' \subseteq Reads
    BY <1>0, <1>11, <2>1 DEF Reload, ReadMessages
  <2>3. listReads' \subseteq 0..MaxChanges /\ lost' \in 0..MaxChanges
    BY <1>11 DEF Reload, ReadList
  <2> QED BY <1>11, <2>2, <2>3 DEF Reload
<1>12. CASE ReloadList
  BY <1>12 DEF ReloadList, ReadList
<1>13. ASSUME NEW r \in Reads, Answer(r) PROVE EventStreamTypeOK'
  <2>1. r.since..rev \subseteq 0..MaxChanges
    BY DEF Reads
  <2>2. shown' \in Nothing..MaxChanges /\ lost' \in 0..MaxChanges
    BY <1>0, <1>13, <2>1 DEF Answer
  <2> QED BY <1>13, <2>2 DEF Answer
<1>14. ASSUME NEW r \in Reads, ReadFails(r) PROVE EventStreamTypeOK'
  BY <1>14 DEF ReadFails
<1>15. ASSUME NEW since \in 0..MaxChanges,
              AnswerList(since) \/ ListReadFails(since)
       PROVE  EventStreamTypeOK'
  <2>1. listed' \in 0..MaxChanges
    <3>1. since..rev \subseteq 0..MaxChanges
      OBVIOUS
    <3> QED BY <1>15, <3>1 DEF AnswerList, ListReadFails
  <2>2. listReads' \subseteq listReads
    BY <1>15, Zenon DEF AnswerList, ListReadFails
  <2>3. losses' \in 0..MaxLosses
    BY <1>15 DEF AnswerList, ListReadFails
  <2> QED BY <1>15, <2>1, <2>2, <2>3 DEF AnswerList, ListReadFails
<1>16. CASE Unauthorized
  <2>1. {lagged', connected', session', timer', open'} \subseteq BOOLEAN
    BY <1>16 DEF Unauthorized
  <2> QED BY <1>16, <2>1 DEF Unauthorized
<1>17. CASE UNCHANGED streamVars
  BY <1>17 DEF streamVars
<1> QED
  BY <1>1, <1>2, <1>3, <1>4, <1>5, <1>6, <1>7, <1>8, <1>9, <1>10, <1>11,
     <1>12, <1>13, <1>14, <1>15, <1>16, <1>17 DEF StreamNext

(***************************************************************************)
(* Saving the configuration.                                               *)
(***************************************************************************)
LEMMA SavesStay ==
    ConfigSaveTypeOK /\ [ConfigSaveNext]_saveVars => ConfigSaveTypeOK'
<1> SUFFICES ASSUME ConfigSaveTypeOK, [ConfigSaveNext]_saveVars
             PROVE  ConfigSaveTypeOK'
  OBVIOUS
<1> USE ConfigSaveAssumption DEF ConfigSaveTypeOK, restartVars
<1>0. /\ NoSave.at = "idle" /\ Nobody \notin Contents
      /\ \A s \in Saves : s.at # "idle" /\ s.candidate \in Contents
  BY DEF NoSave, Saves
<1>1. ASSUME NEW b \in Browsers, NEW c \in Contents, NEW r \in BOOLEAN,
             Preview(b, c, r)
      PROVE  ConfigSaveTypeOK'
  <2>1. PICK s \in Saves : s = [at |-> "previewed", base |-> file,
                                candidate |-> c, restart |-> r]
    BY DEF Saves
  <2>2. save' = [save EXCEPT ![b] = s]
    BY <1>1, <2>1 DEF Preview
  <2> QED BY <1>1, <2>2 DEF Preview
<1>2. ASSUME NEW b \in Browsers, CheckRevision(b)
      PROVE  ConfigSaveTypeOK'
  <2>1. save[b] \in Saves
    BY <1>0, <1>2 DEF CheckRevision
  <2>2. [save[b] EXCEPT !.at = "checked"] \in Saves
    BY <2>1 DEF Saves
  <2>3. save' \in [Browsers -> Saves \cup {NoSave}]
    BY <1>2, <2>2 DEF CheckRevision
  <2>4. saveLock' \in Browsers \cup {Nobody}
        /\ intruders' \subseteq {"editor", "orphan"}
    BY <1>2 DEF CheckRevision
  <2> QED BY <1>2, <2>3, <2>4 DEF CheckRevision
<1>3. ASSUME NEW b \in Browsers, Commit(b) PROVE ConfigSaveTypeOK'
  <2>1. save[b] \in Saves
    BY <1>0, <1>3 DEF Commit
  <2>2. [save[b] EXCEPT !.at = "committed"] \in Saves
    BY <2>1 DEF Saves
  <2> QED BY <1>0, <1>3, <2>1, <2>2 DEF Commit
<1>4. ASSUME NEW b \in Browsers, SaveFails(b) PROVE ConfigSaveTypeOK'
  BY <1>4 DEF SaveFails
<1>5. ASSUME NEW b \in Browsers, FinishSave(b) PROVE ConfigSaveTypeOK'
  BY <1>5 DEF FinishSave, Schedule
<1>6. ASSUME NEW b \in Browsers, DropRequest(b) PROVE ConfigSaveTypeOK'
  BY <1>6 DEF DropRequest
<1>7. ASSUME NEW b \in Browsers, DropDuringCommit(b)
      PROVE  ConfigSaveTypeOK'
  <2>1. save[b] \in Saves
    BY <1>0, <1>7 DEF DropDuringCommit
  <2>2. save[b].base \in Contents /\ save[b].candidate \in Contents
    BY <2>1 DEF Saves
  <2>3. breaks + 1 \in 1..MaxBreaks
    BY <1>7 DEF DropDuringCommit
  <2>4. OrphanOf(b) \in Orphans
    BY <2>2, <2>3 DEF OrphanOf, Orphans
  <2>5. orphans' \subseteq Orphans /\ overtaken' \subseteq orphans'
    BY <1>7, <2>4 DEF DropDuringCommit
  <2>6. breaks' \in 0..MaxBreaks
    BY <1>7 DEF DropDuringCommit
  <2> QED BY <1>7, <2>5, <2>6 DEF DropDuringCommit
<1>8. ASSUME NEW o \in orphans, CommitOrphan(o) PROVE ConfigSaveTypeOK'
  <2>1. o.candidate \in Contents
    BY DEF Orphans
  <2>2. {file', current'} \subseteq Contents
    BY <1>8, <2>1 DEF CommitOrphan
  <2>3. intruders' \subseteq {"editor", "orphan"}
    BY <1>8 DEF CommitOrphan, Intrudes
  <2>4. orphans' \subseteq Orphans /\ overtaken' \subseteq orphans'
    BY <1>8 DEF CommitOrphan
  <2>5. UNCHANGED <<save, saveLock, pending, restart, edits, breaks>>
    BY <1>8 DEF CommitOrphan
  <2> QED BY <2>2, <2>3, <2>4, <2>5
<1>9. ASSUME NEW c \in Contents, Edit(c) PROVE ConfigSaveTypeOK'
  <2>1. {file', current'} \subseteq Contents
    BY <1>9 DEF Edit
  <2>2. intruders' \subseteq {"editor", "orphan"}
    BY <1>9 DEF Edit, Intrudes
  <2>3. edits' \in 0..MaxEdits
    BY <1>9 DEF Edit
  <2>4. overtaken' = orphans /\ orphans' = orphans
        /\ UNCHANGED <<save, saveLock, pending, restart, breaks>>
    BY <1>9 DEF Edit
  <2> QED BY <2>1, <2>2, <2>3, <2>4
<1>10. CASE RequestRestart \/ RunRestart \/ RestartReturns
  <2>1. pending' \in BOOLEAN /\ restart' \in {"none", "sleeping", "running"}
    BY <1>10 DEF RequestRestart, RunRestart, RestartReturns, Schedule
  <2>2. UNCHANGED <<file, current, save, saveLock, orphans, overtaken,
                    intruders, edits, breaks>>
    BY <1>10 DEF RequestRestart, RunRestart, RestartReturns
  <2> QED BY <2>1, <2>2
<1>11. CASE RestartEnds \/ Crash
  <2>1. StartAnew /\ breaks' \in 0..MaxBreaks
    BY <1>11 DEF RestartEnds, Crash
  <2>2. /\ file' = file /\ current' = file /\ edits' = edits
        /\ save' = [b \in Browsers |-> NoSave]
        /\ saveLock' = Nobody /\ orphans' = {} /\ overtaken' = {}
        /\ intruders' = {} /\ pending' \in BOOLEAN /\ restart' = "none"
    BY <2>1 DEF StartAnew
  <2>3. save' \in [Browsers -> Saves \cup {NoSave}]
    BY <2>2
  <2>4. {file', current'} \subseteq Contents
    BY <2>2
  <2> QED BY <2>1, <2>2, <2>3, <2>4
<1>12. CASE UNCHANGED saveVars
  BY <1>12 DEF saveVars
<1> QED
  BY <1>1, <1>2, <1>3, <1>4, <1>5, <1>6, <1>7, <1>8, <1>9, <1>10, <1>11,
     <1>12
  DEF ConfigSaveNext

\* The types of the configuration file, its requests and the restart task.
THEOREM SavesTyped == ConfigSaveSpec => []ConfigSaveTypeOK
<1>1. ASSUME ConfigSaveInit PROVE ConfigSaveTypeOK
  <2>1. pending \in BOOLEAN /\ {file, current} \subseteq Contents
    BY <1>1 DEF ConfigSaveInit
  <2>2. 0 \in 0..MaxEdits /\ 0 \in 0..MaxBreaks
    BY ConfigSaveAssumption
  <2> QED BY <1>1, <2>1, <2>2 DEF ConfigSaveInit, ConfigSaveTypeOK
<1> QED
  BY <1>1, SavesStay, PTL DEF ConfigSaveSpec

(***************************************************************************)
(* Those whose invariant holds the types.                                  *)
(***************************************************************************)
\* Rows of sessions, the tokens issued and those refused.
THEOREM SessionsTyped == SessionsSpec => []SessionsTypeOK
<1>1. SessionsInv => SessionsTypeOK
  BY DEF SessionsInv, GoodRows, SessionsTypeOK
<1> QED
  BY <1>1, SessionsInitInv, SessionsStep, PTL DEF SessionsSpec

\* The clock, the cache and the callers of the health.
THEOREM HealthTyped == HealthSpec => []ModemHealthTypeOK
<1>1. HealthInit => HealthInv
  BY ModemHealthAssumption, HealthInitInv
<1>2. HealthInv /\ [HealthNext]_healthVars => HealthInv'
  BY ModemHealthAssumption, HealthStep
<1>3. HealthInv => ModemHealthTypeOK
  BY DEF HealthInv
<1> QED BY <1>1, <1>2, <1>3, PTL DEF HealthSpec

\* Requests, the action lock and the times of resets.
THEOREM ActionsTyped == ActionsSpec => []ModemActionsTypeOK
<1>1. ActionsInit => ActionsInv
  BY ModemActionsAssumption, ActionsInitInv
<1>2. ActionsInv /\ [ActionsNext]_actionVars => ActionsInv'
  BY ModemActionsAssumption, ActionsStep
<1>3. ActionsInv => ModemActionsTypeOK
  BY DEF ActionsInv
<1> QED BY <1>1, <1>2, <1>3, PTL DEF ActionsSpec

\* What an IMS probe may know at each of its queries.
THEOREM ImsTyped == ImsSpec => []ImsProbeTypeOK
<1>1. ImsInv => ImsProbeTypeOK
  BY DEF ImsInv, ImsRecord, ImsProbeTypeOK
<1> QED
  BY <1>1, ImsInitInv, ImsStep, PTL DEF ImsSpec

\* The reports and the threads that bring them.
THEOREM ReportsTyped == ReportingSpec => []ReportingTypeOK
<1>1. ReportsInv => ReportingTypeOK
  BY DEF ReportsInv
<1> QED
  BY <1>1, ReportsInitInv, ReportingStep, PTL DEF ReportingSpec

\* The rows of a batch and what is left of their leases.
THEOREM LeaseTyped == DeliveryLeaseSpec => []DeliveryLeaseTypeOK
<1>1. LeaseInv => DeliveryLeaseTypeOK
  BY DEF LeaseInv, SlotRecord, DeliveryLeaseTypeOK
<1> QED
  BY <1>1, LeaseInitInv, LeaseStep, PTL DEF DeliveryLeaseSpec

\* The rows, summaries and pins of the message store.
THEOREM ConversationsTyped == ConversationsSpec => []ConversationsTypeOK
<1>1. ConversationsInv => ConversationsTypeOK
  BY DEF ConversationsInv
<1> QED BY <1>1, ConversationsInvariant, PTL

\* The cursor and the pages of a reading.
THEOREM PagesTyped == PagingSpec => []PagingTypeOK
<1>1. PagesInv => PagingTypeOK
  BY DEF PagesInv
<1> QED BY <1>1, PagesInvariant, PTL

(***************************************************************************)
(* Those with bounds of their own.                                         *)
(***************************************************************************)
\* Times lie before the horizon, and a lock ends a window later at most.
THEOREM LimiterTyped == LimiterSpec => []LimiterTypeOK
<1> DEFINE R == [start: 0..Horizon, count: Nat,
                 lockedUntil: Unlocked..Horizon + Window]
           Entries == failures \in [Clients -> R]
           Dated == guesses \in [Clients -> Seq(0..Horizon)]
<1>0. /\ Window \in Nat /\ Horizon \in Nat /\ Unlocked = -1 /\ NotRead = -1
      /\ MaxFailures \in Nat
  BY LoginLimiterAssumption DEF Unlocked, NotRead
<1>1. NoEntry \in R
  BY <1>0 DEF NoEntry
<1>2. ASSUME LimiterInit PROVE LimiterTypeOK
  <2>1. Entries
    BY <1>1, <1>2 DEF LimiterInit
  <2>2. Dated
    BY <1>2 DEF LimiterInit
  <2>3. now \in 0..Horizon /\ stamp \in [Logins -> NotRead..now]
    BY <1>0, <1>2 DEF LimiterInit
  <2> QED BY <2>1, <2>2, <2>3 DEF LimiterTypeOK
<1>3. ASSUME LimiterTypeOK, [LimiterNext]_limiterVars PROVE LimiterTypeOK'
  <2>0. now \in 0..Horizon /\ stamp \in [Logins -> NotRead..now]
        /\ Entries /\ Dated
    BY <1>3 DEF LimiterTypeOK
  <2>1. CASE UNCHANGED limiterVars
    BY <1>3, <2>1 DEF limiterVars, LimiterTypeOK
  <2>2. ASSUME NEW a \in Logins, ReadClock(a) PROVE LimiterTypeOK'
    <3>1. stamp' \in [Logins -> NotRead..now]
      BY <1>0, <2>0, <2>2 DEF ReadClock
    <3> QED BY <2>0, <2>2, <3>1 DEF ReadClock, LimiterTypeOK
  <2>3. CASE TickLogin
    <3>1. now' \in 0..Horizon /\ NotRead..now \subseteq NotRead..now'
      BY <1>0, <2>0, <2>3 DEF TickLogin
    <3> QED BY <2>0, <2>3, <3>1 DEF TickLogin, LimiterTypeOK
  <2>4. ASSUME NEW a \in Logins, NEW c \in Clients,
               RateLimited(a, c) \/ WrongPassword(a, c) \/ RightPassword(a, c)
        PROVE  LimiterTypeOK'
    <3>1. PICK at \in Int : at = stamp[a]
      BY <1>0, <2>0
    <3>2. stamp[a] # NotRead /\ Returns(a)
      BY <2>4 DEF RateLimited, WrongPassword, RightPassword
    <3>3. at \in 0..Horizon
      <4>1. stamp[a] \in NotRead..now
        BY <2>0
      <4> QED BY <1>0, <2>0, <3>1, <3>2, <4>1
    <3>4. now' = now /\ stamp' \in [Logins -> NotRead..now]
      BY <1>0, <2>0, <3>2 DEF Returns
    <3>5. Retained(at) \in [Clients -> R]
      BY <1>1, <2>0 DEF Retained
    <3>6. ASSUME NEW e \in R PROVE AfterFailure(e, at) \in R
      <4>1. PICK old \in R : old = (IF e = NoEntry \/ at - e.start >= Window
                                 THEN [NoEntry EXCEPT !.start = at] ELSE e)
        <5>1. [NoEntry EXCEPT !.start = at] \in R
          BY <1>0, <3>3 DEF NoEntry
        <5> QED BY <3>6, <5>1
      <4>2. AfterFailure(e, at) =
              [old EXCEPT !.count = old.count + 1,
                          !.lockedUntil = IF old.count + 1 >= MaxFailures
                                          THEN at + Window
                                          ELSE old.lockedUntil]
        BY <4>1 DEF AfterFailure
      <4>3. /\ old.count + 1 \in Nat
            /\ at + Window \in Unlocked..Horizon + Window
            /\ old.lockedUntil \in Unlocked..Horizon + Window
        BY <1>0, <3>3, <4>1
      <4> QED BY <4>1, <4>2, <4>3
    <3> HIDE DEF R
    <3>7. Entries'
      <4>1. CASE RateLimited(a, c)
        BY <3>1, <3>5, <4>1 DEF RateLimited
      <4>2. CASE WrongPassword(a, c)
        <5>1. failures' = [Retained(at) EXCEPT ![c] =
                             AfterFailure(Retained(at)[c], at)]
          BY <3>1, <4>2 DEF WrongPassword
        <5>2. AfterFailure(Retained(at)[c], at) \in R
          BY <3>5, <3>6
        <5> QED BY <3>5, <5>1, <5>2
      <4>3. CASE RightPassword(a, c)
        BY <1>1, <3>1, <3>5, <4>3 DEF RightPassword
      <4> QED BY <2>4, <4>1, <4>2, <4>3
    <3>8. Dated'
      <4>1. CASE RateLimited(a, c)
        BY <2>0, <4>1 DEF RateLimited
      <4>2. CASE WrongPassword(a, c)
        <5>1. Append(guesses[c], now) \in Seq(0..Horizon)
          BY <2>0, AppendProperties
        <5> QED BY <2>0, <4>2, <5>1 DEF WrongPassword
      <4>3. CASE RightPassword(a, c)
        <5>1. <<>> \in Seq(0..Horizon)
          OBVIOUS
        <5> QED BY <2>0, <4>3, <5>1 DEF RightPassword
      <4> QED BY <2>4, <4>1, <4>2, <4>3
    <3> QED BY <2>0, <3>4, <3>7, <3>8 DEF LimiterTypeOK, R
  <2> QED BY <1>3, <2>1, <2>2, <2>3, <2>4 DEF LimiterNext
<1> QED
  BY <1>2, <1>3, PTL DEF LimiterSpec

\* A client id is of a query that was begun.
THEOREM QmiTyped == QmiSpec => []QmiClientTypeOK
<1> DEFINE Begun == QmiClientTypeOK /\ (exchange # "idle" => query >= 1)
<1>1. QmiInit => Begun
  BY QmiClientAssumption DEF QmiInit, QmiClientTypeOK, Steps
<1>2. Begun /\ [QmiNext]_qmiVars => Begun'
  <2> SUFFICES ASSUME Begun, [QmiNext]_qmiVars PROVE Begun'
    OBVIOUS
  <2> USE QmiClientAssumption DEF QmiClientTypeOK, Steps
  <2>1. CASE BeginQuery
    <3>1. query' = query + 1 /\ query' \in 0..MaxQueries /\ query' >= 1
      BY <2>1 DEF BeginQuery
    <3>2. {modemIds', releasing', cutOff'} \subseteq SUBSET (1..query')
      BY <2>1, <3>1 DEF BeginQuery
    <3> QED BY <2>1, <3>1, <3>2 DEF BeginQuery, Step
  <2>2. CASE Opened \/ AnswerCtl \/ ReadAllocation
    BY <2>2 DEF Opened, AnswerCtl, ReadAllocation, Step
  <2>3. CASE ModemAllocates
    BY <2>3 DEF ModemAllocates, Step
  <2>4. CASE AnswerQuery
    BY <2>4 DEF AnswerQuery, Step
  <2>5. CASE CutOff
    BY <2>5 DEF CutOff
  <2>6. ASSUME NEW q \in Queries, Release(q) \/ ReleaseFails(q)
        PROVE  Begun'
    BY <2>6 DEF Release, ReleaseFails
  <2>7. CASE UNCHANGED qmiVars
    BY <2>7 DEF qmiVars
  <2> QED BY <2>1, <2>2, <2>3, <2>4, <2>5, <2>6, <2>7 DEF QmiNext
<1> QED BY <1>1, <1>2, PTL DEF QmiSpec

\* Connections are opened within the bound, and calls made on those only.
THEOREM SendersTyped == DbusSenderSpec => []DbusSenderTypeOK
<1>1. DbusSenderInit => SenderInv /\ DbusSenderTypeOK
  <2> SUFFICES ASSUME DbusSenderInit PROVE DbusSenderTypeOK
    BY SenderInitInv
  <2> QED BY DbusSenderAssumption
          DEF DbusSenderInit, DbusSenderTypeOK, NoCall, Operations, Outcomes
<1>2. SenderInv /\ DbusSenderTypeOK /\ [DbusSenderNext]_senderVars
        => SenderInv' /\ DbusSenderTypeOK'
  <2> SUFFICES ASSUME SenderInv, DbusSenderTypeOK, [DbusSenderNext]_senderVars
               PROVE  DbusSenderTypeOK'
    BY SenderStep
  <2>0. SenderInv'
    BY SenderStep
  <2>1. /\ MaxConnections \in Nat /\ MaxDrops \in Nat
        /\ opened \in 0..MaxConnections /\ drops \in 0..MaxDrops
        /\ alive \subseteq 1..opened
    BY DbusSenderAssumption DEF DbusSenderTypeOK
  <2> DEFINE Bounded == /\ opened' \in 0..MaxConnections
                        /\ drops' \in 0..MaxDrops
                        /\ alive' \subseteq 1..opened'
  <2>2. Bounded
    <3> USE <2>1
    <3>1. CASE DropConnections
      BY <3>1 DEF DropConnections
    <3>2. ASSUME NEW s \in Senders, GetOrConnect(s) PROVE Bounded
      BY <3>2 DEF GetOrConnect
    <3>3. ASSUME NEW s \in Senders, Discard(s) PROVE Bounded
      BY <3>3 DEF Discard
    <3>4. ASSUME NEW s \in Senders,
                 SendPrepared(s) \/ Prepare(s) \/ SmsSnapshot(s) \/ SmsState(s)
          PROVE  Bounded
      BY <3>4 DEF SendPrepared, Prepare, SmsSnapshot, SmsState, Ends
    <3>5. CASE UNCHANGED senderVars
      BY <3>5 DEF senderVars
    <3> QED BY <3>1, <3>2, <3>3, <3>4, <3>5 DEF DbusSenderNext
  <2>3. call' \in [Senders ->
                    [op : Operations, at : {"rest", "calling", "failed"},
                     conn : 0..MaxConnections, got : Outcomes,
                     transmits : BOOLEAN]]
    <3>1. call' \in [Senders -> Calls]
      BY <2>0 DEF SenderInv
    <3>2. ASSUME NEW t \in Senders PROVE call'[t].conn \in 0..MaxConnections
      <4>1. CASE call'[t].at # "rest"
        <5>1. call'[t].conn \in 1..opened'
          BY <2>0, <4>1 DEF SenderInv
        <5> QED BY <2>1, <2>2, <5>1
      <4>2. call[t] \in Calls /\ call[t].conn \in 0..MaxConnections
        BY DEF SenderInv, DbusSenderTypeOK
      <4>3. call'[t].at = "rest" =>
              call'[t].conn = call[t].conn \/ call'[t].conn = 0
        <5>1. CASE DropConnections \/ UNCHANGED senderVars
          BY <5>1 DEF DropConnections, senderVars
        <5>2. ASSUME NEW s \in Senders, GetOrConnect(s)
              PROVE  call'[t].at = "rest" =>
                       call'[t].conn = call[t].conn \/ call'[t].conn = 0
          <6>1. CASE s = t
            <7>1. PICK op \in Operations :
                    \/ \E c : call' = [call EXCEPT ![s] =
                                 [NoCall EXCEPT !.op = op, !.at = "calling",
                                                !.conn = c]]
                    \/ \E g : call' = [call EXCEPT ![s] =
                                 [NoCall EXCEPT !.op = op, !.got = g]]
              BY <5>2, Zenon DEF GetOrConnect
            <7>2. ASSUME NEW c, call' = [call EXCEPT ![s] =
                                   [NoCall EXCEPT !.op = op, !.at = "calling",
                                                  !.conn = c]]
                  PROVE  call'[t].at = "calling"
              <8>1. PICK r : r = [NoCall EXCEPT !.op = op, !.at = "calling",
                                                !.conn = c]
                OBVIOUS
              <8>2. call' = [call EXCEPT ![s] = r]
                BY <7>2, <8>1
              <8>3. call'[t] = r
                BY <6>1, <8>2 DEF SenderInv
              <8> QED BY <8>1, <8>3 DEF NoCall
            <7>3. ASSUME NEW g, call' = [call EXCEPT ![s] =
                                   [NoCall EXCEPT !.op = op, !.got = g]]
                  PROVE  call'[t].conn = 0
              <8>1. PICK r : r = [NoCall EXCEPT !.op = op, !.got = g]
                OBVIOUS
              <8>2. call' = [call EXCEPT ![s] = r]
                BY <7>3, <8>1
              <8>3. call'[t] = r
                BY <6>1, <8>2 DEF SenderInv
              <8> QED BY <8>1, <8>3 DEF NoCall
            <7> QED BY <7>1, <7>2, <7>3
          <6>2. CASE s # t
            BY <4>2, <5>2, <6>2 DEF GetOrConnect, SenderInv
          <6> QED BY <6>1, <6>2
        <5>3. ASSUME NEW s \in Senders, Discard(s)
              PROVE  call'[t].conn = call[t].conn
          BY <4>2, <5>3 DEF Discard, SenderInv, Calls
        <5>4. ASSUME NEW s \in Senders, NEW answer, NEW transmits, NEW next,
                     Ends(s, answer, transmits, next)
              PROVE  call'[t].conn = call[t].conn
          BY <4>2, <5>4 DEF Ends, SenderInv, Calls
        <5>5. ASSUME NEW s \in Senders,
                     SendPrepared(s) \/ Prepare(s) \/ SmsSnapshot(s)
                       \/ SmsState(s)
              PROVE  call'[t].conn = call[t].conn
          BY <5>4, <5>5 DEF SendPrepared, Prepare, SmsSnapshot, SmsState
        <5> QED BY <5>1, <5>2, <5>3, <5>5 DEF DbusSenderNext
      <4> QED BY <2>1, <4>1, <4>2, <4>3
    <3> QED BY <3>1, <3>2 DEF Calls
  <2>4. cache' \in 0..MaxConnections /\ condemned' \subseteq 1..opened'
    BY <2>0, <2>1, <2>2 DEF SenderInv
  <2> QED BY <2>2, <2>3, <2>4 DEF DbusSenderTypeOK
<1>3. SenderInv /\ DbusSenderTypeOK => DbusSenderTypeOK
  OBVIOUS
<1> QED BY <1>1, <1>2, <1>3, PTL DEF DbusSenderSpec

\* No attempt makes more than two requests.
THEOREM AttemptsTyped == ForwardAttemptSpec => []ForwardAttemptTypeOK
<1> DEFINE Counted == /\ ForwardAttemptTypeOK
                      /\ step \in {"dispatch", "token"} => tries = 0
                      /\ step = "post" => tries <= 1
<1>1. ASSUME ForwardAttemptInit PROVE Counted
  <2>1. Undecided \in [is : Verdicts, on : Grounds]
    BY DEF Undecided, Verdicts, Grounds
  <2>2. taken \in BOOLEAN
    BY <1>1 DEF ForwardAttemptInit
  <2> QED BY <1>1, <2>1, <2>2 DEF ForwardAttemptInit, ForwardAttemptTypeOK
<1>2. Counted /\ [ForwardAttemptNext]_attemptVars => Counted'
  <2> SUFFICES ASSUME Counted, [ForwardAttemptNext]_attemptVars PROVE Counted'
    OBVIOUS
  <2>1. ASSUME NEW is \in Verdicts, NEW on \in Grounds, Conclude(is, on)
        PROVE  verdict' \in [is : Verdicts, on : Grounds] /\ step' = "done"
    BY <2>1 DEF Conclude
  <2>2. /\ \A on \in Statuses : /\ ClassifyHttpStatus(on) \in Verdicts
                                 /\ ClassifyWebhookStatus(on) \in Verdicts
                                 /\ on \in Grounds
        /\ \A body \in Bodies : /\ ClassifyProviderRejection(body) \in Verdicts
                                 /\ ClassifyLarkRejection(body) \in Verdicts
        /\ {"missing", "permanent", "transient", "success"} \subseteq Verdicts
        /\ {"none", "flaw", "transport", "body"} \subseteq Grounds
        /\ TransportFailure = "transient"
    BY DEF ClassifyHttpStatus, ClassifyWebhookStatus, ClassifyProviderRejection,
           ClassifyLarkRejection, Verdicts, Grounds, TransportFailure
  <2>3. CASE Dispatch
    <3>1. CASE \E is \in Verdicts, on \in Grounds : Conclude(is, on)
      BY <2>1, <2>3, <3>1 DEF Dispatch, ForwardAttemptTypeOK
    <3>2. CASE step' \in {"token", "post"} /\ UNCHANGED verdict
      BY <2>3, <3>2 DEF Dispatch, ForwardAttemptTypeOK
    <3> QED BY <2>2, <2>3, <3>1, <3>2 DEF Dispatch
  <2>4. CASE FetchToken
    <3>1. tries = 0 /\ tries' = 1 /\ UNCHANGED <<profile, taken>>
      BY <2>4 DEF FetchToken
    <3>2. CASE \E is \in Verdicts, on \in Grounds : Conclude(is, on)
      BY <2>1, <3>1, <3>2 DEF ForwardAttemptTypeOK
    <3>3. CASE step' = "post" /\ UNCHANGED verdict
      BY <3>1, <3>3 DEF ForwardAttemptTypeOK
    <3> QED BY <2>2, <2>4, <3>2, <3>3 DEF FetchToken
  <2>5. /\ \A x \in Statuses \cup {"transport"} : TakenOn(x) \subseteq BOOLEAN
        /\ \A kind \in Kinds, body \in Bodies :
              TakenOnBody(kind, body) \subseteq BOOLEAN
    BY DEF TakenOn, TakenOnBody, Statuses
  <2>6. ASSUME step = "post", tries' = tries + 1, taken' \in BOOLEAN,
               \E is \in Verdicts, on \in Grounds : Conclude(is, on),
               UNCHANGED profile
        PROVE  Counted'
    BY <2>1, <2>6 DEF ForwardAttemptTypeOK
  <2>7. ASSUME NEW kind \in Kinds, NEW judged \in [Bodies -> Verdicts],
               Post(kind, judged)
        PROVE  Counted'
    <3>1. taken' \in BOOLEAN
      BY <2>5, <2>7 DEF Post
    <3>2. \E is \in Verdicts, on \in Grounds : Conclude(is, on)
      BY <2>2, <2>7 DEF Post
    <3> QED BY <2>6, <2>7, <3>1, <3>2 DEF Post
  <2>8. /\ ByCode \in [Bodies -> Verdicts]
        /\ ByCodeAndWord \in [Bodies -> Verdicts]
        /\ ByLarkCode \in [Bodies -> Verdicts]
    BY <2>2 DEF ByCode, ByCodeAndWord, ByLarkCode
  <2>9. CASE SendBark \/ SendTelegram \/ SendWeCom \/ SendDingTalk \/ SendLark
    BY <2>7, <2>8, <2>9
    DEF SendBark, SendTelegram, SendWeCom, SendDingTalk, SendLark, Kinds
  <2>10. CASE SendWebhook
    <3>1. taken' \in BOOLEAN
      BY <2>5, <2>10 DEF SendWebhook
    <3>2. \E is \in Verdicts, on \in Grounds : Conclude(is, on)
      BY <2>2, <2>10 DEF SendWebhook
    <3> QED BY <2>6, <2>10, <3>1, <3>2 DEF SendWebhook
  <2>11. CASE UNCHANGED attemptVars
    BY <2>11 DEF attemptVars, ForwardAttemptTypeOK
  <2> QED BY <2>3, <2>4, <2>9, <2>10, <2>11 DEF ForwardAttemptNext
<1> QED BY <1>1, <1>2, PTL DEF ForwardAttemptSpec

\* How long a message has waited is counted up to the bound.
THEOREM ScheduleTyped == RecoveryScheduleSpec => []RecoveryScheduleTypeOK
<1>0. /\ Pending \in Nat \ {0} /\ Deferral \in Nat \ {0}
      /\ InspectTime \in Nat \ {0}
  BY ScheduleAssumption
<1>1. PICK w \in Nat : w = LongestWait(Pending)
  BY <1>0 DEF LongestWait
<1>2. RecoveryScheduleInit => RecoveryScheduleTypeOK
  BY <1>0, <1>1
  DEF RecoveryScheduleInit, RecoveryScheduleTypeOK, NoTurn, OutboundIds
<1>3. RecoveryScheduleTypeOK /\ [RecoveryScheduleNext]_scheduleVars
        => RecoveryScheduleTypeOK'
  <2> SUFFICES ASSUME RecoveryScheduleTypeOK,
                      [RecoveryScheduleNext]_scheduleVars
               PROVE  RecoveryScheduleTypeOK'
    OBVIOUS
  <2> USE <1>0, <1>1 DEF RecoveryScheduleTypeOK, OutboundIds
  <2>1. CASE ClaimDue
    <3>1. PICK i \in Due : turn' = [id |-> i, time |-> 0]
                           /\ overdue' = [overdue EXCEPT ![i] = 0]
                           /\ crowded' = crowded \ {i}
      BY <2>1 DEF ClaimDue
    <3>2. i \in 1..Pending
      BY DEF Due
    <3>3. turn' \in [id : 0..Pending, time : 0..InspectTime]
      BY <3>1, <3>2
    <3>4. 0 \in 0..(w + 1)
      OBVIOUS
    <3>5. overdue' \in [OutboundIds -> 0..(w + 1)]
      BY <3>1, <3>4
    <3>6. crowded' \subseteq OutboundIds
      BY <3>1
    <3> QED BY <2>1, <3>3, <3>5, <3>6 DEF ClaimDue
  <2>2. CASE FinishTurn
    <3>1. turn' \in [id : 0..Pending, time : 0..InspectTime]
      BY <2>2 DEF FinishTurn, NoTurn
    <3>2. unresolved' \subseteq OutboundIds
      BY <2>2 DEF FinishTurn
    <3>3. rest' \in [OutboundIds -> 0..Deferral]
      <4>1. PICK i \in 1..Pending : i = turn.id
        BY <2>2 DEF FinishTurn
      <4>2. rest' = rest \/ rest' = [rest EXCEPT ![i] = Deferral]
        BY <2>2, <4>1 DEF FinishTurn
      <4>3. Deferral \in 0..Deferral
        OBVIOUS
      <4>4. [rest EXCEPT ![i] = Deferral] \in [OutboundIds -> 0..Deferral]
        BY <4>3
      <4> QED BY <4>2, <4>4, Zenon
    <3> QED BY <2>2, <3>1, <3>2, <3>3 DEF FinishTurn
  <2>3. CASE ScheduleTick
    <3>1. turn' \in [id : 0..Pending, time : 0..InspectTime]
      <4>1. CASE turn.id = 0
        BY <2>3, <4>1 DEF ScheduleTick
      <4>2. CASE turn.id # 0
        <5>1. turn' = [turn EXCEPT !.time = turn.time + 1]
              /\ turn.time < InspectTime
          BY <2>3, <4>2 DEF ScheduleTick
        <5> QED BY <5>1
      <4> QED BY <4>1, <4>2
    <3>2. rest' \in [OutboundIds -> 0..Deferral]
      BY <2>3 DEF ScheduleTick
    <3>3. overdue' \in [OutboundIds -> 0..(w + 1)]
      <4>1. overdue' = [i \in OutboundIds |->
                          IF i \in Due /\ overdue[i] <= w
                          THEN overdue[i] + 1 ELSE overdue[i]]
        BY <2>3 DEF ScheduleTick
      <4>2. \A i \in OutboundIds : overdue[i] \in 0..(w + 1)
        OBVIOUS
      <4> QED BY <4>1, <4>2
    <3>4. crowded' \subseteq OutboundIds /\ unresolved' \subseteq OutboundIds
      BY <2>3 DEF ScheduleTick, Due
    <3> QED BY <2>3, <3>1, <3>2, <3>3, <3>4 DEF ScheduleTick
  <2>4. CASE UNCHANGED scheduleVars
    BY <2>4 DEF scheduleVars
  <2> QED BY <2>1, <2>2, <2>3, <2>4 DEF RecoveryScheduleNext
<1> QED BY <1>2, <1>3, PTL DEF RecoveryScheduleSpec

\* The level of a status is one of the four, whatever is classified.
THEOREM StatusTyped == StatusSpec => []ModemStatusTypeOK
<1> DEFINE Leveled == StatusInv /\ level \in Levels
<1>1. StatusInit => Leveled
  BY StatusInitInv DEF StatusInit, Levels
<1>2. Leveled /\ [StatusNext]_statusVars => Leveled'
  <2> SUFFICES ASSUME level \in Levels, [StatusNext]_statusVars
               PROVE  level' \in Levels
    BY StatusStep
  <2>1. \A r, h : \A l \in Levels : Classify(r, l, h).level \in Levels
    BY DEF Classify, Levels
  <2>2. \A r, reason : Cured(r, reason).level \in Levels
    BY <2>1 DEF Cured, Levels
  <2>3. "unknown" \in Levels /\ "error" \in Levels /\ "degraded" \in Levels
    BY DEF Levels
  <2>4. CASE AskStatus \/ DetectTool \/ FallBackToText
    BY <2>3, <2>4 DEF AskStatus, DetectTool, FallBackToText, Fail, FailTo
  <2>5. CASE ReadModem
    BY <2>1, <2>3, <2>5 DEF ReadModem, Judge, Parsed, Fail, FailTo
  <2>6. CASE ModemFails \/ ResolveId \/ FindDrift
    BY <2>3, <2>6 DEF ModemFails, ResolveId, FindDrift, Fail, FailTo
  <2>7. CASE EnrichMessaging \/ EnrichSim
    BY <2>2, <2>7 DEF EnrichMessaging, EnrichSim, Judge
  <2>8. CASE UNCHANGED statusVars
    BY <2>8 DEF statusVars
  <2> QED BY <2>4, <2>5, <2>6, <2>7, <2>8 DEF StatusNext
<1>3. Leveled => ModemStatusTypeOK
  BY DEF StatusInv, ModemStatusTypeOK
<1> QED BY <1>1, <1>2, <1>3, PTL DEF StatusSpec

\* The outcome of a start is one of those RunForwarding gives.
THEOREM ConfigurationTyped == ConfigurationSpec => []ConfigurationTypeOK
<1>1. ConfigurationInit => ConfigInv /\ ConfigurationTypeOK
  <2> SUFFICES ASSUME ConfigurationInit PROVE ConfigurationTypeOK
    BY ConfigInitInv
  <2>1. ConfigInv
    BY ConfigInitInv
  <2>2. service \in StartOutcomes
    BY DEF ConfigurationInit, StartOutcomes, Ended
  <2>3. rewrites \in 0..MaxRewrites
    BY ConfigurationAssumption DEF ConfigurationInit
  <2> QED BY <2>1, <2>2, <2>3 DEF ConfigInv, ConfigurationTypeOK
<1>2. ConfigInv /\ ConfigurationTypeOK /\ [ConfigurationNext]_configVars
        => ConfigInv' /\ ConfigurationTypeOK'
  <2> SUFFICES ASSUME ConfigInv, ConfigurationTypeOK,
                      [ConfigurationNext]_configVars
               PROVE  ConfigurationTypeOK'
    BY ConfigStep
  <2>1. ConfigInv'
    BY ConfigStep
  <2>2. rewrites' \in 0..MaxRewrites
    <3>1. \/ rewrites' = rewrites
          \/ rewrites < MaxRewrites /\ rewrites' = rewrites + 1
      <4>1. CASE EditFile
        BY <4>1 DEF EditFile, Rewrite
      <4>2. CASE RunWizard
        BY <4>2 DEF RunWizard, Rewrite
      <4>3. CASE CheckConfig \/ RunForwarding \/ UNCHANGED configVars
        BY <4>3 DEF CheckConfig, RunForwarding, configVars
      <4> QED BY <4>1, <4>2, <4>3 DEF ConfigurationNext
    <3> QED BY <3>1, ConfigurationAssumption DEF ConfigurationTypeOK
  <2>3. service' \in StartOutcomes
    <3>1. CASE service' = service
      BY <3>1 DEF ConfigurationTypeOK
    <3>2. CASE RunForwarding
      <4>1. \A o \in {"refused", "no workers", "no listener"} :
              Ended(o) \in StartOutcomes
        BY DEF Ended, StartOutcomes
      <4>2. \A f \in SUBSET {4, 6} : Listens(f) \in StartOutcomes
        BY DEF Listens, StartOutcomes
      <4>3. \A f \in PrimaryFamilies(configFile) :
              f \cup CompanionFamilies(configFile) \in SUBSET {4, 6}
        BY DEF PrimaryFamilies, CompanionFamilies
      <4>4. ServeApi(configFile) \subseteq StartOutcomes
        BY <4>1, <4>2, <4>3 DEF ServeApi
      <4> QED BY <3>2, <4>1, <4>2, <4>4 DEF RunForwarding
    <3> QED BY <3>1, <3>2
            DEF ConfigurationNext, EditFile, RunWizard, CheckConfig, configVars
  <2> QED BY <2>1, <2>2, <2>3 DEF ConfigInv, ConfigurationTypeOK
<1>3. ConfigInv /\ ConfigurationTypeOK => ConfigurationTypeOK
  OBVIOUS
<1> QED BY <1>1, <1>2, <1>3, PTL DEF ConfigurationSpec

(***************************************************************************)
(* Self-update: the files are builds, torn bytes or missing.               *)
(***************************************************************************)
Files == Builds \cup {Missing, Torn}

\* What the invariant of the proofs about Update leaves open.
UpdateBounds ==
    /\ \E n \in 0..MaxRelease : catalog \in [1..n -> AllReleaseKinds]
    /\ \A u \in Updaters : updates[u].temp \in Files
    /\ running \in Builds \cup {Down}
    /\ jobs \subseteq Updaters /\ owing \subseteq Updaters

\* It leaves nothing else open.
LEMMA BoundsGiveTypes == UpdateInv /\ UpdateBounds => UpdateTypeOK
<1> SUFFICES ASSUME UpdateInv, UpdateBounds PROVE UpdateTypeOK
  OBVIOUS
<1>0. MaxRelease \in Nat
  BY UpdateAssumption
<1>1. PICK n \in 0..MaxRelease : catalog \in [1..n -> AllReleaseKinds]
  BY DEF UpdateBounds
<1>2. Cardinality(DOMAIN catalog) = n
  <2>1. DOMAIN catalog = 1..n /\ n \in Nat
    BY <1>0, <1>1
  <2>2. PICK one \in Int : one = 1
    OBVIOUS
  <2>3. Cardinality(one..n) = IF one > n THEN 0 ELSE n - one + 1
    BY <2>1, FS_Interval
  <2> QED BY <2>1, <2>2, <2>3
<1>3. DOMAIN catalog \subseteq Builds /\ 0 \in Builds
  BY <1>0, <1>1 DEF Builds
<1>4. installed \in [Places -> Files]
  <2>1. \A p \in Places : installed[p] \in Files
    BY <1>3 DEF UpdateInv, InstalledIsWhole, Files
  <2> QED BY <2>1 DEF UpdateInv
<1>5. updates \in [Updaters ->
           [stage : UpdateStages, manager : Managers, target : Places,
            release : Builds, temp : Files]]
  <2>1. ASSUME NEW u \in Updaters
        PROVE  updates[u] \in [stage : UpdateStages, manager : Managers,
                               target : Places, release : Builds, temp : Files]
    <3>1. updates[u] \in UpdateRecords
      BY DEF UpdateInv
    <3>2. updates[u].release \in Builds /\ updates[u].temp \in Files
      BY <1>3 DEF UpdateInv, UpdateBounds
    <3> QED BY <3>1, <3>2 DEF UpdateRecords
  <2> QED BY <2>1 DEF UpdateInv
<1> QED
  BY <1>1, <1>2, <1>4, <1>5 DEF UpdateBounds, UpdateTypeOK, Files

\* A release more.
LEMMA PublishBounds ==
    ASSUME UpdateInv, UpdateBounds, Publish
    PROVE  UpdateBounds'
<1>0. MaxRelease \in Nat /\ ReleaseKinds \subseteq AllReleaseKinds
  BY UpdateAssumption
<1>1. PICK n \in 0..MaxRelease : catalog \in [1..n -> AllReleaseKinds]
  BY DEF UpdateBounds
<1>2. Latest = n
  <2>1. DOMAIN catalog = 1..n /\ n \in Nat
    BY <1>0, <1>1
  <2>2. PICK one \in Int : one = 1
    OBVIOUS
  <2>3. Cardinality(one..n) = IF one > n THEN 0 ELSE n - one + 1
    BY <2>1, FS_Interval
  <2> QED BY <2>1, <2>2, <2>3 DEF Latest
<1>3. PICK kind \in ReleaseKinds :
        catalog' = [r \in 1..(n + 1) |-> IF r = n + 1 THEN kind ELSE catalog[r]]
  BY <1>2 DEF Publish
<1>4. n + 1 \in 0..MaxRelease
  BY <1>0, <1>2 DEF Publish
<1>5. catalog' \in [1..(n + 1) -> AllReleaseKinds]
  <2>1. \A r \in 1..(n + 1) : r # n + 1 => r \in 1..n
    BY <1>0
  <2>2. \A r \in 1..(n + 1) :
          (IF r = n + 1 THEN kind ELSE catalog[r]) \in AllReleaseKinds
    BY <1>0, <1>1, <2>1
  <2> QED BY <1>3, <2>2
<1> QED
  BY <1>4, <1>5 DEF UpdateBounds, Publish, Files, Builds, Missing, Torn, Down

\* A run writes a build that was shipped, or torn bytes.
LEMMA TempsStay ==
    ASSUME UpdateInv, UpdateBounds, UpdateNext, NEW v \in Updaters
    PROVE  updates'[v].temp \in Files
<1>0. /\ \A u \in Updaters : updates[u].temp \in Files
                             /\ updates[u] \in UpdateRecords
      /\ updates \in [Updaters -> UpdateRecords]
      /\ Missing \in Files /\ Torn \in Files
  BY DEF UpdateInv, UpdateBounds, Files
<1>1. \A u \in Updaters : BuildShipped(updates[u].release) \in Files
  <2>1. PICK n \in 0..MaxRelease : catalog \in [1..n -> AllReleaseKinds]
    BY DEF UpdateBounds
  <2>2. DOMAIN catalog \subseteq Builds /\ 0 \in Builds
    BY <2>1, UpdateAssumption DEF Builds
  <2> QED BY <2>2 DEF BuildShipped, UpdateInv, Files
<1>2. ASSUME NEW u \in Updaters, NEW stage, Becomes(u, stage)
      PROVE  updates'[v].temp \in Files
  BY <1>0, <1>2 DEF Becomes, UpdateRecords
<1>3. ASSUME NEW u \in Updaters, Abandon(u)
      PROVE  updates'[v].temp \in Files
  <2>1. CASE updates' = [updates EXCEPT ![u].stage = "failed",
                                        ![u].temp = Missing]
    BY <1>0, <2>1 DEF UpdateRecords
  <2> QED BY <1>2, <1>3, <2>1 DEF Abandon
<1>4. CASE UNCHANGED updates
  BY <1>0, <1>4
<1>5. ASSUME NEW u \in Updaters, Locate(u) \/ FetchRelease(u)
      PROVE  updates'[v].temp \in Files
  <2>1. CASE Becomes(u, "failed")
    BY <1>2, <2>1
  <2>2. CASE \E r : updates' = [updates EXCEPT ![u] = r]
                    /\ r.temp = updates[u].temp
    BY <1>0, <2>2
  <2>3. ASSUME NEW manager, NEW p,
               updates' = [updates EXCEPT ![u].stage = "located",
                              ![u].manager = manager, ![u].target = p]
        PROVE  updates'[v].temp \in Files
    <3>1. PICK r : r = [updates[u] EXCEPT !.stage = "located",
                                 !.manager = manager, !.target = p]
      OBVIOUS
    <3>2. r.temp = updates[u].temp
      BY <1>0, <3>1 DEF UpdateRecords
    <3>3. updates' = [updates EXCEPT ![u] = r]
      BY <1>0, <2>3, <3>1 DEF UpdateRecords
    <3> QED BY <2>2, <3>2, <3>3
  <2>4. CASE updates' = [updates EXCEPT ![u].release = Latest]
    <3>1. PICK r : r = [updates[u] EXCEPT !.release = Latest]
      OBVIOUS
    <3>2. r.temp = updates[u].temp
      BY <1>0, <3>1 DEF UpdateRecords
    <3>3. updates' = [updates EXCEPT ![u] = r]
      BY <1>0, <2>4, <3>1 DEF UpdateRecords
    <3> QED BY <2>2, <3>2, <3>3
  <2>5. CASE Locate(u)
    BY <2>1, <2>3, <2>5 DEF Locate
  <2>6. CASE FetchRelease(u)
    BY <2>1, <2>4, <2>6 DEF FetchRelease
  <2> QED BY <1>5, <2>5, <2>6
<1>6. ASSUME NEW u \in Updaters,
             \/ InspectInstalled(u) \/ FetchPublishedChecksum(u)
             \/ Validate(u) \/ RestartAfterUpdate(u) \/ RestartAnswered(u)
             \/ Kill(u)
      PROVE  updates'[v].temp \in Files
  <2>1. Abandon(u) \/ \E stage : Becomes(u, stage)
    BY <1>6
    DEF InspectInstalled, FetchPublishedChecksum, Validate,
        RestartAfterUpdate, RestartAnswered, Kill
  <2> QED BY <1>2, <1>3, <2>1
<1>7. ASSUME NEW u \in Updaters,
             StopService(u) \/ StartService(u) \/ RestartFails(u)
      PROVE  updates'[v].temp \in Files
  <2>1. (\E stage : Becomes(u, stage)) \/ UNCHANGED updates
    BY <1>7 DEF StopService, StartService, RestartFails
  <2> QED BY <1>2, <1>4, <2>1
<1>8. ASSUME NEW u \in Updaters, OpenTemporary(u)
      PROVE  updates'[v].temp \in Files
  <2>1. CASE Abandon(u)
    BY <1>3, <2>1
  <2>2. CASE updates' = [updates EXCEPT ![u].stage = "open", ![u].temp = Torn]
    BY <1>0, <2>2 DEF UpdateRecords
  <2> QED BY <1>8, <2>1, <2>2 DEF OpenTemporary
<1>9. ASSUME NEW u \in Updaters, Download(u)
      PROVE  updates'[v].temp \in Files
  <2>1. CASE Abandon(u)
    BY <1>3, <2>1
  <2>2. ASSUME NEW bytes \in Files,
               updates' = [updates EXCEPT ![u].stage = "written",
                                          ![u].temp = bytes]
        PROVE  updates'[v].temp \in Files
    BY <1>0, <2>2 DEF UpdateRecords
  <2> QED BY <1>0, <1>1, <1>9, <2>1, <2>2 DEF Download
<1>10. ASSUME NEW u \in Updaters, Replace(u)
       PROVE  updates'[v].temp \in Files
  <2>1. CASE Abandon(u)
    BY <1>3, <2>1
  <2>2. CASE updates' = [updates EXCEPT ![u].stage = "replaced",
                                        ![u].temp = Missing]
    BY <1>0, <2>2 DEF UpdateRecords
  <2> QED BY <1>10, <2>1, <2>2 DEF Replace
<1> QED
  BY <1>4, <1>5, <1>6, <1>7, <1>8, <1>9, <1>10 DEF UpdateNext, Publish

\* The service is down, or runs one of the builds, and only runs restart it.
LEMMA ServiceStays ==
    ASSUME UpdateBounds, UpdateNext
    PROVE  /\ running' \in Builds \cup {Down}
           /\ jobs' \subseteq Updaters /\ owing' \subseteq Updaters
<1> USE DEF UpdateBounds
<1>1. ASSUME NEW u \in Updaters, Replace(u) \/ RestartAnswered(u)
      PROVE  running' = running /\ jobs' = jobs /\ owing' \subseteq Updaters
  BY <1>1 DEF Replace, RestartAnswered
<1>2. ASSUME NEW u \in Updaters,
             \/ RestartAfterUpdate(u) \/ StopService(u) \/ StartService(u)
             \/ RestartFails(u)
      PROVE  /\ running' \in Builds \cup {Down}
             /\ jobs' \subseteq Updaters /\ owing' = owing
  BY <1>2 DEF RestartAfterUpdate, StopService, StartService, RestartFails
<1>3. ASSUME NEW u \in Updaters,
             \/ Locate(u) \/ FetchRelease(u) \/ InspectInstalled(u)
             \/ FetchPublishedChecksum(u) \/ OpenTemporary(u) \/ Download(u)
             \/ Validate(u) \/ Kill(u)
      PROVE  UNCHANGED <<running, jobs, owing>>
  BY <1>3 DEF Locate, FetchRelease, InspectInstalled, FetchPublishedChecksum,
              OpenTemporary, Download, Validate, Kill
<1>4. CASE Publish
  BY <1>4 DEF Publish
<1> QED BY <1>1, <1>2, <1>3, <1>4 DEF UpdateNext

\* The files at the places, the temporary ones and the service stay builds.
THEOREM UpdateTyped == UpdateSpec => []UpdateTypeOK
<1> DEFINE Both == UpdateInv /\ UpdateBounds
<1>1. UpdateInit => Both
  <2> SUFFICES ASSUME UpdateInit PROVE UpdateBounds
    BY UpdateInitInv
  <2>1. 0 \in 0..MaxRelease /\ catalog \in [1..0 -> AllReleaseKinds]
    BY UpdateAssumption DEF UpdateInit
  <2>2. jobs = {} /\ owing = {} /\ running \in Builds
    BY UpdateAssumption DEF UpdateInit, Builds
  <2>3. \A u \in Updaters : updates[u].temp \in Files
    BY DEF UpdateInit, Fresh, Files
  <2> QED BY <2>1, <2>2, <2>3 DEF UpdateBounds
<1>2. Both /\ [UpdateNext]_updateVars => Both'
  <2> SUFFICES ASSUME UpdateInv, UpdateBounds, [UpdateNext]_updateVars
               PROVE  UpdateBounds'
    BY UpdateStep
  <2>1. CASE UNCHANGED updateVars
    BY <2>1 DEF updateVars, UpdateBounds, Files, Builds, Missing, Torn, Down
  <2>2. CASE Publish
    BY <2>2, PublishBounds
  <2>3. ASSUME UpdateNext, ~Publish PROVE UpdateBounds'
    <3>1. catalog' = catalog
      BY <2>3
      DEF UpdateNext, Locate, FetchRelease, InspectInstalled,
          FetchPublishedChecksum, OpenTemporary, Download, Validate, Replace,
          RestartAfterUpdate, StopService, StartService, RestartFails,
          RestartAnswered, Kill
    <3>2. /\ running' \in Builds \cup {Down}
          /\ jobs' \subseteq Updaters /\ owing' \subseteq Updaters
      BY <2>3, ServiceStays
    <3>3. \A v \in Updaters : updates'[v].temp \in Files
      BY <2>3, TempsStay
    <3>4. Files' = Files /\ Builds' = Builds /\ Down' = Down
      BY DEF Files, Builds, Torn, Missing, Down
    <3> QED BY <3>1, <3>2, <3>3, <3>4 DEF UpdateBounds
  <2> QED BY <2>1, <2>2, <2>3
<1>3. Both => UpdateTypeOK
  BY BoundsGiveTypes
<1> QED BY <1>1, <1>2, <1>3, PTL DEF UpdateSpec

(***************************************************************************)
(* The instance: each component is at its start or at rest, and takes a    *)
(* step of its own or none.  The stream at rest is no state it starts in,  *)
(* so its invariant is carried here.                                       *)
(***************************************************************************)
LEMMA PartsStart ==
    ASSUME Init
    PROVE  /\ StreamInit \/ RestStream
           /\ ConversationsInit
           /\ PagingInit
           /\ ConfigSaveInit
           /\ SessionsInit
           /\ LimiterInit
           /\ HealthInit
           /\ ActionsInit
           /\ StatusInit
           /\ ImsInit
           /\ QmiInit
           /\ DbusSenderInit
           /\ ForwardAttemptInit
           /\ DeliveryLeaseInit
           /\ RecoveryScheduleInit
           /\ UpdateInit
           /\ ConfigurationInit
           /\ ReportingInit
BY DEF Init, RestConversations, RestPaging, RestSave, RestActions,
   RestAttempt, RestUpdate, RestConfiguration

LEMMA PartsStep ==
    ASSUME [Next]_vars
    PROVE  /\ [StreamNext]_streamVars
           /\ [ConversationsNext]_conversationVars
           /\ [PagingNext]_pagingVars
           /\ [ConfigSaveNext]_saveVars
           /\ [SessionsNext]_sessionVars
           /\ [LimiterNext]_limiterVars
           /\ [HealthNext]_healthVars
           /\ [ActionsNext]_actionVars
           /\ [StatusNext]_statusVars
           /\ [ImsNext]_imsVars
           /\ [QmiNext]_qmiVars
           /\ [DbusSenderNext]_senderVars
           /\ [ForwardAttemptNext]_attemptVars
           /\ [DeliveryLeaseNext]_leaseVars
           /\ [RecoveryScheduleNext]_scheduleVars
           /\ [UpdateNext]_updateVars
           /\ [ConfigurationNext]_configVars
           /\ [ReportingNext]_reportVars
<1>1. CASE UNCHANGED vars
  BY <1>1 DEF vars
<1>2. CASE Next
  BY <1>2 DEF Next
<1> QED BY <1>1, <1>2

\* Every component of the instance keeps to its types: ids, revisions, tokens,
\* leases and paths stay among those that exist, and counters within their
\* bounds.
THEOREM ComponentsTyped == Spec => []ComponentsTypeOK
<1>1. Init => StreamInit \/ RestStream
  BY PartsStart
<1>2. [Next]_vars => [StreamNext]_streamVars
  BY PartsStep
<1>3. Spec => []EventStreamTypeOK
  <2>1. Init => EventStreamTypeOK
    BY <1>1, StreamStarts
  <2>2. EventStreamTypeOK /\ [Next]_vars => EventStreamTypeOK'
    BY <1>2, StreamStays
  <2> QED BY <2>1, <2>2, PTL DEF Spec
<1>4. Spec => []ConversationsTypeOK
  <2>1. Init => ConversationsInit
    BY PartsStart
  <2>2. [Next]_vars => [ConversationsNext]_conversationVars
    BY PartsStep
  <2> QED BY <2>1, <2>2, ConversationsTyped, PTL DEF Spec, ConversationsSpec
<1>5. Spec => []PagingTypeOK
  <2>1. Init => PagingInit
    BY PartsStart
  <2>2. [Next]_vars => [PagingNext]_pagingVars
    BY PartsStep
  <2> QED BY <2>1, <2>2, PagesTyped, PTL DEF Spec, PagingSpec
<1>6. Spec => []ConfigSaveTypeOK
  <2>1. Init => ConfigSaveInit
    BY PartsStart
  <2>2. [Next]_vars => [ConfigSaveNext]_saveVars
    BY PartsStep
  <2> QED BY <2>1, <2>2, SavesTyped, PTL DEF Spec, ConfigSaveSpec
<1>7. Spec => []SessionsTypeOK
  <2>1. Init => SessionsInit
    BY PartsStart
  <2>2. [Next]_vars => [SessionsNext]_sessionVars
    BY PartsStep
  <2> QED BY <2>1, <2>2, SessionsTyped, PTL DEF Spec, SessionsSpec
<1>8. Spec => []LimiterTypeOK
  <2>1. Init => LimiterInit
    BY PartsStart
  <2>2. [Next]_vars => [LimiterNext]_limiterVars
    BY PartsStep
  <2> QED BY <2>1, <2>2, LimiterTyped, PTL DEF Spec, LimiterSpec
<1>9. Spec => []ModemHealthTypeOK
  <2>1. Init => HealthInit
    BY PartsStart
  <2>2. [Next]_vars => [HealthNext]_healthVars
    BY PartsStep
  <2> QED BY <2>1, <2>2, HealthTyped, PTL DEF Spec, HealthSpec
<1>10. Spec => []ModemActionsTypeOK
  <2>1. Init => ActionsInit
    BY PartsStart
  <2>2. [Next]_vars => [ActionsNext]_actionVars
    BY PartsStep
  <2> QED BY <2>1, <2>2, ActionsTyped, PTL DEF Spec, ActionsSpec
<1>11. Spec => []ModemStatusTypeOK
  <2>1. Init => StatusInit
    BY PartsStart
  <2>2. [Next]_vars => [StatusNext]_statusVars
    BY PartsStep
  <2> QED BY <2>1, <2>2, StatusTyped, PTL DEF Spec, StatusSpec
<1>12. Spec => []ImsProbeTypeOK
  <2>1. Init => ImsInit
    BY PartsStart
  <2>2. [Next]_vars => [ImsNext]_imsVars
    BY PartsStep
  <2> QED BY <2>1, <2>2, ImsTyped, PTL DEF Spec, ImsSpec
<1>13. Spec => []QmiClientTypeOK
  <2>1. Init => QmiInit
    BY PartsStart
  <2>2. [Next]_vars => [QmiNext]_qmiVars
    BY PartsStep
  <2> QED BY <2>1, <2>2, QmiTyped, PTL DEF Spec, QmiSpec
<1>14. Spec => []DbusSenderTypeOK
  <2>1. Init => DbusSenderInit
    BY PartsStart
  <2>2. [Next]_vars => [DbusSenderNext]_senderVars
    BY PartsStep
  <2> QED BY <2>1, <2>2, SendersTyped, PTL DEF Spec, DbusSenderSpec
<1>15. Spec => []ForwardAttemptTypeOK
  <2>1. Init => ForwardAttemptInit
    BY PartsStart
  <2>2. [Next]_vars => [ForwardAttemptNext]_attemptVars
    BY PartsStep
  <2> QED BY <2>1, <2>2, AttemptsTyped, PTL DEF Spec, ForwardAttemptSpec
<1>16. Spec => []DeliveryLeaseTypeOK
  <2>1. Init => DeliveryLeaseInit
    BY PartsStart
  <2>2. [Next]_vars => [DeliveryLeaseNext]_leaseVars
    BY PartsStep
  <2> QED BY <2>1, <2>2, LeaseTyped, PTL DEF Spec, DeliveryLeaseSpec
<1>17. Spec => []RecoveryScheduleTypeOK
  <2>1. Init => RecoveryScheduleInit
    BY PartsStart
  <2>2. [Next]_vars => [RecoveryScheduleNext]_scheduleVars
    BY PartsStep
  <2> QED BY <2>1, <2>2, ScheduleTyped, PTL DEF Spec, RecoveryScheduleSpec
<1>18. Spec => []UpdateTypeOK
  <2>1. Init => UpdateInit
    BY PartsStart
  <2>2. [Next]_vars => [UpdateNext]_updateVars
    BY PartsStep
  <2> QED BY <2>1, <2>2, UpdateTyped, PTL DEF Spec, UpdateSpec
<1>19. Spec => []ConfigurationTypeOK
  <2>1. Init => ConfigurationInit
    BY PartsStart
  <2>2. [Next]_vars => [ConfigurationNext]_configVars
    BY PartsStep
  <2> QED BY <2>1, <2>2, ConfigurationTyped, PTL DEF Spec, ConfigurationSpec
<1>20. Spec => []ReportingTypeOK
  <2>1. Init => ReportingInit
    BY PartsStart
  <2>2. [Next]_vars => [ReportingNext]_reportVars
    BY PartsStep
  <2> QED BY <2>1, <2>2, ReportsTyped, PTL DEF Spec, ReportingSpec
<1> QED
  BY <1>3, <1>4, <1>5, <1>6, <1>7, <1>8, <1>9, <1>10, <1>11, <1>12, <1>13,
     <1>14, <1>15, <1>16, <1>17, <1>18, <1>19, <1>20, PTL DEF ComponentsTypeOK
=============================================================================
