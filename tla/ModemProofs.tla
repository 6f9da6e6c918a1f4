----------------------------- MODULE ModemProofs -----------------------------
(***************************************************************************)
(* Theorems about what the service does with the modem: the cache of its   *)
(* health, the actions, the QMI queries, the IMS probe, the status and the *)
(* D-Bus calls, for any number of callers, any times and any number of     *)
(* failures.                                                               *)
(***************************************************************************)
EXTENDS ModemHealth, ModemActions, QmiClient, DbusSender, ImsProbe,
        ModemStatus, TLAPS, FiniteSetTheorems

(***************************************************************************)
(* QMI client ids                                                          *)
(***************************************************************************)
\* A client id that outlives its query is being released, or something
\* broke, however queries and releases overlap.
THEOREM QmiIdsComeBack == QmiSpec => []IdsComeBack
<1>1. QmiInit => IdsComeBack
  BY DEF QmiInit, IdsComeBack
<1>2. IdsComeBack /\ [QmiNext]_qmiVars => IdsComeBack'
  <2> SUFFICES ASSUME IdsComeBack, [QmiNext]_qmiVars
               PROVE  IdsComeBack'
    OBVIOUS
  <2>1. CASE BeginQuery
    BY <2>1 DEF IdsComeBack, BeginQuery, Step
  <2>2. CASE Opened
    BY <2>2 DEF IdsComeBack, Opened, Step
  <2>3. CASE AnswerCtl
    BY <2>3 DEF IdsComeBack, AnswerCtl, Step
  <2>4. CASE ModemAllocates
    BY <2>4 DEF IdsComeBack, ModemAllocates, Step
  <2>5. CASE ReadAllocation
    BY <2>5 DEF IdsComeBack, ReadAllocation, Step
  <2>6. CASE AnswerQuery
    BY <2>6 DEF IdsComeBack, AnswerQuery, Step
  <2>7. CASE CutOff
    BY <2>7 DEF IdsComeBack, CutOff
  <2>8. ASSUME NEW q \in Queries, Release(q)
        PROVE  IdsComeBack'
    BY <2>8 DEF IdsComeBack, Release
  <2>9. ASSUME NEW q \in Queries, ReleaseFails(q)
        PROVE  IdsComeBack'
    BY <2>9 DEF IdsComeBack, ReleaseFails
  <2>10. CASE UNCHANGED qmiVars
    BY <2>10 DEF IdsComeBack, qmiVars
  <2> QED
    BY <2>1, <2>2, <2>3, <2>4, <2>5, <2>6, <2>7, <2>8, <2>9, <2>10
    DEF QmiNext
<1> QED
  BY <1>1, <1>2, PTL DEF QmiSpec

(***************************************************************************)
(* The cache of the health                                                 *)
(***************************************************************************)
\* A result in the cache was read by a refresh that kept to its time, and so
\* far the refresh under way does.
HealthInv ==
    /\ ModemHealthTypeOK
    /\ refreshed = cached.at
    /\ Cached => /\ cached.at <= healthClock
                 /\ cached.of <= cached.at
                 /\ cached.at - cached.of <= RefreshTime
    /\ Refreshing => /\ begun \in Moments
                     /\ begun <= healthClock
                     /\ healthClock - begun <= RefreshTime
    /\ \A c \in Callers : caller[c] = "refreshing" => refresher = c
    /\ AnswersRecent

\* Nothing is cached, given or under way.
LEMMA HealthInitInv ==
    ASSUME ModemHealthAssumption, HealthInit
    PROVE  HealthInv
BY DEF ModemHealthAssumption, HealthInit, HealthInv, ModemHealthTypeOK,
       Moments, NothingCached, Never, NoAnswer, Cached, Refreshing,
       AnswersRecent

\* What an answer from the cache is.
LEMMA GivenRecent ==
    ASSUME ModemHealthAssumption, HealthInv, UsableResult, Give
    PROVE  /\ given' \in [age: Moments, fresh: BOOLEAN]
           /\ given'.age <= RefreshTime + (IF given'.fresh THEN FreshFor
                                           ELSE StaleFor)
           /\ ~given'.fresh => Refreshing
<1>1. Cached
  BY DEF UsableResult, FreshResult
<1>2. cached \in [at: Moments, of: Moments]
  BY <1>1 DEF HealthInv, ModemHealthTypeOK, Cached
<1>3. /\ healthClock \in Moments /\ cached.at \in Moments
      /\ cached.of \in Moments /\ HealthEnd \in Nat
      /\ FreshFor \in Nat /\ StaleFor \in Nat /\ RefreshTime \in Nat
  BY <1>2 DEF HealthInv, ModemHealthTypeOK, ModemHealthAssumption
<1>4. /\ cached.at <= healthClock /\ cached.of <= cached.at
      /\ cached.at - cached.of <= RefreshTime
  BY <1>1 DEF HealthInv
<1>5. /\ given' = [age |-> healthClock - cached.of, fresh |-> FreshResult]
      /\ given'.age = healthClock - cached.of
      /\ given'.fresh = FreshResult
  BY DEF Give
<1>6. healthClock - cached.of \in Moments /\ FreshResult \in BOOLEAN
  BY <1>3, <1>4 DEF Moments, FreshResult, Cached
<1>7. CASE FreshResult
  <2>1. healthClock - cached.at < FreshFor
    BY <1>7 DEF FreshResult
  <2> QED
    BY <1>3, <1>4, <1>5, <1>6, <1>7, <2>1 DEF Moments
<1>8. CASE ~FreshResult
  <2>1. healthClock - cached.at < StaleFor /\ Refreshing
    BY <1>8 DEF UsableResult
  <2> QED
    BY <1>3, <1>4, <1>5, <1>6, <1>8, <2>1 DEF Moments
<1> QED
  BY <1>7, <1>8

\* Every step keeps the invariant.
LEMMA HealthStep ==
    ASSUME ModemHealthAssumption, HealthInv, [HealthNext]_healthVars
    PROVE  HealthInv'
<1>1. /\ healthClock \in Moments /\ HealthEnd \in Nat
      /\ FreshFor \in Nat /\ StaleFor \in Nat /\ RefreshTime \in Nat
  BY DEF HealthInv, ModemHealthTypeOK, ModemHealthAssumption
<1>2. /\ NoAnswer \in [age: Moments, fresh: BOOLEAN]
      /\ NoAnswer.age <= RefreshTime + FreshFor /\ NoAnswer.fresh
  BY <1>1 DEF NoAnswer, Moments
<1>3. ASSUME NEW c \in Callers, AskHealth(c)
      PROVE  HealthInv'
  <2>1. CASE UsableResult
    <3>1. Give
      BY <1>3, <2>1 DEF AskHealth
    <3> QED
      BY <1>3, <2>1, <3>1, GivenRecent
      DEF AskHealth, HealthInv, ModemHealthTypeOK, AnswersRecent, Cached,
          Refreshing
  <2>2. CASE ~UsableResult
    BY <1>2, <1>3, <2>2
    DEF AskHealth, HealthInv, ModemHealthTypeOK, AnswersRecent, Cached,
        Refreshing
  <2> QED
    BY <2>1, <2>2
<1>4. ASSUME NEW c \in Callers, EnterRefresh(c)
      PROVE  HealthInv'
  <2>1. CASE FreshResult
    <3>1. UsableResult /\ Give
      BY <1>4, <2>1 DEF EnterRefresh, UsableResult
    <3> QED
      BY <1>4, <2>1, <3>1, GivenRecent
      DEF EnterRefresh, HealthInv, ModemHealthTypeOK, AnswersRecent, Cached,
          Refreshing
  <2>2. CASE ~FreshResult
    <3>1. /\ begun' = healthClock /\ refresher' = c /\ given' = NoAnswer
          /\ caller' = [caller EXCEPT ![c] = "refreshing"]
          /\ UNCHANGED <<healthClock, cached, refreshed>>
      BY <1>4, <2>2 DEF EnterRefresh
    <3>2. refresher = NoCaller
      BY <1>4 DEF EnterRefresh, Refreshing
    <3>3. ModemHealthTypeOK'
      BY <1>1, <1>2, <3>1 DEF HealthInv, ModemHealthTypeOK
    <3>4. \A d \in Callers : caller'[d] = "refreshing" => refresher' = d
      BY <3>1, <3>2
      DEF HealthInv, ModemHealthTypeOK, ModemHealthAssumption
    <3>5. /\ begun' \in Moments
          /\ begun' <= healthClock'
          /\ healthClock' - begun' <= RefreshTime
      BY <1>1, <3>1 DEF Moments
    <3>6. AnswersRecent'
      BY <1>2, <3>1 DEF AnswersRecent
    <3>7. /\ refreshed' = cached'.at
          /\ Cached' => /\ cached'.at <= healthClock'
                        /\ cached'.of <= cached'.at
                        /\ cached'.at - cached'.of <= RefreshTime
      BY <3>1 DEF HealthInv, Cached
    <3> QED
      BY <3>3, <3>4, <3>5, <3>6, <3>7 DEF HealthInv
  <2> QED
    BY <2>1, <2>2
<1>5. ASSUME NEW c \in Callers, FinishRefresh(c)
      PROVE  HealthInv'
  <2>1. /\ begun \in Moments /\ begun <= healthClock
        /\ healthClock - begun <= RefreshTime
    BY <1>5 DEF FinishRefresh, HealthInv, Refreshing, ModemHealthAssumption
  <2>2. cached' \in [at: Moments, of: Moments]
    BY <1>1, <1>5, <2>1 DEF FinishRefresh
  <2>3. /\ given' \in [age: Moments, fresh: BOOLEAN]
        /\ given'.age <= RefreshTime + FreshFor /\ given'.fresh
    BY <1>1, <1>5, <2>1 DEF FinishRefresh, Moments
  <2>4. cached'.at = healthClock /\ cached'.of = begun
    BY <1>5 DEF FinishRefresh
  <2>5. ModemHealthTypeOK'
    BY <1>1, <1>5, <2>2, <2>3
    DEF FinishRefresh, HealthInv, ModemHealthTypeOK
  <2>6. \A d \in Callers : caller'[d] # "refreshing"
    BY <1>5, ModemHealthAssumption
    DEF FinishRefresh, HealthInv, ModemHealthTypeOK
  <2>7. /\ refreshed' = cached'.at
        /\ cached'.at <= healthClock'
        /\ cached'.of <= cached'.at
        /\ cached'.at - cached'.of <= RefreshTime
    BY <1>5, <2>1, <2>4, <1>1 DEF FinishRefresh, Moments
  <2>8. ~Refreshing'
    BY <1>5 DEF FinishRefresh, Refreshing
  <2>9. AnswersRecent'
    BY <2>3 DEF AnswersRecent
  <2> QED
    BY <2>5, <2>6, <2>7, <2>8, <2>9 DEF HealthInv
<1>6. ASSUME NEW c \in Callers, GiveUpHealth(c)
      PROVE  HealthInv'
  BY <1>2, <1>6
  DEF GiveUpHealth, HealthInv, ModemHealthTypeOK, AnswersRecent, Cached,
      Refreshing
<1>7. CASE HealthTick
  <2>1. healthClock' \in Moments
    BY <1>1, <1>7 DEF HealthTick, Moments
  <2>2. Cached => cached.at \in Int
    BY DEF HealthInv, ModemHealthTypeOK, Cached, Moments
  <2>3. Refreshing => begun \in Int
    BY DEF HealthInv, Moments
  <2>4. Cached' => cached.at <= healthClock'
    BY <1>1, <1>7, <2>2 DEF HealthTick, HealthInv, Cached, Moments
  <2>5. Refreshing' => /\ begun <= healthClock'
                       /\ healthClock' - begun <= RefreshTime
    BY <1>1, <1>7, <2>3 DEF HealthTick, HealthInv, Refreshing, Moments
  <2> QED
    BY <1>2, <1>7, <2>1, <2>4, <2>5
    DEF HealthTick, HealthInv, ModemHealthTypeOK, AnswersRecent, Cached,
        Refreshing
<1>8. CASE UNCHANGED healthVars
  BY <1>8
  DEF healthVars, HealthInv, ModemHealthTypeOK, AnswersRecent, Cached,
      Refreshing
<1> QED
  BY <1>3, <1>4, <1>5, <1>6, <1>7, <1>8 DEF HealthNext
\* No answer is older than its kind allows, however the requests for it, the
\* refreshes and their ends interleave.
THEOREM HealthAnswersRecent ==
    ASSUME ModemHealthAssumption
    PROVE  HealthSpec => []AnswersRecent
<1>1. HealthInit => HealthInv
  BY HealthInitInv
<1>2. HealthInv /\ [HealthNext]_healthVars => HealthInv'
  BY HealthStep
<1>3. HealthInv => AnswersRecent
  BY DEF HealthInv
<1> QED
  BY <1>1, <1>2, <1>3, PTL DEF HealthSpec

\* Callers that wait behind a refresh never cause another one while its
\* result is fresh.
THEOREM HealthRefreshesSpaced ==
    ASSUME ModemHealthAssumption
    PROVE  HealthSpec => [][RefreshesSpaced]_healthVars
<1>1. HealthInit => HealthInv
  BY HealthInitInv
<1>2. HealthInv /\ [HealthNext]_healthVars => HealthInv'
  BY HealthStep
<1>3. HealthInv /\ [HealthNext]_healthVars => [RefreshesSpaced]_healthVars
  <2> SUFFICES ASSUME HealthInv, HealthNext,
                      NEW c \in Callers, refresher # c, refresher' = c,
                      refreshed # Never
               PROVE  healthClock - refreshed >= FreshFor
    BY DEF healthVars, RefreshesSpaced
  <2>1. c # NoCaller
    BY ModemHealthAssumption DEF ModemHealthAssumption
  <2>2. EnterRefresh(c) /\ ~FreshResult
    BY <2>1 DEF HealthNext, AskHealth, EnterRefresh, FinishRefresh,
                GiveUpHealth, HealthTick
  <2>3. refreshed = cached.at /\ Cached
    BY DEF HealthInv, Cached, NothingCached
  <2>4. ~(healthClock - refreshed < FreshFor)
    BY <2>2, <2>3 DEF FreshResult
  <2>5. healthClock \in Int /\ refreshed \in Int /\ FreshFor \in Int
    BY ModemHealthAssumption
    DEF HealthInv, ModemHealthTypeOK, ModemHealthAssumption, Moments, Never
  <2> QED
    BY <2>4, <2>5
<1> QED
  BY <1>1, <1>2, <1>3, PTL DEF HealthSpec

(***************************************************************************)
(* The actions                                                             *)
(***************************************************************************)
\* A request that acts holds the lock and keeps to mmcli's time; what a
\* session may do next is counted from its last entry in the limits, which
\* no reset of it came long after.
LockHeld ==
    \A r \in Requests : request[r] # NoAction =>
      /\ actionLock = r
      /\ request[r].since <= actionClock
      /\ actionClock - request[r].since <= MmcliTime

EntryMade ==
    \A r \in Requests : request[r].at = "detecting" /\ request[r].reset =>
      /\ limits[request[r].by] = request[r].since
      /\ \A s \in resets[request[r].by] :
           request[r].since - s >= ResetLimit - MmcliTime

EntriesCover ==
    \A o \in Operators :
      /\ limits[o] <= actionClock
      /\ \A s \in resets[o] : /\ limits[o] # Beforehand
                              /\ s - limits[o] <= MmcliTime
                              /\ s <= actionClock

ActionsInv ==
    /\ ModemActionsTypeOK
    /\ LockHeld
    /\ EntryMade
    /\ EntriesCover
    /\ ResetsSpaced

\* Nothing is asked for.
LEMMA ActionsInitInv ==
    ASSUME ModemActionsAssumption, ActionsInit
    PROVE  ActionsInv
BY DEF ModemActionsAssumption, ActionsInit, ActionsInv, ModemActionsTypeOK,
       LockHeld, EntryMade, EntriesCover, ResetsSpaced, NoAction, ActionTimes,
       Beforehand

\* A request that ends leaves the lock and the entries as they should be.
LEMMA ActionEnds ==
    ASSUME ModemActionsAssumption, ActionsInv, NEW r \in Requests,
           request[r].at \in {"detecting", "running"},
           request' = [request EXCEPT ![r] = NoAction],
           actionLock' = ReleaseLock(r),
           UNCHANGED <<actionClock, actionPath, toolKnown, limits, resets>>
    PROVE  ActionsInv'
<1>1. request[r] # NoAction /\ actionLock = r
  BY DEF ActionsInv, LockHeld, NoAction
<1>2. \A q \in Requests : request'[q] = NoAction
  BY <1>1 DEF ActionsInv, ModemActionsTypeOK, LockHeld
<1>3. ModemActionsTypeOK'
  BY DEF ActionsInv, ModemActionsTypeOK, ReleaseLock
<1>4. LockHeld'
  BY <1>2 DEF LockHeld
<1>5. EntryMade'
  BY <1>2 DEF EntryMade, NoAction
<1>6. EntriesCover' /\ ResetsSpaced'
  BY DEF ActionsInv, EntriesCover, ResetsSpaced
<1> QED
  BY <1>3, <1>4, <1>5, <1>6 DEF ActionsInv

\* Taking the lock enters the reset where the limit allows it.
LEMMA BeginKeeps ==
    ASSUME ModemActionsAssumption, ActionsInv, NEW r \in Requests,
           NEW o \in Operators, NEW reset \in BOOLEAN,
           BeginAction(r, o, reset)
    PROVE  ActionsInv'
<1> DEFINE started == [at |-> "detecting", by |-> o, reset |-> reset,
                       path |-> actionPath, since |-> actionClock]
<1>1. /\ ActionEnd \in Nat /\ ResetLimit \in Nat /\ MmcliTime \in Nat
      /\ actionClock \in ActionTimes
      /\ \A p \in Operators : limits[p] \in ActionTimes \cup {Beforehand}
      /\ \A p \in Operators : resets[p] \subseteq ActionTimes
  BY DEF ModemActionsAssumption, ActionsInv, ModemActionsTypeOK
<1>2. \A q \in Requests : request[q] = NoAction
  BY DEF BeginAction, ActionsInv, LockHeld, ModemActionsAssumption
<1>3. /\ request' = [request EXCEPT ![r] = started]
      /\ actionLock' = r
      /\ UNCHANGED <<actionClock, actionPath, toolKnown, resets>>
  BY DEF BeginAction
<1>4. /\ request'[r] = started
      /\ \A q \in Requests : q # r => request'[q] = NoAction
  BY <1>2, <1>3 DEF ActionsInv, ModemActionsTypeOK
<1>5. started \in ActionRecords
  BY <1>1 DEF ActionRecords, BeginAction, ActionsInv, ModemActionsTypeOK
<1>6. limits' = IF reset THEN [limits EXCEPT ![o] = actionClock] ELSE limits
  BY DEF BeginAction, NoteReset
<1>7. ModemActionsTypeOK'
  BY <1>1, <1>3, <1>5, <1>6 DEF ActionsInv, ModemActionsTypeOK
<1>8. LockHeld'
  BY <1>1, <1>3, <1>4 DEF LockHeld, ActionTimes
<1>9. EntryMade'
  <2> SUFFICES ASSUME NEW q \in Requests, request'[q].at = "detecting",
                      request'[q].reset
               PROVE  /\ limits'[request'[q].by] = request'[q].since
                      /\ \A s \in resets'[request'[q].by] :
                           request'[q].since - s >= ResetLimit - MmcliTime
    BY DEF EntryMade
  <2>1. q = r /\ reset
    BY <1>4 DEF NoAction
  <2>2. request'[q].by = o /\ request'[q].since = actionClock
    BY <1>4, <2>1
  <2>3. limits'[o] = actionClock /\ resets' = resets
    BY <1>3, <1>6, <2>1 DEF ActionsInv, ModemActionsTypeOK
  <2>4. ASSUME NEW s \in resets[o]
        PROVE  actionClock - s >= ResetLimit - MmcliTime
    <3>1. limits[o] # Beforehand /\ s - limits[o] <= MmcliTime
      BY DEF ActionsInv, EntriesCover
    <3>2. actionClock - limits[o] >= ResetLimit
      BY <2>1, <3>1 DEF BeginAction, MayReset
    <3>3. /\ s \in Int /\ limits[o] \in Int /\ actionClock \in Int
          /\ ResetLimit \in Int /\ MmcliTime \in Int
      BY <1>1 DEF ActionTimes, Beforehand
    <3> QED
      BY <3>1, <3>2, <3>3
  <2> QED
    BY <2>2, <2>3, <2>4
<1>10. EntriesCover'
  <2> SUFFICES ASSUME NEW p \in Operators
               PROVE  /\ limits'[p] <= actionClock
                      /\ \A s \in resets[p] : /\ limits'[p] # Beforehand
                                              /\ s - limits'[p] <= MmcliTime
                                              /\ s <= actionClock
    BY <1>3 DEF EntriesCover
  <2>1. /\ limits[p] <= actionClock
        /\ \A s \in resets[p] : /\ limits[p] # Beforehand
                                /\ s - limits[p] <= MmcliTime
                                /\ s <= actionClock
    BY DEF ActionsInv, EntriesCover
  <2>2. CASE limits'[p] = limits[p]
    BY <2>1, <2>2
  <2>3. CASE limits'[p] # limits[p]
    <3>1. limits'[p] = actionClock
      BY <1>6, <2>3 DEF ActionsInv, ModemActionsTypeOK
    <3>2. /\ actionClock \in Nat /\ MmcliTime \in Nat
          /\ \A s \in resets[p] : s \in Int
      BY <1>1 DEF ActionTimes
    <3> QED
      BY <2>1, <3>1, <3>2 DEF Beforehand
  <2> QED
    BY <2>2, <2>3
<1>11. ResetsSpaced'
  BY <1>3 DEF ActionsInv, ResetsSpaced
<1> QED
  BY <1>7, <1>8, <1>9, <1>10, <1>11 DEF ActionsInv

\* A command starts within mmcli's time of its entry in the limits.
LEMMA StartKeeps ==
    ASSUME ModemActionsAssumption, ActionsInv, NEW r \in Requests,
           StartCommand(r)
    PROVE  ActionsInv'
<1> DEFINE o == request[r].by
<1>1. /\ ActionEnd \in Nat /\ ResetLimit \in Nat /\ MmcliTime \in Nat
      /\ actionClock \in ActionTimes
      /\ \A p \in Operators : limits[p] \in ActionTimes \cup {Beforehand}
      /\ \A p \in Operators : resets[p] \subseteq ActionTimes
  BY DEF ModemActionsAssumption, ActionsInv, ModemActionsTypeOK
<1>2. /\ request[r].at = "detecting" /\ request[r] # NoAction
      /\ actionLock = r
  BY DEF StartCommand, NoAction, ActionsInv, LockHeld
<1>3. request[r] \in ActionRecords
  BY <1>2 DEF ActionsInv, ModemActionsTypeOK
<1>4. o \in Operators /\ request[r].since \in ActionTimes
  BY <1>3 DEF ActionRecords
<1>5. /\ request'[r].at = "running" /\ request'[r].since = actionClock
      /\ request'[r] \in ActionRecords
      /\ \A q \in Requests : q # r => request'[q] = request[q]
  BY <1>1, <1>3 DEF StartCommand, ActionsInv, ModemActionsTypeOK,
                    ActionRecords
<1>6. \A q \in Requests : q # r => request[q] = NoAction
  BY <1>2 DEF ActionsInv, LockHeld
<1>7. UNCHANGED <<actionClock, actionPath, actionLock, limits>>
  BY DEF StartCommand
<1>8. /\ resets' = IF request[r].reset
                   THEN [resets EXCEPT ![o] = @ \cup {actionClock}]
                   ELSE resets
      /\ toolKnown' = TRUE
  BY DEF StartCommand
<1>9. \A p \in Operators : \A s \in resets'[p] :
        s \in resets[p] \/ (p = o /\ request[r].reset /\ s = actionClock)
  BY <1>4, <1>8 DEF ActionsInv, ModemActionsTypeOK
<1>10. ModemActionsTypeOK'
  <2>1. request' \in [Requests -> ActionRecords \cup {NoAction}]
    BY <1>1, <1>3 DEF StartCommand, ActionsInv, ModemActionsTypeOK,
                      ActionRecords
  <2>2. resets' \in [Operators -> SUBSET ActionTimes]
    BY <1>1, <1>4, <1>8 DEF ActionsInv, ModemActionsTypeOK
  <2> QED
    BY <1>7, <1>8, <2>1, <2>2 DEF ActionsInv, ModemActionsTypeOK
<1>11. LockHeld'
  <2>1. actionClock \in Int /\ actionClock - actionClock <= MmcliTime
        /\ actionClock <= actionClock
    BY <1>1 DEF ActionTimes
  <2> QED
    BY <1>2, <1>5, <1>6, <1>7, <2>1 DEF LockHeld
<1>12. EntryMade'
  BY <1>5, <1>6 DEF EntryMade, NoAction
<1>13. request[r].reset =>
         /\ limits[o] = request[r].since
         /\ \A s \in resets[o] :
              request[r].since - s >= ResetLimit - MmcliTime
  BY <1>2 DEF ActionsInv, EntryMade
<1>14. /\ request[r].since <= actionClock
       /\ actionClock - request[r].since <= MmcliTime
  BY <1>2 DEF ActionsInv, LockHeld
<1>15. EntriesCover'
  <2> SUFFICES ASSUME NEW p \in Operators
               PROVE  /\ limits[p] <= actionClock
                      /\ \A s \in resets'[p] : /\ limits[p] # Beforehand
                                               /\ s - limits[p] <= MmcliTime
                                               /\ s <= actionClock
    BY <1>7 DEF EntriesCover
  <2>1. /\ limits[p] <= actionClock
        /\ \A s \in resets[p] : /\ limits[p] # Beforehand
                                /\ s - limits[p] <= MmcliTime
                                /\ s <= actionClock
    BY DEF ActionsInv, EntriesCover
  <2>2. ASSUME p = o, request[r].reset
        PROVE  /\ limits[p] # Beforehand
               /\ actionClock - limits[p] <= MmcliTime
               /\ actionClock <= actionClock
    BY <1>1, <1>4, <1>13, <1>14, <2>2 DEF ActionTimes, Beforehand
  <2> QED
    BY <1>9, <2>1, <2>2
<1>16. ResetsSpaced'
  <2> SUFFICES ASSUME NEW p \in Operators, NEW s \in resets'[p],
                      NEW t \in resets'[p], s < t
               PROVE  t - s >= ResetLimit - MmcliTime
    BY DEF ResetsSpaced
  <2>1. CASE s \in resets[p] /\ t \in resets[p]
    BY <2>1 DEF ActionsInv, ResetsSpaced
  <2>2. CASE t \notin resets[p] /\ s \in resets[p]
    <3>1. p = o /\ request[r].reset /\ t = actionClock
      BY <1>9, <2>2
    <3>2. request[r].since - s >= ResetLimit - MmcliTime
      BY <1>13, <2>2, <3>1
    <3>3. s \in Int /\ actionClock \in Int /\ request[r].since \in Int
          /\ ResetLimit \in Int /\ MmcliTime \in Int
      BY <1>1, <1>4, <2>2 DEF ActionTimes
    <3> QED
      BY <1>14, <3>1, <3>2, <3>3
  <2>3. CASE s \notin resets[p]
    <3>1. s = actionClock
      BY <1>9, <2>3
    <3>2. t <= actionClock
      BY <1>9, <1>1 DEF ActionsInv, EntriesCover, ActionTimes
    <3>3. t \in Int /\ s \in Int /\ actionClock \in Int
      BY <1>1, <1>9 DEF ActionTimes
    <3> QED
      BY <3>1, <3>2, <3>3
  <2> QED
    BY <2>1, <2>2, <2>3
<1> QED
  BY <1>10, <1>11, <1>12, <1>15, <1>16 DEF ActionsInv

\* Time passes for no command longer than mmcli may take.
LEMMA ActionTickKeeps ==
    ASSUME ModemActionsAssumption, ActionsInv, ActionTick
    PROVE  ActionsInv'
<1>1. /\ actionClock \in Int /\ MmcliTime \in Int /\ ActionEnd \in Int
      /\ \A p \in Operators : limits[p] \in Int
      /\ \A p \in Operators : resets[p] \subseteq Int
      /\ \A q \in Requests : request[q] # NoAction => request[q].since \in Int
  BY DEF ModemActionsAssumption, ActionsInv, ModemActionsTypeOK,
         ActionTimes, Beforehand, ActionRecords
<1>2. /\ actionClock' = actionClock + 1 /\ actionClock < ActionEnd
      /\ UNCHANGED <<actionPath, toolKnown, request, actionLock, limits,
                     resets>>
  BY DEF ActionTick
<1>3. ModemActionsTypeOK'
  BY <1>1, <1>2 DEF ActionsInv, ModemActionsTypeOK, ActionTimes
<1>4. LockHeld'
  <2> SUFFICES ASSUME NEW q \in Requests, request[q] # NoAction
               PROVE  /\ actionLock = q
                      /\ request[q].since <= actionClock'
                      /\ actionClock' - request[q].since <= MmcliTime
    BY <1>2, Zenon DEF LockHeld
  <2>1. actionClock - request[q].since < MmcliTime
    BY DEF ActionTick
  <2>2. actionLock = q /\ request[q].since <= actionClock
    BY DEF ActionsInv, LockHeld
  <2> QED
    BY <1>1, <1>2, <2>1, <2>2
<1>5. EntryMade' /\ ResetsSpaced'
  BY <1>2 DEF ActionsInv, EntryMade, ResetsSpaced
<1>6. EntriesCover'
  <2> SUFFICES ASSUME NEW p \in Operators
               PROVE  /\ limits[p] <= actionClock + 1
                      /\ \A s \in resets[p] : /\ limits[p] # Beforehand
                                              /\ s - limits[p] <= MmcliTime
                                              /\ s <= actionClock + 1
    BY <1>2 DEF EntriesCover
  <2>1. /\ limits[p] <= actionClock
        /\ \A s \in resets[p] : /\ limits[p] # Beforehand
                                /\ s - limits[p] <= MmcliTime
                                /\ s <= actionClock
    BY DEF ActionsInv, EntriesCover
  <2> QED
    BY <1>1, <2>1
<1> QED
  BY <1>3, <1>4, <1>5, <1>6 DEF ActionsInv

\* Every step keeps the invariant.
LEMMA ActionsStep ==
    ASSUME ModemActionsAssumption, ActionsInv, [ActionsNext]_actionVars
    PROVE  ActionsInv'
<1>1. ASSUME NEW r \in Requests, ToolMissing(r)
      PROVE  ActionsInv'
  BY <1>1, ActionEnds DEF ToolMissing
<1>2. ASSUME NEW r \in Requests, EndAction(r)
      PROVE  ActionsInv'
  BY <1>2, ActionEnds DEF EndAction
<1>3. ASSUME NEW p \in ActionPaths \cup {NoActionPath}, PublishTarget(p)
      PROVE  ActionsInv'
  BY <1>3 DEF PublishTarget, ActionsInv, ModemActionsTypeOK, LockHeld,
              EntryMade, EntriesCover, ResetsSpaced
<1>4. CASE UNCHANGED actionVars
  BY <1>4 DEF actionVars, ActionsInv, ModemActionsTypeOK, LockHeld,
              EntryMade, EntriesCover, ResetsSpaced
<1> QED
  BY <1>1, <1>2, <1>3, <1>4, BeginKeeps, StartKeeps, ActionTickKeeps
  DEF ActionsNext

\* Two commands for the modem never run at the same time, whatever the
\* requests, their ends and what the search for mmcli finds.
THEOREM ActionsOneCommand ==
    ASSUME ModemActionsAssumption
    PROVE  ActionsSpec => []OneCommand
<1>1. ActionsInit => ActionsInv
  BY ActionsInitInv
<1>2. ActionsInv /\ [ActionsNext]_actionVars => ActionsInv'
  BY ActionsStep
<1>3. ActionsInv => OneCommand
  <2> SUFFICES ASSUME ActionsInv
               PROVE  OneCommand
    OBVIOUS
  <2> DEFINE running == {r \in Requests : request[r].at = "running"}
  <2>1. \A r \in running : actionLock = r
    BY DEF ActionsInv, LockHeld, NoAction
  <2>2. running = {} \/ running = {actionLock}
    BY <2>1
  <2> HIDE DEF running
  <2>3. Cardinality(running) = 0 \/ Cardinality(running) = 1
    BY <2>2, FS_EmptySet, FS_Singleton
  <2> QED
    BY <2>3 DEF OneCommand, running
<1> QED
  BY <1>1, <1>2, <1>3, PTL DEF ActionsSpec

\* The resets one session causes are as far apart as the limit promises,
\* less the time the search for mmcli may take.
THEOREM ActionsResetsSpaced ==
    ASSUME ModemActionsAssumption
    PROVE  ActionsSpec => []ResetsSpaced
<1>1. ActionsInit => ActionsInv
  BY ActionsInitInv
<1>2. ActionsInv /\ [ActionsNext]_actionVars => ActionsInv'
  BY ActionsStep
<1>3. ActionsInv => ResetsSpaced
  BY DEF ActionsInv
<1> QED
  BY <1>1, <1>2, <1>3, PTL DEF ActionsSpec
(***************************************************************************)
(* The shared D-Bus connection                                             *)
(***************************************************************************)
\* A call under way is on a connection that was opened, and the one in the
\* cache is none that was given up.
Calls == [op : Operations, at : {"rest", "calling", "failed"}, conn : Nat,
          got : Outcomes, transmits : BOOLEAN]

SenderInv ==
    /\ opened \in Nat /\ cache \in 0..opened
    /\ condemned \subseteq 1..opened
    /\ call \in [Senders -> Calls]
    /\ \A s \in Senders : call[s].at # "rest" => call[s].conn \in 1..opened
    /\ RefusedIsNotTransmitted
    /\ CondemnedIsGone

\* Nothing is open.
LEMMA SenderInitInv ==
    ASSUME DbusSenderInit
    PROVE  SenderInv
BY DEF DbusSenderInit, SenderInv, Calls, NoCall, Operations, Outcomes,
       RefusedIsNotTransmitted, CondemnedIsGone

\* An answer keeps the invariant unless it calls a transmission refused.
LEMMA AnswerKeeps ==
    ASSUME SenderInv, NEW s \in Senders, call[s].at = "calling",
           NEW got \in Outcomes, NEW transmits \in BOOLEAN,
           NEW next \in {"rest", "failed"},
           Ends(s, got, transmits, next),
           got \in {"rejected", "not_attempted"} => ~transmits
    PROVE  SenderInv'
<1>1. /\ call' = [call EXCEPT ![s].got = got, ![s].transmits = transmits,
                              ![s].at = next]
      /\ UNCHANGED <<cache, opened, alive, condemned, drops>>
  BY DEF Ends
<1>2. call[s] \in Calls /\ call[s].conn \in 1..opened
  BY DEF SenderInv
<1>3. /\ call'[s].got = got /\ call'[s].transmits = transmits
      /\ call'[s].at = next /\ call'[s].conn = call[s].conn
      /\ call'[s] \in Calls
      /\ \A t \in Senders : t # s => call'[t] = call[t]
  BY <1>1, <1>2 DEF SenderInv, Calls
<1>4. call' \in [Senders -> Calls]
  BY <1>1, <1>3 DEF SenderInv
<1>5. \A t \in Senders : call'[t].at # "rest" => call'[t].conn \in 1..opened
  BY <1>2, <1>3 DEF SenderInv
<1>6. RefusedIsNotTransmitted'
  BY <1>3 DEF SenderInv, RefusedIsNotTransmitted
<1> QED
  BY <1>1, <1>4, <1>5, <1>6 DEF SenderInv, CondemnedIsGone

\* Every step keeps the invariant.
LEMMA SenderStep ==
    ASSUME SenderInv, [DbusSenderNext]_senderVars
    PROVE  SenderInv'
<1>1. ASSUME NEW s \in Senders, GetOrConnect(s)
      PROVE  SenderInv'
  <2>1. PICK op \in Operations :
          \/ /\ cache # 0
             /\ call' = [call EXCEPT ![s] = [NoCall EXCEPT !.op = op,
                                             !.at = "calling", !.conn = cache]]
             /\ UNCHANGED <<cache, opened, alive>>
          \/ /\ cache = 0
             /\ opened' = opened + 1
             /\ cache' = opened + 1
             /\ call' = [call EXCEPT ![s] = [NoCall EXCEPT !.op = op,
                                             !.at = "calling",
                                             !.conn = opened + 1]]
          \/ /\ cache = 0
             /\ call' = [call EXCEPT ![s] =
                            [NoCall EXCEPT !.op = op,
                             !.got = IF op = "send" THEN "not_attempted"
                                     ELSE "error"]]
             /\ UNCHANGED <<cache, opened, alive>>
    BY <1>1, Zenon DEF GetOrConnect
  <2>2. condemned' = condemned
    BY <1>1 DEF GetOrConnect
  <2>3. CASE /\ cache # 0
             /\ call' = [call EXCEPT ![s] = [NoCall EXCEPT !.op = op,
                                             !.at = "calling", !.conn = cache]]
             /\ UNCHANGED <<cache, opened, alive>>
    <3>1. cache \in 1..opened /\ cache \in Nat
      BY <2>3 DEF SenderInv
    <3>2. /\ call'[s].got = "none" /\ call'[s].conn = cache
          /\ call'[s].transmits = FALSE /\ call'[s] \in Calls
          /\ \A t \in Senders : t # s => call'[t] = call[t]
      BY <2>3, <3>1 DEF SenderInv, NoCall, Calls, Outcomes
    <3>3. call' \in [Senders -> Calls]
      BY <2>3, <3>2 DEF SenderInv
    <3>4. \A t \in Senders :
            call'[t].at # "rest" => call'[t].conn \in 1..opened
      BY <3>1, <3>2 DEF SenderInv
    <3>5. RefusedIsNotTransmitted'
      BY <3>2 DEF SenderInv, RefusedIsNotTransmitted
    <3> QED
      BY <2>2, <2>3, <3>3, <3>4, <3>5 DEF SenderInv, CondemnedIsGone
  <2>4. CASE /\ cache = 0
             /\ opened' = opened + 1
             /\ cache' = opened + 1
             /\ call' = [call EXCEPT ![s] = [NoCall EXCEPT !.op = op,
                                             !.at = "calling",
                                             !.conn = opened + 1]]
    <3>1. opened + 1 \in 1..opened' /\ opened' \in Nat
      BY <2>4 DEF SenderInv
    <3>2. /\ call'[s].got = "none" /\ call'[s].conn = opened + 1
          /\ call'[s].transmits = FALSE /\ call'[s] \in Calls
          /\ \A t \in Senders : t # s => call'[t] = call[t]
      BY <2>4, <3>1 DEF SenderInv, NoCall, Calls, Outcomes
    <3>3. call' \in [Senders -> Calls]
      BY <2>4, <3>2 DEF SenderInv
    <3>4. \A t \in Senders :
            call'[t].at # "rest" => call'[t].conn \in 1..opened'
      BY <2>4, <3>1, <3>2 DEF SenderInv
    <3>5. RefusedIsNotTransmitted'
      BY <3>2 DEF SenderInv, RefusedIsNotTransmitted
    <3>6. condemned' \subseteq 1..opened' /\ cache' \notin condemned'
      BY <2>2, <2>4 DEF SenderInv
    <3> QED
      BY <2>4, <3>1, <3>3, <3>4, <3>5, <3>6 DEF SenderInv, CondemnedIsGone
  <2>5. CASE /\ cache = 0
             /\ call' = [call EXCEPT ![s] =
                            [NoCall EXCEPT !.op = op,
                             !.got = IF op = "send" THEN "not_attempted"
                                     ELSE "error"]]
             /\ UNCHANGED <<cache, opened, alive>>
    BY <2>2, <2>5
    DEF SenderInv, Calls, NoCall, Outcomes, RefusedIsNotTransmitted,
        CondemnedIsGone
  <2> QED
    BY <2>1, <2>3, <2>4, <2>5
<1>2. ASSUME NEW s \in Senders, Discard(s)
      PROVE  SenderInv'
  <2>1. call[s].conn \in 1..opened
    BY <1>2 DEF Discard, SenderInv
  <2>2. CondemnedIsGone'
    BY <1>2, <2>1
    DEF Discard, DiscardIfCurrent, SenderInv, CondemnedIsGone
  <2>3. call' \in [Senders -> Calls]
    BY <1>2 DEF Discard, SenderInv, Calls
  <2>4. RefusedIsNotTransmitted'
    BY <1>2 DEF Discard, SenderInv, Calls, RefusedIsNotTransmitted
  <2>5. \A t \in Senders : call'[t].at # "rest" => call'[t].conn \in 1..opened
    BY <1>2, <2>1 DEF Discard, SenderInv, Calls
  <2> QED
    BY <1>2, <2>1, <2>2, <2>3, <2>4, <2>5
    DEF Discard, DiscardIfCurrent, SenderInv
<1>3. ASSUME NEW s \in Senders, SendPrepared(s)
      PROVE  SenderInv'
  <2>1. call[s].at = "calling"
    BY <1>3 DEF SendPrepared
  <2>2. CASE Ends(s, "accepted", TRUE, AfterSend("accepted"))
    BY <2>1, <2>2, AnswerKeeps
    DEF AfterSend, ShouldDiscardSendConnection, Outcomes
  <2>3. ASSUME NEW error \in Refusals,
               Ends(s, ClassifySendError(error), FALSE,
                    AfterSend(ClassifySendError(error)))
        PROVE  SenderInv'
    <3>1. ClassifySendError(error) = "rejected"
      BY DEF ClassifySendError, IsExplicitSendRejection
    <3>2. AfterSend("rejected") = "rest"
      BY DEF AfterSend, ShouldDiscardSendConnection
    <3> QED
      BY <2>1, <2>3, <3>1, <3>2, AnswerKeeps DEF Outcomes
  <2>4. ASSUME NEW error \in Silences, NEW transmits \in BOOLEAN,
               Ends(s, ClassifySendError(error), transmits,
                    AfterSend(ClassifySendError(error)))
        PROVE  SenderInv'
    <3>1. ClassifySendError(error) = "unknown"
      BY DEF ClassifySendError, IsExplicitSendRejection, Silences, Refusals
    <3>2. AfterSend("unknown") = "failed"
      BY DEF AfterSend, ShouldDiscardSendConnection
    <3> QED
      BY <2>1, <2>4, <3>1, <3>2, AnswerKeeps DEF Outcomes
  <2>5. ASSUME NEW transmits \in BOOLEAN,
               Ends(s, "unknown", transmits, AfterSend("unknown"))
        PROVE  SenderInv'
    BY <2>1, <2>5, AnswerKeeps
    DEF AfterSend, ShouldDiscardSendConnection, Outcomes
  <2> QED
    BY <1>3, <2>2, <2>3, <2>4, <2>5 DEF SendPrepared
<1>4. ASSUME NEW s \in Senders, Prepare(s)
      PROVE  SenderInv'
  BY <1>4, AnswerKeeps DEF Prepare, Outcomes
<1>5. ASSUME NEW s \in Senders, SmsSnapshot(s)
      PROVE  SenderInv'
  BY <1>5, AnswerKeeps DEF SmsSnapshot, Outcomes
<1>6. ASSUME NEW s \in Senders, SmsState(s)
      PROVE  SenderInv'
  BY <1>6, AnswerKeeps DEF SmsState, Outcomes
<1>7. CASE DropConnections
  BY <1>7 DEF DropConnections, SenderInv, RefusedIsNotTransmitted,
              CondemnedIsGone
<1>8. CASE UNCHANGED senderVars
  BY <1>8 DEF senderVars, SenderInv, RefusedIsNotTransmitted,
              CondemnedIsGone
<1> QED
  BY <1>1, <1>2, <1>3, <1>4, <1>5, <1>6, <1>7, <1>8 DEF DbusSenderNext

\* No answer to a Send calls a message refused that may have gone out,
\* whichever connection fails under whichever caller.
THEOREM SendersNeverLie == DbusSenderSpec => []RefusedIsNotTransmitted
<1>1. SenderInv => RefusedIsNotTransmitted
  BY DEF SenderInv
<1> QED
  BY <1>1, SenderInitInv, SenderStep, PTL DEF DbusSenderSpec

\* A connection that some caller gave up on is handed out to nobody.
THEOREM CondemnedStaysGone == DbusSenderSpec => []CondemnedIsGone
<1>1. SenderInv => CondemnedIsGone
  BY DEF SenderInv
<1> QED
  BY <1>1, SenderInitInv, SenderStep, PTL DEF DbusSenderSpec

\* No caller throws away the connection of another one.
THEOREM SendersDiscardTheirOwn ==
    DbusSenderSpec => [][DiscardsItsOwn]_senderVars
<1>1. SenderInv /\ [DbusSenderNext]_senderVars => [DiscardsItsOwn]_senderVars
  <2> SUFFICES ASSUME SenderInv, DbusSenderNext, cache # 0, cache' = 0
               PROVE  \E s \in Senders : call[s].at = "failed"
                                         /\ call[s].conn = cache
                                         /\ call'[s].at = "rest"
    BY DEF senderVars, DiscardsItsOwn
  <2>1. PICK s \in Senders : Discard(s)
    BY DEF DbusSenderNext, DropConnections, GetOrConnect, SendPrepared,
           Prepare, SmsSnapshot, SmsState, Ends
  <2>2. call[s].at = "failed" /\ call[s].conn = cache
    BY <2>1 DEF Discard, DiscardIfCurrent
  <2>3. call'[s].at = "rest"
    BY <2>1 DEF Discard, SenderInv, Calls
  <2> QED
    BY <2>2, <2>3
<1> QED
  BY <1>1, SenderInitInv, SenderStep, PTL DEF DbusSenderSpec

\* The cache bounds both the age of answers and the load on the modem
\* (public_health).
THEOREM HealthAlwaysRecent ==
    ASSUME ModemHealthAssumption
    PROVE  HealthSpec => HealthIsRecent
<1>1. HealthSpec => []AnswersRecent
  BY HealthAnswersRecent
<1>2. HealthSpec => [][RefreshesSpaced]_healthVars
  BY HealthRefreshesSpaced
<1> QED
  BY <1>1, <1>2, PTL DEF HealthIsRecent

\* Commands go one after the other, resets at their distance (run_action,
\* can_reset).
THEOREM CommandsAlwaysTakeTurns ==
    ASSUME ModemActionsAssumption
    PROVE  ActionsSpec => []CommandsTakeTurns
<1>1. ActionsSpec => []OneCommand
  BY ActionsOneCommand
<1>2. ActionsSpec => []ResetsSpaced
  BY ActionsResetsSpaced
<1> QED
  BY <1>1, <1>2, PTL DEF CommandsTakeTurns

\* Callers may trust the answer about their message and the connection they
\* share (send_prepared_sms, discard_if_current).
THEOREM SendersAreHonest == DbusSenderSpec => SenderIsHonest
BY SendersNeverLie, CondemnedStaysGone, SendersDiscardTheirOwn, PTL
DEF SenderIsHonest

(***************************************************************************)
(* The IMS probe                                                           *)
(***************************************************************************)
ImsRecord == [status: ImsStatuses, voice: VoiceStatuses,
              registration: Registrations, smsService: Services,
              voiceService: Services, technology: Technologies,
              settings: Settings, imsa: BOOLEAN,
              reasons: SUBSET Complaints, warnings: SUBSET Complaints]

\* The services of r that are unknown are named in a set.
ServicesNamed(r, told) ==
    /\ r.smsService = "unknown" => told \cap {"sms", "services"} # {}
    /\ r.voiceService = "unknown" => told \cap {"voice", "services"} # {}

\* While the probe goes on, a part that was asked for and stayed unknown is
\* named among the blockers, the settings among the warnings.
ImsInv ==
    /\ ims \in ImsRecord /\ blockers \subseteq Complaints
    /\ imsCall \in ImsCalls /\ spent \in BOOLEAN
    /\ imsCall \in {"registration", "settings", "classify"} =>
         ServicesNamed(ims, blockers)
    /\ imsCall \in {"settings", "classify"} /\ ims.registration = "unknown" =>
         "registration" \in blockers
    /\ imsCall = "classify" /\ ims.settings = "unknown" =>
         "settings" \in ims.warnings
    /\ GapsAreTold

\* What the end of the probe makes of a record r.
LEMMA ConcludedTells ==
    ASSUME NEW r \in ImsRecord, blockers \subseteq Complaints,
           NEW q, q = Concluded(r)
    PROVE  /\ q \in ImsRecord
           /\ blockers \cup r.warnings \subseteq q.reasons \cup q.warnings
           /\ q.registration = r.registration /\ q.smsService = r.smsService
           /\ q.voiceService = r.voiceService /\ q.settings = r.settings
           /\ q.status = "unknown" =>
                q.registration = "unknown" \/ q.smsService = "unknown"
           /\ q.voice = "unknown" =>
                \/ q.registration = "unknown" \/ q.voiceService = "unknown"
                \/ /\ q.registration = "registered"
                   /\ q.voiceService = "available" /\ q.technology = "unknown"
           /\ q.status = "unknown" /\ q.voice = "unknown" => q.reasons = blockers
<1>1. PICK status, voice :
        /\ status = ServiceStatus(r.registration, r.smsService, "available")
        /\ voice = ServiceStatus(r.registration, r.voiceService,
                                 VoiceOf(r.technology))
  OBVIOUS
<1>2. status \in ImsStatuses /\ voice \in VoiceStatuses
  BY <1>1 DEF ServiceStatus, VoiceOf, ImsStatuses, VoiceStatuses, ImsRecord,
              Registrations, Technologies
<1>3. status = "unknown" => r.registration = "unknown" \/ r.smsService = "unknown"
  BY <1>1 DEF ServiceStatus, ImsRecord, Registrations, Services
<1>4. voice = "unknown" =>
        \/ r.registration = "unknown" \/ r.voiceService = "unknown"
        \/ /\ r.registration = "registered" /\ r.voiceService = "available"
           /\ r.technology = "unknown"
  BY <1>1 DEF ServiceStatus, VoiceOf, ImsRecord, Registrations, Services,
              Technologies
<1>5. CASE status = "unknown" /\ voice = "unknown"
  <2>1. q = [r EXCEPT !.status = status, !.voice = voice, !.reasons = blockers]
    BY <1>1, <1>5 DEF Concluded
  <2> QED BY <1>2, <1>3, <1>4, <1>5, <2>1 DEF ImsRecord
<1>6. CASE ~(status = "unknown" /\ voice = "unknown")
  <2>1. q = [r EXCEPT !.status = status, !.voice = voice,
                      !.warnings = @ \cup blockers]
    BY <1>1, <1>6 DEF Concluded
  <2> QED BY <1>2, <1>3, <1>4, <1>6, <2>1 DEF ImsRecord
<1> QED BY <1>5, <1>6

\* Every answer and every failure keeps the invariant.
LEMMA ImsStep ==
    ASSUME ImsInv, [ImsNext]_imsVars
    PROVE  ImsInv'
<1> USE DEF ImsInv, GapsAreTold, UnknownIsExplained, GapsAreNamed, AskedServices,
            Told, ImsRecord, ImsCalls, ServicesNamed
<1>1. CASE AskIms
  BY <1>1 DEF AskIms, NoIms, ImsStatuses, VoiceStatuses, Registrations, Services,
              Technologies, Settings, Complaints
<1>2. CASE SelectPort
  BY <1>2 DEF SelectPort, Complaints
<1>3. CASE AskVersions
  <2>1. CASE ims' = [ims EXCEPT !.reasons = {"versions"}] /\ imsCall' = "done"
    <3>1. ims' \in ImsRecord /\ ims'.reasons = {"versions"}
      BY <2>1 DEF Complaints
    <3>2. imsCall' = "done" /\ blockers' = blockers /\ spent' \in BOOLEAN
      BY <1>3, <2>1 DEF AskVersions, Answered, Failed
    <3> QED BY <1>3, <3>1, <3>2 DEF AskVersions
  <2>2. ASSUME NEW there \in BOOLEAN, ims' = [ims EXCEPT !.imsa = there],
               imsCall' = "nas"
        PROVE  ImsInv'
    <3>1. ims' \in ImsRecord
      BY <2>2
    <3>2. blockers' = blockers /\ spent' \in BOOLEAN
      BY <1>3 DEF AskVersions, Answered, Failed
    <3> QED BY <1>3, <2>2, <3>1, <3>2 DEF AskVersions
  <2> QED BY <1>3, <2>1, <2>2 DEF AskVersions
<1>4. CASE AskNas
  <2>1. /\ imsCall = "nas" /\ imsCall' \in {"services", "settings"}
        /\ spent' \in BOOLEAN
        /\ imsCall' = "settings" => blockers' = {"services", "registration"}
        /\ imsCall' = "services" => blockers' = blockers
    BY <1>4 DEF AskNas, Answered, Failed
  <2>2. ims' = ims \/ ims' = [ims EXCEPT !.warnings = @ \cup {"nas"}]
    BY <1>4 DEF AskNas, Warn
  <2>3. ims' \in ImsRecord
    BY <2>2 DEF Complaints
  <2> QED BY <2>1, <2>3 DEF Complaints
<1>5. CASE AskServices
  <2>1. /\ imsCall = "services" /\ imsCall' = "registration"
        /\ spent' \in BOOLEAN
    BY <1>5 DEF AskServices, Answered, Failed
  <2>2. ASSUME NEW sms \in Services, NEW voice \in Services,
               NEW t \in Technologies,
               ims' = [ims EXCEPT !.smsService = sms, !.voiceService = voice,
                                  !.technology = t],
               blockers' = blockers \cup Unrecognized(sms, "sms")
                                    \cup Unrecognized(voice, "voice")
        PROVE  ImsInv'
    <3>1. ims' \in ImsRecord /\ ims'.smsService = sms /\ ims'.voiceService = voice
      BY <2>2
    <3>2. blockers' \subseteq Complaints
      BY <2>2 DEF Unrecognized, Complaints
    <3>3. /\ sms = "unknown" => "sms" \in blockers'
          /\ voice = "unknown" => "voice" \in blockers'
      BY <2>2 DEF Unrecognized
    <3> QED BY <2>1, <3>1, <3>2, <3>3
  <2>3. ASSUME blockers' = blockers \cup {"services"}, ims' = ims
        PROVE  ImsInv'
    <3>1. blockers' \subseteq Complaints /\ "services" \in blockers'
      BY <2>3 DEF Complaints
    <3> QED BY <2>1, <2>3, <3>1
  <2> QED BY <1>5, <2>2, <2>3 DEF AskServices
<1>6. CASE AskRegistration
  <2>1. /\ imsCall = "registration" /\ imsCall' = "settings"
        /\ spent' \in BOOLEAN
    BY <1>6 DEF AskRegistration, Answered, Failed
  <2>2. ASSUME NEW registration \in Registrations,
               ims' = [ims EXCEPT !.registration = registration],
               blockers' = blockers
                             \cup Unrecognized(registration, "registration")
        PROVE  ImsInv'
    <3>1. /\ ims' \in ImsRecord /\ ims'.registration = registration
          /\ ims'.smsService = ims.smsService
          /\ ims'.voiceService = ims.voiceService
      BY <2>2
    <3>2. blockers' \subseteq Complaints /\ blockers \subseteq blockers'
      BY <2>2 DEF Unrecognized, Complaints
    <3>3. registration = "unknown" => "registration" \in blockers'
      BY <2>2 DEF Unrecognized
    <3> QED BY <2>1, <3>1, <3>2, <3>3
  <2>3. ASSUME blockers' = blockers \cup {"registration"}, ims' = ims
        PROVE  ImsInv'
    <3>1. blockers' \subseteq Complaints /\ "registration" \in blockers'
      BY <2>3 DEF Complaints
    <3> QED BY <2>1, <2>3, <3>1
  <2> QED BY <1>6, <2>2, <2>3 DEF AskRegistration
<1>7. CASE AskSettings
  <2>1. /\ imsCall = "settings" /\ imsCall' = "classify"
        /\ spent' \in BOOLEAN /\ blockers' = blockers
    BY <1>7 DEF AskSettings, Answered, Failed
  <2>2. \/ ims' = [ims EXCEPT !.settings = "known"]
        \/ ims' = [ims EXCEPT !.warnings = @ \cup {"settings"}]
    BY <1>7 DEF AskSettings, Warn
  <2>3. /\ ims' \in ImsRecord /\ ims'.registration = ims.registration
        /\ ims'.smsService = ims.smsService
        /\ ims'.voiceService = ims.voiceService
        /\ ims'.settings = "known" \/ "settings" \in ims'.warnings
    BY <2>2 DEF Complaints, Settings
  <2> QED BY <2>1, <2>3
<1>8. CASE ConcludeIms
  <2>1. ims' = Concluded(ims) /\ imsCall' = "done" /\ imsCall = "classify"
        /\ UNCHANGED <<blockers, spent>>
    BY <1>8 DEF ConcludeIms
  <2>2. PICK q : q = Concluded(ims)
    OBVIOUS
  <2>3. /\ q \in ImsRecord
        /\ blockers \cup ims.warnings \subseteq q.reasons \cup q.warnings
        /\ q.registration = ims.registration /\ q.smsService = ims.smsService
        /\ q.voiceService = ims.voiceService /\ q.settings = ims.settings
        /\ q.status = "unknown" =>
             q.registration = "unknown" \/ q.smsService = "unknown"
        /\ q.voice = "unknown" =>
             \/ q.registration = "unknown" \/ q.voiceService = "unknown"
             \/ /\ q.registration = "registered"
                /\ q.voiceService = "available" /\ q.technology = "unknown"
        /\ q.status = "unknown" /\ q.voice = "unknown" => q.reasons = blockers
    BY <2>2, ConcludedTells
  <2>4. PICK told : told = q.reasons \cup q.warnings
    OBVIOUS
  <2>5. /\ q.registration = "unknown" => "registration" \in blockers
        /\ ServicesNamed(q, blockers)
        /\ q.settings = "unknown" => "settings" \in ims.warnings
    BY <2>1, <2>3
  <2>6. /\ q.registration = "unknown" => "registration" \in told
        /\ ServicesNamed(q, told)
        /\ q.settings = "unknown" => "settings" \in told
    BY <2>3, <2>4, <2>5
  <2>7. ims' = q /\ Told' = told
    BY <2>1, <2>2, <2>4
  <2>8. GapsAreNamed'
    BY <2>6, <2>7
  <2>9. UnknownIsExplained'
    <3>1. /\ q.status = "unknown" => told \cap {"registration", "sms", "services"} # {}
          /\ q.status = "unknown" /\ q.voice = "unknown" => q.reasons # {}
      BY <2>3, <2>5, <2>6
    <3>2. q.voice = "unknown" =>
            \/ UnnamedTechnology'
            \/ told \cap {"registration", "voice", "services"} # {}
      BY <2>3, <2>6, <2>7 DEF UnnamedTechnology
    <3> QED BY <2>7, <3>1, <3>2
  <2>10. GapsAreTold'
    BY <2>8, <2>9 DEF UnnamedTechnology
  <2> HIDE DEF GapsAreTold
  <2> QED BY <2>1, <2>3, <2>7, <2>10
<1>9. CASE UNCHANGED imsVars
  BY <1>9 DEF imsVars, UnnamedTechnology
<1> QED BY <1>1, <1>2, <1>3, <1>4, <1>5, <1>6, <1>7, <1>8, <1>9 DEF ImsNext

\* No probe was made.
LEMMA ImsInitInv == ImsInit => ImsInv
<1>1. NoIms \in ImsRecord
  BY DEF NoIms, ImsRecord, ImsStatuses, VoiceStatuses, Registrations, Services,
         Technologies, Settings, Complaints
<1>2. NoIms.reasons = {"not_attempted"}
  BY DEF NoIms
<1> QED BY <1>1, <1>2 DEF ImsInit, ImsInv, ImsCalls, GapsAreTold, AskedServices,
                          UnknownIsExplained, GapsAreNamed

\* With every combination of answers, failures and a deadline that passes at
\* any query, registration, the services, the settings and the status of
\* messages do not stay unknown without a word, nor does voice but for a
\* technology that is not recognized (probe_inner, classify).
THEOREM ProbeTellsGaps == ImsSpec => []GapsAreTold
<1>1. ImsInit => ImsInv
  BY ImsInitInv
<1>2. ImsInv /\ [ImsNext]_imsVars => ImsInv'
  BY ImsStep
<1>3. ImsInv => GapsAreTold
  BY DEF ImsInv
<1> QED BY <1>1, <1>2, <1>3, PTL DEF ImsSpec

(***************************************************************************)
(* The status of the modem                                                 *)
(***************************************************************************)
\* What was put together of a report and what filled in its gaps.
PutTogether ==
    /\ tool \in {"json", "text"}
    /\ level # "unknown" /\ (level # "ok" => reasons # {})
    /\ level = "ok" => known.present /\ Found(known) = {} /\ Usable(known)
    /\ tool = "json" => level = Classify(known, "unknown", {}).level
    /\ reasons \cap {"sim_not_ready", "messaging_unavailable"}
         \subseteq Found(known)

\* Until the SIM has been asked, the reasons in JSON are those of a report.
InFull ==
    /\ PutTogether
    /\ tool = "json" => reasons = Classify(known, "unknown", {}).reasons
    /\ tool = "text" => "text_fallback_limited" \in reasons

\* Nothing has been told yet.
NothingTold == known = NoReport /\ level = "unknown" /\ reasons = {}

\* At each call the status is as far as the calls before it have told.
StatusInv ==
    /\ known \in Report /\ reasons \subseteq Reasons
    /\ probe \in StatusCalls
    /\ probe \in {"version", "modem", "list", "listed"} => NothingTold
    /\ probe \in {"modem", "list", "listed", "drift"} => tool # "unknown"
    /\ tool \in {"unknown", "json", "text"}
    /\ probe = "drift" =>
         known = NoReport /\ level = "error" /\ reasons # {}
    /\ probe = "messaging" => ~known.storages
    /\ probe \in {"messaging", "sim"} => InFull
    /\ probe = "done" =>
         \/ PutTogether
         \/ known = NoReport /\ level # "ok" /\ (level # "unknown" => reasons # {})

\* What classify says of a report.
LEMMA Classified ==
    ASSUME NEW r \in Report, NEW H \in SUBSET Reasons,
           NEW c, c = Classify(r, "unknown", H)
    PROVE  /\ c.level \in {"ok", "degraded", "error"}
           /\ c.level = "ok" => r.present /\ Found(r) = {} /\ Usable(r)
           /\ c.level # "ok" => c.reasons # {}
           /\ c.level = Classify(r, "unknown", {}).level
           /\ H \subseteq c.reasons /\ c.reasons \subseteq Reasons
           /\ c.reasons \cap {"sim_not_ready", "messaging_unavailable"}
                \subseteq H \cup Found(r)
<1>1. Found(r) \subseteq Reasons
  BY DEF Found
<1>2. {"modem_path_unresolved", "modem_state_unhealthy"} \subseteq Reasons
  BY DEF Reasons
<1>3. CASE ~r.present
  <2>1. c = [level |-> "error", reasons |-> H \cup {"modem_path_unresolved"}]
    BY <1>3 DEF Classify
  <2>2. Classify(r, "unknown", {}).level = "error"
    BY <1>3 DEF Classify
  <2> QED BY <1>2, <2>1, <2>2
<1>4. CASE r.present /\ Found(r) # {}
  <2>1. c = [level |-> "degraded", reasons |-> H \cup Found(r)]
    BY <1>4 DEF Classify
  <2>2. Classify(r, "unknown", {}).level = "degraded"
    BY <1>4 DEF Classify
  <2> QED BY <1>1, <1>4, <2>1, <2>2
<1>5. CASE r.present /\ Found(r) = {} /\ Usable(r)
  <2>1. c = [level |-> "ok", reasons |-> H]
    BY <1>5 DEF Classify
  <2>2. Classify(r, "unknown", {}).level = "ok"
    BY <1>5 DEF Classify
  <2> QED BY <1>5, <2>1, <2>2
<1>6. CASE r.present /\ Found(r) = {} /\ ~Usable(r)
  <2>1. c = [level |-> "degraded", reasons |-> H \cup {"modem_state_unhealthy"}]
    BY <1>6 DEF Classify
  <2>2. Classify(r, "unknown", {}).level = "degraded"
    BY <1>6 DEF Classify
  <2> QED BY <1>2, <2>1, <2>2
<1> QED BY <1>3, <1>4, <1>5, <1>6

\* A report: the verdict is of what it says.
LEMMA ReportRead ==
    ASSUME NEW r \in Report, tool \in {"json", "text"}, tool' = tool,
           known' = r, level' = Parsed(r).level, reasons' = Parsed(r).reasons
    PROVE  InFull' /\ reasons' \subseteq Reasons
<1>1. PICK H, c : /\ H = IF tool = "json" THEN {} ELSE {"text_fallback_limited"}
                  /\ c = Classify(r, "unknown", H)
  OBVIOUS
<1>2. H \in SUBSET Reasons
  BY <1>1 DEF Reasons
<1>3. level' = c.level /\ reasons' = c.reasons
  BY <1>1 DEF Parsed
<1>4. /\ c.level \in {"ok", "degraded", "error"}
      /\ c.level = "ok" => r.present /\ Found(r) = {} /\ Usable(r)
      /\ c.level # "ok" => c.reasons # {}
      /\ c.level = Classify(r, "unknown", {}).level
      /\ H \subseteq c.reasons /\ c.reasons \subseteq Reasons
      /\ c.reasons \cap {"sim_not_ready", "messaging_unavailable"}
           \subseteq H \cup Found(r)
  BY <1>1, <1>2, Classified
<1>5. c.reasons \cap {"sim_not_ready", "messaging_unavailable"} \subseteq Found(r)
  BY <1>1, <1>4
<1>6. PutTogether'
  BY <1>3, <1>4, <1>5 DEF PutTogether
<1>7. tool = "json" => c.reasons = Classify(r, "unknown", {}).reasons
  BY <1>1
<1>8. tool = "text" => "text_fallback_limited" \in c.reasons
  BY <1>1, <1>4
<1> QED BY <1>3, <1>4, <1>6, <1>7, <1>8 DEF InFull

\* Storages that were found after all.
LEMMA StoragesFound ==
    ASSUME known \in Report, InFull, ~known.storages, tool' = tool,
           reasons \subseteq Reasons,
           NEW r, r = [known EXCEPT !.storages = TRUE], known' = r,
           NEW v, v = Cured(r, "messaging_unavailable"),
           level' = v.level, reasons' = v.reasons
    PROVE  r \in Report /\ InFull' /\ reasons' \subseteq Reasons
<1>1. r \in Report
  BY DEF Report
<1>2. /\ r.present = known.present /\ r.state = known.state /\ r.sim = known.sim
      /\ r.storages
  BY DEF Report
<1>3. Found(r) = Found(known) \ {"messaging_unavailable"}
  BY <1>2 DEF Found, Enabled
<1>4. "messaging_unavailable" \in Found(known)
  BY DEF Found, Reasons
<1>5. PICK rest : rest = reasons \ {"messaging_unavailable"}
  OBVIOUS
<1>6. level # "unknown" /\ level # "ok" /\ tool \in {"json", "text"}
  BY <1>4 DEF InFull, PutTogether
<1>7. rest \cap {"sim_not_ready", "messaging_unavailable"} \subseteq Found(r)
  BY <1>3, <1>5 DEF InFull, PutTogether
<1>8. CASE rest # {}
  <2>1. level' = level /\ reasons' = rest
    BY <1>5, <1>8 DEF Cured
  <2>2. ASSUME tool = "json"
        PROVE  /\ level = Classify(r, "unknown", {}).level
               /\ rest = Classify(r, "unknown", {}).reasons
    <3>1. /\ level = Classify(known, "unknown", {}).level
          /\ reasons = Classify(known, "unknown", {}).reasons
      BY <2>2 DEF InFull, PutTogether
    <3>2. CASE ~known.present
      <4>1. PICK c : c = [level |-> "error",
                          reasons |-> {} \cup {"modem_path_unresolved"}]
        OBVIOUS
      <4>2. /\ Classify(known, "unknown", {}) = c
            /\ Classify(r, "unknown", {}) = c
        BY <1>2, <3>2, <4>1 DEF Classify
      <4>3. c.level = "error" /\ c.reasons = {"modem_path_unresolved"}
        BY <4>1
      <4>4. level = c.level /\ reasons = {"modem_path_unresolved"}
        BY <3>1, <4>2, <4>3
      <4>5. rest = c.reasons
        BY <1>5, <4>3, <4>4
      <4> QED BY <4>2, <4>4, <4>5
    <3>3. CASE known.present
      <4>1. Classify(known, "unknown", {})
              = [level |-> "degraded", reasons |-> {} \cup Found(known)]
        BY <1>4, <3>3 DEF Classify
      <4>2. reasons = Found(known) /\ level = "degraded"
        BY <3>1, <4>1
      <4>3. rest = Found(r)
        BY <1>3, <1>5, <4>2
      <4>4. PICK c : c = [level |-> "degraded", reasons |-> {} \cup Found(r)]
        OBVIOUS
      <4>5. Classify(r, "unknown", {}) = c
        BY <1>2, <1>8, <3>3, <4>3, <4>4 DEF Classify
      <4>6. c.level = "degraded" /\ c.reasons = Found(r)
        BY <4>4
      <4> QED BY <4>2, <4>3, <4>5, <4>6
    <3> QED BY <3>2, <3>3
  <2>3. tool = "text" => "text_fallback_limited" \in rest
    BY <1>5 DEF InFull
  <2>4. PutTogether'
    BY <1>6, <1>7, <1>8, <2>1, <2>2 DEF PutTogether
  <2>5. rest \subseteq Reasons
    BY <1>5
  <2> QED BY <1>1, <2>1, <2>2, <2>3, <2>4, <2>5 DEF InFull
<1>9. CASE rest = {}
  <2>1. v = Classify(r, "unknown", {})
    BY <1>5, <1>9 DEF Cured
  <2>2. tool = "json"
    BY <1>5, <1>6, <1>9 DEF InFull
  <2>3. v = Parsed(r)
    BY <2>1, <2>2 DEF Parsed
  <2>4. level' = Parsed(r).level /\ reasons' = Parsed(r).reasons
    BY <2>3
  <2> QED BY <1>1, <1>6, <2>4, ReportRead
<1> QED BY <1>8, <1>9

\* A SIM that was asked at last, by a service that reads JSON.
LEMMA SimFound ==
    ASSUME known \in Report, InFull, known.sim = "none", tool = "json",
           tool' = tool, reasons \subseteq Reasons,
           NEW sim \in SimStates \ {"none"},
           NEW r, r = [known EXCEPT !.sim = sim], known' = r,
           NEW v, v = Cured(r, "sim_not_ready"),
           level' = v.level, reasons' = v.reasons
    PROVE  r \in Report /\ PutTogether' /\ reasons' \subseteq Reasons
<1>1. r \in Report
  BY DEF Report
<1>2. /\ r.present = known.present /\ r.state = known.state
      /\ r.storages = known.storages
  BY DEF Report
<1>3. Found(known) \subseteq Found(r)
  BY <1>2 DEF Found, Enabled
<1>4. PICK rest : rest = reasons \ {"sim_not_ready"}
  OBVIOUS
<1>5. "sim_not_ready" \notin Found(known)
  BY DEF Found
<1>6. rest = reasons
  BY <1>4, <1>5 DEF InFull, PutTogether
<1>7. CASE rest = {}
  <2>1. v = Parsed(r)
    BY <1>4, <1>7 DEF Cured, Parsed
  <2>2. level' = Parsed(r).level /\ reasons' = Parsed(r).reasons
    BY <2>1
  <2> QED BY <1>1, <2>2, ReportRead DEF InFull
<1>8. CASE rest # {}
  <2>1. level' = level /\ reasons' = reasons
    BY <1>4, <1>6, <1>8 DEF Cured
  <2>2. /\ level = Classify(known, "unknown", {}).level
        /\ reasons = Classify(known, "unknown", {}).reasons
    BY DEF InFull, PutTogether
  <2>3. level = Classify(r, "unknown", {}).level /\ level # "ok"
    <3>1. CASE ~known.present
      <4>1. /\ Classify(known, "unknown", {}).level = "error"
            /\ Classify(r, "unknown", {}).level = "error"
        BY <1>2, <3>1 DEF Classify
      <4> QED BY <2>2, <4>1
    <3>2. CASE known.present /\ Found(known) # {}
      <4>1. Found(r) # {}
        BY <1>3, <3>2
      <4>2. /\ Classify(known, "unknown", {}).level = "degraded"
            /\ Classify(r, "unknown", {}).level = "degraded"
        BY <1>2, <3>2, <4>1 DEF Classify
      <4> QED BY <2>2, <4>2
    <3>3. CASE known.present /\ Found(known) = {}
      <4>1. ~Usable(known)
        <5>1. SUFFICES ASSUME Usable(known) PROVE FALSE
          OBVIOUS
        <5>2. Classify(known, "unknown", {}) = [level |-> "ok", reasons |-> {}]
          BY <3>3, <5>1 DEF Classify
        <5> QED BY <1>6, <1>8, <2>2, <5>2
      <4>2. ~Usable(r)
        BY <1>2, <4>1 DEF Usable
      <4>3. /\ Classify(known, "unknown", {}).level = "degraded"
            /\ Classify(r, "unknown", {}).level = "degraded"
        BY <1>2, <3>3, <4>1, <4>2 DEF Classify
      <4> QED BY <2>2, <4>3
    <3> QED BY <3>1, <3>2, <3>3
  <2>4. reasons \cap {"sim_not_ready", "messaging_unavailable"} \subseteq Found(r)
    BY <1>3 DEF InFull, PutTogether
  <2>5. reasons # {} /\ level # "unknown" /\ tool' = "json"
    BY <1>6, <1>8 DEF InFull, PutTogether
  <2> QED BY <1>1, <2>1, <2>3, <2>4, <2>5 DEF PutTogether
<1> QED BY <1>7, <1>8

\* A call that fails leaves nothing but its reason.
LEMMA FailureTold ==
    ASSUME NEW next, NEW l, NEW reason \in Reasons, FailTo(next, l, reason)
    PROVE  /\ probe' = next /\ known' = NoReport /\ level' = l
           /\ reasons' = {reason} /\ reasons' \subseteq Reasons /\ reasons' # {}
           /\ known' \in Report
BY DEF FailTo, NoReport, Report, States, SimStates

\* Every call keeps the invariant.
LEMMA StatusStep ==
    ASSUME StatusInv, [StatusNext]_statusVars
    PROVE  StatusInv'
<1> USE DEF StatusInv, StatusCalls
<1>1. NoReport \in Report
  BY DEF NoReport, Report, States, SimStates
<1>2. {"mmcli_probe_failed", "mmcli_parse_failed", "mmcli_timeout",
       "modem_path_unresolved", "modem_path_drift_candidate"} \subseteq Reasons
  BY DEF Reasons
<1>3. CASE AskStatus
  BY <1>1, <1>3 DEF AskStatus, NothingTold
<1>4. CASE DetectTool
  <2>1. CASE /\ tool' = "json" /\ probe' = "modem"
             /\ UNCHANGED <<known, level, reasons>>
    BY <1>4, <2>1 DEF DetectTool, NothingTold
  <2>2. CASE tool' = tool /\ FailTo("done", "unknown", "mmcli_probe_failed")
    BY <1>2, <2>2, FailureTold
  <2> QED BY <1>4, <2>1, <2>2 DEF DetectTool, Fail
<1>5. CASE ReadModem
  <2>1. tool' = tool /\ tool \in {"json", "text"}
    BY <1>5 DEF ReadModem
  <2>2. ASSUME NEW r \in Report, known' = r, Judge(Parsed(r)),
               probe' = AfterReport(r)
        PROVE  StatusInv'
    <3>1. InFull' /\ reasons' \subseteq Reasons
      BY <2>1, <2>2, ReportRead DEF Judge
    <3>2. probe' \in {"messaging", "sim"} /\ (probe' = "messaging" => ~known'.storages)
      BY <2>2 DEF AfterReport
    <3> QED BY <2>1, <2>2, <3>1, <3>2
  <2>3. CASE FailTo("done", "error", "mmcli_parse_failed")
    BY <1>2, <2>1, <2>3, FailureTold
  <2> QED BY <1>5, <2>2, <2>3 DEF ReadModem, Fail
<1>6. CASE FallBackToText
  BY <1>6 DEF FallBackToText, NothingTold
<1>7. CASE ModemFails
  <2>1. tool' = tool /\ tool \in {"json", "text"}
    BY <1>7 DEF ModemFails
  <2>2. CASE FailTo("done", "error", "mmcli_timeout")
    BY <1>2, <2>1, <2>2, FailureTold
  <2>3. CASE FailTo("done", "error", "modem_path_unresolved")
    BY <1>2, <2>1, <2>3, FailureTold
  <2>4. CASE probe = "modem" /\ probe' = "list" /\ UNCHANGED <<known, level, reasons>>
    BY <2>1, <2>4 DEF NothingTold
  <2> QED BY <1>7, <2>2, <2>3, <2>4 DEF ModemFails, Fail
<1>8. CASE ResolveId
  <2>1. probe = "list" /\ tool' = tool /\ tool \in {"json", "text"}
    BY <1>8 DEF ResolveId
  <2>2. CASE probe' = "listed" /\ UNCHANGED <<known, level, reasons>>
    BY <2>1, <2>2 DEF NothingTold
  <2>3. CASE FailTo("drift", "error", "modem_path_unresolved")
    BY <1>2, <2>1, <2>3, FailureTold
  <2> QED BY <1>8, <2>2, <2>3 DEF ResolveId
<1>9. CASE FindDrift
  <2>1. probe = "drift" /\ tool' = tool
    BY <1>9 DEF FindDrift
  <2>2. CASE FailTo("done", "degraded", "modem_path_drift_candidate")
    BY <1>2, <2>1, <2>2, FailureTold
  <2>3. CASE probe' = "done" /\ UNCHANGED <<known, level, reasons>>
    BY <2>1, <2>3
  <2> QED BY <1>9, <2>2, <2>3 DEF FindDrift, Fail
<1>10. CASE EnrichMessaging
  <2>1. /\ probe = "messaging" /\ probe' = "sim" /\ tool' = tool
        /\ InFull /\ ~known.storages /\ tool \in {"json", "text"}
    BY <1>10 DEF EnrichMessaging, InFull, PutTogether
  <2>2. CASE /\ known' = [known EXCEPT !.storages = TRUE]
             /\ Judge(Cured(known', "messaging_unavailable"))
    <3>1. PICK r, v : /\ r = [known EXCEPT !.storages = TRUE]
                      /\ v = Cured(r, "messaging_unavailable")
      OBVIOUS
    <3>2. known' = r /\ level' = v.level /\ reasons' = v.reasons
      BY <2>2, <3>1 DEF Judge
    <3>3. r \in Report /\ InFull' /\ reasons' \subseteq Reasons
      BY <2>1, <3>1, <3>2, StoragesFound
    <3> QED BY <2>1, <3>2, <3>3
  <2>3. CASE UNCHANGED <<known, level, reasons>>
    BY <2>1, <2>3 DEF InFull, PutTogether
  <2> QED BY <1>10, <2>2, <2>3 DEF EnrichMessaging
<1>11. CASE EnrichSim
  <2>1. probe = "sim" /\ probe' = "done" /\ tool' = tool /\ InFull
        /\ tool \in {"json", "text"}
    BY <1>11 DEF EnrichSim, InFull, PutTogether
  <2>2. ASSUME known.sim = "none", tool = "json",
               NEW sim \in SimStates \ {"none"},
               known' = [known EXCEPT !.sim = sim],
               Judge(Cured(known', "sim_not_ready"))
        PROVE  StatusInv'
    <3>1. PICK r, v : /\ r = [known EXCEPT !.sim = sim]
                      /\ v = Cured(r, "sim_not_ready")
      OBVIOUS
    <3>2. known' = r /\ level' = v.level /\ reasons' = v.reasons
      BY <2>2, <3>1 DEF Judge
    <3>3. r \in Report /\ PutTogether' /\ reasons' \subseteq Reasons
      BY <2>1, <2>2, <3>1, <3>2, SimFound
    <3> QED BY <2>1, <3>2, <3>3
  <2>3. CASE UNCHANGED <<known, level, reasons>>
    BY <2>1, <2>3 DEF InFull, PutTogether
  <2> QED BY <1>11, <2>2, <2>3 DEF EnrichSim
<1>12. CASE UNCHANGED statusVars
  BY <1>12 DEF statusVars, NothingTold, InFull, PutTogether
<1> QED BY <1>3, <1>4, <1>5, <1>6, <1>7, <1>8, <1>9, <1>10, <1>11, <1>12
        DEF StatusNext

\* No status was asked for.
LEMMA StatusInitInv == StatusInit => StatusInv
BY DEF StatusInit, StatusInv, StatusCalls, NoReport, Report, States, SimStates

\* A status put together from several calls, any of which may fail or find a
\* modem that has changed, is judged as a whole (status_internal).
THEOREM StatusAlwaysEarned == StatusSpec => []StatusIsEarned
<1>1. StatusInit => StatusInv
  BY StatusInitInv
<1>2. StatusInv => StatusIsEarned
  <2> SUFFICES ASSUME StatusInv, probe = "done" PROVE StatusIsEarned
    BY DEF StatusIsEarned, OkIsEarned, LevelOfTheWhole, ReasonsHold
  <2>1. CASE PutTogether
    <3>1. Found(known) = {} => known.storages /\ known.sim \in {"none", "ready"}
      BY DEF Found, Reasons
    <3> QED BY <2>1, <3>1 DEF PutTogether, StatusIsEarned, OkIsEarned,
                              LevelOfTheWhole, ReasonsHold
  <2>2. CASE known = NoReport /\ level # "ok" /\ (level # "unknown" => reasons # {})
    BY <2>2 DEF StatusIsEarned, OkIsEarned, LevelOfTheWhole, ReasonsHold
  <2> QED BY <2>1, <2>2 DEF StatusInv
<1> QED BY <1>1, <1>2, StatusStep, PTL DEF StatusSpec

=============================================================================
